------------------------ MODULE PrachCaptureProofs ------------------------
(***************************************************************************)
(* Theorems about PrachCapture, for every numbering, lookback, repository  *)
(* and buffer size, PRACH eAxC list and set of requests.  The lemmas take  *)
(* a TTI of any offset and drift, so that they hold under the slot aligner *)
(* too (PrachAlignedProofs).                                               *)
(***************************************************************************)
EXTENDS PrachCapture, NumberTheorems, FunctionTheorems, FiniteSetTheorems, TLAPS

\* A TTI, whatever the aligner did before it.
AnyTti == \E o \in WireSlots, drift \in Nat \cup {-1} : OnTtiWith(o, drift)

\* Nothing is peeked from before time 0.
PeekInv == tti >= Lookback

LEMMA WireTypes ==
  /\ \A n \in Int : n % Period \in WireSlots
  /\ \A n \in Int : n % RadioPeriod \in RadioSlots
  /\ \A n \in Int : RepositoryIndex(n) \in Indices
  /\ AlignedOffset \in WireSlots
  /\ 0 \in WireSlots
<1>1. \A n \in Int : n % Period \in WireSlots /\ n % RadioPeriod \in RadioSlots
  BY SlotAssumption DEF WireSlots, RadioSlots
<1>2. \A n \in Int : RepositoryIndex(n) \in Indices
  BY <1>1, SlotAssumption DEF Indices, RepositoryIndex, WireSlots
<1>3. AlignedOffset \in WireSlots
  <2>1. RadioSlot(0) \in Int
    BY SlotAssumption, RadioShiftAssumption DEF RadioSlot
  <2>. DEFINE r == RadioSlot(0)
  <2>2. 0 + Period - (r % Period) \in Int
    BY <2>1, SlotAssumption
  <2>. QED  BY <2>2, <1>1 DEF AlignedOffset, MeasureGpsSlotOffset
<1>4. 0 \in WireSlots
  BY SlotAssumption DEF WireSlots
<1>. QED  BY <1>1, <1>2, <1>3, <1>4

LEMMA PortTypes ==
  /\ Len(PrachEaxc) \in Nat \ {0}
  /\ NofPorts \in Nat \ {0} /\ NofPorts =< Len(PrachEaxc)
  /\ \A p \in 1 .. Len(PrachEaxc) : PrachEaxc[p] \in PrachEaxcSet
  /\ \A p \in 1 .. NofPorts : PrachEaxc[p] \in PrachEaxcSet
<1>1. Len(PrachEaxc) \in Nat \ {0}
  BY EaxcAssumption, PrachAssumption
<1>2. NofPorts \in Nat \ {0} /\ NofPorts =< Len(PrachEaxc)
  BY <1>1, PrachAssumption DEF NofPorts
<1>3. \A p \in 1 .. Len(PrachEaxc) : PrachEaxc[p] \in PrachEaxcSet
  BY DEF PrachEaxcSet
<1>. QED  BY <1>1, <1>2, <1>3

LEMMA RadioSlotType == \A n \in Int : RadioSlot(n) \in RadioSlots /\ RadioSlot(n) \in Int
BY RadioShiftAssumption, SlotAssumption DEF RadioSlot, RadioSlots

LEMMA ConfiguredPort ==
  ASSUME NEW m, Route(m) = "prach"
  PROVE  m.eaxc \in PrachEaxcSet
<1>1. Configured(PrachEaxc, m.eaxc)
  BY DEF Route
<1>. QED  BY <1>1 DEF Configured, PrachEaxcSet

\* What a recorded PRACH request looks like.
LEMMA RequestType ==
  ASSUME NEW a \in Nat, NEW range \in Ranges, NEW sid \in SectionIds,
         NEW eaxc, NEW cellScs \in BOOLEAN
  PROVE  LET m == [prach |-> TRUE, uplink |-> TRUE, eaxc |-> eaxc, air |-> a,
                   range |-> range, sid |-> sid]
             q == WithScs(ToRequest(m), cellScs)
         IN  /\ q \in PrachEntries
             /\ q.slot = a % Period /\ q.air = a /\ q.prach /\ q.nof = range[2]
             /\ Route(m) = "prach" => eaxc \in PrachEaxcSet
<1> DEFINE m == [prach |-> TRUE, uplink |-> TRUE, eaxc |-> eaxc, air |-> a,
                 range |-> range, sid |-> sid]
           q == WithScs(ToRequest(m), cellScs)
<1>1. range[1] \in Nat /\ range[2] \in Nat
  BY RequestAssumption
<1>2. a % Period \in WireSlots
  BY WireTypes
<1>3. q = [slot |-> a % Period, start |-> range[1], nof |-> range[2], sid |-> sid,
           air |-> a, prach |-> TRUE, cellScs |-> cellScs]
  BY DEF WithScs, ToRequest
<1>4. q \in PrachEntries
  <2>. HIDE DEF q
  <2>. QED  BY <1>1, <1>2, <1>3 DEF PrachEntries
<1>5. Route(m) = "prach" => eaxc \in PrachEaxcSet
  <2>1. m.eaxc = eaxc
    OBVIOUS
  <2>. HIDE DEF m
  <2>. QED  BY <2>1, ConfiguredPort
<1>. QED  BY <1>3, <1>4, <1>5

\* peek_prach_occasion returns an entry for the slot, whenever there is one.
LEMMA PeekType ==
  ASSUME TypeOK, NEW slot \in Int, Occasions(slot) # {}
  PROVE  \E p \in 1 .. Len(PrachEaxc) :
           /\ Has(repo, slot, PrachEaxc[p])
           /\ PeekOccasion(slot) = Get(repo, slot, PrachEaxc[p])
           /\ PeekOccasion(slot) \in PrachEntries
<1> DEFINE O == Occasions(slot)
<1>1. O \subseteq Nat /\ O \subseteq 1 .. Len(PrachEaxc)
  BY PortTypes DEF Occasions
<1>2. \E p \in O : \A q \in O : p =< q
  BY <1>1, SmallestElement
<1> DEFINE first == CHOOSE p \in O : \A q \in O : p =< q
<1>3. first \in O
  BY <1>2
<1>4. PeekOccasion(slot) = Get(repo, slot, PrachEaxc[first])
  BY DEF PeekOccasion
<1>5. Has(repo, slot, PrachEaxc[first])
  BY <1>3 DEF Occasions
<1>. HIDE DEF first, O
<1>6. PrachEaxc[first] \in PrachEaxcSet
  BY <1>1, <1>3, PortTypes
<1>7. Get(repo, slot, PrachEaxc[first]) \in PrachEntries
  BY <1>6, WireTypes DEF TypeOK, Get
<1>. QED  BY <1>1, <1>3, <1>4, <1>5, <1>7

\* The slot sampled for a capture: the lookback, but for whole radio periods.
LEMMA CaptureAir ==
  ASSUME NEW r \in Int
  PROVE  /\ CapturedSlot(r) \in RadioSlots
         /\ SlotPlus(r, -CapturedSlot(r)) = Lookback % RadioPeriod
         /\ Lookback % RadioPeriod \in 0 .. Lookback
<1> DEFINE R == RadioPeriod
           x == r - Lookback
<1>1. R \in Nat \ {0} /\ Lookback \in Nat /\ x \in Int
  BY SlotAssumption, PrachAssumption
<1>2. CapturedSlot(r) = x % R
  BY PrachAssumption DEF CapturedSlot, SlotPlus
<1>3. SlotPlus(r, -CapturedSlot(r)) = (r - (x % R)) % R
  BY <1>2, SlotAssumption DEF SlotPlus
<1>4. (r - (x % R)) % R = (r - x) % R
  BY <1>1, ModAdd
<1>5. r - x = Lookback
  BY <1>1
<1>6. CapturedSlot(r) \in RadioSlots
  BY <1>1, <1>2, WireTypes
<1>7. Lookback % R \in 0 .. Lookback
  <2>1. Lookback < R => Lookback % R = Lookback
    BY <1>1
  <2>2. Lookback % R \in 0 .. (R - 1)
    BY <1>1
  <2>. QED  BY <2>1, <2>2, <1>1
<1>. QED  BY <1>3, <1>4, <1>5, <1>6, <1>7

LEMMA NextPortType ==
  ASSUME TypeOK, NextPort
  PROVE  window' \in [pc : {"idle", "get", "clear"}, slot : WireSlots, air : Nat, start : Nat,
                      port : 1 .. NofPorts]
<1>1. CASE window.port = NofPorts
  BY <1>1, WireTypes, PortTypes DEF NextPort, NoWindow
<1>2. CASE window.port # NofPorts
  <2>1. window' = [window EXCEPT !.pc = "get", !.port = window.port + 1]
    BY <1>2 DEF NextPort
  <2>2. window.port + 1 \in 1 .. NofPorts
    BY <1>2, PortTypes DEF TypeOK
  <2>. QED  BY <2>1, <2>2 DEF TypeOK
<1>. QED  BY <1>1, <1>2

LEMMA ClearType ==
  ASSUME TypeOK, NEW slot \in WireSlots, NEW e \in PrachEaxcSet
  PROVE  LET i == RepositoryIndex(slot)
         IN  /\ i \in Indices
             /\ Clear(repo, slot, e) \in [Indices -> [PrachEaxcSet -> PrachEntries]]
             /\ \A k \in Indices, f \in PrachEaxcSet :
                  Clear(repo, slot, e)[k][f] =
                    IF k = i /\ f = e /\ repo[i][e].slot = slot
                    THEN [repo[i][e] EXCEPT !.nof = 0] ELSE repo[k][f]
<1> DEFINE i == RepositoryIndex(slot)
<1>1. i \in Indices
  BY WireTypes, SlotAssumption DEF WireSlots
<1>2. repo \in [Indices -> [PrachEaxcSet -> PrachEntries]]
  BY DEF TypeOK
<1>. HIDE DEF i
<1>3. [repo[i][e] EXCEPT !.nof = 0] \in PrachEntries
  <2>1. repo[i][e] \in PrachEntries
    BY <1>1, <1>2
  <2>. QED  BY <2>1 DEF PrachEntries
<1>4. CASE repo[i][e].slot = slot
  <2>1. Clear(repo, slot, e) = [repo EXCEPT ![i] = [repo[i] EXCEPT ![e] = [repo[i][e] EXCEPT !.nof = 0]]]
    BY <1>4 DEF Clear, i
  <2>. QED  BY <2>1, <1>1, <1>2, <1>3, <1>4 DEF i
<1>5. CASE repo[i][e].slot # slot
  BY <1>1, <1>2, <1>5 DEF Clear, i
<1>. QED  BY <1>4, <1>5

LEMMA AddType ==
  ASSUME TypeOK, NEW q \in PrachEntries, q.slot \in WireSlots, NEW e \in PrachEaxcSet
  PROVE  LET i == RepositoryIndex(q.slot)
         IN  /\ i \in Indices
             /\ Add(repo, e, q) \in [Indices -> [PrachEaxcSet -> PrachEntries]]
             /\ \A k \in Indices, f \in PrachEaxcSet :
                  Add(repo, e, q)[k][f] = IF k = i /\ f = e THEN q ELSE repo[k][f]
<1> DEFINE i == RepositoryIndex(q.slot)
<1>1. i \in Indices
  BY WireTypes, SlotAssumption DEF WireSlots
<1>2. repo \in [Indices -> [PrachEaxcSet -> PrachEntries]]
  BY DEF TypeOK
<1>3. Add(repo, e, q) = [repo EXCEPT ![i] = [repo[i] EXCEPT ![e] = q]]
  BY DEF Add
<1>. HIDE DEF i
<1>4. /\ Add(repo, e, q) \in [Indices -> [PrachEaxcSet -> PrachEntries]]
      /\ \A k \in Indices, f \in PrachEaxcSet :
           Add(repo, e, q)[k][f] = IF k = i /\ f = e THEN q ELSE repo[k][f]
  BY <1>1, <1>2, <1>3
<1>. QED  BY <1>1, <1>4 DEF i
-----------------------------------------------------------------------------
\* The environment's operations, one by one.
LEMMA RecordStep ==
  ASSUME TypeOK, PeekInv, RecordPrach
  PROVE  \E lead \in Leads, range \in Ranges, e \in PrachEaxcSet, q \in PrachEntries :
           /\ Peeked + lead \in Nat
           /\ q.slot = (Peeked + lead) % Period /\ q.slot \in WireSlots
           /\ q.air = Peeked + lead /\ q.prach /\ q.nof = range[2]
           /\ q.cellScs \in ScsChoices
           /\ repo' = Add(repo, e, q)
           /\ sent' = {}
           /\ UNCHANGED <<tti, slip, offset, captures, window>>
<1>1. PICK lead \in Leads, eaxc \in Eaxcs, range \in Ranges, sid \in SectionIds,
           cellScs \in ScsChoices :
        LET m == [prach |-> TRUE, uplink |-> TRUE, eaxc |-> eaxc, air |-> Peeked + lead,
                  range |-> range, sid |-> sid]
        IN  /\ Peeked + lead >= 0
            /\ Route(m) = "prach"
            /\ repo' = Add(repo, eaxc, WithScs(ToRequest(m), cellScs))
            /\ sent' = {}
            /\ UNCHANGED <<tti, slip, offset, captures, window>>
  BY DEF RecordPrach
<1> DEFINE m == [prach |-> TRUE, uplink |-> TRUE, eaxc |-> eaxc, air |-> Peeked + lead,
                 range |-> range, sid |-> sid]
           q == WithScs(ToRequest(m), cellScs)
<1>2. Peeked + lead \in Nat
  BY <1>1, PrachAssumption DEF Peeked, TypeOK
<1>3. cellScs \in BOOLEAN
  BY PrachAssumption
<1>4. /\ q \in PrachEntries
      /\ q.slot = (Peeked + lead) % Period /\ q.air = Peeked + lead /\ q.prach /\ q.nof = range[2]
      /\ eaxc \in PrachEaxcSet
  BY <1>1, <1>2, <1>3, RequestType
<1>5. q.cellScs = cellScs
  BY DEF WithScs
<1>6. repo' = Add(repo, eaxc, q) /\ sent' = {} /\ UNCHANGED <<tti, slip, offset, captures, window>>
  BY <1>1
<1>7. q.slot \in WireSlots
  BY <1>2, <1>4, WireTypes
<1>. HIDE DEF q
<1>. QED  BY <1>2, <1>4, <1>5, <1>6, <1>7

LEMMA TtiStep ==
  ASSUME TypeOK, PeekInv, AnyTti
  PROVE  /\ offset' \in WireSlots
         /\ tti' \in Nat /\ tti' >= tti /\ slip' \in Int
         /\ tti' - tti = 1 + (slip' - slip)
         /\ sent' = {}
         /\ UNCHANGED <<repo, window>>
         /\ \/ captures' = captures
            \/ \E c \in Captures :
                 /\ captures' = captures \cup {c}
                 /\ c.slot = CapturedSlot(NextRadioSlot)
                 /\ c.air = tti - (Lookback % RadioPeriod)
<1>1. PICK o \in WireSlots, drift \in Nat \cup {-1} : OnTtiWith(o, drift)
  BY DEF AnyTti
<1>2. tti \in Nat /\ slip \in Int
  BY DEF TypeOK
<1>3. tti' = tti + 1 + drift /\ slip' = slip + drift /\ offset' = o /\ sent' = {} /\ UNCHANGED <<repo, window>>
  BY <1>1 DEF OnTtiWith
<1> DEFINE slot == SlotPlus(ToOfhSlot(NextRadioSlot, o), -Lookback)
           c == [slot |-> CapturedSlot(NextRadioSlot),
                 air |-> tti - SlotPlus(NextRadioSlot, -CapturedSlot(NextRadioSlot)),
                 start |-> PeekOccasion(slot).start]
<1>4. NextRadioSlot \in Int
  BY <1>2, RadioSlotType DEF NextRadioSlot
<1>5. slot \in Int
  BY <1>4, SlotAssumption, PrachAssumption DEF SlotPlus, ToOfhSlot, WireSlots
<1>6. \/ captures' = captures
      \/ Occasions(slot) # {} /\ captures' = captures \cup {c}
  BY <1>1 DEF OnTtiWith
<1>7. ASSUME Occasions(slot) # {}
      PROVE  c \in Captures /\ c.air = tti - (Lookback % RadioPeriod)
  <2>. HIDE DEF slot
  <2>1. PeekOccasion(slot) \in PrachEntries
    BY <1>5, <1>7, PeekType
  <2>2. PeekOccasion(slot).start \in Nat
    BY <2>1 DEF PrachEntries
  <2>3. /\ CapturedSlot(NextRadioSlot) \in RadioSlots
        /\ SlotPlus(NextRadioSlot, -CapturedSlot(NextRadioSlot)) = Lookback % RadioPeriod
        /\ Lookback % RadioPeriod \in 0 .. Lookback
    BY <1>4, CaptureAir
  <2>4. tti - (Lookback % RadioPeriod) \in Nat
    BY <2>3, <1>2, PrachAssumption DEF PeekInv
  <2>. QED  BY <2>2, <2>3, <2>4 DEF Captures
<1>8. tti' \in Nat /\ tti' >= tti /\ slip' \in Int /\ tti' - tti = 1 + (slip' - slip)
  BY <1>2, <1>3
<1>9. ASSUME Occasions(slot) # {}, captures' = captures \cup {c}
      PROVE  \E d \in Captures :
               /\ captures' = captures \cup {d}
               /\ d.slot = CapturedSlot(NextRadioSlot)
               /\ d.air = tti - (Lookback % RadioPeriod)
  <2>1. c.slot = CapturedSlot(NextRadioSlot)
    OBVIOUS
  <2>2. c \in Captures /\ c.air = tti - (Lookback % RadioPeriod)
    BY <1>7, <1>9
  <2>. HIDE DEF c, slot
  <2>. QED  BY <2>1, <2>2, <1>9
<1>. HIDE DEF c, slot
<1>. QED  BY <1>3, <1>6, <1>8, <1>9

LEMMA CapturedStep ==
  ASSUME TypeOK, WindowCaptured
  PROVE  \E c \in captures :
           /\ c \in Captures
           /\ window.pc = "idle"
           /\ captures' = captures \ {c}
           /\ window' = [pc |-> "get", slot |-> ToOfhSlot(c.slot, offset), air |-> c.air,
                         start |-> c.start, port |-> 1]
           /\ ToOfhSlot(c.slot, offset) \in WireSlots
           /\ sent' = {}
           /\ UNCHANGED <<repo, tti, slip, offset>>
<1>1. PICK c \in captures :
        /\ window.pc = "idle"
        /\ captures' = captures \ {c}
        /\ window' = [pc |-> "get", slot |-> ToOfhSlot(c.slot, offset), air |-> c.air,
                      start |-> c.start, port |-> 1]
        /\ sent' = {}
        /\ UNCHANGED <<repo, tti, slip, offset>>
  BY DEF WindowCaptured
<1>2. c \in Captures
  BY DEF TypeOK
<1>3. c.slot + offset \in Int
  BY <1>2, SlotAssumption DEF TypeOK, Captures, RadioSlots, WireSlots
<1>4. ToOfhSlot(c.slot, offset) \in WireSlots
  BY <1>3, WireTypes DEF ToOfhSlot
<1>. QED  BY <1>1, <1>2, <1>4

\* Type correctness of the recorder, the captures and the responder.
LEMMA TypeInductive ==
  ASSUME TypeOK, PeekInv, AnyTti \/ BetweenTtis \/ UNCHANGED vars
  PROVE  TypeOK' /\ PeekInv'
<1> DEFINE Windows == [pc : {"idle", "get", "clear"}, slot : WireSlots, air : Nat, start : Nat,
                       port : 1 .. NofPorts]
<1>0. tti \in Nat /\ Lookback \in Nat
  BY PrachAssumption DEF TypeOK
<1>1. CASE AnyTti
  <2>1. captures' \subseteq Captures
    BY <1>1, TtiStep DEF TypeOK
  <2>2. /\ offset' \in WireSlots
        /\ tti' \in Nat /\ tti' >= tti /\ slip' \in Int
        /\ sent' = {}
        /\ repo' = repo /\ window' = window
    BY <1>1, TtiStep
  <2>3. tti' >= Lookback
    BY <2>2, <1>0 DEF PeekInv
  <2>4. TypeOK'
    BY <2>1, <2>2 DEF TypeOK
  <2>. QED  BY <2>3, <2>4 DEF PeekInv
<1>2. CASE RecordPrach
  <2>1. PICK e \in PrachEaxcSet, q \in PrachEntries :
          /\ q.slot \in WireSlots
          /\ repo' = Add(repo, e, q)
          /\ sent' = {}
          /\ UNCHANGED <<tti, slip, offset, captures, window>>
    BY <1>2, RecordStep
  <2>2. repo' \in [Indices -> [PrachEaxcSet -> PrachEntries]]
    BY <2>1, AddType
  <2>. QED  BY <2>1, <2>2 DEF TypeOK, PeekInv
<1>3. CASE WindowCaptured
  <2>1. PICK c \in captures :
           /\ c \in Captures
           /\ captures' = captures \ {c}
           /\ window' = [pc |-> "get", slot |-> ToOfhSlot(c.slot, offset), air |-> c.air,
                         start |-> c.start, port |-> 1]
           /\ ToOfhSlot(c.slot, offset) \in WireSlots
           /\ sent' = {}
           /\ UNCHANGED <<repo, tti, slip, offset>>
    BY <1>3, CapturedStep
  <2>2. window' \in Windows
    BY <2>1, PortTypes DEF Captures
  <2>. QED  BY <2>1, <2>2 DEF TypeOK, PeekInv
<1>4. CASE RespondPort
  <2>1. window \in Windows /\ PrachEaxc[window.port] \in PrachEaxcSet
    BY PortTypes DEF TypeOK
  <2>2. UNCHANGED <<repo, tti, slip, offset, captures>>
    BY <1>4 DEF RespondPort
  <2>3. CASE Has(repo, window.slot, PrachEaxc[window.port])
    <3>1. window' = [window EXCEPT !.pc = "clear"]
      BY <1>4, <2>3 DEF RespondPort
    <3>2. window' \in Windows
      BY <3>1, <2>1
    <3>3. Get(repo, window.slot, PrachEaxc[window.port]) \in PrachEntries
      <4>1. RepositoryIndex(window.slot) \in Indices
        BY <2>1, WireTypes, SlotAssumption DEF WireSlots
      <4>. QED  BY <4>1, <2>1 DEF TypeOK, Get
    <3>4. sent' = {[air |-> window.air, slot |-> window.slot, start |-> window.start,
                    eaxc |-> PrachEaxc[window.port],
                    request |-> Get(repo, window.slot, PrachEaxc[window.port])]}
      BY <1>4, <2>3 DEF RespondPort
    <3>5. sent' \subseteq [air : Nat, slot : WireSlots, start : Nat, eaxc : PrachEaxcSet,
                           request : PrachEntries]
      BY <3>3, <3>4, <2>1
    <3>. QED  BY <3>2, <3>5, <2>2 DEF TypeOK, PeekInv
  <2>4. CASE ~Has(repo, window.slot, PrachEaxc[window.port])
    <3>1. sent' = {} /\ window' \in Windows
      BY <1>4, <2>4, NextPortType DEF RespondPort
    <3>. QED  BY <3>1, <2>2 DEF TypeOK, PeekInv
  <2>. QED  BY <2>3, <2>4
<1>5. CASE ClearPort
  <2>1. window.slot \in WireSlots /\ PrachEaxc[window.port] \in PrachEaxcSet
    BY PortTypes DEF TypeOK
  <2>2. repo' \in [Indices -> [PrachEaxcSet -> PrachEntries]]
    BY <1>5, <2>1, ClearType DEF ClearPort
  <2>3. window' \in Windows
    BY <1>5, NextPortType DEF ClearPort
  <2>4. sent' = {} /\ UNCHANGED <<tti, slip, offset, captures>>
    BY <1>5 DEF ClearPort
  <2>. QED  BY <2>2, <2>3, <2>4 DEF TypeOK, PeekInv
<1>6. CASE UNCHANGED vars
  BY <1>6 DEF vars, TypeOK, PeekInv
<1>. QED  BY <1>1, <1>2, <1>3, <1>4, <1>5, <1>6 DEF BetweenTtis

LEMMA TypeInit ==
  ASSUME NEW o \in WireSlots, InitWith(o)
  PROVE  TypeOK /\ PeekInv
<1>1. (CHOOSE s \in SectionIds : TRUE) \in SectionIds
  BY RequestAssumption
<1> DEFINE empty == WithScs(EmptyEntry(CHOOSE s \in SectionIds : TRUE), FALSE)
<1>2. empty \in PrachEntries
  BY <1>1 DEF WithScs, EmptyEntry, PrachEntries, NoSlot
<1>. HIDE DEF empty
<1>3. repo \in [Indices -> [PrachEaxcSet -> PrachEntries]]
  BY <1>2 DEF InitWith, empty
<1>4. NoWindow \in [pc : {"idle", "get", "clear"}, slot : WireSlots, air : Nat, start : Nat,
                    port : 1 .. NofPorts]
  BY WireTypes, PortTypes DEF NoWindow
<1>5. tti = Lookback /\ slip = 0 /\ offset = o /\ captures = {} /\ window = NoWindow /\ sent = {}
  BY DEF InitWith
<1>. QED  BY <1>3, <1>4, <1>5, PrachAssumption DEF TypeOK, PeekInv

\* A step of the capture alone.
LEMMA NextIsAny ==
  ASSUME TypeOK, [Next]_vars
  PROVE  AnyTti \/ BetweenTtis \/ UNCHANGED vars
<1>1. OnTti => AnyTti
  <2>1. offset \in WireSlots /\ 0 \in Nat
    BY DEF TypeOK
  <2>. QED  BY <2>1 DEF OnTti, AnyTti
<1>. QED  BY <1>1 DEF Next

LEMMA SpecType == Spec => [](TypeOK /\ PeekInv)
<1>1. Init => TypeOK /\ PeekInv
  BY TypeInit, WireTypes DEF Init
<1>2. TypeOK /\ PeekInv /\ [Next]_vars => TypeOK' /\ PeekInv'
  BY NextIsAny, TypeInductive
<1>. QED  BY <1>1, <1>2, PTL DEF Spec
-----------------------------------------------------------------------------
\* What a pending entry holds was recorded from a PRACH section for its slot.
RecordedInv ==
  \A i \in Indices, e \in PrachEaxcSet :
    repo[i][e].nof # 0 => repo[i][e].slot = repo[i][e].air % Period /\ repo[i][e].prach

\* clear() touches the entry of the window only, and only if it is for its slot.
LEMMA ClearedStep ==
  ASSUME TypeOK, ClearPort, NEW k \in Indices, NEW f \in PrachEaxcSet
  PROVE  LET i == RepositoryIndex(window.slot)
             e == PrachEaxc[window.port]
         IN  IF k = i /\ f = e /\ repo[k][f].slot = window.slot
             THEN repo'[k][f].nof = 0 ELSE repo'[k][f] = repo[k][f]
<1> DEFINE i == RepositoryIndex(window.slot)
           e == PrachEaxc[window.port]
<1>1. window.slot \in WireSlots /\ e \in PrachEaxcSet
  BY PortTypes DEF TypeOK
<1>2. repo' = Clear(repo, window.slot, e)
  BY DEF ClearPort
<1>3. /\ i \in Indices
      /\ repo'[k][f] = IF k = i /\ f = e /\ repo[i][e].slot = window.slot
                       THEN [repo[i][e] EXCEPT !.nof = 0] ELSE repo[k][f]
  BY <1>1, <1>2, ClearType
<1>4. repo[i][e] \in PrachEntries
  BY <1>1, <1>3 DEF TypeOK
<1>5. [repo[i][e] EXCEPT !.nof = 0].nof = 0
  BY <1>4 DEF PrachEntries
<1>. HIDE DEF i, e
<1>6. IF k = i /\ f = e /\ repo[k][f].slot = window.slot
      THEN repo'[k][f].nof = 0 ELSE repo'[k][f] = repo[k][f]
  BY <1>3, <1>5
<1>. QED  BY <1>6 DEF i, e

LEMMA RecordedInductive ==
  ASSUME TypeOK, PeekInv, RecordedInv, AnyTti \/ BetweenTtis \/ UNCHANGED vars
  PROVE  RecordedInv'
<1>1. CASE repo' = repo
  BY <1>1 DEF RecordedInv
<1>2. CASE AnyTti
  BY <1>1, <1>2, TtiStep
<1>3. CASE WindowCaptured \/ RespondPort \/ UNCHANGED vars
  BY <1>1, <1>3 DEF WindowCaptured, RespondPort, vars
<1>4. CASE RecordPrach
  <2>1. PICK lead \in Leads, e \in PrachEaxcSet, q \in PrachEntries :
          /\ q.slot = (Peeked + lead) % Period /\ q.slot \in WireSlots
          /\ q.air = Peeked + lead /\ q.prach
          /\ repo' = Add(repo, e, q)
    BY <1>4, RecordStep
  <2>2. \A k \in Indices, f \in PrachEaxcSet : repo'[k][f] = q \/ repo'[k][f] = repo[k][f]
    BY <2>1, AddType
  <2>. QED  BY <2>1, <2>2 DEF RecordedInv
<1>5. CASE ClearPort
  <2>1. window.slot \in WireSlots /\ PrachEaxc[window.port] \in PrachEaxcSet
    BY PortTypes DEF TypeOK
  <2>2. ASSUME NEW k \in Indices, NEW f \in PrachEaxcSet
        PROVE  repo'[k][f].nof # 0 => repo'[k][f] = repo[k][f]
    BY <1>5, <2>1, ClearedStep
  <2>. QED  BY <2>2 DEF RecordedInv
<1>. QED  BY <1>2, <1>3, <1>4, <1>5 DEF BetweenTtis

\* A reply is built where the window's slot is found.
LEMMA SentStep ==
  ASSUME TypeOK, PeekInv, AnyTti \/ BetweenTtis, NEW r \in sent'
  PROVE  LET e == PrachEaxc[window.port]
         IN  /\ window.pc = "get" /\ e \in PrachEaxcSet
             /\ RepositoryIndex(window.slot) \in Indices
             /\ Has(repo, window.slot, e)
             /\ r.request = Get(repo, window.slot, e)
             /\ r.slot = window.slot /\ r.air = window.air
<1>1. CASE AnyTti
  BY <1>1, TtiStep
<1>2. CASE RecordPrach \/ WindowCaptured \/ ClearPort
  BY <1>2 DEF RecordPrach, WindowCaptured, ClearPort
<1>3. CASE RespondPort
  <2>1. PrachEaxc[window.port] \in PrachEaxcSet
    BY PortTypes DEF TypeOK
  <2>2. RepositoryIndex(window.slot) \in Indices
    BY WireTypes, SlotAssumption DEF TypeOK, WireSlots
  <2>. QED  BY <1>3, <2>1, <2>2 DEF RespondPort
<1>. QED  BY <1>1, <1>2, <1>3 DEF BetweenTtis

LEMMA RecordedInit ==
  ASSUME NEW o \in WireSlots, InitWith(o)
  PROVE  RecordedInv
BY DEF InitWith, RecordedInv, WithScs, EmptyEntry

LEMMA SpecRecorded == Spec => [](TypeOK /\ PeekInv /\ RecordedInv)
<1>1. Init => RecordedInv
  BY RecordedInit, WireTypes DEF Init
<1>2. TypeOK /\ PeekInv /\ RecordedInv /\ [Next]_vars => RecordedInv'
  BY NextIsAny, RecordedInductive
<1>. QED  BY <1>1, <1>2, SpecType, PTL DEF Spec
-----------------------------------------------------------------------------
(* The numberings, when the offset is the aligned one. *)

\* Radio slot a, translated, is wire slot a.
LEMMA AlignedTranslation ==
  ASSUME NEW a \in Int
  PROVE  ToOfhSlot(RadioSlot(a), AlignedOffset) = a % Period
<1> DEFINE P == Period
           R == RadioPeriod
           s == RadioShift
<1>1. P \in Nat \ {0} /\ R \in Nat \ {0} /\ R % P = 0 /\ s \in Int /\ a + s \in Int /\ -s \in Int
  BY SlotAssumption, RadioShiftAssumption
<1>2. AlignedOffset = (-s) % P
  <2>1. RadioSlot(0) = s % R
    BY <1>1 DEF RadioSlot
  <2>2. (0 + (P - ((s % R) % P))) % P = (0 - s) % P
    <3>1. 0 \in Int
      OBVIOUS
    <3>. HIDE DEF P, R, s
    <3>2. P \in Nat \ {0} /\ R \in Nat \ {0} /\ R % P = 0
      BY <1>1
    <3>3. s \in Int
      BY <1>1
    <3>. QED  BY <3>1, <3>2, <3>3, Measured, ZenonT(30)
  <2>3. 0 - s = -s
    BY <1>1
  <2>4. AlignedOffset = (0 + (P - ((s % R) % P))) % P
    BY <2>1, Zenon DEF AlignedOffset, MeasureGpsSlotOffset
  <2>. QED  BY <2>2, <2>3, <2>4
<1>3. (((a + s) % R) + ((-s) % P)) % P = ((a + s) + (-s)) % P
  <2>1. P \in Nat \ {0} /\ R \in Nat \ {0} /\ R % P = 0
    BY <1>1
  <2>2. a + s \in Int
    BY <1>1
  <2>3. -s \in Int
    BY <1>1
  <2>. HIDE DEF P, R, s
  <2>. QED  BY <2>1, <2>2, <2>3, Translated, ZenonT(30)
<1>4. (a + s) + (-s) = a
  BY <1>1
<1>. QED  BY <1>2, <1>3, <1>4 DEF ToOfhSlot, RadioSlot

\* The wire slot looked up for slot a, Lookback slots later.
PeekedWire(a) == SlotPlus((a + Lookback) % Period, -Lookback)

\* Within the wire period it is the wire slot of a; past its end it is none.
Peekable(a) == PeekedWire(a) \in WireSlots

LEMMA PeekedWireType ==
  ASSUME NEW a \in Int
  PROVE  /\ PeekedWire(a) \in RadioSlots
         /\ Peekable(a) => PeekedWire(a) = a % Period
<1> DEFINE P == Period
           R == RadioPeriod
           w == (a + Lookback) % P
           x == PeekedWire(a)
<1>1. P \in Nat \ {0} /\ R \in Nat \ {0} /\ R % P = 0 /\ Lookback \in Nat /\ a + Lookback \in Int /\ -Lookback \in Int
  BY SlotAssumption, PrachAssumption
<1>2. w \in Int
  BY <1>1
<1>3. x = (w + (-Lookback)) % R
  BY DEF PeekedWire, SlotPlus
<1>4. w + (-Lookback) \in Int
  BY <1>1, <1>2
<1>5. x % P = (w + (-Lookback)) % P
  <2> DEFINE d == w + (-Lookback)
  <2>1. d \in Int
    BY <1>4
  <2>. HIDE DEF d
  <2>2. (d % R) % P = d % P
    BY <2>1, <1>1, ModMod
  <2>. QED  BY <2>2, <1>3 DEF d
<1>6. (w + (-Lookback)) % P = ((a + Lookback) + (-Lookback)) % P
  BY <1>1, ModAdd
<1>7. (a + Lookback) + (-Lookback) = a
  BY <1>1
<1>8. x % P = a % P
  BY <1>5, <1>6, <1>7
<1>9. x \in RadioSlots
  BY <1>3, <1>4, WireTypes
<1>10. x \in WireSlots => x % P = x
  BY <1>1, ModSmall DEF WireSlots
<1>. QED  BY <1>8, <1>9, <1>10 DEF Peekable

LEMMA PeekableSame ==
  ASSUME NEW a \in Int, NEW b \in Int, a % Period = b % Period
  PROVE  Peekable(a) <=> Peekable(b)
<1>1. Period \in Nat \ {0} /\ Lookback \in Int
  BY SlotAssumption, PrachAssumption
<1>2. ((a % Period) + Lookback) % Period = (a + Lookback) % Period
  BY <1>1, ModAdd
<1>3. ((b % Period) + Lookback) % Period = (b + Lookback) % Period
  BY <1>1, ModAdd
<1>4. (a + Lookback) % Period = (b + Lookback) % Period
  BY <1>2, <1>3
<1>. QED  BY <1>4 DEF Peekable, PeekedWire

\* Slots that have their TTI in the same wire period can be looked up.
LEMMA PeekableInPeriod ==
  ASSUME NEW a \in Int, (a + Lookback) % Period >= Lookback
  PROVE  Peekable(a)
<1> DEFINE w == (a + Lookback) % Period
<1>1. w \in 0 .. (Period - 1)
  BY SlotAssumption, PrachAssumption
<1>. HIDE DEF w
<1>2. w - Lookback \in 0 .. (Period - 1) /\ w + (-Lookback) = w - Lookback
  BY <1>1, PrachAssumption, SlotAssumption DEF w
<1>3. w - Lookback \in 0 .. (RadioPeriod - 1)
  BY <1>2, SlotAssumption, PrachAssumption
<1>4. (w - Lookback) % RadioPeriod = w - Lookback
  BY <1>3, ModSmall, SlotAssumption
<1>. QED  BY <1>2, <1>4 DEF Peekable, PeekedWire, SlotPlus, WireSlots, w

LEMMA PeekableEarly ==
  ASSUME NEW a \in Int, a % Period < Period - Lookback
  PROVE  Peekable(a)
<1> DEFINE m == a % Period
<1>1. m \in 0 .. (Period - 1) /\ Period \in Nat \ {0} /\ Lookback \in Nat
  BY SlotAssumption, PrachAssumption
<1>2. (m + Lookback) % Period = (a + Lookback) % Period
  <2>1. Lookback \in Int
    BY <1>1
  <2>. QED  BY <2>1, <1>1, ModAdd, Zenon
<1>. HIDE DEF m
<1>3. m + Lookback \in 0 .. (Period - 1)
  BY <1>1 DEF m
<1>4. (m + Lookback) % Period = m + Lookback
  BY <1>1, <1>3, ModSmall
<1>5. (a + Lookback) % Period >= Lookback
  BY <1>1, <1>2, <1>4
<1>. QED  BY <1>5, PeekableInPeriod
-----------------------------------------------------------------------------
(* Under Timely: a capture is for its own slot, within the latency, and there is
   at most one for a slot ... *)
CaptureInv ==
  /\ offset = AlignedOffset /\ slip = 0
  /\ \A c \in captures :
       /\ c.air < Peeked /\ Peeked - c.air =< Latency + 1
       /\ c.slot = RadioSlot(c.air)
       /\ Peekable(c.air)
  /\ \A c, d \in captures : c.air = d.air => c = d
  /\ window.pc # "idle" =>
       /\ window.air < Peeked /\ Peeked - window.air =< Latency + 1
       /\ window.slot = window.air % Period
       /\ Peekable(window.air)
       /\ \A c \in captures : c.air # window.air

\* ... and a request whose occasion has been looked up is waiting for a capture
\* or for the answer to reach its port.
Tracked(a, e) ==
  \/ \E c \in captures : c.air = a
  \/ /\ window.pc # "idle" /\ window.air = a
     /\ \E p \in window.port .. NofPorts : PrachEaxc[p] = e

Kept(i, e) ==
  LET entry == repo[i][e]
  IN  entry.nof # 0 =>
        /\ i = RepositoryIndex(entry.slot)
        /\ entry.cellScs
        /\ Latency < RepoSize /\ entry.air =< Peeked + RepoSize - Latency - 1
        /\ entry.air < Peeked /\ Peekable(entry.air) => Tracked(entry.air, e)

KeptInv == \A i \in Indices, e \in PrachEaxcSet : Kept(i, e)

\* What the step of a TTI does when the offset is aligned.
LEMMA TimelyTti ==
  ASSUME Timely, TypeOK, PeekInv, CaptureInv, OnTti
  PROVE  LET x == PeekedWire(Peeked)
         IN  /\ tti' = tti + 1 /\ Peeked' = Peeked + 1 /\ slip' = 0 /\ offset' = offset /\ sent' = {}
             /\ repo' = repo /\ window' = window
             /\ \A c \in captures : Peeked - c.air =< Latency
             /\ window.pc = "idle" \/ Peeked - window.air =< Latency
             /\ IF Occasions(x) # {} /\ PeekOccasion(x).cellScs /\ BufferFree
                THEN \E c \in Captures :
                       /\ captures' = captures \cup {c}
                       /\ c.air = Peeked /\ c.slot = RadioSlot(Peeked)
                ELSE captures' = captures
<1> DEFINE x == PeekedWire(Peeked)
           y == SlotPlus(ToOfhSlot(NextRadioSlot, offset), -Lookback)
           c == [slot |-> CapturedSlot(NextRadioSlot),
                 air |-> tti - SlotPlus(NextRadioSlot, -CapturedSlot(NextRadioSlot)),
                 start |-> PeekOccasion(y).start]
<1>1. tti \in Nat /\ Lookback \in Nat /\ RadioPeriod \in Nat \ {0} /\ Peeked \in Nat /\ Peeked + Lookback = tti
  BY SlotAssumption, PrachAssumption DEF TypeOK, PeekInv, Peeked
<1>2. NextRadioSlot = RadioSlot(tti) /\ NextRadioSlot \in Int
  <2>1. tti - slip = tti
    BY <1>1 DEF CaptureInv
  <2>. QED  BY <2>1, <1>1, RadioSlotType DEF NextRadioSlot
<1>3. y = x
  <2>1. ToOfhSlot(NextRadioSlot, offset) = tti % Period
    BY <1>1, <1>2, AlignedTranslation DEF CaptureInv
  <2>. QED  BY <2>1, <1>1 DEF PeekedWire
<1>4. OnTtiWith(offset, 0)
  BY DEF OnTti
<1>5. /\ tti' = tti + 1 /\ slip' = 0 /\ offset' = offset /\ sent' = {} /\ repo' = repo /\ window' = window
      /\ \A d \in captures : Peeked - d.air =< Latency
      /\ window.pc = "idle" \/ Peeked - window.air =< Latency
  BY <1>1, <1>4 DEF OnTtiWith, CaptureInv
<1>6. Peeked' = Peeked + 1
  BY <1>1, <1>5 DEF Peeked
<1>7. captures' = IF Occasions(y) # {} /\ PeekOccasion(y).cellScs /\ BufferFree
                  THEN captures \cup {c} ELSE captures
  BY <1>4 DEF OnTtiWith, Capturable
<1>8. c.air = Peeked
  <2>1. SlotPlus(NextRadioSlot, -CapturedSlot(NextRadioSlot)) = Lookback % RadioPeriod
    BY <1>2, CaptureAir
  <2>2. Lookback % RadioPeriod = Lookback
    BY <1>1, ModSmall DEF Timely
  <2>. QED  BY <2>1, <2>2 DEF Peeked
<1>9. c.slot = RadioSlot(Peeked)
  <2>1. c.slot = (RadioSlot(tti) + (-Lookback)) % RadioPeriod
    BY <1>2 DEF CapturedSlot, SlotPlus
  <2>2. tti + RadioShift \in Int /\ -Lookback \in Int
    BY <1>1, RadioShiftAssumption
  <2>3. (((tti + RadioShift) % RadioPeriod) + (-Lookback)) % RadioPeriod
          = ((tti + RadioShift) + (-Lookback)) % RadioPeriod
    BY <2>2, <1>1, ModAdd
  <2>4. (tti + RadioShift) + (-Lookback) = Peeked + RadioShift
    BY <1>1, RadioShiftAssumption DEF Peeked
  <2>. QED  BY <2>1, <2>3, <2>4 DEF RadioSlot
<1>10. Occasions(y) # {} => c \in Captures
  <2>1. x \in Int
    BY <1>1, PeekedWireType, SlotAssumption DEF RadioSlots
  <2>2. ASSUME Occasions(y) # {} PROVE PeekOccasion(y).start \in Nat
    BY <2>1, <2>2, <1>3, PeekType DEF PrachEntries
  <2>3. CapturedSlot(NextRadioSlot) \in RadioSlots
    BY <1>2, CaptureAir
  <2>. QED  BY <2>2, <2>3, <1>1, <1>8 DEF Captures
<1>. HIDE DEF c, x, y
<1>11. IF Occasions(x) # {} /\ PeekOccasion(x).cellScs /\ BufferFree
       THEN \E d \in Captures :
              /\ captures' = captures \cup {d}
              /\ d.air = Peeked /\ d.slot = RadioSlot(Peeked)
       ELSE captures' = captures
  BY <1>3, <1>7, <1>8, <1>9, <1>10
<1>. QED  BY <1>5, <1>6, <1>11 DEF x

\* The captures under way, with the window, never fill the pool: they are for
\* different slots of the latency.
LEMMA PoolSuffices ==
  ASSUME Timely, TypeOK, PeekInv, CaptureInv,
         \A c \in captures : Peeked - c.air =< Latency,
         window.pc = "idle" \/ Peeked - window.air =< Latency
  PROVE  BufferFree
<1> DEFINE I == (Peeked - Latency) .. (Peeked - 1)
           T == IF window.pc = "idle" THEN I ELSE I \ {window.air}
           f == [c \in captures |-> c.air]
<1>1. Peeked \in Nat /\ Latency \in Nat /\ NofBuffers \in Nat /\ Latency < NofBuffers
  BY PrachAssumption DEF TypeOK, PeekInv, Peeked, Timely
<1>2. IsFiniteSet(I) /\ Cardinality(I) = Latency
  <2>1. Peeked - Latency \in Int /\ Peeked - 1 \in Int
    BY <1>1
  <2>2. /\ IsFiniteSet(I)
        /\ Cardinality(I) = IF Peeked - Latency > Peeked - 1 THEN 0 ELSE (Peeked - 1) - (Peeked - Latency) + 1
    BY <2>1, FS_Interval
  <2>. QED  BY <2>2, <1>1
<1>3. \A c \in captures : c.air \in Nat
  BY DEF TypeOK, Captures
<1>4. window.pc # "idle" => window.air \in I
  BY <1>1 DEF CaptureInv, TypeOK
<1>5. IsFiniteSet(T) /\ Cardinality(T) = Latency - (IF window.pc = "idle" THEN 0 ELSE 1)
  <2>. HIDE DEF I
  <2>1. CASE window.pc = "idle"
    BY <2>1, <1>1, <1>2
  <2>2. CASE window.pc # "idle"
    <3>1. IsFiniteSet(I \ {window.air}) /\ Cardinality(I \ {window.air}) = Cardinality(I) - 1
      BY <2>2, <1>2, <1>4, FS_RemoveElement
    <3>. QED  BY <3>1, <2>2, <1>1, <1>2
  <2>. QED  BY <2>1, <2>2
<1>6. \A c \in captures : c.air \in T
  BY <1>1, <1>3 DEF CaptureInv
<1>. HIDE DEF T
<1>7. f \in Injection(captures, T)
  <2>1. f \in [captures -> T]
    BY <1>6
  <2>2. \A c, d \in captures : f[c] = f[d] => c = d
    BY DEF CaptureInv
  <2>. QED  BY <2>1, <2>2, Fun_IsInj
<1>. HIDE DEF f
<1>8. IsFiniteSet(captures) /\ Cardinality(captures) =< Cardinality(T)
  BY <1>5, <1>7, FS_Injection
<1>9. Cardinality(captures) \in Nat
  BY <1>8, FS_CardinalityType
<1>. QED  BY <1>1, <1>5, <1>8, <1>9 DEF BufferFree

\* An occasion that is found is for the slot looked for.
LEMMA FoundIsPeekable ==
  ASSUME TypeOK, RecordedInv, NEW a \in Int, Occasions(PeekedWire(a)) # {}
  PROVE  Peekable(a)
<1> DEFINE x == PeekedWire(a)
<1>1. PICK p \in 1 .. Len(PrachEaxc) : Has(repo, x, PrachEaxc[p])
  BY DEF Occasions
<1>2. x \in Int
  BY PeekedWireType, SlotAssumption DEF RadioSlots
<1>3. RepositoryIndex(x) \in Indices /\ PrachEaxc[p] \in PrachEaxcSet
  BY <1>2, WireTypes, PortTypes
<1> DEFINE entry == repo[RepositoryIndex(x)][PrachEaxc[p]]
<1>4. entry \in PrachEntries /\ entry.nof # 0 /\ entry.slot = x
  BY <1>1, <1>3 DEF TypeOK, Has
<1>5. entry.slot = entry.air % Period
  BY <1>3, <1>4 DEF RecordedInv
<1>. HIDE DEF entry
<1>6. entry.air \in Int
  BY <1>4 DEF PrachEntries
<1>. QED  BY <1>4, <1>5, <1>6, WireTypes DEF Peekable

\* The loop over the ports.
LEMMA PortStep ==
  ASSUME TypeOK, RespondPort \/ ClearPort
  PROVE  /\ UNCHANGED <<tti, slip, offset, captures>>
         /\ window.pc # "idle"
         /\ \/ window'.pc = "idle"
            \/ window'.pc # "idle" /\ window'.air = window.air /\ window'.slot = window.slot
<1>1. window.pc # "idle" /\ UNCHANGED <<tti, slip, offset, captures>>
  BY DEF RespondPort, ClearPort
<1>2. \/ window' = NoWindow
      \/ window' = [window EXCEPT !.pc = "get", !.port = @ + 1]
      \/ window' = [window EXCEPT !.pc = "clear"]
  BY DEF RespondPort, ClearPort, NextPort
<1>3. NoWindow.pc = "idle"
  BY DEF NoWindow
<1>4. LET w == [window EXCEPT !.pc = "get", !.port = @ + 1]
      IN  w.pc = "get" /\ w.air = window.air /\ w.slot = window.slot
  BY DEF TypeOK
<1>5. LET w == [window EXCEPT !.pc = "clear"]
      IN  w.pc = "clear" /\ w.air = window.air /\ w.slot = window.slot
  BY DEF TypeOK
<1>. QED  BY <1>1, <1>2, <1>3, <1>4, <1>5

LEMMA CaptureInductive ==
  ASSUME Timely, TypeOK, PeekInv, RecordedInv, CaptureInv, [Next]_vars
  PROVE  CaptureInv'
<1>0. tti \in Nat /\ Lookback \in Nat /\ Latency \in Nat /\ Peeked \in Int
      /\ \A c \in captures : c.air \in Nat
  BY PrachAssumption DEF TypeOK, Captures, Peeked
<1>1. CASE UNCHANGED vars
  BY <1>1 DEF vars, CaptureInv, Peeked
<1>2. CASE OnTti
  <2>1. /\ Peeked' = Peeked + 1 /\ slip' = 0 /\ offset' = offset /\ window' = window
        /\ \A c \in captures : Peeked - c.air =< Latency
        /\ window.pc = "idle" \/ Peeked - window.air =< Latency
    BY <1>2, TimelyTti
  <2>2. \/ captures' = captures
        \/ /\ Occasions(PeekedWire(Peeked)) # {}
           /\ \E c \in Captures : captures' = captures \cup {c} /\ c.air = Peeked /\ c.slot = RadioSlot(Peeked)
    BY <1>2, TimelyTti
  <2>3. \A c \in captures :
          /\ c.air < Peeked' /\ Peeked' - c.air =< Latency + 1
          /\ c.slot = RadioSlot(c.air) /\ Peekable(c.air) /\ c.air < Peeked
    BY <2>1, <1>0 DEF CaptureInv
  <2>4. window.pc # "idle" =>
          /\ window.air < Peeked /\ window.air < Peeked' /\ Peeked' - window.air =< Latency + 1
          /\ window.slot = window.air % Period /\ Peekable(window.air)
          /\ \A c \in captures : c.air # window.air
    <3>1. window.air \in Nat
      BY DEF TypeOK
    <3>. QED  BY <3>1, <2>1, <1>0 DEF CaptureInv
  <2>5. CASE captures' = captures
    BY <2>1, <2>3, <2>4, <2>5 DEF CaptureInv
  <2>6. CASE captures' # captures
    <3>1. PICK c \in Captures : captures' = captures \cup {c} /\ c.air = Peeked /\ c.slot = RadioSlot(Peeked)
      BY <2>2, <2>6
    <3>2. Peekable(c.air)
      BY <2>2, <2>6, <3>1, <1>0, FoundIsPeekable
    <3>3. \A d \in captures' :
            /\ d.air < Peeked' /\ Peeked' - d.air =< Latency + 1
            /\ d.slot = RadioSlot(d.air) /\ Peekable(d.air)
      BY <3>1, <3>2, <2>1, <2>3, <1>0
    <3>4. \A d, e \in captures' : d.air = e.air => d = e
      BY <3>1, <2>3, <1>0 DEF CaptureInv
    <3>5. window.pc # "idle" => \A d \in captures' : d.air # window.air
      BY <3>1, <2>4, <1>0 DEF TypeOK
    <3>. QED  BY <3>3, <3>4, <3>5, <2>1, <2>4 DEF CaptureInv
  <2>. QED  BY <2>5, <2>6
<1>3. CASE RecordPrach
  BY <1>3, RecordStep DEF CaptureInv, Peeked
<1>4. CASE WindowCaptured
  <2>1. PICK c \in captures :
          /\ captures' = captures \ {c}
          /\ window' = [pc |-> "get", slot |-> ToOfhSlot(c.slot, offset), air |-> c.air,
                        start |-> c.start, port |-> 1]
          /\ UNCHANGED <<repo, tti, slip, offset>>
    BY <1>4, CapturedStep
  <2>2. Peeked' = Peeked
    BY <2>1 DEF Peeked
  <2>3. window'.slot = c.air % Period /\ window'.air = c.air
    <3>1. ToOfhSlot(RadioSlot(c.air), AlignedOffset) = c.air % Period
      BY <1>0, AlignedTranslation
    <3>. QED  BY <3>1, <2>1 DEF CaptureInv
  <2>4. \A d \in captures' : d.air # c.air
    BY <2>1 DEF CaptureInv
  <2>. QED  BY <2>1, <2>2, <2>3, <2>4 DEF CaptureInv
<1>5. CASE RespondPort \/ ClearPort
  <2>1. /\ UNCHANGED <<tti, slip, offset, captures>>
        /\ window.pc # "idle"
        /\ \/ window'.pc = "idle"
           \/ window'.pc # "idle" /\ window'.air = window.air /\ window'.slot = window.slot
    BY <1>5, PortStep
  <2>2. Peeked' = Peeked
    BY <2>1 DEF Peeked
  <2>. QED  BY <2>1, <2>2 DEF CaptureInv
<1>. QED  BY <1>1, <1>2, <1>3, <1>4, <1>5 DEF Next, BetweenTtis

\* A port that is passed has nothing left for the window's slot.
LEMMA PortPassed ==
  ASSUME Timely, TypeOK, NextPort, NEW f, f # PrachEaxc[window.port],
         \E p \in window.port .. NofPorts : PrachEaxc[p] = f
  PROVE  /\ window'.pc # "idle" /\ window'.air = window.air
         /\ \E p \in window'.port .. NofPorts : PrachEaxc[p] = f
<1>1. PICK p \in window.port .. NofPorts : PrachEaxc[p] = f
  OBVIOUS
<1>2. window.port \in 1 .. NofPorts /\ NofPorts \in Nat
  BY PortTypes DEF TypeOK
<1>3. p # window.port
  BY <1>1
<1>4. window.port # NofPorts /\ p \in (window.port + 1) .. NofPorts
  BY <1>1, <1>2, <1>3
<1>5. window' = [window EXCEPT !.pc = "get", !.port = @ + 1]
  BY <1>4 DEF NextPort
<1>6. window'.pc = "get" /\ window'.air = window.air /\ window'.port = window.port + 1
  BY <1>5 DEF TypeOK
<1>. QED  BY <1>1, <1>4, <1>6

\* The entry of a window's slot is where the responder looks.
LEMMA EntryOfWindow ==
  ASSUME TypeOK, RecordedInv, CaptureInv, NEW k \in Indices, NEW f \in PrachEaxcSet,
         Kept(k, f), repo[k][f].nof # 0, window.pc # "idle", repo[k][f].air = window.air
  PROVE  k = RepositoryIndex(window.slot) /\ repo[k][f].slot = window.slot
<1>1. repo[k][f].slot = repo[k][f].air % Period
  BY DEF RecordedInv
<1>2. window.slot = window.air % Period
  BY DEF CaptureInv
<1>3. k = RepositoryIndex(repo[k][f].slot)
  BY DEF Kept
<1>. QED  BY <1>1, <1>2, <1>3

\* The TTI that looks back to an occasion captures it.
LEMMA PendingCaptured ==
  ASSUME Timely, TypeOK, PeekInv, RecordedInv, CaptureInv, KeptInv, OnTti,
         NEW k \in Indices, NEW f \in PrachEaxcSet,
         repo[k][f].nof # 0, repo[k][f].air = Peeked, Peekable(Peeked)
  PROVE  \E c \in captures' : c.air = Peeked /\ c.slot = RadioSlot(Peeked)
<1> DEFINE x == PeekedWire(Peeked)
<1>1. Peeked \in Int
  BY PrachAssumption DEF TypeOK, Peeked
<1>2. x = Peeked % Period /\ x \in Int
  BY <1>1, PeekedWireType, SlotAssumption DEF RadioSlots
<1>3. repo[k][f].slot = x /\ k = RepositoryIndex(x)
  BY <1>2 DEF RecordedInv, KeptInv, Kept
<1>4. Occasions(x) # {}
  <2>1. PICK p \in 1 .. Len(PrachEaxc) : PrachEaxc[p] = f
    BY DEF PrachEaxcSet
  <2>2. Has(repo, x, f)
    BY <1>3 DEF Has
  <2>. QED  BY <2>1, <2>2 DEF Occasions
<1>. HIDE DEF x
<1>5. PeekOccasion(x).cellScs
  <2>1. PICK p \in 1 .. Len(PrachEaxc) :
          Has(repo, x, PrachEaxc[p]) /\ PeekOccasion(x) = Get(repo, x, PrachEaxc[p])
    BY <1>2, <1>4, PeekType
  <2>2. RepositoryIndex(x) \in Indices /\ PrachEaxc[p] \in PrachEaxcSet
    BY <1>2, WireTypes, PortTypes
  <2>. QED  BY <2>1, <2>2 DEF KeptInv, Kept, Has, Get
<1>6. BufferFree
  BY TimelyTti, PoolSuffices
<1>. QED  BY <1>4, <1>5, <1>6, TimelyTti DEF x

LEMMA KeptInductive ==
  ASSUME Timely, TypeOK, PeekInv, RecordedInv, CaptureInv, KeptInv, [Next]_vars
  PROVE  KeptInv'
<1> SUFFICES ASSUME NEW k \in Indices, NEW f \in PrachEaxcSet, repo'[k][f].nof # 0
             PROVE  Kept(k, f)'
  BY DEF KeptInv, Kept
<1>0. /\ tti \in Nat /\ Lookback \in Nat /\ Latency \in Nat /\ RepoSize \in Nat /\ Peeked \in Int
      /\ repo[k][f] \in PrachEntries
      /\ Kept(k, f)
  BY PrachAssumption, SlotAssumption DEF TypeOK, Peeked, KeptInv
<1>1. CASE UNCHANGED vars
  BY <1>0, <1>1 DEF vars, Kept, Tracked, Peeked
<1>2. CASE OnTti
  <2>1. Peeked' = Peeked + 1 /\ window' = window /\ repo' = repo /\ captures \subseteq captures'
    BY <1>2, TimelyTti
  <2> DEFINE entry == repo[k][f]
  <2>2. entry.nof # 0 /\ entry.air \in Nat /\ repo'[k][f] = entry
    BY <2>1, <1>0 DEF PrachEntries
  <2>3. /\ k = RepositoryIndex(entry.slot) /\ entry.cellScs /\ Latency < RepoSize
        /\ entry.air =< Peeked + RepoSize - Latency - 1
        /\ entry.air < Peeked /\ Peekable(entry.air) => Tracked(entry.air, f)
    BY <1>0, <2>2 DEF Kept
  <2>4. entry.air = Peeked /\ Peekable(entry.air) => \E c \in captures' : c.air = entry.air
    BY <1>2, <2>2, PendingCaptured
  <2>5. entry.air < Peeked /\ Peekable(entry.air) => Tracked(entry.air, f)'
    <3>. HIDE DEF entry
    <3>1. ASSUME Tracked(entry.air, f)
          PROVE  \/ \E c \in captures' : c.air = entry.air
                 \/ /\ window'.pc # "idle" /\ window'.air = entry.air
                    /\ \E p \in window'.port .. NofPorts : PrachEaxc[p] = f
      BY <3>1, <2>1 DEF Tracked
    <3>. QED  BY <3>1, <2>1, <2>3 DEF Tracked, entry
  <2>6. entry.air < Peeked' => entry.air < Peeked \/ entry.air = Peeked
    BY <2>1, <2>2, <1>0
  <2>7. entry.air =< Peeked' + RepoSize - Latency - 1
    BY <2>1, <2>2, <2>3, <1>0
  <2>. QED  BY <2>1, <2>2, <2>3, <2>4, <2>5, <2>6, <2>7 DEF Kept, Tracked
<1>3. CASE RecordPrach
  <2>1. PICK lead \in Leads, e \in PrachEaxcSet, q \in PrachEntries :
          /\ Peeked + lead \in Nat
          /\ q.slot \in WireSlots
          /\ q.air = Peeked + lead
          /\ q.cellScs \in ScsChoices
          /\ repo' = Add(repo, e, q)
          /\ UNCHANGED <<tti, slip, offset, captures, window>>
    BY <1>3, RecordStep
  <2>2. repo'[k][f] = IF k = RepositoryIndex(q.slot) /\ f = e THEN q ELSE repo[k][f]
    BY <2>1, AddType
  <2>3. Peeked' = Peeked
    BY <2>1 DEF Peeked
  <2>4. CASE k = RepositoryIndex(q.slot) /\ f = e
    <3>1. repo'[k][f] = q
      BY <2>2, <2>4
    <3>2. q.cellScs
      BY <2>1 DEF Timely
    <3>3. lead \in 1 .. (RepoSize - Latency - 1)
      BY DEF Timely
    <3>4. Latency < RepoSize /\ q.air =< Peeked + RepoSize - Latency - 1 /\ ~(q.air < Peeked)
      BY <3>3, <2>1, <1>0
    <3>. QED  BY <3>1, <3>2, <3>4, <2>3, <2>4 DEF Kept
  <2>5. CASE ~(k = RepositoryIndex(q.slot) /\ f = e)
    <3>1. repo'[k][f] = repo[k][f]
      BY <2>2, <2>5
    <3>. QED  BY <3>1, <2>1, <2>3, <1>0 DEF Kept, Tracked
  <2>. QED  BY <2>4, <2>5
<1>4. CASE WindowCaptured
  <2>1. PICK c \in captures :
          /\ window.pc = "idle"
          /\ captures' = captures \ {c}
          /\ window' = [pc |-> "get", slot |-> ToOfhSlot(c.slot, offset), air |-> c.air,
                        start |-> c.start, port |-> 1]
          /\ UNCHANGED <<repo, tti, slip, offset>>
    BY <1>4, CapturedStep
  <2>2. Peeked' = Peeked /\ repo' = repo
    BY <2>1 DEF Peeked
  <2>3. window'.pc # "idle" /\ window'.air = c.air /\ window'.port = 1
    BY <2>1
  <2>4. \E p \in 1 .. NofPorts : PrachEaxc[p] = f
    <3>1. NofPorts = Len(PrachEaxc)
      BY PortTypes, PrachAssumption DEF NofPorts, Timely
    <3>. QED  BY <3>1 DEF PrachEaxcSet
  <2>5. \A a : Tracked(a, f) =>
          \/ \E d \in captures' : d.air = a
          \/ /\ window'.pc # "idle" /\ window'.air = a
             /\ \E p \in window'.port .. NofPorts : PrachEaxc[p] = f
    BY <2>1, <2>3, <2>4 DEF Tracked
  <2>. QED  BY <2>2, <2>5, <1>0 DEF Kept, Tracked
<1>5. CASE RespondPort \/ ClearPort
  <2>1. /\ UNCHANGED <<tti, slip, offset, captures>>
        /\ window.pc # "idle"
    BY <1>5, PortStep
  <2>2. Peeked' = Peeked
    BY <2>1 DEF Peeked
  <2>3. repo'[k][f] = repo[k][f]
    <3>1. CASE RespondPort
      BY <3>1 DEF RespondPort
    <3>2. CASE ClearPort
      BY <3>2, ClearedStep
    <3>. QED  BY <1>5, <3>1, <3>2
  <2> DEFINE entry == repo[k][f]
             Held(w) == /\ w.pc # "idle" /\ w.air = entry.air
                        /\ \E p \in w.port .. NofPorts : PrachEaxc[p] = f
  <2>4. entry.nof # 0
    BY <2>3
  <2>5. Held(window) => Held(window')
    <3> SUFFICES ASSUME Held(window) PROVE Held(window')
      OBVIOUS
    <3>1. k = RepositoryIndex(window.slot) /\ entry.slot = window.slot
      BY <2>4, <1>0, EntryOfWindow
    <3>2. CASE RespondPort /\ Has(repo, window.slot, PrachEaxc[window.port])
      <4>1. window' = [window EXCEPT !.pc = "clear"]
        BY <3>2 DEF RespondPort
      <4>2. window'.pc = "clear" /\ window'.air = window.air /\ window'.port = window.port
        BY <4>1 DEF TypeOK
      <4>. QED  BY <4>2
    <3>3. CASE RespondPort /\ ~Has(repo, window.slot, PrachEaxc[window.port])
      <4>1. NextPort
        BY <3>3 DEF RespondPort
      <4>2. f # PrachEaxc[window.port]
        BY <3>1, <3>3, <2>4 DEF Has
      <4>. QED  BY <4>1, <4>2, PortPassed
    <3>4. CASE ClearPort
      <4>1. NextPort
        BY <3>4 DEF ClearPort
      <4>2. f # PrachEaxc[window.port]
        BY <3>1, <3>4, <2>3, <2>4, ClearedStep
      <4>. QED  BY <4>1, <4>2, PortPassed
    <3>. QED  BY <1>5, <3>2, <3>3, <3>4
  <2>6. Tracked(entry.air, f) => (\E c \in captures' : c.air = entry.air) \/ Held(window')
    BY <2>1, <2>5 DEF Tracked
  <2>. QED  BY <2>2, <2>3, <2>4, <2>6, <1>0 DEF Kept, Tracked
<1>. QED  BY <1>1, <1>2, <1>3, <1>4, <1>5 DEF Next, BetweenTtis

LEMMA TimelyInit == Init => CaptureInv /\ KeptInv
BY DEF Init, InitWith, CaptureInv, KeptInv, Kept, NoWindow, WithScs, EmptyEntry

LEMMA SpecTimely ==
  ASSUME Timely
  PROVE  Spec => [](TypeOK /\ PeekInv /\ RecordedInv /\ CaptureInv /\ KeptInv)
<1>1. TypeOK /\ PeekInv /\ RecordedInv /\ CaptureInv /\ KeptInv /\ [Next]_vars => CaptureInv' /\ KeptInv'
  BY CaptureInductive, KeptInductive
<1>. QED  BY <1>1, TimelyInit, SpecRecorded, PTL DEF Spec
-----------------------------------------------------------------------------
\* A request whose slot can be looked up is answered within the latency.
LEMMA KeptWithinLatency ==
  ASSUME TypeOK, PeekInv, CaptureInv, KeptInv, NEW k \in Indices, NEW f \in PrachEaxcSet,
         repo[k][f].nof # 0, Peekable(repo[k][f].air)
  PROVE  Peeked - repo[k][f].air =< Latency + 1
<1> DEFINE a == repo[k][f].air
<1>1. a \in Nat /\ Peeked \in Int /\ Latency \in Nat
  BY PrachAssumption DEF TypeOK, PrachEntries, Peeked
<1>2. a < Peeked => Tracked(a, f)
  BY DEF KeptInv, Kept
<1>. HIDE DEF a
<1>3. Tracked(a, f) => Peeked - a =< Latency + 1
  BY DEF Tracked, CaptureInv
<1>. QED  BY <1>1, <1>2, <1>3 DEF a

\* Under Timely a reply carries the samples of the slot its request was for:
\* neither the two numberings, the lookback nor the repository index mixes up
\* two occasions, for any number of turns of the wire numbering.
THEOREM PrachSamplesOfRequestedSlot == Timely /\ Spec => []SamplesOfRequestedSlot
<1> SUFFICES ASSUME Timely PROVE Spec => []SamplesOfRequestedSlot
  OBVIOUS
<1> DEFINE Inv == TypeOK /\ PeekInv /\ RecordedInv /\ CaptureInv /\ KeptInv
<1>1. Init => SamplesOfRequestedSlot
  BY DEF Init, InitWith, SamplesOfRequestedSlot
<1>2. Inv /\ SamplesOfRequestedSlot /\ [Next]_vars => SamplesOfRequestedSlot'
  <2> SUFFICES ASSUME Inv, SamplesOfRequestedSlot, [Next]_vars, NEW r \in sent'
               PROVE  r.request.air = r.air
    BY DEF SamplesOfRequestedSlot
  <2>1. CASE UNCHANGED vars
    BY <2>1 DEF vars, SamplesOfRequestedSlot
  <2>2. CASE AnyTti \/ BetweenTtis
    <3> DEFINE k == RepositoryIndex(window.slot)
               f == PrachEaxc[window.port]
               a == repo[k][f].air
    <3>1. /\ window.pc = "get" /\ f \in PrachEaxcSet /\ k \in Indices
          /\ Has(repo, window.slot, f)
          /\ r.request = repo[k][f] /\ r.air = window.air
      BY <2>2, SentStep DEF Get
    <3>2. repo[k][f].nof # 0 /\ repo[k][f].slot = window.slot
      BY <3>1 DEF Has
    <3>. HIDE DEF k, f
    <3>3. repo[k][f] \in PrachEntries /\ window.air \in Nat /\ a \in Nat
      BY <3>1 DEF TypeOK, PrachEntries
    <3>4. a % Period = window.air % Period
      BY <3>1, <3>2 DEF RecordedInv, CaptureInv
    <3>5. /\ window.air < Peeked /\ Peeked - window.air =< Latency + 1
          /\ Peekable(window.air)
      BY <3>1 DEF CaptureInv
    <3>6. Latency < RepoSize /\ a =< Peeked + RepoSize - Latency - 1
      BY <3>1, <3>2 DEF KeptInv, Kept
    <3>7. Peeked - a =< Latency + 1
      <4>1. a \in Int /\ window.air \in Int
        BY <3>3
      <4>2. Peekable(a)
        BY <3>4, <3>5, <4>1, PeekableSame
      <4>. QED  BY <4>2, <3>1, <3>2, KeptWithinLatency
    <3>. HIDE DEF a
    <3>8. a - window.air < Period /\ a - window.air > -Period
      <4>1. Peeked \in Int /\ Latency \in Nat /\ RepoSize \in Nat /\ Period \in Nat /\ RepoSize < Period
        BY PrachAssumption, SlotAssumption DEF TypeOK, Peeked, Timely
      <4>. QED  BY <4>1, <3>3, <3>5, <3>6, <3>7
    <3>9. a = window.air
      <4>1. a \in Int /\ window.air \in Int
        BY <3>3
      <4>. QED  BY <4>1, <3>4, <3>8, ModInjective, SlotAssumption
    <3>. QED  BY <3>1, <3>9 DEF a
  <2>. QED  BY <2>1, <2>2, NextIsAny
<1>3. Spec => []Inv
  BY SpecTimely
<1>. HIDE DEF Inv
<1>. QED  BY <1>1, <1>2, <1>3, PTL DEF Spec

\* Under Timely no request outlives its occasion: it is answered and released on
\* every eAxC within the latency of the radio.
THEOREM PrachNothingLeftOver == Timely /\ Spec => []NothingLeftOver
<1> SUFFICES ASSUME Timely PROVE Spec => []NothingLeftOver
  OBVIOUS
<1> DEFINE Inv == TypeOK /\ PeekInv /\ RecordedInv /\ CaptureInv /\ KeptInv
<1>1. Inv => NothingLeftOver
  <2> SUFFICES ASSUME Inv, NEW i \in Indices, NEW e \in PrachEaxcSet, repo[i][e].nof # 0,
                      repo[i][e].air % Period < Period - Lookback
               PROVE  Peeked - repo[i][e].air =< Latency + 1
    BY DEF NothingLeftOver
  <2>1. repo[i][e].air \in Int
    BY DEF TypeOK, PrachEntries
  <2>2. Peekable(repo[i][e].air)
    BY <2>1, PeekableEarly
  <2>. QED  BY <2>2, KeptWithinLatency
<1>2. Spec => []Inv
  BY SpecTimely
<1>. HIDE DEF Inv
<1>. QED  BY <1>1, <1>2, PTL

\* Under Timely a recorded occasion is captured, in its own radio slot, by the
\* TTI that looks back to it within the same wire period: the capture pool is
\* never exhausted and no other occasion hides it.
THEOREM PrachOccasionCaptured == Timely /\ Spec => OccasionCapturedInPeriod
<1> SUFFICES ASSUME Timely PROVE Spec => OccasionCapturedInPeriod
  OBVIOUS
<1> DEFINE Inv == TypeOK /\ PeekInv /\ RecordedInv /\ CaptureInv /\ KeptInv
           Step == tti' # tti /\ Pending(Peeked) /\ tti % Period >= Lookback
                     => \E c \in captures' : c.air = Peeked /\ c.slot = RadioSlot(Peeked)
<1>1. Inv /\ [Next]_vars => [Step]_vars
  <2> SUFFICES ASSUME Inv, Next, tti' # tti, Pending(Peeked), tti % Period >= Lookback
               PROVE  \E c \in captures' : c.air = Peeked /\ c.slot = RadioSlot(Peeked)
    BY DEF vars
  <2>1. OnTti
    BY DEF Next, BetweenTtis, RecordPrach, WindowCaptured, RespondPort, ClearPort
  <2>2. Peeked \in Int /\ Peeked + Lookback = tti
    BY PrachAssumption DEF TypeOK, Peeked
  <2>3. Peekable(Peeked)
    BY <2>2, PeekableInPeriod
  <2>4. PICK e \in PrachEaxcSet : Waiting(repo[RepositoryIndex(Peeked % Period)][e], Peeked)
    BY DEF Pending
  <2>5. RepositoryIndex(Peeked % Period) \in Indices
    BY <2>2, WireTypes, SlotAssumption
  <2>. QED  BY <2>1, <2>3, <2>4, <2>5, PendingCaptured DEF Waiting
<1>2. Spec => []Inv
  BY SpecTimely
<1>. HIDE DEF Inv
<1>. QED  BY <1>1, <1>2, PTL DEF Spec, OccasionCapturedInPeriod
=============================================================================
