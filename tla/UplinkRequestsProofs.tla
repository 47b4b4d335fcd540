------------------------ MODULE UplinkRequestsProofs ------------------------
(***************************************************************************)
(* Theorems about UplinkRequests, for every wire period, repository size,  *)
(* eAxC list, set of symbol ranges and set of Control-Plane leads.         *)
(***************************************************************************)
EXTENDS UplinkRequests, NumberTheorems, TLAPS

\* The repository never holds more slots than a wire period has.
LEMMA RepoFitsPeriod == RepoSize =< Period
BY DivisorBound, SlotAssumption

LEMMA SlotTypes ==
  /\ \A n \in Nat : n % Period \in WireSlots
  /\ \A s \in WireSlots : RepositoryIndex(s) \in Indices
BY SlotAssumption DEF WireSlots, Indices, RepositoryIndex

LEMMA PortTypes ==
  /\ 1 \in Ports
  /\ NofPorts \in Ports
  /\ \A p \in Ports : p \in Nat /\ UlEaxc[p] \in UlEaxcSet
BY UplinkAssumption, EaxcAssumption DEF Ports, NofPorts, UlEaxcSet

LEMMA ConfiguredPort ==
  ASSUME NEW m, Route(m) = "uplink"
  PROVE  m.eaxc \in UlEaxcSet /\ ~m.prach
<1>1. ~m.prach /\ Configured(UlEaxc, m.eaxc)
  BY DEF Route
<1>. QED  BY <1>1 DEF Configured, UlEaxcSet, Ports, NofPorts

\* What a recorded request looks like.
LEMMA RequestType ==
  ASSUME NEW a \in Nat, NEW range \in Ranges, NEW sid \in SectionIds,
         NEW prach \in BOOLEAN, NEW uplink, NEW eaxc
  PROVE  ToRequest([prach |-> prach, uplink |-> uplink, eaxc |-> eaxc,
                    air |-> a, range |-> range, sid |-> sid]) \in Requests
<1>1. range[1] \in Nat /\ range[2] \in Nat
  BY RequestAssumption
<1>2. a % Period \in WireSlots
  BY SlotTypes
<1>. QED  BY <1>1, <1>2 DEF ToRequest, Requests

LEMMA RequestsAreEntries == Requests \subseteq Entries
BY DEF Requests, Entries

\* The entry that get and clear look at.
LEMMA EntryType ==
  ASSUME TypeOK, NEW slot \in WireSlots, NEW e \in UlEaxcSet
  PROVE  Get(repo, slot, e) \in Entries
BY SlotTypes DEF TypeOK, Get

LEMMA AdvanceType ==
  ASSUME TypeOK, Advance
  PROVE  air' \in Nat /\ sym' \in Symbols /\ pc' = "wait" /\ port' = 1
BY RequestAssumption DEF TypeOK, Advance, Symbols

LEMMA NextPortType ==
  ASSUME TypeOK, NextPort
  PROVE  /\ air' \in Nat /\ sym' \in Symbols
         /\ pc' \in {"wait", "get"} /\ port' \in Ports
<1>1. CASE port = NofPorts
  BY <1>1, AdvanceType, PortTypes DEF NextPort
<1>2. CASE port # NofPorts
  BY <1>2, UplinkAssumption, EaxcAssumption DEF NextPort, TypeOK, Ports, NofPorts
<1>. QED  BY <1>1, <1>2

LEMMA EmptyEntryType == EmptyEntry(CHOOSE s \in SectionIds : TRUE) \in Entries
<1>1. (CHOOSE s \in SectionIds : TRUE) \in SectionIds
  BY RequestAssumption
<1>. QED  BY <1>1 DEF EmptyEntry, Entries, NoSlot

\* Type correctness of the recorder, the responder and the repository.
THEOREM UplinkTypeOK == Spec => []TypeOK
<1>1. Init => TypeOK
  BY EmptyEntryType, PortTypes, RequestAssumption
  DEF Init, TypeOK, EmptyRepository, Symbols
<1>2. TypeOK /\ [Next]_vars => TypeOK'
  <2> SUFFICES ASSUME TypeOK, [Next]_vars PROVE TypeOK'
    OBVIOUS
  <2>1. CASE OnCplaneMessage
    <3>1. PICK lead \in Leads, prach \in BOOLEAN, uplink \in BOOLEAN, eaxc \in Eaxcs,
               range \in Ranges, sid \in SectionIds :
            /\ air + lead >= 0
            /\ RecordUplink([prach |-> prach, uplink |-> uplink, eaxc |-> eaxc,
                             air |-> air + lead, range |-> range, sid |-> sid])
      BY <2>1 DEF OnCplaneMessage
    <3> DEFINE m == [prach |-> prach, uplink |-> uplink, eaxc |-> eaxc,
                     air |-> air + lead, range |-> range, sid |-> sid]
    <3>2. air + lead \in Nat
      BY <3>1, UplinkAssumption DEF TypeOK
    <3>3. ToRequest(m) \in Requests
      BY <3>2, RequestType
    <3>4. ToRequest(m) \in Entries
      BY <3>3, RequestsAreEntries
    <3>5. RepositoryIndex(ToRequest(m).slot) \in Indices
      BY <3>3, SlotTypes DEF Requests
    <3>6. repo' = Add(repo, eaxc, ToRequest(m))
      BY <3>1 DEF RecordUplink
    <3>7. eaxc \in UlEaxcSet
      BY <3>1, ConfiguredPort DEF RecordUplink
    <3> HIDE DEF m
    <3>8. repo' \in [Indices -> [UlEaxcSet -> Entries]]
      BY <3>4, <3>5, <3>6, <3>7 DEF TypeOK, Add
    <3>. QED  BY <3>1, <3>8 DEF RecordUplink, TypeOK
  <2>2. CASE SymbolCaptured
    BY <2>2, PortTypes DEF SymbolCaptured, TypeOK
  <2>3. CASE SymbolLost
    BY <2>3, AdvanceType, PortTypes DEF SymbolLost, TypeOK
  <2>4. CASE RespondPort
    <3> DEFINE eaxc == UlEaxc[port]
               request == Get(repo, AirSlot, eaxc)
    <3>1. AirSlot \in WireSlots /\ eaxc \in UlEaxcSet
      BY SlotTypes, PortTypes DEF TypeOK, AirSlot
    <3>2. request \in Entries
      BY <3>1, EntryType
    <3>3. Reply(request) \in Replies
      BY <3>1, <3>2 DEF Reply, Replies, Entries, TypeOK
    <3>4. sent' \subseteq Replies
      BY <2>4, <3>3 DEF RespondPort
    <3>5. /\ air' \in Nat /\ sym' \in Symbols
          /\ pc' \in {"wait", "get", "clear"} /\ port' \in Ports
      BY <2>4, NextPortType DEF RespondPort, TypeOK
    <3>. QED  BY <2>4, <3>4, <3>5 DEF RespondPort, TypeOK
  <2>5. CASE ClearPort
    <3>1. AirSlot \in WireSlots /\ UlEaxc[port] \in UlEaxcSet
      BY SlotTypes, PortTypes DEF TypeOK, AirSlot
    <3>2. RepositoryIndex(AirSlot) \in Indices
      BY <3>1, SlotTypes
    <3>3. repo[RepositoryIndex(AirSlot)][UlEaxc[port]] \in Entries
      BY <3>1, <3>2 DEF TypeOK
    <3>4. [repo[RepositoryIndex(AirSlot)][UlEaxc[port]] EXCEPT !.nof = 0] \in Entries
      BY <3>3 DEF Entries
    <3>5. repo' \in [Indices -> [UlEaxcSet -> Entries]]
      BY <2>5, <3>1, <3>2, <3>4 DEF ClearPort, Clear, TypeOK
    <3>. QED  BY <2>5, <3>5, NextPortType DEF ClearPort, TypeOK
  <2>6. CASE UNCHANGED vars
    BY <2>6 DEF vars, TypeOK
  <2>. QED  BY <2>1, <2>2, <2>3, <2>4, <2>5, <2>6 DEF Next
<1>. QED  BY <1>1, <1>2, PTL DEF Spec
-----------------------------------------------------------------------------
\* A pending entry is an uplink request, carries the wire number of the slot it
\* was sent for, and sits at that number's index.
RecordedInv ==
  \A i \in Indices, e \in UlEaxcSet :
    repo[i][e].nof # 0 => /\ RepositoryIndex(repo[i][e].slot) = i
                          /\ repo[i][e].slot = repo[i][e].air % Period
                          /\ ~repo[i][e].prach

\* How each action changes the repository.
LEMMA RecordStep ==
  ASSUME TypeOK, OnCplaneMessage
  PROVE  \E lead \in Leads, e \in UlEaxcSet, r \in Requests :
           /\ repo' = Add(repo, e, r)
           /\ r.air = air + lead
           /\ r.slot = r.air % Period
           /\ ~r.prach
           /\ <<r.start, r.nof>> \in Ranges
           /\ sent' = {}
           /\ UNCHANGED <<air, sym, pc, port>>
<1>1. PICK lead \in Leads, prach \in BOOLEAN, uplink \in BOOLEAN, eaxc \in Eaxcs,
           range \in Ranges, sid \in SectionIds :
        /\ air + lead >= 0
        /\ RecordUplink([prach |-> prach, uplink |-> uplink, eaxc |-> eaxc,
                         air |-> air + lead, range |-> range, sid |-> sid])
  BY DEF OnCplaneMessage
<1> DEFINE m == [prach |-> prach, uplink |-> uplink, eaxc |-> eaxc,
                 air |-> air + lead, range |-> range, sid |-> sid]
<1>2. air + lead \in Nat
  BY <1>1, UplinkAssumption DEF TypeOK
<1>3. ToRequest(m) \in Requests
  BY <1>2, RequestType
<1>4. eaxc \in UlEaxcSet /\ ~prach
  BY <1>1, ConfiguredPort DEF RecordUplink
<1>5. range = <<range[1], range[2]>>
  BY RequestAssumption
<1>6. /\ ToRequest(m).air = air + lead
      /\ ToRequest(m).slot = ToRequest(m).air % Period
      /\ ToRequest(m).prach = prach
      /\ ToRequest(m).start = range[1]
      /\ ToRequest(m).nof = range[2]
  BY DEF ToRequest
<1>7. /\ repo' = Add(repo, eaxc, ToRequest(m))
      /\ sent' = {}
      /\ UNCHANGED <<air, sym, pc, port>>
  BY <1>1 DEF RecordUplink
<1> HIDE DEF m
<1>8. <<ToRequest(m).start, ToRequest(m).nof>> \in Ranges
  BY <1>5, <1>6
<1>. QED  BY <1>3, <1>4, <1>6, <1>7, <1>8

LEMMA AddEntry ==
  ASSUME TypeOK, NEW e \in UlEaxcSet, NEW r \in Requests,
         NEW i \in Indices, NEW x \in UlEaxcSet
  PROVE  Add(repo, e, r)[i][x] = IF i = RepositoryIndex(r.slot) /\ x = e
                                 THEN r ELSE repo[i][x]
<1>1. RepositoryIndex(r.slot) \in Indices
  BY SlotTypes DEF Requests
<1>. QED  BY <1>1 DEF TypeOK, Add

LEMMA ClearEntry ==
  ASSUME TypeOK, NEW slot \in WireSlots, NEW e \in UlEaxcSet,
         NEW i \in Indices, NEW x \in UlEaxcSet
  PROVE  LET old == repo[i][x]
             new == Clear(repo, slot, e)[i][x]
         IN  /\ new.slot = old.slot /\ new.air = old.air /\ new.prach = old.prach
             /\ new.start = old.start /\ new.sid = old.sid
             /\ new.nof = IF i = RepositoryIndex(slot) /\ x = e /\ old.slot = slot
                          THEN 0 ELSE old.nof
<1>1. RepositoryIndex(slot) \in Indices
  BY SlotTypes
<1>2. repo[i][x] \in Entries /\ repo[RepositoryIndex(slot)][e] \in Entries
  BY <1>1 DEF TypeOK
<1>3. CASE repo[RepositoryIndex(slot)][e].slot # slot
  BY <1>1, <1>2, <1>3 DEF TypeOK, Clear
<1>4. CASE repo[RepositoryIndex(slot)][e].slot = slot
  <2>1. Clear(repo, slot, e) = [repo EXCEPT ![RepositoryIndex(slot)][e].nof = 0]
    BY <1>4 DEF Clear
  <2>2. CASE i = RepositoryIndex(slot) /\ x = e
    BY <1>1, <1>2, <1>4, <2>1, <2>2 DEF TypeOK, Entries
  <2>3. CASE ~(i = RepositoryIndex(slot) /\ x = e)
    BY <1>1, <1>2, <1>4, <2>1, <2>3 DEF TypeOK, Entries
  <2>. QED  BY <2>2, <2>3
<1>. QED  BY <1>3, <1>4
LEMMA RecordedInductive ==
  /\ Init => RecordedInv
  /\ TypeOK /\ RecordedInv /\ [Next]_vars => RecordedInv'
<1>1. Init => RecordedInv
  BY DEF Init, RecordedInv, EmptyRepository, EmptyEntry
<1>2. ASSUME TypeOK, RecordedInv, [Next]_vars PROVE RecordedInv'
  <2> SUFFICES ASSUME NEW i \in Indices, NEW x \in UlEaxcSet, repo'[i][x].nof # 0
               PROVE  /\ RepositoryIndex(repo'[i][x].slot) = i
                      /\ repo'[i][x].slot = repo'[i][x].air % Period
                      /\ ~repo'[i][x].prach
    BY DEF RecordedInv, RepositoryIndex
  <2>1. CASE OnCplaneMessage
    <3>1. PICK lead \in Leads, e \in UlEaxcSet, r \in Requests :
            /\ repo' = Add(repo, e, r)
            /\ r.slot = r.air % Period
            /\ ~r.prach
      BY <1>2, <2>1, RecordStep
    <3>2. repo'[i][x] = IF i = RepositoryIndex(r.slot) /\ x = e THEN r ELSE repo[i][x]
      BY <1>2, <3>1, AddEntry
    <3>. QED  BY <1>2, <3>1, <3>2 DEF RecordedInv
  <2>2. CASE ClearPort
    <3>1. AirSlot \in WireSlots /\ UlEaxc[port] \in UlEaxcSet
      BY <1>2, SlotTypes, PortTypes DEF TypeOK, AirSlot
    <3>2. repo' = Clear(repo, AirSlot, UlEaxc[port])
      BY <2>2 DEF ClearPort
    <3>3. /\ repo'[i][x].slot = repo[i][x].slot
          /\ repo'[i][x].air = repo[i][x].air
          /\ repo'[i][x].prach = repo[i][x].prach
          /\ repo[i][x].nof # 0
      BY <1>2, <3>1, <3>2, ClearEntry
    <3>. QED  BY <1>2, <3>3 DEF RecordedInv
  <2>3. CASE repo' = repo
    BY <1>2, <2>3 DEF RecordedInv
  <2>. QED
    BY <1>2, <2>1, <2>2, <2>3
    DEF Next, vars, SymbolCaptured, SymbolLost, RespondPort
<1>. QED  BY <1>1, <1>2

\* A reply sent by a step carries the pending entry of its slot and eAxC.
LEMMA SentStep ==
  ASSUME TypeOK, RecordedInv, Next, NEW r \in sent'
  PROVE  /\ pc = "get"
         /\ Has(repo, AirSlot, UlEaxc[port])
         /\ InWindow(Get(repo, AirSlot, UlEaxc[port]), sym)
         /\ r = Reply(Get(repo, AirSlot, UlEaxc[port]))
<1>1. CASE OnCplaneMessage
  BY <1>1 DEF OnCplaneMessage, RecordUplink
<1>2. CASE RespondPort
  BY <1>2 DEF RespondPort
<1>. QED  BY <1>1, <1>2 DEF Next, SymbolCaptured, SymbolLost, ClearPort

\* Every reply carries the section identifier and the window of a request that
\* was recorded, from an uplink section, for exactly the wire slot answered.
THEOREM UplinkReplyMatchesRequest == Spec => []ReplyMatchesRequest
<1>1. Init => ReplyMatchesRequest
  BY DEF Init, ReplyMatchesRequest
<1>2. ASSUME TypeOK, RecordedInv, ReplyMatchesRequest, [Next]_vars
      PROVE  ReplyMatchesRequest'
  <2>1. CASE UNCHANGED vars
    BY <1>2, <2>1 DEF vars, ReplyMatchesRequest, InWindow
  <2>2. CASE Next
    <3> SUFFICES ASSUME NEW r \in sent'
                 PROVE  /\ r.request.slot = r.slot
                        /\ r.request.air % Period = r.air % Period
                        /\ InWindow(r.request, r.symbol)
                        /\ r.sid = r.request.sid
                        /\ ~r.request.prach
      BY DEF ReplyMatchesRequest, InWindow
    <3> DEFINE entry == Get(repo, AirSlot, UlEaxc[port])
    <3>1. /\ Has(repo, AirSlot, UlEaxc[port])
          /\ InWindow(entry, sym)
          /\ r = Reply(entry)
      BY <1>2, <2>2, SentStep
    <3>2. AirSlot \in WireSlots /\ UlEaxc[port] \in UlEaxcSet
      BY <1>2, SlotTypes, PortTypes DEF TypeOK, AirSlot
    <3>3. RepositoryIndex(AirSlot) \in Indices
      BY <3>2, SlotTypes
    <3>4. /\ entry.nof # 0
          /\ entry.slot = AirSlot
      BY <3>1 DEF Has, Get
    <3>5. /\ entry.slot = entry.air % Period
          /\ ~entry.prach
      BY <1>2, <3>2, <3>3, <3>4 DEF RecordedInv, Get
    <3> HIDE DEF entry
    <3>6. /\ r.request = entry /\ r.slot = AirSlot /\ r.air = air
          /\ r.symbol = sym /\ r.sid = entry.sid
      BY <3>1 DEF Reply
    <3>. QED  BY <3>1, <3>4, <3>5, <3>6 DEF AirSlot
  <2>. QED  BY <1>2, <2>1, <2>2
<1>. QED  BY <1>1, <1>2, UplinkTypeOK, RecordedInductive, PTL DEF Spec

\* Answering one slot never loses the pending request of another slot or eAxC.
THEOREM UplinkOnlyOwnRequestCleared == Spec => OnlyOwnRequestCleared
<1> DEFINE A == \A i \in Indices, e \in UlEaxcSet :
                  repo[i][e].nof # 0 /\ repo'[i][e].nof = 0 /\ pc = "clear" /\ pc' # "clear"
                    => repo[i][e].slot = AirSlot /\ e = UlEaxc[port]
<1>1. ASSUME TypeOK, [Next]_vars PROVE [A]_vars
  <2> SUFFICES ASSUME Next, NEW i \in Indices, NEW e \in UlEaxcSet,
                      repo[i][e].nof # 0, repo'[i][e].nof = 0,
                      pc = "clear", pc' # "clear"
               PROVE  repo[i][e].slot = AirSlot /\ e = UlEaxc[port]
    BY <1>1
  <2>1. CASE ClearPort
    <3>1. AirSlot \in WireSlots /\ UlEaxc[port] \in UlEaxcSet
      BY <1>1, SlotTypes, PortTypes DEF TypeOK, AirSlot
    <3>2. repo' = Clear(repo, AirSlot, UlEaxc[port])
      BY <2>1 DEF ClearPort
    <3>. QED  BY <1>1, <3>1, <3>2, ClearEntry
  <2>2. CASE OnCplaneMessage
    BY <2>2 DEF OnCplaneMessage, RecordUplink
  <2>. QED
    BY <2>1, <2>2 DEF Next, SymbolCaptured, SymbolLost, RespondPort
<1>2. TypeOK /\ [Next]_vars => [A]_vars
  BY <1>1
<1>. QED
  BY <1>2, UplinkTypeOK, PTL DEF Spec, OnlyOwnRequestCleared
-----------------------------------------------------------------------------
Last(entry) == entry.start + entry.nof - 1

\* In a timely environment a pending entry is for the slot on air or one of the
\* next RepoSize - 1; if it is for the slot on air its last symbol is still to
\* be answered: a later symbol, or this one on a port the loop has not passed.
PendingInv ==
  \A i \in Indices, e \in UlEaxcSet :
    repo[i][e].nof # 0 =>
      /\ Last(repo[i][e]) < NofSymbols
      /\ repo[i][e].air < air + RepoSize
      /\ \/ repo[i][e].air > air
         \/ repo[i][e].air = air /\ sym < Last(repo[i][e])
         \/ /\ repo[i][e].air = air
            /\ sym = Last(repo[i][e])
            /\ \A p \in Ports : UlEaxc[p] = e => p >= port

\* Within PendingInv an entry found for the slot on air was meant for it.
LEMMA FoundIsFresh ==
  ASSUME TypeOK, RecordedInv, PendingInv,
         NEW e \in UlEaxcSet, Has(repo, AirSlot, e)
  PROVE  Get(repo, AirSlot, e).air = air
<1> DEFINE i == RepositoryIndex(AirSlot)
           entry == repo[i][e]
<1>1. i \in Indices
  BY SlotTypes DEF TypeOK, AirSlot
<1>2. entry.nof # 0 /\ entry.slot = AirSlot
  BY DEF Has
<1>3. entry \in Entries
  BY <1>1 DEF TypeOK
<1>4. entry.slot = entry.air % Period
  BY <1>1, <1>2 DEF RecordedInv
<1>5. entry.air >= air /\ entry.air < air + RepoSize
  BY <1>1, <1>2, <1>3 DEF PendingInv, TypeOK, Entries
<1>6. entry.air \in Nat /\ air \in Nat
  BY <1>3 DEF Entries, TypeOK
<1> HIDE DEF entry
<1>7. entry.air % Period = air % Period
  BY <1>2, <1>4 DEF AirSlot
<1>8. entry.air = air
  <2>1. entry.air - air < Period /\ entry.air - air > -Period
    BY <1>5, <1>6, RepoFitsPeriod, SlotAssumption
  <2>2. entry.air \in Int /\ air \in Int
    BY <1>6
  <2>. QED  BY <1>7, <2>1, <2>2, ModInjective, SlotAssumption
<1>. QED  BY <1>8 DEF entry, Get

\* The loop passes a port only if nothing is left to answer there: moving on
\* to the next port or symbol keeps PendingInv.
LEMMA NextPortPending ==
  ASSUME TypeOK, TypeOK', PendingInv, NextPort,
         \A i \in Indices, e \in UlEaxcSet :
           /\ repo'[i][e].nof # 0 => repo'[i][e] = repo[i][e]
           /\ e = UlEaxc[port] /\ repo[i][e].air = air /\ sym = Last(repo[i][e])
                => repo'[i][e].nof = 0
  PROVE  PendingInv'
<1> SUFFICES ASSUME NEW i \in Indices, NEW e \in UlEaxcSet, repo'[i][e].nof # 0
             PROVE  /\ Last(repo'[i][e]) < NofSymbols
                    /\ repo'[i][e].air < air' + RepoSize
                    /\ \/ repo'[i][e].air > air'
                       \/ repo'[i][e].air = air' /\ sym' < Last(repo'[i][e])
                       \/ /\ repo'[i][e].air = air'
                          /\ sym' = Last(repo'[i][e])
                          /\ \A p \in Ports : UlEaxc[p] = e => p >= port'
  BY DEF PendingInv, Last
<1> DEFINE entry == repo[i][e]
<1>1. repo'[i][e] = entry /\ entry.nof # 0
  OBVIOUS
<1>2. entry \in Entries
  BY DEF TypeOK
<1>3. Last(entry) \in Nat /\ entry.air \in Nat
  BY <1>1, <1>2 DEF Entries, Last
<1>4. /\ Last(entry) < NofSymbols
      /\ entry.air < air + RepoSize
      /\ \/ entry.air > air
         \/ entry.air = air /\ sym < Last(entry)
         \/ /\ entry.air = air
            /\ sym = Last(entry)
            /\ \A p \in Ports : UlEaxc[p] = e => p >= port
  BY <1>1 DEF PendingInv
<1>5. ~(e = UlEaxc[port] /\ entry.air = air /\ sym = Last(entry))
  BY <1>1
<1>6. PICK q \in Ports : UlEaxc[q] = e
  BY DEF UlEaxcSet
<1>7. q \in Nat /\ port \in Nat /\ q =< NofPorts /\ NofPorts \in Nat
  BY UplinkAssumption, EaxcAssumption DEF Ports, NofPorts, TypeOK
<1> HIDE DEF entry
<1>8. CASE port # NofPorts
  <2>1. port' = port + 1 /\ air' = air /\ sym' = sym
    BY <1>8 DEF NextPort
  <2>2. ASSUME NEW p \in Ports, UlEaxc[p] = e, entry.air = air, sym = Last(entry), p >= port
        PROVE  p >= port + 1
    <3>1. p # port
      BY <2>2, <1>5
    <3>. QED  BY <3>1, <2>2, <1>7, PortTypes
  <2>. QED  BY <1>1, <1>4, <2>1, <2>2
<1>9. CASE port = NofPorts
  <2>1. /\ sym' = (sym + 1) % NofSymbols
        /\ air' = IF sym = NofSymbols - 1 THEN air + 1 ELSE air
        /\ port' = 1
    BY <1>9 DEF NextPort, Advance
  <2>2. ~(entry.air = air /\ sym = Last(entry))
    <3>1. SUFFICES ASSUME entry.air = air, sym = Last(entry) PROVE FALSE
      OBVIOUS
    <3>2. q >= port
      BY <1>3, <1>4, <1>6, <3>1 DEF TypeOK, Symbols
    <3>3. q = port
      BY <1>7, <1>9, <3>2
    <3>. QED  BY <1>5, <1>6, <3>1, <3>3
  <2>3. \A p \in Ports : p >= 1
    BY DEF Ports
  <2>4. sym \in 0 .. (NofSymbols - 1) /\ air \in Nat /\ NofSymbols \in Nat \ {0}
    BY RequestAssumption DEF TypeOK, Symbols
  <2>5. CASE sym = NofSymbols - 1
    <3>1. sym' = 0 /\ air' = air + 1
      BY <2>1, <2>4, <2>5
    <3>2. entry.air > air
      BY <1>3, <1>4, <2>2, <2>4, <2>5
    <3>. QED  BY <1>1, <1>3, <1>4, <2>1, <2>3, <2>4, <3>1, <3>2, SlotAssumption
  <2>6. CASE sym # NofSymbols - 1
    <3>1. sym' = sym + 1 /\ air' = air
      BY <2>1, <2>4, <2>6
    <3>. QED  BY <1>1, <1>3, <1>4, <2>1, <2>2, <2>3, <2>4, <3>1
  <2>. QED  BY <2>5, <2>6
<1>. QED  BY <1>8, <1>9
LEMMA PendingInductive ==
  ASSUME Timely
  PROVE  /\ Init => PendingInv
         /\ TypeOK /\ TypeOK' /\ RecordedInv /\ PendingInv /\ [Next]_vars => PendingInv'
<1>1. Init => PendingInv
  BY DEF Init, PendingInv, EmptyRepository, EmptyEntry
<1>2. ASSUME TypeOK, TypeOK', RecordedInv, PendingInv, [Next]_vars PROVE PendingInv'
  <2> USE <1>2
  <2>0. AirSlot \in WireSlots /\ UlEaxc[port] \in UlEaxcSet
    BY SlotTypes, PortTypes DEF TypeOK, AirSlot
  <2>1. CASE OnCplaneMessage
    <3>1. PICK lead \in Leads, e \in UlEaxcSet, r \in Requests :
            /\ repo' = Add(repo, e, r)
            /\ r.air = air + lead
            /\ <<r.start, r.nof>> \in Ranges
            /\ UNCHANGED <<air, sym, pc, port>>
      BY <2>1, RecordStep
    <3>2. lead \in 1 .. (RepoSize - 1)
      BY DEF Timely
    <3>3. r.start + r.nof =< NofSymbols /\ r.start \in Nat /\ r.nof \in Nat
      <4>1. <<r.start, r.nof>>[2] > 0 /\ <<r.start, r.nof>>[1] + <<r.start, r.nof>>[2] =< NofSymbols
        BY <3>1 DEF Timely
      <4>. QED  BY <4>1 DEF Requests
    <3>4. \A i \in Indices, x \in UlEaxcSet :
            repo'[i][x] = IF i = RepositoryIndex(r.slot) /\ x = e THEN r ELSE repo[i][x]
      BY <3>1, AddEntry
    <3>5. r.air > air /\ r.air < air + RepoSize /\ Last(r) < NofSymbols
      BY <3>1, <3>2, <3>3, SlotAssumption, RequestAssumption DEF TypeOK, Last
    <3>. QED  BY <3>1, <3>4, <3>5 DEF PendingInv
  <2>2. CASE SymbolCaptured
    <3>1. port' = 1 /\ UNCHANGED <<repo, air, sym>>
      BY <2>2 DEF SymbolCaptured
    <3>2. \A p \in Ports : p >= 1
      BY DEF Ports
    <3>. QED  BY <3>1, <3>2 DEF PendingInv, Last
  <2>3. CASE SymbolLost
    BY <2>3 DEF SymbolLost, Timely
  <2>4. CASE RespondPort
    <3> DEFINE eaxc == UlEaxc[port]
               request == Get(repo, AirSlot, eaxc)
    <3>1. repo' = repo
      BY <2>4 DEF RespondPort
    <3>2. CASE UNCHANGED <<air, sym, port>>
      BY <3>1, <3>2 DEF PendingInv, Last
    <3>3. CASE NextPort /\ (Has(repo, AirSlot, eaxc) => ~InWindow(request, sym) \/ ~IsLastSymbol(request, sym))
      <4>1. ASSUME NEW i \in Indices, repo[i][eaxc].air = air, sym = Last(repo[i][eaxc])
            PROVE  repo'[i][eaxc].nof = 0
        \* Were it pending, get would have found it, in its window, at its last symbol.
        <5>1. SUFFICES ASSUME repo[i][eaxc].nof # 0 PROVE FALSE
          BY <3>1
        <5>2. repo[i][eaxc].slot = AirSlot /\ i = RepositoryIndex(AirSlot)
          BY <2>0, <4>1, <5>1 DEF RecordedInv, AirSlot
        <5>3. Has(repo, AirSlot, eaxc) /\ request = repo[i][eaxc]
          BY <5>1, <5>2 DEF Has, Get
        <5>4. repo[i][eaxc] \in Entries
          BY <2>0 DEF TypeOK
        <5>5. InWindow(repo[i][eaxc], sym) /\ IsLastSymbol(repo[i][eaxc], sym)
          BY <4>1, <5>1, <5>4 DEF InWindow, IsLastSymbol, Last, Entries
        <5>. QED  BY <3>3, <5>3, <5>5
      <4>. QED  BY <3>1, <3>3, <4>1, NextPortPending
    <3>. QED  BY <2>4, <3>2, <3>3 DEF RespondPort
  <2>5. CASE ClearPort
    <3>1. repo' = Clear(repo, AirSlot, UlEaxc[port]) /\ NextPort
      BY <2>5 DEF ClearPort
    <3>2. ASSUME NEW i \in Indices, NEW e \in UlEaxcSet
          PROVE  /\ repo'[i][e].nof # 0 => repo'[i][e] = repo[i][e]
                 /\ e = UlEaxc[port] /\ repo[i][e].air = air /\ sym = Last(repo[i][e])
                      => repo'[i][e].nof = 0
      <4>1. repo'[i][e] \in Entries /\ repo[i][e] \in Entries
        BY DEF TypeOK
      <4>2. /\ repo'[i][e].slot = repo[i][e].slot
            /\ repo'[i][e].air = repo[i][e].air
            /\ repo'[i][e].prach = repo[i][e].prach
            /\ repo'[i][e].start = repo[i][e].start
            /\ repo'[i][e].sid = repo[i][e].sid
            /\ repo'[i][e].nof =
                 IF i = RepositoryIndex(AirSlot) /\ e = UlEaxc[port] /\ repo[i][e].slot = AirSlot
                 THEN 0 ELSE repo[i][e].nof
        BY <2>0, <3>1, ClearEntry
      <4>3. repo'[i][e].nof # 0 => repo'[i][e] = repo[i][e]
        BY <4>1, <4>2 DEF Entries
      <4>4. ASSUME e = UlEaxc[port], repo[i][e].air = air, repo[i][e].nof # 0
            PROVE  repo'[i][e].nof = 0
        <5>1. repo[i][e].slot = AirSlot /\ RepositoryIndex(AirSlot) = i
          BY <4>4 DEF RecordedInv, AirSlot
        <5>. QED  BY <4>2, <4>4, <5>1
      <4>. QED  BY <4>2, <4>3, <4>4
    <3>. QED  BY <3>1, <3>2, NextPortPending
  <2>6. CASE UNCHANGED vars
    BY <2>6 DEF vars, PendingInv, Last
  <2>. QED  BY <2>1, <2>2, <2>3, <2>4, <2>5, <2>6 DEF Next
<1>. QED  BY <1>1, <1>2

\* In a timely environment a reply answers the slot occurrence its request was
\* sent for, never a later slot with the same wire number: no request of an
\* earlier wire period survives in the repository.
THEOREM UplinkNoStaleReply == Timely /\ Spec => []NoStaleReply
<1> SUFFICES ASSUME Timely PROVE Spec => []NoStaleReply
  OBVIOUS
<1>1. Init => NoStaleReply
  BY DEF Init, NoStaleReply
<1>2. ASSUME TypeOK, RecordedInv, PendingInv, NoStaleReply, [Next]_vars
      PROVE  NoStaleReply'
  <2>1. CASE UNCHANGED vars
    BY <1>2, <2>1 DEF vars, NoStaleReply
  <2>2. CASE Next
    <3> SUFFICES ASSUME NEW r \in sent' PROVE r.air = r.request.air
      BY DEF NoStaleReply
    <3>1. /\ Has(repo, AirSlot, UlEaxc[port])
          /\ r = Reply(Get(repo, AirSlot, UlEaxc[port]))
      BY <1>2, <2>2, SentStep
    <3>2. UlEaxc[port] \in UlEaxcSet
      BY <1>2, PortTypes DEF TypeOK
    <3>3. Get(repo, AirSlot, UlEaxc[port]).air = air
      BY <1>2, <3>1, <3>2, FoundIsFresh
    <3>. QED  BY <3>1, <3>3 DEF Reply
  <2>. QED  BY <1>2, <2>1, <2>2
<1>3. Init => PendingInv
  BY PendingInductive
<1>4. TypeOK /\ TypeOK' /\ RecordedInv /\ PendingInv /\ [Next]_vars => PendingInv'
  BY PendingInductive
<1>. QED
  BY <1>1, <1>2, <1>3, <1>4, UplinkTypeOK, RecordedInductive, PTL DEF Spec
-----------------------------------------------------------------------------
\* While a clear is on its way, an entry it would release is at its last symbol:
\* a request recorded meanwhile is for another slot, and is left alone.
ClearInv ==
  pc = "clear" /\ Has(repo, AirSlot, UlEaxc[port])
    => IsLastSymbol(Get(repo, AirSlot, UlEaxc[port]), sym)

LEMMA AirPort ==
  ASSUME TypeOK
  PROVE  /\ AirSlot \in WireSlots
         /\ RepositoryIndex(AirSlot) \in Indices
         /\ UlEaxc[port] \in UlEaxcSet
BY SlotTypes, PortTypes DEF TypeOK, AirSlot

LEMMA ClearInductive ==
  ASSUME Timely
  PROVE  /\ Init => ClearInv
         /\ TypeOK /\ ClearInv /\ [Next]_vars => ClearInv'
<1>1. Init => ClearInv
  BY DEF Init, ClearInv
<1>2. ASSUME TypeOK, ClearInv, [Next]_vars PROVE ClearInv'
  <2> USE <1>2
  <2>1. CASE OnCplaneMessage
    <3>1. PICK lead \in Leads, e \in UlEaxcSet, r \in Requests :
            /\ repo' = Add(repo, e, r)
            /\ r.air = air + lead
            /\ r.slot = r.air % Period
            /\ UNCHANGED <<air, sym, pc, port>>
      BY <2>1, RecordStep
    <3> DEFINE i == RepositoryIndex(AirSlot)
               x == UlEaxc[port]
    <3>2. repo'[i][x] = IF i = RepositoryIndex(r.slot) /\ x = e THEN r ELSE repo[i][x]
      BY <3>1, AddEntry, AirPort
    <3>3. r.slot # AirSlot
      <4>1. lead \in 1 .. (RepoSize - 1)
        BY DEF Timely
      <4>2. r.air \in Int /\ air \in Int /\ r.air # air /\ r.air - air < Period /\ r.air - air > -Period
        BY <3>1, <4>1, RepoFitsPeriod, SlotAssumption DEF TypeOK
      <4>. QED  BY <3>1, <4>2, ModInjective, SlotAssumption DEF AirSlot
    <3>4. AirSlot' = AirSlot
      BY <3>1 DEF AirSlot
    <3>. QED  BY <3>1, <3>2, <3>3, <3>4 DEF ClearInv, Has, Get, IsLastSymbol, RepositoryIndex
  <2>2. CASE RespondPort
    <3>1. CASE pc' = "clear"
      <4>1. UNCHANGED <<repo, air, sym, port>> /\ IsLastSymbol(Get(repo, AirSlot, UlEaxc[port]), sym)
        BY <2>2, <3>1 DEF RespondPort, NextPort, Advance
      <4>. QED  BY <4>1 DEF ClearInv, Has, Get, IsLastSymbol, AirSlot
    <3>. QED  BY <3>1 DEF ClearInv
  <2>3. CASE ~(OnCplaneMessage \/ RespondPort \/ UNCHANGED vars)
    <3>1. pc' # "clear"
      BY <2>3 DEF Next, SymbolCaptured, SymbolLost, ClearPort, NextPort, Advance
    <3>. QED  BY <3>1 DEF ClearInv
  <2>4. CASE UNCHANGED vars
    BY <2>4 DEF vars, ClearInv, Has, Get, IsLastSymbol, AirSlot
  <2>. QED  BY <2>1, <2>2, <2>3, <2>4
<1>. QED  BY <1>1, <1>2

\* The reply that an entry stands for at one of its symbols.
ReplyFor(entry, e, s) == [air |-> entry.air, eaxc |-> e, symbol |-> s, sid |-> entry.sid]

LEMMA OwedNow ==
  ASSUME NEW o
  PROVE  o \in Owed <=> \E i \in Indices, e \in UlEaxcSet, s \in Symbols :
           StillDue(repo[i][e], e, s) /\ o = ReplyFor(repo[i][e], e, s)
BY DEF Owed, ReplyFor

LEMMA OwedNext ==
  ASSUME NEW o
  PROVE  o \in Owed' <=> \E i \in Indices, e \in UlEaxcSet, s \in Symbols :
           StillDue(repo[i][e], e, s)' /\ o = ReplyFor(repo'[i][e], e, s)
BY DEF Owed, ReplyFor

\* A step that settles the replies in D, and no others.
LEMMA OwedShrinks ==
  ASSUME NEW D,
         \A i \in Indices, e \in UlEaxcSet, s \in Symbols :
           /\ StillDue(repo[i][e], e, s)' <=>
                StillDue(repo[i][e], e, s) /\ ReplyFor(repo[i][e], e, s) \notin D
           /\ StillDue(repo[i][e], e, s)' =>
                ReplyFor(repo'[i][e], e, s) = ReplyFor(repo[i][e], e, s)
  PROVE  Owed' = Owed \ D
<1>1. ASSUME NEW o \in Owed' PROVE o \in Owed \ D
  <2>1. PICK i \in Indices, e \in UlEaxcSet, s \in Symbols :
          StillDue(repo[i][e], e, s)' /\ o = ReplyFor(repo'[i][e], e, s)
    BY <1>1, OwedNext
  <2>2. StillDue(repo[i][e], e, s) /\ o = ReplyFor(repo[i][e], e, s) /\ o \notin D
    BY <2>1
  <2>. QED  BY <2>2, OwedNow
<1>2. ASSUME NEW o \in Owed \ D PROVE o \in Owed'
  <2>1. PICK i \in Indices, e \in UlEaxcSet, s \in Symbols :
          StillDue(repo[i][e], e, s) /\ o = ReplyFor(repo[i][e], e, s)
    BY <1>2, OwedNow
  <2>2. StillDue(repo[i][e], e, s)' /\ o = ReplyFor(repo'[i][e], e, s)
    BY <1>2, <2>1
  <2>. QED  BY <2>2, OwedNext
<1>. QED  BY <1>1, <1>2

\* The replies due on the port the loop is at.
PortDue == {o \in Owed : o.air = air /\ o.symbol = sym /\ o.eaxc = UlEaxc[port]}

LEMMA ReplyFields ==
  ASSUME NEW entry, NEW e, NEW s
  PROVE  /\ ReplyFor(entry, e, s).air = entry.air
         /\ ReplyFor(entry, e, s).eaxc = e
         /\ ReplyFor(entry, e, s).symbol = s
BY DEF ReplyFor

\* A reply due now comes from the entry that get looks at.
LEMMA DueFromAirSlot ==
  ASSUME TypeOK, RecordedInv, NEW i \in Indices, NEW e \in UlEaxcSet, NEW s,
         StillDue(repo[i][e], e, s), repo[i][e].air = air
  PROVE  /\ i = RepositoryIndex(AirSlot)
         /\ Has(repo, AirSlot, e)
         /\ repo[i][e] = Get(repo, AirSlot, e)
         /\ InWindow(Get(repo, AirSlot, e), s)
<1>1. repo[i][e].nof # 0 /\ InWindow(repo[i][e], s)
  BY DEF StillDue
<1>2. RepositoryIndex(repo[i][e].slot) = i /\ repo[i][e].slot = AirSlot
  BY <1>1 DEF RecordedInv, AirSlot
<1>. QED  BY <1>1, <1>2 DEF Has, Get

\* Once the loop is at the last port only that port's reply can be due.
LEMMA LastPortDue ==
  ASSUME TypeOK, pc # "wait", port = NofPorts, NEW o \in Owed, o.air = air, o.symbol = sym
  PROVE  o \in PortDue /\ pc = "get"
<1>1. PICK i \in Indices, e \in UlEaxcSet, s \in Symbols :
        StillDue(repo[i][e], e, s) /\ o = ReplyFor(repo[i][e], e, s)
  BY OwedNow
<1>2. repo[i][e].air = air /\ s = sym /\ o.eaxc = e
  BY <1>1, ReplyFields
<1>3. air \in Nat /\ sym \in Nat
  BY RequestAssumption DEF TypeOK, Symbols
<1>4. ~Handled(e)
  BY <1>1, <1>2, <1>3 DEF StillDue
<1>5. PICK q \in Ports : UlEaxc[q] = e
  BY DEF UlEaxcSet
<1>6. q \in Nat /\ port \in Nat /\ q =< port
  BY UplinkAssumption, EaxcAssumption DEF Ports, NofPorts, TypeOK
<1>7. q = port /\ pc # "clear"
  BY <1>4, <1>5, <1>6 DEF Handled
<1>. QED  BY <1>2, <1>5, <1>7 DEF PortDue, TypeOK

\* Within a symbol the loop settles the port it leaves, or has answered.
LEMMA PortPassed ==
  ASSUME TypeOK, TypeOK', pc # "wait", UNCHANGED <<air, sym>>,
         \/ pc' = "clear" /\ port' = port
         \/ pc' = "get" /\ port' = port + 1,
         pc' = "clear" => pc = "get",
         \A i \in Indices, e \in UlEaxcSet, s \in Symbols :
           \/ repo'[i][e] = repo[i][e]
           \/ /\ repo'[i][e].nof = 0
              /\ StillDue(repo[i][e], e, s) => ReplyFor(repo[i][e], e, s) \in PortDue
  PROVE  Owed' = Owed \ PortDue
<1> SUFFICES ASSUME NEW i \in Indices, NEW e \in UlEaxcSet, NEW s \in Symbols
             PROVE  /\ StillDue(repo[i][e], e, s)' <=>
                         StillDue(repo[i][e], e, s) /\ ReplyFor(repo[i][e], e, s) \notin PortDue
                    /\ StillDue(repo[i][e], e, s)' =>
                         ReplyFor(repo'[i][e], e, s) = ReplyFor(repo[i][e], e, s)
  BY OwedShrinks
<1> DEFINE entry == repo[i][e]
<1>1. CASE repo'[i][e] # repo[i][e]
  <2>1. ~StillDue(entry, e, s)'
    BY <1>1 DEF StillDue
  <2>. QED  BY <1>1, <2>1
<1>2. CASE repo'[i][e] = repo[i][e]
  <2>1. Handled(e)' <=> Handled(e) \/ e = UlEaxc[port]
    <3>1. port \in Ports /\ port \in Nat /\ \A p \in Ports : p \in Nat
      BY PortTypes DEF TypeOK
    <3>2. CASE pc' = "clear" /\ port' = port
      BY <3>1, <3>2 DEF Handled
    <3>3. CASE pc' = "get" /\ port' = port + 1
      BY <3>1, <3>3 DEF Handled, TypeOK
    <3>. QED  BY <3>2, <3>3
  <2>2. air \in Nat /\ sym \in Nat /\ s \in Nat /\ entry.air \in Nat
    BY RequestAssumption DEF TypeOK, Symbols, Entries
  <2>3. InWindow(entry, s)' <=> InWindow(entry, s)
    BY <1>2 DEF InWindow
  <2>4. StillDue(entry, e, s)' <=> /\ StillDue(entry, e, s)
                                  /\ ~(entry.air = air /\ s = sym /\ e = UlEaxc[port])
    BY <1>2, <2>1, <2>2, <2>3 DEF StillDue
  <2>5. StillDue(entry, e, s) =>
          (ReplyFor(entry, e, s) \in PortDue <=> entry.air = air /\ s = sym /\ e = UlEaxc[port])
    BY OwedNow, ReplyFields DEF PortDue
  <2>. QED  BY <1>2, <2>4, <2>5
<1>. QED  BY <1>1, <1>2

\* The next symbol settles whatever was due in this one.
LEMMA SymbolPassed ==
  ASSUME TypeOK, TypeOK', Advance,
         \A i \in Indices, e \in UlEaxcSet, s \in Symbols :
           \/ repo'[i][e] = repo[i][e]
           \/ /\ repo'[i][e].nof = 0
              /\ StillDue(repo[i][e], e, s) => ReplyFor(repo[i][e], e, s) \in Contract!Due
  PROVE  Owed' = Owed \ Contract!Due
<1> SUFFICES ASSUME NEW i \in Indices, NEW e \in UlEaxcSet, NEW s \in Symbols
             PROVE  /\ StillDue(repo[i][e], e, s)' <=>
                         StillDue(repo[i][e], e, s) /\ ReplyFor(repo[i][e], e, s) \notin Contract!Due
                    /\ StillDue(repo[i][e], e, s)' =>
                         ReplyFor(repo'[i][e], e, s) = ReplyFor(repo[i][e], e, s)
  BY OwedShrinks
<1> DEFINE entry == repo[i][e]
<1>1. CASE repo'[i][e] # repo[i][e]
  <2>1. ~StillDue(entry, e, s)'
    BY <1>1 DEF StillDue
  <2>. QED  BY <1>1, <2>1
<1>2. CASE repo'[i][e] = repo[i][e]
  <2>1. ~Handled(e)'
    BY DEF Handled, Advance
  <2>2. /\ air \in Nat /\ sym \in 0 .. (NofSymbols - 1) /\ s \in 0 .. (NofSymbols - 1)
        /\ entry.air \in Nat /\ NofSymbols \in Nat \ {0}
    BY RequestAssumption DEF TypeOK, Symbols, Entries
  <2>3. \/ sym = NofSymbols - 1 /\ sym' = 0 /\ air' = air + 1
        \/ sym < NofSymbols - 1 /\ sym' = sym + 1 /\ air' = air
    BY <2>2 DEF Advance
  <2>4. InWindow(entry, s)' <=> InWindow(entry, s)
    BY <1>2 DEF InWindow
  <2>5. StillDue(entry, e, s)' <=> StillDue(entry, e, s) /\ ~(entry.air = air /\ s = sym)
    <3>1. /\ (entry.air > air' \/ (entry.air = air' /\ s > sym') \/ (entry.air = air' /\ s = sym'))
               <=> (entry.air > air \/ (entry.air = air /\ s > sym))
          /\ ~(entry.air > air /\ entry.air = air) /\ ~(s > sym /\ s = sym)
      <4> DEFINE a == entry.air
      <4>1. a \in Nat /\ air \in Int /\ sym \in Int /\ s \in Int /\ s <= NofSymbols - 1 /\ s >= 0
            /\ NofSymbols \in Int
        BY <2>2
      <4>. HIDE DEF a, entry
      <4>2. CASE sym = NofSymbols - 1 /\ sym' = 0 /\ air' = air + 1
        BY <4>1, <4>2 DEF a
      <4>3. CASE sym < NofSymbols - 1 /\ sym' = sym + 1 /\ air' = air
        BY <4>1, <4>3 DEF a
      <4>. QED  BY <2>3, <4>2, <4>3
    <3>2. StillDue(entry, e, s)' <=>
            /\ entry.nof # 0
            /\ InWindow(entry, s)
            /\ entry.air > air' \/ (entry.air = air' /\ s > sym') \/ (entry.air = air' /\ s = sym')
      BY <1>2, <2>1, <2>4 DEF StillDue
    <3>3. StillDue(entry, e, s) <=>
            /\ entry.nof # 0
            /\ InWindow(entry, s)
            /\ \/ entry.air > air
               \/ entry.air = air /\ s > sym
               \/ entry.air = air /\ s = sym /\ ~Handled(e)
      BY DEF StillDue
    <3>. HIDE DEF entry
    <3>. QED  BY <3>1, <3>2, <3>3
  <2>6. StillDue(entry, e, s) =>
          (ReplyFor(entry, e, s) \in Contract!Due <=> entry.air = air /\ s = sym)
    BY OwedNow, ReplyFields DEF Contract!Due
  <2>. QED  BY <1>2, <2>5, <2>6
<1>. QED  BY <1>1, <1>2

\* The index of a slot is its number modulo the repository size.
LEMMA IndexOfSlot ==
  ASSUME NEW a \in Nat
  PROVE  RepositoryIndex(a % Period) = a % RepoSize
<1>1. a % Period \in 0 .. (Period - 1) /\ Period \in Nat \ {0} /\ RepoSize \in Nat \ {0}
  BY SlotAssumption
<1>2. (a % Period) % Period = a % Period
  BY <1>1, ModSmall
<1>3. (a % Period) % RepoSize = a % RepoSize
  <2>1. a \in Int /\ Period % RepoSize = 0
    BY SlotAssumption
  <2>. QED  BY <1>1, <2>1, ModMod
<1>. QED  BY <1>2, <1>3 DEF RepositoryIndex

\* What the responder sends is exactly what is due on its port.
LEMMA RespondSendsDue ==
  ASSUME TypeOK, TypeOK', OnePortPerEaxc, RecordedInv, PendingInv, RespondPort
  PROVE  Answered' = PortDue
<1> DEFINE e == UlEaxc[port]
           request == Get(repo, AirSlot, e)
<1>1. AirSlot \in WireSlots /\ RepositoryIndex(AirSlot) \in Indices /\ e \in UlEaxcSet
  BY AirPort
<1>2. ASSUME NEW o \in PortDue
      PROVE  Has(repo, AirSlot, e) /\ InWindow(request, sym) /\ o = ReplyFor(request, e, sym)
  <2>1. PICK i \in Indices, x \in UlEaxcSet, s \in Symbols :
          StillDue(repo[i][x], x, s) /\ o = ReplyFor(repo[i][x], x, s)
    BY <1>2, OwedNow DEF PortDue
  <2>2. x = e /\ s = sym /\ repo[i][x].air = air
    BY <1>2, <2>1, ReplyFields DEF PortDue
  <2>. QED  BY <2>1, <2>2, DueFromAirSlot
<1>3. CASE ~Has(repo, AirSlot, e) \/ ~InWindow(request, sym)
  <2>1. sent' = {}
    BY <1>3 DEF RespondPort
  <2>. QED  BY <1>2, <1>3, <2>1 DEF Answered
<1>4. CASE Has(repo, AirSlot, e) /\ InWindow(request, sym)
  <2>1. sent' = {Reply(request)}
    BY <1>4 DEF RespondPort
  <2>2. request.air = air
    BY <1>1, <1>4, FoundIsFresh
  <2>3. ReplyFor(request, e, sym) \in PortDue
    <3>1. ~Handled(e)
      <4>1. port \in Ports /\ port \in Nat
        BY PortTypes DEF TypeOK
      <4>2. ASSUME NEW p \in Ports, UlEaxc[p] = e PROVE p = port
        BY <4>1, <4>2 DEF OnePortPerEaxc
      <4>3. pc = "get"
        BY DEF RespondPort
      <4>. QED  BY <4>1, <4>2, <4>3 DEF Handled
    <3>2. StillDue(repo[RepositoryIndex(AirSlot)][e], e, sym)
      BY <1>4, <2>2, <3>1 DEF StillDue, Has, Get
    <3>3. sym \in Symbols /\ request = repo[RepositoryIndex(AirSlot)][e]
      BY DEF TypeOK, Get
    <3>4. ReplyFor(request, e, sym) \in Owed
      BY <1>1, <3>2, <3>3, OwedNow
    <3>. QED  BY <2>2, <3>4, ReplyFields DEF PortDue
  <2>4. Answered' = {ReplyFor(request, e, sym)}
    <3>1. /\ Reply(request).air = request.air /\ Reply(request).eaxc = e
          /\ Reply(request).symbol = sym /\ Reply(request).sid = request.sid
      BY <2>2 DEF Reply
    <3>. QED  BY <2>1, <3>1 DEF Answered, ReplyFor
  <2>. QED  BY <1>2, <2>3, <2>4
<1>. QED  BY <1>3, <1>4

\* Leaving a port maps to a step of the contract that sends what is due there.
LEMMA PortServed ==
  ASSUME TypeOK, TypeOK', pc # "wait", Answered' = PortDue,
         \/ NextPort
         \/ pc = "get" /\ pc' = "clear" /\ UNCHANGED <<air, sym, port>>,
         \A i \in Indices, e \in UlEaxcSet, s \in Symbols :
           \/ repo'[i][e] = repo[i][e]
           \/ /\ repo'[i][e].nof = 0
              /\ StillDue(repo[i][e], e, s) => ReplyFor(repo[i][e], e, s) \in PortDue
  PROVE  Contract!Serve
<1>1. PortDue \in SUBSET Contract!Due
  BY DEF PortDue, Contract!Due
<1>2. CASE NextPort /\ port = NofPorts
  <2>1. Advance
    BY <1>2 DEF NextPort
  <2>2. PortDue = Contract!Due
    BY <1>1, <1>2, LastPortDue DEF Contract!Due
  <2>3. Owed' = Owed \ Contract!Due
    BY <2>1, <2>2, SymbolPassed
  <2>4. /\ sym' = (sym + 1) % NofSymbols
        /\ air' = IF sym = NofSymbols - 1 THEN air + 1 ELSE air
    BY <2>1 DEF Advance
  <2>. QED  BY <1>1, <2>2, <2>3, <2>4 DEF Contract!Serve
<1>3. CASE ~(NextPort /\ port = NofPorts)
  <2>1. /\ UNCHANGED <<air, sym>>
        /\ \/ pc' = "clear" /\ port' = port
           \/ pc' = "get" /\ port' = port + 1
        /\ pc' = "clear" => pc = "get"
    BY <1>3 DEF NextPort
  <2>2. Owed' = Owed \ PortDue
    BY <2>1, PortPassed
  <2>. QED  BY <1>1, <2>1, <2>2 DEF Contract!Serve
<1>. QED  BY <1>2, <1>3

\* Recording a request maps to the contract's Request.
LEMMA RecordRequests ==
  ASSUME Timely, TypeOK, TypeOK', RecordedInv, PendingInv, OnCplaneMessage
  PROVE  Contract!Next
<1>1. PICK lead \in Leads, e \in UlEaxcSet, r \in Requests :
        /\ repo' = Add(repo, e, r)
        /\ r.air = air + lead
        /\ r.slot = r.air % Period
        /\ <<r.start, r.nof>> \in Ranges
        /\ sent' = {}
        /\ UNCHANGED <<air, sym, pc, port>>
  BY RecordStep
<1> DEFINE first == r.start
           last == r.start + r.nof - 1
           place == RepositoryIndex(r.slot)
           new == {[air |-> r.air, eaxc |-> e, symbol |-> s, sid |-> r.sid] : s \in first .. last}
<1>2. /\ r.air \in (air + 1) .. (air + (RepoSize - 1))
      /\ r.air > air /\ r.air < air + RepoSize
  <2>1. lead \in 1 .. (RepoSize - 1)
    BY DEF Timely
  <2>. QED  BY <1>1, <2>1, SlotAssumption DEF TypeOK
<1>3. /\ r.nof # 0 /\ r.start \in Nat /\ r.nof \in Nat
      /\ first \in Symbols /\ last \in Symbols
  <2>1. <<r.start, r.nof>>[2] > 0 /\ <<r.start, r.nof>>[1] + <<r.start, r.nof>>[2] =< NofSymbols
    BY <1>1 DEF Timely
  <2>. QED  BY <2>1, RequestAssumption DEF Requests, Symbols
<1>4. \A i \in Indices, x \in UlEaxcSet :
        repo'[i][x] = IF i = place /\ x = e THEN r ELSE repo[i][x]
  BY <1>1, AddEntry
<1>5. place \in Indices
  BY SlotTypes DEF Requests
<1>6. ASSUME NEW i \in Indices, NEW x \in UlEaxcSet, NEW s \in Symbols,
             ~(i = place /\ x = e)
      PROVE  StillDue(repo[i][x], x, s)' <=> StillDue(repo[i][x], x, s)
  <2>1. repo'[i][x] = repo[i][x]
    BY <1>4, <1>6
  <2>. QED  BY <1>1, <2>1 DEF StillDue, InWindow, Handled
<1>7. ASSUME NEW s \in Symbols
      PROVE  StillDue(repo[place][e], e, s)' <=> s \in first .. last
  <2>1. repo'[place][e] = r
    BY <1>4, <1>5
  <2>2. s \in Nat
    BY <1>7, RequestAssumption DEF Symbols
  <2>3. s \in first .. last <=> s >= r.start /\ s < r.start + r.nof
    BY <1>3, <2>2
  <2>. QED  BY <1>1, <1>2, <1>3, <2>1, <2>3 DEF StillDue, InWindow
\* The entry that is overwritten was for the same slot, if for any.
<1>8. ASSUME NEW i \in Indices, NEW x \in UlEaxcSet, NEW s \in Symbols, StillDue(repo[i][x], x, s)
      PROVE  (i = place /\ x = e) <=> (repo[i][x].air = r.air /\ x = e)
  <2> DEFINE entry == repo[i][x]
  <2>1. entry.nof # 0 /\ entry \in Entries
    BY <1>8 DEF StillDue, TypeOK
  <2>2. /\ RepositoryIndex(entry.slot) = i
        /\ entry.slot = entry.air % Period
    BY <2>1 DEF RecordedInv
  <2>3. /\ entry.air \in Nat /\ air \in Nat /\ r.air \in Nat
        /\ entry.air < air + RepoSize /\ entry.air >= air
    BY <2>1 DEF PendingInv, Entries, TypeOK, Requests
  <2>. HIDE DEF entry
  <2>4. ASSUME i = place PROVE entry.air = r.air
    <3>1. entry.air % RepoSize = r.air % RepoSize
      BY <1>1, <2>2, <2>3, <2>4, IndexOfSlot
    <3>2. entry.air - r.air < RepoSize /\ entry.air - r.air > -RepoSize
      BY <1>2, <2>3, SlotAssumption
    <3>. QED  BY <2>3, <3>1, <3>2, ModInjective, SlotAssumption
  <2>5. ASSUME entry.air = r.air PROVE i = place
    BY <1>1, <2>2, <2>5
  <2>. QED  BY <2>4, <2>5 DEF entry
<1>9. Owed' = {o \in Owed : ~(o.air = r.air /\ o.eaxc = e)} \cup new
  <2>1. ASSUME NEW o \in Owed'
        PROVE  o \in {y \in Owed : ~(y.air = r.air /\ y.eaxc = e)} \cup new
    <3>1. PICK i \in Indices, x \in UlEaxcSet, s \in Symbols :
            StillDue(repo[i][x], x, s)' /\ o = ReplyFor(repo'[i][x], x, s)
      BY <2>1, OwedNext
    <3>2. CASE i = place /\ x = e
      <4>1. s \in first .. last /\ repo'[i][x] = r
        BY <1>4, <1>7, <3>1, <3>2
      <4>. QED  BY <3>1, <3>2, <4>1 DEF ReplyFor
    <3>3. CASE ~(i = place /\ x = e)
      <4>1. StillDue(repo[i][x], x, s) /\ repo'[i][x] = repo[i][x]
        BY <1>4, <1>6, <3>1, <3>3
      <4>2. o \in Owed
        BY <3>1, <4>1, OwedNow
      <4>3. ~(o.air = r.air /\ o.eaxc = e)
        BY <1>8, <3>1, <3>3, <4>1, ReplyFields
      <4>. QED  BY <4>2, <4>3
    <3>. QED  BY <3>2, <3>3
  <2>2. ASSUME NEW o \in Owed, ~(o.air = r.air /\ o.eaxc = e) PROVE o \in Owed'
    <3>1. PICK i \in Indices, x \in UlEaxcSet, s \in Symbols :
            StillDue(repo[i][x], x, s) /\ o = ReplyFor(repo[i][x], x, s)
      BY <2>2, OwedNow
    <3>2. ~(i = place /\ x = e)
      BY <1>8, <2>2, <3>1, ReplyFields
    <3>3. StillDue(repo[i][x], x, s)' /\ repo'[i][x] = repo[i][x]
      BY <1>4, <1>6, <3>1, <3>2
    <3>. QED  BY <3>1, <3>3, OwedNext
  <2>3. ASSUME NEW o \in new PROVE o \in Owed'
    <3>1. PICK s \in first .. last : o = ReplyFor(r, e, s)
      BY <2>3 DEF ReplyFor
    <3>2. s \in Symbols
      BY <1>3, <3>1, RequestAssumption DEF Symbols
    <3>3. StillDue(repo[place][e], e, s)' /\ repo'[place][e] = r
      BY <1>4, <1>5, <1>7, <3>1, <3>2
    <3>. QED  BY <1>5, <3>1, <3>2, <3>3, OwedNext
  <2>. QED  BY <2>1, <2>2, <2>3
<1>10. Answered' = {}
  BY <1>1 DEF Answered
<1>11. r.sid \in SectionIds /\ first \in 0 .. (NofSymbols - 1) /\ last \in 0 .. (NofSymbols - 1)
  BY <1>3 DEF Requests, Symbols
<1>12. Contract!Request(r.air, e, first, last, r.sid)
  BY <1>1, <1>9, <1>10 DEF Contract!Request
<1>. HIDE DEF first, last
<1>. QED  BY <1>2, <1>11, <1>12 DEF Contract!Next

\* The store-and-respond uplink implements its contract in a timely
\* environment with an eAxC per port: whatever the two threads do, every symbol
\* asked for is answered exactly once, while it is handled, by the latest
\* request for its slot, and nothing else is sent.
THEOREM UplinkImplementsContract ==
  Timely /\ OnePortPerEaxc /\ Spec => ImplementsContract
<1> SUFFICES ASSUME Timely, OnePortPerEaxc PROVE Spec => ImplementsContract
  OBVIOUS
<1>1. Init => Contract!Init
  <2> SUFFICES ASSUME Init PROVE Contract!Init
    OBVIOUS
  <2>1. \A i \in Indices, e \in UlEaxcSet : repo[i][e].nof = 0
    BY DEF Init, EmptyRepository, EmptyEntry
  <2>2. Owed = {}
    BY <2>1, OwedNow DEF StillDue
  <2>3. Answered = {} /\ air = 0 /\ sym = 0
    BY DEF Init, Answered
  <2>. QED  BY <2>2, <2>3 DEF Contract!Init
<1>2. ASSUME TypeOK, TypeOK', RecordedInv, PendingInv, ClearInv, [Next]_vars
      PROVE  [Contract!Next]_(Contract!vars)
  <2> USE <1>2
  <2>1. CASE OnCplaneMessage
    BY <2>1, RecordRequests
  <2>2. CASE SymbolCaptured
    <3>1. /\ pc = "wait" /\ pc' = "get" /\ port' = 1 /\ sent' = {}
          /\ UNCHANGED <<repo, air, sym>>
      BY <2>2 DEF SymbolCaptured
    <3>2. ASSUME NEW e PROVE Handled(e)' <=> Handled(e)
      <4>1. \A p \in Ports : ~(p < 1)
        BY DEF Ports
      <4>. QED  BY <3>1, <4>1 DEF Handled
    <3>3. ASSUME NEW i \in Indices, NEW e \in UlEaxcSet, NEW s \in Symbols
          PROVE  StillDue(repo[i][e], e, s)' <=> StillDue(repo[i][e], e, s)
      BY <3>1, <3>2 DEF StillDue, InWindow
    <3>4. Owed' = Owed \ {}
      BY <3>1, <3>3, OwedShrinks
    <3>5. Answered' = {} /\ {} \in SUBSET Contract!Due
      BY <3>1 DEF Answered
    <3>6. Contract!Serve
      BY <3>1, <3>4, <3>5 DEF Contract!Serve
    <3>. QED  BY <3>6 DEF Contract!Next
  <2>3. CASE SymbolLost
    BY <2>3 DEF SymbolLost, Timely
  <2>4. CASE RespondPort
    <3>1. Answered' = PortDue
      BY <2>4, RespondSendsDue
    <3>2. /\ pc = "get" /\ repo' = repo
          /\ \/ NextPort
             \/ pc = "get" /\ pc' = "clear" /\ UNCHANGED <<air, sym, port>>
      BY <2>4 DEF RespondPort
    <3>3. Contract!Serve
      BY <3>1, <3>2, PortServed
    <3>. QED  BY <3>3 DEF Contract!Next
  <2>5. CASE ClearPort
    <3>1. /\ pc = "clear" /\ NextPort /\ sent' = {}
          /\ repo' = Clear(repo, AirSlot, UlEaxc[port])
      BY <2>5 DEF ClearPort
    <3>2. AirSlot \in WireSlots /\ UlEaxc[port] \in UlEaxcSet /\ port \in Ports
      BY AirPort DEF TypeOK
    <3>3. Handled(UlEaxc[port])
      BY <3>1, <3>2 DEF Handled
    <3>4. ASSUME NEW i \in Indices, NEW s \in Symbols,
                 StillDue(repo[i][UlEaxc[port]], UlEaxc[port], s)
          PROVE  ~(repo[i][UlEaxc[port]].air = air /\ s =< sym)
      <4>1. air \in Nat /\ sym \in Nat /\ s \in Nat
        BY RequestAssumption DEF TypeOK, Symbols
      <4>. QED  BY <3>3, <3>4, <4>1 DEF StillDue
    <3>5. PortDue = {}
      <4>1. ASSUME NEW o \in PortDue PROVE FALSE
        <5>1. PICK i \in Indices, e \in UlEaxcSet, s \in Symbols :
                StillDue(repo[i][e], e, s) /\ o = ReplyFor(repo[i][e], e, s)
          BY <4>1, OwedNow DEF PortDue
        <5>2. e = UlEaxc[port] /\ s = sym /\ repo[i][e].air = air
          BY <4>1, <5>1, ReplyFields DEF PortDue
        <5>3. s =< sym
          BY <5>2, RequestAssumption DEF TypeOK, Symbols
        <5>. QED  BY <3>4, <5>1, <5>2, <5>3
      <4>. QED  BY <4>1
    <3>6. ASSUME NEW i \in Indices, NEW e \in UlEaxcSet, NEW s \in Symbols
          PROVE  \/ repo'[i][e] = repo[i][e]
                 \/ /\ repo'[i][e].nof = 0
                    /\ StillDue(repo[i][e], e, s) => ReplyFor(repo[i][e], e, s) \in PortDue
      <4>1. repo'[i][e] \in Entries /\ repo[i][e] \in Entries
        BY DEF TypeOK
      <4>2. /\ repo'[i][e].slot = repo[i][e].slot
            /\ repo'[i][e].air = repo[i][e].air
            /\ repo'[i][e].prach = repo[i][e].prach
            /\ repo'[i][e].start = repo[i][e].start
            /\ repo'[i][e].sid = repo[i][e].sid
            /\ repo'[i][e].nof =
                 IF i = RepositoryIndex(AirSlot) /\ e = UlEaxc[port] /\ repo[i][e].slot = AirSlot
                 THEN 0 ELSE repo[i][e].nof
        BY <3>1, <3>2, ClearEntry
      <4>3. CASE i = RepositoryIndex(AirSlot) /\ e = UlEaxc[port] /\ repo[i][e].slot = AirSlot
        <5>1. SUFFICES ASSUME StillDue(repo[i][e], e, s) PROVE FALSE
          BY <4>2, <4>3
        <5>2. /\ Has(repo, AirSlot, e) /\ Get(repo, AirSlot, e) = repo[i][e]
              /\ InWindow(repo[i][e], s)
          BY <4>3, <5>1 DEF StillDue, Has, Get
        <5>3. IsLastSymbol(repo[i][e], sym)
          BY <3>1, <4>3, <5>2 DEF ClearInv
        <5>4. s =< sym
          BY <4>1, <5>2, <5>3, RequestAssumption DEF IsLastSymbol, InWindow, Entries, Symbols, TypeOK
        <5>5. repo[i][e].air = air
          BY <5>2, FoundIsFresh
        <5>. QED  BY <3>4, <4>3, <5>1, <5>4, <5>5
      <4>4. CASE ~(i = RepositoryIndex(AirSlot) /\ e = UlEaxc[port] /\ repo[i][e].slot = AirSlot)
        BY <4>1, <4>2, <4>4 DEF Entries
      <4>. QED  BY <4>3, <4>4
    <3>7. Answered' = PortDue
      BY <3>1, <3>5 DEF Answered
    <3>8. Contract!Serve
      BY <3>1, <3>6, <3>7, PortServed
    <3>. QED  BY <3>8 DEF Contract!Next
  <2>6. CASE UNCHANGED vars
    <3>1. UNCHANGED <<Owed, Answered, air, sym>>
      BY <2>6 DEF vars, Owed, Answered, StillDue, InWindow, Handled
    <3>. QED  BY <3>1 DEF Contract!vars
  <2>. QED  BY <2>1, <2>2, <2>3, <2>4, <2>5, <2>6 DEF Next
<1>3. Init => PendingInv /\ ClearInv
  BY PendingInductive, ClearInductive
<1>4. TypeOK /\ TypeOK' /\ RecordedInv /\ PendingInv /\ [Next]_vars => PendingInv'
  BY PendingInductive
<1>5. TypeOK /\ ClearInv /\ [Next]_vars => ClearInv'
  BY ClearInductive
<1>. QED
  BY <1>1, <1>2, <1>3, <1>4, <1>5, UplinkTypeOK, RecordedInductive, PTL
  DEF Spec, ImplementsContract, Contract!Spec
=============================================================================
