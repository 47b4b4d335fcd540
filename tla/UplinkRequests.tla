--------------------------- MODULE UplinkRequests ---------------------------
(***************************************************************************)
(* Store-and-respond uplink of the O-RU: the receive thread records the    *)
(* uplink Control-Plane requests, the radio thread answers them when the   *)
(* symbols they asked for have been captured.                              *)
(*                                                                         *)
(* The two threads meet only in the request repository.  The responder     *)
(* takes its mutex once per get and once per clear, so the recorder may    *)
(* run between the two.  Time is the absolute number of the slot on air;   *)
(* the code sees it modulo the wire period only.                           *)
(***************************************************************************)
EXTENDS CplaneDispatch

CONSTANTS Leads,        \* slots from the air slot to the slot a message is for
          LossyCapture, \* TRUE: the radio may lose or invalidate a symbol
          MaxAir        \* bound: absolute slots a behaviour goes through

ASSUME UplinkAssumption ==
  /\ Leads \subseteq Int
  /\ LossyCapture \in BOOLEAN
  /\ MaxAir \in Nat
  /\ Len(UlEaxc) > 0

VARIABLES repo,   \* ul_request_repo
          air,    \* absolute slot whose symbols are being captured
          sym,    \* symbol being captured, or next to be
          pc,     \* radio thread: "wait" for a symbol, "get" or "clear"
          port,   \* loop index of handle_uplink_symbol
          sent    \* history: the replies enqueued by the last step

vars == <<repo, air, sym, pc, port, sent>>

NofPorts == Len(UlEaxc)

Ports == 1 .. NofPorts

UlEaxcSet == {UlEaxc[p] : p \in Ports}

AirSlot == air % Period

Replies == [air : Nat, slot : WireSlots, symbol : Symbols, eaxc : UlEaxcSet,
            sid : SectionIds, request : Entries]

TypeOK ==
  /\ repo \in [Indices -> [UlEaxcSet -> Entries]]
  /\ air \in Nat
  /\ sym \in Symbols
  /\ pc \in {"wait", "get", "clear"}
  /\ port \in Ports
  /\ sent \subseteq Replies

Init ==
  /\ repo = EmptyRepository(UlEaxcSet)
  /\ air = 0
  /\ sym = 0
  /\ pc = "wait"
  /\ port = 1
  /\ sent = {}
-----------------------------------------------------------------------------
\* Receive thread: an uplink Control-Plane message is recorded.
RecordUplink(m) ==
  /\ Route(m) = "uplink"
  /\ repo' = Add(repo, m.eaxc, ToRequest(m))
  /\ sent' = {}
  /\ UNCHANGED <<air, sym, pc, port>>

OnCplaneMessage ==
  \E lead \in Leads, prach, uplink \in BOOLEAN, eaxc \in Eaxcs,
     range \in Ranges, sid \in SectionIds :
    /\ air + lead >= 0
    /\ RecordUplink([prach |-> prach, uplink |-> uplink, eaxc |-> eaxc,
                     air |-> air + lead, range |-> range, sid |-> sid])

\* The next symbol of the air interface.
Advance ==
  /\ sym' = (sym + 1) % NofSymbols
  /\ air' = IF sym = NofSymbols - 1 THEN air + 1 ELSE air
  /\ pc' = "wait"
  /\ port' = 1

\* Radio thread: on_new_uplink_symbol with a valid symbol.
SymbolCaptured ==
  /\ pc = "wait"
  /\ air =< MaxAir
  /\ pc' = "get"
  /\ port' = 1
  /\ sent' = {}
  /\ UNCHANGED <<repo, air, sym>>

\* A symbol notified as invalid, or of a slot no capture was requested for.
SymbolLost ==
  /\ LossyCapture
  /\ pc = "wait"
  /\ air =< MaxAir
  /\ Advance
  /\ sent' = {}
  /\ UNCHANGED repo

NextPort ==
  IF port = NofPorts
  THEN Advance
  ELSE /\ port' = port + 1
       /\ pc' = "get"
       /\ UNCHANGED <<air, sym>>

Reply(request) ==
  [air |-> air, slot |-> AirSlot, symbol |-> sym, eaxc |-> UlEaxc[port],
   sid |-> request.sid, request |-> request]

\* One turn of the port loop up to the clear: get, window check, enqueue.
RespondPort ==
  LET eaxc == UlEaxc[port]
      request == Get(repo, AirSlot, eaxc)
  IN  /\ pc = "get"
      /\ \/ /\ ~Has(repo, AirSlot, eaxc) \/ ~InWindow(request, sym)
            /\ sent' = {}
            /\ NextPort
         \/ /\ Has(repo, AirSlot, eaxc)
            /\ InWindow(request, sym)
            /\ sent' = {Reply(request)}
            /\ IF IsLastSymbol(request, sym)
               THEN pc' = "clear" /\ UNCHANGED <<air, sym, port>>
               ELSE NextPort
      /\ UNCHANGED repo

\* The clear of a request whose last symbol has just been answered.
ClearPort ==
  /\ pc = "clear"
  /\ repo' = Clear(repo, AirSlot, UlEaxc[port])
  /\ sent' = {}
  /\ NextPort

Next == OnCplaneMessage \/ SymbolCaptured \/ SymbolLost \/ RespondPort \/ ClearPort

Spec == Init /\ [][Next]_vars

\* The radio keeps delivering symbols and its thread keeps running.
FairSpec == Spec /\ WF_vars(SymbolCaptured) /\ WF_vars(RespondPort) /\ WF_vars(ClearPort)
-----------------------------------------------------------------------------
(* The environment the O-RU is specified for: every symbol is captured, every
   request lies in its slot, and the Control-Plane leads the air interface by
   at least a slot and by less than the repository holds. *)
Timely ==
  /\ ~LossyCapture
  /\ Leads \subseteq 1 .. (RepoSize - 1)
  /\ \A r \in Ranges : r[2] > 0 /\ r[1] + r[2] =< NofSymbols

\* Every reply carries a request recorded, from an uplink (never a PRACH)
\* section, for exactly the wire slot being answered, on the same eAxC's entry,
\* and the symbol is one the request asked for: entries of slots that share a
\* repository index are never mixed up.
ReplyMatchesRequest ==
  \A r \in sent :
    /\ r.request.slot = r.slot
    /\ r.request.air % Period = r.air % Period
    /\ InWindow(r.request, r.symbol)
    /\ r.sid = r.request.sid
    /\ ~r.request.prach

\* A reply answers the slot occurrence its request was sent for, not a later
\* slot that has the same wire number.
NoStaleReply == \A r \in sent : r.air = r.request.air

\* A pending request disappears only by a Control-Plane message for its entry
\* or by the clear of the slot the responder is answering: answering one slot
\* never loses the request of another.
OnlyOwnRequestCleared ==
  [][\A i \in Indices, e \in UlEaxcSet :
       repo[i][e].nof # 0 /\ repo'[i][e].nof = 0 /\ pc = "clear" /\ pc' # "clear"
         => repo[i][e].slot = AirSlot /\ e = UlEaxc[port]]_vars

\* The symbol being handled has been answered on this eAxC (or needs no answer).
Handled(eaxc) ==
  \E p \in Ports : /\ UlEaxc[p] = eaxc
                   /\ \/ pc # "wait" /\ p < port
                      \/ pc = "clear" /\ p = port

\* Symbol s of an entry is still to be answered.
StillDue(entry, e, s) ==
  /\ entry.nof # 0
  /\ InWindow(entry, s)
  /\ \/ entry.air > air
     \/ entry.air = air /\ s > sym
     \/ entry.air = air /\ s = sym /\ ~Handled(e)

\* The replies the repository stands for.
Owed ==
  UNION {UNION {LET entry == repo[i][e]
                IN  {[air |-> entry.air, eaxc |-> e, symbol |-> s, sid |-> entry.sid] :
                       s \in {n \in Symbols : StillDue(entry, e, n)}} :
                e \in UlEaxcSet} : i \in Indices}

\* What the last step sent, as the O-DU sees it.
Answered == {[air |-> r.air, eaxc |-> r.eaxc, symbol |-> r.symbol, sid |-> r.sid] : r \in sent}

Contract == INSTANCE UplinkContract
              WITH Eaxc <- UlEaxcSet, Horizon <- RepoSize - 1, owed <- Owed, answered <- Answered

\* No eAxC is configured for two uplink ports: the second would answer again.
OnePortPerEaxc == \A p, q \in Ports : UlEaxc[p] = UlEaxc[q] => p = q

\* In a timely environment, with an eAxC per port, every symbol asked for is
\* answered exactly once, in its own slot and by the latest request for it,
\* and nothing else is sent, whatever the receive thread records meanwhile.
ImplementsContract == Contract!Spec

\* A request for a slot that comes to air is answered and its entry released:
\* nothing waits in the repository for a slot that has passed.
EveryRequestReleased ==
  \A i \in Indices, e \in UlEaxcSet :
    (repo[i][e].nof # 0 /\ repo[i][e].air =< MaxAir) ~> repo[i][e].nof = 0
=============================================================================
