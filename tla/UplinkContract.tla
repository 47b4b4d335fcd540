--------------------------- MODULE UplinkContract ---------------------------
(***************************************************************************)
(* What the store-and-respond uplink promises the O-DU: every symbol asked *)
(* for in time is answered exactly once, while that symbol is handled,     *)
(* with the section identifier of the latest request for its slot.         *)
(***************************************************************************)
EXTENDS Integers

CONSTANTS Eaxc,        \* uplink eAxCs
          SectionIds,
          Horizon,     \* slots by which a request may lead its slot
          NofSymbols

VARIABLES owed,      \* the replies due: [air, eaxc, symbol, sid]
          answered,  \* the replies the last step sent
          air,       \* absolute slot on air
          sym        \* symbol on air

vars == <<owed, answered, air, sym>>

Init == owed = {} /\ answered = {} /\ air = 0 /\ sym = 0

\* A request for a slot that is still to come replaces the earlier one.
Request(a, e, first, last, sid) ==
  /\ owed' = {o \in owed : ~(o.air = a /\ o.eaxc = e)}
               \cup {[air |-> a, eaxc |-> e, symbol |-> s, sid |-> sid] : s \in first .. last}
  /\ answered' = {}
  /\ UNCHANGED <<air, sym>>

Due == {o \in owed : o.air = air /\ o.symbol = sym}

\* Only replies that are due go out; time passes only when none is left.
Serve ==
  \E replies \in SUBSET Due :
    /\ owed' = owed \ replies
    /\ answered' = replies
    /\ \/ UNCHANGED <<air, sym>>
       \/ /\ replies = Due
          /\ sym' = (sym + 1) % NofSymbols
          /\ air' = IF sym = NofSymbols - 1 THEN air + 1 ELSE air

Next ==
  \/ Serve
  \/ \E a \in (air + 1) .. (air + Horizon), e \in Eaxc, sid \in SectionIds,
        first, last \in 0 .. (NofSymbols - 1) : Request(a, e, first, last, sid)

Spec == Init /\ [][Next]_vars
=============================================================================
