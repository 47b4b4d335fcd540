------------------------- MODULE RequestRepository -------------------------
(***************************************************************************)
(* The repository of uplink Control-Plane requests: one entry per slot     *)
(* index and eAxC, every operation atomic under the repository mutex.      *)
(* A repository is a function [Indices -> [eAxCs -> Entry]].               *)
(*                                                                         *)
(* The field `air' is history: the absolute slot the O-DU meant, of which  *)
(* the wire carries only `slot'.  The field `prach' is history too: the    *)
(* section type the request came with.  No operator below reads either.    *)
(***************************************************************************)
EXTENDS OfhSlots

CONSTANTS NofSymbols,   \* OFDM symbols per slot
          Ranges,       \* <<startSymbol, numSymbol>> pairs the O-DU may send
          SectionIds    \* section identifiers

ASSUME RequestAssumption ==
  /\ NofSymbols \in Nat \ {0}
  /\ Ranges \subseteq Nat \X Nat
  /\ SectionIds # {}

Symbols == 0 .. (NofSymbols - 1)

NoSlot == -1            \* slot_point() : the invalid slot

Requests == [slot : WireSlots, start : Nat, nof : Nat, sid : SectionIds,
             air : Nat, prach : BOOLEAN]

\* A value-initialised entry: invalid slot, nof_symbols = 0.
EmptyEntry(sid) ==
  [slot |-> NoSlot, start |-> 0, nof |-> 0, sid |-> sid,
   air |-> 0, prach |-> FALSE]

Entries ==
  [slot : WireSlots \cup {NoSlot}, start : Nat, nof : Nat, sid : SectionIds,
   air : Nat, prach : BOOLEAN]

EmptyRepository(eaxcs) ==
  [i \in Indices |-> [e \in eaxcs |-> EmptyEntry(CHOOSE s \in SectionIds : TRUE)]]

\* add(): overwrites whatever the entry held.
Add(repo, eaxc, request) ==
  [repo EXCEPT ![RepositoryIndex(request.slot)][eaxc] = request]

\* Mutant: the index alone identifies the slot.
HasByIndex(repo, slot, eaxc) == repo[RepositoryIndex(slot)][eaxc].nof # 0

\* get() returns the entry only on an exact slot match.
Has(repo, slot, eaxc) ==
  LET entry == repo[RepositoryIndex(slot)][eaxc]
  IN  entry.nof # 0 /\ entry.slot = slot

Get(repo, slot, eaxc) == repo[RepositoryIndex(slot)][eaxc]

\* Mutant: clear() without its slot check.
ClearByIndex(repo, slot, eaxc) == [repo EXCEPT ![RepositoryIndex(slot)][eaxc].nof = 0]

\* clear(): a no-op when the entry holds another slot.
Clear(repo, slot, eaxc) ==
  IF repo[RepositoryIndex(slot)][eaxc].slot = slot
  THEN [repo EXCEPT ![RepositoryIndex(slot)][eaxc].nof = 0]
  ELSE repo

\* The symbols a request asks for.
InWindow(request, symbol) ==
  symbol >= request.start /\ symbol < request.start + request.nof

\* Mutant: the stop of the range taken for its last symbol.
IsStopSymbol(request, symbol) == symbol = request.start + request.nof

\* Mutant: the entry is released with its first reply.
IsFirstSymbol(request, symbol) == symbol = request.start

\* The symbol after whose reply the entry is released.
IsLastSymbol(request, symbol) == symbol = request.start + request.nof - 1
=============================================================================
