-------------------------- MODULE MCUplinkRequests --------------------------
(* Instances of UplinkRequests for TLC: two uplink ports, two symbols per
   slot, a wire period of four slots and repositories of two, so that slots
   share repository indices and wire numbers come round again. *)
EXTENDS UplinkRequests

MCEaxcs == 1 .. 3
MCDlEaxc == <<3>>
MCUlEaxc == <<1, 2>>
MCPrachEaxc == <<1>>   \* overlaps the uplink list: only the section type tells
MCTwoRanges == {<<0, 2>>, <<1, 1>>}
\* A request may also start in its slot and end beyond it, or ask for nothing.
MCWildRanges == {<<0, 2>>, <<1, 2>>, <<1, 0>>}
MCTimelyLeads == {1}
MCWildLeads == {-1, 0, 1, 2}
=============================================================================
