--------------------------- MODULE MCPrachCapture ---------------------------
(* Instances of PrachCapture for TLC: two PRACH eAxCs, a wire period of eight
   slots, repositories of four, a radio period of sixteen. *)
EXTENDS PrachCapture

MCEaxcs == 1 .. 3
MCNoEaxc == << >>
MCPrachEaxc == <<1, 2>>
MCRanges == {<<0, 1>>}
MCWildRanges == {<<0, 1>>, <<1, 0>>}
MCTimelyLeads == {1, 2}
MCWildLeads == {-1, 2}
=============================================================================
