--------------------------- MODULE MCPrachAligned ---------------------------
(* An instance of PrachAligned for TLC.  The true offset starts as the last of the
   wire period, so that a slot of drift or of misreading crosses the wrap. *)
EXTENDS PrachAligned

MCEaxcs == 1 .. 2
MCNoEaxc == << >>
MCPrachEaxc == <<1>>
MCRange == {<<0, 1>>}
MCLeads == {-1, 1}
MCDrifts == {-1, 0, 1}
MCClockErrors == {-1, 0, 1}
MCMinSlip == -1
=============================================================================
