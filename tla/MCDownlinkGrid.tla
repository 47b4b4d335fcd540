--------------------------- MODULE MCDownlinkGrid ---------------------------
(* Instances of DownlinkGrid for TLC: two symbols per slot, two grids, a wire
   period of two repositories and a radio period of two wire periods. *)
EXTENDS DownlinkGrid

MCRanges == {<<0, 1>>, <<0, 2>>}
\* One slot ahead of the air interface, as the SDR mode configures it.
MCAhead == -2
MCTtiLeads == {1, 2}
MCTimelyCplane == {4}
MCTimelyUplane == {2}
MCWildCplane == {-1, 2, 4}
MCWildUplane == {0}
MCOneTtiLead == {1}
=============================================================================
