--------------------------- MODULE MCFrameTransmit ---------------------------
(* Instances of FrameTransmit for TLC.  The buffers of an entry are
   interchangeable: no operator looks at their numbers. *)
EXTENDS FrameTransmit, TLC

IdSymmetry == Permutations(Ids)
=============================================================================
