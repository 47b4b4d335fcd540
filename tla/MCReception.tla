---------------------------- MODULE MCReception ----------------------------
(* An instance of Reception for TLC: a second of three slots of two symbols, a
   symbol of 3/2 ticks.  A second ends at tick 99, in the last slot of the wire
   period and of the hyper frame, which end a slot later, at tick 102: that tick
   starts a slot whose symbol index is rounded down.  *)
EXTENDS Reception

\* An expected message, one that was overtaken and one that follows a loss.
MCMessages ==
  {[lead |-> 3, gap |-> 0], [lead |-> 1, gap |-> -2], [lead |-> 4, gap |-> 1]}
=============================================================================
