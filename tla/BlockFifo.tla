------------------------------ MODULE BlockFifo ------------------------------
(***************************************************************************)
(* What one stream of blocks between the ASIO wrapper and the engine host  *)
(* promises, without slots, sequence numbers or states: in each direction  *)
(* a queue of at most two blocks, filled by the wrapper, emptied by the    *)
(* host in the order of filling.  StreamRing implements it.                *)
(***************************************************************************)
EXTENDS Naturals, Sequences

CONSTANTS Lanes,     \* directions
          MaxBlocks  \* bound: blocks per direction

VARIABLE queue       \* for each lane, the blocks handed over and not returned

Blocks == 1..MaxBlocks

Init == queue = [l \in Lanes |-> << >>]

Send(l, b) ==
  /\ Len(queue[l]) < 2
  /\ queue' = [queue EXCEPT ![l] = Append(@, b)]

Serve(l) ==
  /\ queue[l] # << >>
  /\ queue' = [queue EXCEPT ![l] = Tail(@)]

Next == \E l \in Lanes : Serve(l) \/ \E b \in Blocks : Send(l, b)

Spec == Init /\ [][Next]_queue
=============================================================================
