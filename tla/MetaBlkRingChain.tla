-------------------------- MODULE MetaBlkRingChain --------------------------
(***************************************************************************)
(* The meta block ring implements ChainQueue: the queue is the stretch of  *)
(* the ring from S2D's pointer up to the tail.                             *)
(***************************************************************************)
EXTENDS MetaBlkRing

ItemOf(b) == [data |-> blk[b].dataBlk, final |-> blk[b].isFinal,
              size |-> blk[b].size, kind |-> blk[b].kind]

ChainItems == [data: DataBlks \cup {NoData}, final: BOOLEAN,
               size: 1 .. BlkCap, kind: {"packet", "timeout", "stop"}]

EntryOf(b) == IF b = relBlk THEN [state |-> "done"]
              ELSE IF blk[b].size = 0 THEN [state |-> "open"]
              ELSE [state |-> "ready", item |-> ItemOf(b)]

Chain == INSTANCE ChainQueue WITH
           MaxLen <- N - 2,
           Stages <- K - 1,
           Items  <- ChainItems,
           queue  <- [i \in 1 .. Occupied |-> EntryOf(Plus(blkPtr[0], i - 1))],
           pos    <- [m \in 1 .. K-1 |-> Ahead(m)]

(* Every step of the ring is a step of the bounded queue with its chain of *)
(* stages, or changes nothing the queue shows: no block is lost, seen      *)
(* twice, seen out of order, changed after it was published, or given      *)
(* back before every module has passed it.                                 *)
ImplementsChain == Chain!Spec
=============================================================================
