-------------------------- MODULE IGbERxCheckpoint --------------------------
(***************************************************************************)
(* The receive path with checkpoints: a drained simulation is saved, and   *)
(* the run goes on in a new process that restores it                       *)
(* (src/gem5/src/dev/net/i8254xGBe.cc, the serialize and unserialize of    *)
(* IGbE, DescCacheGlobal and RxDescCacheGlobal).  Host memory and the      *)
(* driver, which lives in it, are restored as they were.  Restoring sets   *)
(* WTHRESH to 1 (i8254xGBe_defs.hh), so instances have Wthresh = 1.        *)
(***************************************************************************)
EXTENDS IGbERx, SequencesExt

(* The descriptors in process, in the order in which packets took them. *)
InProcess(q) ==
    LET busy    == {e \in PktEngines : q.processing[e].desc # NULL}
        ordered == SetToSortSeq(busy, LAMBDA e, f : q.processing[e].seqIdx
                                                      < q.processing[f].seqIdx)
    IN  [i \in 1 .. Len(ordered) |-> q.processing[ordered[i]].desc]

(* DescCacheGlobal::serialize, then unserialize into a cache fresh from its*)
(* constructor; the head and tail registers come back with the others.     *)
Restored(q) ==
    [EmptyCache EXCEPT !.used        = q.used,
                       !.unused      = InProcess(q) \o q.unused,
                       !.cachePnt    = q.cachePnt,
                       !.moreToWb    = q.moreToWb,
                       !.wbAlignment = q.wbAlignment,
                       !.fetch.pnt   = q.cachePnt,
                       !.head        = q.head,
                       !.tail        = q.tail]

(* The whole system is drained, saved, restored and resumed. *)
Restore ==
    /\ drainState = "Drained" /\ ~ DmaPending /\ ~ Outstanding(cache, engine)
    /\ cache' = Restored(cache)
    /\ engine' = [e \in PktEngines |-> IdleEngine]
    /\ rxTick' = TRUE
    /\ drainState' = "Running"
    /\ UNCHANGED <<rxFifo, rxPacket, rxTimer, ring, mbuf, accepted, driver, drains>>

CheckpointSpec == Init /\ [][Next \/ Restore]_vars

(* writebackGlobal says "Consider curWbDMAPnt as the head of the descriptor*)
(* cache & curWbingNum": the next write-back starts at the head, after the *)
(* descriptors that are being written.                                     *)
WritebackStartsAtHead == cache.wb.pnt = (cache.head + cache.wb.ing) % DescLen

=============================================================================
