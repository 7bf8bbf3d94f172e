-------------------------- MODULE MCDevicePipeline --------------------------
(***************************************************************************)
(* Devices of two columns and six rows.  Every family of programs presses  *)
(* on one resource and leaves the rest of the device empty.                *)
(***************************************************************************)
EXTENDS DevicePipeline

A == <<0, 2>>
B == <<0, 3>>
C == <<1, 3>>
D == <<1, 2>>
M == <<0, 1>>
M1 == <<1, 1>>
S == <<0, 0>>
S1 == <<1, 0>>

Empty == [tileOps |-> <<A>>, lockOps |-> <<>>, memOps |-> <<>>, bdOps |-> <<>>,
          bufs |-> <<>>, stack |-> [t \in Tiles |-> 0], basic |-> FALSE,
          fifos |-> <<>>, broadcasts |-> <<>>, multicasts |-> <<>>, pktFlows |-> <<>>,
          circuits |-> <<>>, connects |-> <<>>, controllerID |-> <<>>,
          columnWise |-> TRUE, tctRouting |-> "disable", shimToCtrl |-> FALSE]

(* Locks: three of a tile that has four, with every choice of identifiers, *)
(* or two more, which is too much, and locks of its neighbours.            *)
Lock(t, id) == [tile |-> t, id |-> id]
WishedIDs == (0 .. CoreLocks - 1) \cup {NoLockID}
LockPrograms ==
    {[Empty EXCEPT !.tileOps = <<A, B, C>>,
                   !.lockOps = <<Lock(A, w[1]), Lock(B, NoLockID), Lock(A, w[2]), Lock(A, w[3])>>
                                   \o more \o <<Lock(C, NoLockID), Lock(B, 1)>>] :
        w \in [1 .. 3 -> WishedIDs], more \in {<<>>, <<Lock(A, NoLockID), Lock(A, NoLockID)>>}}

(* Descriptors of a memtile whose channels 0 and 1 run a chain each, of a  *)
(* core tile whose two channels run one chain, or two that meet, and of a  *)
(* memtile where they meet, in one half of the descriptors or between both.*)
Bd(m, chan, succ, id) ==
    [mem |-> m, chan |-> chan, succ |-> succ, id |-> id, next |-> NoBdID]
Start(dir, chan, dest) == [dir |-> dir, chan |-> chan, dest |-> dest]
Dma(t, starts) == [tile |-> t, inBlocks |-> TRUE, starts |-> starts]
WishedBds == (0 .. MemBDs - 1) \cup {NoBdID}
BdPrograms ==
    {[Empty EXCEPT
        !.tileOps = <<A, M>>,
        !.memOps = <<Dma(A, <<Start("MM2S", 0, 1), Start("S2MM", 0, 2)>>),
                     Dma(M, <<Start("MM2S", 0, 4), Start("S2MM", 1, 6)>>)>>,
        !.bdOps = <<Bd(1, NoChannel, 3, NoBdID), Bd(1, NoChannel, 3, w[1]),
                    Bd(1, NoChannel, loop, NoBdID), Bd(2, NoChannel, 5, w[1]),
                    Bd(2, NoChannel, 4, w[2]), Bd(2, NoChannel, 0, w[3])>>] :
        w \in [1 .. 3 -> WishedBds], loop \in {0, 2, 3}}
    \cup
    {[Empty EXCEPT
        !.tileOps = <<M>>,
        !.memOps = <<Dma(M, <<Start("MM2S", 0, 1), Start("S2MM", other, 2)>>)>>,
        !.bdOps = <<Bd(1, NoChannel, 3, NoBdID), Bd(1, NoChannel, 3, NoBdID),
                    Bd(1, NoChannel, 0, NoBdID)>>] :
        other \in {1, 2}}
    \cup
    {[Empty EXCEPT
        !.tileOps = <<M>>,
        !.memOps = <<[tile |-> M, inBlocks |-> FALSE, starts |-> <<>>]>>,
        !.bdOps = <<Bd(1, 1, 2, NoBdID), Bd(1, 1, 0, w[1]), Bd(1, 0, 3, w[2]), Bd(1, 0, 0, NoBdID)>>] :
        w \in [1 .. 2 -> WishedBds]}

(* Buffers of one tile with and without wishes.                            *)
Buffer(t, size, addr, bank) == [tile |-> t, size |-> size, addr |-> addr, bank |-> bank]
Wishes == {<<NoAddress, NoBank>>, <<2, NoBank>>, <<10, 0>>, <<NoAddress, 1>>}
BufferPrograms ==
    {[Empty EXCEPT
        !.tileOps = <<A, M>>, !.basic = scheme,
        !.stack = [t \in Tiles |-> IF t = A THEN st ELSE 0],
        !.bufs = <<Buffer(A, s1, w1[1], w1[2]), Buffer(M, 9, NoAddress, NoBank),
                   Buffer(A, s2, w2[1], w2[2]), Buffer(A, 6, NoAddress, NoBank),
                   Buffer(A, 8, NoAddress, NoBank)>>] :
        scheme \in BOOLEAN, st \in {0, 4}, s1 \in {3, 6}, s2 \in {3, 8},
        w1 \in Wishes, w2 \in Wishes}
    \cup
    {[Empty EXCEPT !.tileOps = <<M>>, !.basic = scheme,
        !.bufs = <<Buffer(M, 20, NoAddress, NoBank), Buffer(M, size, NoAddress, NoBank)>>] :
        scheme \in BOOLEAN, size \in {12, 13}}

(* ObjectFifos: shared with a neighbour, split over DMAs for one and for   *)
(* two consumers, over memtile and shim tile, beside DMAs and locks of the *)
(* program, and until locks, descriptors, memory or channels are used up.  *)
Fifo(prod, cons, depths, viaDMA) ==
    [prod |-> prod, cons |-> cons, depths |-> depths, size |-> 3, viaDMA |-> viaDMA]
FifoProgram(tiles, fs) ==
    [Empty EXCEPT !.tileOps = tiles, !.fifos = fs, !.tctRouting = "shim-only"]
FifoPrograms ==
    {FifoProgram(<<A, B>>, <<Fifo(A, <<B>>, <<2, 2>>, FALSE)>>),
     FifoProgram(<<A, B>>, <<Fifo(A, <<B>>, <<1, 1>>, TRUE), Fifo(A, <<B>>, <<1, 1>>, TRUE)>>),
     FifoProgram(<<A, B>>, <<Fifo(A, <<B>>, <<1, 2>>, TRUE), Fifo(B, <<A>>, <<1, 1>>, TRUE)>>),
     FifoProgram(<<A, C, B>>, <<Fifo(A, <<C, B>>, <<1, 2, 1>>, FALSE)>>),
     FifoProgram(<<S, M, C>>, <<Fifo(S, <<M>>, <<2, 1>>, FALSE), Fifo(M, <<C>>, <<1, 2>>, FALSE)>>),
     FifoProgram(<<S, A, B>>, <<Fifo(S, <<A>>, <<1, 1>>, FALSE), Fifo(S, <<B>>, <<1, 1>>, FALSE)>>),
     [FifoProgram(<<C, A, S>>, <<Fifo(C, <<A>>, <<1, 2>>, FALSE), Fifo(A, <<S>>, <<1, 1>>, FALSE)>>)
        EXCEPT !.memOps = <<Dma(A, <<Start("S2MM", 0, 1)>>)>>,
               !.bdOps = <<Bd(1, NoChannel, 1, 2)>>,
               !.lockOps = <<Lock(A, NoLockID)>>,
               !.circuits = <<[src |-> <<C, "Core", 0>>, dst |-> <<A, "DMA", 0>>]>>],
     [FifoProgram(<<A, B>>, <<Fifo(A, <<B>>, <<1, 1>>, TRUE)>>)
        EXCEPT !.lockOps = <<Lock(B, 0), Lock(B, NoLockID)>>],
     FifoProgram(<<A, C>>, <<Fifo(A, <<C>>, <<CoreBDs + 1, 1>>, FALSE)>>),
     FifoProgram(<<A, M>>, <<Fifo(A, <<M>>, <<1, MemBDs>>, FALSE)>>)}

(* Flows: several through one switchbox, from and to the DMAs of a shim    *)
(* tile, over tiles that the program does not name, a multicast, broadcasts*)
(* of packets, and beside connections that the program has made.           *)
End(t, bundle, chan) == <<t, bundle, chan>>
Flow(src, dst) == [src |-> src, dst |-> dst]
CircuitProgram(tiles, fs) ==
    [Empty EXCEPT !.tileOps = tiles, !.circuits = fs, !.tctRouting = "shim-only"]
(* One channel is left through each memtile: the second flow finds the only*)
(* one that it could use taken, and the router has to start again; with a  *)
(* third flow there is no way.                                             *)
Pass(m) == [k \in 1 .. 5 |-> LET c == IF k = 5 THEN 5 ELSE k - 1 IN
               Connect(m, FALSE, <<"South", c>>, <<"North", c>>)]
NarrowProgram(fs) ==
    [CircuitProgram(<<S, S1, M, M1, A, D>>, fs) EXCEPT !.tctRouting = "disable",
                                                !.connects = Pass(M) \o Pass(M1)]
Packet(id, src, dsts) == [id |-> id, prio |-> FALSE, src |-> src, dsts |-> dsts]
(* Two packet flows to one destination and a third one between them, so    *)
(* that they end in different groups; the last one may have priority and   *)
(* the identifier of the first.                                            *)
PacketProgram(id, urgent) ==
    [CircuitProgram(<<S, M, A, B, D, C>>, <<>>)
        EXCEPT !.tctRouting = "disable",
               !.pktFlows = <<Packet(1, End(A, "DMA", 0), <<End(S, "DMA", 0)>>),
                              Packet(2, End(C, "DMA", 0), <<End(D, "DMA", 0)>>),
                              [Packet(id, End(B, "DMA", 0), <<End(S, "DMA", 0)>>)
                                  EXCEPT !.prio = urgent]>>]
RoutePrograms ==
    {CircuitProgram(<<S, M, A>>,
        <<Flow(End(S, "DMA", 0), End(A, "DMA", 0)), Flow(End(S, "DMA", 1), End(A, "DMA", 1)),
          Flow(End(A, "DMA", 0), End(S, "DMA", 0)), Flow(End(M, "DMA", 0), End(S, "DMA", 1))>>),
     [CircuitProgram(<<A, C, B>>, <<Flow(End(C, "DMA", 1), End(A, "Core", 0))>>)
        EXCEPT !.multicasts = <<[src |-> End(A, "DMA", 0),
                                 dsts |-> <<End(C, "DMA", 0), End(B, "DMA", 1)>>]>>],
     [CircuitProgram(<<A, C>>, <<Flow(End(A, "DMA", 0), End(C, "DMA", 0))>>)
        EXCEPT !.connects = <<Connect(A, FALSE, <<"DMA", 0>>, <<"East", 0>>),
                              Connect(A, FALSE, <<"DMA", 1>>, <<"East", 1>>)>>],
     [CircuitProgram(<<S, M, A, B, C>>, <<Flow(End(C, "DMA", 0), End(A, "DMA", 1))>>)
        EXCEPT !.pktFlows = <<Packet(1, End(A, "DMA", 0), <<End(S, "DMA", 0)>>),
                              Packet(2, End(B, "DMA", 0), <<End(S, "DMA", 0)>>),
                              Packet(3, End(A, "DMA", 0), <<End(C, "DMA", 0), End(B, "DMA", 0)>>)>>,
               !.broadcasts = <<[src |-> End(M, "DMA", 0),
                                 bpids |-> <<[id |-> 4, dsts |-> <<End(A, "DMA", 0)>>],
                                             [id |-> 5, dsts |-> <<End(A, "DMA", 0),
                                                                   End(B, "DMA", 0)>>]>>]>>],
     PacketProgram(3, FALSE), PacketProgram(1, TRUE),
     NarrowProgram(<<Flow(End(S, "DMA", 0), End(D, "DMA", 0)),
                     Flow(End(S, "DMA", 1), End(A, "DMA", 1))>>),
     NarrowProgram(<<Flow(End(S, "DMA", 0), End(D, "DMA", 0)),
                     Flow(End(S, "DMA", 1), End(A, "DMA", 1)),
                     Flow(End(S1, "DMA", 1), End(D, "DMA", 1))>>),
     [CircuitProgram(<<A>>, <<Flow(End(A, "DMA", 0), End(A, "DMA", 7))>>) EXCEPT !.basic = TRUE]}

(* The control overlay of a whole column, the second one with identifiers  *)
(* of the column and of all tiles.                                         *)
OverlayPrograms ==
    {[Empty EXCEPT !.tileOps = [k \in 1 .. Rows |-> <<x[1], k - 1>>], !.columnWise = x[2],
                   !.tctRouting = "all-tiles", !.shimToCtrl = TRUE] :
        x \in {<<0, TRUE>>, <<1, TRUE>>, <<1, FALSE>>}}

AllPrograms == LockPrograms \cup BdPrograms \cup BufferPrograms \cup FifoPrograms
                   \cup RoutePrograms \cup OverlayPrograms
=============================================================================
