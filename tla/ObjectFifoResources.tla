------------------------ MODULE ObjectFifoResources ------------------------
(***************************************************************************)
(* What aie-objectFifo-stateful-transform takes from the device for the    *)
(* objectFifos: locks that aie-assign-lock-ids has left, buffers, channels *)
(* of the DMAs with rings of descriptors, and flows between them.  How     *)
(* buffers and locks then work is the matter of ObjectFifoLocks and        *)
(* ObjectFifoDma.  The objectFifos have no links here, one depth for every *)
(* end, and no external buffers.                                           *)
(***************************************************************************)
EXTENDS LockIDs, BdIDs, BufferAddresses, StreamSwitches

VARIABLES fifos,        \* [prod, cons, depths, size, viaDMA]
          locksPerTile, \* [tile] identifiers that LockAnalysis knows as taken
          fifoEnds,     \* ends whose elements are to be created: [tile, depth,
                        \* size]
          fifoDmas,     \* split fifos whose DMAs are to be created
          channels,     \* [<<tile, direction>>] channels handed out
          fifoFlows,    \* flows that fifos got: [fifo, src, dsts]
          fifoResult    \* "split", "elements", "dmas", "success",
                        \* "crash" when locks run out, or "rejected"

fifoVars == <<fifos, locksPerTile, fifoEnds, fifoDmas, channels, fifoFlows, fifoResult>>

(* What the verifiers have accepted: tiles of the device, and a depth for  *)
(* each end.  An objectFifo of depth 0, which creates nothing, is left out,*)
(* and beside objectFifos the program writes its DMAs as blocks.           *)
FifoOp == {f \in [prod : Tiles, cons : Seq(Tiles), depths : Seq(Nat \ {0}),
                  size : Nat \ {0}, viaDMA : BOOLEAN] :
              /\ Len(f.depths) = Len(f.cons) + 1
              /\ {f.prod} \cup ToSet(f.cons) \subseteq declared}

FifoInit == /\ fifos \in Seq(FifoOp)
            /\ fifos # <<>> => \A m \in DOMAIN memOps : memOps[m].inBlocks
            /\ locksPerTile = [t \in Tiles |-> {}] /\ fifoEnds = <<>> /\ fifoDmas = <<>>
            /\ channels = [x \in Tiles \X {"MM2S", "S2MM"} |-> 0]
            /\ fifoFlows = <<>> /\ fifoResult = "split"

-----------------------------------------------------------------------------
(* isSharedMemory: producer and consumer reach one memory.                 *)
SameKind(a, b) == (IsShim(a) <=> IsShim(b)) /\ (IsMemTile(a) <=> IsMemTile(b))
LeftShared(a, b) == SameKind(a, b) /\ LegalMemAffinity(b, a)
RightShared(a, b) == SameKind(a, b) /\ LegalMemAffinity(a, b)

RequiresDMAs(f) == \/ f.viaDMA \/ Len(f.cons) # 1
                   \/ ~ LeftShared(f.prod, f.cons[1]) /\ ~ RightShared(f.prod, f.cons[1])

(* The ends for which elements are created.  Those of the consumers are    *)
(* put right behind the objectFifo one by one, the last one first.         *)
EndsOf(f) ==
    LET End(t, depth) == [tile |-> t, depth |-> depth, size |-> f.size] IN
    IF RequiresDMAs(f)
    THEN <<End(f.prod, f.depths[1])>>
             \o Reverse([k \in DOMAIN f.cons |-> End(f.cons[k], f.depths[k + 1])])
    ELSE <<End(IF LeftShared(f.prod, f.cons[1]) THEN f.prod ELSE f.cons[1], f.depths[1])>>

(* The analyses look at the program before anything is created: the locks  *)
(* that it has, and the channels that the DMAs of its cores start - how    *)
(* many, not which.                                                        *)
StartsIn(t, dir) ==
    UNION {{<<m, s>> : s \in {k \in DOMAIN memOps[m].starts : memOps[m].starts[k].dir = dir}} :
              m \in {n \in DOMAIN memOps : memOps[n].tile = t /\ IsCore(t)}}

ChannelsUsed == [x \in Tiles \X {"MM2S", "S2MM"} |-> Cardinality(StartsIn(x[1], x[2]))]

SplitFifos ==
    /\ fifoResult = "split"
    /\ locksPerTile' = [t \in Tiles |-> {lockOps[i].id : i \in {j \in DOMAIN lockOps : lockOps[j].tile = t}}]
    /\ channels' = ChannelsUsed
    /\ fifoEnds' = FlattenSeq([k \in DOMAIN fifos |-> EndsOf(fifos[k])])
    /\ fifoDmas' = FlattenSeq([k \in DOMAIN fifos |->
                                  IF RequiresDMAs(fifos[k]) THEN <<k>> ELSE <<>>])
    /\ fifoResult' = "elements"
    /\ UNCHANGED <<fifos, fifoFlows, lockOps, bufs>>

-----------------------------------------------------------------------------
(* LockAnalysis::getLockID.                                                *)
FreeLocks(t) == {n \in 0 .. (NumLocks(t) - 1) : n \notin locksPerTile[t]}

(* createObjectFifoElements: the buffers, and a lock for each direction.   *)
(* New buffers are written before those of the ends served before.         *)
CreateElements ==
    /\ fifoResult = "elements" /\ fifoEnds # <<>>
    /\ LET e == Head(fifoEnds)
           free == FreeLocks(e.tile)
           prodLock == Lowest(free)
           consLock == Lowest(free \ {prodLock})
           buffers == IF IsShim(e.tile) THEN <<>>
                      ELSE [k \in 1 .. e.depth |-> [tile |-> e.tile, size |-> e.size,
                                                    addr |-> NoAddress, bank |-> NoBank]]
       IN  IF Cardinality(free) < 2
           THEN fifoResult' = "crash" /\ UNCHANGED <<lockOps, bufs, locksPerTile>>
           ELSE /\ lockOps' = lockOps \o <<[tile |-> e.tile, id |-> prodLock],
                                           [tile |-> e.tile, id |-> consLock]>>
                /\ bufs' = buffers \o bufs
                /\ locksPerTile' = [locksPerTile EXCEPT ![e.tile] = @ \cup {prodLock, consLock}]
                /\ fifoResult' = IF Len(fifoEnds) = 1 THEN "dmas" ELSE fifoResult
    /\ fifoEnds' = Tail(fifoEnds)
    /\ UNCHANGED <<fifos, fifoDmas, channels, fifoFlows>>

-----------------------------------------------------------------------------
(* createDMA: a dma_start and a ring of descriptors in the DMA of the tile,*)
(* which is created if there is none.  A shim tile gets none.              *)
WithDMA(p, t, dir, chan, depth) ==
    LET at == {m \in DOMAIN p.memOps : p.memOps[m].tile = t}
        m == IF at = {} THEN Len(p.memOps) + 1 ELSE CHOOSE n \in at : TRUE
        ops == IF at = {} THEN Append(p.memOps, [tile |-> t, inBlocks |-> TRUE, starts |-> <<>>])
               ELSE p.memOps
        first == Len(p.bdOps) + 1
        ring == [k \in 1 .. depth |->
                   [mem |-> m, chan |-> NoChannel, id |-> NoBdID, next |-> NoBdID,
                    succ |-> IF k = depth THEN first ELSE first + k]]
    IN  IF IsShim(t) THEN p
        ELSE [p EXCEPT !.memOps = [ops EXCEPT ![m].starts =
                             Append(@, [dir |-> dir, chan |-> chan, dest |-> first])],
                       !.bdOps = @ \o ring]

(* Slip: a channel that is handed out stays the next one.                  *)
TookNothing(ch, x) == ch

(* getMasterDMAChannel, getSlaveDMAChannel: the number handed out is the   *)
(* next one.                                                               *)
Took(ch, x) == [ch EXCEPT ![x] = @ + 1]

(* The DMAs of one split fifo, the producer's first: the channels are      *)
(* numbered on, without any bound.                                         *)
DmaOfProducer(f) ==
    LET x == <<f.prod, "MM2S">> IN
    [channels |-> Took(channels, x),
     prog |-> WithDMA([memOps |-> memOps, bdOps |-> bdOps],
                      f.prod, "MM2S", channels[x], f.depths[1]),
     dsts |-> <<>>]

DmaOfConsumer(f, s, k) ==
    LET t == f.cons[k] n == s.channels[<<t, "S2MM">>] IN
    [channels |-> Took(s.channels, <<t, "S2MM">>),
     prog |-> WithDMA(s.prog, t, "S2MM", n, f.depths[k + 1]),
     dsts |-> Append(s.dsts, <<t, "DMA", n>>)]

DmasOf(f) ==
    LET done[k \in 0 .. Len(f.cons)] ==
            IF k = 0 THEN DmaOfProducer(f) ELSE DmaOfConsumer(f, done[k - 1], k)
    IN  done[Len(f.cons)]

(* The flows are put right behind the objectFifo one by one.               *)
CreateDMAs ==
    /\ fifoResult = "dmas" /\ fifoDmas # <<>>
    /\ LET f == fifos[Head(fifoDmas)]
           src == <<f.prod, "DMA", channels[<<f.prod, "MM2S">>]>>
           done == DmasOf(f)
       IN  /\ channels' = done.channels
           /\ memOps' = done.prog.memOps /\ bdOps' = done.prog.bdOps
           /\ circuits' = circuits \o Reverse([k \in DOMAIN done.dsts |->
                                                 [src |-> src, dst |-> done.dsts[k]]])
           /\ fifoFlows' = Append(fifoFlows, [fifo |-> Head(fifoDmas), src |-> src,
                                              dsts |-> done.dsts])
    /\ fifoDmas' = Tail(fifoDmas)
    /\ UNCHANGED <<fifos, locksPerTile, fifoEnds, fifoResult>>

(* The verifiers of the DMAs: at most as many descriptors as the tile has, *)
(* and every channel started once.                                         *)
DmasVerified ==
    \A m \in DOMAIN memOps :
        LET starts == memOps[m].starts IN
        /\ Cardinality(BdOpsOf(m)) <= NumBDs(memOps[m].tile)
        /\ \A j, k \in DOMAIN starts :
              starts[j].dir = starts[k].dir /\ starts[j].chan = starts[k].chan => j = k

EndFifoPass ==
    /\ fifoResult \in {"elements", "dmas"} /\ fifoEnds = <<>> /\ fifoDmas = <<>>
    /\ fifoResult' = IF DmasVerified THEN "success" ELSE "rejected"
    /\ UNCHANGED <<fifos, locksPerTile, fifoEnds, fifoDmas, channels, fifoFlows>>

-----------------------------------------------------------------------------
(* The data that the DMA of an objectFifo's producer sends arrives at the  *)
(* DMA channels of its consumers and of nobody else; nothing else sends on *)
(* that channel, and nothing else arrives at those of the consumers; and   *)
(* every channel away from the shim tiles is started once, on a ring with  *)
(* one descriptor for each object of its end.                              *)
StartedOn(p, dir, depth) ==
    LET StartsOf(m) == {s \in DOMAIN memOps[m].starts :
                           /\ memOps[m].starts[s].dir = dir /\ memOps[m].starts[s].chan = p[3]
                           /\ Cardinality(Runs(m, s)) = depth}
    IN  IsShim(p[1]) \/ \E m \in DOMAIN memOps :
                           memOps[m].tile = p[1] /\ Cardinality(StartsOf(m)) = 1

FifoDataArrives ==
    Written /\ NoTurn =>
        \A n \in DOMAIN fifoFlows :
            LET w == fifoFlows[n] f == fifos[w.fifo] IN
            /\ Delivered(w.src, NoPacket) = ToSet(w.dsts)
            /\ {c[1] : c \in ToSet(w.dsts)} = ToSet(f.cons)
            /\ \A k \in DOMAIN circuits :
                  circuits[k].src = w.src <=> circuits[k].dst \in ToSet(w.dsts)
            /\ StartedOn(w.src, "MM2S", f.depths[1])
            /\ \A k \in DOMAIN w.dsts : StartedOn(w.dsts[k], "S2MM", f.depths[k + 1])
=============================================================================
