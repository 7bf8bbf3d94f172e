------------------------ MODULE DevicePipelineProofs ------------------------
(***************************************************************************)
(* Proofs about DevicePipeline, for any device and any programs: what the  *)
(* passes promise each for itself they keep when they run one after the    *)
(* other, each on what the ones before have left.                          *)
(*                                                                         *)
(* The argument (PipelineInv): a pass finds the state that its own proof   *)
(* begins with, although earlier passes have changed it, and what it has   *)
(* achieved is left alone or kept by the later ones.  Between the lock pass*)
(* and the descriptor pass the objectFifo pass adds locks, buffers and     *)
(* DMAs: its locks are free in their tile because its analysis knows all   *)
(* locks there are, its buffers have no wishes, and its DMAs are programs  *)
(* that the verifiers would accept, but for the number of descriptors.     *)
(*                                                                         *)
(* The router comes last (RouterKept): the flows that it finds are those of*)
(* the program with those of objectFifos, broadcasts, multicasts and the   *)
(* control overlay behind them, all with ends in the array, and nobody     *)
(* writes another one once it has begun.                                   *)
(***************************************************************************)
EXTENDS DevicePipeline, ResourcePassesProofs, FiniteSetTheorems

Directions == {"MM2S", "S2MM"}
LockIDsOf(t) == {lockOps[i].id : i \in {j \in DOMAIN lockOps : lockOps[j].tile = t}}

(* Locks: what the lock pass has achieved outlives it, and until the last  *)
(* element is created the analysis knows every lock.                       *)
LocksKept ==
    /\ LockTypeOK /\ LocksDistinct /\ LocksExhaustedRightly
    /\ fifoResult = "split" => LockInv
    /\ fifoResult # "split" => lockResult = "success"
    /\ fifoResult = "elements" => \A t \in Tiles : locksPerTile[t] = LockIDsOf(t)

(* The later passes have not begun, and find what the program or the       *)
(* objectFifo pass wrote.                                                  *)
LaterPassesWait ==
    fifoResult # "success" => /\ BdInit /\ BufInit
                              /\ overlayStage = "broadcast" /\ tilesLeft = tileOps
                              /\ localLocks = <<>>

FifosTyped ==
    fifoResult # "success" =>
        /\ fifos \in Seq(FifoOp)
        /\ fifos # <<>> => \A m \in DOMAIN memOps : memOps[m].inBlocks
        /\ fifoEnds \in Seq([tile : declared, depth : Nat \ {0}, size : Nat \ {0}])
        /\ fifoDmas \in Seq(DOMAIN fifos)
        /\ channels \in [Tiles \X Directions -> Nat]
        /\ locksPerTile \in [Tiles -> SUBSET Nat]

(* Until the descriptor pass begins, an identifier is one of the program's. *)
ReachKept ==
    /\ ChannelsRun /\ InReach(userBDs)
    /\ fifoResult # "success" =>
          \A i \in DOMAIN bdOps : bdOps[i].id # NoBdID => i \in userBDs

PipelineInv == /\ LocksKept /\ BdInv /\ BufInv /\ LaterPassesWait /\ FifosTyped
               /\ ReachKept /\ LocalLocksUnambiguous
-----------------------------------------------------------------------------
(* Joining sequences.                                                      *)
LEMMA FlattenSeqType ==
    ASSUME NEW U, NEW ss \in Seq(Seq(U))
    PROVE  FlattenSeq(ss) \in Seq(U)
  <1> DEFINE N == Len(ss)
             Solves(f) == f = [i \in 1 .. N |-> IF i = 1 THEN ss[i] ELSE f[i - 1] \o ss[i]]
             flat == CHOOSE f : Solves(f)
  <1>1. N \in Nat /\ \A i \in 1 .. N : ss[i] \in Seq(U)
    OBVIOUS
  <1>2. CASE N = 0
    BY <1>2 DEF FlattenSeq
  <1>3. CASE N # 0
    <2>1. FlattenSeq(ss) = flat[N]
      BY <1>3 DEF FlattenSeq
    <2> HIDE DEF N
    <2>2. Solves(flat)
      <3> DEFINE h == [x \in Seq(U) \X (1 .. N) |-> x[1] \o ss[x[2]]]
      <3>1. h \in [Seq(U) \X (1 .. N) -> Seq(U)] /\ <<>> \in Seq(U)
        BY <1>1
      <3>2. PICK g \in [0 .. N -> Seq(U)] :
                g[0] = <<>> /\ \A n \in 1 .. N : g[n] = h[<<g[n - 1], n>>]
        <4> DEFINE S == Seq(U)
                   a == <<>>
        <4>1. StepFunction(S, N, h) /\ a \in S /\ N \in Nat
          BY <1>1, <3>1 DEF StepFunction
        <4> HIDE DEF h, S, a
        <4>2. \E g : Iterates(g, S, a, N, h)
          BY <4>1, IterationExists
        <4> QED BY <4>2 DEF S, a, Iterates
      <3> DEFINE f == [i \in 1 .. N |-> g[i]]
      <3>3. \A i \in 1 .. N : g[i] = g[i - 1] \o ss[i] /\ g[0] = <<>>
        <4> SUFFICES ASSUME NEW i \in 1 .. N PROVE g[i] = g[i - 1] \o ss[i] /\ g[0] = <<>>
          OBVIOUS
        <4>1. g[0] = <<>> /\ g[i] = h[<<g[i - 1], i>>] /\ g[i - 1] \in Seq(U)
          <5> HIDE DEF h
          <5> QED BY <1>1, <3>2
        <4> QED BY <4>1
      <3>4. \A i \in 1 .. N : f[i] = IF i = 1 THEN ss[i] ELSE f[i - 1] \o ss[i]
        <4> SUFFICES ASSUME NEW i \in 1 .. N
                     PROVE  f[i] = IF i = 1 THEN ss[i] ELSE f[i - 1] \o ss[i]
          OBVIOUS
        <4>1. CASE i = 1
          <5>0. 1 \in 1 .. N /\ 1 - 1 = 0
            BY <4>1
          <5>1. g[1] = <<>> \o ss[1] /\ ss[1] \in Seq(U)
            BY <5>0, <1>1, <3>3
          <5> QED BY <5>1, <4>1
        <4>2. CASE i # 1
          <5>1. i - 1 \in 1 .. N
            BY <4>2, <1>1
          <5> QED BY <5>1, <4>2, <3>3
        <4> QED BY <4>1, <4>2
      <3>5. Solves(f)
        <4>1. f = [i \in 1 .. N |-> f[i]]
          OBVIOUS
        <4> HIDE DEF f
        <4> QED BY <3>4, <4>1
      <3> HIDE DEF f, Solves
      <3> QED BY <3>5
    <2>3. \A i \in 1 .. N : flat[i] = IF i = 1 THEN ss[i] ELSE flat[i - 1] \o ss[i]
      <3> HIDE DEF flat
      <3> QED BY <2>2
    <2> HIDE DEF flat
    <2> DEFINE T == {i \in 1 .. N : flat[i] \notin Seq(U)}
    <2>4. ASSUME T # {} PROVE FALSE
      <3>1. T \in SUBSET Nat
        BY <1>1
      <3>2. PICK i \in T : \A j \in T : i <= j
        <4> HIDE DEF T
        <4> QED BY <2>4, <3>1, LeastNumber
      <3>3. CASE i = 1
        BY <3>3, <2>3, <1>1
      <3>4. CASE i # 1
        <4>1. i \in 1 .. N /\ i - 1 \in 1 .. N /\ i - 1 \notin T
          BY <3>2, <3>4, <1>1
        <4>2. flat[i - 1] \in Seq(U) /\ ss[i] \in Seq(U)
          BY <4>1, <1>1
        <4>3. flat[i] = flat[i - 1] \o ss[i] /\ flat[i] \notin Seq(U)
          BY <4>1, <3>4, <2>3
        <4> QED BY <4>2, <4>3
      <3> QED BY <3>3, <3>4
    <2>5. N \notin T /\ N \in 1 .. N
      BY <2>4, <1>1, <1>3
    <2> QED BY <2>1, <2>5
  <1> QED BY <1>2, <1>3, <1>1
-----------------------------------------------------------------------------
(* A program of DMAs as the objectFifo pass finds and leaves it: what the  *)
(* verifiers accept before the descriptor pass, written as blocks.         *)
BdIn(ms, bs, i) ==
    /\ bs[i].mem \in DOMAIN ms /\ bs[i].chan = NoChannel /\ bs[i].next = NoBdID
    /\ bs[i].id \in {NoBdID} \cup 0 .. (NumBDs(ms[bs[i].mem].tile) - 1)
    /\ bs[i].id # NoBdID => i \in userBDs
    /\ bs[i].succ # 0 => bs[i].succ \in DOMAIN bs /\ bs[bs[i].succ].mem = bs[i].mem

DmaProgram(ms, bs) ==
    /\ ms \in Seq(MemOp) /\ bs \in Seq(BdOp)
    /\ \A m, n \in DOMAIN ms : ms[m].tile = ms[n].tile => m = n
    /\ \A m \in DOMAIN ms : ms[m].inBlocks
    /\ \A m \in DOMAIN ms : \A s \in DOMAIN ms[m].starts :
          ms[m].starts[s].dest \in DOMAIN bs /\ bs[ms[m].starts[s].dest].mem = m
    /\ \A i \in DOMAIN bs : BdIn(ms, bs, i)

LEMMA BdInitIsDmaProgram ==
    ASSUME BdInit, \A m \in DOMAIN memOps : memOps[m].inBlocks,
           \A i \in DOMAIN bdOps : bdOps[i].id # NoBdID => i \in userBDs
    PROVE  DmaProgram(memOps, bdOps)
  <1>1. BdProgramOK /\ \A i \in DOMAIN bdOps : bdOps[i].next = NoBdID
    BY DEF BdInit
  <1>2. ASSUME NEW i \in DOMAIN bdOps PROVE BdIn(memOps, bdOps, i)
    <2>1. /\ bdOps[i].mem \in DOMAIN memOps
          /\ bdOps[i].id \in {NoBdID} \cup 0 .. (NumBDs(TileOf(i)) - 1)
          /\ bdOps[i].succ \in {0} \cup BdOpsOf(bdOps[i].mem)
          /\ (bdOps[i].chan = NoChannel) = memOps[bdOps[i].mem].inBlocks
      BY <1>1 DEF BdProgramOK
    <2>2. bdOps[i].chan = NoChannel
      BY <2>1
    <2> QED BY <2>1, <2>2, <1>1 DEF BdIn, TileOf, BdOpsOf
  <1>3. ASSUME NEW m \in DOMAIN memOps, NEW s \in DOMAIN memOps[m].starts
        PROVE  memOps[m].starts[s].dest \in DOMAIN bdOps /\ bdOps[memOps[m].starts[s].dest].mem = m
    BY <1>1 DEF BdProgramOK, BdOpsOf
  <1>4. memOps \in Seq(MemOp) /\ bdOps \in Seq(BdOp)
    BY <1>1 DEF BdProgramOK
  <1>5. \A m, n \in DOMAIN memOps : memOps[m].tile = memOps[n].tile => m = n
    BY <1>1 DEF BdProgramOK
  <1> QED BY <1>2, <1>3, <1>4, <1>5 DEF DmaProgram

LEMMA DmaProgramIsBdProgram ==
    ASSUME DmaProgram(memOps, bdOps)
    PROVE  /\ BdProgramOK
           /\ \A i \in DOMAIN bdOps : /\ bdOps[i].next = NoBdID
                                      /\ bdOps[i].id # NoBdID => i \in userBDs
  <1>1. /\ memOps \in Seq(MemOp) /\ bdOps \in Seq(BdOp)
        /\ \A m, n \in DOMAIN memOps : memOps[m].tile = memOps[n].tile => m = n
        /\ \A m \in DOMAIN memOps : memOps[m].inBlocks
        /\ \A m \in DOMAIN memOps : \A s \in DOMAIN memOps[m].starts :
              memOps[m].starts[s].dest \in BdOpsOf(m)
    BY DEF DmaProgram, BdOpsOf
  <1>2. ASSUME NEW i \in DOMAIN bdOps
        PROVE  /\ bdOps[i].mem \in DOMAIN memOps /\ bdOps[i].next = NoBdID
               /\ bdOps[i].id # NoBdID => i \in userBDs
               /\ bdOps[i].id \in {NoBdID} \cup 0 .. (NumBDs(TileOf(i)) - 1)
               /\ bdOps[i].succ \in {0} \cup BdOpsOf(bdOps[i].mem)
               /\ (bdOps[i].chan = NoChannel) = memOps[bdOps[i].mem].inBlocks
    <2>1. BdIn(memOps, bdOps, i)
      BY DEF DmaProgram
    <2>2. memOps[bdOps[i].mem].inBlocks \in BOOLEAN
      <3>1. memOps[bdOps[i].mem] \in MemOp
        BY <1>1, <2>1 DEF BdIn
      <3> QED BY <3>1 DEF MemOp
    <2> QED BY <1>1, <2>1, <2>2 DEF BdIn, TileOf, BdOpsOf
  <1> QED BY <1>1, <1>2 DEF BdProgramOK

(* An empty DMA for a tile that has none.                                  *)
LEMMA NewDma ==
    ASSUME NEW ms, NEW bs, DmaProgram(ms, bs), NEW t \in Tiles,
           \A m \in DOMAIN ms : ms[m].tile # t
    PROVE  LET d == [tile |-> t, inBlocks |-> TRUE, starts |-> <<>>]
               ops == Append(ms, d)
           IN  DmaProgram(ops, bs) /\ Len(ms) + 1 \in DOMAIN ops /\ ops[Len(ms) + 1].tile = t
  <1> DEFINE d == [tile |-> t, inBlocks |-> TRUE, starts |-> <<>>]
             ops == Append(ms, d)
             n == Len(ms) + 1
  <1>1. ms \in Seq(MemOp) /\ bs \in Seq(BdOp)
    BY DEF DmaProgram
  <1>2. d \in MemOp /\ d.tile = t /\ d.inBlocks /\ d.starts = <<>>
    BY DEF MemOp
  <1> HIDE DEF d
  <1>3. /\ ops \in Seq(MemOp) /\ DOMAIN ops = DOMAIN ms \cup {n} /\ n \notin DOMAIN ms
        /\ ops[n] = d /\ \A m \in DOMAIN ms : ops[m] = ms[m]
    BY <1>1, <1>2
  <1> HIDE DEF ops, n
  <1>4. \A k, l \in DOMAIN ops : ops[k].tile = ops[l].tile => k = l
    BY <1>2, <1>3 DEF DmaProgram
  <1>5. ASSUME NEW m \in DOMAIN ops, NEW s \in DOMAIN ops[m].starts
        PROVE  ops[m].starts[s].dest \in DOMAIN bs /\ bs[ops[m].starts[s].dest].mem = m
    <2>1. m \in DOMAIN ms
      BY <1>2, <1>3, <1>5
    <2> QED BY <2>1, <1>3 DEF DmaProgram
  <1>6. ASSUME NEW i \in DOMAIN bs PROVE BdIn(ops, bs, i)
    BY <1>3 DEF DmaProgram, BdIn
  <1>7. \A m \in DOMAIN ops : ops[m].inBlocks
    BY <1>2, <1>3 DEF DmaProgram
  <1>8. DmaProgram(ops, bs)
    BY <1>1, <1>3, <1>4, <1>5, <1>6, <1>7 DEF DmaProgram
  <1> QED BY <1>2, <1>3, <1>8 DEF ops, n, d

(* A dma_start for a ring of new descriptors.                              *)
Ring(m, first, depth) ==
    [k \in 1 .. depth |-> [mem |-> m, chan |-> NoChannel, id |-> NoBdID, next |-> NoBdID,
                           succ |-> IF k = depth THEN first ELSE first + k]]

LEMMA NewRing ==
    ASSUME NEW ms, NEW bs, DmaProgram(ms, bs), NEW m \in DOMAIN ms,
           NEW st \in DmaStart, st.dest = Len(bs) + 1, NEW depth \in Nat \ {0}
    PROVE  DmaProgram([ms EXCEPT ![m].starts = Append(@, st)],
                      bs \o Ring(m, Len(bs) + 1, depth))
  <1> DEFINE first == Len(bs) + 1
             ring == Ring(m, first, depth)
             bds == bs \o ring
             r == [ms[m] EXCEPT !.starts = Append(@, st)]
             ops == [ms EXCEPT ![m] = r]
  <1>1. /\ ms \in Seq(MemOp) /\ bs \in Seq(BdOp) /\ Len(bs) \in Nat
        /\ DOMAIN bs = 1 .. Len(bs) /\ DOMAIN ms = 1 .. Len(ms) /\ m \in Nat \ {0}
    BY DEF DmaProgram
  <1>2. /\ ring \in Seq(BdOp) /\ Len(ring) = depth
        /\ \A k \in 1 .. depth :
              /\ ring[k].mem = m /\ ring[k].chan = NoChannel /\ ring[k].next = NoBdID
              /\ ring[k].id = NoBdID /\ ring[k].succ \in first .. (Len(bs) + depth)
    <2>1. ASSUME NEW k \in 1 .. depth
          PROVE  /\ ring[k] \in BdOp /\ ring[k].mem = m /\ ring[k].chan = NoChannel
                 /\ ring[k].next = NoBdID /\ ring[k].id = NoBdID
                 /\ ring[k].succ \in first .. (Len(bs) + depth)
      <3> DEFINE q == IF k = depth THEN first ELSE first + k
      <3>1. q \in first .. (Len(bs) + depth) /\ q \in Nat
        BY <1>1
      <3>2. ring[k] = [mem |-> m, chan |-> NoChannel, id |-> NoBdID, next |-> NoBdID, succ |-> q]
        BY DEF Ring
      <3> HIDE DEF q, ring
      <3> QED BY <1>1, <3>1, <3>2 DEF BdOp
    <2>2. ring \in [1 .. depth -> BdOp]
      <3>1. DOMAIN ring = 1 .. depth /\ ring = [k \in 1 .. depth |-> ring[k]]
        BY DEF Ring
      <3> HIDE DEF ring
      <3> QED BY <2>1, <3>1
    <2> HIDE DEF ring
    <2> QED BY <2>1, <2>2
  <1> HIDE DEF ring
  <1>3. /\ bds \in Seq(BdOp) /\ DOMAIN bds = 1 .. (Len(bs) + depth)
        /\ \A i \in 1 .. Len(bs) : bds[i] = bs[i]
        /\ \A i \in first .. (Len(bs) + depth) : i - Len(bs) \in 1 .. depth
                                                 /\ bds[i] = ring[i - Len(bs)]
    <2>0. bs \in Seq(BdOp) /\ ring \in Seq(BdOp) /\ Len(ring) = depth
      BY <1>1, <1>2
    <2>1. bds \in Seq(BdOp) /\ Len(bds) = Len(bs) + depth
      BY <2>0
    <2>2. \A i \in 1 .. Len(bs) : bds[i] = bs[i]
      BY <2>0
    <2>3. ASSUME NEW i \in first .. (Len(bs) + depth)
          PROVE  i - Len(bs) \in 1 .. depth /\ bds[i] = ring[i - Len(bs)]
      <3>1. Len(bs) \in Nat /\ i \in (Len(bs) + 1) .. (Len(bs) + Len(ring)) /\ i - Len(bs) \in 1 .. depth
        BY <1>1, <2>0
      <3> QED BY <3>1, <2>0
    <2> HIDE DEF bds, first, ring, ops, r
    <2>4. DOMAIN bds = 1 .. (Len(bs) + depth)
      BY <2>1
    <2> QED BY <2>1, <2>2, <2>3, <2>4
  <1>4. /\ r \in MemOp /\ r.tile = ms[m].tile /\ r.inBlocks = ms[m].inBlocks
        /\ r.starts = Append(ms[m].starts, st) /\ ms[m].starts \in Seq(DmaStart)
    <2>1. ms[m] \in MemOp
      BY <1>1
    <2> QED BY <2>1 DEF MemOp
  <1> HIDE DEF r
  <1>5. /\ ops \in Seq(MemOp) /\ DOMAIN ops = DOMAIN ms
        /\ ops[m] = r /\ \A n \in DOMAIN ms \ {m} : ops[n] = ms[n]
        /\ \A n \in DOMAIN ms : ops[n].tile = ms[n].tile /\ ops[n].inBlocks = ms[n].inBlocks
    <2>1. ops \in Seq(MemOp)
      BY <1>1, <1>4, ExceptSeq
    <2> QED BY <2>1, <1>1, <1>4
  <1>6. ops = [ms EXCEPT ![m].starts = Append(@, st)]
    BY DEF r
  <1> HIDE DEF ops, bds
  <1>7. \A i \in first .. (Len(bs) + depth) : i \in DOMAIN bds /\ bds[i].mem = m
    BY <1>1, <1>2, <1>3
  <1>8. ASSUME NEW n \in DOMAIN ops, NEW s \in DOMAIN ops[n].starts
        PROVE  ops[n].starts[s].dest \in DOMAIN bds /\ bds[ops[n].starts[s].dest].mem = n
    <2>1. ASSUME s \in DOMAIN ms[n].starts, ops[n].starts[s] = ms[n].starts[s]
          PROVE  ops[n].starts[s].dest \in DOMAIN bds /\ bds[ops[n].starts[s].dest].mem = n
      <3>1. ms[n].starts[s].dest \in DOMAIN bs /\ bs[ms[n].starts[s].dest].mem = n
        BY <2>1, <1>5 DEF DmaProgram
      <3> QED BY <3>1, <2>1, <1>1, <1>3
    <2>2. CASE n = m /\ s = Len(ms[m].starts) + 1
      <3>1. ops[n].starts[s].dest = first
        BY <2>2, <1>4, <1>5
      <3> QED BY <3>1, <2>2, <1>1, <1>7
    <2>3. CASE n = m /\ s # Len(ms[m].starts) + 1
      <3> DEFINE old == ms[m].starts
      <3>1. ops[n].starts = Append(old, st) /\ old \in Seq(DmaStart)
        BY <2>3, <1>4, <1>5
      <3> HIDE DEF old
      <3>2. s \in 1 .. (Len(old) + 1) /\ Len(old) \in Nat
        BY <3>1
      <3>3. s \in 1 .. Len(old) /\ ops[n].starts[s] = old[s] /\ s \in DOMAIN old
        BY <3>1, <3>2, <2>3 DEF old
      <3> QED BY <3>3, <2>1, <2>3 DEF old
    <2>4. CASE n # m
      BY <2>1, <2>4, <1>5
    <2> QED BY <2>2, <2>3, <2>4
  <1>9. ASSUME NEW i \in DOMAIN bds PROVE BdIn(ops, bds, i)
    <2>1. CASE i \in 1 .. Len(bs)
      <3>1. BdIn(ms, bs, i) /\ bds[i] = bs[i]
        BY <2>1, <1>1, <1>3 DEF DmaProgram
      <3>2. bs[i].mem \in DOMAIN ms /\ ops[bs[i].mem].tile = ms[bs[i].mem].tile
        BY <3>1, <1>5 DEF BdIn
      <3>3. bs[i].succ # 0 => bs[i].succ \in DOMAIN bds /\ bds[bs[i].succ].mem = bs[i].mem
        BY <3>1, <1>1, <1>3, SMTT(20) DEF BdIn
      <3> QED BY <3>1, <3>2, <3>3, <1>5 DEF BdIn
    <2>2. CASE i \in first .. (Len(bs) + depth)
      <3>1. /\ bds[i].mem = m /\ bds[i].chan = NoChannel /\ bds[i].next = NoBdID
            /\ bds[i].id = NoBdID /\ bds[i].succ \in first .. (Len(bs) + depth)
        BY <2>2, <1>2, <1>3
      <3> QED BY <3>1, <1>5, <1>7 DEF BdIn
    <2> QED BY <2>1, <2>2, <1>1, <1>3
  <1>10. \A k, l \in DOMAIN ops : ops[k].tile = ops[l].tile => k = l
    BY <1>5 DEF DmaProgram
  <1>11. \A n \in DOMAIN ops : ops[n].inBlocks
    BY <1>5 DEF DmaProgram
  <1>12. DmaProgram(ops, bds)
    BY <1>3, <1>5, <1>8, <1>9, <1>10, <1>11 DEF DmaProgram
  <1> QED BY <1>6, <1>12 DEF bds, ring

LEMMA WithDmaProgram ==
    ASSUME NEW ms, NEW bs, DmaProgram(ms, bs), NEW t \in Tiles, NEW dir \in Directions,
           NEW chan \in Nat, NEW depth \in Nat \ {0}
    PROVE  LET p == WithDMA([memOps |-> ms, bdOps |-> bs], t, dir, chan, depth) IN
           p = [memOps |-> p.memOps, bdOps |-> p.bdOps] /\ DmaProgram(p.memOps, p.bdOps)
  <1> DEFINE q == [memOps |-> ms, bdOps |-> bs]
             p == WithDMA(q, t, dir, chan, depth)
             at == {n \in DOMAIN ms : ms[n].tile = t}
             m == IF at = {} THEN Len(ms) + 1 ELSE CHOOSE n \in at : TRUE
             ops == IF at = {} THEN Append(ms, [tile |-> t, inBlocks |-> TRUE, starts |-> <<>>])
                    ELSE ms
             first == Len(bs) + 1
             st == [dir |-> dir, chan |-> chan, dest |-> first]
             ring == Ring(m, first, depth)
  <1>1. CASE IsShim(t)
    BY <1>1 DEF WithDMA
  <1>2. CASE ~ IsShim(t)
    <2>1. DmaProgram(ops, bs) /\ m \in DOMAIN ops
      <3>1. CASE at = {}
        BY <3>1, NewDma
      <3>2. CASE at # {}
        BY <3>2
      <3> QED BY <3>1, <3>2
    <2>2. st \in DmaStart /\ st.dest = Len(bs) + 1
      <3>1. Len(bs) \in Nat
        BY DEF DmaProgram
      <3> QED BY <3>1 DEF DmaStart, Directions
    <2>3. DmaProgram([ops EXCEPT ![m].starts = Append(@, st)], bs \o ring)
      <3> HIDE DEF ops, m, st
      <3> QED BY <2>1, <2>2, NewRing
    <2>4. p = [q EXCEPT !.memOps = [ops EXCEPT ![m].starts = Append(@, st)],
                        !.bdOps = @ \o ring]
      BY <1>2 DEF WithDMA, Ring
    <2>5. p = [memOps |-> [ops EXCEPT ![m].starts = Append(@, st)], bdOps |-> bs \o ring]
      <3> HIDE DEF p, ops, m, st, ring
      <3> QED BY <2>4
    <2> DEFINE X == [ops EXCEPT ![m].starts = Append(@, st)]
               Y == bs \o ring
    <2> HIDE DEF X, Y, ops, m, st, ring, p
    <2>6. p = [memOps |-> X, bdOps |-> Y] /\ DmaProgram(X, Y)
      BY <2>3, <2>5 DEF X, Y
    <2>7. p = [memOps |-> p.memOps, bdOps |-> p.bdOps] /\ DmaProgram(p.memOps, p.bdOps)
      BY <2>6
    <2> QED BY <2>7 DEF p
  <1> QED BY <1>1, <1>2

(* The DMAs of one objectFifo, producer first and one consumer after the   *)
(* other: at every point the program is one that the verifiers accept.     *)
DmaStates == {s \in [channels : [Tiles \X Directions -> Nat],
                     prog : [memOps : Seq(MemOp), bdOps : Seq(BdOp)],
                     dsts : Seq(Tiles \X {"DMA"} \X Nat)] :
                 DmaProgram(s.prog.memOps, s.prog.bdOps)}

LEMMA FifoFields ==
    ASSUME NEW f \in FifoOp
    PROVE  /\ f.prod \in Tiles /\ f.cons \in Seq(Tiles) /\ f.depths \in Seq(Nat \ {0})
           /\ Len(f.depths) = Len(f.cons) + 1 /\ Len(f.cons) \in Nat /\ f.size \in Nat \ {0}
           /\ f.depths[1] \in Nat \ {0} /\ f.prod \in declared
           /\ \A k \in 1 .. Len(f.cons) : /\ f.cons[k] \in Tiles /\ f.cons[k] \in declared
                                          /\ f.depths[k + 1] \in Nat \ {0}
  <1>1. /\ f.prod \in Tiles /\ f.cons \in Seq(Tiles) /\ f.depths \in Seq(Nat \ {0})
        /\ Len(f.depths) = Len(f.cons) + 1 /\ f.size \in Nat \ {0}
        /\ {f.prod} \cup ToSet(f.cons) \subseteq declared
    BY DEF FifoOp
  <1>2. Len(f.cons) \in Nat /\ DOMAIN f.cons = 1 .. Len(f.cons)
    BY <1>1
  <1>3. f.depths[1] \in Nat \ {0}
    BY <1>1, <1>2
  <1>4. ASSUME NEW k \in 1 .. Len(f.cons)
        PROVE  f.cons[k] \in Tiles /\ f.cons[k] \in declared /\ f.depths[k + 1] \in Nat \ {0}
    <2>0. k \in DOMAIN f.cons
      BY <1>2
    <2>1. f.cons[k] \in Tiles /\ f.cons[k] \in ToSet(f.cons)
      <3>1. f.cons[k] \in Tiles
        BY <1>1, <2>0
      <3> QED BY <2>0, <3>1 DEF ToSet
    <2>2. k + 1 \in 1 .. Len(f.depths)
      BY <1>1, <1>2
    <2> QED BY <1>1, <2>1, <2>2
  <1> QED BY <1>1, <1>2, <1>3, <1>4

LEMMA ProducerDma ==
    ASSUME NEW f \in FifoOp, channels \in [Tiles \X Directions -> Nat],
           DmaProgram(memOps, bdOps)
    PROVE  DmaOfProducer(f) \in DmaStates
  <1> DEFINE x == <<f.prod, "MM2S">>
             p == WithDMA([memOps |-> memOps, bdOps |-> bdOps],
                          f.prod, "MM2S", channels[x], f.depths[1])
             d == DmaOfProducer(f)
  <1>1. x \in Tiles \X Directions /\ channels[x] \in Nat /\ f.depths[1] \in Nat \ {0}
        /\ f.prod \in Tiles /\ "MM2S" \in Directions
    BY FifoFields DEF Directions
  <1>2. p = [memOps |-> p.memOps, bdOps |-> p.bdOps] /\ DmaProgram(p.memOps, p.bdOps)
    BY <1>1, WithDmaProgram
  <1>3. Took(channels, x) \in [Tiles \X Directions -> Nat]
    BY <1>1 DEF Took
  <1>4. d = [channels |-> Took(channels, x), prog |-> p, dsts |-> <<>>]
    BY DEF DmaOfProducer
  <1> HIDE DEF x, p, d
  <1>5. p \in [memOps : Seq(MemOp), bdOps : Seq(BdOp)]
    BY <1>2 DEF DmaProgram
  <1>6. d \in [channels : [Tiles \X Directions -> Nat],
              prog : [memOps : Seq(MemOp), bdOps : Seq(BdOp)],
              dsts : Seq(Tiles \X {"DMA"} \X Nat)]
    BY <1>3, <1>4, <1>5
  <1>7. DmaProgram(d.prog.memOps, d.prog.bdOps)
    BY <1>2, <1>4
  <1> QED BY <1>6, <1>7 DEF DmaStates, d

LEMMA ConsumerDma ==
    ASSUME NEW f \in FifoOp, NEW s \in DmaStates, NEW k \in 1 .. Len(f.cons)
    PROVE  DmaOfConsumer(f, s, k) \in DmaStates
  <1> DEFINE t == f.cons[k]
             x == <<t, "S2MM">>
             n == s.channels[x]
             p == WithDMA(s.prog, t, "S2MM", n, f.depths[k + 1])
             d == DmaOfConsumer(f, s, k)
  <1>1. /\ s \in [channels : [Tiles \X Directions -> Nat],
                  prog : [memOps : Seq(MemOp), bdOps : Seq(BdOp)],
                  dsts : Seq(Tiles \X {"DMA"} \X Nat)]
        /\ DmaProgram(s.prog.memOps, s.prog.bdOps)
    BY DEF DmaStates
  <1>2. t \in Tiles /\ f.depths[k + 1] \in Nat \ {0} /\ "S2MM" \in Directions
    BY FifoFields DEF Directions
  <1>3. x \in Tiles \X Directions /\ n \in Nat
    BY <1>1, <1>2
  <1>4. s.prog = [memOps |-> s.prog.memOps, bdOps |-> s.prog.bdOps]
    BY <1>1
  <1>5. p = [memOps |-> p.memOps, bdOps |-> p.bdOps] /\ DmaProgram(p.memOps, p.bdOps)
    <2> DEFINE ms == s.prog.memOps
               bs == s.prog.bdOps
               depth == f.depths[k + 1]
    <2>1. s.prog = [memOps |-> ms, bdOps |-> bs] /\ DmaProgram(ms, bs)
          /\ t \in Tiles /\ n \in Nat /\ depth \in Nat \ {0}
      BY <1>1, <1>2, <1>3, <1>4
    <2>2. p = WithDMA([memOps |-> ms, bdOps |-> bs], t, "S2MM", n, depth)
      BY <2>1
    <2> HIDE DEF ms, bs, depth, t, n, p
    <2> QED BY <2>1, <2>2, <1>2, WithDmaProgram
  <1>6. Took(s.channels, x) \in [Tiles \X Directions -> Nat]
    BY <1>1, <1>3 DEF Took
  <1>7. d = [channels |-> Took(s.channels, x), prog |-> p,
             dsts |-> Append(s.dsts, <<t, "DMA", n>>)]
    BY DEF DmaOfConsumer
  <1>8. Append(s.dsts, <<t, "DMA", n>>) \in Seq(Tiles \X {"DMA"} \X Nat)
    <2> HIDE DEF t, n
    <2> QED BY <1>1, <1>2, <1>3
  <1> HIDE DEF t, x, n, p, d
  <1>9. p \in [memOps : Seq(MemOp), bdOps : Seq(BdOp)]
    BY <1>5 DEF DmaProgram
  <1>10. d \in [channels : [Tiles \X Directions -> Nat],
               prog : [memOps : Seq(MemOp), bdOps : Seq(BdOp)],
               dsts : Seq(Tiles \X {"DMA"} \X Nat)]
    BY <1>6, <1>7, <1>8, <1>9
  <1>11. DmaProgram(d.prog.memOps, d.prog.bdOps)
    BY <1>5, <1>7
  <1> QED BY <1>10, <1>11 DEF DmaStates, d

LEMMA FifoDmas ==
    ASSUME NEW f \in FifoOp, channels \in [Tiles \X Directions -> Nat],
           DmaProgram(memOps, bdOps)
    PROVE  DmasOf(f) \in DmaStates
  <1> DEFINE N == Len(f.cons)
             a == DmaOfProducer(f)
             C(s, k) == DmaOfConsumer(f, s, k)
             Solves(g) == g = [k \in 0 .. N |-> IF k = 0 THEN a ELSE C(g[k - 1], k)]
             done == CHOOSE g : Solves(g)
  <1>1. N \in Nat /\ a \in DmaStates
    BY FifoFields, ProducerDma
  <1>2. \A s \in DmaStates : \A k \in 1 .. N : C(s, k) \in DmaStates
    BY ConsumerDma
  <1>3. DmasOf(f) = done[N]
    BY DEF DmasOf
  <1> HIDE DEF N, a, C
  <1>4. Solves(done)
    <2> DEFINE h == [x \in DmaStates \X (1 .. N) |-> C(x[1], x[2])]
    <2>1. StepFunction(DmaStates, N, h)
      <3>1. \A x \in DmaStates \X (1 .. N) : C(x[1], x[2]) \in DmaStates
        BY <1>2
      <3> QED BY <3>1 DEF StepFunction
    <2>2. \A s \in DmaStates, k \in 1 .. N : h[<<s, k>>] = C(s, k)
      OBVIOUS
    <2> HIDE DEF h
    <2>3. PICK g : Iterates(g, DmaStates, a, N, h)
      BY <1>1, <2>1, IterationExists
    <2>4. g \in [0 .. N -> DmaStates] /\ g[0] = a
          /\ \A k \in 1 .. N : g[k] = h[<<g[k - 1], k>>]
      BY <2>3 DEF Iterates
    <2>5. ASSUME NEW k \in 0 .. N
          PROVE  g[k] = IF k = 0 THEN a ELSE C(g[k - 1], k)
      <3>1. CASE k = 0
        BY <3>1, <2>4
      <3>2. CASE k # 0
        <4>1. k \in 1 .. N /\ k - 1 \in 0 .. N
          BY <3>2, <1>1
        <4>2. g[k - 1] \in DmaStates
          BY <4>1, <2>4
        <4>3. g[k] = h[<<g[k - 1], k>>]
          BY <4>1, <2>4
        <4> QED BY <4>1, <4>2, <4>3, <2>2, <3>2
      <3> QED BY <3>1, <3>2
    <2>6. g = [k \in 0 .. N |-> g[k]]
      BY <2>4
    <2>7. Solves(g)
      BY <2>5, <2>6
    <2> HIDE DEF Solves
    <2> QED BY <2>7
  <1>5. \A k \in 0 .. N : done[k] = IF k = 0 THEN a ELSE C(done[k - 1], k)
    <2> HIDE DEF done
    <2> QED BY <1>4
  <1> HIDE DEF done
  <1> DEFINE T == {k \in 0 .. N : done[k] \notin DmaStates}
  <1>6. ASSUME T # {} PROVE FALSE
    <2>1. T \in SUBSET Nat
      BY <1>1
    <2>2. PICK k \in T : \A j \in T : k <= j
      <3> HIDE DEF T
      <3> QED BY <1>6, <2>1, LeastNumber
    <2>3. CASE k = 0
      BY <2>3, <1>1, <1>5
    <2>4. CASE k # 0
      <3>1. k \in 1 .. N /\ k \in 0 .. N /\ k - 1 \in 0 .. N /\ k - 1 \notin T
        BY <2>2, <2>4, <1>1
      <3>2. done[k - 1] \in DmaStates
        BY <3>1
      <3>3. done[k] = C(done[k - 1], k) /\ done[k] \notin DmaStates
        BY <3>1, <2>4, <1>5
      <3> QED BY <3>1, <3>2, <3>3, <1>2
    <2> QED BY <2>3, <2>4
  <1>7. N \in 0 .. N /\ N \notin T
    BY <1>1, <1>6
  <1> QED BY <1>3, <1>7
-----------------------------------------------------------------------------
(* What stays when a step leaves the variables of a part alone.            *)
LEMMA LocksStay ==
    ASSUME LocksKept, UNCHANGED <<lockVars, locksPerTile, fifoResult>>
    PROVE  LocksKept'
  <1>1. LockTypeOK' /\ LocksDistinct' /\ LocksExhaustedRightly'
    BY DEF LocksKept, lockVars, LockTypeOK, LocksDistinct, LocksExhaustedRightly, Unassigned
  <1>2. (fifoResult = "split" => LockInv)'
    BY LockStutterInv DEF LocksKept
  <1>3. (fifoResult # "split" => lockResult = "success")'
        /\ (fifoResult = "elements" => \A t \in Tiles : locksPerTile[t] = LockIDsOf(t))'
    BY DEF LocksKept, lockVars, LockIDsOf
  <1> QED BY <1>1, <1>2, <1>3 DEF LocksKept

LEMMA BdInitStays ==
    ASSUME BdInit, UNCHANGED bdVars PROVE BdInit'
  BY DEF BdInit, bdVars, BdProgramOK, BdOpsOf, TileOf

LEMMA BufInitStays ==
    ASSUME BufInit, UNCHANGED bufVars PROVE BufInit'
  <1>1. /\ bufs' = bufs /\ stack' = stack /\ basic' = basic /\ tilesLeft' = tilesLeft
        /\ inTile' = inTile /\ nextAddr' = nextAddr /\ unchecked' = unchecked
        /\ waiting' = waiting /\ bankIndex' = bankIndex /\ bufResult' = bufResult
    BY DEF bufVars
  <1>2. (bufs \in Seq(Buf) /\ stack \in [Tiles -> Nat] /\ basic \in BOOLEAN)'
    BY <1>1 DEF BufInit
  <1>3. ({bufs[i].tile : i \in DOMAIN bufs} \subseteq {tilesLeft[k] : k \in DOMAIN tilesLeft})'
    <2>1. \A i \in DOMAIN bufs : \E k \in DOMAIN tilesLeft : bufs[i].tile = tilesLeft[k]
      BY DEF BufInit
    <2> QED BY <1>1, <2>1
  <1>4. (/\ tilesLeft \in Seq(Tiles) \ {<<>>} /\ inTile = FALSE
         /\ \A k, l \in DOMAIN tilesLeft : tilesLeft[k] = tilesLeft[l] => k = l)'
    BY <1>1 DEF BufInit
  <1> QED BY <1>1, <1>2, <1>3, <1>4 DEF BufInit

LEMMA WaitStays ==
    ASSUME LaterPassesWait,
           UNCHANGED <<bdVars, bufVars, fifoResult, overlayStage, tileOps, localLocks>>
    PROVE  LaterPassesWait'
  <1>1. tilesLeft' = tilesLeft
    BY DEF bufVars
  <1> QED BY <1>1, BdInitStays, BufInitStays DEF LaterPassesWait

LEMMA FifosStay ==
    ASSUME FifosTyped, UNCHANGED <<fifoVars, memOps, tileOps>>
    PROVE  FifosTyped'
  BY DEF FifosTyped, fifoVars, FifoOp, declared

LEMMA LocalLocksStay ==
    ASSUME LocalLocksUnambiguous, UNCHANGED localLocks
    PROVE  LocalLocksUnambiguous'
  BY DEF LocalLocksUnambiguous

LEMMA ReachStays ==
    ASSUME ReachKept, UNCHANGED <<bdVars, userBDs>>,
           fifoResult' # "success" => fifoResult # "success"
    PROVE  ReachKept'
  <1>1. UNCHANGED <<memOps, bdOps, mem, bdChannel, start, block>>
    BY DEF bdVars
  <1>2. PICK given : given = userBDs /\ given = userBDs'
    OBVIOUS
  <1>3. ChannelsRun' /\ InReach(given)'
    BY <1>1, <1>2, ReachStutter DEF ReachKept
  <1>4. InReach(userBDs)'
    BY <1>2, <1>3 DEF InReach
  <1> QED BY <1>1, <1>3, <1>4 DEF ReachKept

(* No identifier is chosen, and no block followed, before the pass begins. *)
LEMMA ReachBegins ==
    ASSUME BdInit, \A i \in DOMAIN bdOps : bdOps[i].id # NoBdID => i \in userBDs
    PROVE  ReachKept
  <1>1. ChannelsRun
    BY DEF BdInit, ChannelsRun
  <1>2. InReach(userBDs)
    BY DEF InReach
  <1> QED BY <1>1, <1>2 DEF ReachKept

(* The later passes begin when the objectFifo pass is done.                *)
LEMMA FifosDone ==
    ASSUME PipelineInv,
           \/ bdResult = "success" \/ overlayStage = "done" \/ bufResult = "success"
           \/ localLocks # <<>>
    PROVE  fifoResult = "success"
  BY DEF PipelineInv, LaterPassesWait, BdInit, BufInit

LEMMA DoneStays ==
    ASSUME fifoResult' = "success"
    PROVE  LaterPassesWait' /\ FifosTyped'
  BY DEF LaterPassesWait, FifosTyped
-----------------------------------------------------------------------------
LEMMA PipelineInit == Init => PipelineInv
  <1> SUFFICES ASSUME Init PROVE PipelineInv
    OBVIOUS
  <1>1. /\ LockInit /\ BdInit /\ BufInit /\ FifoInit /\ overlayStage = "broadcast"
        /\ localLocks = <<>> /\ tilesLeft = tileOps
    BY DEF Init, Load, OverlayInit
  <1>2. LockInv /\ BdInv /\ BufInv /\ LocksDistinct
    BY <1>1, LockInitInv, BdInitInv, BufInitInv, DistinctByInv
  <1>3. LocksKept
    BY <1>1, <1>2 DEF LocksKept, LockInv, FifoInit
  <1>4. LaterPassesWait
    BY <1>1 DEF LaterPassesWait
  <1>5. FifosTyped
    <2>1. \A S : <<>> \in Seq(S)
      OBVIOUS
    <2> QED BY <1>1, <2>1 DEF FifosTyped, FifoInit, Directions
  <1>6. LocalLocksUnambiguous
    BY <1>1 DEF LocalLocksUnambiguous
  <1>7. ReachKept
    <2>1. userBDs = {i \in DOMAIN bdOps : bdOps[i].id # NoBdID}
      BY DEF Init
    <2> QED BY <2>1, <1>1, ReachBegins
  <1> QED BY <1>2, <1>3, <1>4, <1>5, <1>6, <1>7 DEF PipelineInv

LEMMA AssignLockIDsKeeps == PipelineInv /\ AssignLockIDs => PipelineInv'
  <1> SUFFICES ASSUME PipelineInv, AssignLockIDs PROVE PipelineInv'
    OBVIOUS
  <1>1. /\ LockNext
        /\ UNCHANGED <<bdVars, bufVars, fifoVars, overlayVars, tileOps, userBDs, localLocks>>
    BY DEF AssignLockIDs, switchVars
  <1>2. lockResult # "success"
    BY <1>1 DEF LockNext, WalkLock, AssignLock, EndLockPass
  <1>3. fifoResult = "split" /\ fifoResult' = "split" /\ LockInv
    BY <1>1, <1>2 DEF PipelineInv, LocksKept, fifoVars
  <1>4. LockInv'
    BY <1>1, <1>3, LockStepInv
  <1>5. LocksDistinct'
    BY <1>4, DistinctByInv, PTL
  <1>6. LocksKept'
    BY <1>3, <1>4, <1>5 DEF LocksKept, LockInv
  <1>7. BdInv' /\ BufInv'
    BY <1>1, BdStutterInv, BufStutterInv DEF PipelineInv
  <1>8. LaterPassesWait' /\ FifosTyped'
    BY <1>1, WaitStays, FifosStay DEF PipelineInv, fifoVars, overlayVars, bdVars
  <1>9. LocalLocksUnambiguous' /\ ReachKept'
    BY <1>1, LocalLocksStay, ReachStays DEF PipelineInv, fifoVars
  <1> QED BY <1>6, <1>7, <1>8, <1>9 DEF PipelineInv

LEMMA AssignBufferDescriptorIDsKeeps ==
    PipelineInv /\ AssignBufferDescriptorIDs => PipelineInv'
  <1> SUFFICES ASSUME PipelineInv, AssignBufferDescriptorIDs PROVE PipelineInv'
    OBVIOUS
  <1>1. /\ fifoResult = "success" /\ BdNext
        /\ UNCHANGED <<lockVars, bufVars, fifoVars, userBDs, localLocks>>
    BY DEF AssignBufferDescriptorIDs
  <1>2. BdInv'
    BY <1>1, BdStepInv DEF PipelineInv
  <1>3. LocksKept' /\ BufInv' /\ LocalLocksUnambiguous'
    BY <1>1, LocksStay, BufStutterInv, LocalLocksStay DEF PipelineInv, fifoVars
  <1>4. LaterPassesWait' /\ FifosTyped'
    BY <1>1, DoneStays DEF fifoVars
  <1>5. ReachKept'
    <2>1. PICK given : given = userBDs /\ given = userBDs'
      BY <1>1
    <2>2. BdInv /\ ChannelsRun /\ InReach(given)
      BY <2>1 DEF PipelineInv, ReachKept
    <2>3. ChannelsRun' /\ InReach(given)'
      BY <2>2, <1>1, ReachStep
    <2>4. InReach(userBDs)'
      BY <2>1, <2>3 DEF InReach
    <2> QED BY <2>3, <2>4, <1>1 DEF ReachKept, fifoVars
  <1> QED BY <1>2, <1>3, <1>4, <1>5 DEF PipelineInv

LEMMA LowerFlowsKeeps == PipelineInv /\ LowerFlows => PipelineInv'
  <1> SUFFICES ASSUME PipelineInv, LowerFlows PROVE PipelineInv'
    OBVIOUS
  <1>1. /\ fifoResult = "success"
        /\ UNCHANGED <<lockVars, bdVars, bufVars, fifoVars, userBDs, localLocks>>
    BY FifosDone DEF LowerFlows
  <1>2. LocksKept' /\ BdInv' /\ BufInv' /\ LocalLocksUnambiguous' /\ ReachKept'
    BY <1>1, LocksStay, BdStutterInv, BufStutterInv, LocalLocksStay, ReachStays
       DEF PipelineInv, fifoVars
  <1>3. LaterPassesWait' /\ FifosTyped'
    BY <1>1, DoneStays DEF fifoVars
  <1> QED BY <1>2, <1>3 DEF PipelineInv

LEMMA AssignBufferAddressesKeeps == PipelineInv /\ AssignBufferAddresses => PipelineInv'
  <1> SUFFICES ASSUME PipelineInv, AssignBufferAddresses PROVE PipelineInv'
    OBVIOUS
  <1>1. /\ fifoResult = "success" /\ BufNext
        /\ UNCHANGED <<lockVars, bdVars, fifoVars, userBDs, localLocks>>
    BY FifosDone DEF AssignBufferAddresses
  <1>2. BufInv'
    BY <1>1, BufStepInv DEF PipelineInv
  <1>3. LocksKept' /\ BdInv' /\ LocalLocksUnambiguous' /\ ReachKept'
    BY <1>1, LocksStay, BdStutterInv, LocalLocksStay, ReachStays DEF PipelineInv, fifoVars
  <1>4. LaterPassesWait' /\ FifosTyped'
    BY <1>1, DoneStays DEF fifoVars
  <1> QED BY <1>2, <1>3, <1>4 DEF PipelineInv

LEMMA CreatePathfinderFlowsKeeps == PipelineInv /\ CreatePathfinderFlows => PipelineInv'
  <1> SUFFICES ASSUME PipelineInv, CreatePathfinderFlows PROVE PipelineInv'
    OBVIOUS
  <1>1. /\ fifoResult = "success"
        /\ UNCHANGED <<lockVars, bdVars, bufVars, fifoVars, userBDs, localLocks>>
    BY FifosDone DEF CreatePathfinderFlows
  <1>2. LocksKept' /\ BdInv' /\ BufInv' /\ LocalLocksUnambiguous' /\ ReachKept'
    BY <1>1, LocksStay, BdStutterInv, BufStutterInv, LocalLocksStay, ReachStays
       DEF PipelineInv, fifoVars
  <1>3. LaterPassesWait' /\ FifosTyped'
    BY <1>1, DoneStays DEF fifoVars
  <1> QED BY <1>2, <1>3 DEF PipelineInv

LEMMA PipelineStutter == PipelineInv /\ UNCHANGED pipelineVars => PipelineInv'
  <1> SUFFICES ASSUME PipelineInv, UNCHANGED pipelineVars PROVE PipelineInv'
    OBVIOUS
  <1>1. UNCHANGED <<lockVars, bdVars, bufVars, fifoVars, overlayVars, tileOps, userBDs,
                    localLocks>>
    BY DEF pipelineVars, switchVars
  <1>2. LocksKept' /\ BdInv' /\ BufInv' /\ LocalLocksUnambiguous' /\ ReachKept'
    BY <1>1, LocksStay, BdStutterInv, BufStutterInv, LocalLocksStay, ReachStays
       DEF PipelineInv, fifoVars
  <1>3. LaterPassesWait' /\ FifosTyped'
    BY <1>1, WaitStays, FifosStay DEF PipelineInv, fifoVars, overlayVars, bdVars
  <1> QED BY <1>2, <1>3 DEF PipelineInv
-----------------------------------------------------------------------------
(* The tiles whose locks a core can use are core tiles, one at each side.  *)
TileAt(c, side) ==
    CASE side = "South" -> <<Col(c), Row(c) - 1>>
      [] side = "West" -> <<Col(c) - 1, Row(c)>>
      [] side = "North" -> <<Col(c), Row(c) + 1>>
      [] side = "East" -> c

LEMMA NeighbourOfCore ==
    ASSUME NEW c \in Tiles, IsCore(c), NEW t \in Tiles, LegalMemAffinity(c, t)
    PROVE  /\ Side(c, t) \in {"South", "West", "North", "East"}
           /\ t = TileAt(c, Side(c, t)) /\ NumLocks(t) = CoreLocks
  <1>1. Row(c) \in Nat /\ Row(c) > 1 /\ Row(t) \in Nat /\ Col(c) \in Nat
    BY TargetAssumption DEF Tiles, Row, Col, IsCore
  <1>2. ~ IsMemTile(c)
    BY <1>1 DEF IsMemTile
  <1>3. Side(c, t) # "None" /\ (Side(c, t) = "South" => ~ IsMemTile(t))
    BY <1>2 DEF LegalMemAffinity
  <1>4. Side(c, t) \in {"South", "West", "North", "East"} /\ t = TileAt(c, Side(c, t))
    BY <1>3, <1>1 DEF Side, TileAt
  <1>5. Side(c, t) # "South" => Row(t) >= Row(c)
    BY <1>4, <1>1 DEF TileAt, Row
  <1>6. ~ IsMemTile(t)
    BY <1>1, <1>3, <1>5 DEF IsMemTile
  <1> QED BY <1>4, <1>6 DEF NumLocks

LEMMA SideOffsets ==
    /\ \A s \in {"South", "West", "North", "East"} : SideOffset[s] \in 0 .. 3
    /\ \A s, r \in {"South", "West", "North", "East"} : SideOffset[s] = SideOffset[r] => s = r
  BY DEF SideOffset

LEMMA OneNumberOneLock ==
    ASSUME LockTypeOK, LocksDistinct, lockResult = "success",
           NEW c \in Tiles, IsCore(c), NEW i \in LocalLocks(c), NEW j \in LocalLocks(c),
           LocalIndex(c, i) = LocalIndex(c, j)
    PROVE  i = j
  <1> DEFINE t == lockOps[i].tile
             u == lockOps[j].tile
             m == lockOps[i].id
             n == lockOps[j].id
             a == SideOffset[Side(c, t)]
             b == SideOffset[Side(c, u)]
  <1>1. i \in DOMAIN lockOps /\ j \in DOMAIN lockOps
        /\ LegalMemAffinity(c, t) /\ LegalMemAffinity(c, u)
    BY DEF LocalLocks
  <1>2. t \in Tiles /\ u \in Tiles
    <2>1. lockOps[i] \in LockOp /\ lockOps[j] \in LockOp
      BY <1>1 DEF LockTypeOK
    <2> QED BY <2>1 DEF LockOp
  <1>3. /\ Side(c, t) \in {"South", "West", "North", "East"}
        /\ t = TileAt(c, Side(c, t)) /\ NumLocks(t) = CoreLocks
    BY <1>1, <1>2, NeighbourOfCore
  <1>4. /\ Side(c, u) \in {"South", "West", "North", "East"}
        /\ u = TileAt(c, Side(c, u)) /\ NumLocks(u) = CoreLocks
    BY <1>1, <1>2, NeighbourOfCore
  <1>5. m \in 0 .. (CoreLocks - 1) /\ n \in 0 .. (CoreLocks - 1)
    BY <1>1, <1>3, <1>4 DEF LocksDistinct
  <1>6. a * CoreLocks + m = b * CoreLocks + n
    BY <1>3, <1>4 DEF LocalIndex
  <1>7. a \in 0 .. 3 /\ b \in 0 .. 3
    BY <1>3, <1>4, SideOffsets
  <1>8. a = b /\ m = n
    <2> HIDE DEF a, b, m, n
    <2>1. CoreLocks \in Nat \ {0}
      BY <1>5, TargetAssumption
    <2> DEFINE k == a * CoreLocks + m
    <2>2. k \in Nat /\ k = CoreLocks * a + m /\ k = CoreLocks * b + n
      BY <2>1, <1>5, <1>6, <1>7
    <2> HIDE DEF k
    <2>3. k % CoreLocks = m /\ k % CoreLocks = n
      BY <2>1, <2>2, <1>5, <1>7, ModUnique
    <2>4. CoreLocks * a = CoreLocks * b
      BY <2>1, <2>2, <2>3, <1>5, <1>7
    <2>5. a \in {0, 1, 2, 3} /\ b \in {0, 1, 2, 3}
      BY <1>7
    <2>6. a = b
      BY <2>1, <2>4, <2>5
    <2> QED BY <2>3, <2>6
  <1>9. t = u
    <2>1. Side(c, t) = Side(c, u)
      BY <1>3, <1>4, <1>8, SideOffsets
    <2> QED BY <2>1, <1>3, <1>4
  <1> QED BY <1>1, <1>8, <1>9 DEF LocksDistinct

LEMMA LocalizeLocksKeeps == PipelineInv /\ LocalizeLocks => PipelineInv'
  <1> SUFFICES ASSUME PipelineInv, LocalizeLocks PROVE PipelineInv'
    OBVIOUS
  <1>1. /\ fifoResult = "success"
        /\ UNCHANGED <<lockVars, bdVars, bufVars, fifoVars, userBDs>>
    BY FifosDone DEF LocalizeLocks
  <1>2. LocksKept' /\ BdInv' /\ BufInv' /\ ReachKept'
    BY <1>1, LocksStay, BdStutterInv, BufStutterInv, ReachStays DEF PipelineInv, fifoVars
  <1>3. LaterPassesWait' /\ FifosTyped'
    BY <1>1, DoneStays DEF fifoVars
  <1>4. LocalLocksUnambiguous'
    <2> DEFINE cores == {t \in Tiles : IsCore(t)}
    <2>1. localLocks' = [c \in cores |-> [i \in LocalLocks(c) |-> LocalIndex(c, i)]]
      BY DEF LocalizeLocks
    <2>2. LockTypeOK /\ LocksDistinct /\ lockResult = "success"
      BY <1>1 DEF PipelineInv, LocksKept
    <2>3. ASSUME NEW c \in DOMAIN localLocks',
                 NEW i \in DOMAIN localLocks'[c], NEW j \in DOMAIN localLocks'[c],
                 localLocks'[c][i] = localLocks'[c][j]
          PROVE  i = j
      <3>1. c \in Tiles /\ IsCore(c)
            /\ localLocks'[c] = [k \in LocalLocks(c) |-> LocalIndex(c, k)]
        BY <2>1
      <3>2. i \in LocalLocks(c) /\ j \in LocalLocks(c) /\ LocalIndex(c, i) = LocalIndex(c, j)
        BY <2>3, <3>1
      <3> QED BY <2>2, <3>1, <3>2, OneNumberOneLock
    <2> QED BY <2>3 DEF LocalLocksUnambiguous
  <1> QED BY <1>2, <1>3, <1>4 DEF PipelineInv
-----------------------------------------------------------------------------
LEMMA EndFifoPassKeeps ==
    PipelineInv /\ TransformObjectFifos /\ EndFifoPass => PipelineInv'
  <1> SUFFICES ASSUME PipelineInv, TransformObjectFifos, EndFifoPass PROVE PipelineInv'
    OBVIOUS
  <1>1. /\ fifoResult \in {"elements", "dmas"} /\ fifoResult' \in {"success", "rejected"}
        /\ UNCHANGED <<fifos, locksPerTile, fifoEnds, fifoDmas, channels>>
    BY DEF EndFifoPass
  <1>2. UNCHANGED <<lockOps, bufs, memOps, bdOps>>
    <2>1. ~ SplitFifos /\ ~ CreateElements /\ ~ CreateDMAs
      BY <1>1 DEF SplitFifos, CreateElements, CreateDMAs, EndFifoPass
    <2> QED BY <2>1 DEF TransformObjectFifos
  <1>3. UNCHANGED <<lockVars, bdVars, bufVars, overlayStage, tileOps, userBDs, localLocks>>
    BY <1>2 DEF TransformObjectFifos, lockVars, bdVars, bufVars, overlayVars
  <1>4. LocksKept'
    <2>1. LockTypeOK' /\ LocksDistinct' /\ LocksExhaustedRightly'
      BY <1>3 DEF PipelineInv, LocksKept, lockVars, LockTypeOK, LocksDistinct,
                  LocksExhaustedRightly, Unassigned
    <2>2. lockResult' = "success"
      BY <1>1, <1>3 DEF PipelineInv, LocksKept, lockVars
    <2> QED BY <1>1, <2>1, <2>2 DEF LocksKept
  <1>5. BdInv' /\ BufInv' /\ LocalLocksUnambiguous' /\ ReachKept'
    BY <1>1, <1>3, BdStutterInv, BufStutterInv, LocalLocksStay, ReachStays DEF PipelineInv
  <1>6. LaterPassesWait'
    <2>1. BdInit /\ BufInit /\ overlayStage = "broadcast" /\ tilesLeft = tileOps
          /\ localLocks = <<>>
      BY <1>1 DEF PipelineInv, LaterPassesWait
    <2>2. BdInit' /\ BufInit' /\ tilesLeft' = tilesLeft
      BY <2>1, <1>3, BdInitStays, BufInitStays DEF bufVars
    <2> QED BY <2>1, <2>2, <1>3 DEF LaterPassesWait
  <1>7. FifosTyped'
    <2>1. FifosTyped /\ fifoResult # "success"
      BY <1>1 DEF PipelineInv
    <2>2. UNCHANGED <<fifos, locksPerTile, fifoEnds, fifoDmas, channels, memOps, tileOps>>
      BY <1>1, <1>2, <1>3
    <2> QED BY <2>1, <2>2 DEF FifosTyped, FifoOp, declared
  <1> QED BY <1>4, <1>5, <1>6, <1>7 DEF PipelineInv

(* The channels that the DMAs of a tile start are finitely many.           *)
LEMMA StartsCounted ==
    ASSUME BdProgramOK, NEW t, NEW dir
    PROVE  Cardinality(StartsIn(t, dir)) \in Nat
  <1> DEFINE at == {n \in DOMAIN memOps : memOps[n].tile = t /\ IsCore(t)}
             K(m) == {k \in DOMAIN memOps[m].starts : memOps[m].starts[k].dir = dir}
             ofMem(m) == {<<m, s>> : s \in K(m)}
             all == StartsIn(t, dir)
  <1>1. all = UNION {ofMem(m) : m \in at}
    BY DEF StartsIn
  <1>2. CASE at = {}
    <2>1. all = {}
      BY <1>1, <1>2
    <2> QED BY <2>1, FS_EmptySet
  <1>3. CASE at # {}
    <2>1. PICK m : m \in at
      BY <1>3
    <2>2. \A n \in at : n = m
      BY <2>1 DEF BdProgramOK
    <2>3. all = ofMem(m)
      BY <1>1, <2>1, <2>2
    <2>4. IsFiniteSet(K(m))
      <3>1. memOps[m] \in MemOp
        BY <2>1 DEF BdProgramOK
      <3>2. memOps[m].starts \in Seq(DmaStart)
        BY <3>1 DEF MemOp
      <3>3. DOMAIN memOps[m].starts = 1 .. Len(memOps[m].starts)
            /\ Len(memOps[m].starts) \in Nat
        BY <3>2
      <3>4. IsFiniteSet(1 .. Len(memOps[m].starts))
        <4>1. 1 \in Int /\ Len(memOps[m].starts) \in Int
          BY <3>3
        <4> QED BY <4>1, FS_Interval
      <3> QED BY <3>3, <3>4, FS_Subset
    <2> DEFINE k == K(m)
               g == [s \in k |-> <<m, s>>]
    <2>5. g \in Surjection(k, all)
      <3>1. all = {<<m, s>> : s \in k}
        BY <2>3
      <3> HIDE DEF k, all
      <3>2. g \in [k -> all]
        BY <3>1
      <3>3. \A x \in all : \E s \in k : g[s] = x
        BY <3>1
      <3> QED BY <3>2, <3>3 DEF Surjection
    <2> HIDE DEF k, g, all
    <2>6. IsFiniteSet(all)
      BY <2>4, <2>5, FS_Surjection DEF k
    <2> QED BY <2>6, FS_CardinalityType DEF all
  <1> QED BY <1>2, <1>3

End == [tile : declared, depth : Nat \ {0}, size : Nat \ {0}]

LEMMA EndsType ==
    ASSUME NEW f \in FifoOp
    PROVE  EndsOf(f) \in Seq(End)
  <1> DEFINE E(t, depth) == [tile |-> t, depth |-> depth, size |-> f.size]
             n == Len(f.cons)
             ends == [k \in DOMAIN f.cons |-> E(f.cons[k], f.depths[k + 1])]
  <1>1. \A t \in declared : \A d \in Nat \ {0} : E(t, d) \in End
    BY FifoFields DEF End
  <1> HIDE DEF E
  <1>2. E(f.prod, f.depths[1]) \in End
    BY <1>1, FifoFields
  <1>3. n \in Nat /\ DOMAIN f.cons = 1 .. n
        /\ \A k \in 1 .. n : E(f.cons[k], f.depths[k + 1]) \in End
    <2>1. n \in Nat /\ f.cons \in Seq(Tiles)
      BY FifoFields
    <2>2. ASSUME NEW k \in 1 .. n PROVE E(f.cons[k], f.depths[k + 1]) \in End
      <3>1. f.cons[k] \in declared /\ f.depths[k + 1] \in Nat \ {0}
        BY FifoFields
      <3> QED BY <3>1, <1>1
    <2>3. DOMAIN f.cons = 1 .. n
      BY <2>1
    <2> QED BY <2>1, <2>2, <2>3
  <1>4. CASE RequiresDMAs(f)
    <2>1. ends \in [1 .. n -> End]
      BY <1>3
    <2>2. ends \in Seq(End) /\ Len(ends) = n
      BY <1>3, <2>1
    <2> HIDE DEF ends
    <2>3. Reverse(ends) \in Seq(End)
      <3> DEFINE r == [i \in 1 .. n |-> ends[(n - i) + 1]]
      <3>1. \A i \in 1 .. n : (n - i) + 1 \in 1 .. n
        BY <1>3
      <3>2. \A i \in 1 .. n : ends[i] \in End
        BY <2>1 DEF ends
      <3>3. r \in [1 .. n -> End]
        BY <3>1, <3>2
      <3>4. r \in Seq(End)
        <4> HIDE DEF r
        <4> QED BY <3>3, <1>3
      <3> QED BY <3>4, <2>2 DEF Reverse
    <2>4. EndsOf(f) = <<E(f.prod, f.depths[1])>> \o Reverse(ends)
      BY <1>4 DEF EndsOf, E, ends
    <2>5. <<E(f.prod, f.depths[1])>> \in Seq(End)
      BY <1>2
    <2> QED BY <2>3, <2>4, <2>5, ConcatProperties
  <1>5. CASE ~ RequiresDMAs(f)
    <2>1. n = 1
      BY <1>5 DEF RequiresDMAs
    <2>2. f.cons[1] \in declared /\ f.prod \in declared
      BY <2>1, FifoFields
    <2> DEFINE t == IF LeftShared(f.prod, f.cons[1]) THEN f.prod ELSE f.cons[1]
    <2>3. t \in declared
      BY <2>2
    <2>4. E(t, f.depths[1]) \in End
      <3> HIDE DEF t
      <3> QED BY <2>3, <1>1, FifoFields
    <2>5. EndsOf(f) = <<E(t, f.depths[1])>>
      BY <1>5 DEF EndsOf, E
    <2> HIDE DEF t
    <2> QED BY <2>4, <2>5
  <1> QED BY <1>4, <1>5

LEMMA SplitFifosKeeps ==
    PipelineInv /\ TransformObjectFifos /\ SplitFifos => PipelineInv'
  <1> SUFFICES ASSUME PipelineInv, TransformObjectFifos, SplitFifos PROVE PipelineInv'
    OBVIOUS
  <1>1. /\ fifoResult = "split" /\ fifoResult' = "elements" /\ lockResult = "success"
        /\ UNCHANGED <<fifos, lockOps, bufs>>
        /\ locksPerTile' = [t \in Tiles |-> LockIDsOf(t)] /\ channels' = ChannelsUsed
        /\ fifoEnds' = FlattenSeq([k \in DOMAIN fifos |-> EndsOf(fifos[k])])
        /\ fifoDmas' = FlattenSeq([k \in DOMAIN fifos |->
                                     IF RequiresDMAs(fifos[k]) THEN <<k>> ELSE <<>>])
    BY DEF SplitFifos, TransformObjectFifos, LockIDsOf
  <1>2. UNCHANGED <<memOps, bdOps>>
    BY <1>1 DEF TransformObjectFifos, CreateElements, CreateDMAs, EndFifoPass
  <1>3. UNCHANGED <<lockVars, bdVars, bufVars, overlayStage, tileOps, userBDs, localLocks>>
    BY <1>1, <1>2 DEF TransformObjectFifos, lockVars, bdVars, bufVars, overlayVars
  <1>4. /\ LockInv /\ BdInit /\ BufInit /\ overlayStage = "broadcast" /\ tilesLeft = tileOps
        /\ localLocks = <<>>
    BY <1>1 DEF PipelineInv, LocksKept, LaterPassesWait
  <1>5. LocksKept'
    <2>1. LockInv'
      BY <1>3, <1>4, LockStutterInv
    <2>2. LocksDistinct'
      BY <2>1, DistinctByInv, PTL
    <2>3. \A t \in Tiles : locksPerTile'[t] = LockIDsOf(t)'
      BY <1>1 DEF LockIDsOf
    <2>4. lockResult' = "success"
      BY <1>1, <1>3 DEF lockVars
    <2> QED BY <1>1, <2>1, <2>2, <2>3, <2>4 DEF LocksKept, LockInv
  <1>6. BdInv' /\ BufInv' /\ LocalLocksUnambiguous' /\ ReachKept'
    BY <1>1, <1>3, BdStutterInv, BufStutterInv, LocalLocksStay, ReachStays DEF PipelineInv
  <1>7. LaterPassesWait'
    <2>1. BdInit' /\ BufInit' /\ tilesLeft' = tilesLeft
      BY <1>3, <1>4, BdInitStays, BufInitStays DEF bufVars
    <2> QED BY <1>3, <1>4, <2>1 DEF LaterPassesWait
  <1>8. FifosTyped'
    <2>1. /\ fifos \in Seq(FifoOp)
          /\ fifos # <<>> => \A m \in DOMAIN memOps : memOps[m].inBlocks
      BY <1>1 DEF PipelineInv, FifosTyped
    <2>2. End' = End /\ FifoOp' = FifoOp
      BY <1>3 DEF End, FifoOp, declared
    <2>3. fifoEnds' \in Seq(End)
      <3> DEFINE n == Len(fifos)
                 es == [k \in DOMAIN fifos |-> EndsOf(fifos[k])]
      <3>1. n \in Nat /\ DOMAIN fifos = 1 .. n /\ \A k \in 1 .. n : fifos[k] \in FifoOp
        BY <2>1
      <3>2. \A k \in 1 .. n : EndsOf(fifos[k]) \in Seq(End)
        BY <3>1, EndsType
      <3>3. es \in [1 .. n -> Seq(End)]
        BY <3>1, <3>2
      <3>4. es \in Seq(Seq(End))
        <4> HIDE DEF es, n
        <4> QED BY <3>1, <3>3
      <3>5. fifoEnds' = FlattenSeq(es)
        BY <1>1
      <3> HIDE DEF es
      <3> QED BY <3>4, <3>5, FlattenSeqType
    <2>4. fifoDmas' \in Seq(DOMAIN fifos)
      <3> DEFINE n == Len(fifos)
                 D == DOMAIN fifos
                 ds == [k \in D |-> IF RequiresDMAs(fifos[k]) THEN <<k>> ELSE <<>>]
      <3>1. n \in Nat /\ D = 1 .. n
        BY <2>1
      <3> HIDE DEF n, D
      <3>2. \A k \in D : <<k>> \in Seq(D) /\ <<>> \in Seq(D)
        OBVIOUS
      <3>3. ds \in [1 .. n -> Seq(D)]
        BY <3>1, <3>2
      <3>4. ds \in Seq(Seq(D))
        <4> HIDE DEF ds
        <4> QED BY <3>1, <3>3
      <3>5. fifoDmas' = FlattenSeq(ds)
        BY <1>1 DEF D
      <3> HIDE DEF ds
      <3>6. FlattenSeq(ds) \in Seq(D)
        BY <3>4, FlattenSeqType
      <3> QED BY <3>5, <3>6 DEF D
    <2>5. channels' \in [Tiles \X Directions -> Nat]
      <3>1. BdProgramOK
        BY <1>4 DEF BdInit
      <3>2. \A x \in Tiles \X Directions : Cardinality(StartsIn(x[1], x[2])) \in Nat
        BY <3>1, StartsCounted
      <3> QED BY <1>1, <3>2 DEF ChannelsUsed, Directions
    <2>6. locksPerTile' \in [Tiles -> SUBSET Nat]
      <3>1. \A i \in DOMAIN lockOps : lockOps[i].id \in Nat
        <4>1. LocksDistinct
          BY <1>4, DistinctByInv
        <4> QED BY <4>1, <1>1, NumLocksType DEF LocksDistinct
      <3>2. \A t \in Tiles : LockIDsOf(t) \in SUBSET Nat
        BY <3>1 DEF LockIDsOf
      <3> QED BY <1>1, <3>2
    <2>7. (fifoEnds \in Seq([tile : declared, depth : Nat \ {0}, size : Nat \ {0}]))'
      BY <2>2, <2>3 DEF End
    <2>8. fifos' \in Seq(FifoOp') /\ fifoDmas' \in Seq(DOMAIN fifos')
      BY <1>1, <2>1, <2>2, <2>4
    <2>9. fifos' # <<>> => \A m \in DOMAIN memOps' : memOps'[m].inBlocks
      BY <1>1, <1>2, <2>1
    <2> QED BY <2>5, <2>6, <2>7, <2>8, <2>9 DEF FifosTyped
  <1> QED BY <1>5, <1>6, <1>7, <1>8 DEF PipelineInv
-----------------------------------------------------------------------------
(* Two free locks of a tile, as getLockID hands them out.                  *)
LEMMA TwoFreeLocks ==
    ASSUME NEW t, Cardinality(FreeLocks(t)) >= 2
    PROVE  LET a == Lowest(FreeLocks(t))
               b == Lowest(FreeLocks(t) \ {a})
           IN  a \in FreeLocks(t) /\ b \in FreeLocks(t) /\ a # b
  <1> DEFINE free == FreeLocks(t)
             a == Lowest(free)
             b == Lowest(free \ {a})
  <1>1. free \in SUBSET Nat /\ IsFiniteSet(free)
    <2>1. 0 \in Int /\ NumLocks(t) - 1 \in Int
      BY NumLocksType
    <2>2. IsFiniteSet(0 .. (NumLocks(t) - 1))
      BY <2>1, FS_Interval
    <2> QED BY <2>1, <2>2, FS_Subset DEF FreeLocks
  <1> HIDE DEF free
  <1>2. \A S \in SUBSET Nat : S # {} => Lowest(S) \in S
    <2> SUFFICES ASSUME NEW S \in SUBSET Nat, S # {} PROVE Lowest(S) \in S
      OBVIOUS
    <2>1. \E n \in S : \A m \in S : n <= m
      BY LeastNumber
    <2> QED BY <2>1 DEF Lowest
  <1>3. Cardinality(free) >= 2
    BY DEF free
  <1>4. free # {}
    BY <1>3, FS_EmptySet
  <1>5. a \in free
    BY <1>1, <1>2, <1>4
  <1> HIDE DEF a
  <1>6. free \ {a} # {}
    <2>1. Cardinality(free \ {a}) = Cardinality(free) - 1 /\ IsFiniteSet(free \ {a})
      BY <1>1, <1>5, FS_RemoveElement
    <2>2. Cardinality(free) \in Nat
      BY <1>1, FS_CardinalityType
    <2>3. Cardinality(free \ {a}) # 0
      BY <1>3, <2>1, <2>2
    <2> QED BY <2>3, FS_EmptySet
  <1>7. b \in free \ {a}
    <2>1. free \ {a} \in SUBSET Nat
      BY <1>1
    <2> QED BY <1>2, <1>6, <2>1
  <1> QED BY <1>5, <1>7 DEF a, free

(* The two locks of an end are new in its tile.                            *)
LEMMA LocksOfEnd ==
    ASSUME LocksKept, lockResult = "success", lockResult' = lockResult, walked' = walked,
           assigned' = assigned, nextLockID' = nextLockID,
           NEW t \in Tiles, NEW a, NEW b, a # b,
           {a, b} \subseteq 0 .. (NumLocks(t) - 1), {a, b} \cap LockIDsOf(t) = {},
           lockOps' = lockOps \o <<[tile |-> t, id |-> a], [tile |-> t, id |-> b]>>
    PROVE  /\ LockTypeOK' /\ LocksDistinct' /\ LocksExhaustedRightly'
           /\ LockIDsOf(t)' = LockIDsOf(t) \cup {a, b}
           /\ \A u \in Tiles \ {t} : LockIDsOf(u)' = LockIDsOf(u)
  <1> DEFINE n == Len(lockOps)
             p == [tile |-> t, id |-> a]
             q == [tile |-> t, id |-> b]
  <1>1. /\ lockOps \in Seq(LockOp) /\ walked \in 0 .. n /\ n \in Nat
        /\ DOMAIN lockOps = 1 .. n
    BY DEF LocksKept, LockTypeOK
  <1>2. p \in LockOp /\ q \in LockOp /\ a \in Nat /\ b \in Nat
    BY NumLocksType DEF LockOp
  <1>3. p.tile = t /\ p.id = a /\ q.tile = t /\ q.id = b
    OBVIOUS
  <1> HIDE DEF p, q
  <1>4. /\ lockOps' \in Seq(LockOp) /\ Len(lockOps') = n + 2 /\ DOMAIN lockOps' = 1 .. (n + 2)
        /\ \A i \in 1 .. n : lockOps'[i] = lockOps[i]
        /\ lockOps'[n + 1] = p /\ lockOps'[n + 2] = q
    <2>1. <<p, q>> \in Seq(LockOp) /\ Len(<<p, q>>) = 2
      BY <1>2
    <2>2. lockOps' = lockOps \o <<p, q>>
      BY DEF p, q
    <2>3. lockOps' \in Seq(LockOp) /\ Len(lockOps') = n + 2
      BY <1>1, <2>1, <2>2
    <2> QED BY <1>1, <2>1, <2>2, <2>3
  <1>0. \A i \in DOMAIN lockOps' : i \in 1 .. n \/ i \in {n + 1, n + 2}
    <2>1. DOMAIN lockOps' = 1 .. (n + 2) /\ n \in Nat
      BY <1>1, <1>4
    <2> QED BY <2>1
  <1>5. LockTypeOK'
    <2>1. walked' \in 0 .. Len(lockOps')
      BY <1>1, <1>4
    <2> QED BY <1>4, <2>1 DEF LocksKept, LockTypeOK
  <1>6. LocksExhaustedRightly'
    BY DEF LocksExhaustedRightly
  <1>7. \A u \in Tiles \ {t} : LockIDsOf(u)' = LockIDsOf(u)
    <2> SUFFICES ASSUME NEW u \in Tiles \ {t} PROVE LockIDsOf(u)' = LockIDsOf(u)
      OBVIOUS
    <2>1. {j \in DOMAIN lockOps' : lockOps'[j].tile = u} = {j \in DOMAIN lockOps : lockOps[j].tile = u}
      <3>1. ASSUME NEW j \in DOMAIN lockOps', lockOps'[j].tile = u PROVE j \in 1 .. n
        BY <1>1, <1>3, <1>4, <3>1
      <3> QED BY <1>1, <1>4, <3>1
    <2> QED BY <2>1, <1>1, <1>4 DEF LockIDsOf
  <1>8. LockIDsOf(t)' = LockIDsOf(t) \cup {a, b}
    <2>1. ASSUME NEW x \in LockIDsOf(t)' PROVE x \in LockIDsOf(t) \cup {a, b}
      <3>1. PICK i \in DOMAIN lockOps' : lockOps'[i].tile = t /\ x = lockOps'[i].id
        BY <2>1 DEF LockIDsOf
      <3>2. CASE i \in 1 .. n
        BY <3>1, <3>2, <1>1, <1>4 DEF LockIDsOf
      <3>3. CASE i \in {n + 1, n + 2}
        BY <3>1, <3>3, <1>3, <1>4
      <3> QED BY <3>2, <3>3, <1>0
    <2>2. LockIDsOf(t) \subseteq LockIDsOf(t)'
      <3>1. \A i \in 1 .. n : i \in DOMAIN lockOps' /\ lockOps'[i] = lockOps[i]
        BY <1>1, <1>4
      <3> QED BY <3>1, <1>1 DEF LockIDsOf
    <2>3. a \in LockIDsOf(t)' /\ b \in LockIDsOf(t)'
      <3>1. n + 1 \in DOMAIN lockOps' /\ n + 2 \in DOMAIN lockOps'
        BY <1>1, <1>4
      <3>2. lockOps'[n + 1].tile = t /\ lockOps'[n + 1].id = a
            /\ lockOps'[n + 2].tile = t /\ lockOps'[n + 2].id = b
        BY <1>3, <1>4
      <3> QED BY <3>1, <3>2 DEF LockIDsOf
    <2> QED BY <2>1, <2>2, <2>3
  <1>9. LocksDistinct'
    <2>1. /\ \A i \in DOMAIN lockOps : lockOps[i].id \in 0 .. (NumLocks(lockOps[i].tile) - 1)
          /\ \A i, j \in DOMAIN lockOps :
                i # j /\ lockOps[i].tile = lockOps[j].tile => lockOps[i].id # lockOps[j].id
      BY DEF LocksKept, LocksDistinct
    <2>2. \A i \in DOMAIN lockOps : lockOps[i].tile = t => lockOps[i].id \notin {a, b}
      BY DEF LockIDsOf
    <2>3. ASSUME NEW i \in DOMAIN lockOps'
          PROVE  lockOps'[i].id \in 0 .. (NumLocks(lockOps'[i].tile) - 1)
      <3>1. CASE i \in 1 .. n
        BY <3>1, <1>1, <1>4, <2>1
      <3>2. CASE i \in {n + 1, n + 2}
        BY <3>2, <1>3, <1>4
      <3> QED BY <3>1, <3>2, <1>0
    <2>4. ASSUME NEW i \in DOMAIN lockOps', NEW j \in DOMAIN lockOps',
                 i # j, lockOps'[i].tile = lockOps'[j].tile
          PROVE  lockOps'[i].id # lockOps'[j].id
      <3>1. CASE i \in 1 .. n /\ j \in 1 .. n
        BY <3>1, <2>4, <1>1, <1>4, <2>1
      <3>2. CASE i \in 1 .. n /\ j \in {n + 1, n + 2}
        BY <3>2, <2>4, <1>1, <1>3, <1>4, <2>2
      <3>3. CASE i \in {n + 1, n + 2} /\ j \in 1 .. n
        BY <3>3, <2>4, <1>1, <1>3, <1>4, <2>2
      <3>4. CASE i \in {n + 1, n + 2} /\ j \in {n + 1, n + 2}
        BY <3>4, <2>4, <1>3, <1>4
      <3> QED BY <3>1, <3>2, <3>3, <3>4, <1>0
    <2> QED BY <2>3, <2>4 DEF LocksDistinct
  <1> QED BY <1>5, <1>6, <1>7, <1>8, <1>9

(* Its buffers have no wishes.                                             *)
LEMMA BuffersOfEnd ==
    ASSUME BufInit, tilesLeft = tileOps, NEW t \in declared, NEW n \in Nat,
           NEW size \in Nat \ {0},
           UNCHANGED <<stack, basic, tilesLeft, inTile, nextAddr, unchecked, waiting,
                       bankIndex, bufResult>>,
           LET b == [tile |-> t, size |-> size, addr |-> NoAddress, bank |-> NoBank]
           IN  bufs' = [k \in 1 .. n |-> b] \o bufs
    PROVE  BufInit'
  <1> DEFINE b == [tile |-> t, size |-> size, addr |-> NoAddress, bank |-> NoBank]
             new == [k \in 1 .. n |-> b]
  <1>1. bufs \in Seq(Buf) /\ tilesLeft \in Seq(Tiles)
    BY DEF BufInit
  <1>2. \E k \in DOMAIN tilesLeft : tilesLeft[k] = t
    BY DEF declared, ToSet
  <1>3. b \in Buf /\ b.tile = t
    BY <1>1, <1>2 DEF Buf
  <1> HIDE DEF b
  <1>4. new \in Seq(Buf) /\ Len(new) = n /\ \A k \in 1 .. n : new[k].tile = t
    BY <1>3
  <1> HIDE DEF new
  <1>5. bufs' = new \o bufs
    BY DEF b, new
  <1>6. bufs' \in Seq(Buf) /\ DOMAIN bufs' = 1 .. (n + Len(bufs)) /\ Len(bufs) \in Nat
    BY <1>1, <1>4, <1>5
  <1>7. ASSUME NEW i \in DOMAIN bufs'
        PROVE  \E k \in DOMAIN tilesLeft : tilesLeft[k] = bufs'[i].tile
    <2>1. CASE i \in 1 .. n
      <3>1. bufs'[i] = new[i]
        BY <2>1, <1>1, <1>4, <1>5
      <3> QED BY <3>1, <2>1, <1>2, <1>4
    <2>2. CASE i \notin 1 .. n
      <3>1. i \in (n + 1) .. (n + Len(bufs)) /\ i - n \in 1 .. Len(bufs)
        BY <2>2, <1>6
      <3>2. bufs'[i] = bufs[i - n] /\ i - n \in DOMAIN bufs
        BY <3>1, <1>1, <1>4, <1>5
      <3>3. bufs[i - n].tile \in {tilesLeft[k] : k \in DOMAIN tilesLeft}
        BY <3>2 DEF BufInit
      <3> QED BY <3>2, <3>3
    <2> QED BY <2>1, <2>2
  <1>8. /\ stack' = stack /\ basic' = basic /\ tilesLeft' = tilesLeft
        /\ inTile' = inTile /\ nextAddr' = nextAddr /\ unchecked' = unchecked
        /\ waiting' = waiting /\ bankIndex' = bankIndex /\ bufResult' = bufResult
    OBVIOUS
  <1>9. \A i \in DOMAIN bufs' : \E k \in DOMAIN tilesLeft' : bufs'[i].tile = tilesLeft'[k]
    BY <1>7, <1>8
  <1>10. (stack \in [Tiles -> Nat] /\ basic \in BOOLEAN /\ tilesLeft \in Seq(Tiles) \ {<<>>})'
    BY <1>8 DEF BufInit
  <1>11. (/\ inTile = FALSE /\ nextAddr = <<>> /\ unchecked = {} /\ waiting = {}
          /\ bankIndex = 0 /\ bufResult = "running"
          /\ \A k, l \in DOMAIN tilesLeft : tilesLeft[k] = tilesLeft[l] => k = l)'
    BY <1>8 DEF BufInit
  <1>12. ({bufs[i].tile : i \in DOMAIN bufs} \subseteq {tilesLeft[k] : k \in DOMAIN tilesLeft})'
    BY <1>9
  <1> QED BY <1>6, <1>10, <1>11, <1>12 DEF BufInit

LEMMA CreateElementsKeeps ==
    PipelineInv /\ TransformObjectFifos /\ CreateElements => PipelineInv'
  <1> SUFFICES ASSUME PipelineInv, TransformObjectFifos, CreateElements PROVE PipelineInv'
    OBVIOUS
  <1>0. PICK e : e = Head(fifoEnds)
    OBVIOUS
  <1> DEFINE t == e.tile
             free == FreeLocks(t)
             low == Lowest(free)
             next == Lowest(free \ {low})
             buf == [tile |-> t, size |-> e.size, addr |-> NoAddress, bank |-> NoBank]
             buffers == IF IsShim(t) THEN <<>> ELSE [k \in 1 .. e.depth |-> buf]
             n == IF IsShim(t) THEN 0 ELSE e.depth
  <1>1. /\ fifoResult = "elements" /\ fifoEnds # <<>> /\ fifoEnds' = Tail(fifoEnds)
        /\ UNCHANGED <<fifos, fifoDmas, channels>>
        /\ \/ fifoResult' = "crash" /\ UNCHANGED <<lockOps, bufs, locksPerTile>>
           \/ /\ Cardinality(free) >= 2
              /\ lockOps' = lockOps \o <<[tile |-> t, id |-> low], [tile |-> t, id |-> next]>>
              /\ bufs' = buffers \o bufs
              /\ locksPerTile' = [locksPerTile EXCEPT ![t] = @ \cup {low, next}]
              /\ fifoResult' \in {"dmas", "elements"}
    <2>1. Cardinality(free) < 2 \/ Cardinality(free) >= 2
      <3>1. free \subseteq 0 .. (NumLocks(t) - 1)
        BY DEF FreeLocks
      <3>2. 0 \in Int /\ NumLocks(t) - 1 \in Int
        BY NumLocksType
      <3>3. IsFiniteSet(0 .. (NumLocks(t) - 1))
        BY <3>2, FS_Interval
      <3>4. Cardinality(free) \in Nat
        BY <3>1, <3>3, FS_Subset, FS_CardinalityType
      <3> QED BY <3>4
    <2> QED BY <1>0, <2>1 DEF CreateElements
  <1>2. /\ UNCHANGED <<walked, assigned, nextLockID, lockResult>> /\ UNCHANGED bdVars
        /\ UNCHANGED <<stack, basic, tilesLeft, inTile, nextAddr, unchecked, waiting,
                       bankIndex, bufResult>>
        /\ UNCHANGED <<overlayStage, tileOps, userBDs, localLocks>>
    <2>1. UNCHANGED <<memOps, bdOps>>
      BY <1>1 DEF TransformObjectFifos, SplitFifos, CreateElements, CreateDMAs, EndFifoPass
    <2> QED BY <2>1 DEF TransformObjectFifos, bdVars, overlayVars
  <1>3. /\ LocksKept /\ BdInit /\ BufInit /\ overlayStage = "broadcast" /\ tilesLeft = tileOps
        /\ localLocks = <<>> /\ lockResult = "success" /\ lockResult' = "success"
        /\ \A u \in Tiles : locksPerTile[u] = LockIDsOf(u)
    BY <1>1, <1>2 DEF PipelineInv, LocksKept, LaterPassesWait
  <1>4. /\ fifos \in Seq(FifoOp) /\ fifoDmas \in Seq(DOMAIN fifos)
        /\ fifos # <<>> => \A m \in DOMAIN memOps : memOps[m].inBlocks
        /\ fifoEnds \in Seq(End) /\ channels \in [Tiles \X Directions -> Nat]
        /\ locksPerTile \in [Tiles -> SUBSET Nat]
    BY <1>1 DEF PipelineInv, FifosTyped, End
  <1>5. e \in End /\ fifoEnds' \in Seq(End)
    <2>1. fifoEnds \in Seq(End) /\ fifoEnds # <<>>
      BY <1>1, <1>4
    <2>2. Head(fifoEnds) \in End /\ Tail(fifoEnds) \in Seq(End)
      BY <2>1
    <2> QED BY <2>2, <1>0, <1>1
  <1>6. /\ t \in declared /\ t \in Tiles /\ e.depth \in Nat \ {0} /\ e.size \in Nat \ {0}
        /\ n \in Nat
    <2>1. t \in declared /\ e.depth \in Nat \ {0} /\ e.size \in Nat \ {0}
      BY <1>5 DEF End
    <2>2. declared \subseteq Tiles
      BY <1>3 DEF BufInit, declared, ToSet
    <2> QED BY <2>1, <2>2
  <1>7. BdInit' /\ BdInv' /\ LocalLocksUnambiguous' /\ ReachKept'
    BY <1>1, <1>2, <1>3, BdInitStays, BdStutterInv, LocalLocksStay, ReachStays
       DEF PipelineInv
  <1>8. End' = End /\ FifoOp' = FifoOp
    BY <1>2 DEF End, FifoOp, declared
  <1>9. ASSUME locksPerTile' \in [Tiles -> SUBSET Nat] PROVE FifosTyped'
    <2>1. (fifoEnds \in Seq([tile : declared, depth : Nat \ {0}, size : Nat \ {0}]))'
      BY <1>5, <1>8 DEF End
    <2>2. memOps' = memOps
      BY <1>2 DEF bdVars
    <2>3. (fifos \in Seq(FifoOp) /\ fifoDmas \in Seq(DOMAIN fifos)
           /\ channels \in [Tiles \X Directions -> Nat])'
      BY <1>1, <1>4, <1>8
    <2>4. (fifos # <<>> => \A m \in DOMAIN memOps : memOps[m].inBlocks)'
      BY <1>1, <1>4, <2>2
    <2> QED BY <1>9, <2>1, <2>3, <2>4 DEF FifosTyped
  <1>10. CASE fifoResult' = "crash" /\ UNCHANGED <<lockOps, bufs, locksPerTile>>
    <2>1. UNCHANGED lockVars /\ UNCHANGED bufVars
      BY <1>2, <1>10 DEF lockVars, bufVars
    <2>2. LockTypeOK' /\ LocksDistinct' /\ LocksExhaustedRightly'
      BY <2>1, <1>3 DEF LocksKept, lockVars, LockTypeOK, LocksDistinct,
                        LocksExhaustedRightly, Unassigned
    <2>3. LocksKept'
      BY <2>2, <1>3, <1>10 DEF LocksKept
    <2>4. BufInit' /\ BufInv'
      BY <2>1, <1>3, BufInitStays, BufStutterInv DEF PipelineInv
    <2>5. LaterPassesWait'
      BY <2>4, <1>2, <1>3, <1>7 DEF LaterPassesWait
    <2>6. FifosTyped'
      BY <1>4, <1>9, <1>10
    <2> QED BY <2>3, <2>4, <2>5, <2>6, <1>7 DEF PipelineInv
  <1>11. CASE /\ Cardinality(free) >= 2
              /\ lockOps' = lockOps \o <<[tile |-> t, id |-> low], [tile |-> t, id |-> next]>>
              /\ bufs' = buffers \o bufs
              /\ locksPerTile' = [locksPerTile EXCEPT ![t] = @ \cup {low, next}]
              /\ fifoResult' \in {"dmas", "elements"}
    <2>1. PICK a \in free, b \in free : a = low /\ b = next /\ a # b
      <3>1. low \in free /\ next \in free /\ low # next
        BY <1>11, TwoFreeLocks
      <3> HIDE DEF low, next, free
      <3> QED BY <3>1
    <2>0. /\ lockOps' = lockOps \o <<[tile |-> t, id |-> a], [tile |-> t, id |-> b]>>
          /\ locksPerTile' = [locksPerTile EXCEPT ![t] = @ \cup {a, b}]
      BY <1>11, <2>1
    <2> HIDE DEF low, next, free, t
    <2>2. /\ {a, b} \subseteq 0 .. (NumLocks(t) - 1) /\ {a, b} \cap LockIDsOf(t) = {}
          /\ a \in Nat /\ b \in Nat
      BY <2>1, <1>3, <1>6, NumLocksType DEF free, FreeLocks
    <2>3. /\ LockTypeOK' /\ LocksDistinct' /\ LocksExhaustedRightly'
          /\ LockIDsOf(t)' = LockIDsOf(t) \cup {a, b}
          /\ \A u \in Tiles \ {t} : LockIDsOf(u)' = LockIDsOf(u)
      BY <2>0, <2>1, <2>2, <1>2, <1>3, <1>6, LocksOfEnd
    <2>4. \A u \in Tiles : locksPerTile'[u] = LockIDsOf(u)'
      BY <2>0, <2>3, <1>3, <1>4, <1>6
    <2>5. LocksKept'
      <3>1. fifoResult' # "split"
        BY <1>11
      <3> QED BY <2>3, <2>4, <3>1, <1>3 DEF LocksKept
    <2>6. BufInit'
      <3>1. buffers = [k \in 1 .. n |-> buf]
        <4>1. CASE IsShim(t)
          BY <4>1
        <4>2. CASE ~ IsShim(t)
          BY <4>2
        <4> QED BY <4>1, <4>2
      <3>2. buf = [tile |-> t, size |-> e.size, addr |-> NoAddress, bank |-> NoBank]
            /\ bufs' = [k \in 1 .. n |-> buf] \o bufs
        BY <3>1, <1>11
      <3> HIDE DEF n, buffers, buf
      <3> QED BY <3>2, <1>2, <1>3, <1>6, BuffersOfEnd
    <2>7. BufInv'
      BY <2>6, BufInitInv, PTL
    <2>8. LaterPassesWait'
      BY <2>6, <1>2, <1>3, <1>7 DEF LaterPassesWait
    <2>9. locksPerTile' \in [Tiles -> SUBSET Nat]
      BY <2>0, <2>2, <1>4, <1>6
    <2>10. FifosTyped'
      BY <2>9, <1>9
    <2> QED BY <2>5, <2>7, <2>8, <2>10, <1>7 DEF PipelineInv
  <1> QED BY <1>1, <1>10, <1>11

LEMMA CreateDMAsKeeps ==
    PipelineInv /\ TransformObjectFifos /\ CreateDMAs => PipelineInv'
  <1> SUFFICES ASSUME PipelineInv, TransformObjectFifos, CreateDMAs PROVE PipelineInv'
    OBVIOUS
  <1> DEFINE f == fifos[Head(fifoDmas)]
             done == DmasOf(f)
  <1>1. /\ fifoResult = "dmas" /\ fifoDmas # <<>> /\ fifoDmas' = Tail(fifoDmas)
        /\ channels' = done.channels /\ memOps' = done.prog.memOps /\ bdOps' = done.prog.bdOps
        /\ UNCHANGED <<fifos, locksPerTile, fifoEnds, fifoResult>>
    BY DEF CreateDMAs
  <1>2. /\ UNCHANGED lockVars /\ UNCHANGED bufVars
        /\ UNCHANGED <<mem, bdIDsTaken, bdChannel, start, block, bdResult>>
        /\ UNCHANGED <<overlayStage, tileOps, userBDs, localLocks>>
    <2>1. UNCHANGED <<lockOps, bufs>>
      BY <1>1 DEF TransformObjectFifos, SplitFifos, CreateElements, CreateDMAs, EndFifoPass
    <2> QED BY <2>1 DEF TransformObjectFifos, lockVars, bufVars, overlayVars
  <1>3. /\ LocksKept /\ BdInit /\ BufInit /\ overlayStage = "broadcast" /\ tilesLeft = tileOps
        /\ localLocks = <<>>
        /\ \A i \in DOMAIN bdOps : bdOps[i].id # NoBdID => i \in userBDs
    BY <1>1 DEF PipelineInv, LaterPassesWait, ReachKept
  <1>4. /\ fifos \in Seq(FifoOp) /\ fifoDmas \in Seq(DOMAIN fifos)
        /\ fifos # <<>> => \A m \in DOMAIN memOps : memOps[m].inBlocks
        /\ fifoEnds \in Seq(End) /\ channels \in [Tiles \X Directions -> Nat]
        /\ locksPerTile \in [Tiles -> SUBSET Nat]
    BY <1>1 DEF PipelineInv, FifosTyped, End
  <1>5. f \in FifoOp /\ fifos # <<>> /\ fifoDmas' \in Seq(DOMAIN fifos)
    <2>1. Head(fifoDmas) \in DOMAIN fifos /\ Tail(fifoDmas) \in Seq(DOMAIN fifos)
      BY <1>1, <1>4
    <2> QED BY <2>1, <1>1, <1>4
  <1>6. DmaProgram(memOps, bdOps)
    BY <1>3, <1>4, <1>5, BdInitIsDmaProgram
  <1> HIDE DEF f
  <1>7. done \in DmaStates
    BY <1>4, <1>5, <1>6, FifoDmas
  <1> HIDE DEF done
  <1>8. /\ channels' \in [Tiles \X Directions -> Nat]
        /\ DmaProgram(memOps, bdOps)'
    <2>1. done.channels \in [Tiles \X Directions -> Nat]
          /\ DmaProgram(done.prog.memOps, done.prog.bdOps)
      BY <1>7 DEF DmaStates
    <2>2. PICK ms, bs : /\ ms = done.prog.memOps /\ ms = memOps'
                        /\ bs = done.prog.bdOps /\ bs = bdOps'
      BY <1>1
    <2>3. DmaProgram(ms, bs) /\ userBDs' = userBDs
      BY <2>1, <2>2, <1>2
    <2>4. DmaProgram(memOps, bdOps)'
      BY <2>2, <2>3 DEF DmaProgram, BdIn
    <2> QED BY <2>1, <2>4, <1>1
  <1>9. (DmaProgram(memOps, bdOps) =>
            /\ BdProgramOK
            /\ \A i \in DOMAIN bdOps : /\ bdOps[i].next = NoBdID
                                       /\ bdOps[i].id # NoBdID => i \in userBDs)'
    <2>1. DmaProgram(memOps, bdOps) =>
              /\ BdProgramOK
              /\ \A i \in DOMAIN bdOps : /\ bdOps[i].next = NoBdID
                                         /\ bdOps[i].id # NoBdID => i \in userBDs
      BY DmaProgramIsBdProgram
    <2> QED BY DmaProgramIsBdProgram, PTL
  <1>10. BdInit' /\ (\A i \in DOMAIN bdOps : bdOps[i].id # NoBdID => i \in userBDs)'
    BY <1>2, <1>3, <1>8, <1>9 DEF BdInit
  <1>11. BdInv' /\ ReachKept'
    <2>1. BdInv'
      BY <1>10, BdInitInv, PTL
    <2>2. (BdInit /\ (\A i \in DOMAIN bdOps : bdOps[i].id # NoBdID => i \in userBDs)
             => ReachKept)'
      <3>1. BdInit /\ (\A i \in DOMAIN bdOps : bdOps[i].id # NoBdID => i \in userBDs)
              => ReachKept
        BY ReachBegins
      <3> QED BY ReachBegins, PTL
    <2> QED BY <1>10, <2>1, <2>2
  <1>12. LocksKept' /\ BufInit' /\ BufInv' /\ LocalLocksUnambiguous'
    BY <1>1, <1>2, <1>3, LocksStay, BufInitStays, BufStutterInv, LocalLocksStay DEF PipelineInv
  <1>13. LaterPassesWait'
    <2>1. tilesLeft' = tilesLeft
      BY <1>2 DEF bufVars
    <2> QED BY <2>1, <1>2, <1>3, <1>10, <1>12 DEF LaterPassesWait
  <1>14. FifosTyped'
    <2>1. End' = End /\ FifoOp' = FifoOp
      BY <1>2 DEF End, FifoOp, declared
    <2>2. (fifoEnds \in Seq([tile : declared, depth : Nat \ {0}, size : Nat \ {0}]))'
      BY <1>1, <1>4, <2>1 DEF End
    <2>3. (\A m \in DOMAIN memOps : memOps[m].inBlocks)'
      BY <1>8 DEF DmaProgram
    <2>4. (fifos \in Seq(FifoOp) /\ fifoDmas \in Seq(DOMAIN fifos)
           /\ locksPerTile \in [Tiles -> SUBSET Nat])'
      BY <1>1, <1>4, <1>5, <2>1
    <2> QED BY <1>8, <2>2, <2>3, <2>4 DEF FifosTyped
  <1> QED BY <1>11, <1>12, <1>13, <1>14 DEF PipelineInv

LEMMA TransformObjectFifosKeeps == PipelineInv /\ TransformObjectFifos => PipelineInv'
  BY SplitFifosKeeps, CreateElementsKeeps, CreateDMAsKeeps, EndFifoPassKeeps
     DEF TransformObjectFifos

LEMMA PipelineStep == PipelineInv /\ [Next]_pipelineVars => PipelineInv'
  BY AssignLockIDsKeeps, TransformObjectFifosKeeps, AssignBufferDescriptorIDsKeeps,
     LowerFlowsKeeps, AssignBufferAddressesKeeps, LocalizeLocksKeeps,
     CreatePathfinderFlowsKeeps, PipelineStutter DEF Next
-----------------------------------------------------------------------------
(* Whatever the passes before it have done, a pass of the pipeline begins  *)
(* in a state that its own proof begins with, and its result lasts.        *)
THEOREM PipelineInvariant == Spec => []PipelineInv
  BY PipelineInit, PipelineStep, PTL DEF Spec

(* What a pass leaves passes the verifiers and is of the form that the next*)
(* ones expect, also when objectFifos have added to it.                    *)
THEOREM PipelineTypeCorrect == Spec => []TypeOK
  <1>1. PipelineInv => TypeOK
    BY DEF PipelineInv, LocksKept, BdInv, BufInv, TypeOK
  <1> QED BY <1>1, PipelineInvariant, PTL

(* The locks of a tile are distinct at the end of the pipeline: those the  *)
(* program numbers, those that aie-assign-lock-ids numbers and those that  *)
(* the objectFifos get afterwards.                                         *)
THEOREM PipelineLocksDistinct == Spec => []LocksDistinct
  <1>1. PipelineInv => LocksDistinct
    BY DEF PipelineInv, LocksKept
  <1> QED BY <1>1, PipelineInvariant, PTL

(* The passes that number locks and descriptors fail only for the lack of a*)
(* free one.                                                               *)
THEOREM PipelineGivesUpRightly == Spec => []GivesUpRightly
  <1>1. PipelineInv => GivesUpRightly
    BY DEF PipelineInv, LocksKept, BdInv, GivesUpRightly
  <1> QED BY <1>1, PipelineInvariant, PTL

(* aie-localize-locks gives two locks that a core can use two numbers,     *)
(* whichever pass has made them.                                           *)
THEOREM LocalNumbersNameOneLock == Spec => []LocalLocksUnambiguous
  <1>1. PipelineInv => LocalLocksUnambiguous
    BY DEF PipelineInv
  <1> QED BY <1>1, PipelineInvariant, PTL

(* The DMAs of the objectFifos, too, run their descriptors in the order of *)
(* their rings.                                                            *)
THEOREM PipelineChainsFollowed == Spec => []ChainsFollowProgram
  <1>1. PipelineInv => ChainsFollowProgram
    BY ChainsByInv DEF PipelineInv
  <1> QED BY <1>1, PipelineInvariant, PTL

(* A channel reaches the identifier of every descriptor that it runs and   *)
(* the pass identified, in a DMA of the program or of an objectFifo, unless*)
(* channels of both halves of a memtile share the descriptor.              *)
THEOREM PipelineBdsReachable == Spec => []BdsReachable
  <1>1. PipelineInv => BdsReachable
    BY ReachableByInv DEF PipelineInv, ReachKept, BdsReachable
  <1> QED BY <1>1, PipelineInvariant, PTL

(* The buffers of the objectFifos lie apart from those of the program.     *)
THEOREM PipelineBuffersApart == Spec => []BuffersDisjoint
  <1>1. PipelineInv => BuffersDisjoint
    BY ApartByInv DEF PipelineInv
  <1> QED BY <1>1, PipelineInvariant, PTL

(* And in the banks that they are said to lie in.                          *)
THEOREM PipelineBuffersInBanks == Spec => []BanksMatchAddresses
  <1>1. PipelineInv => BanksMatchAddresses
    BY InBanksByInv DEF PipelineInv
  <1> QED BY <1>1, PipelineInvariant, PTL

-----------------------------------------------------------------------------
(* The flows that the passes before the router have written, and the tiles *)
(* that their ends lie in.                                                 *)
PacketFlows(I) == [id : I, prio : BOOLEAN, src : PathEndPoint, dsts : Seq(PathEndPoint)]
CircuitFlows == [src : PathEndPoint, dst : PathEndPoint]
BroadcastIDs == [id : Nat, dsts : Seq(PathEndPoint)]

FlowsTyped == (\E I : pktFlows \in Seq(PacketFlows(I))) /\ circuits \in Seq(CircuitFlows)

OverlayTyped ==
    /\ broadcasts \in Seq([src : PathEndPoint, bpids : Seq(BroadcastIDs)])
    /\ multicasts \in Seq([src : PathEndPoint, dsts : Seq(PathEndPoint)])
    /\ tileOps \in Seq(Tiles)
    /\ columnsLeft \subseteq 0 .. (Columns - 1)

(* The router begins when all flows are written.                           *)
RouterWaits ==
    /\ overlayStage # "done" => bufResult # "success" /\ localLocks = <<>> /\ OverlayTyped
    /\ localLocks = <<>> => routeResult = "collect"

RouterKept == RouteInv /\ FlowsTyped /\ RouterWaits


-----------------------------------------------------------------------------
LEMMA FlowsAreInputs == FlowsTyped => RouteInputs
  <1> SUFFICES ASSUME FlowsTyped PROVE RouteInputs
    OBVIOUS
  <1>1. \A R, s : s \in Seq(R) => /\ Len(s) \in Nat /\ DOMAIN s = 1 .. Len(s)
                                  /\ \A n \in DOMAIN s : s[n] \in R
    OBVIOUS
  <1>2. PICK I : pktFlows \in Seq(PacketFlows(I))
    BY DEF FlowsTyped
  <1>3. circuits \in Seq(CircuitFlows)
    BY DEF FlowsTyped
  <1>4. \A f \in PacketFlows(I) : /\ f.src \in PathEndPoint /\ f.prio \in BOOLEAN
                                  /\ f.dsts \in Seq(PathEndPoint)
    BY DEF PacketFlows
  <1>5. \A f \in CircuitFlows : f.src \in PathEndPoint /\ f.dst \in PathEndPoint
    BY DEF CircuitFlows
  <1> QED BY <1>1, <1>2, <1>3, <1>4, <1>5 DEF RouteInputs

(* While flows are only collected, more of them make no difference.        *)
LEMMA MoreFlows ==
    ASSUME RouteInv, routeResult = "collect", FlowsTyped',
           UNCHANGED <<maxCol, maxRow, fixed, routes, usage, iteration, routed, solution, routeResult>>
    PROVE  RouteInv'
  <1>1. RouteInputs'
    <2>1. FlowsTyped => RouteInputs
      BY FlowsAreInputs
    <2> QED BY <2>1, FlowsAreInputs, PTL
  <1>2. /\ routes = <<>> /\ usage = <<>> /\ routed = 0 /\ solution = <<>> /\ 1 .. routed = {}
        /\ RouterTyped
    BY DEF RouteInv, RouterTyped
  <1>3. RouterTyped'
    BY <1>2 DEF RouterTyped
  <1>4. FlowsServed'
    BY DEF FlowsServed
  <1>5. Solved' /\ Arrived'
    BY <1>2 DEF Solved, Arrived
  <1>6. Counted'
    BY <1>2, NothingUsed DEF Counted, NothingPending
  <1> QED BY <1>1, <1>3, <1>4, <1>5, <1>6 DEF RouteInv

LEMMA PacketFlowType ==
    ASSUME NEW I, NEW id \in I, NEW prio \in BOOLEAN, NEW src \in PathEndPoint,
           NEW dsts \in Seq(PathEndPoint)
    PROVE  PacketFlow(id, prio, src, dsts) \in PacketFlows(I)
  BY DEF PacketFlow, PacketFlows

LEMMA ReverseType ==
    ASSUME NEW U, NEW s \in Seq(U)
    PROVE  Reverse(s) \in Seq(U)
  <1> DEFINE N == Len(s)
  <1>1. N \in Nat /\ \A i \in 1 .. N : s[i] \in U
    OBVIOUS
  <1>2. \A i \in 1 .. N : (N - i) + 1 \in 1 .. N
    BY <1>1
  <1>3. Reverse(s) = [i \in 1 .. N |-> s[(N - i) + 1]]
    BY DEF Reverse
  <1> HIDE DEF N
  <1>4. Reverse(s) \in [1 .. N -> U]
    BY <1>1, <1>2, <1>3
  <1> QED BY <1>1, <1>4, SeqOfLength

LEMMA MappedType ==
    ASSUME NEW U, NEW V, NEW s \in Seq(U), NEW t, DOMAIN t = DOMAIN s,
           t = [k \in DOMAIN s |-> t[k]], \A k \in DOMAIN s : t[k] \in V
    PROVE  t \in Seq(V)
  <1>1. Len(s) \in Nat /\ DOMAIN s = 1 .. Len(s)
    OBVIOUS
  <1>2. t \in [1 .. Len(s) -> V]
    BY <1>1
  <1> QED BY <1>1, <1>2, SeqOfLength

-----------------------------------------------------------------------------
LEMMA RouterInit == Init => RouterKept
  <1> SUFFICES ASSUME Init PROVE RouterKept
    OBVIOUS
  <1>1. /\ RouteInit /\ OverlayInit /\ BufInit /\ localLocks = <<>> /\ tilesLeft = tileOps
    BY DEF Init, Load
  <1>2. RouteInv /\ routeResult = "collect"
    BY <1>1, RouteInitInv DEF RouteInit
  <1>3. FlowsTyped
    BY <1>1 DEF RouteInit, FlowsTyped, PacketFlows, CircuitFlows
  <1>4. OverlayTyped
    BY <1>1 DEF OverlayInit, OverlayTyped, BufInit, BroadcastIDs
  <1>5. bufResult # "success"
    BY <1>1 DEF BufInit
  <1> QED BY <1>1, <1>2, <1>3, <1>4, <1>5 DEF RouterKept, RouterWaits

LEMMA OverlayStays ==
    ASSUME OverlayTyped, UNCHANGED <<broadcasts, multicasts, tileOps, columnsLeft>>
    PROVE  OverlayTyped'
  BY DEF OverlayTyped

LEMMA FlowsStay ==
    ASSUME FlowsTyped, UNCHANGED <<pktFlows, circuits>>
    PROVE  FlowsTyped'
  BY DEF FlowsTyped, PacketFlows, CircuitFlows, PathEndPoint

(* Steps of the other passes.                                              *)
LEMMA RouterStays ==
    ASSUME RouterKept, UNCHANGED <<overlayVars, tileOps, routeVars, localLocks, bufResult>>
    PROVE  RouterKept'
  <1>1. RouteInv'
    BY RouteStutterInv DEF RouterKept
  <1>2. FlowsTyped'
    BY FlowsStay DEF RouterKept, routeVars
  <1>3. overlayStage' # "done" => OverlayTyped'
    BY OverlayStays DEF RouterKept, RouterWaits, overlayVars
  <1>4. RouterWaits'
    BY <1>3 DEF RouterKept, RouterWaits, overlayVars, routeVars
  <1> QED BY <1>1, <1>2, <1>4 DEF RouterKept

LEMMA RouterAfterBuffers == RouterKept /\ AssignBufferAddresses => RouterKept'
  <1> SUFFICES ASSUME RouterKept, AssignBufferAddresses PROVE RouterKept'
    OBVIOUS
  <1>1. /\ overlayStage = "done" /\ overlayStage' = "done"
        /\ UNCHANGED <<routeVars, localLocks>>
    BY DEF AssignBufferAddresses, overlayVars
  <1>2. RouteInv' /\ FlowsTyped'
    BY <1>1, RouteStutterInv, FlowsStay DEF RouterKept, routeVars
  <1>3. RouterWaits'
    BY <1>1 DEF RouterKept, RouterWaits, routeVars
  <1> QED BY <1>2, <1>3 DEF RouterKept

LEMMA RouterAfterLocks == RouterKept /\ LocalizeLocks => RouterKept'
  <1> SUFFICES ASSUME RouterKept, LocalizeLocks PROVE RouterKept'
    OBVIOUS
  <1>1. /\ bufResult = "success" /\ localLocks = <<>>
        /\ UNCHANGED <<routeVars, overlayVars>>
    BY DEF LocalizeLocks
  <1>2. overlayStage' = "done" /\ routeResult' = "collect"
    BY <1>1 DEF RouterKept, RouterWaits, overlayVars, routeVars
  <1>3. RouteInv' /\ FlowsTyped'
    BY <1>1, RouteStutterInv, FlowsStay DEF RouterKept, routeVars
  <1>4. RouterWaits'
    BY <1>2 DEF RouterWaits
  <1> QED BY <1>3, <1>4 DEF RouterKept

LEMMA RouterRuns == RouterKept /\ CreatePathfinderFlows => RouterKept'
  <1> SUFFICES ASSUME RouterKept, CreatePathfinderFlows PROVE RouterKept'
    OBVIOUS
  <1>1. /\ localLocks # <<>> /\ localLocks' # <<>> /\ overlayStage' = overlayStage
        /\ RouteNext \/ UNCHANGED routeVars
    BY DEF CreatePathfinderFlows, overlayVars
  <1>2. RouteInv'
    BY <1>1, RouteStepInv DEF RouterKept
  <1>3. UNCHANGED <<pktFlows, circuits>>
    BY <1>1 DEF RouteNext, CollectFlows, RouteFlow, EndIteration, routeVars
  <1>4. FlowsTyped'
    BY <1>3, FlowsStay DEF RouterKept
  <1>5. RouterWaits'
    BY <1>1 DEF RouterKept, RouterWaits
  <1> QED BY <1>2, <1>4, <1>5 DEF RouterKept

-----------------------------------------------------------------------------
(* Steps that write flows.                                                 *)
LEMMA MoreFlowsKept ==
    ASSUME RouterKept, FlowsTyped', RouterWaits', routeResult = "collect",
           UNCHANGED <<maxCol, maxRow, fixed, routes, usage, iteration, routed, solution, routeResult>>
    PROVE  RouterKept'
  BY MoreFlows DEF RouterKept

LEMMA RouterAfterDMAs ==
    PipelineInv /\ RouterKept /\ TransformObjectFifos /\ CreateDMAs => RouterKept'
  <1> SUFFICES ASSUME PipelineInv, RouterKept, TransformObjectFifos, CreateDMAs
               PROVE  RouterKept'
    OBVIOUS
  <1> DEFINE f == fifos[Head(fifoDmas)]
             done == DmasOf(f)
             src == <<f.prod, "DMA", channels[<<f.prod, "MM2S">>]>>
             new == [k \in DOMAIN done.dsts |-> [src |-> src, dst |-> done.dsts[k]]]
  <1>1. /\ fifoResult = "dmas" /\ fifoDmas # <<>> /\ circuits' = circuits \o Reverse(new)
        /\ UNCHANGED <<pktFlows, overlayVars, tileOps, unrouted, localLocks, bufResult>>
    BY DEF CreateDMAs, TransformObjectFifos
  <1>2. /\ BdInit /\ localLocks = <<>>
        /\ fifos \in Seq(FifoOp) /\ fifoDmas \in Seq(DOMAIN fifos)
        /\ fifos # <<>> => \A m \in DOMAIN memOps : memOps[m].inBlocks
        /\ channels \in [Tiles \X Directions -> Nat]
    BY <1>1 DEF PipelineInv, LaterPassesWait, FifosTyped
  <1>3. f \in FifoOp /\ fifos # <<>>
    <2> DEFINE D == DOMAIN fifos
    <2>1. fifoDmas \in Seq(D) /\ fifoDmas # <<>>
      BY <1>1, <1>2
    <2> HIDE DEF D
    <2>2. Head(fifoDmas) \in D
      BY <2>1
    <2>3. Head(fifoDmas) \in DOMAIN fifos
      BY <2>2 DEF D
    <2>4. fifos[Head(fifoDmas)] \in FifoOp
      BY <2>3, <1>2
    <2>5. fifos # <<>>
      BY <2>3
    <2> QED BY <2>4, <2>5
  <1> HIDE DEF src, done, new
  <1>4. DmaProgram(memOps, bdOps)
    <2>1. /\ BdInit /\ \A m \in DOMAIN memOps : memOps[m].inBlocks
          /\ \A i \in DOMAIN bdOps : bdOps[i].id # NoBdID => i \in userBDs
      BY <1>1, <1>2, <1>3 DEF PipelineInv, ReachKept
    <2> HIDE DEF f
    <2> QED BY <2>1, BdInitIsDmaProgram
  <1>5. f.prod \in Tiles /\ channels[<<f.prod, "MM2S">>] \in Nat
    BY <1>2, <1>3, FifoFields DEF Directions
  <1>6. "DMA" \in Bundles
    BY DEF Bundles, BundleOrder
  <1>7. src \in PathEndPoint
    BY <1>5, <1>6 DEF PathEndPoint, src
  <1> HIDE DEF f
  <1>8. done \in DmaStates
    BY <1>2, <1>3, <1>4, FifoDmas DEF done
  <1>9. done.dsts \in Seq(Tiles \X {"DMA"} \X Nat)
    BY <1>8 DEF DmaStates
  <1>10. \A x \in Tiles \X {"DMA"} \X Nat : x \in PathEndPoint
    BY <1>6 DEF PathEndPoint
  <1>11. new \in Seq(CircuitFlows)
    <2> DEFINE ds == done.dsts
               U == Tiles \X {"DMA"} \X Nat
               C == CircuitFlows
    <2>1. ds \in Seq(U) /\ new = [k \in DOMAIN ds |-> [src |-> src, dst |-> ds[k]]]
      BY <1>9 DEF new
    <2> HIDE DEF ds
    <2>2. \A k \in DOMAIN ds : ds[k] \in PathEndPoint
      BY <1>10, <2>1
    <2>3. \A k \in DOMAIN ds : new[k] \in C
      BY <1>7, <2>1, <2>2 DEF CircuitFlows
    <2>4. DOMAIN new = DOMAIN ds /\ new = [k \in DOMAIN ds |-> new[k]]
      BY <2>1
    <2> HIDE DEF U, C
    <2>5. new \in Seq(C)
      BY <2>1, <2>3, <2>4, MappedType
    <2> QED BY <2>5 DEF C
  <1>12. circuits' \in Seq(CircuitFlows)
    <2>1. Reverse(new) \in Seq(CircuitFlows) /\ circuits \in Seq(CircuitFlows)
      BY <1>11, ReverseType DEF RouterKept, FlowsTyped
    <2> DEFINE r == Reverse(new)
               C == CircuitFlows
    <2>2. r \in Seq(C) /\ circuits \in Seq(C) /\ circuits' = circuits \o r
      BY <1>1, <2>1
    <2> HIDE DEF r, C
    <2>3. circuits' \in Seq(C)
      BY <2>2
    <2> QED BY <2>3 DEF C
  <1>13. FlowsTyped'
    <2>1. PICK I : pktFlows \in Seq(PacketFlows(I))
      BY DEF RouterKept, FlowsTyped
    <2>2. pktFlows' \in Seq(PacketFlows(I))
      BY <1>1, <2>1
    <2> QED BY <2>2, <1>12 DEF FlowsTyped, PacketFlows, CircuitFlows, PathEndPoint
  <1>14. routeResult = "collect"
    BY <1>2 DEF RouterKept, RouterWaits
  <1>15. RouterWaits'
    <2>1. overlayStage' # "done" => OverlayTyped'
      BY <1>1, OverlayStays DEF RouterKept, RouterWaits, overlayVars
    <2> QED BY <1>1, <2>1 DEF RouterKept, RouterWaits, overlayVars, unrouted
  <1>16. UNCHANGED <<maxCol, maxRow, fixed, routes, usage, iteration, routed, solution, routeResult>>
    BY <1>1 DEF unrouted
  <1> QED BY <1>13, <1>14, <1>15, <1>16, MoreFlowsKept

(* The flows of one broadcast, and of one multicast.                       *)
FlowsOfBroadcast(b) ==
    Reverse([k \in DOMAIN b.bpids |-> PacketFlow(b.bpids[k].id, FALSE, b.src, b.bpids[k].dsts)])

LEMMA BroadcastFlows ==
    ASSUME NEW b \in [src : PathEndPoint, bpids : Seq(BroadcastIDs)], NEW I, Nat \subseteq I
    PROVE  FlowsOfBroadcast(b) \in Seq(PacketFlows(I))
  <1> DEFINE ps == b.bpids
             no == FALSE
             new == [k \in DOMAIN ps |-> PacketFlow(ps[k].id, no, b.src, ps[k].dsts)]
  <1>1. ps \in Seq(BroadcastIDs) /\ b.src \in PathEndPoint /\ no \in BOOLEAN
    OBVIOUS
  <1>2. \A p \in BroadcastIDs : p.id \in I /\ p.dsts \in Seq(PathEndPoint)
    BY DEF BroadcastIDs
  <1>3. FlowsOfBroadcast(b) = Reverse(new)
    BY DEF FlowsOfBroadcast
  <1> HIDE DEF ps, no
  <1>4. \A k \in DOMAIN ps : new[k] \in PacketFlows(I)
    <2> SUFFICES ASSUME NEW k \in DOMAIN ps PROVE new[k] \in PacketFlows(I)
      OBVIOUS
    <2> DEFINE p == ps[k]
    <2>1. p \in BroadcastIDs /\ new[k] = PacketFlow(p.id, no, b.src, p.dsts)
      BY <1>1
    <2> HIDE DEF p, new
    <2>2. p.id \in I /\ p.dsts \in Seq(PathEndPoint)
      BY <1>2, <2>1
    <2>3. PacketFlow(p.id, no, b.src, p.dsts) \in PacketFlows(I)
      BY <1>1, <2>2, PacketFlowType
    <2> QED BY <2>1, <2>3
  <1>5. DOMAIN new = DOMAIN ps /\ new = [k \in DOMAIN ps |-> new[k]]
    OBVIOUS
  <1> HIDE DEF new
  <1> DEFINE U == PacketFlows(I)
             V == BroadcastIDs
  <1>6. ps \in Seq(V) /\ \A k \in DOMAIN ps : new[k] \in U
    BY <1>1, <1>4
  <1> HIDE DEF U, V
  <1>7. new \in Seq(U)
    BY <1>5, <1>6, MappedType
  <1>8. Reverse(new) \in Seq(U)
    BY <1>7, ReverseType
  <1> QED BY <1>3, <1>8 DEF U

LEMMA MulticastFlows ==
    ASSUME NEW m \in [src : PathEndPoint, dsts : Seq(PathEndPoint)]
    PROVE  FlowsOf(m) \in Seq(CircuitFlows)
  <1> DEFINE ds == m.dsts
             new == FlowsOf(m)
             U == PathEndPoint
             V == CircuitFlows
  <1>1. ds \in Seq(U) /\ m.src \in U /\ new = [k \in DOMAIN ds |-> [src |-> m.src, dst |-> ds[k]]]
    BY DEF FlowsOf
  <1> HIDE DEF ds, new
  <1>2. \A k \in DOMAIN ds : ds[k] \in U
    BY <1>1
  <1>3. \A k \in DOMAIN ds : new[k] \in V
    BY <1>1, <1>2 DEF CircuitFlows
  <1>4. DOMAIN new = DOMAIN ds /\ new = [k \in DOMAIN ds |-> new[k]]
    BY <1>1
  <1> HIDE DEF U, V
  <1>5. new \in Seq(V)
    BY <1>1, <1>3, <1>4, MappedType
  <1> QED BY <1>5 DEF new, V

(* Flows joined behind others.                                             *)
LEMMA JoinedType ==
    ASSUME NEW U, NEW V, NEW s \in Seq(U), NEW bs \in Seq(V), NEW t,
           t = [n \in DOMAIN bs |-> t[n]], DOMAIN t = DOMAIN bs,
           \A n \in DOMAIN bs : t[n] \in Seq(U)
    PROVE  s \o FlattenSeq(t) \in Seq(U)
  <1> DEFINE W == Seq(U)
  <1>1. \A n \in DOMAIN bs : t[n] \in W
    OBVIOUS
  <1>2. t \in Seq(W)
    <2> HIDE DEF W
    <2> QED BY <1>1, MappedType
  <1>3. FlattenSeq(t) \in Seq(U)
    BY <1>2, FlattenSeqType
  <1> DEFINE u == FlattenSeq(t)
  <1> HIDE DEF u
  <1>4. s \o u \in Seq(U)
    BY <1>3 DEF u
  <1> QED BY <1>4 DEF u

(* A step of the passes that write the overlay's flows.                    *)
LEMMA OverlayStep ==
    ASSUME RouterKept, overlayStage # "done", FlowsTyped', OverlayTyped',
           UNCHANGED <<bufVars, unrouted, localLocks>>
    PROVE  RouterKept'
  <1>1. bufResult # "success" /\ localLocks = <<>> /\ routeResult = "collect"
    BY DEF RouterKept, RouterWaits
  <1>2. UNCHANGED <<maxCol, maxRow, fixed, routes, usage, iteration, routed, solution, routeResult, bufResult>>
    BY DEF unrouted, bufVars
  <1>3. RouterWaits'
    BY <1>1, <1>2 DEF RouterWaits
  <1> QED BY <1>1, <1>2, <1>3, MoreFlowsKept

LEMMA RouterAfterBroadcast ==
    ASSUME RouterKept, LowerBroadcastPacket, UNCHANGED <<bufVars, unrouted, localLocks>>
    PROVE  RouterKept'
  <1> DEFINE new == [n \in DOMAIN broadcasts |-> FlowsOfBroadcast(broadcasts[n])]
             V == [src : PathEndPoint, bpids : Seq(BroadcastIDs)]
  <1>1. /\ overlayStage = "broadcast" /\ broadcasts' = <<>>
        /\ pktFlows' = pktFlows \o FlattenSeq(new)
        /\ UNCHANGED <<circuits, tileOps, multicasts, columnsLeft>>
    BY DEF LowerBroadcastPacket, FlowsOfBroadcast
  <1>2. OverlayTyped /\ FlowsTyped
    BY <1>1 DEF RouterKept, RouterWaits
  <1>3. PICK I : pktFlows \in Seq(PacketFlows(I))
    BY <1>2 DEF FlowsTyped
  <1> DEFINE J == I \cup Nat
             U == PacketFlows(J)
  <1>4. PacketFlows(I) \subseteq U
    BY DEF PacketFlows
  <1>5. pktFlows \in Seq(U) /\ broadcasts \in Seq(V)
    <2>1. \A R, S, s : R \subseteq S /\ s \in Seq(R) => s \in Seq(S)
      OBVIOUS
    <2>2. broadcasts \in Seq(V)
      BY <1>2 DEF OverlayTyped
    <2> HIDE DEF U
    <2> QED BY <2>1, <2>2, <1>3, <1>4
  <1>6. \A n \in DOMAIN broadcasts : broadcasts[n] \in V
    <2> HIDE DEF V
    <2> QED BY <1>5
  <1>7. \A n \in DOMAIN broadcasts : new[n] \in Seq(U)
    <2>1. Nat \subseteq J
      OBVIOUS
    <2> HIDE DEF J
    <2> QED BY <1>6, <2>1, BroadcastFlows
  <1>8. DOMAIN new = DOMAIN broadcasts /\ new = [n \in DOMAIN broadcasts |-> new[n]]
    OBVIOUS
  <1> HIDE DEF new, U, V
  <1>9. pktFlows' \in Seq(U)
    BY <1>1, <1>5, <1>7, <1>8, JoinedType
  <1>10. FlowsTyped'
    <2>1. circuits' \in Seq(CircuitFlows)
      BY <1>1, <1>2 DEF FlowsTyped
    <2>2. pktFlows' \in Seq(PacketFlows(J))
      BY <1>9 DEF U
    <2> HIDE DEF J
    <2> QED BY <2>1, <2>2 DEF FlowsTyped, PacketFlows, CircuitFlows, PathEndPoint
  <1>11. OverlayTyped'
    BY <1>1, <1>2 DEF OverlayTyped
  <1> QED BY <1>1, <1>10, <1>11, OverlayStep

LEMMA RouterAfterMulticast ==
    ASSUME RouterKept, LowerMulticast, UNCHANGED <<bufVars, unrouted, localLocks>>
    PROVE  RouterKept'
  <1> DEFINE new == [n \in DOMAIN multicasts |-> FlowsOf(multicasts[n])]
             V == [src : PathEndPoint, dsts : Seq(PathEndPoint)]
             U == CircuitFlows
  <1>1. /\ overlayStage = "multicast" /\ multicasts' = <<>>
        /\ circuits' = circuits \o FlattenSeq(new)
        /\ UNCHANGED <<pktFlows, tileOps, broadcasts, columnsLeft>>
    BY DEF LowerMulticast
  <1>2. OverlayTyped /\ FlowsTyped
    BY <1>1 DEF RouterKept, RouterWaits
  <1>3. circuits \in Seq(U) /\ multicasts \in Seq(V)
    BY <1>2 DEF FlowsTyped, OverlayTyped
  <1>4. \A n \in DOMAIN multicasts : multicasts[n] \in V
    <2> HIDE DEF U, V
    <2> QED BY <1>3
  <1>5. \A n \in DOMAIN multicasts : new[n] \in Seq(U)
    BY <1>4, MulticastFlows
  <1>6. DOMAIN new = DOMAIN multicasts /\ new = [n \in DOMAIN multicasts |-> new[n]]
    OBVIOUS
  <1> HIDE DEF new, U, V
  <1>7. circuits' \in Seq(U)
    BY <1>1, <1>3, <1>5, <1>6, JoinedType
  <1>8. FlowsTyped'
    <2>1. PICK I : pktFlows \in Seq(PacketFlows(I))
      BY <1>2 DEF FlowsTyped
    <2>2. pktFlows' \in Seq(PacketFlows(I))
      BY <1>1, <2>1
    <2> QED BY <2>2, <1>7 DEF FlowsTyped, PacketFlows, CircuitFlows, PathEndPoint, U
  <1>9. OverlayTyped'
    BY <1>1, <1>2 DEF OverlayTyped
  <1> QED BY <1>1, <1>8, <1>9, OverlayStep

LEMMA ColumnsOfTiles ==
    ASSUME tileOps \in Seq(Tiles)
    PROVE  \A t \in declared : t \in Tiles /\ Col(t) \in 0 .. (Columns - 1)
                               /\ Row(t) \in 0 .. (Rows - 1)
  <1>1. \A t \in declared : t \in Tiles
    BY DEF declared, ToSet
  <1>2. \A t \in Tiles : Col(t) \in 0 .. (Columns - 1) /\ Row(t) \in 0 .. (Rows - 1)
    BY DEF Tiles, Col, Row
  <1> QED BY <1>1, <1>2

LEMMA RouterAfterIds ==
    ASSUME RouterKept, AssignControllerIds, UNCHANGED <<bufVars, unrouted, localLocks>>
    PROVE  RouterKept'
  <1>1. /\ overlayStage = "ids"
        /\ columnsLeft' = {Col(t) : t \in declared} \/ columnsLeft' = columnsLeft
        /\ UNCHANGED <<pktFlows, circuits, tileOps, broadcasts, multicasts>>
    BY DEF AssignControllerIds
  <1>2. OverlayTyped /\ FlowsTyped
    BY <1>1 DEF RouterKept, RouterWaits
  <1>3. columnsLeft' \subseteq 0 .. (Columns - 1)
    <2>1. tileOps \in Seq(Tiles) /\ columnsLeft \subseteq 0 .. (Columns - 1)
      BY <1>2 DEF OverlayTyped
    <2>2. {Col(t) : t \in declared} \subseteq 0 .. (Columns - 1)
      BY <2>1, ColumnsOfTiles
    <2> QED BY <1>1, <2>1, <2>2
  <1>4. FlowsTyped'
    BY <1>1, <1>2, FlowsStay
  <1>5. OverlayTyped'
    BY <1>1, <1>2, <1>3 DEF OverlayTyped
  <1> QED BY <1>1, <1>4, <1>5, OverlayStep

LEMMA TilesOnType ==
    ASSUME tileOps \in Seq(Tiles), NEW col, NEW rows
    PROVE  TilesOn(col, rows) \in Seq(Tiles)
  <1> DEFINE N == Len(tileOps)
             S == {k \in DOMAIN tileOps : Col(tileOps[k]) = col /\ Row(tileOps[k]) \in rows}
             R == {x \in S \X S : x[1] < x[2]}
             at == [n \in 1 .. Cardinality(S) |->
                      CHOOSE x \in S : Cardinality({y \in S : y < x}) = n - 1]
  <1>1. N \in Nat /\ S \in SUBSET (1 .. N) /\ \A k \in S : tileOps[k] \in Tiles
    OBVIOUS
  <1>2. TilesOn(col, rows) = [n \in DOMAIN at |-> tileOps[at[n]]]
    BY Zenon DEF TilesOn, Sorted
  <1> HIDE DEF S, N
  <1>3. IsFiniteSet(S)
    <2>1. 1 \in Int /\ N \in Int
      BY <1>1
    <2>2. IsFiniteSet(1 .. N)
      BY <2>1, FS_Interval
    <2> QED BY <1>1, <2>2, FS_Subset
  <1>4. StrictOrder(S, R)
    <2>1. S \subseteq Int
      BY <1>1
    <2>2. \A x, y \in S : <<x, y>> \in R <=> x < y
      OBVIOUS
    <2>3. \A x, y, z \in Int : ~ (x < x) /\ (x < y /\ y < z => x < z) /\ (x # y => x < y \/ y < x)
      OBVIOUS
    <2> HIDE DEF R
    <2> QED BY <2>1, <2>2, <2>3 DEF StrictOrder
  <1>5. at = Ranked(S, R)
    <2> DEFINE P(n) == CHOOSE x \in S : Cardinality({y \in S : y < x}) = n - 1
               Q(n) == CHOOSE x \in S : Cardinality({y \in S : <<y, x>> \in R}) = n - 1
    <2>1. \A x \in S : {y \in S : y < x} = {y \in S : <<y, x>> \in R}
      OBVIOUS
    <2> HIDE DEF R
    <2>2. \A n : P(n) = Q(n)
      BY <2>1
    <2>3. at = [n \in 1 .. Cardinality(S) |-> P(n)]
          /\ Ranked(S, R) = [n \in 1 .. Cardinality(S) |-> Q(n)]
      BY DEF Ranked
    <2> HIDE DEF P, Q, at
    <2> QED BY <2>2, <2>3
  <1> HIDE DEF at, R
  <1>6. at \in Seq(S)
    BY <1>3, <1>4, <1>5, RankedType
  <1> DEFINE new == [n \in DOMAIN at |-> tileOps[at[n]]]
             T == Tiles
  <1>7. \A n \in DOMAIN at : new[n] \in T
    <2>1. \A n \in DOMAIN at : at[n] \in S
      BY <1>6
    <2> QED BY <2>1, <1>1
  <1>8. DOMAIN new = DOMAIN at /\ new = [n \in DOMAIN at |-> new[n]]
    OBVIOUS
  <1> HIDE DEF new, T
  <1>9. new \in Seq(T)
    BY <1>6, <1>7, <1>8, MappedType
  <1> QED BY <1>2, <1>9 DEF new, T

LEMMA ShimOfColumn == \A t \in Tiles : <<Col(t), 0>> \in Tiles
  BY TargetAssumption DEF Tiles, Col

LEMMA OverlayFlowTypes ==
    ASSUME NEW t \in Tiles, NEW I, IdOf(t) \in I
    PROVE  TokenFlow(t) \in PacketFlows(I) /\ ControlFlow(t) \in PacketFlows(I)
  <1>1. {"Ctrl", "South", "DMA"} \subseteq Bundles
    BY DEF Bundles, BundleOrder
  <1>2. <<Col(t), 0>> \in Tiles
    BY ShimOfColumn
  <1>3. RowToShimChan(Row(t)) \in Nat
    <2>1. Row(t) \in Nat /\ Rows \in Nat /\ Rows > 2
      BY TargetAssumption DEF Tiles, Row
    <2>2. Rows \div 2 \in Nat /\ Rows \div 2 > 0
      BY <2>1
    <2>3. \A a \in Nat, b \in Nat : b > 0 => a \div b \in Nat
      OBVIOUS
    <2> QED BY <2>1, <2>2, <2>3 DEF RowToShimChan, NumShimChans
  <1> DEFINE id == IdOf(t)
             yes == TRUE
             p == CtrlPort(t)
             s == <<<<Col(t), 0>>, "South", 0>>
             c == <<<<Col(t), 0>>, "DMA", RowToShimChan(Row(t))>>
  <1>4. p \in PathEndPoint /\ s \in PathEndPoint /\ c \in PathEndPoint
    BY <1>1, <1>2, <1>3 DEF PathEndPoint, CtrlPort
  <1>5. TokenFlow(t) = PacketFlow(id, yes, p, <<s>>) /\ ControlFlow(t) = PacketFlow(id, yes, c, <<p>>)
    BY DEF TokenFlow, ControlFlow
  <1>6. id \in I /\ yes \in BOOLEAN
    OBVIOUS
  <1> HIDE DEF id, yes, p, s, c
  <1> DEFINE ps == <<p>>
             ss == <<s>>
  <1>7. ps \in Seq(PathEndPoint) /\ ss \in Seq(PathEndPoint)
    BY <1>4
  <1> HIDE DEF ps, ss
  <1>8. PacketFlow(id, yes, p, ss) \in PacketFlows(I) /\ PacketFlow(id, yes, c, ps) \in PacketFlows(I)
    BY <1>4, <1>6, <1>7, PacketFlowType
  <1> QED BY <1>5, <1>8 DEF ps, ss

LEMMA RouterAfterColumn ==
    ASSUME RouterKept, NEW col, GenerateOverlay(col),
           UNCHANGED <<bufVars, unrouted, localLocks>>
    PROVE  RouterKept'
  <1> DEFINE tct == CASE tctRouting = "all-tiles" -> TilesOn(col, 0 .. Rows - 1)
                      [] tctRouting = "shim-only" -> TilesOn(col, {0})
                      [] OTHER -> <<>>
             ctrl == IF shimToCtrl THEN TilesOn(col, 0 .. Rows - 1) ELSE <<>>
             tokens == [k \in DOMAIN tct |-> TokenFlow(tct[k])]
             controls == [k \in DOMAIN ctrl |-> ControlFlow(ctrl[k])]
  <1>1. /\ overlayStage = "overlay" /\ col \in columnsLeft
        /\ pktFlows' = pktFlows \o tokens \o controls
        /\ tileOps' = IF <<col, 0>> \in declared THEN tileOps ELSE <<<<col, 0>>>> \o tileOps
        /\ columnsLeft' = columnsLeft \ {col}
        /\ UNCHANGED <<circuits, broadcasts, multicasts>>
    BY DEF GenerateOverlay
  <1>2. OverlayTyped /\ FlowsTyped
    BY <1>1 DEF RouterKept, RouterWaits
  <1>3. tct \in Seq(Tiles) /\ ctrl \in Seq(Tiles)
    <2> DEFINE all == TilesOn(col, 0 .. Rows - 1)
               shim == TilesOn(col, {0})
               none == <<>>
               Q == Seq(Tiles)
    <2>1. all \in Q /\ shim \in Q /\ none \in Q
      BY <1>2, TilesOnType DEF OverlayTyped
    <2>2. tct \in {all, shim, none} /\ ctrl \in {all, none}
      OBVIOUS
    <2> HIDE DEF all, shim, none, Q, tct, ctrl
    <2> QED BY <2>1, <2>2 DEF Q
  <1> HIDE DEF tct, ctrl
  <1>4. PICK I : pktFlows \in Seq(PacketFlows(I))
    BY <1>2 DEF FlowsTyped
  <1> DEFINE J == I \cup {IdOf(t) : t \in Tiles}
             U == PacketFlows(J)
             T == Tiles
  <1>5. pktFlows \in Seq(U)
    <2>1. \A A, B, s : A \subseteq B /\ s \in Seq(A) => s \in Seq(B)
      OBVIOUS
    <2>2. PacketFlows(I) \subseteq U
      BY DEF PacketFlows
    <2> HIDE DEF U
    <2> QED BY <2>1, <2>2, <1>4
  <1>6. \A t \in T : TokenFlow(t) \in U /\ ControlFlow(t) \in U
    <2>1. \A t \in T : IdOf(t) \in J
      OBVIOUS
    <2> HIDE DEF J
    <2> QED BY <2>1, OverlayFlowTypes
  <1>7. tct \in Seq(T) /\ ctrl \in Seq(T)
    BY <1>3
  <1> HIDE DEF T, U
  <1>8. /\ \A k \in DOMAIN tct : tokens[k] \in U
        /\ \A k \in DOMAIN ctrl : controls[k] \in U
    <2>1. (\A k \in DOMAIN tct : tct[k] \in T) /\ (\A k \in DOMAIN ctrl : ctrl[k] \in T)
      BY <1>7
    <2> QED BY <2>1, <1>6
  <1>9. /\ DOMAIN tokens = DOMAIN tct /\ tokens = [k \in DOMAIN tct |-> tokens[k]]
        /\ DOMAIN controls = DOMAIN ctrl /\ controls = [k \in DOMAIN ctrl |-> controls[k]]
    OBVIOUS
  <1> HIDE DEF tokens, controls
  <1>10. tokens \in Seq(U) /\ controls \in Seq(U)
    BY <1>7, <1>8, <1>9, MappedType
  <1>11. pktFlows' \in Seq(U)
    <2>1. \A a, b, c \in Seq(U) : a \o b \o c \in Seq(U)
      OBVIOUS
    <2> QED BY <2>1, <1>1, <1>5, <1>10
  <1>12. FlowsTyped'
    <2>1. circuits' \in Seq(CircuitFlows)
      BY <1>1, <1>2 DEF FlowsTyped
    <2>2. pktFlows' \in Seq(PacketFlows(J))
      BY <1>11 DEF U
    <2> HIDE DEF J
    <2> QED BY <2>1, <2>2 DEF FlowsTyped, PacketFlows, CircuitFlows, PathEndPoint
  <1>13. OverlayTyped'
    <2> DEFINE shim == <<col, 0>>
    <2>1. shim \in T
      <3>1. col \in 0 .. (Columns - 1) /\ 0 \in 0 .. (Rows - 1)
        BY <1>1, <1>2, TargetAssumption DEF OverlayTyped
      <3> QED BY <3>1 DEF T, Tiles
    <2>2. tileOps \in Seq(T)
      BY <1>2 DEF OverlayTyped, T
    <2>3. tileOps' = tileOps \/ tileOps' = <<shim>> \o tileOps
      BY <1>1
    <2> HIDE DEF shim
    <2>4. tileOps' \in Seq(T)
      <3>1. \A s \in Seq(T), x \in T : <<x>> \o s \in Seq(T)
        OBVIOUS
      <3> QED BY <3>1, <2>1, <2>2, <2>3
    <2>5. tileOps' \in Seq(Tiles)
      BY <2>4 DEF T
    <2> QED BY <1>1, <1>2, <2>5 DEF OverlayTyped
  <1> QED BY <1>1, <1>12, <1>13, OverlayStep

LEMMA RouterAfterOverlay == RouterKept /\ LowerFlows => RouterKept'
  BY RouterAfterBroadcast, RouterAfterMulticast, RouterAfterIds, RouterAfterColumn
     DEF LowerFlows, OverlayNext

LEMMA RouterAfterFifos ==
    PipelineInv /\ RouterKept /\ TransformObjectFifos => RouterKept'
  <1> SUFFICES ASSUME PipelineInv, RouterKept, TransformObjectFifos PROVE RouterKept'
    OBVIOUS
  <1>1. CASE CreateDMAs
    BY <1>1, RouterAfterDMAs
  <1>2. CASE ~ CreateDMAs
    <2>1. UNCHANGED <<circuits, pktFlows, tileOps, unrouted, overlayVars, localLocks, bufResult>>
      BY <1>2 DEF TransformObjectFifos
    <2>2. UNCHANGED <<overlayVars, tileOps, routeVars, localLocks, bufResult>>
      BY <2>1 DEF unrouted, routeVars
    <2> QED BY <2>2, RouterStays
  <1> QED BY <1>1, <1>2

LEMMA RouterStep == PipelineInv /\ RouterKept /\ [Next]_pipelineVars => RouterKept'
  <1> SUFFICES ASSUME PipelineInv, RouterKept, [Next]_pipelineVars PROVE RouterKept'
    OBVIOUS
  <1>1. CASE AssignLockIDs \/ AssignBufferDescriptorIDs \/ UNCHANGED pipelineVars
    <2>1. UNCHANGED <<overlayVars, tileOps, routeVars, localLocks, bufResult>>
      BY <1>1 DEF AssignLockIDs, AssignBufferDescriptorIDs, pipelineVars, switchVars, bufVars
    <2> QED BY <2>1, RouterStays
  <1>2. CASE TransformObjectFifos
    BY <1>2, RouterAfterFifos
  <1>3. CASE LowerFlows
    BY <1>3, RouterAfterOverlay
  <1>4. CASE AssignBufferAddresses
    BY <1>4, RouterAfterBuffers
  <1>5. CASE LocalizeLocks
    BY <1>5, RouterAfterLocks
  <1>6. CASE CreatePathfinderFlows
    BY <1>6, RouterRuns
  <1> QED BY <1>1, <1>2, <1>3, <1>4, <1>5, <1>6 DEF Next

THEOREM PipelineRouterInvariant == Spec => []RouterKept
  BY RouterInit, RouterStep, PipelineInvariant, PTL DEF Spec

(* The routes of all flows, those that the program writes and those of     *)
(* objectFifos, broadcasts, multicasts and the control overlay, lie apart. *)
THEOREM PipelineRoutesApart == Spec => []RoutesApart
  <1>1. RouterKept => RoutesApart
    BY RoutesApartByInv DEF RouterKept
  <1> QED BY <1>1, PipelineRouterInvariant, PTL

(* They use what the switchboxes can do and the program has left.          *)
THEOREM PipelineRoutesLegal == Spec => []RoutesLegal
  <1>1. RouterKept => RoutesLegal
    BY RoutesLegalByInv DEF RouterKept
  <1> QED BY <1>1, PipelineRouterInvariant, PTL

(* And every flow arrives wherever it wants to.                            *)
THEOREM PipelineFlowsArrive == Spec => []FlowsArrive
  <1>1. RouterKept => FlowsArrive
    BY FlowsArriveByInv DEF RouterKept
  <1> QED BY <1>1, PipelineRouterInvariant, PTL
=============================================================================
