------------------------------- MODULE BdIDs -------------------------------
(***************************************************************************)
(* The pass aie-assign-bd-ids: every buffer descriptor of a DMA gets an    *)
(* identifier of its tile that the channel which runs it can reach, and    *)
(* the identifier of the descriptor that follows it.                       *)
(*                                                                         *)
(* A DMA is written in one of two forms.  In the form of aie.dma ops every *)
(* descriptor lies in the op of its channel, which may loop.  In the form  *)
(* of blocks a dma_start names the block where its channel begins and each *)
(* block its successor; the channel of a block is found by following them. *)
(***************************************************************************)
EXTENDS TargetModel

CONSTANTS NoBdID,      \* the descriptor has no identifier
          NoChannel    \* no channel is known to run the block

ASSUME BdAssumption == NoBdID \notin Nat /\ NoChannel \notin Nat

VARIABLES memOps,     \* the DMAs, MemOps first: [tile, inBlocks, starts];
                      \* starts: [dir, chan, dest], none in the form of
                      \* dma ops
          bdOps,      \* the descriptors in program order:
                      \* [mem, chan, succ, id, next]; succ = 0: the end
          mem,        \* the DMA that is being served, 0 before the first
          bdIDsTaken, \* the generator's alreadyAssigned
          bdChannel,  \* [descriptor] its channel (blockChannelMap)
          start,      \* dma_starts of the DMA that have been followed
          block,      \* block that the following has come to, 0: none
          bdResult    \* "running", "success", "exhausted", or "crash" when
                      \* an assertion fails

bdVars == <<memOps, bdOps, mem, bdIDsTaken, bdChannel, start, block, bdResult>>

BdOpsOf(m) == {i \in DOMAIN bdOps : bdOps[i].mem = m}
TileOf(i) == memOps[bdOps[i].mem].tile
UserIDs(m) == {bdOps[i].id : i \in BdOpsOf(m)} \ {NoBdID}

DmaStart == [dir : {"MM2S", "S2MM"}, chan : Nat, dest : Nat \ {0}]
MemOp == [tile : Tiles, inBlocks : BOOLEAN, starts : Seq(DmaStart)]
BdOp == [mem : Nat \ {0}, chan : Nat \cup {NoChannel}, succ : Nat,
         id : Nat \cup {NoBdID}, next : Nat \cup {NoBdID}]

(* What the verifiers of the DMAs and of DMABDOp have accepted: one DMA in *)
(* a tile, identifiers of the tile.                                        *)
BdProgramOK ==
    /\ memOps \in Seq(MemOp) /\ bdOps \in Seq(BdOp)
    /\ \A m \in DOMAIN memOps : \A n \in DOMAIN memOps \ {m} : memOps[m].tile # memOps[n].tile
    /\ \A i \in DOMAIN bdOps :
          LET op == bdOps[i] IN
          /\ op.mem \in DOMAIN memOps
          /\ op.id \in {NoBdID} \cup 0 .. (NumBDs(TileOf(i)) - 1)
          /\ op.succ \in {0} \cup BdOpsOf(op.mem)
          /\ (op.chan = NoChannel) = memOps[op.mem].inBlocks
    /\ \A m \in DOMAIN memOps : \A s \in DOMAIN memOps[m].starts :
          memOps[m].starts[s].dest \in BdOpsOf(m)
    /\ \A m \in DOMAIN memOps : memOps[m].inBlocks \/ memOps[m].starts = <<>>

BdInit == /\ BdProgramOK
          /\ \A i \in DOMAIN bdOps : bdOps[i].next = NoBdID
          /\ mem = 0 /\ bdIDsTaken = {} /\ bdChannel = <<>>
          /\ start = 0 /\ block = 0 /\ bdResult = "running"

BdTypeOK == /\ BdProgramOK
            /\ mem \in 0 .. Len(memOps)
            /\ bdIDsTaken \subseteq Nat
            /\ bdChannel \in Seq(Nat \cup {NoChannel})
            /\ Len(bdChannel) \in {0, Len(bdOps)}
            /\ start \in Nat /\ block \in 0 .. Len(bdOps)
            /\ bdResult \in {"running", "success", "exhausted", "crash"}

-----------------------------------------------------------------------------
Starts == IF mem = 0 THEN <<>> ELSE memOps[mem].starts
Unidentified(m) == {i \in BdOpsOf(m) : bdOps[i].id = NoBdID}
Following == block # 0 \/ start < Len(Starts)

(* A descriptor that no channel runs is an error, with an identifier or    *)
(* without one.                                                            *)
Unserved(m) ==
    {i \in BdOpsOf(m) : bdOps[i].id = NoBdID \/ bdChannel[i] = NoChannel}
MemDone == mem = 0 \/ (~ Following /\ Unserved(mem) = {})

(* A new generator takes note of the identifiers that the user gave; one   *)
(* that is given twice fails its assertion.                                *)
BeginMem ==
    /\ bdResult = "running" /\ MemDone /\ mem < Len(memOps)
    /\ mem' = mem + 1
    /\ bdIDsTaken' = UserIDs(mem + 1)
    /\ bdChannel' = [i \in DOMAIN bdOps |-> bdOps[i].chan]
    /\ start' = 0 /\ block' = 0
    /\ bdResult' = IF \E i, j \in BdOpsOf(mem + 1) :
                         i # j /\ bdOps[i].id = bdOps[j].id /\ bdOps[i].id # NoBdID
                   THEN "crash" ELSE bdResult
    /\ UNCHANGED <<memOps, bdOps>>

(* The first block of a dma_start is always taken, the following ones up   *)
(* to the first that a channel already has.                                *)
FollowStart ==
    /\ bdResult = "running" /\ mem # 0 /\ block = 0 /\ start < Len(Starts)
    /\ start' = start + 1
    /\ block' = Starts[start + 1].dest
    /\ UNCHANGED <<memOps, bdOps, mem, bdIDsTaken, bdChannel, bdResult>>

FollowBlock ==
    /\ bdResult = "running" /\ block # 0
    /\ bdChannel' = [bdChannel EXCEPT ![block] = Starts[start].chan]
    /\ LET succ == bdOps[block].succ IN
       block' = IF succ # 0 /\ bdChannel'[succ] = NoChannel THEN succ ELSE 0
    /\ UNCHANGED <<memOps, bdOps, mem, bdIDsTaken, start, bdResult>>

(* Slips: channels that reach half of the descriptors only are forgotten;  *)
(* the last descriptor of the half is never given.                         *)
FreeBdIDsOfAnyChannel(t, ch) ==
    {n \in 0 .. (NumBDs(t) - 1) : n \notin bdIDsTaken}
FreeBdIDsButLast(t, ch) ==
    {n \in 0 .. (NumBDs(t) - 2) : n \notin bdIDsTaken /\ BdAccessible(t, n, ch)}

(* BdIdGenerator::nextBdId takes the lowest of these.                      *)
FreeBdIDs(t, ch) ==
    {n \in 0 .. (NumBDs(t) - 1) : n \notin bdIDsTaken /\ BdAccessible(t, n, ch)}

AssignBd(i) ==
    LET free == FreeBdIDs(TileOf(i), bdChannel[i])
        id == CHOOSE n \in free : \A k \in free : n <= k
    IN  /\ bdResult = "running" /\ mem # 0 /\ ~ Following
        /\ i \in Unserved(mem) /\ \A j \in Unserved(mem) : i <= j
        /\ CASE bdChannel[i] = NoChannel ->
                  bdResult' = "crash" /\ UNCHANGED <<bdOps, bdIDsTaken>>
             [] bdChannel[i] # NoChannel /\ free = {} ->
                  bdResult' = "exhausted" /\ UNCHANGED <<bdOps, bdIDsTaken>>
             [] OTHER ->
                  /\ bdOps' = [bdOps EXCEPT ![i].id = id]
                  /\ bdIDsTaken' = bdIDsTaken \cup {id}
                  /\ UNCHANGED bdResult
        /\ UNCHANGED <<memOps, mem, bdChannel, start, block>>

(* Slip: the descriptor that lies next to it, whatever its successor is.   *)
NextIDInLine(i) == IF i < Len(bdOps) THEN bdOps[i + 1].id ELSE NoBdID

NextID(i) == IF bdOps[i].succ = 0 THEN NoBdID ELSE bdOps[bdOps[i].succ].id

(* A second loop over all DMAs links the descriptors.                      *)
SetNextBdIDs ==
    /\ bdResult = "running" /\ MemDone /\ mem = Len(memOps)
    /\ bdOps' = [i \in DOMAIN bdOps |-> [bdOps[i] EXCEPT !.next = NextID(i)]]
    /\ bdResult' = "success"
    /\ UNCHANGED <<memOps, mem, bdIDsTaken, bdChannel, start, block>>

BdNext == \/ BeginMem \/ FollowStart \/ FollowBlock
          \/ \E i \in DOMAIN bdOps : AssignBd(i)
          \/ SetNextBdIDs

BdSpec == BdInit /\ [][BdNext]_bdVars

-----------------------------------------------------------------------------
(* The descriptor that the DMA loads after descriptor i, the one of the    *)
(* tile with the identifier i.next, is the successor in the program, and   *)
(* there is only one.                                                      *)
ChainsFollowProgram ==
    bdResult = "success" =>
        \A i \in DOMAIN bdOps :
            {j \in BdOpsOf(bdOps[i].mem) : bdOps[j].id = bdOps[i].next}
                = BdOpsOf(bdOps[i].mem) \cap {bdOps[i].succ}

(* The descriptors that a channel runs: that of its dma_start, and with    *)
(* each one its successor.                                                 *)
Runs(m, s) ==
    {i \in BdOpsOf(m) :
        \A S \in SUBSET BdOpsOf(m) :
            memOps[m].starts[s].dest \in S /\ (\A j \in S : bdOps[j].succ \in S \cup {0})
                => i \in S}

(* Chains may meet.  A descriptor of a memtile that channels of even and of*)
(* odd number run is out of reach for some of them, whatever it is given.  *)
OneHalf(m, i) ==
    \A s, r \in DOMAIN memOps[m].starts :
        i \in Runs(m, s) \cap Runs(m, r) =>
            memOps[m].starts[s].chan % 2 = memOps[m].starts[r].chan % 2

(* A channel reaches the identifier of every descriptor that it runs, in   *)
(* either form, if the pass chose it: descriptors named in UserGiven keep  *)
(* the identifier of the program.                                          *)
ChannelsReachTheirBds(userGiven) ==
    bdResult = "success" =>
        /\ \A m \in DOMAIN memOps : \A s \in DOMAIN memOps[m].starts :
              \A i \in Runs(m, s) \ userGiven :
                  OneHalf(m, i) =>
                  BdAccessible(memOps[m].tile, bdOps[i].id, memOps[m].starts[s].chan)
        /\ \A i \in DOMAIN bdOps \ userGiven :
              bdOps[i].chan # NoChannel => BdAccessible(TileOf(i), bdOps[i].id, bdOps[i].chan)

(* The pass gives up only when every descriptor that the channel reaches   *)
(* is taken by a descriptor of the same DMA.                               *)
BdsExhaustedRightly ==
    bdResult = "exhausted" =>
        \E i \in Unidentified(mem) :
            \A n \in 0 .. (NumBDs(TileOf(i)) - 1) :
                BdAccessible(TileOf(i), n, bdChannel[i]) =>
                    \E j \in BdOpsOf(mem) : bdOps[j].id = n
=============================================================================
