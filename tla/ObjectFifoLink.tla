--------------------------- MODULE ObjectFifoLink ---------------------------
(***************************************************************************)
(* The link point of an objectfifo.link as AIEObjectFifoStatefulTransform  *)
(* lowers it on AIE2: the linked objectFifos share the buffers and the two *)
(* locks of one of them (the target).  An S2MM channel for each input      *)
(* objectFifo fills the buffers, an MM2S channel for each output           *)
(* objectFifo sends them on; several inputs join their parts into one      *)
(* object, several outputs distribute the parts of one object.  An output  *)
(* may send every object Repeat times more (memtile_repeat).               *)
(*                                                                         *)
(* The far ends of the objectFifos are ObjectFifoDma's business: here a    *)
(* transfer takes any time between its start and its end.                  *)
(***************************************************************************)
EXTENDS Integers, FiniteSets, FiniteSetsExt

CONSTANTS Links,       \* the links to lower, one of which is in Init:
                       \*   ins, outs    the linked objectFifos, each with
                       \*                its DMA channel at the link point
                       \*   size         [channel] depth of its objectFifo
                       \*   inIsLarger   one to one: the input's elements
                       \*                are as large as the output's, or
                       \*                larger
                       \*   onMemTile    the link point is a memtile
                       \*   repeat       getRepeatCount()
          Objects      \* objects that arrive from each input (bound)

ChannelsOf(l) == l.ins \cup l.outs
IsJoin(l) == Cardinality(l.ins) > 1
IsDistribute(l) == Cardinality(l.outs) > 1

(* createObjectFifoElements: the objectFifo whose elements are created.    *)
TargetOf(l) == IF ~ IsJoin(l) /\ (IsDistribute(l) \/ l.inIsLarger)
               THEN CHOOSE i \in l.ins : TRUE
               ELSE CHOOSE o \in l.outs : TRUE

(* Join and distribute are modelled for memtiles.  A chain of descriptors  *)
(* that is longer than the buffers is cut short and ends in an empty block *)
(* (createAIETileDMA), which is no valid program.                          *)
IsLink(l) ==
    /\ IsFiniteSet(l.ins) /\ l.ins # {} /\ IsFiniteSet(l.outs) /\ l.outs # {}
    /\ l.ins \cap l.outs = {}
    /\ ~ (IsJoin(l) /\ IsDistribute(l))
    /\ l.size \in [ChannelsOf(l) -> Nat \ {0}]
    /\ l.inIsLarger \in BOOLEAN /\ l.onMemTile \in BOOLEAN /\ l.repeat \in Nat
    /\ ~ l.onMemTile => /\ ~ IsJoin(l) /\ ~ IsDistribute(l) /\ l.repeat = 0
                        /\ \A c \in ChannelsOf(l) : l.size[c] <= l.size[TargetOf(l)]

ASSUME LinkAssumption == /\ \A l \in Links : IsLink(l)
                         /\ Objects \in Nat

VARIABLES link,   \* the link that is lowered
          lock,   \* [side] value of the prod and of the cons lock
          bd,     \* [channel] buffer of its current buffer descriptor
          busy,   \* [channel] the descriptor has its lock: data is moving
          buff,   \* [buffer][part] number of the object in it, Torn while
                  \* an input is writing it
          moved   \* [channel] transfers completed (history)

vars == <<link, lock, bd, busy, buff, moved>>

AllChannels == UNION {ChannelsOf(l) : l \in Links}
Channels == ChannelsOf(link)
Target == TargetOf(link)
Depth == link.size[Target]
Buffers == 0 .. (Depth - 1)

Torn == 0
Parts == IF IsJoin(link) THEN link.ins
         ELSE IF IsDistribute(link) THEN link.outs ELSE {"whole"}

TypeOK == /\ link \in Links
          /\ lock \in [{"prod", "cons"} -> Nat]
          /\ bd \in [Channels -> Buffers]
          /\ busy \in [Channels -> BOOLEAN]
          /\ buff \in [Buffers -> [Parts -> 0 .. Objects]]
          /\ moved \in [Channels -> Nat]

(* Transfers that one filling of a buffer takes part in, the same number   *)
(* on both sides: createObjectFifoElements multiplies the lock by it.      *)
Uses == (link.repeat + 1) * Cardinality(Parts)

(* Slips: one buffer too many; the lock is not scaled.                     *)
InitLockOneExtra == [s \in {"prod", "cons"} |-> IF s = "prod" THEN (Depth + 1) * Uses ELSE 0]
InitLockUnscaled == [s \in {"prod", "cons"} |-> IF s = "prod" THEN Depth ELSE 0]

InitLock == [s \in {"prod", "cons"} |-> IF s = "prod" THEN Depth * Uses ELSE 0]

Init == /\ link \in Links
        /\ lock = InitLock
        /\ bd = [c \in Channels |-> 0]
        /\ busy = [c \in Channels |-> FALSE]
        /\ buff = [b \in Buffers |-> [p \in Parts |-> Torn]]
        /\ moved = [c \in Channels |-> 0]

-----------------------------------------------------------------------------
(* Lock units that a descriptor takes, and that it releases:               *)
(* createMemTileDMA scales those of the target, createAIETileDMA always    *)
(* uses one.                                                               *)
AcqNum(c) == IF link.onMemTile /\ c = Target THEN Uses ELSE 1


(* Slip: only the acquire is scaled.                                       *)
RelNumUnscaled(c) == 1

RelNum(c) == AcqNum(c)

(* Slip: one descriptor too many.                                          *)
NumBlocksOneExtra(c) == Depth + 1

(* Length of the ring of descriptors: createMemTileDMA follows the         *)
(* target's buffers, createAIETileDMA the channel's own objectFifo.        *)
NumBlocks(c) == IF link.onMemTile THEN Depth ELSE link.size[c]

(* The parts of a buffer between the offset and the length of a channel's  *)
(* descriptors.                                                            *)
Touches(c) == IF c = Target THEN Parts ELSE IF c \in Parts THEN {c} ELSE Parts

(* An S2MM channel waits for the prod lock, an MM2S channel for the cons.  *)
AcqLock(c) == IF c \in link.ins THEN "prod" ELSE "cons"
RelLock(c) == IF c \in link.ins THEN "cons" ELSE "prod"

Fill(b, parts, obj) ==
    [buff EXCEPT ![b] = [p \in Parts |-> IF p \in parts THEN obj ELSE @[p]]]

(* The descriptor gets its lock and the transfer starts.                   *)
Start(c) ==
    /\ c \in Channels /\ ~ busy[c]
    /\ c \in link.ins => moved[c] < Objects
    /\ lock[AcqLock(c)] >= AcqNum(c)
    /\ lock' = [lock EXCEPT ![AcqLock(c)] = @ - AcqNum(c)]
    /\ busy' = [busy EXCEPT ![c] = TRUE]
    /\ buff' = IF c \in link.ins THEN Fill(bd[c], Touches(c), Torn) ELSE buff
    /\ UNCHANGED <<link, bd, moved>>

(* The transfer ends, the other lock is released and the next descriptor   *)
(* of the ring is loaded.                                                  *)
Finish(c) ==
    /\ c \in Channels /\ busy[c]
    /\ lock' = [lock EXCEPT ![RelLock(c)] = @ + RelNum(c)]
    /\ busy' = [busy EXCEPT ![c] = FALSE]
    /\ buff' = IF c \in link.ins THEN Fill(bd[c], Touches(c), moved[c] + 1) ELSE buff
    /\ bd' = [bd EXCEPT ![c] = (@ + 1) % NumBlocks(c)]
    /\ moved' = [moved EXCEPT ![c] = @ + 1]
    /\ UNCHANGED link

Units(chans) == MapThenSumSet(LAMBDA c : AcqNum(c) * moved[c], chans)

(* Every object has come in, and all that came in has been sent.           *)
Done == /\ \A i \in link.ins : moved[i] = Objects
        /\ Units(link.outs) = Units(link.ins)
Terminating == Done /\ UNCHANGED vars

Next == \/ \E c \in AllChannels : Start(c) \/ Finish(c)
        \/ Terminating

Spec == Init /\ [][Next]_vars

(* Every DMA channel runs on by itself.                                    *)
Fairness == \A c \in AllChannels : WF_vars(Start(c) \/ Finish(c))
FairSpec == Spec /\ Fairness

-----------------------------------------------------------------------------
(* The two locks and the channels that have taken from them always add up  *)
(* to the initial value: no transfer loses or forges a unit, whatever the  *)
(* scaling of its acquire and release.  Only the target's are scaled, the  *)
(* others take one unit each.                                              *)
UnitsTaken == Cardinality({c \in Channels \ {Target} : busy[c]})
                + IF busy[Target] THEN AcqNum(Target) ELSE 0
LocksConserved == lock["prod"] + lock["cons"] + UnitsTaken = Depth * Uses

(* While an output is sending, what it reads are the parts of the object   *)
(* that is due on its objectFifo: objects arrive at the link in order and  *)
(* leave it complete, unmodified, in order, each repeat + 1 times.         *)
PartsInOrder ==
    \A o \in link.outs : busy[o] =>
        \A p \in Touches(o) : buff[bd[o]][p] = moved[o] \div (link.repeat + 1) + 1

(* The two locks count transfers, not which transfer of which buffer.      *)
(* That is enough when every transfer moves a whole buffer that is moved   *)
(* once, or is the only buffer, and both rings go over the same buffers:   *)
(* such a link keeps every object in order.  A repeat scales the target    *)
(* only: with the output as the target, an input fills the buffer repeat   *)
(* + 1 times before it is sent once.                                       *)
EveryTransferAlike == /\ Parts = {"whole"}
                      /\ \/ link.repeat = 0
                         \/ Depth = 1 /\ Target \in link.ins
                      /\ \A c \in Channels : NumBlocks(c) = Depth
PlainLinksInOrder == EveryTransferAlike => PartsInOrder

(* Everything that comes in is sent on: the channels never wait for each   *)
(* other forever.                                                          *)
Completes == <>Done
=============================================================================
