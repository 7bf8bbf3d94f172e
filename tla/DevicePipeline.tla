--------------------------- MODULE DevicePipeline ---------------------------
(***************************************************************************)
(* The passes that aiecc runs on a device, one after the other, on what    *)
(* the ones before have left: lock identifiers, objectFifos, descriptor    *)
(* identifiers, flows of broadcasts, multicasts and of the control overlay,*)
(* and buffer addresses; then, on copies of the result, the locks of every *)
(* core's program and the routes through the stream switches.  A pass that *)
(* fails is the last one.                                                  *)
(***************************************************************************)
EXTENDS ControlOverlay, ObjectFifoResources

CONSTANT Programs    \* devices as the program describes them

VARIABLES userBDs,      \* descriptors whose identifier the program gives
          localLocks    \* [core][lock] the number of a lock in its program

pipelineVars == <<lockVars, bdVars, bufVars, fifoVars, overlayVars, routeVars,
                  switchVars, userBDs, localLocks>>

Load(p) ==
    /\ tileOps = p.tileOps
    /\ lockOps = p.lockOps /\ memOps = p.memOps /\ bdOps = p.bdOps
    /\ bufs = p.bufs /\ stack = p.stack /\ basic = p.basic
    /\ tilesLeft = p.tileOps
    /\ fifos = p.fifos /\ broadcasts = p.broadcasts /\ multicasts = p.multicasts
    /\ pktFlows = p.pktFlows /\ circuits = p.circuits
    /\ connects = p.connects
    /\ fixed = {<<At(c.tile, c.src), At(c.tile, c.dst)>> : c \in ToSet(p.connects)}
    /\ controllerID = p.controllerID /\ columnWise = p.columnWise
    /\ tctRouting = p.tctRouting /\ shimToCtrl = p.shimToCtrl

Init == /\ \E p \in Programs : Load(p)
        /\ LockInit /\ BdInit /\ BufInit /\ FifoInit /\ OverlayInit /\ RouteInit /\ SwitchInit
        /\ userBDs = {i \in DOMAIN bdOps : bdOps[i].id # NoBdID}
        /\ localLocks = <<>>

-----------------------------------------------------------------------------
AssignLockIDs ==
    /\ LockNext
    /\ UNCHANGED <<bdVars, bufVars, fifoVars, overlayVars, routeVars, switchVars,
                   userBDs, localLocks>>

TransformObjectFifos ==
    /\ lockResult = "success"
    /\ \/ SplitFifos /\ UNCHANGED <<lockOps, bufs, memOps, bdOps, circuits>>
       \/ CreateElements /\ UNCHANGED <<memOps, bdOps, circuits>>
       \/ CreateDMAs /\ UNCHANGED <<lockOps, bufs>>
       \/ EndFifoPass /\ UNCHANGED <<lockOps, bufs, memOps, bdOps, circuits>>
    /\ UNCHANGED <<walked, assigned, nextLockID, lockResult>>
    /\ UNCHANGED <<mem, bdIDsTaken, bdChannel, start, block, bdResult>>
    /\ UNCHANGED <<stack, basic, tilesLeft, inTile, nextAddr, unchecked, waiting,
                   bankIndex, bufResult>>
    /\ UNCHANGED <<pktFlows, tileOps, unrouted, overlayVars, userBDs, localLocks>>

AssignBufferDescriptorIDs ==
    /\ fifoResult = "success" /\ BdNext
    /\ UNCHANGED <<lockVars, bufVars, fifoVars, overlayVars, routeVars, switchVars,
                   userBDs, localLocks>>

LowerFlows ==
    /\ bdResult = "success" /\ OverlayNext
    /\ UNCHANGED <<lockVars, bdVars, bufVars, fifoVars, unrouted, userBDs, localLocks>>

AssignBufferAddresses ==
    /\ overlayStage = "done" /\ BufNext
    /\ UNCHANGED <<lockVars, bdVars, fifoVars, overlayVars, routeVars, switchVars,
                   userBDs, localLocks>>

(* The programs of the cores are compiled and the routes are found on      *)
(* copies of what the passes have left so far; which one comes first makes *)
(* no difference.  Here every core tile has a program.                     *)
LocalizeLocks ==
    /\ bufResult = "success" /\ localLocks = <<>>
    /\ localLocks' = [c \in {t \in Tiles : IsCore(t)} |->
                         [i \in LocalLocks(c) |-> LocalIndex(c, i)]]
    /\ UNCHANGED <<lockVars, bdVars, bufVars, fifoVars, overlayVars, routeVars,
                   switchVars, userBDs>>

CreatePathfinderFlows ==
    /\ localLocks # <<>>
    /\ \/ RouteNext /\ UNCHANGED switchVars
       \/ SwitchNext /\ UNCHANGED routeVars
    /\ UNCHANGED <<lockVars, bdVars, bufVars, fifoVars, overlayVars, userBDs, localLocks>>

Next == \/ AssignLockIDs \/ TransformObjectFifos \/ AssignBufferDescriptorIDs
        \/ LowerFlows \/ AssignBufferAddresses \/ LocalizeLocks \/ CreatePathfinderFlows

Spec == Init /\ [][Next]_pipelineVars

-----------------------------------------------------------------------------
(* Every pass leaves what the next ones may expect: operations that pass   *)
(* their verifiers, and its own bookkeeping within range.                  *)
TypeOK == LockTypeOK /\ BdTypeOK /\ BufTypeOK

(* A pass that runs out of locks or descriptors does so only when there is *)
(* none left that it could give.                                           *)
GivesUpRightly == LocksExhaustedRightly /\ BdsExhaustedRightly

(* In the program of a core a number stands for one lock, wherever the     *)
(* lock lies and whether the user, the lock pass or an objectFifo numbered *)
(* it.                                                                     *)
LocalLocksUnambiguous ==
    \A c \in DOMAIN localLocks :
        \A i, j \in DOMAIN localLocks[c] : localLocks[c][i] = localLocks[c][j] => i = j

(* A channel reaches the identifiers of all its descriptors that the       *)
(* program has not fixed.                                                  *)
BdsReachable == ChannelsReachTheirBds(userBDs)
=============================================================================
