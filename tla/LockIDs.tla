------------------------------ MODULE LockIDs ------------------------------
(***************************************************************************)
(* The pass aie-assign-lock-ids gives every lock of a device an identifier *)
(* that is free in its tile, and aie-localize-locks turns the identifiers  *)
(* into the numbers by which a core addresses the locks of its own tile    *)
(* and of its neighbours.                                                  *)
(***************************************************************************)
EXTENDS TargetModel

CONSTANT NoLockID     \* the lock has no identifier yet

ASSUME LockAssumption == NoLockID \notin Nat

VARIABLES lockOps,      \* the locks in program order: [tile, id]
          walked,       \* locks that the walk has collected
          assigned,     \* [tile] identifiers that the walk has found
          nextLockID,   \* [tile] where the search for a free one goes on
          lockResult    \* "running", "success", or how the pass failed:
                        \* "duplicate" (it goes on), "exhausted" (it stops)

lockVars == <<lockOps, walked, assigned, nextLockID, lockResult>>

(* LockOp::verify has rejected identifiers beyond those of the tile.       *)
LockOp == {op \in [tile : Tiles, id : Nat \cup {NoLockID}] :
              op.id = NoLockID \/ op.id < NumLocks(op.tile)}

LockInit == /\ lockOps \in Seq(LockOp)
            /\ walked = 0
            /\ assigned = [t \in Tiles |-> {}]
            /\ nextLockID = [t \in Tiles |-> 0]
            /\ lockResult = "running"

LockTypeOK == /\ lockOps \in Seq(LockOp)
              /\ walked \in 0 .. Len(lockOps)
              /\ assigned \in [Tiles -> SUBSET Nat]
              /\ nextLockID \in [Tiles -> Nat]
              /\ lockResult \in {"running", "duplicate", "exhausted", "success"}

-----------------------------------------------------------------------------
(* Slip: a lock that has an identifier is not noted.                       *)
WalkLockUnnoted ==
    /\ lockResult \in {"running", "duplicate"} /\ walked < Len(lockOps)
    /\ walked' = walked + 1
    /\ UNCHANGED <<lockOps, assigned, nextLockID, lockResult>>

(* The walk notes the identifiers in use.  One that is used twice makes    *)
(* the pass fail, but the walk goes on.                                    *)
WalkLock ==
    /\ lockResult \in {"running", "duplicate"} /\ walked < Len(lockOps)
    /\ walked' = walked + 1
    /\ LET op == lockOps[walked + 1] IN
       /\ assigned' = IF op.id = NoLockID THEN assigned
                      ELSE [assigned EXCEPT ![op.tile] = @ \cup {op.id}]
       /\ lockResult' = IF op.id \in assigned[op.tile] THEN "duplicate" ELSE lockResult
    /\ UNCHANGED <<lockOps, nextLockID>>

(* Where the search that starts at nextLockID stops: at the first          *)
(* identifier that is free, or beyond the last.                            *)
LimitOffByOne(t) == NumLocks(t) + 1    \* slip

Limit(t) == NumLocks(t)
FreeLockID(t) ==
    CHOOSE n \in nextLockID[t] .. Limit(t) :
        /\ n = Limit(t) \/ n \notin assigned[t]
        /\ \A m \in nextLockID[t] .. (n - 1) : m \in assigned[t]

Unassigned(t) == {i \in DOMAIN lockOps : lockOps[i].tile = t /\ lockOps[i].id = NoLockID}

(* The tiles are served one after the other, in no known order (a          *)
(* DenseMap), and the locks of a tile in program order.                    *)
AssignLock(i) ==
    LET t == lockOps[i].tile
        id == FreeLockID(t)
    IN  /\ lockResult \in {"running", "duplicate"} /\ walked = Len(lockOps)
        /\ i \in Unassigned(t) /\ \A j \in Unassigned(t) : i <= j
        /\ \A u \in {w \in Tiles \ {t} : nextLockID[w] # 0} : Unassigned(u) = {}
        /\ IF id = Limit(t)
           THEN /\ lockResult' = "exhausted"
                /\ UNCHANGED <<lockOps, nextLockID>>
           ELSE /\ lockOps' = [lockOps EXCEPT ![i].id = id]
                /\ nextLockID' = [nextLockID EXCEPT ![t] = id + 1]
                /\ UNCHANGED lockResult
        /\ UNCHANGED <<walked, assigned>>

EndLockPass ==
    /\ lockResult = "running" /\ walked = Len(lockOps)
    /\ \A t \in Tiles : Unassigned(t) = {}
    /\ lockResult' = "success"
    /\ UNCHANGED <<lockOps, walked, assigned, nextLockID>>

LockNext == WalkLock \/ (\E i \in DOMAIN lockOps : AssignLock(i)) \/ EndLockPass

LockSpec == LockInit /\ [][LockNext]_lockVars

-----------------------------------------------------------------------------
(* aie-localize-locks: the number of lock i in the program of the core of  *)
(* tile c, an offset for the side of c on which the lock's tile lies.      *)
SideOffset == [s \in {"South", "West", "North", "East"} |->
                 CASE s = "South" -> 0 [] s = "West" -> 1
                   [] s = "North" -> 2 [] s = "East" -> 3]

LocalLocks(c) == {i \in DOMAIN lockOps : LegalMemAffinity(c, lockOps[i].tile)}

(* Slip: the side is forgotten.                                            *)
LocalIndexWithoutSide(c, i) == lockOps[i].id

LocalIndex(c, i) ==
    SideOffset[Side(c, lockOps[i].tile)] * NumLocks(lockOps[i].tile) + lockOps[i].id

-----------------------------------------------------------------------------
(* When the pass succeeds, every lock has an identifier of its tile that   *)
(* no other lock has, whether the user or the pass chose it.               *)
LocksDistinct ==
    lockResult = "success" =>
        /\ \A i \in DOMAIN lockOps : lockOps[i].id \in 0 .. (NumLocks(lockOps[i].tile) - 1)
        /\ \A i, j \in DOMAIN lockOps :
              /\ i # j
              /\ lockOps[i].tile = lockOps[j].tile
              => lockOps[i].id # lockOps[j].id

(* The pass gives up only on a tile of which every identifier is taken,    *)
(* never while one is free that the search has skipped.                    *)
LocksExhaustedRightly ==
    lockResult = "exhausted" =>
        \E t \in Tiles : /\ Unassigned(t) # {}
                         /\ \A n \in 0 .. (NumLocks(t) - 1) :
                               \E i \in DOMAIN lockOps : lockOps[i] = [tile |-> t, id |-> n]
=============================================================================
