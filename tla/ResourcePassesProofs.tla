------------------------- MODULE ResourcePassesProofs -------------------------
(***************************************************************************)
(* Proofs about LockIDs, BdIDs, BufferAddresses and PathFinder, for any    *)
(* device and any program of locks, descriptors, buffers and flows.        *)
(*                                                                         *)
(* Locks (LockInv): identifiers that are given, by the program or by the   *)
(* pass, are those noted by the walk and those that the search has left    *)
(* behind, in both directions.  So the one that the search stops at is new,*)
(* and when it runs to the end every identifier has a lock.                *)
(*                                                                         *)
(* Descriptors (BdInv): while a DMA is served, the generator's set is what *)
(* the descriptors of that DMA have, and no two of them have the same.  So *)
(* a new identifier is new, a failed search has met a descriptor at every  *)
(* identifier in reach, and the second loop, which looks up the successors,*)
(* names exactly one descriptor each time.                                 *)
(*                                                                         *)
(* Buffers (BufInv): the basic scheme is the other one with a single       *)
(* section.  The buffers of the tile in hand that have their place lie     *)
(* apart and below the next address of their section, which only grows; at *)
(* the end of the tile every next address is within its section, and the   *)
(* sections lie apart.                                                     *)
(*                                                                         *)
(* The router (RouteInv): while an iteration routes flow after flow, the   *)
(* counters tell how often every connection is taken: packets of one group *)
(* that share it count once, as pending until the group is done, and until *)
(* everything is ripped up counters only grow.  So when no connection is   *)
(* used twice, routes that share one are packets of a group.  The search   *)
(* stays in the graph and comes to every end point over a connection that  *)
(* is open, and a route goes back from each destination to what it has     *)
(* reached before; so its connections are legal, and lead from its source  *)
(* to its destinations.  The model's folds and recursions are unrolled,    *)
(* each once, along 0 .. N.                                                *)
(***************************************************************************)
EXTENDS LockIDs, BdIDs, BufferAddresses, PathFinder, ArithmeticLemmas,
        SequenceTheorems, FiniteSetTheorems

(***************************************************************************)
(* Lock identifiers                                                        *)
(***************************************************************************)
(* Lock i has an identifier, and it is an old one.                         *)
Noted(i) == \/ lockOps[i].id \in assigned[lockOps[i].tile]
            \/ lockOps[i].id < nextLockID[lockOps[i].tile]

(* Every old identifier of tile t has a lock.                              *)
Held(t, n) == \E i \in DOMAIN lockOps : lockOps[i] = [tile |-> t, id |-> n]

GivenAreNoted ==
    \A i \in DOMAIN lockOps : i <= walked /\ lockOps[i].id # NoLockID => Noted(i)

NotedAreHeld ==
    \A t \in Tiles : \A n \in Nat :
        n \in assigned[t] \/ n < nextLockID[t] => Held(t, n)

GivenOnce ==
    lockResult \in {"running", "success"} =>
        \A i, j \in 1 .. walked :
            i # j /\ lockOps[i].tile = lockOps[j].tile =>
                lockOps[i].id = NoLockID \/ lockOps[i].id # lockOps[j].id

(* The search begins when the walk is over and stays in the tile.          *)
SearchInTile ==
    /\ walked < Len(lockOps) => \A t \in Tiles : nextLockID[t] = 0
    /\ \A t \in Tiles : nextLockID[t] <= NumLocks(t)

SuccessIsTotal ==
    lockResult = "success" =>
        walked = Len(lockOps) /\ \A i \in DOMAIN lockOps : lockOps[i].id # NoLockID

LockInv == /\ LockTypeOK /\ GivenAreNoted /\ NotedAreHeld /\ GivenOnce
           /\ SearchInTile /\ SuccessIsTotal /\ LocksExhaustedRightly
-----------------------------------------------------------------------------
LEMMA NumLocksType == ASSUME NEW t PROVE NumLocks(t) \in Nat
  BY TargetAssumption DEF NumLocks

(* What a lock is made of.                                                 *)
LEMMA LockFields ==
    ASSUME LockTypeOK, NEW i \in DOMAIN lockOps
    PROVE  /\ lockOps[i] \in LockOp /\ lockOps[i].tile \in Tiles
           /\ lockOps[i].id \in Nat \cup {NoLockID}
           /\ lockOps[i].id = NoLockID \/ lockOps[i].id < NumLocks(lockOps[i].tile)
           /\ lockOps[i] = [tile |-> lockOps[i].tile, id |-> lockOps[i].id]
  <1>1. lockOps[i] \in LockOp
    BY DEF LockTypeOK
  <1> QED BY <1>1 DEF LockOp

LEMMA GivenID ==
    ASSUME LockTypeOK, NEW i \in DOMAIN lockOps, lockOps[i].id # NoLockID
    PROVE  lockOps[i].id \in 0 .. (NumLocks(lockOps[i].tile) - 1)
  <1>1. lockOps[i].id \in Nat /\ lockOps[i].id < NumLocks(lockOps[i].tile)
    BY LockFields
  <1> QED BY <1>1, NumLocksType

(* The search stops at an identifier of the tile that is not noted, or     *)
(* beyond the last one when all from nextLockID on are noted.              *)
LEMMA SearchResult ==
    ASSUME LockTypeOK, SearchInTile, NEW t \in Tiles
    PROVE  /\ FreeLockID(t) \in nextLockID[t] .. NumLocks(t)
           /\ FreeLockID(t) = NumLocks(t) \/ FreeLockID(t) \notin assigned[t]
           /\ \A m \in nextLockID[t] .. (FreeLockID(t) - 1) : m \in assigned[t]
  <1>1. /\ nextLockID[t] \in Nat /\ NumLocks(t) \in Nat
        /\ nextLockID[t] <= NumLocks(t)
    BY NumLocksType DEF LockTypeOK, SearchInTile
  <1>2. \E n \in nextLockID[t] .. NumLocks(t) :
            /\ n = NumLocks(t) \/ n \notin assigned[t]
            /\ \A m \in nextLockID[t] .. (n - 1) : m \in assigned[t]
    BY <1>1, SearchEnds
  <1> QED BY <1>2 DEF FreeLockID, Limit
-----------------------------------------------------------------------------
LEMMA LockInitInv == LockInit => LockInv
  <1> SUFFICES ASSUME LockInit PROVE LockInv
    OBVIOUS
  <1>1. LockTypeOK
    BY DEF LockInit, LockTypeOK
  <1>2. GivenAreNoted /\ GivenOnce
    BY DEF LockInit, GivenAreNoted, GivenOnce
  <1>3. NotedAreHeld
    BY DEF LockInit, NotedAreHeld
  <1>4. SearchInTile
    BY NumLocksType DEF LockInit, SearchInTile
  <1>5. SuccessIsTotal /\ LocksExhaustedRightly
    BY DEF LockInit, SuccessIsTotal, LocksExhaustedRightly
  <1> QED BY <1>1, <1>2, <1>3, <1>4, <1>5 DEF LockInv

LEMMA WalkLockInv == LockInv /\ WalkLock => LockInv'
  <1> SUFFICES ASSUME LockInv, WalkLock PROVE LockInv'
    OBVIOUS
  <1> DEFINE k == walked + 1
             op == lockOps[k]
  <1>1. /\ LockTypeOK /\ lockOps' = lockOps /\ nextLockID' = nextLockID
        /\ walked' = k /\ k \in DOMAIN lockOps /\ walked \in Nat
        /\ Len(lockOps) \in Nat /\ DOMAIN lockOps = 1 .. Len(lockOps)
        /\ lockResult \in {"running", "duplicate"}
    BY DEF LockInv, LockTypeOK, WalkLock
  <1>2. /\ op.tile \in Tiles /\ op.id \in Nat \cup {NoLockID}
        /\ op = [tile |-> op.tile, id |-> op.id]
    BY <1>1, LockFields
  <1>3. /\ assigned \in [Tiles -> SUBSET Nat]
        /\ assigned' = IF op.id = NoLockID THEN assigned
                       ELSE [assigned EXCEPT ![op.tile] = @ \cup {op.id}]
        /\ lockResult' = IF op.id \in assigned[op.tile] THEN "duplicate" ELSE lockResult
    BY <1>1 DEF WalkLock, LockTypeOK
  <1>4. \A t \in Tiles : assigned'[t] = IF t = op.tile /\ op.id # NoLockID
                                         THEN assigned[t] \cup {op.id} ELSE assigned[t]
    BY <1>2, <1>3
  <1>5. LockTypeOK'
    BY <1>1, <1>2, <1>3 DEF LockTypeOK
  <1>6. GivenAreNoted'
    <2> SUFFICES ASSUME NEW i \in DOMAIN lockOps, i <= k, lockOps[i].id # NoLockID
                 PROVE  Noted(i)'
      BY <1>1 DEF GivenAreNoted
    <2>1. lockOps[i].tile \in Tiles
      BY <1>1, LockFields
    <2>2. CASE i = k
      BY <2>1, <2>2, <1>1, <1>4 DEF Noted
    <2>3. CASE i # k
      <3>1. Noted(i)
        BY <2>3, <1>1 DEF LockInv, GivenAreNoted
      <3> QED BY <3>1, <2>1, <1>1, <1>4 DEF Noted
    <2> QED BY <2>2, <2>3
  <1>7. NotedAreHeld'
    <2> SUFFICES ASSUME NEW t \in Tiles, NEW n \in Nat,
                        n \in assigned'[t] \/ n < nextLockID[t]
                 PROVE  Held(t, n)
      BY <1>1 DEF NotedAreHeld, Held
    <2>1. CASE n \in assigned[t] \/ n < nextLockID[t]
      BY <2>1 DEF LockInv, NotedAreHeld
    <2>2. CASE t = op.tile /\ n = op.id
      BY <2>2, <1>1, <1>2 DEF Held
    <2> QED BY <2>1, <2>2, <1>4
  <1>8. GivenOnce'
    <2> SUFFICES ASSUME lockResult' = "running",
                        NEW i \in 1 .. k, NEW j \in 1 .. k, i # j,
                        lockOps[i].tile = lockOps[j].tile, lockOps[i].id # NoLockID
                 PROVE  lockOps[i].id # lockOps[j].id
      BY <1>1, <1>3 DEF GivenOnce
    <2>1. lockResult = "running" /\ op.id \notin assigned[op.tile]
      BY <1>1, <1>3
    <2>2. \A t \in Tiles : nextLockID[t] = 0
      BY <1>1 DEF LockInv, SearchInTile, WalkLock
    <2>3. ASSUME NEW l \in 1 .. walked, lockOps[l].id # NoLockID
          PROVE  lockOps[l].id \in assigned[lockOps[l].tile]
      <3>1. l \in DOMAIN lockOps /\ l <= walked
        BY <1>1
      <3>2. lockOps[l].tile \in Tiles /\ lockOps[l].id \in Nat
        BY <3>1, <2>3, <1>1, LockFields
      <3> QED BY <3>1, <3>2, <2>2, <2>3 DEF LockInv, GivenAreNoted, Noted
    <2>4. CASE i \in 1 .. walked /\ j \in 1 .. walked
      BY <2>1, <2>4 DEF LockInv, GivenOnce
    <2>5. CASE i = k /\ j \in 1 .. walked
      BY <2>1, <2>3, <2>5
    <2>6. CASE j = k /\ i \in 1 .. walked
      BY <2>1, <2>3, <2>6
    <2> QED BY <2>4, <2>5, <2>6, <1>1
  <1>9. SearchInTile'
    BY <1>1 DEF LockInv, SearchInTile
  <1>10. SuccessIsTotal' /\ LocksExhaustedRightly'
    BY <1>1, <1>3 DEF SuccessIsTotal, LocksExhaustedRightly
  <1> QED BY <1>5, <1>6, <1>7, <1>8, <1>9, <1>10 DEF LockInv

LEMMA AssignLockInv ==
    ASSUME LockInv, NEW i \in DOMAIN lockOps, AssignLock(i)
    PROVE  LockInv'
  <1> DEFINE t == lockOps[i].tile
             id == FreeLockID(t)
  <1>1. /\ LockTypeOK /\ walked' = walked /\ assigned' = assigned
        /\ walked = Len(lockOps) /\ i \in Unassigned(t)
        /\ lockResult \in {"running", "duplicate"}
        /\ DOMAIN lockOps = 1 .. Len(lockOps) /\ Len(lockOps) \in Nat
    BY DEF LockInv, LockTypeOK, AssignLock
  <1>2. t \in Tiles /\ lockOps[i].id = NoLockID /\ NumLocks(t) \in Nat
    BY <1>1, LockFields, NumLocksType DEF Unassigned
  <1>3. /\ id \in nextLockID[t] .. NumLocks(t)
        /\ id = NumLocks(t) \/ id \notin assigned[t]
        /\ \A m \in nextLockID[t] .. (id - 1) : m \in assigned[t]
    BY <1>1, <1>2, SearchResult DEF LockInv
  <1>4. nextLockID \in [Tiles -> Nat] /\ nextLockID[t] \in Nat
    BY <1>1, <1>2 DEF LockTypeOK
  <1>5. CASE id = NumLocks(t)
    <2>1. /\ lockResult' = "exhausted" /\ lockOps' = lockOps
          /\ nextLockID' = nextLockID
      BY <1>5 DEF AssignLock, Limit
    <2>2. \A n \in 0 .. (NumLocks(t) - 1) : Held(t, n)
      <3> SUFFICES ASSUME NEW n \in 0 .. (NumLocks(t) - 1) PROVE Held(t, n)
        OBVIOUS
      <3>1. n < nextLockID[t] \/ n \in assigned[t]
        BY <1>2, <1>3, <1>4, <1>5
      <3> QED BY <3>1, <1>2 DEF LockInv, NotedAreHeld
    <2>3. LocksExhaustedRightly'
      BY <2>1, <2>2, <1>1, <1>2 DEF LocksExhaustedRightly, Held, Unassigned
    <2>4. LockTypeOK' /\ SearchInTile'
      BY <2>1, <1>1 DEF LockInv, LockTypeOK, SearchInTile
    <2>5. GivenAreNoted' /\ NotedAreHeld'
      BY <2>1, <1>1 DEF LockInv, GivenAreNoted, Noted, NotedAreHeld, Held
    <2>6. GivenOnce' /\ SuccessIsTotal'
      BY <2>1 DEF GivenOnce, SuccessIsTotal
    <2> QED BY <2>3, <2>4, <2>5, <2>6 DEF LockInv
  <1>6. CASE id # NumLocks(t)
    <2>1. /\ lockOps' = [lockOps EXCEPT ![i].id = id]
          /\ nextLockID' = [nextLockID EXCEPT ![t] = id + 1]
          /\ lockResult' = lockResult
      BY <1>6 DEF AssignLock, Limit
    <2>2. id \in Nat /\ id < NumLocks(t) /\ id \notin assigned[t] /\ id >= nextLockID[t]
      BY <1>2, <1>3, <1>4, <1>6
    <2>3. lockOps' = [lockOps EXCEPT ![i] = [tile |-> t, id |-> id]]
      <3>1. [lockOps[i] EXCEPT !.id = id] = [tile |-> t, id |-> id]
        <4>1. lockOps[i] = [tile |-> t, id |-> lockOps[i].id]
          BY <1>1, LockFields
        <4> HIDE DEF t, id
        <4> QED BY <4>1
      <3> HIDE DEF t, id
      <3> QED BY <2>1, <3>1
    <2>4. /\ DOMAIN lockOps' = DOMAIN lockOps /\ Len(lockOps') = Len(lockOps)
          /\ lockOps'[i] = [tile |-> t, id |-> id]
          /\ \A j \in DOMAIN lockOps \ {i} : lockOps'[j] = lockOps[j]
          /\ \A j \in DOMAIN lockOps : lockOps'[j].tile = lockOps[j].tile
      <3>1. lockOps \in Seq(LockOp)
        BY <1>1 DEF LockTypeOK
      <3> HIDE DEF t, id
      <3>2. /\ DOMAIN lockOps' = DOMAIN lockOps /\ Len(lockOps') = Len(lockOps)
            /\ lockOps'[i] = [tile |-> t, id |-> id]
            /\ \A j \in DOMAIN lockOps \ {i} : lockOps'[j] = lockOps[j]
        BY <2>3, <3>1
      <3> QED BY <3>2 DEF t
    <2>5. /\ nextLockID' \in [Tiles -> Nat]
          /\ \A u \in Tiles : nextLockID'[u] = IF u = t THEN id + 1 ELSE nextLockID[u]
      BY <2>1, <2>2, <1>2, <1>4
    <2>6. LockTypeOK'
      <3>1. lockOps \in Seq(LockOp) /\ [tile |-> t, id |-> id] \in LockOp
        BY <1>1, <1>2, <2>2 DEF LockTypeOK, LockOp
      <3>2. lockOps' \in Seq(LockOp)
        <4> HIDE DEF t, id
        <4> QED BY <3>1, <2>3, <1>1, ExceptSeq
      <3> QED BY <3>2, <2>1, <2>4, <2>5, <1>1 DEF LockTypeOK
    <2>7. GivenAreNoted'
      <3> SUFFICES ASSUME NEW j \in DOMAIN lockOps, lockOps'[j].id # NoLockID
                   PROVE  Noted(j)'
        BY <2>4 DEF GivenAreNoted
      <3>1. lockOps[j].tile \in Tiles
        BY <1>1, LockFields
      <3>2. CASE j = i
        BY <3>2, <2>4, <2>5, <2>2, <1>2 DEF Noted
      <3>3. CASE j # i
        <4>1. lockOps'[j] = lockOps[j]
          BY <3>3, <2>4
        <4>2. Noted(j)
          BY <4>1, <1>1 DEF LockInv, GivenAreNoted
        <4>3. lockOps[j].id \in Nat
          BY <4>1, <1>1, GivenID
        <4>4. nextLockID[lockOps[j].tile] <= nextLockID'[lockOps[j].tile]
          <5> HIDE DEF id
          <5> QED BY <2>2, <2>5, <3>1, <1>4
        <4> QED BY <4>1, <4>2, <4>3, <4>4, <3>1, <2>5, <1>1, <1>4 DEF Noted
      <3> QED BY <3>2, <3>3
    <2>8. NotedAreHeld'
      <3> SUFFICES ASSUME NEW u \in Tiles, NEW n \in Nat,
                          n \in assigned[u] \/ n < nextLockID'[u]
                   PROVE  Held(u, n)'
        BY <1>1 DEF NotedAreHeld
      <3>1. CASE n \in assigned[u] \/ n < nextLockID[u]
        <4>1. PICK j \in DOMAIN lockOps : lockOps[j] = [tile |-> u, id |-> n]
          BY <3>1 DEF LockInv, NotedAreHeld, Held
        <4>2. j # i
          BY <4>1, <1>2, LockAssumption
        <4> QED BY <4>1, <4>2, <2>4 DEF Held
      <3>2. CASE u = t /\ n = id
        BY <3>2, <2>4 DEF Held
      <3>3. CASE u = t /\ n \in nextLockID[t] .. (id - 1)
        BY <3>1, <3>3, <1>3
      <3> QED BY <3>1, <3>2, <3>3, <2>2, <2>5, <1>4
    <2>9. GivenOnce'
      <3> SUFFICES ASSUME lockResult = "running",
                          NEW j \in DOMAIN lockOps, NEW l \in DOMAIN lockOps, j # l,
                          lockOps[j].tile = lockOps[l].tile,
                          lockOps'[j].id # NoLockID
                   PROVE  lockOps'[j].id # lockOps'[l].id
        BY <2>1, <2>4, <1>1 DEF GivenOnce
      <3>1. ASSUME NEW k \in DOMAIN lockOps \ {i}, lockOps[k].tile = t PROVE lockOps[k].id # id
        <4>1. CASE lockOps[k].id = NoLockID
          BY <4>1, <2>2, LockAssumption
        <4>2. CASE lockOps[k].id # NoLockID
          <5>1. lockOps[k].id \in Nat
            BY <4>2, <1>1, GivenID
          <5>2. Noted(k)
            BY <4>2, <1>1 DEF LockInv, GivenAreNoted
          <5> QED BY <5>1, <5>2, <3>1, <2>2, <1>4 DEF Noted
        <4> QED BY <4>1, <4>2
      <3>2. CASE j = i
        BY <3>1, <3>2, <2>4
      <3>3. CASE l = i
        BY <3>1, <3>3, <2>4
      <3>4. CASE j # i /\ l # i
        BY <3>4, <2>4, <1>1 DEF LockInv, GivenOnce
      <3> QED BY <3>2, <3>3, <3>4
    <2>10. SearchInTile'
      <3>1. walked' = Len(lockOps')
        BY <2>4, <1>1
      <3>2. \A u \in Tiles : nextLockID'[u] <= NumLocks(u)
        <4> HIDE DEF id
        <4> QED BY <2>2, <2>5, <1>2 DEF LockInv, SearchInTile
      <3>3. Len(lockOps') \in Nat
        BY <2>4, <1>1
      <3> QED BY <3>1, <3>2, <3>3 DEF SearchInTile
    <2>11. SuccessIsTotal' /\ LocksExhaustedRightly'
      BY <2>1, <1>1 DEF SuccessIsTotal, LocksExhaustedRightly
    <2> QED BY <2>6, <2>7, <2>8, <2>9, <2>10, <2>11 DEF LockInv
  <1> QED BY <1>5, <1>6

LEMMA EndLockPassInv == LockInv /\ EndLockPass => LockInv'
  <1> SUFFICES ASSUME LockInv, EndLockPass PROVE LockInv'
    OBVIOUS
  <1>1. /\ LockTypeOK /\ UNCHANGED <<lockOps, walked, assigned, nextLockID>>
        /\ lockResult = "running" /\ lockResult' = "success"
        /\ walked = Len(lockOps)
    BY DEF LockInv, EndLockPass
  <1>2. \A i \in DOMAIN lockOps : lockOps[i].id # NoLockID
    <2> SUFFICES ASSUME NEW i \in DOMAIN lockOps PROVE lockOps[i].id # NoLockID
      OBVIOUS
    <2>1. Unassigned(lockOps[i].tile) = {}
      BY <1>1, LockFields DEF EndLockPass
    <2> QED BY <2>1 DEF Unassigned
  <1>3. LockTypeOK' /\ SearchInTile'
    BY <1>1 DEF LockInv, LockTypeOK, SearchInTile
  <1>4. GivenAreNoted' /\ NotedAreHeld'
    BY <1>1 DEF LockInv, GivenAreNoted, Noted, NotedAreHeld, Held
  <1>5. GivenOnce'
    BY <1>1 DEF LockInv, GivenOnce
  <1>6. SuccessIsTotal' /\ LocksExhaustedRightly'
    BY <1>1, <1>2 DEF SuccessIsTotal, LocksExhaustedRightly
  <1> QED BY <1>3, <1>4, <1>5, <1>6 DEF LockInv

LEMMA LockStutterInv == LockInv /\ UNCHANGED lockVars => LockInv'
  BY DEF LockInv, lockVars, LockTypeOK, GivenAreNoted, Noted, NotedAreHeld, Held,
         GivenOnce, SearchInTile, SuccessIsTotal, LocksExhaustedRightly, Unassigned

LEMMA LockStepInv == LockInv /\ [LockNext]_lockVars => LockInv'
  BY WalkLockInv, AssignLockInv, EndLockPassInv, LockStutterInv DEF LockNext
-----------------------------------------------------------------------------
(* What the walk has noted and the search has left behind is what locks    *)
(* have, in every state of the pass.                                       *)
THEOREM LockInvariant == LockSpec => []LockInv
  BY LockStepInv, LockInitInv, PTL DEF LockSpec

LEMMA DistinctByInv == LockInv => LocksDistinct
  <1> SUFFICES ASSUME LockInv, lockResult = "success"
               PROVE  LocksDistinct
    BY DEF LocksDistinct
  <1>1. /\ LockTypeOK /\ walked = Len(lockOps) /\ DOMAIN lockOps = 1 .. walked
        /\ \A i \in DOMAIN lockOps : lockOps[i].id # NoLockID
    BY DEF LockInv, LockTypeOK, SuccessIsTotal
  <1>2. ASSUME NEW i \in DOMAIN lockOps
        PROVE  lockOps[i].id \in 0 .. (NumLocks(lockOps[i].tile) - 1)
    BY <1>1, GivenID
  <1>3. \A i, j \in DOMAIN lockOps :
            i # j /\ lockOps[i].tile = lockOps[j].tile => lockOps[i].id # lockOps[j].id
    BY <1>1 DEF LockInv, GivenOnce
  <1> QED BY <1>2, <1>3 DEF LocksDistinct

(* The identifiers of a device on which aie-assign-lock-ids succeeds are   *)
(* those of their tiles and each is the identifier of one lock.            *)
THEOREM LocksGetDistinctIDs == LockSpec => []LocksDistinct
  BY DistinctByInv, LockInvariant, PTL

(* It runs out of locks only on a tile whose identifiers are all in use.   *)
THEOREM LocksRunOutRightly == LockSpec => []LocksExhaustedRightly
  <1>1. LockInv => LocksExhaustedRightly
    BY DEF LockInv
  <1> QED BY <1>1, LockInvariant, PTL

(***************************************************************************)
(* Buffer descriptor identifiers                                           *)
(***************************************************************************)
TakenIsHeld == mem # 0 => bdIDsTaken = UserIDs(mem)

IDsDistinct ==
    bdResult # "crash" =>
        \A i, j \in DOMAIN bdOps :
            i # j /\ bdOps[i].mem = bdOps[j].mem /\ bdOps[i].mem <= mem =>
                bdOps[i].id = NoBdID \/ bdOps[i].id # bdOps[j].id

EarlierDone == \A i \in DOMAIN bdOps : bdOps[i].mem < mem => bdOps[i].id # NoBdID

(* The following of a channel is at a descriptor of the DMA.               *)
FollowsInMem ==
    /\ mem # 0 => Len(bdChannel) = Len(bdOps)
    /\ block # 0 => mem # 0 /\ start \in 1 .. Len(Starts) /\ block \in BdOpsOf(mem)

SuccessLinks ==
    bdResult = "success" =>
        /\ mem = Len(memOps)
        /\ \A i \in DOMAIN bdOps : bdOps[i].id # NoBdID /\ bdOps[i].next = NextID(i)

BdInv == /\ BdTypeOK /\ TakenIsHeld /\ IDsDistinct /\ EarlierDone
         /\ FollowsInMem /\ SuccessLinks /\ BdsExhaustedRightly
-----------------------------------------------------------------------------
LEMMA NumBDsType == ASSUME NEW t PROVE NumBDs(t) \in Nat
  BY TargetAssumption DEF NumBDs

(* What a descriptor is made of.                                           *)
LEMMA BdFields ==
    ASSUME BdTypeOK, NEW i \in DOMAIN bdOps
    PROVE  /\ bdOps[i] \in BdOp /\ bdOps[i].mem \in DOMAIN memOps
           /\ bdOps[i].mem \in 1 .. Len(memOps)
           /\ bdOps[i].id \in {NoBdID} \cup 0 .. (NumBDs(TileOf(i)) - 1)
           /\ bdOps[i].succ \in {0} \cup BdOpsOf(bdOps[i].mem)
           /\ bdOps[i].chan \in Nat \cup {NoChannel}
           /\ i \in Nat \ {0}
  <1>1. bdOps[i] \in BdOp /\ i \in Nat \ {0}
    BY DEF BdTypeOK, BdProgramOK
  <1>2. bdOps[i].chan \in Nat \cup {NoChannel}
    BY <1>1 DEF BdOp
  <1>3. /\ bdOps[i].mem \in DOMAIN memOps
        /\ bdOps[i].id \in {NoBdID} \cup 0 .. (NumBDs(TileOf(i)) - 1)
        /\ bdOps[i].succ \in {0} \cup BdOpsOf(bdOps[i].mem)
    BY DEF BdTypeOK, BdProgramOK
  <1>4. memOps \in Seq(MemOp)
    BY DEF BdTypeOK, BdProgramOK
  <1> QED BY <1>1, <1>2, <1>3, <1>4

LEMMA DmaFields ==
    ASSUME BdTypeOK, NEW m \in DOMAIN memOps
    PROVE  /\ memOps[m].starts \in Seq(DmaStart)
           /\ \A s \in DOMAIN memOps[m].starts :
                 memOps[m].starts[s].chan \in Nat /\ memOps[m].starts[s].dest \in BdOpsOf(m)
  <1>1. memOps[m] \in MemOp
    BY DEF BdTypeOK, BdProgramOK
  <1>2. memOps[m].starts \in Seq(DmaStart)
    BY <1>1 DEF MemOp
  <1>3. ASSUME NEW s \in DOMAIN memOps[m].starts PROVE memOps[m].starts[s].chan \in Nat
    <2>1. memOps[m].starts[s] \in DmaStart
      BY <1>2
    <2> QED BY <2>1 DEF DmaStart
  <1> QED BY <1>2, <1>3 DEF BdTypeOK, BdProgramOK

(* The channel number of the start that is being followed.                 *)
LEMMA CurrentStarts ==
    ASSUME BdTypeOK
    PROVE  /\ Starts \in Seq(DmaStart) /\ Len(Starts) \in Nat
           /\ \A s \in 1 .. Len(Starts) : Starts[s].chan \in Nat /\ Starts[s].dest \in BdOpsOf(mem)
  <1>1. CASE mem = 0
    <2>1. Starts = <<>>
      BY <1>1 DEF Starts
    <2> QED BY <2>1
  <1>2. CASE mem # 0
    <2>1. mem \in DOMAIN memOps /\ Starts = memOps[mem].starts
      BY <1>2 DEF BdTypeOK, BdProgramOK, Starts
    <2>2. Starts \in Seq(DmaStart)
      BY <2>1, DmaFields
    <2>3. DOMAIN Starts = 1 .. Len(Starts) /\ Len(Starts) \in Nat
      BY <2>2
    <2> QED BY <2>1, <2>2, <2>3, DmaFields
  <1> QED BY <1>1, <1>2

(* A step that leaves the program and the identifiers alone leaves what is *)
(* derived from them alone.                                                *)
LEMMA SamePrograms ==
    ASSUME UNCHANGED <<memOps, bdOps>>
    PROVE  /\ \A m : BdOpsOf(m)' = BdOpsOf(m) /\ UserIDs(m)' = UserIDs(m)
           /\ \A m : Unidentified(m)' = Unidentified(m)
           /\ \A i : TileOf(i)' = TileOf(i) /\ NextID(i)' = NextID(i)
           /\ BdProgramOK' <=> BdProgramOK
  BY DEF BdOpsOf, UserIDs, Unidentified, TileOf, NextID, BdProgramOK
-----------------------------------------------------------------------------
LEMMA BdInitInv == BdInit => BdInv
  <1> SUFFICES ASSUME BdInit PROVE BdInv
    OBVIOUS
  <1>1. BdTypeOK
    BY DEF BdInit, BdTypeOK, BdProgramOK
  <1>2. \A i \in DOMAIN bdOps : bdOps[i].mem > 0
    BY <1>1, BdFields
  <1>3. IDsDistinct /\ EarlierDone
    BY <1>2, <1>1, BdFields DEF BdInit, IDsDistinct, EarlierDone
  <1>4. TakenIsHeld /\ FollowsInMem /\ SuccessLinks /\ BdsExhaustedRightly
    BY DEF BdInit, TakenIsHeld, FollowsInMem, SuccessLinks, BdsExhaustedRightly
  <1> QED BY <1>1, <1>3, <1>4 DEF BdInv

LEMMA BeginMemInv == BdInv /\ BeginMem => BdInv'
  <1> SUFFICES ASSUME BdInv, BeginMem PROVE BdInv'
    OBVIOUS
  <1>1. /\ BdTypeOK /\ UNCHANGED <<memOps, bdOps>>
        /\ mem' = mem + 1 /\ mem \in Nat /\ mem' \in 0 .. Len(memOps)
        /\ bdResult = "running" /\ start' = 0 /\ block' = 0
        /\ bdIDsTaken' = UserIDs(mem + 1)
        /\ bdChannel' = [i \in DOMAIN bdOps |-> bdOps[i].chan]
        /\ bdResult' \in {"crash", "running"}
        /\ MemDone
    BY DEF BdInv, BdTypeOK, BdProgramOK, BeginMem
  <1>2. /\ bdOps \in Seq(BdOp) /\ Len(bdOps) \in Nat /\ DOMAIN bdOps = 1 .. Len(bdOps)
    BY <1>1 DEF BdTypeOK, BdProgramOK
  <1>3. bdChannel' \in Seq(Nat \cup {NoChannel}) /\ Len(bdChannel') = Len(bdOps)
    <2>1. bdChannel' \in [1 .. Len(bdOps) -> Nat \cup {NoChannel}]
      BY <1>1, <1>2, BdFields
    <2> QED BY <2>1, <1>2
  <1>4. BdTypeOK'
    <2>1. UserIDs(mem + 1) \subseteq Nat
      <3> SUFFICES ASSUME NEW i \in DOMAIN bdOps, bdOps[i].id # NoBdID PROVE bdOps[i].id \in Nat
        BY DEF UserIDs, BdOpsOf
      <3> QED BY <1>1, BdFields, NumBDsType
    <2> QED BY <1>1, <1>2, <1>3, <2>1, SamePrograms DEF BdTypeOK
  <1>5. TakenIsHeld' /\ FollowsInMem'
    BY <1>1, <1>3, SamePrograms DEF TakenIsHeld, FollowsInMem
  <1>6. EarlierDone'
    <2> SUFFICES ASSUME NEW i \in DOMAIN bdOps, bdOps[i].mem < mem + 1
                 PROVE  bdOps[i].id # NoBdID
      BY <1>1 DEF EarlierDone
    <2>1. bdOps[i].mem \in Nat /\ bdOps[i].mem # 0
      BY <1>1, BdFields
    <2>2. CASE bdOps[i].mem < mem
      BY <2>2 DEF BdInv, EarlierDone
    <2>3. CASE bdOps[i].mem = mem
      BY <2>1, <2>3, <1>1 DEF MemDone, Unserved, BdOpsOf
    <2> QED BY <2>1, <2>2, <2>3, <1>1
  <1>7. IDsDistinct'
    <2> SUFFICES ASSUME bdResult' = "running", NEW i \in DOMAIN bdOps, NEW j \in DOMAIN bdOps,
                        i # j, bdOps[i].mem = bdOps[j].mem, bdOps[i].mem <= mem + 1,
                        bdOps[i].id # NoBdID
                 PROVE  bdOps[i].id # bdOps[j].id
      BY <1>1 DEF IDsDistinct
    <2>1. bdOps[i].mem \in Nat
      BY <1>1, BdFields
    <2>2. CASE bdOps[i].mem <= mem
      BY <2>2, <1>1 DEF BdInv, IDsDistinct
    <2>3. CASE bdOps[i].mem = mem + 1
      BY <2>3 DEF BeginMem, BdOpsOf
    <2> QED BY <2>1, <2>2, <2>3, <1>1
  <1>8. SuccessLinks' /\ BdsExhaustedRightly'
    BY <1>1 DEF SuccessLinks, BdsExhaustedRightly
  <1> QED BY <1>4, <1>5, <1>6, <1>7, <1>8 DEF BdInv

LEMMA FollowStartInv == BdInv /\ FollowStart => BdInv'
  <1> SUFFICES ASSUME BdInv, FollowStart PROVE BdInv'
    OBVIOUS
  <1>1. /\ BdTypeOK /\ UNCHANGED <<memOps, bdOps, mem, bdIDsTaken, bdChannel, bdResult>>
        /\ bdResult = "running" /\ mem # 0 /\ start < Len(Starts)
        /\ start' = start + 1 /\ block' = Starts[start + 1].dest /\ start \in Nat
    BY DEF BdInv, BdTypeOK, FollowStart
  <1>2. start + 1 \in 1 .. Len(Starts) /\ block' \in BdOpsOf(mem) /\ Starts' = Starts
    BY <1>1, CurrentStarts DEF Starts
  <1>3. block' \in 0 .. Len(bdOps)
    <2>1. block' \in DOMAIN bdOps
      BY <1>2 DEF BdOpsOf
    <2>2. bdOps \in Seq(BdOp)
      BY <1>1 DEF BdTypeOK, BdProgramOK
    <2>3. DOMAIN bdOps = 1 .. Len(bdOps) /\ Len(bdOps) \in Nat
      BY <2>2
    <2> QED BY <2>1, <2>3
  <1>4. BdTypeOK'
    BY <1>1, <1>3, SamePrograms DEF BdTypeOK
  <1>5. TakenIsHeld' /\ IDsDistinct' /\ EarlierDone'
    BY <1>1, SamePrograms DEF BdInv, TakenIsHeld, IDsDistinct, EarlierDone
  <1>6. FollowsInMem'
    BY <1>1, <1>2, SamePrograms DEF BdInv, FollowsInMem
  <1>7. SuccessLinks' /\ BdsExhaustedRightly'
    BY <1>1 DEF SuccessLinks, BdsExhaustedRightly
  <1> QED BY <1>4, <1>5, <1>6, <1>7 DEF BdInv

LEMMA FollowBlockInv == BdInv /\ FollowBlock => BdInv'
  <1> SUFFICES ASSUME BdInv, FollowBlock PROVE BdInv'
    OBVIOUS
  <1>1. /\ BdTypeOK /\ UNCHANGED <<memOps, bdOps, mem, bdIDsTaken, start, bdResult>>
        /\ bdResult = "running" /\ block # 0 /\ mem # 0
        /\ bdChannel' = [bdChannel EXCEPT ![block] = Starts[start].chan]
        /\ start \in 1 .. Len(Starts) /\ block \in BdOpsOf(mem)
        /\ Len(bdChannel) = Len(bdOps)
    BY DEF BdInv, FollowsInMem, FollowBlock
  <1>2. block \in DOMAIN bdOps /\ bdOps[block].mem = mem
    BY <1>1 DEF BdOpsOf
  <1>3. bdOps[block].succ \in {0} \cup BdOpsOf(mem)
    BY <1>1, <1>2, BdFields
  <1>4. block' = 0 \/ block' \in BdOpsOf(mem)
    BY <1>3 DEF FollowBlock
  <1>5. bdChannel' \in Seq(Nat \cup {NoChannel}) /\ Len(bdChannel') = Len(bdOps)
    <2>1. Starts[start].chan \in Nat \cup {NoChannel}
      BY <1>1, CurrentStarts
    <2>2. block \in 1 .. Len(bdChannel)
      BY <1>1, <1>2 DEF BdTypeOK, BdProgramOK
    <2>3. bdChannel \in Seq(Nat \cup {NoChannel})
      BY <1>1 DEF BdTypeOK
    <2> QED BY <2>1, <2>2, <2>3, <1>1, ExceptSeq
  <1>6. block' \in 0 .. Len(bdOps)
    BY <1>1, <1>4 DEF BdOpsOf, BdTypeOK, BdProgramOK
  <1>7. BdTypeOK'
    BY <1>1, <1>5, <1>6, SamePrograms DEF BdTypeOK
  <1>8. TakenIsHeld' /\ IDsDistinct' /\ EarlierDone'
    BY <1>1, SamePrograms DEF BdInv, TakenIsHeld, IDsDistinct, EarlierDone
  <1>9. FollowsInMem'
    BY <1>1, <1>4, <1>5, SamePrograms DEF FollowsInMem, Starts
  <1>10. SuccessLinks' /\ BdsExhaustedRightly'
    BY <1>1 DEF SuccessLinks, BdsExhaustedRightly
  <1> QED BY <1>7, <1>8, <1>9, <1>10 DEF BdInv

(* The identifier that nextBdId takes is one of those that are free.       *)
LEMMA LowestFree ==
    ASSUME NEW t, NEW ch, FreeBdIDs(t, ch) # {}
    PROVE  (CHOOSE n \in FreeBdIDs(t, ch) : \A k \in FreeBdIDs(t, ch) : n <= k)
              \in FreeBdIDs(t, ch)
  <1>1. FreeBdIDs(t, ch) \in SUBSET Nat
    BY NumBDsType DEF FreeBdIDs
  <1>2. \E n \in FreeBdIDs(t, ch) : \A k \in FreeBdIDs(t, ch) : n <= k
    BY <1>1, LeastNumber
  <1> QED BY <1>2

LEMMA BdWithID ==
    ASSUME NEW op \in BdOp, NEW id \in Nat
    PROVE  LET r == [op EXCEPT !.id = id] IN
           /\ r \in BdOp /\ r.id = id /\ r.mem = op.mem /\ r.chan = op.chan /\ r.succ = op.succ
  BY DEF BdOp

(* A step that changes identifiers only, within the range of their tiles,  *)
(* leaves a program that the verifiers accept.                             *)
LEMMA ProgramKept ==
    ASSUME BdProgramOK, memOps' = memOps, bdOps' \in Seq(BdOp),
           DOMAIN bdOps' = DOMAIN bdOps,
           \A j \in DOMAIN bdOps :
               /\ bdOps'[j].mem = bdOps[j].mem /\ bdOps'[j].chan = bdOps[j].chan
               /\ bdOps'[j].succ = bdOps[j].succ
               /\ bdOps'[j].id \in {NoBdID} \cup 0 .. (NumBDs(TileOf(j)) - 1)
    PROVE  BdProgramOK' /\ \A m : BdOpsOf(m)' = BdOpsOf(m)
  <1>0. /\ memOps \in Seq(MemOp)
        /\ \A m \in DOMAIN memOps : \A n \in DOMAIN memOps \ {m} : memOps[m].tile # memOps[n].tile
        /\ \A i \in DOMAIN bdOps :
              /\ bdOps[i].mem \in DOMAIN memOps
              /\ bdOps[i].succ \in {0} \cup BdOpsOf(bdOps[i].mem)
              /\ (bdOps[i].chan = NoChannel) = memOps[bdOps[i].mem].inBlocks
        /\ \A m \in DOMAIN memOps : \A s \in DOMAIN memOps[m].starts :
              memOps[m].starts[s].dest \in BdOpsOf(m)
        /\ \A m \in DOMAIN memOps : memOps[m].inBlocks \/ memOps[m].starts = <<>>
    BY DEF BdProgramOK
  <1>1. \A m : BdOpsOf(m)' = BdOpsOf(m)
    BY DEF BdOpsOf
  <1>2. ASSUME NEW i \in DOMAIN bdOps'
        PROVE  /\ bdOps'[i].mem \in DOMAIN memOps
               /\ bdOps'[i].id \in {NoBdID} \cup 0 .. (NumBDs(TileOf(i)') - 1)
               /\ (bdOps[i].succ \in {0} \cup BdOpsOf(bdOps[i].mem))'
               /\ (bdOps'[i].chan = NoChannel) = memOps[bdOps'[i].mem].inBlocks
    <2>1. /\ bdOps[i].mem \in DOMAIN memOps
          /\ bdOps[i].succ \in {0} \cup BdOpsOf(bdOps[i].mem)
          /\ (bdOps[i].chan = NoChannel) = memOps[bdOps[i].mem].inBlocks
      BY <1>0
    <2>2. TileOf(i)' = TileOf(i)
      BY DEF TileOf
    <2>3. bdOps'[i].id \in {NoBdID} \cup 0 .. (NumBDs(TileOf(i)') - 1)
      BY <2>2
    <2>4. /\ bdOps'[i].mem = bdOps[i].mem /\ bdOps'[i].succ = bdOps[i].succ
          /\ bdOps'[i].chan = bdOps[i].chan
      OBVIOUS
    <2>5. \A k \in DOMAIN bdOps : bdOps'[k].mem = bdOps[k].mem
      OBVIOUS
    <2>6. (bdOps[i].succ \in {0} \cup BdOpsOf(bdOps[i].mem))'
      BY <2>1, <2>4, <2>5 DEF BdOpsOf
    <2>7. (bdOps'[i].chan = NoChannel) = memOps[bdOps'[i].mem].inBlocks
      BY <2>1, <2>4
    <2> QED BY <2>1, <2>3, <2>4, <2>6, <2>7
  <1>3. \A m \in DOMAIN memOps : \A s \in DOMAIN memOps[m].starts :
           memOps[m].starts[s].dest \in BdOpsOf(m)'
    BY <1>0, <1>1
  <1>4. \A m \in DOMAIN memOps : \A s \in DOMAIN memOps[m].starts :
           (memOps[m].starts[s].dest \in BdOpsOf(m))'
    BY <1>3
  <1>5. BdProgramOK'
    BY <1>0, <1>2, <1>4 DEF BdProgramOK, TileOf
  <1> QED BY <1>1, <1>5

(* Giving a descriptor its identifier changes nothing else of the program. *)
LEMMA OneMoreID ==
    ASSUME BdTypeOK, NEW i \in DOMAIN bdOps, NEW id \in 0 .. (NumBDs(TileOf(i)) - 1),
           memOps' = memOps, bdOps' = [bdOps EXCEPT ![i].id = id]
    PROVE  /\ BdProgramOK' /\ DOMAIN bdOps' = DOMAIN bdOps /\ Len(bdOps') = Len(bdOps)
           /\ bdOps'[i].id = id /\ \A j \in DOMAIN bdOps \ {i} : bdOps'[j] = bdOps[j]
           /\ \A j \in DOMAIN bdOps : bdOps'[j].mem = bdOps[j].mem
           /\ \A m : BdOpsOf(m)' = BdOpsOf(m)
  <1> DEFINE r == [bdOps[i] EXCEPT !.id = id]
  <1>1. bdOps[i] \in BdOp /\ id \in Nat
    BY BdFields, NumBDsType
  <1>2. /\ r \in BdOp /\ r.id = id /\ r.mem = bdOps[i].mem
        /\ r.chan = bdOps[i].chan /\ r.succ = bdOps[i].succ
    BY <1>1, BdWithID
  <1>3. bdOps \in Seq(BdOp) /\ i \in 1 .. Len(bdOps) /\ DOMAIN bdOps = 1 .. Len(bdOps)
    <2>1. bdOps \in Seq(BdOp)
      BY DEF BdTypeOK, BdProgramOK
    <2> QED BY <2>1
  <1>4. bdOps' = [bdOps EXCEPT ![i] = r]
    OBVIOUS
  <1> HIDE DEF r
  <1>5. /\ bdOps' \in Seq(BdOp) /\ Len(bdOps') = Len(bdOps)
        /\ \A j \in 1 .. Len(bdOps) : bdOps'[j] = IF j = i THEN r ELSE bdOps[j]
    BY <1>2, <1>3, <1>4, ExceptSeq
  <1>6. DOMAIN bdOps' = DOMAIN bdOps
    BY <1>4
  <1>7. \A j \in DOMAIN bdOps : /\ bdOps'[j].mem = bdOps[j].mem
                               /\ bdOps'[j].chan = bdOps[j].chan
                               /\ bdOps'[j].succ = bdOps[j].succ
    BY <1>2, <1>3, <1>5
  <1>8. \A m : BdOpsOf(m)' = BdOpsOf(m)
    BY <1>6, <1>7 DEF BdOpsOf
  <1>9. \A j \in DOMAIN bdOps : TileOf(j)' = TileOf(j)
    BY <1>7 DEF TileOf
  <1>10. \A j \in DOMAIN bdOps : bdOps'[j].id \in {NoBdID} \cup 0 .. (NumBDs(TileOf(j)) - 1)
    BY <1>2, <1>3, <1>5, BdFields
  <1>11. BdProgramOK'
    BY <1>5, <1>6, <1>7, <1>10, ProgramKept DEF BdTypeOK
  <1> QED BY <1>2, <1>3, <1>5, <1>6, <1>7, <1>8, <1>11

LEMMA AssignBdInv ==
    ASSUME BdInv, NEW i \in DOMAIN bdOps, AssignBd(i)
    PROVE  BdInv'
  <1> DEFINE free == FreeBdIDs(TileOf(i), bdChannel[i])
             id == CHOOSE n \in free : \A k \in free : n <= k
  <1>1. /\ BdTypeOK /\ UNCHANGED <<memOps, mem, bdChannel, start, block>>
        /\ bdResult = "running" /\ mem # 0 /\ block = 0
        /\ i \in Unserved(mem) /\ bdIDsTaken = UserIDs(mem)
    BY DEF BdInv, TakenIsHeld, AssignBd, Following
  <1>2. i \in BdOpsOf(mem) /\ bdOps[i].mem = mem
    BY <1>1 DEF Unserved, BdOpsOf
  <1>6. bdChannel[i] # NoChannel => bdOps[i].id = NoBdID /\ i \in Unidentified(mem)
    BY <1>1, <1>2 DEF Unserved, Unidentified
  <1>3. CASE UNCHANGED <<bdOps, bdIDsTaken>> /\ bdResult' = "crash"
    BY <1>1, <1>3, SamePrograms DEF BdInv, BdTypeOK, TakenIsHeld, IDsDistinct, EarlierDone,
       FollowsInMem, SuccessLinks, BdsExhaustedRightly
  <1>4. CASE UNCHANGED <<bdOps, bdIDsTaken>> /\ bdResult' = "exhausted" /\ free = {}
             /\ bdChannel[i] # NoChannel
    <2>1. ASSUME NEW n \in 0 .. (NumBDs(TileOf(i)) - 1),
                 BdAccessible(TileOf(i), n, bdChannel[i])
          PROVE  \E j \in BdOpsOf(mem) : bdOps[j].id = n
      <3>1. n \in UserIDs(mem)
        BY <2>1, <1>1, <1>4 DEF FreeBdIDs
      <3> QED BY <3>1 DEF UserIDs
    <2>2. BdsExhaustedRightly'
      <3>1. i \in Unidentified(mem)' /\ TileOf(i)' = TileOf(i) /\ BdOpsOf(mem)' = BdOpsOf(mem)
        BY <1>1, <1>4, <1>6, SamePrograms DEF Unidentified
      <3> QED BY <3>1, <2>1, <1>1, <1>4 DEF BdsExhaustedRightly
    <2>3. BdTypeOK' /\ FollowsInMem' /\ SuccessLinks'
      BY <1>1, <1>4, SamePrograms DEF BdTypeOK, FollowsInMem, SuccessLinks, BdInv
    <2>4. TakenIsHeld' /\ IDsDistinct' /\ EarlierDone'
      BY <1>1, <1>4, SamePrograms DEF BdInv, TakenIsHeld, IDsDistinct, EarlierDone
    <2> QED BY <2>2, <2>3, <2>4 DEF BdInv
  <1>5. CASE /\ bdOps' = [bdOps EXCEPT ![i].id = id] /\ bdIDsTaken' = bdIDsTaken \cup {id}
             /\ bdResult' = bdResult /\ free # {} /\ bdChannel[i] # NoChannel
    <2>1. id \in free
      BY <1>5, LowestFree
    <2>2. id \in 0 .. (NumBDs(TileOf(i)) - 1) /\ id \notin UserIDs(mem) /\ id \in Nat
      BY <2>1, <1>1, NumBDsType DEF FreeBdIDs
    <2> HIDE DEF id, free
    <2>3. /\ BdProgramOK' /\ DOMAIN bdOps' = DOMAIN bdOps /\ Len(bdOps') = Len(bdOps)
          /\ bdOps'[i].id = id /\ \A j \in DOMAIN bdOps \ {i} : bdOps'[j] = bdOps[j]
          /\ \A j \in DOMAIN bdOps : bdOps'[j].mem = bdOps[j].mem
          /\ \A m : BdOpsOf(m)' = BdOpsOf(m)
      BY <2>2, <1>1, <1>5, OneMoreID
    <2>4. BdTypeOK'
      BY <2>2, <2>3, <1>1, <1>5 DEF BdTypeOK
    <2>5. TakenIsHeld'
      <3>1. UserIDs(mem)' = UserIDs(mem) \cup {id}
        BY <2>2, <2>3, <1>1, <1>2, <1>5, <1>6, BdAssumption DEF UserIDs, BdOpsOf
      <3> QED BY <3>1, <1>1, <1>5 DEF TakenIsHeld
    <2>6. IDsDistinct'
      <3> SUFFICES ASSUME NEW j \in DOMAIN bdOps, NEW l \in DOMAIN bdOps, j # l,
                          bdOps[j].mem = bdOps[l].mem, bdOps[j].mem <= mem,
                          bdOps'[j].id # NoBdID
                   PROVE  bdOps'[j].id # bdOps'[l].id
        BY <2>3, <1>1 DEF IDsDistinct
      <3>1. ASSUME NEW k \in DOMAIN bdOps \ {i}, bdOps[k].mem = mem PROVE bdOps[k].id # id
        BY <3>1, <2>2, BdAssumption DEF UserIDs, BdOpsOf
      <3>2. CASE j = i
        BY <3>1, <3>2, <2>3, <1>2
      <3>3. CASE l = i
        BY <3>1, <3>3, <2>3, <1>2
      <3>4. CASE j # i /\ l # i
        BY <3>4, <2>3, <1>1 DEF BdInv, IDsDistinct
      <3> QED BY <3>2, <3>3, <3>4
    <2>7. EarlierDone'
      BY <2>2, <2>3, <1>1, BdAssumption DEF BdInv, EarlierDone
    <2>8. FollowsInMem' /\ SuccessLinks' /\ BdsExhaustedRightly'
      BY <2>3, <1>1, <1>5 DEF BdInv, FollowsInMem, SuccessLinks, BdsExhaustedRightly
    <2> QED BY <2>4, <2>5, <2>6, <2>7, <2>8 DEF BdInv
  <1> QED BY <1>3, <1>4, <1>5 DEF AssignBd

LEMMA SetNextBdIDsInv == BdInv /\ SetNextBdIDs => BdInv'
  <1> SUFFICES ASSUME BdInv, SetNextBdIDs PROVE BdInv'
    OBVIOUS
  <1>1. /\ BdTypeOK /\ UNCHANGED <<memOps, mem, bdIDsTaken, bdChannel, start, block>>
        /\ bdResult = "running" /\ bdResult' = "success" /\ mem = Len(memOps) /\ MemDone
        /\ bdOps' = [i \in DOMAIN bdOps |-> [bdOps[i] EXCEPT !.next = NextID(i)]]
        /\ bdOps \in Seq(BdOp) /\ Len(bdOps) \in Nat /\ DOMAIN bdOps = 1 .. Len(bdOps)
        /\ memOps \in Seq(MemOp)
    BY DEF BdInv, BdTypeOK, BdProgramOK, SetNextBdIDs
  <1>2. ASSUME NEW i \in DOMAIN bdOps
        PROVE  /\ bdOps'[i] \in BdOp /\ bdOps'[i].next = NextID(i)
               /\ bdOps'[i].mem = bdOps[i].mem /\ bdOps'[i].id = bdOps[i].id
               /\ bdOps'[i].chan = bdOps[i].chan /\ bdOps'[i].succ = bdOps[i].succ
    <2>1. bdOps[i] \in BdOp
      BY <1>1, BdFields
    <2>2. NextID(i) \in Nat \cup {NoBdID}
      <3>1. CASE bdOps[i].succ = 0
        BY <3>1 DEF NextID
      <3>2. CASE bdOps[i].succ # 0
        <4>1. bdOps[i].succ \in DOMAIN bdOps
          BY <3>2, <1>1, BdFields DEF BdOpsOf
        <4> QED BY <4>1, <3>2, <1>1, BdFields DEF NextID, BdOp
      <3> QED BY <3>1, <3>2
    <2> HIDE DEF NextID
    <2>3. bdOps'[i] = [bdOps[i] EXCEPT !.next = NextID(i)]
      BY <1>1
    <2> QED BY <2>1, <2>2, <2>3 DEF BdOp
  <1>3. bdOps' \in Seq(BdOp) /\ Len(bdOps') = Len(bdOps) /\ DOMAIN bdOps' = DOMAIN bdOps
    <2>1. bdOps' \in [1 .. Len(bdOps) -> BdOp]
      BY <1>1, <1>2
    <2>2. Len(bdOps) \in Nat
      BY <1>1
    <2>3. bdOps' \in Seq(BdOp) /\ Len(bdOps') = Len(bdOps)
      BY <2>1, <2>2
    <2> QED BY <2>3, <1>1
  <1>4. \A m : BdOpsOf(m)' = BdOpsOf(m)
    BY <1>2, <1>3 DEF BdOpsOf
  <1>5. \A i \in DOMAIN bdOps : TileOf(i)' = TileOf(i) /\ NextID(i)' = NextID(i)
    <2> SUFFICES ASSUME NEW i \in DOMAIN bdOps
                 PROVE  TileOf(i)' = TileOf(i) /\ NextID(i)' = NextID(i)
      OBVIOUS
    <2>1. bdOps[i].succ # 0 => bdOps[i].succ \in DOMAIN bdOps
      BY <1>1, BdFields DEF BdOpsOf
    <2>2. TileOf(i)' = TileOf(i)
      BY <1>1, <1>2 DEF TileOf
    <2>3. NextID(i)' = NextID(i)
      <3>1. bdOps'[i].succ = bdOps[i].succ
        BY <1>2
      <3>2. bdOps[i].succ # 0 => bdOps'[bdOps[i].succ].id = bdOps[bdOps[i].succ].id
        BY <2>1, <1>2
      <3> QED BY <3>1, <3>2 DEF NextID
    <2> QED BY <2>2, <2>3
  <1>6. BdTypeOK'
    <2>1. BdProgramOK'
      <3>1. \A i \in DOMAIN bdOps :
                bdOps'[i].id \in {NoBdID} \cup 0 .. (NumBDs(TileOf(i)) - 1)
        BY <1>1, <1>2, BdFields
      <3> QED BY <3>1, <1>1, <1>2, <1>3, ProgramKept DEF BdTypeOK
    <2> QED BY <2>1, <1>1, <1>3 DEF BdTypeOK
  <1>7. TakenIsHeld' /\ FollowsInMem' /\ IDsDistinct' /\ EarlierDone'
    <2>1. UserIDs(mem)' = UserIDs(mem)
      BY <1>1, <1>2, <1>4 DEF UserIDs, BdOpsOf
    <2>2. Starts' = Starts
      BY <1>1 DEF Starts
    <2>3. TakenIsHeld' /\ FollowsInMem'
      BY <2>1, <2>2, <1>1, <1>3, <1>4 DEF BdInv, TakenIsHeld, FollowsInMem
    <2>4. IDsDistinct'
      <3>1. \A i \in DOMAIN bdOps' : /\ i \in DOMAIN bdOps /\ bdOps'[i].id = bdOps[i].id
                                     /\ bdOps'[i].mem = bdOps[i].mem
        BY <1>2, <1>3
      <3>2. mem' = mem
        BY <1>1
      <3> SUFFICES ASSUME NEW i \in DOMAIN bdOps, NEW j \in DOMAIN bdOps, i # j,
                          bdOps[i].mem = bdOps[j].mem, bdOps[i].mem <= mem
                   PROVE  bdOps[i].id = NoBdID \/ bdOps[i].id # bdOps[j].id
        BY <3>1, <3>2 DEF IDsDistinct
      <3> QED BY <1>1 DEF BdInv, IDsDistinct
    <2>5. EarlierDone'
      BY <1>1, <1>2, <1>3 DEF BdInv, EarlierDone
    <2> QED BY <2>3, <2>4, <2>5
  <1>8. SuccessLinks' /\ BdsExhaustedRightly'
    <2>1. ASSUME NEW i \in DOMAIN bdOps PROVE bdOps[i].id # NoBdID
      <3>1. bdOps[i].mem \in 1 .. Len(memOps)
        BY <1>1, BdFields
      <3>2. CASE bdOps[i].mem < mem
        BY <3>2 DEF BdInv, EarlierDone
      <3>3. CASE bdOps[i].mem = mem
        BY <3>1, <3>3, <1>1 DEF MemDone, Unserved, BdOpsOf
      <3> QED BY <3>1, <3>2, <3>3, <1>1
    <2> QED BY <2>1, <1>1, <1>2, <1>3, <1>5 DEF SuccessLinks, BdsExhaustedRightly
  <1> QED BY <1>6, <1>7, <1>8 DEF BdInv

LEMMA BdStutterInv == BdInv /\ UNCHANGED bdVars => BdInv'
  BY SamePrograms DEF BdInv, bdVars, BdTypeOK, TakenIsHeld, IDsDistinct, EarlierDone,
     FollowsInMem, Starts, SuccessLinks, BdsExhaustedRightly

LEMMA BdStepInv == BdInv /\ [BdNext]_bdVars => BdInv'
  BY BeginMemInv, FollowStartInv, FollowBlockInv, AssignBdInv, SetNextBdIDsInv,
       BdStutterInv DEF BdNext
-----------------------------------------------------------------------------
(* Channels and descriptors: the channel that the pass knows for a block   *)
(* runs it, and an identifier that the pass chose, of a descriptor outside *)
(* of given, is in reach of a channel that runs the descriptor.            *)
RunBy(i, c) ==
    \/ bdOps[i].chan = c
    \/ \E s \in DOMAIN memOps[bdOps[i].mem].starts :
          i \in Runs(bdOps[i].mem, s) /\ c = memOps[bdOps[i].mem].starts[s].chan

ChannelsRun ==
    /\ mem # 0 => \A i \in BdOpsOf(mem) : bdChannel[i] # NoChannel => RunBy(i, bdChannel[i])
    /\ block # 0 => block \in Runs(mem, start)

InReach(given) ==
    \A i \in DOMAIN bdOps \ given :
        bdOps[i].id # NoBdID =>
            \E c \in Nat : RunBy(i, c) /\ BdAccessible(TileOf(i), bdOps[i].id, c)

(* What a channel runs begins with its dma_start and goes on with every    *)
(* successor.                                                              *)
LEMMA RunsFollow ==
    ASSUME BdTypeOK, NEW m \in DOMAIN memOps, NEW s \in DOMAIN memOps[m].starts
    PROVE  /\ memOps[m].starts[s].dest \in Runs(m, s)
           /\ \A i \in Runs(m, s) : bdOps[i].succ \in Runs(m, s) \cup {0}
  <1>1. memOps[m].starts[s].dest \in BdOpsOf(m)
    BY DEF BdTypeOK, BdProgramOK
  <1>2. ASSUME NEW i \in Runs(m, s), bdOps[i].succ # 0
        PROVE  bdOps[i].succ \in Runs(m, s)
    <2>1. i \in DOMAIN bdOps /\ bdOps[i].mem = m
      BY DEF Runs, BdOpsOf
    <2>2. bdOps[i].succ \in BdOpsOf(m)
      BY <1>2, <2>1, BdFields
    <2> QED BY <1>2, <2>2 DEF Runs
  <1> QED BY <1>1, <1>2 DEF Runs

(* Identifiers do not matter for what a channel runs.                      *)
LEMMA RunsKept ==
    ASSUME memOps' = memOps, DOMAIN bdOps' = DOMAIN bdOps,
           \A j \in DOMAIN bdOps : /\ bdOps'[j].mem = bdOps[j].mem
                                   /\ bdOps'[j].chan = bdOps[j].chan
                                   /\ bdOps'[j].succ = bdOps[j].succ
    PROVE  /\ \A m, s : Runs(m, s)' = Runs(m, s)
           /\ \A i \in DOMAIN bdOps : \A c : RunBy(i, c)' <=> RunBy(i, c)
           /\ \A i \in DOMAIN bdOps : TileOf(i)' = TileOf(i)
  <1>1. \A m : BdOpsOf(m)' = BdOpsOf(m)
    BY DEF BdOpsOf
  <1>2. ASSUME NEW m, NEW s PROVE Runs(m, s)' = Runs(m, s)
    <2>1. \A S \in SUBSET BdOpsOf(m) : \A j \in S : bdOps'[j].succ = bdOps[j].succ
      BY DEF BdOpsOf
    <2> QED BY <1>1, <2>1 DEF Runs
  <1>3. ASSUME NEW i \in DOMAIN bdOps, NEW c PROVE RunBy(i, c)' <=> RunBy(i, c)
    <2>1. /\ memOps' = memOps /\ bdOps'[i].mem = bdOps[i].mem
          /\ bdOps'[i].chan = bdOps[i].chan
      OBVIOUS
    <2>2. \A s : Runs(bdOps[i].mem, s)' = Runs(bdOps[i].mem, s)
      <3> SUFFICES ASSUME NEW s
                   PROVE  Runs(bdOps[i].mem, s)' = Runs(bdOps[i].mem, s)
        OBVIOUS
      <3>1. PICK m : m = bdOps[i].mem /\ m = bdOps'[i].mem
        BY <2>1
      <3>2. Runs(m, s)' = Runs(m, s)
        BY <1>2
      <3> QED BY <3>1, <3>2 DEF Runs, BdOpsOf
    <2> QED BY <2>1, <2>2 DEF RunBy
  <1>4. \A i \in DOMAIN bdOps : TileOf(i)' = TileOf(i)
    BY DEF TileOf
  <1> QED BY <1>2, <1>3, <1>4

LEMMA ReachStutter ==
    ASSUME NEW given, ChannelsRun, InReach(given),
           UNCHANGED <<memOps, bdOps, mem, bdChannel, start, block>>
    PROVE  ChannelsRun' /\ InReach(given)'
  BY DEF ChannelsRun, InReach, RunBy, Runs, BdOpsOf, TileOf

LEMMA BeginMemReach ==
    ASSUME NEW given, BdInv, ChannelsRun, InReach(given), BeginMem
    PROVE  ChannelsRun' /\ InReach(given)'
  <1>1. UNCHANGED <<memOps, bdOps>> /\ block' = 0
        /\ bdChannel' = [i \in DOMAIN bdOps |-> bdOps[i].chan]
    BY DEF BeginMem
  <1>2. \A i \in BdOpsOf(mem)' : RunBy(i, bdChannel[i])'
    BY <1>1 DEF RunBy, BdOpsOf
  <1>3. InReach(given)'
    BY <1>1 DEF InReach, RunBy, Runs, BdOpsOf, TileOf
  <1> QED BY <1>1, <1>2, <1>3 DEF ChannelsRun

LEMMA FollowStartReach ==
    ASSUME NEW given, BdInv, ChannelsRun, InReach(given), FollowStart
    PROVE  ChannelsRun' /\ InReach(given)'
  <1>1. /\ UNCHANGED <<memOps, bdOps, mem, bdChannel>> /\ BdTypeOK
        /\ mem # 0 /\ start < Len(Starts) /\ start \in Nat
        /\ start' = start + 1 /\ block' = Starts[start + 1].dest
    BY DEF FollowStart, BdInv, BdTypeOK
  <1>2. mem \in DOMAIN memOps /\ Starts = memOps[mem].starts
    BY <1>1 DEF BdTypeOK, BdProgramOK, Starts
  <1>3. start + 1 \in DOMAIN memOps[mem].starts
    BY <1>1, <1>2, CurrentStarts
  <1>4. block' \in Runs(mem, start + 1)
    BY <1>1, <1>2, <1>3, RunsFollow
  <1>5. Runs(mem, start)' = Runs(mem, start + 1)
    BY <1>1 DEF Runs, BdOpsOf
  <1>6. InReach(given)'
    BY <1>1 DEF InReach, RunBy, Runs, BdOpsOf, TileOf
  <1>7. (mem # 0 => \A i \in BdOpsOf(mem) : bdChannel[i] # NoChannel => RunBy(i, bdChannel[i]))'
    BY <1>1 DEF ChannelsRun, RunBy, Runs, BdOpsOf
  <1> QED BY <1>4, <1>5, <1>6, <1>7 DEF ChannelsRun

LEMMA FollowBlockReach ==
    ASSUME NEW given, BdInv, ChannelsRun, InReach(given), FollowBlock
    PROVE  ChannelsRun' /\ InReach(given)'
  <1>1. /\ UNCHANGED <<memOps, bdOps, mem, start>> /\ BdTypeOK /\ mem # 0 /\ block # 0
        /\ bdChannel' = [bdChannel EXCEPT ![block] = Starts[start].chan]
        /\ start \in 1 .. Len(Starts) /\ block \in BdOpsOf(mem) /\ block \in Runs(mem, start)
        /\ block' = bdOps[block].succ \/ block' = 0
    BY DEF FollowBlock, BdInv, FollowsInMem, ChannelsRun
  <1>2. mem \in DOMAIN memOps /\ Starts = memOps[mem].starts
    BY <1>1 DEF BdTypeOK, BdProgramOK, Starts
  <1>3. start \in DOMAIN memOps[mem].starts
    BY <1>1, <1>2, CurrentStarts
  <1>4. RunBy(block, Starts[start].chan)
    BY <1>1, <1>2, <1>3 DEF RunBy, BdOpsOf
  <1>5. \A i, c : RunBy(i, c)' <=> RunBy(i, c)
    BY <1>1 DEF RunBy, Runs, BdOpsOf
  <1>6. ASSUME NEW i \in BdOpsOf(mem), bdChannel'[i] # NoChannel
        PROVE  RunBy(i, bdChannel'[i])
    <2>1. CASE i = block /\ block \in DOMAIN bdChannel
      BY <2>1, <1>1, <1>4
    <2>2. CASE i # block \/ block \notin DOMAIN bdChannel
      <3>1. bdChannel'[i] = bdChannel[i]
        BY <2>2, <1>1
      <3> QED BY <3>1, <1>1, <1>6 DEF ChannelsRun
    <2> QED BY <2>1, <2>2
  <1>7. block' # 0 => block' \in Runs(mem, start)
    BY <1>1, <1>2, <1>3, RunsFollow
  <1>8. InReach(given)'
    BY <1>1 DEF InReach, RunBy, Runs, BdOpsOf, TileOf
  <1>9. BdOpsOf(mem)' = BdOpsOf(mem) /\ Runs(mem, start)' = Runs(mem, start)
    BY <1>1 DEF BdOpsOf, Runs
  <1>10. \A i \in BdOpsOf(mem) : bdChannel'[i] # NoChannel => RunBy(i, bdChannel[i])'
    <2> SUFFICES ASSUME NEW i \in BdOpsOf(mem), bdChannel'[i] # NoChannel
                 PROVE  RunBy(i, bdChannel[i])'
      OBVIOUS
    <2>1. PICK c : c = bdChannel'[i]
      OBVIOUS
    <2>2. RunBy(i, c)'
      BY <2>1, <1>5, <1>6
    <2> QED BY <2>1, <2>2 DEF RunBy
  <1> QED BY <1>7, <1>8, <1>9, <1>10 DEF ChannelsRun

LEMMA AssignBdReach ==
    ASSUME NEW given, BdInv, ChannelsRun, InReach(given),
           NEW i \in DOMAIN bdOps, AssignBd(i)
    PROVE  ChannelsRun' /\ InReach(given)'
  <1> DEFINE free == FreeBdIDs(TileOf(i), bdChannel[i])
             id == CHOOSE n \in free : \A k \in free : n <= k
  <1>1. /\ BdTypeOK /\ UNCHANGED <<memOps, mem, bdChannel, start, block>> /\ mem # 0
        /\ i \in Unserved(mem)
    BY DEF BdInv, AssignBd
  <1>2. CASE UNCHANGED bdOps
    BY <1>1, <1>2, ReachStutter
  <1>3. CASE /\ bdOps' = [bdOps EXCEPT ![i].id = id] /\ free # {}
             /\ bdChannel[i] # NoChannel
    <2>1. id \in free
      BY <1>3, LowestFree
    <2>2. id \in 0 .. (NumBDs(TileOf(i)) - 1) /\ BdAccessible(TileOf(i), id, bdChannel[i])
      BY <2>1 DEF FreeBdIDs
    <2> HIDE DEF id, free
    <2>3. /\ DOMAIN bdOps' = DOMAIN bdOps /\ bdOps'[i].id = id
          /\ \A j \in DOMAIN bdOps \ {i} : bdOps'[j] = bdOps[j]
      BY <1>1, <1>3, <2>2, OneMoreID
    <2>4. bdOps[i] \in BdOp /\ id \in Nat
      BY <1>1, <2>2, BdFields, NumBDsType
    <2>5. \A j \in DOMAIN bdOps : /\ bdOps'[j].mem = bdOps[j].mem
                                 /\ bdOps'[j].chan = bdOps[j].chan
                                 /\ bdOps'[j].succ = bdOps[j].succ
      <3>1. bdOps'[i] = [bdOps[i] EXCEPT !.id = id]
        BY <1>3
      <3>2. /\ bdOps'[i].mem = bdOps[i].mem /\ bdOps'[i].chan = bdOps[i].chan
            /\ bdOps'[i].succ = bdOps[i].succ
        BY <3>1, <2>4, BdWithID
      <3> QED BY <2>3, <3>2
    <2>6. /\ \A m, s : Runs(m, s)' = Runs(m, s)
          /\ \A j \in DOMAIN bdOps : \A c : RunBy(j, c)' <=> RunBy(j, c)
          /\ \A j \in DOMAIN bdOps : TileOf(j)' = TileOf(j)
      BY <1>1, <2>3, <2>5, RunsKept
    <2>7. BdOpsOf(mem)' = BdOpsOf(mem)
      BY <1>1, <2>3, <2>5 DEF BdOpsOf
    <2>8. i \in BdOpsOf(mem)
      BY <1>1 DEF Unserved
    <2>9. RunBy(i, bdChannel[i]) /\ bdChannel[i] \in Nat
      <3>1. i \in 1 .. Len(bdOps) /\ Len(bdChannel) = Len(bdOps)
        BY <1>1 DEF BdInv, FollowsInMem, BdTypeOK, BdProgramOK
      <3>2. bdChannel \in Seq(Nat \cup {NoChannel})
        BY <1>1 DEF BdTypeOK
      <3>3. bdChannel[i] \in Nat \cup {NoChannel}
        BY <3>1, <3>2
      <3> QED BY <3>3, <2>8, <1>1, <1>3 DEF ChannelsRun
    <2>10. InReach(given)'
      <3> SUFFICES ASSUME NEW j \in DOMAIN bdOps \ given, bdOps'[j].id # NoBdID
                   PROVE  \E c \in Nat : RunBy(j, c)'
                                /\ BdAccessible(TileOf(j), bdOps'[j].id, c)
        BY <2>3, <2>6 DEF InReach
      <3>1. CASE j = i
        BY <3>1, <2>2, <2>3, <2>6, <2>9
      <3>2. CASE j # i
        <4>1. bdOps'[j] = bdOps[j]
          BY <3>2, <2>3
        <4> QED BY <4>1, <2>6 DEF InReach
      <3> QED BY <3>1, <3>2
    <2>11. ChannelsRun'
      <3>1. \A j \in BdOpsOf(mem) : j \in DOMAIN bdOps
        BY DEF BdOpsOf
      <3>2. \A j \in BdOpsOf(mem) : bdChannel[j] # NoChannel => RunBy(j, bdChannel[j])'
        <4> SUFFICES ASSUME NEW j \in BdOpsOf(mem), bdChannel[j] # NoChannel
                     PROVE  RunBy(j, bdChannel[j])'
          OBVIOUS
        <4>1. PICK c : c = bdChannel[j] /\ c = bdChannel'[j]
          BY <1>1
        <4>2. RunBy(j, c)'
          BY <4>1, <3>1, <2>6, <1>1 DEF ChannelsRun
        <4> QED BY <4>1, <4>2 DEF RunBy
      <3>3. Runs(mem, start)' = Runs(mem, start)
        <4>1. PICK m, s : m = mem /\ m = mem' /\ s = start /\ s = start'
          BY <1>1
        <4>2. Runs(m, s)' = Runs(m, s)
          BY <2>6
        <4> QED BY <4>1, <4>2 DEF Runs, BdOpsOf
      <3> QED BY <3>2, <3>3, <2>7, <1>1 DEF ChannelsRun
    <2> QED BY <2>10, <2>11
  <1> QED BY <1>2, <1>3 DEF AssignBd

LEMMA SetNextBdIDsReach ==
    ASSUME NEW given, BdInv, ChannelsRun, InReach(given), SetNextBdIDs
    PROVE  ChannelsRun' /\ InReach(given)'
  <1>1. /\ BdTypeOK /\ UNCHANGED <<memOps, mem, bdChannel, start, block>>
        /\ bdOps' = [i \in DOMAIN bdOps |-> [bdOps[i] EXCEPT !.next = NextID(i)]]
    BY DEF BdInv, SetNextBdIDs
  <1>2. DOMAIN bdOps' = DOMAIN bdOps
    BY <1>1
  <1>3. ASSUME NEW i \in DOMAIN bdOps
        PROVE  /\ bdOps'[i].mem = bdOps[i].mem /\ bdOps'[i].chan = bdOps[i].chan
               /\ bdOps'[i].succ = bdOps[i].succ /\ bdOps'[i].id = bdOps[i].id
    <2>1. bdOps[i] \in BdOp /\ bdOps'[i] = [bdOps[i] EXCEPT !.next = NextID(i)]
      BY <1>1, BdFields
    <2> HIDE DEF NextID
    <2> QED BY <2>1 DEF BdOp
  <1>4. /\ \A m, s : Runs(m, s)' = Runs(m, s)
        /\ \A j \in DOMAIN bdOps : \A c : RunBy(j, c)' <=> RunBy(j, c)
        /\ \A j \in DOMAIN bdOps : TileOf(j)' = TileOf(j)
    BY <1>1, <1>2, <1>3, RunsKept
  <1>5. InReach(given)'
    BY <1>2, <1>3, <1>4 DEF InReach
  <1>6. ChannelsRun'
    <2>1. BdOpsOf(mem)' = BdOpsOf(mem) /\ \A j \in BdOpsOf(mem) : j \in DOMAIN bdOps
      BY <1>1, <1>2, <1>3 DEF BdOpsOf
    <2>0. \A j \in BdOpsOf(mem) : mem # 0
      <3>1. \A j \in BdOpsOf(mem) : bdOps[j].mem \in Nat \ {0} /\ bdOps[j].mem = mem
        BY <1>1, BdFields DEF BdOpsOf
      <3> QED BY <3>1
    <2>2. \A j \in BdOpsOf(mem) : bdChannel[j] # NoChannel => RunBy(j, bdChannel[j])'
      <3> SUFFICES ASSUME NEW j \in BdOpsOf(mem), mem # 0, bdChannel[j] # NoChannel
                   PROVE  RunBy(j, bdChannel[j])'
        BY <2>0
      <3>1. PICK c : c = bdChannel[j] /\ c = bdChannel'[j]
        BY <1>1
      <3>2. RunBy(j, c)'
        BY <3>1, <2>1, <1>4 DEF ChannelsRun
      <3> QED BY <3>1, <3>2 DEF RunBy
    <2>3. Runs(mem, start)' = Runs(mem, start)
      <3>1. PICK m, s : m = mem /\ m = mem' /\ s = start /\ s = start'
        BY <1>1
      <3>2. Runs(m, s)' = Runs(m, s)
        BY <1>4
      <3> QED BY <3>1, <3>2 DEF Runs, BdOpsOf
    <2> QED BY <2>1, <2>2, <2>3, <1>1 DEF ChannelsRun
  <1> QED BY <1>5, <1>6

LEMMA ReachStep ==
    ASSUME NEW given, BdInv, ChannelsRun, InReach(given), [BdNext]_bdVars
    PROVE  ChannelsRun' /\ InReach(given)'
  BY BeginMemReach, FollowStartReach, FollowBlockReach, AssignBdReach, SetNextBdIDsReach,
     ReachStutter DEF BdNext, bdVars

(* When no descriptor is between two halves, one channel in whose reach an *)
(* identifier is stands for all that run the descriptor.                   *)
LEMMA ReachableByInv ==
    ASSUME NEW given, BdInv, InReach(given)
    PROVE  ChannelsReachTheirBds(given)
  <1> SUFFICES ASSUME bdResult = "success" PROVE ChannelsReachTheirBds(given)
    BY DEF ChannelsReachTheirBds
  <1>1. BdTypeOK /\ \A i \in DOMAIN bdOps : bdOps[i].id # NoBdID
    BY DEF BdInv, SuccessLinks
  <1>2. \A m \in DOMAIN memOps : memOps[m].inBlocks \/ memOps[m].starts = <<>>
    BY <1>1 DEF BdTypeOK, BdProgramOK
  <1>3. \A i \in DOMAIN bdOps : (bdOps[i].chan = NoChannel) = memOps[bdOps[i].mem].inBlocks
    BY <1>1 DEF BdTypeOK, BdProgramOK
  <1>4. ASSUME NEW m \in DOMAIN memOps, NEW s \in DOMAIN memOps[m].starts,
               NEW i \in Runs(m, s) \ given, OneHalf(m, i)
        PROVE  BdAccessible(memOps[m].tile, bdOps[i].id, memOps[m].starts[s].chan)
    <2>1. i \in DOMAIN bdOps /\ bdOps[i].mem = m
      BY DEF Runs, BdOpsOf
    <2>2. PICK c \in Nat : RunBy(i, c) /\ BdAccessible(TileOf(i), bdOps[i].id, c)
      BY <2>1, <1>1, <1>4 DEF InReach
    <2>3. memOps[m].inBlocks
      BY <1>2, <1>4
    <2>4. bdOps[i].chan # c
      BY <2>1, <2>3, <1>3, BdAssumption
    <2>5. PICK r \in DOMAIN memOps[m].starts :
              i \in Runs(m, r) /\ c = memOps[m].starts[r].chan
      BY <2>1, <2>2, <2>4 DEF RunBy
    <2>6. c % 2 = memOps[m].starts[s].chan % 2
      BY <2>5, <1>4 DEF OneHalf
    <2> QED BY <2>1, <2>2, <2>6 DEF BdAccessible, TileOf
  <1>5. ASSUME NEW i \in DOMAIN bdOps \ given, bdOps[i].chan # NoChannel
        PROVE  BdAccessible(TileOf(i), bdOps[i].id, bdOps[i].chan)
    <2>1. bdOps[i].mem \in DOMAIN memOps
      BY <1>1, BdFields
    <2>2. memOps[bdOps[i].mem].starts = <<>>
      BY <2>1, <1>2, <1>3, <1>5
    <2>3. PICK c \in Nat : RunBy(i, c) /\ BdAccessible(TileOf(i), bdOps[i].id, c)
      BY <1>1, <1>5 DEF InReach
    <2>4. bdOps[i].chan = c
      BY <2>2, <2>3 DEF RunBy
    <2> QED BY <2>3, <2>4
  <1> QED BY <1>4, <1>5 DEF ChannelsReachTheirBds

-----------------------------------------------------------------------------
(* The generator's set is what the descriptors of the DMA have, in every   *)
(* state of the pass.                                                      *)
THEOREM BdInvariant == BdSpec => []BdInv
  BY BdStepInv, BdInitInv, PTL DEF BdSpec

LEMMA ChainsByInv == BdInv => ChainsFollowProgram
  <1> SUFFICES ASSUME BdInv, bdResult = "success", NEW i \in DOMAIN bdOps
               PROVE  {j \in BdOpsOf(bdOps[i].mem) : bdOps[j].id = bdOps[i].next}
                         = BdOpsOf(bdOps[i].mem) \cap {bdOps[i].succ}
    BY DEF ChainsFollowProgram
  <1>1. /\ BdTypeOK /\ bdOps[i].next = NextID(i) /\ mem = Len(memOps)
        /\ \A j \in DOMAIN bdOps : bdOps[j].id # NoBdID
    BY DEF BdInv, SuccessLinks
  <1>2. CASE bdOps[i].succ = 0
    BY <1>1, <1>2, BdFields DEF NextID, BdOpsOf
  <1>3. CASE bdOps[i].succ # 0
    <2> DEFINE s == bdOps[i].succ
    <2>1. s \in BdOpsOf(bdOps[i].mem) /\ s \in DOMAIN bdOps /\ bdOps[s].mem = bdOps[i].mem
      BY <1>1, <1>3, BdFields DEF BdOpsOf
    <2>2. bdOps[i].next = bdOps[s].id
      BY <1>1, <1>3 DEF NextID
    <2>3. ASSUME NEW j \in BdOpsOf(bdOps[i].mem), j # s PROVE bdOps[j].id # bdOps[s].id
      <3>1. j \in DOMAIN bdOps /\ bdOps[j].mem = bdOps[s].mem /\ bdOps[j].mem <= mem
        BY <2>1, <2>3, <1>1, BdFields DEF BdOpsOf
      <3> QED BY <3>1, <2>1, <2>3, <1>1 DEF BdInv, IDsDistinct
    <2> QED BY <2>1, <2>2, <2>3
  <1> QED BY <1>2, <1>3

(* When aie-assign-bd-ids succeeds, the number that a descriptor names as  *)
(* its next is that of its successor and of no other.                      *)
THEOREM ChainsAreFollowed == BdSpec => []ChainsFollowProgram
  BY ChainsByInv, BdInvariant, PTL

(* It runs out of descriptors only when all in reach of the channel are    *)
(* descriptors of the program.                                             *)
THEOREM BdsRunOutRightly == BdSpec => []BdsExhaustedRightly
  <1>1. BdInv => BdsExhaustedRightly
    BY DEF BdInv
  <1> QED BY <1>1, BdInvariant, PTL

(***************************************************************************)
(* Buffer addresses                                                        *)
(***************************************************************************)
BufRecord == [tile : Tiles, size : Nat \ {0},
              addr : Nat \cup {NoAddress}, bank : Nat \cup {NoBank}]

(* The section of memory that a buffer has its place in.                   *)
Section(i) == IF basic THEN 0 ELSE bufs[i].bank

(* Where the first buffer of a section may lie.                            *)
Origin(t, b) == BankStart(t, b) + IF b = 0 THEN stack[t] ELSE 0

Apart(i, j) == \/ bufs[i].addr + bufs[i].size <= bufs[j].addr
               \/ bufs[j].addr + bufs[j].size <= bufs[i].addr

InHand == unchecked \cup waiting
Placed == BufsOf(Tile) \ InHand

HasPlace(i) ==
    /\ Section(i) \in Banks(Tile) /\ bufs[i].addr \in Nat
    /\ Origin(Tile, Section(i)) <= bufs[i].addr
    /\ bufs[i].addr + bufs[i].size <= nextAddr[Section(i)]

PlacedBelowNext ==
    inTile =>
        /\ \A b \in Banks(Tile) : Origin(Tile, b) <= nextAddr[b]
        /\ \A i \in Placed : HasPlace(i)
        /\ \A i, j \in Placed : i # j /\ Section(i) = Section(j) => Apart(i, j)

OfTileInHand ==
    /\ inTile => InHand \subseteq BufsOf(Tile) /\ unchecked \cap waiting = {}
    /\ ~ inTile => InHand = {}
    /\ basic => unchecked = {}

(* A wish that is still to be looked at is the program's.                  *)
Left(t) == \E k \in DOMAIN tilesLeft : tilesLeft[k] = t
WishesLeft ==
    \A i \in DOMAIN bufs :
        Left(bufs[i].tile) /\ (inTile /\ bufs[i].tile = Tile => i \in unchecked)
            => bufs[i] \in Buf

(* A tile that is done is as the properties want it.                       *)
InItsPlace(i) ==
    LET t == bufs[i].tile IN
    /\ bufs[i].addr \in stack[t] .. MemorySize(t)
    /\ bufs[i].addr + bufs[i].size <= MemorySize(t)
    /\ ~ basic => /\ bufs[i].bank \in Banks(t)
                  /\ BankStart(t, bufs[i].bank) <= bufs[i].addr
                  /\ bufs[i].addr + bufs[i].size <= BankEnd(t, bufs[i].bank)
TilesDone ==
    /\ \A i \in DOMAIN bufs : ~ Left(bufs[i].tile) => InItsPlace(i)
    /\ \A i, j \in DOMAIN bufs :
          i # j /\ bufs[i].tile = bufs[j].tile /\ ~ Left(bufs[i].tile) => Apart(i, j)

TilesOnce == \A k, l \in DOMAIN tilesLeft : tilesLeft[k] = tilesLeft[l] => k = l

BufInv == /\ BufTypeOK /\ stack \in [Tiles -> Nat] /\ basic \in BOOLEAN
          /\ TilesOnce /\ OfTileInHand /\ WishesLeft /\ PlacedBelowNext /\ TilesDone
          /\ bufResult = "success" => tilesLeft = <<>>
-----------------------------------------------------------------------------
(* The banks divide the memory of a tile.                                  *)
LEMMA BankLayout ==
    ASSUME NEW t
    PROVE  /\ MemorySize(t) \in Nat /\ NumBanks(t) \in {1, 4} /\ 0 \in Banks(t)
           /\ Banks(t) \subseteq 0 .. 3 /\ BankStart(t, 0) = 0
           /\ \A b \in Banks(t) : /\ BankStart(t, b) \in Nat /\ BankEnd(t, b) \in Nat
                                  /\ BankEnd(t, b) <= MemorySize(t)
           /\ \A b, c \in Banks(t) : b < c => BankEnd(t, b) <= BankStart(t, c)
           /\ \A a \in Nat : a < MemorySize(t) => BankOf(t, a) # {}
  <1>1. CASE IsMemTile(t)
    <2>1. /\ MemorySize(t) \in Nat /\ NumBanks(t) = 1 /\ Banks(t) = {0}
          /\ BankSize(t) = MemorySize(t)
      BY <1>1, BufferAssumption DEF MemorySize, NumBanks, Banks, BankSize
    <2>2. BankStart(t, 0) = 0 /\ BankEnd(t, 0) = MemorySize(t)
      BY <2>1 DEF BankStart, BankEnd
    <2> QED BY <2>1, <2>2 DEF BankOf
  <1>2. CASE ~ IsMemTile(t)
    <2> DEFINE s == BankSize(t)
    <2>1. /\ MemorySize(t) \in Nat /\ NumBanks(t) = 4 /\ Banks(t) = {0, 1, 2, 3}
          /\ s \in Nat /\ MemorySize(t) = 4 * s
      <3>1. MemorySize(t) = CoreMemory /\ NumBanks(t) = 4 /\ Banks(t) = {0, 1, 2, 3}
        BY <1>2 DEF MemorySize, NumBanks, Banks
      <3> QED BY <3>1, BufferAssumption DEF BankSize
    <2>2. /\ BankStart(t, 0) = 0 /\ BankStart(t, 1) = s
          /\ BankStart(t, 2) = 2 * s /\ BankStart(t, 3) = 3 * s
          /\ BankEnd(t, 0) = s /\ BankEnd(t, 1) = 2 * s
          /\ BankEnd(t, 2) = 3 * s /\ BankEnd(t, 3) = 4 * s
      BY <2>1 DEF BankStart, BankEnd
    <2> HIDE DEF s
    <2>3. ASSUME NEW a \in Nat, a < MemorySize(t) PROVE BankOf(t, a) # {}
      BY <2>1, <2>2, <2>3 DEF BankOf
    <2> QED BY <2>1, <2>2, <2>3
  <1> QED BY <1>1, <1>2

LEMMA BufFields ==
    ASSUME BufTypeOK, NEW i \in DOMAIN bufs
    PROVE  /\ bufs[i] \in BufRecord /\ bufs[i].tile \in Tiles /\ bufs[i].size \in Nat \ {0}
           /\ bufs[i].addr \in Nat \cup {NoAddress} /\ bufs[i].bank \in Nat \cup {NoBank}
  <1>1. bufs \in Seq(BufRecord)
    BY DEF BufTypeOK, BufRecord
  <1>2. bufs[i] \in BufRecord
    BY <1>1
  <1> QED BY <1>2 DEF BufRecord

(* The tile in hand is one of the tiles left, and the first.               *)
LEMMA TileInHand ==
    ASSUME BufTypeOK, tilesLeft # <<>>
    PROVE  /\ Tile \in Tiles /\ Tile = tilesLeft[1] /\ 1 \in DOMAIN tilesLeft
           /\ Tail(tilesLeft) \in Seq(Tiles)
           /\ DOMAIN tilesLeft = 1 .. Len(tilesLeft) /\ Len(tilesLeft) \in Nat
           /\ DOMAIN Tail(tilesLeft) = 1 .. (Len(tilesLeft) - 1)
           /\ \A k \in DOMAIN Tail(tilesLeft) : Tail(tilesLeft)[k] = tilesLeft[k + 1]
  <1>1. tilesLeft \in Seq(Tiles)
    BY DEF BufTypeOK
  <1> QED BY <1>1 DEF Tile

(* The fields that a step changes of one buffer.                           *)
LEMMA OneBuffer ==
    ASSUME BufTypeOK, NEW i \in DOMAIN bufs, NEW r \in BufRecord,
           bufs' = [bufs EXCEPT ![i] = r], r.tile = bufs[i].tile, r.size = bufs[i].size
    PROVE  /\ bufs' \in Seq(BufRecord) /\ DOMAIN bufs' = DOMAIN bufs
           /\ bufs'[i] = r /\ \A j \in DOMAIN bufs \ {i} : bufs'[j] = bufs[j]
           /\ \A t : BufsOf(t)' = BufsOf(t)
           /\ \A j \in DOMAIN bufs : bufs'[j].tile = bufs[j].tile
                                     /\ bufs'[j].size = bufs[j].size
  <1>1. bufs \in Seq(BufRecord) /\ i \in 1 .. Len(bufs) /\ DOMAIN bufs = 1 .. Len(bufs)
    <2>1. bufs \in Seq(BufRecord)
      BY DEF BufTypeOK, BufRecord
    <2> QED BY <2>1
  <1>2. bufs' \in Seq(BufRecord)
    BY <1>1, ExceptSeq
  <1>3. /\ DOMAIN bufs' = DOMAIN bufs /\ bufs'[i] = r
        /\ \A j \in DOMAIN bufs \ {i} : bufs'[j] = bufs[j]
    BY <1>1
  <1>4. \A j \in DOMAIN bufs : bufs'[j].tile = bufs[j].tile /\ bufs'[j].size = bufs[j].size
    BY <1>3
  <1> QED BY <1>2, <1>3, <1>4 DEF BufsOf

(* Every step that gives a buffer of the tile its place takes it at or     *)
(* above the next address of a section and moves that behind it.           *)
LEMMA PlaceOne ==
    ASSUME BufInv, inTile,
           NEW i \in InHand, NEW r \in BufRecord, NEW b \in Banks(Tile),
           r.tile = bufs[i].tile, r.size = bufs[i].size,
           r.addr \in Nat, r.addr >= nextAddr[b], b = IF basic THEN 0 ELSE r.bank,
           bufs' = [bufs EXCEPT ![i] = r],
           nextAddr' = [nextAddr EXCEPT ![b] = r.addr + r.size],
           InHand' = InHand \ {i}, unchecked' = unchecked \ {i},
           waiting' = waiting \ {i}, bankIndex' \in 0 .. 3,
           UNCHANGED <<stack, basic, tilesLeft, inTile, bufResult>>
    PROVE  BufInv'
  <1>1. /\ BufTypeOK /\ tilesLeft # <<>> /\ Tile' = Tile
        /\ InHand \subseteq BufsOf(Tile) /\ i \in DOMAIN bufs /\ bufs[i].tile = Tile
        /\ nextAddr \in [Banks(Tile) -> Nat] /\ Tile \in Tiles
        /\ unchecked \cap waiting = {}
    BY TileInHand DEF BufInv, BufTypeOK, OfTileInHand, Tile, BufsOf
  <1>2. r.size \in Nat \ {0}
    BY <1>1, BufFields
  <1>3. /\ bufs' \in Seq(BufRecord) /\ DOMAIN bufs' = DOMAIN bufs
        /\ bufs'[i] = r /\ \A j \in DOMAIN bufs \ {i} : bufs'[j] = bufs[j]
        /\ \A t : BufsOf(t)' = BufsOf(t)
        /\ \A j \in DOMAIN bufs : bufs'[j].tile = bufs[j].tile /\ bufs'[j].size = bufs[j].size
    BY <1>1, OneBuffer
  <1>4. /\ nextAddr' \in [Banks(Tile) -> Nat] /\ nextAddr'[b] = r.addr + r.size
        /\ \A c \in Banks(Tile) : nextAddr[c] <= nextAddr'[c]
    BY <1>1, <1>2
  <1>5. Placed' = Placed \cup {i} /\ i \notin Placed /\ Placed \subseteq DOMAIN bufs \ {i}
    BY <1>1, <1>3 DEF Placed, BufsOf
  <1>6. /\ Section(i)' = b
        /\ \A j \in Placed : Section(j)' = Section(j) /\ bufs'[j] = bufs[j]
    BY <1>3, <1>5 DEF Section
  <1>7. BufTypeOK'
    <2>1. unchecked' \cup waiting' \subseteq DOMAIN bufs'
      BY <1>1, <1>3 DEF BufTypeOK
    <2> QED BY <2>1, <1>1, <1>3, <1>4 DEF BufTypeOK, BufRecord
  <1>8. TilesOnce' /\ OfTileInHand'
    BY <1>1, <1>3 DEF BufInv, TilesOnce, OfTileInHand
  <1>9. \A t : Left(t)' = Left(t)
    BY DEF Left
  <1>10. WishesLeft'
    <2> SUFFICES ASSUME NEW j \in DOMAIN bufs, Left(bufs[j].tile),
                        bufs[j].tile = Tile => j \in unchecked'
                 PROVE  bufs'[j] \in Buf
      BY <1>1, <1>3, <1>9 DEF WishesLeft
    <2>1. j # i
      BY <1>1
    <2> QED BY <2>1, <1>3 DEF BufInv, WishesLeft
  <1>11. PlacedBelowNext'
    <2>1. \A c \in Banks(Tile) : Origin(Tile, c) <= nextAddr[c] /\ Origin(Tile, c) \in Nat
      BY <1>1, BankLayout DEF BufInv, PlacedBelowNext, Origin
    <2>2. \A c \in Banks(Tile) : Origin(Tile, c)' <= nextAddr'[c]
      BY <2>1, <1>1, <1>4 DEF Origin
    <2>3. HasPlace(i)'
      BY <2>1, <1>1, <1>3, <1>4, <1>6 DEF HasPlace, Origin
    <2>4. ASSUME NEW j \in Placed PROVE HasPlace(j)' /\ HasPlace(j)
      <3>1. HasPlace(j)
        BY DEF BufInv, PlacedBelowNext
      <3>2. bufs[j].size \in Nat
        BY <1>1, <1>5, BufFields
      <3>3. HasPlace(j)'
        BY <3>1, <3>2, <1>1, <1>4, <1>6 DEF HasPlace, Origin
      <3> QED BY <3>1, <3>3
    <2>5. ASSUME NEW j \in Placed, Section(j) = b PROVE Apart(i, j)' /\ Apart(j, i)'
      <3>1. bufs[j].addr \in Nat /\ bufs[j].addr + bufs[j].size <= nextAddr[b]
        BY <2>4, <2>5 DEF HasPlace
      <3>2. nextAddr[b] \in Nat /\ bufs[j].size \in Nat
        BY <1>1, <1>5, BufFields
      <3>3. bufs[j].addr + bufs[j].size <= r.addr
        BY <3>1, <3>2
      <3> QED BY <3>3, <1>3, <1>6 DEF Apart
    <2>6. ASSUME NEW j \in Placed, NEW k \in Placed, j # k, Section(j) = Section(k)
          PROVE  Apart(j, k)'
      <3>1. Apart(j, k)
        BY <2>6 DEF BufInv, PlacedBelowNext
      <3> QED BY <3>1, <1>6 DEF Apart
    <2> QED BY <2>2, <2>3, <2>4, <2>5, <2>6, <1>1, <1>5, <1>6 DEF PlacedBelowNext
  <1>12. TilesDone'
    <2>1. Left(Tile)
      BY <1>1, TileInHand DEF Left
    <2>2. \A j \in DOMAIN bufs : ~ Left(bufs[j].tile) => bufs'[j] = bufs[j]
      BY <2>1, <1>1, <1>3
    <2>3. \A j \in DOMAIN bufs : ~ Left(bufs[j].tile) => InItsPlace(j)'
      BY <2>2 DEF BufInv, TilesDone, InItsPlace
    <2>4. \A j, k \in DOMAIN bufs :
              j # k /\ bufs[j].tile = bufs[k].tile /\ ~ Left(bufs[j].tile) => Apart(j, k)'
      BY <2>2 DEF BufInv, TilesDone, Apart
    <2> QED BY <2>3, <2>4, <1>3, <1>9 DEF TilesDone
  <1> QED BY <1>7, <1>8, <1>10, <1>11, <1>12 DEF BufInv

LEMMA BufInitInv == BufInit => BufInv
  <1> SUFFICES ASSUME BufInit PROVE BufInv
    OBVIOUS
  <1>1. bufs \in Seq(BufRecord)
    <2>1. Buf \subseteq BufRecord
      BY DEF Buf, BufRecord
    <2> QED BY <2>1 DEF BufInit
  <1>2. BufTypeOK
    <2>1. tilesLeft \in Seq(Tiles) /\ inTile = FALSE
      BY DEF BufInit
    <2>2. unchecked \cup waiting \subseteq DOMAIN bufs /\ bankIndex \in 0 .. 3
      BY DEF BufInit
    <2>3. bufResult \in {"running", "success", "overflow"}
      BY DEF BufInit
    <2> QED BY <2>1, <2>2, <2>3, <1>1 DEF BufTypeOK, BufRecord
  <1>3. \A i \in DOMAIN bufs : Left(bufs[i].tile)
    BY DEF BufInit, Left
  <1>4. OfTileInHand /\ PlacedBelowNext /\ TilesDone /\ TilesOnce
    BY <1>3 DEF BufInit, OfTileInHand, InHand, PlacedBelowNext, TilesDone, TilesOnce
  <1>5. WishesLeft
    BY DEF BufInit, WishesLeft
  <1> QED BY <1>2, <1>4, <1>5 DEF BufInit, BufInv

LEMMA BeginTileInv == BufInv /\ BeginTile => BufInv'
  <1> SUFFICES ASSUME BufInv, BeginTile PROVE BufInv'
    OBVIOUS
  <1>1. /\ BufTypeOK /\ UNCHANGED <<bufs, stack, basic, tilesLeft, bufResult>>
        /\ tilesLeft # <<>> /\ ~ inTile /\ inTile' = TRUE /\ bankIndex' = 0
        /\ unchecked' = IF basic THEN {} ELSE BufsOf(Tile)
        /\ waiting' = IF basic THEN BufsOf(Tile) ELSE {}
        /\ nextAddr' = [b \in Banks(Tile) |-> Origin(Tile, b)]
        /\ bufResult = "running"
    BY DEF BufInv, BeginTile, Origin
  <1>2. /\ Tile \in Tiles /\ Tile' = Tile /\ BufsOf(Tile)' = BufsOf(Tile)
        /\ BufsOf(Tile) \subseteq DOMAIN bufs
    BY <1>1, TileInHand DEF Tile, BufsOf
  <1>3. \A b \in Banks(Tile) : Origin(Tile, b) \in Nat
    BY <1>2, BankLayout DEF BufInv, Origin
  <1>4. nextAddr' \in [Banks(Tile) -> Nat]
    BY <1>1, <1>3
  <1>5. BufTypeOK'
    BY <1>1, <1>2, <1>4 DEF BufTypeOK
  <1>6. OfTileInHand' /\ Placed' = {} /\ TilesOnce'
    BY <1>1, <1>2 DEF OfTileInHand, InHand, Placed, BufInv, TilesOnce
  <1>7. WishesLeft'
    BY <1>1, <1>2 DEF BufInv, WishesLeft, Left
  <1>8. PlacedBelowNext'
    BY <1>1, <1>2, <1>3, <1>6 DEF PlacedBelowNext, Origin
  <1>9. TilesDone'
    BY <1>1 DEF BufInv, TilesDone, InItsPlace, Apart, Left
  <1> QED BY <1>1, <1>5, <1>6, <1>7, <1>8, <1>9 DEF BufInv

(* A buffer whose wishes cannot be met waits; nothing else changes.        *)
LEMMA CheckBufferInv ==
    ASSUME BufInv, NEW i \in DOMAIN bufs, CheckBuffer(i)
    PROVE  BufInv'
  <1> DEFINE hasAddr == KeepsAddress(i)
             size == bufs[i].size
             kept == IF hasAddr THEN BankOf(Tile, bufs[i].addr) ELSE {}
             next == [c \in Banks(Tile) |->
                         IF c \in kept THEN bufs[i].addr + size ELSE nextAddr[c]]
             bank == IF kept = {} THEN bufs[i].bank ELSE CHOOSE c \in kept : TRUE
             hasBank == bank # NoBank /\ next[bank] + size <= BankEnd(Tile, bank)
             checked == [bufs[i] EXCEPT !.bank = bank, !.addr = IF hasBank THEN next[bank] ELSE @]
  <1>1. /\ inTile /\ i \in unchecked /\ unchecked' = unchecked \ {i}
        /\ UNCHANGED <<stack, basic, tilesLeft, inTile, bankIndex, bufResult>>
    BY DEF CheckBuffer
  <1>2. bufs' = [bufs EXCEPT ![i] = checked]
    BY Zenon DEF CheckBuffer
  <1>3. nextAddr' = IF hasBank THEN [next EXCEPT ![bank] = @ + size] ELSE next
    BY Zenon DEF CheckBuffer
  <1>4. waiting' = IF hasAddr \/ hasBank THEN waiting ELSE waiting \cup {i}
    BY Zenon DEF CheckBuffer
  <1>5. /\ BufTypeOK /\ tilesLeft # <<>> /\ nextAddr \in [Banks(Tile) -> Nat]
        /\ InHand \subseteq BufsOf(Tile) /\ unchecked \cap waiting = {} /\ ~ basic
    BY <1>1 DEF BufInv, BufTypeOK, OfTileInHand
  <1>6. i \in InHand /\ bufs[i].tile = Tile /\ Tile \in Tiles /\ Left(Tile)
    BY <1>1, <1>5, TileInHand DEF InHand, BufsOf, Left
  <1>7. /\ bufs[i] \in Buf /\ bufs[i] \in BufRecord /\ size \in Nat \ {0}
        /\ bufs[i].addr \in Nat \cup {NoAddress} /\ bufs[i].bank \in Banks(Tile) \cup {NoBank}
        /\ bufs[i].addr = NoAddress \/ bufs[i].addr < MemorySize(Tile)
    <2>1. bufs[i] \in Buf
      BY <1>1, <1>6 DEF BufInv, WishesLeft
    <2> QED BY <2>1, <1>5, <1>6, BufFields DEF Buf
  <1>8. /\ hasAddr => bufs[i].addr \in Nat /\ kept # {}
        /\ kept \subseteq Banks(Tile) /\ kept \subseteq Nat
        /\ \A c \in kept : hasAddr /\ nextAddr[c] <= bufs[i].addr
        /\ \A c, d \in kept : c = d
    <2>1. CASE ~ hasAddr
      BY <2>1
    <2>2. CASE hasAddr
      <3>1. bufs[i].addr \in Nat /\ bufs[i].addr < MemorySize(Tile)
        BY <2>2, <1>7 DEF KeepsAddress
      <3>2. kept = BankOf(Tile, bufs[i].addr) /\ kept # {} /\ kept \subseteq Banks(Tile)
        BY <2>2, <3>1, BankLayout DEF BankOf
      <3>3. \A c \in kept : nextAddr[c] <= bufs[i].addr
        BY <2>2, <3>1, <3>2, <1>5 DEF KeepsAddress
      <3>4. ASSUME NEW c \in kept, NEW d \in kept PROVE ~ (c < d)
        <4>1. /\ c \in Banks(Tile) /\ d \in Banks(Tile)
              /\ BankStart(Tile, d) <= bufs[i].addr /\ bufs[i].addr < BankEnd(Tile, c)
          BY <3>2, <3>4 DEF BankOf
        <4>2. /\ BankStart(Tile, d) \in Nat /\ BankEnd(Tile, c) \in Nat
              /\ c < d => BankEnd(Tile, c) <= BankStart(Tile, d)
          BY <4>1, BankLayout
        <4> QED BY <3>1, <4>1, <4>2
      <3>5. kept \subseteq 0 .. 3
        BY <3>2, BankLayout
      <3> HIDE DEF kept, hasAddr
      <3>6. \A c, d \in kept : c = d
        BY <3>4, <3>5
      <3> QED BY <3>1, <3>2, <3>3, <3>5, <3>6, <2>2
    <2> QED BY <2>1, <2>2
  <1>9. /\ kept # {} => bank \in kept
        /\ kept = {} => bank = bufs[i].bank
        /\ bank \in Banks(Tile) \cup {NoBank}
    <2> HIDE DEF kept
    <2>1. kept # {} => bank \in kept
      OBVIOUS
    <2>2. kept = {} => bank = bufs[i].bank
      OBVIOUS
    <2> HIDE DEF bank
    <2> QED BY <2>1, <2>2, <1>7, <1>8
  <1>10. /\ DOMAIN next = Banks(Tile)
         /\ \A c \in Banks(Tile) :
               next[c] = IF c \in kept THEN bufs[i].addr + size ELSE nextAddr[c]
    OBVIOUS
  <1>11. /\ checked.tile = bufs[i].tile /\ checked.size = size /\ checked.bank = bank
         /\ checked.addr = IF hasBank THEN next[bank] ELSE bufs[i].addr
         /\ bank \in Nat \cup {NoBank} /\ checked.addr \in Nat \cup {NoAddress}
            => checked \in BufRecord
    <2> HIDE DEF bank, hasBank, next, size
    <2> QED BY <1>7 DEF BufRecord, size
  <1>12. hasBank => bank \in Banks(Tile)
    BY <1>9
  <1> HIDE DEF hasAddr, kept, bank, next, hasBank, checked
  <1>13. CASE hasAddr \/ hasBank
    <2>0. bank \in Banks(Tile)
      BY <1>13, <1>8, <1>9, <1>12
    <2>1. bank \in Banks(Tile) /\ bank \in Nat
      <3>1. Banks(Tile) \subseteq 0 .. 3
        BY BankLayout
      <3> QED BY <2>0, <3>1
    <2>2. nextAddr[bank] \in Nat
      BY <2>1, <1>5
    <2>3. next[bank] = IF hasAddr THEN bufs[i].addr + size ELSE nextAddr[bank]
      BY <2>1, <1>8, <1>9, <1>10
    <2>4. next[bank] \in Nat /\ next[bank] >= nextAddr[bank]
      BY <2>1, <2>2, <2>3, <1>7, <1>8, <1>9
    <2>5. checked.addr \in Nat /\ checked.addr >= nextAddr[bank]
      BY <2>1, <2>2, <2>4, <1>8, <1>9, <1>11, <1>13
    <2>6. nextAddr' = [nextAddr EXCEPT ![bank] = checked.addr + checked.size]
      <3>1. \A c \in Banks(Tile) \ {bank} : next[c] = nextAddr[c]
        BY <1>8, <1>9, <1>10
      <3>2. nextAddr'[bank] = checked.addr + checked.size
        BY <2>1, <2>3, <1>3, <1>10, <1>11, <1>13
      <3>3. /\ DOMAIN nextAddr' = Banks(Tile)
            /\ \A c \in Banks(Tile) \ {bank} : nextAddr'[c] = nextAddr[c]
            /\ nextAddr' = [c \in Banks(Tile) |-> nextAddr'[c]]
        <4>1. next = [c \in Banks(Tile) |-> next[c]]
          BY DEF next
        <4> QED BY <4>1, <3>1, <2>1, <1>3, <1>10
      <3> QED BY <3>2, <3>3, <2>1, <1>5
    <2>7. checked \in BufRecord
      BY <2>1, <2>5, <1>11
    <2>8. /\ waiting' = waiting \ {i} /\ InHand' = InHand \ {i} /\ bankIndex' \in 0 .. 3
      BY <1>1, <1>4, <1>5, <1>13 DEF InHand, BufTypeOK
    <2>9. bank = IF basic THEN 0 ELSE checked.bank
      BY <1>5, <1>11
    <2> HIDE DEF size
    <2> QED BY <2>1, <2>5, <2>6, <2>7, <2>8, <2>9, <1>1, <1>2, <1>6, <1>11, PlaceOne DEF size
  <1>14. CASE ~ hasAddr /\ ~ hasBank
    <2>1. kept = {} /\ bank = bufs[i].bank
      BY <1>8, <1>9, <1>14
    <2>2. checked = bufs[i]
      BY <2>1, <1>11, <1>14, <1>7 DEF checked, BufRecord
    <2>3. bufs' = bufs
      <3>1. bufs \in Seq(BufRecord)
        BY <1>5 DEF BufTypeOK, BufRecord
      <3> QED BY <3>1, <2>2, <1>2
    <2>4. nextAddr' = nextAddr
      BY <2>1, <1>3, <1>5, <1>14 DEF next
    <2>5. waiting' = waiting \cup {i} /\ InHand' = InHand
      BY <1>1, <1>4, <1>14 DEF InHand
    <2>6. BufTypeOK' /\ TilesOnce' /\ OfTileInHand'
      BY <2>3, <2>4, <2>5, <1>1, <1>5, <1>6
         DEF BufInv, BufTypeOK, TilesOnce, OfTileInHand, InHand, Tile, BufsOf
    <2>7. WishesLeft'
      BY <2>3, <2>5, <1>1, <1>6 DEF BufInv, WishesLeft, Left, Tile
    <2>8. PlacedBelowNext' /\ TilesDone'
      BY <2>3, <2>4, <2>5, <1>1 DEF BufInv, PlacedBelowNext, HasPlace, Placed, BufsOf, Tile,
         Section, Origin, Apart, TilesDone, InItsPlace, Left
    <2> QED BY <2>6, <2>7, <2>8, <1>1 DEF BufInv
  <1> QED BY <1>13, <1>14

(* The search around the banks ends at a bank of the tile.                 *)
LEMMA SearchedBankInTile ==
    ASSUME NEW size, bankIndex \in Nat
    PROVE  SearchedBank(size) \in Banks(Tile) /\ (SearchedBank(size) + 1) % NumBanks(Tile) \in 0 .. 3
  <1> DEFINE n == NumBanks(Tile)
             Full == {k \in 0 .. (n - 1) : ~ HasRoom(Turn(k), size)}
             k == CHOOSE k \in 0 .. (n - 1) :
                     /\ k = n - 1 \/ HasRoom(Turn(k), size)
                     /\ \A l \in 0 .. (k - 1) : ~ HasRoom(Turn(l), size)
  <1>1. n \in {1, 4} /\ n - 1 \in Nat
    <2>1. NumBanks(Tile) \in {1, 4}
      BY BankLayout
    <2> QED BY <2>1
  <1>2. \E m \in 0 .. (n - 1) : /\ m = n - 1 \/ m \notin Full
                                /\ \A l \in 0 .. (m - 1) : l \in Full
    <2> HIDE DEF Full, n
    <2> QED BY <1>1, SearchEnds
  <1>3. k \in 0 .. (n - 1)
    <2>1. \E m \in 0 .. (n - 1) : /\ m = n - 1 \/ HasRoom(Turn(m), size)
                                  /\ \A l \in 0 .. (m - 1) : ~ HasRoom(Turn(l), size)
      BY <1>2
    <2> QED BY <2>1
  <1>4. SearchedBank(size) = Turn(k)
    BY DEF SearchedBank
  <1> HIDE DEF k
  <1>5. Turn(k) \in 0 .. (n - 1)
    <2>1. CASE n = 1
      BY <2>1, <1>3 DEF Turn
    <2>2. CASE n = 4
      BY <2>2, <1>3 DEF Turn
    <2> QED BY <2>1, <2>2, <1>1
  <1>6. Turn(k) \in Banks(Tile)
    BY <1>5 DEF Banks
  <1>7. (Turn(k) + 1) % n \in 0 .. 3
    <2>1. CASE n = 1
      BY <2>1, <1>5
    <2>2. CASE n = 4
      BY <2>2, <1>5
    <2> QED BY <2>1, <2>2, <1>1
  <1> QED BY <1>4, <1>6, <1>7

(* What the steps of both schemes that place a waiting buffer need.        *)
LEMMA WaitingBuffer ==
    ASSUME BufInv, inTile, NEW i \in DOMAIN bufs, Largest(i)
    PROVE  /\ BufTypeOK /\ tilesLeft # <<>> /\ nextAddr \in [Banks(Tile) -> Nat]
           /\ i \in InHand /\ i \notin unchecked /\ bankIndex \in Nat
           /\ bufs[i] \in BufRecord
  <1>1. BufTypeOK /\ i \in waiting /\ unchecked \cap waiting = {}
    BY DEF BufInv, OfTileInHand, Largest
  <1>2. bufs[i] \in BufRecord
    BY <1>1, BufFields
  <1> QED BY <1>1, <1>2 DEF BufTypeOK, InHand

LEMMA PlaceBufferInv ==
    ASSUME BufInv, NEW i \in DOMAIN bufs, PlaceBuffer(i)
    PROVE  BufInv'
  <1> DEFINE b == SearchedBank(bufs[i].size)
             r == [bufs[i] EXCEPT !.bank = b, !.addr = nextAddr[b]]
  <1>1. /\ inTile /\ ~ basic /\ unchecked = {} /\ Largest(i)
        /\ waiting' = waiting \ {i}
        /\ UNCHANGED <<stack, basic, tilesLeft, inTile, unchecked, bufResult>>
    BY DEF PlaceBuffer
  <1>2. /\ bufs' = [bufs EXCEPT ![i] = r]
        /\ nextAddr' = [nextAddr EXCEPT ![b] = @ + bufs[i].size]
        /\ bankIndex' = (b + 1) % NumBanks(Tile)
    BY DEF PlaceBuffer
  <1>3. /\ nextAddr \in [Banks(Tile) -> Nat] /\ bufs[i] \in BufRecord
        /\ i \in InHand /\ i \notin unchecked /\ bankIndex \in Nat
    BY <1>1, WaitingBuffer
  <1>4. b \in Banks(Tile) /\ (b + 1) % NumBanks(Tile) \in 0 .. 3
    BY <1>3, SearchedBankInTile
  <1> HIDE DEF b
  <1>5. nextAddr[b] \in Nat /\ b \in Nat
    BY <1>3, <1>4, BankLayout
  <1>6. /\ r \in BufRecord /\ r.tile = bufs[i].tile /\ r.size = bufs[i].size
        /\ r.addr = nextAddr[b] /\ r.bank = b
    BY <1>3, <1>5 DEF BufRecord
  <1>7. nextAddr' = [nextAddr EXCEPT ![b] = r.addr + r.size]
    BY <1>2, <1>6
  <1> HIDE DEF r
  <1>8. unchecked' = unchecked \ {i} /\ InHand' = InHand \ {i}
    BY <1>1, <1>3 DEF InHand
  <1>9. r.addr >= nextAddr[b] /\ r.addr \in Nat /\ b = IF basic THEN 0 ELSE r.bank
    BY <1>1, <1>5, <1>6
  <1>10. bankIndex' \in 0 .. 3
    BY <1>2, <1>4
  <1> QED BY <1>1, <1>2, <1>3, <1>4, <1>6, <1>7, <1>8, <1>9, <1>10, PlaceOne

LEMMA PlaceBasicInv ==
    ASSUME BufInv, NEW i \in DOMAIN bufs, PlaceBasic(i)
    PROVE  BufInv'
  <1> DEFINE r == [bufs[i] EXCEPT !.addr = nextAddr[0]]
  <1>1. /\ inTile /\ basic /\ Largest(i) /\ waiting' = waiting \ {i}
        /\ nextAddr' = [nextAddr EXCEPT ![0] = @ + bufs[i].size]
        /\ UNCHANGED <<stack, basic, tilesLeft, inTile, unchecked, bankIndex, bufResult>>
    BY DEF PlaceBasic
  <1>2. bufs' = [bufs EXCEPT ![i] = r]
    BY DEF PlaceBasic
  <1>3. /\ BufTypeOK /\ nextAddr \in [Banks(Tile) -> Nat] /\ bufs[i] \in BufRecord
        /\ i \in InHand /\ i \notin unchecked
    BY <1>1, WaitingBuffer
  <1>4. 0 \in Banks(Tile) /\ nextAddr[0] \in Nat
    BY <1>3, BankLayout
  <1>5. /\ r \in BufRecord /\ r.tile = bufs[i].tile /\ r.size = bufs[i].size
        /\ r.addr = nextAddr[0]
    BY <1>3, <1>4 DEF BufRecord
  <1>6. nextAddr' = [nextAddr EXCEPT ![0] = r.addr + r.size]
    BY <1>1, <1>5
  <1> HIDE DEF r
  <1>7. unchecked' = unchecked \ {i} /\ InHand' = InHand \ {i} /\ bankIndex' \in 0 .. 3
    BY <1>1, <1>3 DEF InHand, BufTypeOK
  <1>8. r.addr >= nextAddr[0] /\ r.addr \in Nat /\ 0 = IF basic THEN 0 ELSE r.bank
    BY <1>1, <1>4, <1>5
  <1> QED BY <1>1, <1>2, <1>3, <1>4, <1>5, <1>6, <1>7, <1>8, PlaceOne

(* The tile in hand is done when none of its sections overflows.           *)
LEMMA TileIsDone ==
    ASSUME BufInv, inTile, InHand = {}, ~ Overflows
    PROVE  /\ \A i \in BufsOf(Tile) : InItsPlace(i)
           /\ \A i, j \in BufsOf(Tile) : i # j => Apart(i, j)
  <1>1. /\ BufTypeOK /\ Tile \in Tiles /\ Placed = BufsOf(Tile)
        /\ nextAddr \in [Banks(Tile) -> Nat] /\ stack[Tile] \in Nat
        /\ basic \in BOOLEAN
    BY TileInHand DEF BufInv, BufTypeOK, Placed
  <1>2. /\ MemorySize(Tile) \in Nat /\ 0 \in Banks(Tile) /\ BankStart(Tile, 0) = 0
        /\ Banks(Tile) \subseteq 0 .. 3
        /\ \A b \in Banks(Tile) : /\ BankStart(Tile, b) \in Nat /\ BankEnd(Tile, b) \in Nat
                                  /\ BankEnd(Tile, b) <= MemorySize(Tile)
        /\ \A b, c \in Banks(Tile) : b < c => BankEnd(Tile, b) <= BankStart(Tile, c)
    BY BankLayout
  <1>3. /\ basic => nextAddr[0] <= MemorySize(Tile)
        /\ ~ basic => \A b \in Banks(Tile) : nextAddr[b] <= BankEnd(Tile, b)
    BY <1>1, <1>2 DEF Overflows
  <1>4. ASSUME NEW i \in BufsOf(Tile)
        PROVE  /\ HasPlace(i) /\ bufs[i].tile = Tile /\ Section(i) \in Banks(Tile)
               /\ bufs[i].addr \in Nat /\ bufs[i].size \in Nat \ {0}
               /\ bufs[i].addr + bufs[i].size <= nextAddr[Section(i)]
               /\ BankStart(Tile, Section(i)) <= bufs[i].addr
               /\ Section(i) = 0 => stack[Tile] <= bufs[i].addr
    <2>1. HasPlace(i) /\ bufs[i].tile = Tile /\ i \in DOMAIN bufs
      BY <1>1 DEF BufInv, PlacedBelowNext, BufsOf
    <2>2. bufs[i].size \in Nat \ {0}
      BY <2>1, <1>1, BufFields
    <2> QED BY <2>1, <2>2, <1>1, <1>2 DEF HasPlace, Origin
  <1>5. stack[Tile] <= nextAddr[0]
    BY <1>1, <1>2 DEF BufInv, PlacedBelowNext, Origin
  <1>6. ASSUME NEW i \in BufsOf(Tile) PROVE InItsPlace(i)
    <2>1. CASE basic
      <3>1. Section(i) = 0
        BY <2>1 DEF Section
      <3>2. bufs[i].addr + bufs[i].size <= MemorySize(Tile)
        BY <3>1, <2>1, <1>1, <1>2, <1>3, <1>4
      <3> QED BY <3>1, <3>2, <2>1, <1>1, <1>2, <1>4 DEF InItsPlace
    <2>2. CASE ~ basic
      <3> DEFINE b == Section(i)
      <3>1. b = bufs[i].bank /\ b \in Banks(Tile) /\ b \in 0 .. 3
        BY <2>2, <1>2, <1>4 DEF Section
      <3>2. nextAddr[b] \in Nat /\ nextAddr[b] <= BankEnd(Tile, b)
        BY <3>1, <2>2, <1>1, <1>3
      <3>3. /\ bufs[i].addr + bufs[i].size <= BankEnd(Tile, b)
            /\ BankEnd(Tile, b) <= MemorySize(Tile)
        BY <3>1, <3>2, <1>2, <1>4
      <3>4. stack[Tile] <= bufs[i].addr
        <4>1. CASE b = 0
          BY <4>1, <1>4
        <4>2. CASE b # 0
          <5>1. 0 < b /\ BankEnd(Tile, 0) <= BankStart(Tile, b) /\ BankEnd(Tile, 0) \in Nat
            BY <4>2, <3>1, <1>2
          <5>2. nextAddr[0] \in Nat /\ nextAddr[0] <= BankEnd(Tile, 0)
            BY <2>2, <1>1, <1>2, <1>3
          <5> QED BY <5>1, <5>2, <3>1, <1>1, <1>2, <1>4, <1>5
        <4> QED BY <4>1, <4>2
      <3> HIDE DEF b
      <3> QED BY <3>1, <3>3, <3>4, <2>2, <1>1, <1>2, <1>4 DEF InItsPlace, b
    <2> QED BY <2>1, <2>2, <1>1
  <1>7. ASSUME NEW i \in BufsOf(Tile), NEW j \in BufsOf(Tile), Section(i) < Section(j)
        PROVE  Apart(i, j)
    <2>1. ~ basic /\ Section(i) \in Banks(Tile) /\ Section(j) \in Banks(Tile)
      BY <1>4, <1>7 DEF Section
    <2>2. /\ nextAddr[Section(i)] \in Nat
          /\ nextAddr[Section(i)] <= BankStart(Tile, Section(j))
      BY <2>1, <1>1, <1>2, <1>3, <1>7
    <2>3. bufs[i].addr + bufs[i].size <= bufs[j].addr
      BY <2>1, <2>2, <1>2, <1>4
    <2> QED BY <2>3 DEF Apart
  <1>8. ASSUME NEW i \in BufsOf(Tile), NEW j \in BufsOf(Tile), i # j
        PROVE  Apart(i, j)
    <2>1. CASE Section(i) = Section(j)
      BY <2>1, <1>1, <1>8 DEF BufInv, PlacedBelowNext
    <2>2. CASE Section(i) < Section(j)
      BY <2>2, <1>7
    <2>3. CASE Section(j) < Section(i)
      BY <2>3, <1>7 DEF Apart
    <2>4. Section(i) \in 0 .. 3 /\ Section(j) \in 0 .. 3
      BY <1>2, <1>4
    <2> QED BY <2>1, <2>2, <2>3, <2>4
  <1> QED BY <1>6, <1>8

LEMMA EndTileInv == BufInv /\ EndTile => BufInv'
  <1> SUFFICES ASSUME BufInv, EndTile PROVE BufInv'
    OBVIOUS
  <1>1. /\ BufTypeOK /\ inTile /\ InHand = {} /\ tilesLeft # <<>>
        /\ UNCHANGED <<bufs, stack, basic, nextAddr, unchecked, waiting, bankIndex>>
        /\ bufResult = "running" /\ InHand' = {}
    BY DEF BufInv, BufTypeOK, EndTile, InHand
  <1>2. CASE bufResult' = "overflow" /\ UNCHANGED <<tilesLeft, inTile>>
    <2>1. BufTypeOK' /\ TilesOnce' /\ OfTileInHand' /\ WishesLeft'
      BY <1>1, <1>2 DEF BufInv, BufTypeOK, TilesOnce, OfTileInHand, WishesLeft, InHand, Tile,
         BufsOf, Left
    <2>2. PlacedBelowNext' /\ TilesDone'
      BY <1>1, <1>2 DEF BufInv, PlacedBelowNext, HasPlace, Placed, InHand, BufsOf, Tile,
         Section, Origin, Apart, TilesDone, InItsPlace, Left
    <2> QED BY <2>1, <2>2, <1>1, <1>2 DEF BufInv
  <1>3. CASE /\ ~ Overflows /\ tilesLeft' = Tail(tilesLeft) /\ inTile' = FALSE
             /\ bufResult' = IF Tail(tilesLeft) = <<>> THEN "success" ELSE bufResult
    <2> DEFINE StillLeft(t) == \E k \in DOMAIN tilesLeft' : tilesLeft'[k] = t
    <2>1. /\ tilesLeft' \in Seq(Tiles) /\ Tile = tilesLeft[1] /\ 1 \in DOMAIN tilesLeft
          /\ DOMAIN tilesLeft = 1 .. Len(tilesLeft) /\ Len(tilesLeft) \in Nat
          /\ DOMAIN tilesLeft' = 1 .. (Len(tilesLeft) - 1)
          /\ \A k \in DOMAIN tilesLeft' : tilesLeft'[k] = tilesLeft[k + 1]
      BY <1>1, <1>3, TileInHand
    <2>2. BufTypeOK'
      BY <2>1, <1>1, <1>3 DEF BufTypeOK
    <2>3. TilesOnce'
      <3> SUFFICES ASSUME NEW k \in DOMAIN tilesLeft', NEW l \in DOMAIN tilesLeft',
                          tilesLeft'[k] = tilesLeft'[l]
                   PROVE  k = l
        BY DEF TilesOnce
      <3>1. k + 1 \in DOMAIN tilesLeft /\ l + 1 \in DOMAIN tilesLeft
        BY <2>1
      <3>2. k + 1 = l + 1
        BY <3>1, <2>1 DEF BufInv, TilesOnce
      <3> QED BY <3>2, <2>1
    <2>4. OfTileInHand' /\ PlacedBelowNext'
      BY <1>1, <1>3 DEF BufInv, OfTileInHand, PlacedBelowNext
    <2>5. ASSUME NEW t PROVE StillLeft(t) <=> Left(t) /\ t # Tile
      <3>1. ASSUME StillLeft(t) PROVE Left(t) /\ t # Tile
        <4>1. PICK k \in DOMAIN tilesLeft' : tilesLeft'[k] = t
          BY <3>1
        <4>2. k + 1 \in DOMAIN tilesLeft /\ k + 1 # 1 /\ tilesLeft[k + 1] = t
          BY <4>1, <2>1
        <4> QED BY <4>2, <2>1 DEF BufInv, TilesOnce, Left
      <3>2. ASSUME Left(t), t # Tile PROVE StillLeft(t)
        <4>1. PICK k \in DOMAIN tilesLeft : tilesLeft[k] = t
          BY <3>2 DEF Left
        <4>2. k # 1 /\ k - 1 \in DOMAIN tilesLeft' /\ (k - 1) + 1 = k
          BY <4>1, <3>2, <2>1
        <4>3. tilesLeft'[k - 1] = t
          BY <4>1, <4>2, <2>1
        <4> QED BY <4>2, <4>3
      <3> QED BY <3>1, <3>2
    <2>6. \A i \in DOMAIN bufs : Left(bufs[i].tile)' <=> StillLeft(bufs[i].tile)
      BY <1>1 DEF Left
    <2> HIDE DEF StillLeft
    <2>7. WishesLeft'
      <3> SUFFICES ASSUME NEW i \in DOMAIN bufs, Left(bufs[i].tile)' PROVE bufs[i] \in Buf
        BY <1>1 DEF WishesLeft
      <3>1. Left(bufs[i].tile) /\ bufs[i].tile # Tile
        BY <2>5, <2>6
      <3> QED BY <3>1 DEF BufInv, WishesLeft
    <2>8. TilesDone'
      <3>1. /\ \A i \in BufsOf(Tile) : InItsPlace(i)
            /\ \A i, j \in BufsOf(Tile) : i # j => Apart(i, j)
        BY <1>1, <1>3, TileIsDone
      <3>2. ASSUME NEW i \in DOMAIN bufs, ~ Left(bufs[i].tile)' PROVE InItsPlace(i)
        <4>1. CASE bufs[i].tile = Tile
          BY <4>1, <3>1 DEF BufsOf
        <4>2. CASE bufs[i].tile # Tile
          BY <4>2, <3>2, <2>5, <2>6 DEF BufInv, TilesDone
        <4> QED BY <4>1, <4>2
      <3>3. ASSUME NEW i \in DOMAIN bufs, NEW j \in DOMAIN bufs, i # j,
                   bufs[i].tile = bufs[j].tile, ~ Left(bufs[i].tile)'
            PROVE  Apart(i, j)
        <4>1. CASE bufs[i].tile = Tile
          BY <4>1, <3>1, <3>3 DEF BufsOf
        <4>2. CASE bufs[i].tile # Tile
          BY <4>2, <3>3, <2>5, <2>6 DEF BufInv, TilesDone
        <4> QED BY <4>1, <4>2
      <3> QED BY <3>2, <3>3, <1>1 DEF TilesDone, InItsPlace, Apart
    <2> QED BY <2>2, <2>3, <2>4, <2>7, <2>8, <1>1, <1>3 DEF BufInv
  <1> QED BY <1>2, <1>3 DEF EndTile

LEMMA BufStutterInv == BufInv /\ UNCHANGED bufVars => BufInv'
  <1> SUFFICES ASSUME BufInv, UNCHANGED bufVars PROVE BufInv'
    OBVIOUS
  <1>1. BufTypeOK' /\ TilesOnce' /\ OfTileInHand' /\ WishesLeft'
    BY DEF bufVars, BufInv, BufTypeOK, TilesOnce, OfTileInHand, WishesLeft, InHand, Tile,
       BufsOf, Left
  <1>2. PlacedBelowNext' /\ TilesDone'
    BY DEF bufVars, BufInv, PlacedBelowNext, HasPlace, Placed, InHand, BufsOf, Tile,
       Section, Origin, Apart, TilesDone, InItsPlace, Left
  <1> QED BY <1>1, <1>2 DEF bufVars, BufInv

LEMMA BufStepInv == BufInv /\ [BufNext]_bufVars => BufInv'
  BY BeginTileInv, CheckBufferInv, PlaceBufferInv, PlaceBasicInv, EndTileInv,
       BufStutterInv DEF BufNext
-----------------------------------------------------------------------------
(* In every state the buffers that have their place lie apart and below    *)
(* the next addresses of the tile in hand.                                 *)
THEOREM BufInvariant == BufSpec => []BufInv
  BY BufStepInv, BufInitInv, PTL DEF BufSpec

LEMMA NoTileLeft ==
    ASSUME BufInv, bufResult = "success"
    PROVE  \A t : ~ Left(t)
  BY DEF BufInv, Left

LEMMA ApartByInv == BufInv => BuffersDisjoint
  <1> SUFFICES ASSUME BufInv, bufResult = "success" PROVE BuffersDisjoint
    BY DEF BuffersDisjoint
  <1> QED BY NoTileLeft DEF BufInv, TilesDone, InItsPlace, Apart, BuffersDisjoint

(* When aie-assign-buffer-addresses succeeds, in either scheme, no two     *)
(* buffers of a tile share a byte, none lies in the stack and all lie in   *)
(* the memory of the tile.                                                 *)
THEOREM BuffersLieApart == BufSpec => []BuffersDisjoint
  BY ApartByInv, BufInvariant, PTL

LEMMA InBanksByInv == BufInv => BanksMatchAddresses
  <1> SUFFICES ASSUME BufInv, bufResult = "success" PROVE BanksMatchAddresses
    BY DEF BanksMatchAddresses
  <1> QED BY NoTileLeft DEF BufInv, TilesDone, InItsPlace, BanksMatchAddresses

(* And a buffer that the bank aware scheme has placed lies in its bank.    *)
THEOREM BuffersLieInBanks == BufSpec => []BanksMatchAddresses
  BY InBanksByInv, BufInvariant, PTL

(***************************************************************************)
(* The router                                                              *)
(***************************************************************************)
(* First, folds and recursive functions.  The largest number of 1 .. n.    *)
LEMMA UpTo ==
    ASSUME NEW n \in Nat, n # 0
    PROVE  /\ 1 .. n # {} /\ Max(1 .. n) = n /\ (1 .. n) \ {Max(1 .. n)} = 1 .. (n - 1)
  <1>1. n \in 1 .. n /\ \A y \in 1 .. n : n >= y
    OBVIOUS
  <1>2. Max(1 .. n) \in 1 .. n /\ \A y \in 1 .. n : Max(1 .. n) >= y
    BY <1>1 DEF Max
  <1>3. Max(1 .. n) = n
    BY <1>1, <1>2
  <1> QED BY <1>1, <1>3

LEMMA LargestIn ==
    ASSUME NEW N \in Nat, NEW s \in SUBSET (0 .. N), s # {}
    PROVE  Max(s) \in s /\ \A y \in s : Max(s) >= y
  <1> DEFINE T == {N - x : x \in s}
  <1>0. \A x \in s : x \in 0 .. N /\ N - x \in Nat
    OBVIOUS
  <1>1. T \in SUBSET Nat /\ T # {}
    BY <1>0
  <1>2. PICK m \in T : \A k \in T : m <= k
    <2> HIDE DEF T
    <2> QED BY <1>1, LeastNumber
  <1>3. PICK x \in s : m = N - x
    BY <1>2
  <1>4. \A y \in s : x >= y
    <2> SUFFICES ASSUME NEW y \in s PROVE x >= y
      OBVIOUS
    <2>1. N - y \in T /\ m <= N - y
      BY <1>2
    <2> QED BY <2>1, <1>0, <1>3
  <1> QED BY <1>3, <1>4 DEF Max

LEMMA MaxIn ==
    ASSUME NEW N \in Nat, NEW s \in SUBSET (1 .. N), s # {}
    PROVE  /\ Max(s) \in s /\ \A y \in s : Max(s) >= y
           /\ s \ {Max(s)} \in SUBSET (1 .. N) /\ s \ {Max(s)} \subseteq 1 .. (Max(s) - 1)
  <1>0. \A x \in s : x \in 1 .. N /\ x \in 0 .. N
    OBVIOUS
  <1>5. Max(s) \in s /\ \A y \in s : Max(s) >= y
    BY <1>0, LargestIn
  <1>6. \A y \in s \ {Max(s)} : y \in 1 .. (Max(s) - 1)
    <2>1. PICK M \in s : M = Max(s)
      BY <1>5
    <2>2. \A y \in s : y # M => y \in 1 .. (M - 1)
      BY <1>0, <1>5, <2>1
    <2> QED BY <2>1, <2>2
  <1> QED BY <1>5, <1>6

(* What MapThenFoldSet defines by recursion over the subsets of 1 .. N.    *)
FoldSolution(g, D, a, N, h) ==
    /\ g \in [SUBSET (1 .. N) -> D]
    /\ \A s \in SUBSET (1 .. N) : g[s] = IF s = {} THEN a ELSE h[<<g[s \ {Max(s)}], Max(s)>>]

LEMMA FoldExists ==
    ASSUME NEW D, NEW a \in D, NEW N \in Nat, NEW h, StepFunction(D, N, h)
    PROVE  \E g : FoldSolution(g, D, a, N, h)
  <1> DEFINE P == SUBSET (1 .. N)
             S == [P -> D]
             Next1(f, n) == [s \in P |-> IF s # {} /\ Max(s) = n THEN h[<<f[s \ {n}], n>>] ELSE f[s]]
             k == [x \in S \X (1 .. N) |-> Next1(x[1], x[2])]
             b == [s \in P |-> a]
  <1>1. StepFunction(S, N, k)
    <2>1. ASSUME NEW f \in S, NEW n \in 1 .. N PROVE Next1(f, n) \in S
      <3> SUFFICES ASSUME NEW s \in P, s # {}, Max(s) = n PROVE h[<<f[s \ {n}], n>>] \in D
        OBVIOUS
      <3>1. f[s \ {n}] \in D
        BY MaxIn
      <3> QED BY <3>1 DEF StepFunction
    <2> HIDE DEF Next1, S
    <2> QED BY <2>1 DEF StepFunction
  <1>2. b \in S
    OBVIOUS
  <1>3. PICK i : Iterates(i, S, b, N, k)
    <2> HIDE DEF S, k, b
    <2> QED BY <1>1, <1>2, IterationExists
  <1>4. i \in [0 .. N -> S] /\ i[0] = b /\ \A n \in 1 .. N : i[n] = Next1(i[n - 1], n)
    <2>1. \A n \in 1 .. N : n - 1 \in 0 .. N
      OBVIOUS
    <2> HIDE DEF S, b, Next1
    <2> QED BY <1>3, <2>1 DEF Iterates
  <1> HIDE DEF b, k
  <1> DEFINE Settled == {n \in 0 .. N : \A s \in P : (s # {} => Max(s) <= n) =>
                                \A m \in n .. N : i[m][s] = i[n][s]}
  (* A set keeps the value that it gets when its maximum is reached. *)
  <1>5. ASSUME NEW n \in 0 .. N, NEW s \in P, s # {} => Max(s) <= n
        PROVE  \A m \in n .. N : i[m][s] = i[n][s]
    <2> DEFINE U == {d \in 0 .. (N - n) : i[n + d][s] = i[n][s]}
    <2>1. 0 \in U
      OBVIOUS
    <2>2. ASSUME NEW d \in 1 .. (N - n), d - 1 \in U PROVE d \in U
      <3>1. n + d \in 1 .. N /\ n + d - 1 \in 0 .. N /\ n + d - 1 = n + (d - 1) /\ i[n + (d - 1)][s] = i[n][s]
        BY <2>2
      <3>2. ~ (s # {} /\ Max(s) = n + d)
        BY <1>5
      <3>3. i[n + d] = Next1(i[n + d - 1], n + d)
        <4> HIDE DEF Next1
        <4> QED BY <3>1, <1>4
      <3>4. i[n + d][s] = i[n + d - 1][s]
        BY <3>2, <3>3
      <3> QED BY <3>1, <3>4
    <2>3. N - n \in Nat
      OBVIOUS
    <2>4. \A d \in 0 .. (N - n) : d \in U
      <3> HIDE DEF U
      <3> QED BY <2>1, <2>2, <2>3, CountUp
    <2> SUFFICES ASSUME NEW m \in n .. N PROVE i[m][s] = i[n][s]
      OBVIOUS
    <2>5. m - n \in 0 .. (N - n) /\ n + (m - n) = m
      OBVIOUS
    <2> QED BY <2>4, <2>5
  <1>6. ASSUME NEW s \in P
        PROVE  i[N][s] = IF s = {} THEN a ELSE h[<<i[N][s \ {Max(s)}], Max(s)>>]
    <2>1. CASE s = {}
      <3>1. i[N][s] = i[0][s]
        BY <2>1, <1>5
      <3> QED BY <3>1, <2>1, <1>4 DEF b
    <2>2. CASE s # {}
      <3>1. Max(s) \in 1 .. N /\ s \ {Max(s)} \in P /\ s \ {Max(s)} \subseteq 1 .. (Max(s) - 1)
        BY <2>2, MaxIn
      <3> DEFINE n == Max(s)
                 t == s \ {Max(s)}
      <3>2. i[N][s] = i[n][s]
        BY <3>1, <1>5
      <3>3. i[n][s] = h[<<i[n - 1][t], n>>]
        BY <3>1, <2>2, <1>4
      <3>0. t \in SUBSET (1 .. N) /\ t \in P
        BY <3>1
      <3>4. t # {} => Max(t) <= n - 1
        <4>1. ASSUME t # {} PROVE Max(t) \in t
          <5> HIDE DEF t
          <5> QED BY <3>0, <4>1, MaxIn
        <4> QED BY <4>1, <3>1
      <3>5. i[N][t] = i[n - 1][t]
        <4>1. n - 1 \in 0 .. N /\ N \in (n - 1) .. N
          BY <3>1
        <4> HIDE DEF t, n, P
        <4> QED BY <4>1, <3>0, <3>4, <1>5
      <3> QED BY <3>2, <3>3, <3>5, <2>2
    <2> QED BY <2>1, <2>2
  <1>7. i[N] \in [P -> D]
    <2>1. N \in 0 .. N
      OBVIOUS
    <2> QED BY <1>4, <2>1
  <1> QED BY <1>6, <1>7 DEF FoldSolution

(* Folding a sequence goes through its elements one by one.                *)
LEMMA FoldIterates ==
    ASSUME NEW D, NEW a \in D, NEW N \in Nat, NEW h, StepFunction(D, N, h), NEW iter,
           iter[{}] = a,
           \A s \in SUBSET (1 .. N) : s # {} /\ iter[s \ {Max(s)}] \in D
               => iter[s] = h[<<iter[s \ {Max(s)}], Max(s)>>]
    PROVE  Iterates([n \in 0 .. N |-> iter[1 .. n]], D, a, N, h)
  <1> DEFINE g == [n \in 0 .. N |-> iter[1 .. n]]
             T == {n \in 0 .. N : g[n] \in D}
  <1>1. g[0] = a
    <2>1. 1 .. 0 = {} /\ 0 \in 0 .. N
      OBVIOUS
    <2> QED BY <2>1
  <1>2. ASSUME NEW n \in 1 .. N, g[n - 1] \in D PROVE g[n] = h[<<g[n - 1], n>>] /\ g[n] \in D
    <2>1. n \in Nat /\ n # 0 /\ n \in 0 .. N /\ n - 1 \in 0 .. N /\ 1 .. n \in SUBSET (1 .. N)
      OBVIOUS
    <2>2. 1 .. n # {} /\ Max(1 .. n) = n /\ (1 .. n) \ {Max(1 .. n)} = 1 .. (n - 1)
      BY <2>1, UpTo, Zenon
    <2>3. g[n] = iter[1 .. n] /\ g[n - 1] = iter[1 .. (n - 1)]
      BY <2>1
    <2> HIDE DEF g
    <2>4. iter[1 .. n] = h[<<iter[1 .. (n - 1)], n>>]
      BY <1>2, <2>1, <2>2, <2>3, Zenon
    <2>5. h[<<g[n - 1], n>>] \in D
      BY <1>2 DEF StepFunction
    <2> QED BY <2>3, <2>4, <2>5, Zenon
  <1>3. \A n \in 0 .. N : n \in T
    <2>1. 0 \in T
      BY <1>1
    <2>2. ASSUME NEW n \in 1 .. N, n - 1 \in T PROVE n \in T
      <3>1. n \in 0 .. N
        OBVIOUS
      <3> HIDE DEF g
      <3> QED BY <1>2, <2>2, <3>1
    <2> HIDE DEF T
    <2> QED BY <2>1, <2>2, CountUp
  <1>4. g \in [0 .. N -> D]
    BY <1>3
  <1>5. \A n \in 1 .. N : g[n] = h[<<g[n - 1], n>>]
    <2> SUFFICES ASSUME NEW n \in 1 .. N PROVE g[n] = h[<<g[n - 1], n>>]
      OBVIOUS
    <2>1. n - 1 \in 0 .. N
      OBVIOUS
    <2>2. n - 1 \in T
      BY <1>3, <2>1, Zenon
    <2>3. g[n - 1] \in D
      BY <2>2
    <2> HIDE DEF g
    <2> QED BY <1>2, <2>3
  <1> HIDE DEF g
  <1> QED BY <1>1, <1>4, <1>5 DEF Iterates, g

(* A recursion over 1 .. N that looks back only has a solution.            *)
LooksBack(V, N, H) ==
    /\ H \in [[1 .. N -> V] \X (1 .. N) -> V]
    /\ \A f, g \in [1 .. N -> V] : \A k \in 1 .. N :
          (\A j \in 1 .. (k - 1) : f[j] = g[j]) => H[<<f, k>>] = H[<<g, k>>]

Recurs(f, N, H) == \A k \in 1 .. N : f[k] = H[<<f, k>>]

LEMMA RecursionExists ==
    ASSUME NEW V, NEW v \in V, NEW N \in Nat, NEW H, LooksBack(V, N, H)
    PROVE  \E f \in [1 .. N -> V] : Recurs(f, N, H)
  <1> DEFINE S == [1 .. N -> V]
             Next1(f, n) == [f EXCEPT ![n] = H[<<f, n>>]]
             k == [x \in S \X (1 .. N) |-> Next1(x[1], x[2])]
             b == [n \in 1 .. N |-> v]
  <1>1. StepFunction(S, N, k) /\ b \in S
    BY DEF StepFunction, LooksBack
  <1>2. PICK i : Iterates(i, S, b, N, k)
    <2> HIDE DEF S, k, b
    <2> QED BY <1>1, IterationExists
  <1>3. i \in [0 .. N -> S] /\ \A n \in 1 .. N : i[n] = Next1(i[n - 1], n)
    <2>1. \A n \in 1 .. N : n - 1 \in 0 .. N
      OBVIOUS
    <2> HIDE DEF S, b, Next1
    <2> QED BY <1>2, <2>1 DEF Iterates
  <1> HIDE DEF b, k
  <1>4. ASSUME NEW n \in 0 .. N, NEW j \in 1 .. n
        PROVE  \A m \in n .. N : i[m][j] = i[n][j]
    <2> DEFINE U == {d \in 0 .. (N - n) : i[n + d][j] = i[n][j]}
    <2>1. 0 \in U
      OBVIOUS
    <2>2. ASSUME NEW d \in 1 .. (N - n), d - 1 \in U PROVE d \in U
      <3>1. n + d \in 1 .. N /\ n + d - 1 \in 0 .. N /\ n + d - 1 = n + (d - 1) /\ i[n + (d - 1)][j] = i[n][j]
        BY <2>2
      <3>2. i[n + d - 1] \in S /\ j \in 1 .. N /\ j # n + d
        BY <3>1, <1>3
      <3>3. i[n + d] = Next1(i[n + d - 1], n + d)
        <4> HIDE DEF Next1, S
        <4> QED BY <3>1, <1>3
      <3>4. i[n + d][j] = i[n + d - 1][j]
        BY <3>2, <3>3
      <3> QED BY <3>1, <3>4
    <2>3. N - n \in Nat
      OBVIOUS
    <2>4. \A d \in 0 .. (N - n) : d \in U
      <3> HIDE DEF U
      <3> QED BY <2>1, <2>2, <2>3, CountUp
    <2> SUFFICES ASSUME NEW m \in n .. N PROVE i[m][j] = i[n][j]
      OBVIOUS
    <2>5. m - n \in 0 .. (N - n) /\ n + (m - n) = m
      OBVIOUS
    <2> QED BY <2>4, <2>5
  <1>5. i[N] \in S
    <2>1. N \in 0 .. N
      OBVIOUS
    <2> HIDE DEF S
    <2> QED BY <1>3, <2>1
  <1>6. ASSUME NEW n \in 1 .. N PROVE i[N][n] = H[<<i[N], n>>]
    <2>1. n - 1 \in 0 .. N /\ n \in 0 .. N /\ N \in n .. N /\ N \in (n - 1) .. N /\ n \in 1 .. n
      OBVIOUS
    <2>2. i[N][n] = i[n][n]
      BY <2>1, <1>4
    <2>3. i[n - 1] \in S /\ i[n] = Next1(i[n - 1], n)
      <3> HIDE DEF S, Next1
      <3> QED BY <2>1, <1>3
    <2>4. i[n][n] = H[<<i[n - 1], n>>]
      BY <2>3
    <2>5. \A j \in 1 .. (n - 1) : i[N][j] = i[n - 1][j]
      BY <2>1, <1>4
    <2>6. H[<<i[N], n>>] = H[<<i[n - 1], n>>]
      BY <2>3, <2>5, <1>5 DEF LooksBack
    <2> QED BY <2>2, <2>4, <2>6
  <1> QED BY <1>5, <1>6 DEF Recurs
-----------------------------------------------------------------------------
(* The heap.                                                               *)
LEMMA SiftUpType ==
    ASSUME NEW P, NEW h \in Seq(P), NEW node, NEW i \in DOMAIN h
    PROVE  SiftUp(h, node, i) \in Seq(P) /\ Len(SiftUp(h, node, i)) = Len(h)
  <1> DEFINE N == Len(h)
             V == [1 .. N -> P]
             p == h[i]
             Body(f, k) == IF k > 1 /\ node[p].dist < node[h[Parent(k)]].dist
                           THEN [f[Parent(k)] EXCEPT ![k] = h[Parent(k)]]
                           ELSE [h EXCEPT ![k] = p]
             Solves(f) == f = [k \in DOMAIN h |-> Body(f, k)]
             up == CHOOSE f : Solves(f)
             H == [x \in [1 .. N -> V] \X (1 .. N) |-> Body(x[1], x[2])]
  <1>1. N \in Nat /\ DOMAIN h = 1 .. N /\ h \in V /\ p \in P /\ i \in 1 .. N
    OBVIOUS
  <1>2. \A k \in 1 .. N : k > 1 => Parent(k) \in 1 .. (k - 1) /\ Parent(k) \in 1 .. N
    BY DEF Parent
  <1>3. ASSUME NEW f, NEW k \in 1 .. N, k > 1 => f[Parent(k)] \in V PROVE Body(f, k) \in V
    <2>1. CASE k > 1 /\ node[p].dist < node[h[Parent(k)]].dist
      <3>1. h[Parent(k)] \in P /\ f[Parent(k)] \in V
        BY <2>1, <1>1, <1>2, <1>3
      <3> HIDE DEF p
      <3> QED BY <2>1, <3>1
    <2>2. CASE ~ (k > 1 /\ node[p].dist < node[h[Parent(k)]].dist)
      <3> HIDE DEF p, N
      <3> QED BY <2>2, <1>1
    <2> QED BY <2>1, <2>2
  <1>4. LooksBack(V, N, H)
    <2>1. ASSUME NEW f \in [1 .. N -> V], NEW k \in 1 .. N PROVE Body(f, k) \in V
      <3>1. k > 1 => f[Parent(k)] \in V
        <4> HIDE DEF V, N
        <4> QED BY <1>2
      <3> HIDE DEF Body, V, N
      <3> QED BY <3>1, <1>3
    <2>2. H \in [[1 .. N -> V] \X (1 .. N) -> V]
      <3> HIDE DEF Body, V, N
      <3> QED BY <2>1
    <2>3. ASSUME NEW f \in [1 .. N -> V], NEW g \in [1 .. N -> V], NEW k \in 1 .. N,
                 \A j \in 1 .. (k - 1) : f[j] = g[j]
          PROVE  H[<<f, k>>] = H[<<g, k>>]
      <3>1. k > 1 => f[Parent(k)] = g[Parent(k)]
        BY <1>2, <2>3
      <3>2. Body(f, k) = Body(g, k)
        <4> HIDE DEF p
        <4> QED BY <3>1
      <3> HIDE DEF Body, V, N
      <3> QED BY <3>2
    <2> HIDE DEF H, V, N
    <2> QED BY <2>2, <2>3 DEF LooksBack
  <1>5. Solves(up)
    <2>1. PICK f \in [1 .. N -> V] : Recurs(f, N, H)
      <3> HIDE DEF V, N, H, Body, Solves
      <3>1. N \in Nat /\ h \in V
        BY <1>1
      <3> QED BY <3>1, <1>4, RecursionExists
    <2>2. \A k \in 1 .. N : f[k] = Body(f, k)
      <3> HIDE DEF Body, V, N
      <3> QED BY <2>1 DEF Recurs
    <2>3. f = [k \in DOMAIN h |-> f[k]]
      BY <1>1
    <2>4. Solves(f)
      <3> HIDE DEF Body, V, N
      <3> QED BY <1>1, <2>2, <2>3
    <2> HIDE DEF Solves
    <2> QED BY <2>4
  <1>6. \A k \in 1 .. N : up[k] = Body(up, k)
    <2> HIDE DEF up, Body
    <2> QED BY <1>1, <1>5
  <1>7. SiftUp(h, node, i) = up[i]
    BY DEF SiftUp
  <1> HIDE DEF up
  <1> DEFINE T == {k \in 1 .. N : up[k] \notin V}
  <1>8. ASSUME T # {} PROVE FALSE
    <2>1. T \in SUBSET Nat
      OBVIOUS
    <2>2. PICK k \in T : \A j \in T : k <= j
      <3> HIDE DEF T
      <3> QED BY <1>8, <2>1, LeastNumber
    <2>3. k \in 1 .. N /\ up[k] \notin V
      OBVIOUS
    <2>4. k > 1 => up[Parent(k)] \in V
      <3>1. k > 1 => Parent(k) \notin T /\ Parent(k) \in 1 .. N
        <4> HIDE DEF T
        <4> QED BY <2>2, <2>3, <1>2
      <3> HIDE DEF V
      <3> QED BY <3>1
    <2> HIDE DEF Body, V, N
    <2> QED BY <2>3, <2>4, <1>3, <1>6
  <1>9. up[i] \in V
    BY <1>1, <1>8
  <1> HIDE DEF V
  <1>10. up[i] \in [1 .. N -> P]
    BY <1>9 DEF V
  <1> QED BY <1>1, <1>7, <1>10

LEMMA LeastChild ==
    ASSUME NEW P, NEW h \in Seq(P), NEW node \in Nodes(P),
           NEW cs \in SUBSET (1 .. Len(h)), cs # {}
    PROVE  \E k \in cs : \A l \in cs : \/ node[h[k]].dist < node[h[l]].dist
                                      \/ (node[h[k]].dist = node[h[l]].dist /\ k <= l)
  <1> DEFINE D(k) == node[h[k]].dist
             A == {D(k) : k \in cs}
  <1>1. \A k \in cs : k \in Nat /\ D(k) \in Nat
    <2> SUFFICES ASSUME NEW k \in cs PROVE k \in Nat /\ D(k) \in Nat
      OBVIOUS
    <2>1. h[k] \in P
      OBVIOUS
    <2> QED BY <2>1 DEF Nodes
  <1> HIDE DEF D
  <1>2. PICK d \in A : \A e \in A : d <= e
    <2>1. A \in SUBSET Nat /\ A # {}
      BY <1>1
    <2> HIDE DEF A
    <2> QED BY <2>1, LeastNumber
  <1> DEFINE B == {k \in cs : D(k) = d}
  <1>3. PICK k \in B : \A l \in B : k <= l
    <2>1. B \in SUBSET Nat /\ B # {}
      BY <1>1, <1>2
    <2> HIDE DEF B
    <2> QED BY <2>1, LeastNumber
  <1>4. ASSUME NEW l \in cs PROVE D(k) < D(l) \/ (D(k) = D(l) /\ k <= l)
    <2>1. D(l) \in A /\ d <= D(l) /\ D(k) = d /\ D(l) \in Nat /\ d \in Nat
      BY <1>1, <1>2, <1>3
    <2> QED BY <2>1, <1>3
  <1> QED BY <1>3, <1>4 DEF D

LEMMA ChildrenBelow ==
    ASSUME NEW P, NEW h \in Seq(P), NEW k \in 1 .. Len(h)
    PROVE  Children(h, k) \in SUBSET (1 .. Len(h)) /\ Children(h, k) \subseteq (k + 1) .. Len(h)
  <1>1. ASSUME NEW L \in Nat, NEW j \in 1 .. L,
               NEW x \in (4 * j - 2) .. (IF 4 * j + 1 < L THEN 4 * j + 1 ELSE L)
        PROVE  x \in 1 .. L /\ x \in (j + 1) .. L
    <2>1. CASE 4 * j + 1 < L
      BY <2>1
    <2>2. CASE ~ (4 * j + 1 < L)
      BY <2>2
    <2> QED BY <2>1, <2>2
  <1>2. Len(h) \in Nat
    OBVIOUS
  <1> QED BY <1>1, <1>2 DEF Children

LEMMA SiftDownType ==
    ASSUME NEW P, NEW h \in Seq(P), NEW node \in Nodes(P), NEW i \in DOMAIN h
    PROVE  SiftDown(h, node, i) \in Seq(P)
  <1> DEFINE N == Len(h)
             V == [1 .. N -> P]
             p == h[i]
             Least(cs) == CHOOSE k \in cs : \A l \in cs :
                            \/ node[h[k]].dist < node[h[l]].dist
                            \/ (node[h[k]].dist = node[h[l]].dist /\ k <= l)
             Child(k) == Least(Children(h, k))
             Goes(k) == Children(h, k) # {} /\ node[h[Child(k)]].dist < node[p].dist
             Body(f, k) == IF Goes(k) THEN [f[Child(k)] EXCEPT ![k] = h[Child(k)]]
                           ELSE [h EXCEPT ![k] = p]
             Solves(f) == f = [k \in DOMAIN h |-> Body(f, k)]
             down == CHOOSE f : Solves(f)
             Turned(f) == [k \in 1 .. N |-> f[N + 1 - k]]
             H == [x \in [1 .. N -> V] \X (1 .. N) |-> Body(Turned(x[1]), N + 1 - x[2])]
  <1>1. N \in Nat /\ DOMAIN h = 1 .. N /\ h \in V /\ p \in P /\ i \in 1 .. N
    OBVIOUS
  <1>2. \A k \in 1 .. N : Goes(k) => Child(k) \in (k + 1) .. N
    <2> SUFFICES ASSUME NEW k \in 1 .. N, Goes(k) PROVE Child(k) \in (k + 1) .. N
      OBVIOUS
    <2>1. Children(h, k) \in SUBSET (1 .. Len(h)) /\ Children(h, k) \subseteq (k + 1) .. Len(h)
      BY <1>1, ChildrenBelow
    <2>2. Child(k) \in Children(h, k)
      BY <2>1, LeastChild
    <2> HIDE DEF Child
    <2> QED BY <2>1, <2>2
  <1> HIDE DEF Child, Goes, Least
  <1>3. ASSUME NEW f, NEW k \in 1 .. N, Goes(k) => f[Child(k)] \in V PROVE Body(f, k) \in V
    <2>1. CASE Goes(k)
      <3>1. h[Child(k)] \in P /\ f[Child(k)] \in V
        BY <2>1, <1>1, <1>2, <1>3
      <3> HIDE DEF p
      <3> QED BY <2>1, <3>1
    <2>2. CASE ~ Goes(k)
      <3> HIDE DEF p, N
      <3> QED BY <2>2, <1>1
    <2> QED BY <2>1, <2>2
  <1>4. LooksBack(V, N, H)
    <2>1. ASSUME NEW f \in [1 .. N -> V], NEW m \in 1 .. N
          PROVE  N + 1 - m \in 1 .. N /\ Body(Turned(f), N + 1 - m) \in V
      <3>0. N + 1 - m \in 1 .. N
        BY <1>1
      <3>1. Turned(f) \in [1 .. N -> V]
        <4>1. \A k \in 1 .. N : N + 1 - k \in 1 .. N
          BY <1>1
        <4> HIDE DEF V, N
        <4> QED BY <4>1
      <3>2. Goes(N + 1 - m) => Turned(f)[Child(N + 1 - m)] \in V
        <4>1. Goes(N + 1 - m) => Child(N + 1 - m) \in 1 .. N
          BY <3>0, <1>2
        <4> HIDE DEF V, N, Turned
        <4> QED BY <3>1, <4>1
      <3> HIDE DEF Body, V, N, Turned
      <3> QED BY <3>0, <3>2, <1>3
    <2>2. H \in [[1 .. N -> V] \X (1 .. N) -> V]
      <3> HIDE DEF Body, V, N, Turned
      <3> QED BY <2>1
    <2>3. ASSUME NEW f \in [1 .. N -> V], NEW g \in [1 .. N -> V], NEW m \in 1 .. N,
                 \A j \in 1 .. (m - 1) : f[j] = g[j]
          PROVE  H[<<f, m>>] = H[<<g, m>>]
      <3> DEFINE k == N + 1 - m
      <3>1. Goes(k) => /\ Child(k) \in 1 .. N /\ N + 1 - Child(k) \in 1 .. (m - 1)
        BY <2>1, <1>1, <1>2
      <3>2. Goes(k) => Turned(f)[Child(k)] = Turned(g)[Child(k)]
        <4> HIDE DEF k, N, V
        <4> QED BY <3>1, <2>3
      <3>3. Body(Turned(f), k) = Body(Turned(g), k)
        <4> HIDE DEF k, p, Turned
        <4> QED BY <3>2
      <3> HIDE DEF Body, V, N, Turned
      <3> QED BY <3>3
    <2> HIDE DEF H, V, N
    <2> QED BY <2>2, <2>3 DEF LooksBack
  <1>5. Solves(down)
    <2>1. PICK f \in [1 .. N -> V] : Recurs(f, N, H)
      <3> HIDE DEF V, N, H, Body, Solves
      <3>1. N \in Nat /\ h \in V
        BY <1>1
      <3> QED BY <3>1, <1>4, RecursionExists
    <2>2. \A m \in 1 .. N : f[m] = Body(Turned(f), N + 1 - m)
      <3> HIDE DEF Body, V, N, Turned
      <3> QED BY <2>1 DEF Recurs
    <2> DEFINE g == Turned(f)
    <2>3. \A k \in 1 .. N : g[k] = Body(g, k)
      <3> SUFFICES ASSUME NEW k \in 1 .. N PROVE g[k] = Body(g, k)
        OBVIOUS
      <3>1. N + 1 - k \in 1 .. N /\ N + 1 - (N + 1 - k) = k
        BY <1>1
      <3>2. f[N + 1 - k] = Body(Turned(f), k)
        <4> HIDE DEF Body, Turned, N
        <4> QED BY <3>1, <2>2
      <3>3. g[k] = f[N + 1 - k]
        <4> HIDE DEF N
        <4> QED OBVIOUS
      <3> HIDE DEF Body, Turned
      <3> QED BY <3>2, <3>3
    <2>4. g = [k \in DOMAIN h |-> g[k]]
      <3> HIDE DEF N
      <3> QED BY <1>1
    <2> HIDE DEF g
    <2>5. Solves(g)
      <3> HIDE DEF Body, V, N
      <3> QED BY <1>1, <2>3, <2>4
    <2> HIDE DEF Solves
    <2> QED BY <2>5
  <1>6. \A k \in 1 .. N : down[k] = Body(down, k)
    <2> HIDE DEF down, Body
    <2> QED BY <1>1, <1>5
  <1>7. SiftDown(h, node, i) = down[i]
    BY DEF SiftDown, Goes, Child, Least
  <1> HIDE DEF down
  <1> DEFINE T == {m \in 0 .. N : m = 0 \/ down[N + 1 - m] \in V}
             U == {m \in 1 .. N : down[N + 1 - m] \notin V}
  <1>8. ASSUME U # {} PROVE FALSE
    <2>1. U \in SUBSET Nat
      OBVIOUS
    <2>2. PICK m \in U : \A j \in U : m <= j
      <3> HIDE DEF U
      <3> QED BY <1>8, <2>1, LeastNumber
    <2> DEFINE k == N + 1 - m
    <2>3. m \in 1 .. N /\ k \in 1 .. N /\ down[k] \notin V
      BY <1>1
    <2>4. Goes(k) => down[Child(k)] \in V
      <3>1. Goes(k) => Child(k) \in 1 .. N /\ N + 1 - Child(k) \in 1 .. N
                       /\ N + 1 - Child(k) < m /\ N + 1 - (N + 1 - Child(k)) = Child(k)
        BY <2>3, <1>1, <1>2
      <3>2. Goes(k) => N + 1 - Child(k) \notin U
        <4> HIDE DEF U, k
        <4> QED BY <2>2, <2>3, <3>1
      <3> HIDE DEF V, k, N
      <3> QED BY <3>1, <3>2
    <2> HIDE DEF Body, V, N, k
    <2> QED BY <2>3, <2>4, <1>3, <1>6
  <1>9. down[i] \in V
    <2>1. N + 1 - i \in 1 .. N /\ N + 1 - (N + 1 - i) = i
      BY <1>1
    <2>2. N + 1 - i \notin U
      BY <1>8
    <2> HIDE DEF V, N
    <2> QED BY <2>1, <2>2
  <1> HIDE DEF V
  <1>10. down[i] \in [1 .. N -> P]
    BY <1>9 DEF V
  <1> QED BY <1>1, <1>7, <1>10

LEMMA PushType ==
    ASSUME NEW P, NEW h \in Seq(P), NEW node, NEW p \in P
    PROVE  Push(h, node, p) \in Seq(P)
  <1>1. Append(h, p) \in Seq(P) /\ Len(h) + 1 \in DOMAIN Append(h, p)
    OBVIOUS
  <1> QED BY <1>1, SiftUpType DEF Push

LEMMA PopType ==
    ASSUME NEW P, NEW h \in Seq(P), h # <<>>, NEW node \in Nodes(P)
    PROVE  Pop(h, node) \in Seq(P)
  <1>1. CASE Len(h) = 1
    BY <1>1 DEF Pop
  <1>2. CASE Len(h) # 1
    <2> DEFINE g == [h EXCEPT ![1] = Last(h)]
               t == SubSeq(g, 1, Len(h) - 1)
    <2>1. Len(h) \in Nat /\ Len(h) > 1 /\ Last(h) \in P
      <3>1. Len(h) \in Nat /\ Len(h) # 0 /\ Len(h) # 1
        BY <1>2, EmptySeq
      <3>2. Len(h) \in Nat /\ Len(h) > 1 /\ Len(h) \in 1 .. Len(h)
        <4>1. \A n \in Nat : n # 0 /\ n # 1 => n > 1 /\ n \in 1 .. n
          OBVIOUS
        <4> QED BY <3>1, <4>1, Zenon
      <3>3. h[Len(h)] \in P
        BY <3>2
      <3> QED BY <3>2, <3>3 DEF Last
    <2>2. g \in Seq(P) /\ Len(g) = Len(h)
      BY <2>1
    <2>3. t \in Seq(P) /\ 1 \in DOMAIN t
      <3> HIDE DEF g
      <3> QED BY <2>1, <2>2
    <2>4. SiftDown(t, node, 1) \in Seq(P)
      <3> HIDE DEF t
      <3> QED BY <2>3, SiftDownType
    <2> QED BY <2>4, <1>2 DEF Pop
  <1> QED BY <1>1, <1>2
-----------------------------------------------------------------------------
(* The members of a finite set, in a strict total order, are counted by    *)
(* how many come before them.                                              *)
StrictOrder(S, R) ==
    /\ \A x \in S : <<x, x>> \notin R
    /\ \A x, y, z \in S : <<x, y>> \in R /\ <<y, z>> \in R => <<x, z>> \in R
    /\ \A x, y \in S : x # y => <<x, y>> \in R \/ <<y, x>> \in R

LEMMA RankOnto ==
    ASSUME NEW S, IsFiniteSet(S), NEW R, StrictOrder(S, R),
           NEW n \in 1 .. Cardinality(S)
    PROVE  \E x \in S : Cardinality({y \in S : <<y, x>> \in R}) = n - 1
  <1> DEFINE Below(x) == {y \in S : <<y, x>> \in R}
             N == Cardinality(S)
             f == [x \in S |-> Cardinality(Below(x)) + 1]
  <1>1. N \in Nat
    BY FS_CardinalityType
  <1>2. ASSUME NEW x \in S
        PROVE  IsFiniteSet(Below(x)) /\ Cardinality(Below(x)) \in Nat /\ Cardinality(Below(x)) < N
    <2>1. Below(x) \in SUBSET (S \ {x})
      BY DEF StrictOrder
    <2>2. IsFiniteSet(S \ {x}) /\ Cardinality(S \ {x}) = N - 1
      BY FS_RemoveElement
    <2> HIDE DEF Below
    <2>3. IsFiniteSet(Below(x)) /\ Cardinality(Below(x)) <= Cardinality(S \ {x})
      BY <2>1, <2>2, FS_Subset
    <2>4. Cardinality(Below(x)) \in Nat
      BY <2>3, FS_CardinalityType
    <2> QED BY <2>2, <2>3, <2>4, <1>1
  <1>3. f \in [S -> 1 .. N]
    <2> HIDE DEF Below, N
    <2> QED BY <1>1, <1>2
  <1>4. ASSUME NEW x \in S, NEW y \in S, <<x, y>> \in R PROVE f[x] # f[y]
    <2>1. Below(x) \in SUBSET (Below(y) \ {x}) /\ x \in Below(y)
      BY <1>4 DEF StrictOrder
    <2> HIDE DEF Below
    <2>2. IsFiniteSet(Below(y) \ {x}) /\ Cardinality(Below(y) \ {x}) = Cardinality(Below(y)) - 1
      BY <1>2, <2>1, FS_RemoveElement
    <2>3. Cardinality(Below(x)) <= Cardinality(Below(y) \ {x})
      BY <2>1, <2>2, FS_Subset
    <2>4. Cardinality(Below(x)) \in Nat /\ Cardinality(Below(y)) \in Nat
      BY <1>2
    <2> QED BY <2>2, <2>3, <2>4
  <1>5. f \in Injection(S, 1 .. N)
    <2>1. \A x, y \in S : x # y => f[x] # f[y]
      <3> HIDE DEF f
      <3> QED BY <1>4 DEF StrictOrder
    <2> HIDE DEF f, N
    <2> QED BY <1>3, <2>1 DEF Injection, IsInjective
  <1>6. f \in Surjection(S, 1 .. N)
    <2>1. IsFiniteSet(1 .. N) /\ Cardinality(1 .. N) = N
      BY <1>1, FS_Interval
    <2> DEFINE I == 1 .. N
    <2> HIDE DEF f, I
    <2>2. f \in Injection(S, I) /\ IsFiniteSet(I) /\ Cardinality(S) = Cardinality(I)
      BY <1>5, <2>1 DEF I
    <2>3. f \in Surjection(S, I)
      BY <2>2, FS_Injection
    <2> QED BY <2>3 DEF I
  <1>7. PICK x \in S : f[x] = n
    <2> HIDE DEF f
    <2> QED BY <1>6 DEF Surjection
  <1>8. Cardinality(Below(x)) + 1 = n /\ Cardinality(Below(x)) \in Nat
    BY <1>2, <1>7
  <1>9. Cardinality(Below(x)) = n - 1
    <2>1. \A k \in Nat : k + 1 = n => k = n - 1
      OBVIOUS
    <2> HIDE DEF Below
    <2> QED BY <1>8, <2>1, Zenon
  <1> QED BY <1>9, Zenon

-----------------------------------------------------------------------------
(* The graph is finite.                                                    *)
LEMMA AtMostType == ASSUME NEW n \in Nat PROVE AtMost(n) \in 0 .. MaxChannels
  BY TargetAssumption DEF AtMost

LEMMA WidthType ==
    ASSUME NEW t, NEW b \in Bundles
    PROVE  NumIn(t, b) \in 0 .. MaxChannels /\ NumOut(t, b) \in 0 .. MaxChannels
  <1>1. MemTileWidth[b] \in Nat /\ ShimWidth[b] \in Nat /\ CoreWidth[b] \in Nat
    BY DEF MemTileWidth, ShimWidth, CoreWidth
  <1>2. NumSource(t, b) \in 0 .. MaxChannels
    BY <1>1, AtMostType DEF NumSource
  <1>3. NumDest(t, b) \in 0 .. MaxChannels
    BY <1>1, AtMostType DEF NumDest
  <1>4. 0 \in 0 .. MaxChannels
    BY TargetAssumption
  <1>5. NumSourceShimMux(t, b) \in 0 .. MaxChannels
    BY <1>4, AtMostType DEF NumSourceShimMux
  <1>6. NumDestShimMux(t, b) \in 0 .. MaxChannels
    BY <1>4, AtMostType DEF NumDestShimMux
  <1> QED BY <1>2, <1>3, <1>5, <1>6 DEF NumIn, NumOut

LEMMA PortsType ==
    ASSUME NEW t \in Tiles
    PROVE  /\ Ports(t, NumIn) \subseteq Tiles \X Bundles \X (0 .. MaxChannels)
           /\ Ports(t, NumOut) \subseteq Tiles \X Bundles \X (0 .. MaxChannels)
           /\ \A p \in Ports(t, NumIn) \cup Ports(t, NumOut) : p[1] = t
  <1>1. ASSUME NEW b \in Bundles, NEW c \in 0 .. (NumIn(t, b) - 1) PROVE c \in 0 .. MaxChannels
    BY WidthType, TargetAssumption
  <1>2. ASSUME NEW b \in Bundles, NEW c \in 0 .. (NumOut(t, b) - 1) PROVE c \in 0 .. MaxChannels
    BY WidthType, TargetAssumption
  <1> QED BY <1>1, <1>2 DEF Ports

LEMMA ConnectionsType ==
    /\ Connections \subseteq EndPoints \X EndPoints
    /\ EndPoints \subseteq Tiles \X Bundles \X (0 .. MaxChannels)
  <1> DEFINE U == Tiles \X Bundles \X (0 .. MaxChannels)
  <1>1. Intra \subseteq U \X U
    BY PortsType DEF Intra
  <1>2. ASSUME NEW p \in U, Neighbour(p) # p, Neighbour(p)[1] \in Tiles PROVE Neighbour(p) \in U
    <2>1. {"North", "East", "South", "West"} \subseteq Bundles
      BY DEF Bundles, BundleOrder
    <2>2. p[3] \in 0 .. MaxChannels
      OBVIOUS
    <2> QED BY <1>2, <2>1, <2>2 DEF Neighbour
  <1>3. Inter \subseteq U \X U
    <2>1. \A p \in UNION {Ports(t, NumOut) : t \in Tiles} : p \in U
      BY PortsType
    <2> HIDE DEF U
    <2> QED BY <1>2, <2>1 DEF Inter
  <1> HIDE DEF U
  <1>4. Connections \subseteq U \X U
    BY <1>1, <1>3 DEF Connections
  <1>5. \A c \in Connections : c = <<c[1], c[2]>> /\ c[1] \in U /\ c[2] \in U
    BY <1>4
  <1>6. EndPoints \subseteq U
    BY <1>5 DEF EndPoints
  <1>7. Connections \subseteq EndPoints \X EndPoints
    BY <1>5 DEF EndPoints
  <1> QED BY <1>6, <1>7 DEF U

LEMMA EndPointsFinite ==
    /\ IsFiniteSet(EndPoints) /\ Cardinality(EndPoints) \in Nat
    /\ \A S \in SUBSET EndPoints : IsFiniteSet(S) /\ Cardinality(S) \in Nat
  <1> DEFINE A == 0 .. Columns - 1
             B == 0 .. Rows - 1
             D == 0 .. MaxChannels
             K == DOMAIN BundleOrder
             Q == (A \X B) \X (K \X D)
             g == [q \in Q |-> <<q[1], BundleOrder[q[2][1]], q[2][2]>>]
             I == {g[q] : q \in Q}
  <1>1. IsFiniteSet(A) /\ IsFiniteSet(B) /\ IsFiniteSet(D) /\ IsFiniteSet(K)
    <2>1. K = 1 .. 11
      BY DEF BundleOrder
    <2>2. 0 \in Int /\ 1 \in Int /\ 11 \in Int /\ Columns - 1 \in Int /\ Rows - 1 \in Int
          /\ MaxChannels \in Int
      BY TargetAssumption
    <2>3. \A i, j \in Int : IsFiniteSet(i .. j)
      BY FS_Interval, Zenon
    <2> QED BY <2>1, <2>2, <2>3, Zenon
  <1>2. IsFiniteSet(Q)
    <2> HIDE DEF A, B, D, K
    <2> QED BY <1>1, FS_Product
  <1>3. IsFiniteSet(I)
    <2>1. g \in Surjection(Q, I)
      <3> HIDE DEF Q
      <3> QED BY DEF Surjection
    <2> HIDE DEF g, Q, I
    <2> QED BY <1>2, <2>1, FS_Surjection
  <1>4. Tiles \X Bundles \X D \subseteq I
    <2> SUFFICES ASSUME NEW t \in Tiles, NEW b \in Bundles, NEW d \in D PROVE <<t, b, d>> \in I
      OBVIOUS
    <2>1. PICK k \in K : b = BundleOrder[k]
      BY DEF Bundles
    <2>2. <<t, <<k, d>>>> \in Q
      BY DEF Tiles
    <2>3. g[<<t, <<k, d>>>>] = <<t, b, d>>
      <3> HIDE DEF Q
      <3> QED BY <2>1, <2>2
    <2> HIDE DEF g, Q
    <2> QED BY <2>2, <2>3
  <1>5. EndPoints \in SUBSET I
    BY <1>4, ConnectionsType
  <1>6. ASSUME NEW S \in SUBSET EndPoints PROVE IsFiniteSet(S) /\ Cardinality(S) \in Nat
    <2>1. IsFiniteSet(S)
      <3> HIDE DEF I
      <3> QED BY <1>3, <1>5, FS_Subset
    <2> QED BY <2>1, FS_CardinalityType
  <1> QED BY <1>6

LEMMA SeqOfLength ==
    ASSUME NEW S, NEW N \in Nat, NEW s \in [1 .. N -> S]
    PROVE  s \in Seq(S) /\ Len(s) = N
  OBVIOUS

(* The members of S by their rank, each of them once.                      *)
Ranked(S, R) == [n \in 1 .. Cardinality(S) |->
                   CHOOSE x \in S : Cardinality({y \in S : <<y, x>> \in R}) = n - 1]

LEMMA RankedType ==
    ASSUME NEW S, IsFiniteSet(S), NEW R, StrictOrder(S, R)
    PROVE  /\ Ranked(S, R) \in Seq(S) /\ Ranked(S, R) \in [1 .. Cardinality(S) -> S]
           /\ Len(Ranked(S, R)) = Cardinality(S)
           /\ \A m, n \in 1 .. Cardinality(S) : Ranked(S, R)[m] = Ranked(S, R)[n] => m = n
           /\ \A x \in S : \E n \in 1 .. Cardinality(S) : Ranked(S, R)[n] = x
  <1> DEFINE Rank(x) == Cardinality({y \in S : <<y, x>> \in R})
             N == Cardinality(S)
             E(n) == CHOOSE x \in S : Rank(x) = n - 1
             s == Ranked(S, R)
  <1>1. N \in Nat
    BY FS_CardinalityType
  <1>2. \A n \in 1 .. N : \E x \in S : Rank(x) = n - 1
    BY RankOnto
  <1>3. s = [n \in 1 .. N |-> E(n)]
    BY Zenon DEF Ranked
  <1> HIDE DEF Rank, N, s
  <1>4. \A n \in 1 .. N : s[n] \in S /\ Rank(s[n]) = n - 1
    <2>1. \A n \in 1 .. N : E(n) \in S /\ Rank(E(n)) = n - 1
      BY <1>2
    <2> HIDE DEF E
    <2> QED BY <1>3, <2>1
  <1>5. ASSUME NEW m \in 1 .. N, NEW n \in 1 .. N, s[m] = s[n] PROVE m = n
    <2>1. m - 1 = n - 1
      BY <1>4, <1>5, Zenon
    <2>2. m \in Int /\ n \in Int
      OBVIOUS
    <2> QED BY <2>1, <2>2
  <1>6. s \in [1 .. N -> S]
    <2> HIDE DEF E
    <2> QED BY <1>3, <1>4
  <1>7. s \in Seq(S) /\ Len(s) = N
    BY <1>1, <1>6, SeqOfLength, Zenon
  <1>8. \A x \in S : \E n \in 1 .. N : s[n] = x
    <2> DEFINE I == 1 .. N
    <2>1. IsFiniteSet(I) /\ Cardinality(I) = N
      BY <1>1, FS_Interval
    <2>2. s \in Injection(I, S)
      BY <1>5, <1>6 DEF Injection, IsInjective
    <2> HIDE DEF I
    <2>3. s \in Surjection(I, S)
      <3>1. Cardinality(I) = Cardinality(S)
        BY <2>1 DEF N
      <3> QED BY <2>1, <2>2, <3>1, FS_Injection
    <2> QED BY <2>3 DEF Surjection, I
  <1> QED BY <1>5, <1>6, <1>7, <1>8, Zenon DEF N, s

(* Bundles are told apart by their number.                                 *)
LEMMA BundleNumbers ==
    ASSUME NEW b \in Bundles
    PROVE  BundleInt(b) \in 0 .. 10 /\ BundleOrder[BundleInt(b) + 1] = b
  <1> DEFINE K == DOMAIN BundleOrder
             k == CHOOSE j \in K : BundleOrder[j] = b
  <1>1. K = 1 .. 11
    BY DEF BundleOrder
  <1>2. \E j \in K : BundleOrder[j] = b
    BY DEF Bundles
  <1>3. k \in 1 .. 11 /\ BundleOrder[k] = b
    <2> HIDE DEF K
    <2> QED BY <1>1, <1>2
  <1>4. BundleInt(b) = k - 1
    BY DEF BundleInt
  <1>5. \A j \in 1 .. 11 : j - 1 \in 0 .. 10 /\ (j - 1) + 1 = j
    OBVIOUS
  <1> HIDE DEF k, K
  <1> QED BY <1>3, <1>4, <1>5, Zenon

(* operator< orders end points, and so do the positions of a sequence.     *)
Lex(a, b) == \/ a[1] < b[1]
             \/ a[1] = b[1] /\ \/ a[2] < b[2]
                               \/ a[2] = b[2] /\ \/ a[3] < b[3]
                                                 \/ a[3] = b[3] /\ a[4] < b[4]

LEMMA LexStrict ==
    ASSUME NEW a \in Int \X Int \X Int \X Int, NEW b \in Int \X Int \X Int \X Int,
           NEW c \in Int \X Int \X Int \X Int
    PROVE  ~ Lex(a, a) /\ (Lex(a, b) /\ Lex(b, c) => Lex(a, c)) /\ (a # b => Lex(a, b) \/ Lex(b, a))
  <1>1. \A i1, i2, i3, i4, j1, j2, j3, j4, k1, k2, k3, k4 \in Int :
           /\ Lex(<<i1, i2, i3, i4>>, <<j1, j2, j3, j4>>) /\ Lex(<<j1, j2, j3, j4>>, <<k1, k2, k3, k4>>)
              => Lex(<<i1, i2, i3, i4>>, <<k1, k2, k3, k4>>)
    BY DEF Lex
  <1>2. ~ Lex(a, a)
    BY DEF Lex
  <1>3. a # b => Lex(a, b) \/ Lex(b, a)
    BY DEF Lex
  <1>4. /\ a = <<a[1], a[2], a[3], a[4]>> /\ b = <<b[1], b[2], b[3], b[4]>>
        /\ c = <<c[1], c[2], c[3], c[4]>>
        /\ a[1] \in Int /\ a[2] \in Int /\ a[3] \in Int /\ a[4] \in Int
        /\ b[1] \in Int /\ b[2] \in Int /\ b[3] \in Int /\ b[4] \in Int
        /\ c[1] \in Int /\ c[2] \in Int /\ c[3] \in Int /\ c[4] \in Int
    OBVIOUS
  <1>5. Lex(a, b) /\ Lex(b, c) => Lex(a, c)
    BY <1>4 DEF Lex
  <1> QED BY <1>2, <1>3, <1>5

PointKey(p) == <<Col(p[1]), Row(p[1]), BundleInt(p[2]), p[3]>>

LEMMA PointKeys ==
    ASSUME NEW p \in PathEndPoint, NEW q \in PathEndPoint
    PROVE  /\ PointKey(p) \in Int \X Int \X Int \X Int
           /\ PointKey(p) = PointKey(q) => p = q
           /\ EndPointLess(p, q) <=> Lex(PointKey(p), PointKey(q))
  <1>1. /\ p[1] \in Tiles /\ p[2] \in Bundles /\ p[3] \in Int /\ p = <<p[1], p[2], p[3]>>
        /\ q[1] \in Tiles /\ q[2] \in Bundles /\ q[3] \in Int /\ q = <<q[1], q[2], q[3]>>
    BY DEF PathEndPoint
  <1>2. \A t \in Tiles : Col(t) \in Int /\ Row(t) \in Int /\ t = <<Col(t), Row(t)>>
    BY DEF Tiles, Col, Row
  <1>3. /\ BundleInt(p[2]) \in Int /\ BundleInt(q[2]) \in Int
        /\ BundleInt(p[2]) = BundleInt(q[2]) <=> p[2] = q[2]
    <2>1. \A k \in 0 .. 10 : k \in Int
      OBVIOUS
    <2>2. /\ BundleInt(p[2]) \in 0 .. 10 /\ BundleOrder[BundleInt(p[2]) + 1] = p[2]
          /\ BundleInt(q[2]) \in 0 .. 10 /\ BundleOrder[BundleInt(q[2]) + 1] = q[2]
      BY <1>1, BundleNumbers, Zenon
    <2> QED BY <2>1, <2>2
  <1>4. PointKey(p) \in Int \X Int \X Int \X Int
    BY <1>1, <1>2, <1>3 DEF PointKey
  <1>5. ASSUME PointKey(p) = PointKey(q) PROVE p = q
    <2>1. /\ Col(p[1]) = Col(q[1]) /\ Row(p[1]) = Row(q[1]) /\ p[2] = q[2] /\ p[3] = q[3]
      BY <1>3, <1>5 DEF PointKey
    <2>2. p[1] = q[1]
      <3>1. p[1] = <<Col(p[1]), Row(p[1])>> /\ q[1] = <<Col(q[1]), Row(q[1])>>
        BY <1>1, <1>2, Zenon
      <3> QED BY <2>1, <3>1
    <2> QED BY <1>1, <2>1, <2>2, Zenon
  <1>6. EndPointLess(p, q) <=> Lex(PointKey(p), PointKey(q))
    BY <1>3 DEF EndPointLess, Lex, PointKey
  <1> QED BY <1>4, <1>5, <1>6

LEMMA EndPointOrder ==
    ASSUME NEW S \in SUBSET PathEndPoint
    PROVE  StrictOrder(S, {r \in S \X S : EndPointLess(r[1], r[2])})
  <1> DEFINE R == {r \in S \X S : EndPointLess(r[1], r[2])}
             I4 == Int \X Int \X Int \X Int
  <1>1. \A x, y \in S : <<x, y>> \in R <=> Lex(PointKey(x), PointKey(y))
    <2>1. \A x, y \in S : <<x, y>> \in R <=> EndPointLess(x, y)
      OBVIOUS
    <2> HIDE DEF R
    <2> QED BY <2>1, PointKeys, Zenon
  <1>2. \A x \in S : PointKey(x) \in I4
    BY PointKeys, Zenon
  <1>3. \A x, y \in S : x # y => PointKey(x) # PointKey(y)
    BY PointKeys, Zenon
  <1>4. \A a, b, c \in I4 : ~ Lex(a, a) /\ (Lex(a, b) /\ Lex(b, c) => Lex(a, c))
                            /\ (a # b => Lex(a, b) \/ Lex(b, a))
    BY LexStrict, Zenon
  <1> HIDE DEF R, I4
  <1>5. \A x \in S : <<x, x>> \notin R
    BY <1>1, <1>2, <1>4, Zenon
  <1>6. \A x, y, z \in S : <<x, y>> \in R /\ <<y, z>> \in R => <<x, z>> \in R
    <2> SUFFICES ASSUME NEW x \in S, NEW y \in S, NEW z \in S, <<x, y>> \in R, <<y, z>> \in R
                 PROVE  <<x, z>> \in R
      OBVIOUS
    <2>1. Lex(PointKey(x), PointKey(y)) /\ Lex(PointKey(y), PointKey(z))
      BY <1>1, Zenon
    <2>2. Lex(PointKey(x), PointKey(z))
      BY <1>2, <1>4, <2>1, Zenon
    <2> QED BY <1>1, <2>2, Zenon
  <1>7. \A x, y \in S : x # y => <<x, y>> \in R \/ <<y, x>> \in R
    BY <1>1, <1>2, <1>3, <1>4, Zenon
  <1> QED BY <1>5, <1>6, <1>7 DEF StrictOrder, R

LEMMA PointsArePaths == EndPoints \subseteq PathEndPoint
  <1>1. 0 .. MaxChannels \subseteq Nat
    OBVIOUS
  <1> QED BY <1>1, ConnectionsType DEF PathEndPoint

LEMMA ChannelsType ==
    ASSUME NEW p \in EndPoints
    PROVE  Channels[p] \in Seq({q \in EndPoints : <<p, q>> \in Connections})
  <1> DEFINE S == {q \in EndPoints : <<p, q>> \in Connections}
             R == {r \in S \X S : EndPointLess(r[1], r[2])}
  <1>1. IsFiniteSet(S) /\ S \in SUBSET PathEndPoint
    BY EndPointsFinite, PointsArePaths
  <1>2. Channels[p] = [n \in 1 .. Cardinality(S) |->
                         CHOOSE x \in S : Cardinality({y \in S : EndPointLess(y, x)}) = n - 1]
    BY DEF Channels, Sorted
  <1>3. \A x \in S : {y \in S : EndPointLess(y, x)} = {y \in S : <<y, x>> \in R}
    <2> HIDE DEF S
    <2> QED OBVIOUS
  <1> HIDE DEF S
  <1>4. StrictOrder(S, R)
    BY <1>1, EndPointOrder
  <1> HIDE DEF R
  <1>5. \A n : (CHOOSE x \in S : Cardinality({y \in S : EndPointLess(y, x)}) = n - 1)
               = CHOOSE x \in S : Cardinality({y \in S : <<y, x>> \in R}) = n - 1
    BY <1>3
  <1>6. Channels[p] = Ranked(S, R)
    BY <1>2, <1>5 DEF Ranked
  <1>7. Ranked(S, R) \in Seq(S)
    BY <1>1, <1>4, RankedType
  <1>8. Channels[p] \in Seq(S)
    BY <1>6, <1>7, Zenon
  <1> QED BY <1>8 DEF S

-----------------------------------------------------------------------------
(* Counters.                                                               *)
Counter == [used : Nat, count : Nat, grp : Int, prio : BOOLEAN, over : Nat, demand : Nat]
Usages == UNION {[C -> Counter] : C \in SUBSET Connections}

LEMMA InitDemandType ==
    ASSUME NEW over \in Nat, NEW used \in Nat
    PROVE  InitDemand(over, used) \in Nat
  <1>1. 10 + over \in Nat /\ 50 + used \in Nat
    OBVIOUS
  <1>2. \A a, b \in Nat : a * b \in Nat
    OBVIOUS
  <1>3. (10 + over) * (50 + used) \in Nat
    BY <1>1, <1>2, Zenon
  <1>4. \A a \in Nat : a * 200 \in Nat
    OBVIOUS
  <1> QED BY <1>3, <1>4, Zenon DEF InitDemand, Unit

LEMMA NoUsageType == NoUsage \in Counter
  <1>1. 0 \in Nat
    OBVIOUS
  <1>2. InitDemand(0, 0) \in Nat
    BY <1>1, InitDemandType, Zenon
  <1> QED BY <1>2 DEF NoUsage, Counter

LEMMA OfType ==
    ASSUME NEW u \in Usages, NEW c
    PROVE  Of(u, c) \in Counter
  <1>1. PICK C \in SUBSET Connections : u \in [C -> Counter]
    BY DEF Usages
  <1>2. c \in DOMAIN u => u[c] \in Counter
    BY <1>1
  <1> QED BY <1>2, NoUsageType DEF Of

LEMMA BumpType ==
    ASSUME NEW r \in Counter
    PROVE  /\ Bump(r) \in Counter
           /\ Bump(r).used = r.used /\ Bump(r).count = r.count /\ Bump(r).grp = r.grp
  <1>1. r.demand \in Nat /\ r.demand \div 10 \in Nat /\ Prohibitive \in Nat
    BY DEF Counter, Prohibitive
  <1>2. r.demand + r.demand \div 10 \in Nat
    BY <1>1
  <1>3. PICK d \in Nat : Bump(r) = [r EXCEPT !.demand = d]
    BY <1>1, <1>2 DEF Bump
  <1> QED BY <1>3 DEF Counter
-----------------------------------------------------------------------------
(* The search stays within the graph: it comes to an end point over a      *)
(* connection that is open.                                                *)
Free == {c \in Connections : Open(c)}
Legal == {c \in Intra : Open(c)}
Linked(node) ==
    \A p \in EndPoints : \/ node[p].pred = p
                         \/ node[p].pred \in EndPoints /\ <<node[p].pred, p>> \in Free
LinkedSearches(points) == {s \in Searches(points) : Linked(s.node)}

LEMMA RelaxType ==
    ASSUME usage \in Usages, NEW points, EndPoints \subseteq points,
           NEW s \in Searches(points), NEW a \in points, NEW q \in EndPoints
    PROVE  /\ Relax(s, a, q) \in Searches(points)
           /\ Linked(s.node) /\ a \in EndPoints /\ <<a, q>> \in Free
              => Linked(Relax(s, a, q).node)
  <1> DEFINE u == Of(usage, <<a, q>>).demand
             d == s.node[a].dist + u
             old == s.node[q]
             new == [dist |-> d, pred |-> a, color |-> "gray"]
             node == IF d < old.dist /\ old.color # "black"
                     THEN [s.node EXCEPT ![q] = new] ELSE s.node
  <1>1. s.heap \in Seq(points) /\ s.node \in Nodes(points)
    BY DEF Searches
  <1>2. u \in Nat
    BY OfType DEF Counter
  <1>3. s.node[a].dist \in Nat
    BY <1>1 DEF Nodes
  <1>4. d \in Nat
    <2> HIDE DEF u
    <2> QED BY <1>2, <1>3
  <1> HIDE DEF d
  <1>5. new \in [dist : Nat, pred : points, color : {"white", "gray", "black"}]
    BY <1>4
  <1> HIDE DEF new
  <1>6. node \in Nodes(points)
    BY <1>1, <1>5 DEF Nodes
  <1>7. q \in points /\ Push(s.heap, node, q) \in Seq(points)
    <2> HIDE DEF node
    <2> QED BY <1>1, PushType
  <1>8. Relax(s, a, q) = [heap |-> IF old.color = "white" THEN Push(s.heap, node, q) ELSE s.heap,
                          node |-> node]
    BY DEF Relax, d, new, u
  <1>9. ASSUME Linked(s.node), a \in EndPoints, <<a, q>> \in Free PROVE Linked(node)
    <2>1. new.pred = a
      BY DEF new
    <2>2. \A p \in EndPoints : node[p] = s.node[p] \/ (p = q /\ node[p].pred = a)
      BY <1>1, <2>1 DEF Nodes
    <2> HIDE DEF node
    <2> QED BY <1>9, <2>2 DEF Linked
  <1> HIDE DEF node, old
  <1>10. Relax(s, a, q) \in Searches(points)
    BY <1>1, <1>6, <1>7, <1>8 DEF Searches
  <1>11. Relax(s, a, q).node = node
    BY <1>8
  <1> QED BY <1>9, <1>10, <1>11

(* The neighbours of a, one after the other.                               *)
VisitAll(a, t0, next) ==
    FoldLeft(LAMBDA t, q : IF Open(<<a, q>>) THEN Relax(t, a, q) ELSE t, t0, next)

LEMMA VisitFold ==
    ASSUME NEW D, NEW a, NEW t0 \in D, NEW next, NEW N \in Nat, DOMAIN next = 1 .. N,
           \A t \in D : \A n \in 1 .. N :
               (IF Open(<<a, next[n]>>) THEN Relax(t, a, next[n]) ELSE t) \in D
    PROVE  VisitAll(a, t0, next) \in D
  <1> DEFINE Op(t, n) == IF Open(<<a, next[n]>>) THEN Relax(t, a, next[n]) ELSE t
             P == SUBSET (1 .. N)
             Solves(f) == f = [s \in P |-> IF s = {} THEN t0 ELSE Op(f[s \ {Max(s)}], Max(s))]
             iter == CHOOSE f : Solves(f)
             h == [x \in D \X (1 .. N) |-> Op(x[1], x[2])]
  <1>1. VisitAll(a, t0, next) = iter[1 .. N]
    BY Zenon DEF VisitAll, FoldLeft, MapThenFoldSet
  <1>2. StepFunction(D, N, h)
    <2> HIDE DEF Op
    <2> QED BY DEF StepFunction, Op
  <1> HIDE DEF Op
  <1>3. \A s \in P : s # {} => Max(s) \in 1 .. N
    BY MaxIn
  <1>4. Solves(iter)
    <2>1. PICK g : FoldSolution(g, D, t0, N, h)
      <3> HIDE DEF h
      <3> QED BY <1>2, FoldExists
    <2>2. \A s \in P : g[s] = IF s = {} THEN t0 ELSE Op(g[s \ {Max(s)}], Max(s))
      <3> SUFFICES ASSUME NEW s \in P, s # {}
                   PROVE  h[<<g[s \ {Max(s)}], Max(s)>>] = Op(g[s \ {Max(s)}], Max(s))
        BY <2>1 DEF FoldSolution
      <3>1. Max(s) \in 1 .. N /\ g[s \ {Max(s)}] \in D
        BY <1>3, <2>1 DEF FoldSolution
      <3> QED BY <3>1
    <2>3. g = [s \in P |-> g[s]]
      BY <2>1 DEF FoldSolution
    <2>4. Solves(g)
      BY <2>2, <2>3
    <2> HIDE DEF Solves
    <2> QED BY <2>4
  <1>5. /\ iter[{}] = t0
        /\ \A s \in P : s # {} => iter[s] = Op(iter[s \ {Max(s)}], Max(s))
    <2> HIDE DEF iter
    <2> QED BY <1>4
  <1> HIDE DEF iter, Solves
  <1>6. \A s \in P : s # {} /\ iter[s \ {Max(s)}] \in D => iter[s] = h[<<iter[s \ {Max(s)}], Max(s)>>]
    BY <1>3, <1>5
  <1>7. Iterates([n \in 0 .. N |-> iter[1 .. n]], D, t0, N, h)
    <2> HIDE DEF h
    <2> QED BY <1>2, <1>5, <1>6, FoldIterates
  <1>8. iter[1 .. N] \in D
    <2>1. N \in 0 .. N
      OBVIOUS
    <2> QED BY <1>7, <2>1 DEF Iterates
  <1> QED BY <1>1, <1>8, Zenon

LEMMA VisitKeeps ==
    ASSUME usage \in Usages, NEW points, EndPoints \subseteq points,
           NEW D, D = Searches(points) \/ D = LinkedSearches(points),
           NEW s \in D, s.heap # <<>>
    PROVE  VisitEndPoint(s) \in D
  <1> DEFINE a == s.heap[1]
             next == IF a \in EndPoints THEN Channels[a] ELSE <<>>
             t0 == [s EXCEPT !.heap = Pop(@, s.node)]
             F == VisitAll(a, t0, next)
  <1>1. D \subseteq Searches(points)
    BY DEF LinkedSearches
  <1>2. s.heap \in Seq(points) /\ s.node \in Nodes(points)
    BY <1>1 DEF Searches
  <1>3. a \in points
    <2>1. 1 \in DOMAIN s.heap
      BY <1>2, EmptySeq
    <2> QED BY <1>2, <2>1
  <1>4. t0 \in Searches(points) /\ t0.node = s.node
    <2>1. Pop(s.heap, s.node) \in Seq(points)
      BY <1>2, PopType
    <2>2. s = [heap |-> s.heap, node |-> s.node]
      BY <1>1 DEF Searches
    <2>3. t0 = [heap |-> Pop(s.heap, s.node), node |-> s.node]
      BY <2>2
    <2> QED BY <1>2, <2>1, <2>3 DEF Searches
  <1>5. t0 \in D
    BY <1>4 DEF LinkedSearches
  <1>6. PICK N \in Nat : /\ DOMAIN next = 1 .. N
                         /\ \A n \in 1 .. N : /\ a \in EndPoints /\ next[n] \in EndPoints
                                              /\ <<a, next[n]>> \in Connections
    <2>1. CASE a \in EndPoints
      <3> DEFINE C == {q \in EndPoints : <<a, q>> \in Connections}
      <3>1. next = Channels[a] /\ next \in Seq(C)
        BY <2>1, ChannelsType
      <3>2. Len(next) \in Nat /\ DOMAIN next = 1 .. Len(next) /\ \A n \in 1 .. Len(next) : next[n] \in C
        <4> HIDE DEF next, C
        <4> QED BY <3>1
      <3> HIDE DEF next, a
      <3> QED BY <2>1, <3>2
    <2>2. CASE a \notin EndPoints
      <3>1. DOMAIN next = 1 .. 0
        BY <2>2
      <3> HIDE DEF next
      <3> QED BY <3>1
    <2> QED BY <2>1, <2>2
  <1> HIDE DEF a, t0, next
  <1>7. ASSUME NEW t \in D, NEW n \in 1 .. N
        PROVE  (IF Open(<<a, next[n]>>) THEN Relax(t, a, next[n]) ELSE t) \in D
    <2>1. CASE ~ Open(<<a, next[n]>>)
      BY <2>1
    <2>2. CASE Open(<<a, next[n]>>)
      <3>1. <<a, next[n]>> \in Free /\ a \in EndPoints /\ next[n] \in EndPoints
        BY <1>6, <2>2 DEF Free
      <3>2. t \in Searches(points)
        BY <1>1
      <3>3. Relax(t, a, next[n]) \in Searches(points)
        BY <1>3, <3>1, <3>2, RelaxType
      <3>4. Linked(t.node) => Linked(Relax(t, a, next[n]).node)
        BY <1>3, <3>1, <3>2, RelaxType
      <3>5. D = LinkedSearches(points) => Linked(t.node)
        BY DEF LinkedSearches
      <3>6. Relax(t, a, next[n]) \in D
        BY <3>3, <3>4, <3>5 DEF LinkedSearches
      <3> QED BY <2>2, <3>6
    <2> QED BY <2>1, <2>2
  <1>8. F \in D
    BY <1>5, <1>6, <1>7, VisitFold
  <1>9. VisitEndPoint(s) = [F EXCEPT !.node[a].color = "black"]
    BY DEF VisitEndPoint, VisitAll, a, next, t0
  <1> HIDE DEF F
  <1>10. ASSUME NEW t \in D PROVE [t EXCEPT !.node[a].color = "black"] \in D
    <2> DEFINE node == [t.node EXCEPT ![a].color = "black"]
    <2>0. t.heap \in Seq(points) /\ t.node \in Nodes(points)
          /\ t = [heap |-> t.heap, node |-> t.node]
      BY <1>1 DEF Searches
    <2>1. t.heap \in Seq(points) /\ t.node \in Nodes(points)
          /\ [t EXCEPT !.node[a].color = "black"] = [heap |-> t.heap, node |-> node]
      BY <2>0
    <2>2. node \in Nodes(points)
      BY <1>3, <2>1 DEF Nodes
    <2>3. \A p \in EndPoints : node[p].pred = t.node[p].pred
      BY <1>3, <2>1 DEF Nodes
    <2> HIDE DEF node
    <2>4. Linked(t.node) => Linked(node)
      BY <2>3 DEF Linked
    <2>5. [heap |-> t.heap, node |-> node] \in Searches(points)
      BY <2>1, <2>2 DEF Searches
    <2>6. D = LinkedSearches(points) => Linked(t.node)
      BY DEF LinkedSearches
    <2>7. [heap |-> t.heap, node |-> node] \in D
      BY <2>4, <2>5, <2>6 DEF LinkedSearches
    <2> QED BY <2>1, <2>7
  <1> QED BY <1>8, <1>9, <1>10

LEMMA StartedType ==
    ASSUME NEW src
    PROVE  Started(src) \in LinkedSearches(EndPoints \cup {src})
  <1> DEFINE points == EndPoints \cup {src}
             node == [p \in points |-> [dist |-> IF p = src THEN 0 ELSE Far, pred |-> p,
                                        color |-> "white"]]
  <1>1. node \in Nodes(points)
    BY DEF Nodes, Far
  <1>2. Linked(node)
    BY DEF Linked
  <1>3. Started(src) = [heap |-> <<src>>, node |-> node]
    BY DEF Started
  <1>4. <<src>> \in Seq(points)
    OBVIOUS
  <1> HIDE DEF node
  <1> QED BY <1>1, <1>2, <1>3, <1>4 DEF LinkedSearches, Searches

LEMMA Halves ==
    ASSUME NEW n \in Nat, n > 1
    PROVE  n \div 2 \in 1 .. (n - 1) /\ n - n \div 2 \in 1 .. (n - 1)
  OBVIOUS

LEMMA SearchType ==
    ASSUME usage \in Usages, NEW src
    PROVE  ShortestPaths(src) \in Nodes(EndPoints \cup {src}) /\ Linked(ShortestPaths(src))
  <1> DEFINE points == EndPoints \cup {src}
             N == Cardinality(EndPoints) + 1
             S == Searches(points)
             L == LinkedSearches(points)
             V == [S -> S]
             Part(g, n, s) == IF s.heap = <<>> THEN s
                              ELSE IF n = 1 THEN VisitEndPoint(s)
                              ELSE g[n - n \div 2][g[n \div 2][s]]
             All(g, n) == [s \in S |-> Part(g, n, s)]
             Solves(f) == f = [n \in 1 .. N |-> All(f, n)]
             after == CHOOSE f : Solves(f)
             H == [x \in [1 .. N -> V] \X (1 .. N) |-> All(x[1], x[2])]
  <1>1. N \in Nat /\ N \in 1 .. N
    BY EndPointsFinite
  <1>2. EndPoints \subseteq points /\ L \subseteq S
    BY DEF LinkedSearches
  <1>3. ASSUME NEW D, D = S \/ D = L, NEW s \in D, s.heap # <<>> PROVE VisitEndPoint(s) \in D
    <2> HIDE DEF points
    <2>1. D = Searches(points) \/ D = LinkedSearches(points)
      BY <1>3
    <2> HIDE DEF S, L
    <2> QED BY <2>1, <1>2, <1>3, VisitKeeps
  <1>4. ShortestPaths(src) = after[N][Started(src)].node
    BY DEF ShortestPaths
  <1>5. Started(src) \in L
    BY StartedType
  <1> HIDE DEF points, S, L, N
  <1>6. \A n \in 1 .. N : n # 1 => n \div 2 \in 1 .. N /\ n - n \div 2 \in 1 .. N
                                   /\ n \div 2 \in 1 .. (n - 1) /\ n - n \div 2 \in 1 .. (n - 1)
    <2> SUFFICES ASSUME NEW n \in 1 .. N, n # 1
                 PROVE  n \div 2 \in 1 .. N /\ n - n \div 2 \in 1 .. N
                        /\ n \div 2 \in 1 .. (n - 1) /\ n - n \div 2 \in 1 .. (n - 1)
      OBVIOUS
    <2>1. n \in Nat /\ n > 1 /\ \A k \in 1 .. (n - 1) : k \in 1 .. N
      BY <1>1
    <2> QED BY <2>1, Halves
  (* A part of the search keeps D, when its two halves do. *)
  <1>7. ASSUME NEW D, D = S \/ D = L, NEW g, NEW n \in 1 .. N, NEW s \in D,
               \A m \in 1 .. (n - 1) : \A x \in D : g[m][x] \in D
        PROVE  Part(g, n, s) \in D
    <2>1. CASE s.heap # <<>> /\ n # 1
      <3>1. n \div 2 \in 1 .. (n - 1) /\ n - n \div 2 \in 1 .. (n - 1)
        BY <1>6, <2>1
      <3>2. g[n \div 2][s] \in D
        BY <1>7, <3>1
      <3>3. g[n - n \div 2][g[n \div 2][s]] \in D
        BY <1>7, <3>1, <3>2
      <3> QED BY <2>1, <3>3
    <2>2. CASE ~ (s.heap # <<>> /\ n # 1)
      <3>1. s.heap # <<>> => VisitEndPoint(s) \in D
        BY <1>3, <1>7
      <3> QED BY <2>2, <3>1
    <2> QED BY <2>1, <2>2
  <1>8. LooksBack(V, N, H)
    <2>1. ASSUME NEW g \in [1 .. N -> V], NEW n \in 1 .. N PROVE All(g, n) \in V
      <3> SUFFICES ASSUME NEW s \in S PROVE Part(g, n, s) \in S
        OBVIOUS
      <3>1. \A m \in 1 .. (n - 1) : \A x \in S : g[m][x] \in S
        <4>1. \A m \in 1 .. (n - 1) : m \in 1 .. N
          BY <1>1
        <4> QED BY <4>1
      <3> HIDE DEF Part, V
      <3> QED BY <3>1, <1>7
    <2>2. H \in [[1 .. N -> V] \X (1 .. N) -> V]
      <3> HIDE DEF All, V
      <3> QED BY <2>1
    <2>3. ASSUME NEW f \in [1 .. N -> V], NEW g \in [1 .. N -> V], NEW n \in 1 .. N,
                 \A j \in 1 .. (n - 1) : f[j] = g[j]
          PROVE  H[<<f, n>>] = H[<<g, n>>]
      <3>1. \A s \in S : Part(f, n, s) = Part(g, n, s)
        <4>1. n # 1 => f[n \div 2] = g[n \div 2] /\ f[n - n \div 2] = g[n - n \div 2]
          BY <1>6, <2>3
        <4> QED BY <4>1
      <3>2. All(f, n) = All(g, n)
        <4> HIDE DEF Part
        <4> QED BY <3>1
      <3> HIDE DEF All, V
      <3> QED BY <3>2
    <2> HIDE DEF H, V
    <2> QED BY <2>2, <2>3 DEF LooksBack
  <1>9. Solves(after)
    <2>1. PICK g \in [1 .. N -> V] : Recurs(g, N, H)
      <3> DEFINE id == [s \in S |-> s]
      <3>1. id \in V
        OBVIOUS
      <3> HIDE DEF V, H, All, Solves, id
      <3> QED BY <1>1, <1>8, <3>1, RecursionExists
    <2>2. \A n \in 1 .. N : g[n] = All(g, n)
      <3> HIDE DEF All, V
      <3> QED BY <2>1 DEF Recurs
    <2>3. g = [n \in 1 .. N |-> g[n]]
      <3> HIDE DEF V, H
      <3> QED BY <2>1
    <2> HIDE DEF All, V, H
    <2>4. Solves(g)
      BY <2>2, <2>3
    <2> HIDE DEF Solves
    <2> QED BY <2>4
  <1>10. \A n \in 1 .. N : \A s \in S : after[n][s] = Part(after, n, s)
    <2>1. \A n \in 1 .. N : after[n] = All(after, n)
      <3> HIDE DEF after, All
      <3> QED BY <1>9
    <2> HIDE DEF after, Part
    <2> QED BY <2>1
  <1> HIDE DEF after, Solves, V, H, All
  <1> DEFINE Bad == {n \in 1 .. N : ~ \A s \in L : after[n][s] \in L}
  <1>11. ASSUME Bad # {} PROVE FALSE
    <2>1. Bad \in SUBSET Nat
      OBVIOUS
    <2>2. PICK n \in Bad : \A m \in Bad : n <= m
      <3> HIDE DEF Bad
      <3> QED BY <1>11, <2>1, LeastNumber
    <2>3. n \in 1 .. N /\ ~ \A s \in L : after[n][s] \in L
      OBVIOUS
    <2>4. PICK s \in L : after[n][s] \notin L
      BY <2>3
    <2>5. \A m \in 1 .. (n - 1) : m \in 1 .. N /\ m \notin Bad
      <3>1. \A m \in 1 .. (n - 1) : m \in 1 .. N /\ ~ (n <= m)
        BY <2>3, <1>1
      <3> HIDE DEF Bad
      <3> QED BY <2>2, <3>1
    <2>6. \A m \in 1 .. (n - 1) : \A x \in L : after[m][x] \in L
      BY <2>5
    <2> HIDE DEF Bad, Part
    <2>7. Part(after, n, s) \in L
      BY <1>7, <2>3, <2>6
    <2> QED BY <1>2, <1>10, <2>3, <2>4, <2>7
  <1>12. after[N][Started(src)] \in L
    <2>1. N \notin Bad
      <3> HIDE DEF Bad
      <3> QED BY <1>11
    <2> QED BY <1>1, <1>5, <2>1
  <1> QED BY <1>4, <1>12 DEF L, points, LinkedSearches, Searches
-----------------------------------------------------------------------------
(* What a connection counts for when the group in hand has ended: packets  *)
(* of one group count once.                                                *)
Taken(u, c) == Of(u, c).used + (IF Of(u, c).count > 0 THEN 1 ELSE 0)
Grown(u, v) == \A c : Of(v, c).used >= Of(u, c).used /\ Taken(v, c) >= Taken(u, c)

LEMMA TakenType ==
    ASSUME NEW u \in Usages, NEW c
    PROVE  Of(u, c).used \in Nat /\ Of(u, c).count \in Nat /\ Taken(u, c) \in Nat
           /\ Taken(u, c) >= Of(u, c).used
  <1>1. Of(u, c).used \in Nat /\ Of(u, c).count \in Nat
    BY OfType DEF Counter
  <1> QED BY <1>1 DEF Taken

LEMMA GrownTrans ==
    ASSUME NEW u \in Usages, NEW v \in Usages, NEW w \in Usages, Grown(u, v), Grown(v, w)
    PROVE  Grown(u, w)
  <1> SUFFICES ASSUME NEW c PROVE Of(w, c).used >= Of(u, c).used /\ Taken(w, c) >= Taken(u, c)
    BY DEF Grown
  <1>1. /\ Of(u, c).used \in Nat /\ Of(v, c).used \in Nat /\ Of(w, c).used \in Nat
        /\ Taken(u, c) \in Nat /\ Taken(v, c) \in Nat /\ Taken(w, c) \in Nat
    BY TakenType
  <1>2. /\ Of(v, c).used >= Of(u, c).used /\ Taken(v, c) >= Taken(u, c)
        /\ Of(w, c).used >= Of(v, c).used /\ Taken(w, c) >= Taken(v, c)
    BY DEF Grown
  <1> QED BY <1>1, <1>2

LEMMA BesideType ==
    ASSUME NEW c \in Connections
    PROVE  Beside(c) \subseteq Connections
  BY DEF Beside, Connections

LEMMA UseGrows ==
    ASSUME NEW u \in Usages, NEW c \in Connections, NEW r, r.grp \in Int, r.prio \in BOOLEAN
    PROVE  /\ Use(u, c, r) \in Usages /\ Grown(u, Use(u, c, r))
           /\ Taken(Use(u, c, r), c) >= 1 + Of(u, c).used
           /\ r.grp = -1 => Taken(Use(u, c, r), c) >= 1 + Taken(u, c)
  <1> DEFINE old == [Of(u, c) EXCEPT !.prio = r.prio]
             shares == r.grp >= 0 /\ old.grp \in {-1, r.grp}
             full == old.count + 1 >= MaxPacketStreams
             new == IF ~ shares THEN [old EXCEPT !.used = @ + 1]
                    ELSE [old EXCEPT !.count = IF full THEN 0 ELSE @ + 1,
                                     !.used = IF full THEN @ + 1 ELSE @,
                                     !.grp = r.grp]
             marked == IF shares THEN Beside(c) ELSE {}
             C == DOMAIN u \cup marked \cup {c}
             Value(e) == IF e = c THEN Bump(new)
                         ELSE IF e \in marked THEN [Of(u, e) EXCEPT !.grp = r.grp]
                         ELSE u[e]
             v == Use(u, c, r)
  <1>1. v = [e \in C |-> Value(e)]
    BY DEF Use
  <1>2. PICK B \in SUBSET Connections : u \in [B -> Counter]
    BY DEF Usages
  <1>3. C \in SUBSET Connections
    BY <1>2, BesideType
  <1>4. old \in Counter /\ old.used = Of(u, c).used /\ old.count = Of(u, c).count
    <2>1. Of(u, c) \in Counter
      BY OfType
    <2> QED BY <2>1 DEF Counter
  <1> HIDE DEF old, marked
  <1>5. new \in Counter
    <2>1. old.used + 1 \in Nat /\ old.count + 1 \in Nat
      BY <1>4 DEF Counter
    <2> HIDE DEF full, shares
    <2> QED BY <1>4, <2>1 DEF Counter
  <1>6. new.used = (IF ~ shares \/ full THEN old.used + 1 ELSE old.used)
        /\ new.count = (IF ~ shares THEN old.count ELSE IF full THEN 0 ELSE old.count + 1)
    <2> HIDE DEF full, shares
    <2> QED BY <1>4 DEF Counter
  <1>7. full => old.count > 0
    BY <1>4 DEF Counter, MaxPacketStreams
  <1>8. r.grp = -1 => ~ shares
    OBVIOUS
  <1> HIDE DEF new, shares, full
  <1>9. Bump(new) \in Counter /\ Bump(new).used = new.used /\ Bump(new).count = new.count
    BY <1>5, BumpType
  <1>10. ASSUME NEW e, e # c
         PROVE  e \in C => /\ Value(e) \in Counter
                           /\ Value(e).used = Of(u, e).used /\ Value(e).count = Of(u, e).count
    <2>1. Of(u, e) \in Counter
      BY OfType
    <2>2. [Of(u, e) EXCEPT !.grp = r.grp] \in Counter
          /\ [Of(u, e) EXCEPT !.grp = r.grp].used = Of(u, e).used
          /\ [Of(u, e) EXCEPT !.grp = r.grp].count = Of(u, e).count
      BY <2>1 DEF Counter
    <2>3. e \in DOMAIN u => u[e] = Of(u, e)
      BY DEF Of
    <2> QED BY <1>10, <2>1, <2>2, <2>3
  <1>11. Value(c) = Bump(new)
    OBVIOUS
  <1> HIDE DEF Value
  <1>12. \A e \in C : Value(e) \in Counter
    BY <1>9, <1>10, <1>11
  <1>13. v \in [C -> Counter]
    <2> HIDE DEF C, v
    <2> QED BY <1>1, <1>12
  <1>14. v \in Usages
    <2> HIDE DEF C, v
    <2> QED BY <1>3, <1>13 DEF Usages
  <1>15. Of(v, c) = Bump(new)
    <2>1. c \in DOMAIN v /\ v[c] = Value(c)
      <3>1. c \in C
        OBVIOUS
      <3> HIDE DEF C, v
      <3> QED BY <1>1, <3>1
    <2> QED BY <1>11, <2>1 DEF Of
  <1>16. ASSUME NEW e, e # c
         PROVE  Of(v, e).used = Of(u, e).used /\ Of(v, e).count = Of(u, e).count
    <2>1. CASE e \in C
      <3>1. Of(v, e) = Value(e)
        <4> HIDE DEF C, v
        <4> QED BY <1>1, <2>1 DEF Of
      <3> QED BY <1>10, <1>16, <2>1, <3>1
    <2>2. CASE e \notin C
      <3>1. e \notin DOMAIN v /\ e \notin DOMAIN u
        BY <1>1, <2>2
      <3> QED BY <3>1 DEF Of
    <2> QED BY <2>1, <2>2
  <1>17. /\ Of(u, c).used \in Nat /\ Of(u, c).count \in Nat
         /\ Of(v, c).used = new.used /\ Of(v, c).count = new.count
    BY <1>9, <1>15, TakenType
  <1> HIDE DEF v, C
  <1>18. Taken(v, c) >= 1 + Of(u, c).used /\ (r.grp = -1 => Taken(v, c) >= 1 + Taken(u, c))
         /\ Of(v, c).used >= Of(u, c).used /\ Taken(v, c) >= Taken(u, c)
    BY <1>4, <1>6, <1>7, <1>8, <1>17 DEF Taken
  <1>19. \A e : Of(u, e).used \in Nat /\ Taken(u, e) \in Nat
    BY TakenType
  <1>20. Grown(u, v)
    <2> SUFFICES ASSUME NEW e PROVE Of(v, e).used >= Of(u, e).used /\ Taken(v, e) >= Taken(u, e)
      BY DEF Grown
    <2>1. CASE e = c
      BY <1>18, <2>1
    <2>2. CASE e # c
      <3>1. Of(v, e).used = Of(u, e).used /\ Taken(v, e) = Taken(u, e)
        BY <1>16, <2>2 DEF Taken
      <3> QED BY <1>19, <3>1
    <2> QED BY <2>1, <2>2
  <1> QED BY <1>14, <1>18, <1>20 DEF v

(* A connection stays within a switchbox or is a wire.                     *)
LEMMA InsideOrWire ==
    ASSUME NEW c \in Connections
    PROVE  IF Inside(c) THEN c \in Intra ELSE c \in Inter
  <1>1. CASE c \in Intra
    <2>1. PICK t \in Tiles : c \in Ports(t, NumIn) \X Ports(t, NumOut)
      BY <1>1 DEF Intra
    <2>2. c[1][1] = t /\ c[2][1] = t
      BY <2>1, PortsType
    <2> QED BY <1>1, <2>2 DEF Inside
  <1>2. CASE c \in Inter
    <2>1. PICK p \in UNION {Ports(t, NumOut) : t \in Tiles} : Neighbour(p) # p /\ c = <<p, Neighbour(p)>>
      BY <1>2 DEF Inter
    <2>2. p[1] \in Tiles
      BY PortsType
    <2>3. Col(p[1]) \in Int /\ Row(p[1]) \in Int
      BY <2>2 DEF Tiles, Col, Row
    <2>4. Neighbour(p)[1] # p[1]
      BY <2>1, <2>3 DEF Neighbour, Col, Row
    <2>5. ~ Inside(c)
      BY <2>1, <2>4 DEF Inside
    <2> QED BY <1>2, <2>5
  <1> QED BY <1>1, <1>2 DEF Connections
-----------------------------------------------------------------------------
(* The way back from q.                                                    *)
Way(w, p) ==
    /\ Len(w) >= 1 /\ w[1] = p
    /\ \A k \in 1 .. (Len(w) - 1) : <<w[k + 1], w[k]>> \in Free /\ w[k + 1] # w[k]

LEMMA WayStops ==
    ASSUME NEW E, NEW p \in E
    PROVE  <<p>> \in Seq(E) /\ Way(<<p>>, p)
  BY DEF Way

LEMMA WayGoesOn ==
    ASSUME NEW E, NEW p \in E, NEW o \in E, <<o, p>> \in Free, o # p,
           NEW w \in Seq(E), Way(w, o)
    PROVE  <<p>> \o w \in Seq(E) /\ Way(<<p>> \o w, p)
  <1> DEFINE v == <<p>> \o w
  <1>1. v \in Seq(E) /\ Len(v) = Len(w) + 1 /\ v[1] = p /\ Len(w) \in Nat
        /\ \A k \in 1 .. Len(w) : v[k + 1] = w[k]
    OBVIOUS
  <1> HIDE DEF v
  <1>2. ASSUME NEW k \in 1 .. (Len(v) - 1) PROVE <<v[k + 1], v[k]>> \in Free /\ v[k + 1] # v[k]
    <2>1. v[k + 1] = w[k]
      BY <1>1
    <2>2. CASE k = 1
      BY <1>1, <2>1, <2>2 DEF Way
    <2>3. CASE k # 1
      <3>1. k - 1 \in 1 .. (Len(w) - 1) /\ (k - 1) + 1 = k /\ k - 1 \in 1 .. Len(w)
        BY <1>1, <2>3
      <3>2. v[k] = w[k - 1]
        BY <1>1, <3>1
      <3>3. <<w[(k - 1) + 1], w[k - 1]>> \in Free /\ w[(k - 1) + 1] # w[k - 1]
        BY <3>1 DEF Way
      <3> QED BY <2>1, <3>1, <3>2, <3>3
    <2> QED BY <2>2, <2>3
  <1> QED BY <1>1, <1>2 DEF Way, v

WayBack(reached, node, q, src) ==
    LET steps == Cardinality(EndPoints)
        back[n \in 0 .. steps] ==
            [p \in EndPoints \cup {q, src} |->
                IF n = 0 \/ p \in reached \/ p \notin EndPoints \/ node[p].pred = p THEN <<p>>
                ELSE <<p>> \o back[n - 1][node[p].pred]]
    IN  back[steps][q]

LEMMA WayBackIsWay ==
    ASSUME NEW reached, NEW node, Linked(node), NEW q, NEW src
    PROVE  WayBack(reached, node, q, src) \in Seq(EndPoints \cup {q, src})
           /\ Way(WayBack(reached, node, q, src), q)
  <1> DEFINE E == EndPoints \cup {q, src}
             N == Cardinality(EndPoints)
             Ends(p) == p \in reached \/ p \notin EndPoints \/ node[p].pred = p
             All(f, n) == [p \in E |-> IF n = 0 \/ Ends(p) THEN <<p>>
                                       ELSE <<p>> \o f[n - 1][node[p].pred]]
             Solves(f) == f = [n \in 0 .. N |-> All(f, n)]
             back == CHOOSE f : Solves(f)
             V == {f \in [E -> Seq(E)] : \A p \in E : Way(f[p], p)}
             One(f) == [p \in E |-> IF Ends(p) THEN <<p>> ELSE <<p>> \o f[node[p].pred]]
             h == [x \in V \X (1 .. N) |-> One(x[1])]
             b == [p \in E |-> <<p>>]
  <1>1. N \in Nat
    BY EndPointsFinite
  <1>2. WayBack(reached, node, q, src) = back[N][q]
    BY DEF WayBack
  <1>3. \A p \in E : ~ Ends(p) => p \in EndPoints /\ node[p].pred \in EndPoints
                                  /\ <<node[p].pred, p>> \in Free /\ node[p].pred # p
    BY DEF Linked
  <1>4. EndPoints \subseteq E /\ q \in E
    OBVIOUS
  <1> HIDE DEF E, N, Ends
  <1>5. b \in V
    <2>1. \A p \in E : <<p>> \in Seq(E) /\ Way(<<p>>, p)
      BY WayStops
    <2> QED BY <2>1
  <1>6. ASSUME NEW f \in V PROVE One(f) \in V
    <2>1. ASSUME NEW p \in E
          PROVE  (IF Ends(p) THEN <<p>> ELSE <<p>> \o f[node[p].pred]) \in Seq(E)
                 /\ Way(IF Ends(p) THEN <<p>> ELSE <<p>> \o f[node[p].pred], p)
      <3>1. CASE Ends(p)
        BY <3>1, WayStops
      <3>2. CASE ~ Ends(p)
        <4> DEFINE o == node[p].pred
        <4>1. o \in E /\ <<o, p>> \in Free /\ o # p
          BY <1>3, <1>4, <3>2
        <4>2. f[o] \in Seq(E) /\ Way(f[o], o)
          BY <4>1
        <4> HIDE DEF o
        <4>3. <<p>> \o f[o] \in Seq(E) /\ Way(<<p>> \o f[o], p)
          BY <4>1, <4>2, WayGoesOn
        <4> QED BY <3>2, <4>3 DEF o
      <3> QED BY <3>1, <3>2
    <2> QED BY <2>1
  <1>7. StepFunction(V, N, h)
    <2> HIDE DEF V, One
    <2> QED BY <1>6 DEF StepFunction
  <1> HIDE DEF V
  <1>8. ASSUME NEW f, NEW n \in 1 .. N PROVE All(f, n) = One(f[n - 1])
    <2>1. n # 0
      OBVIOUS
    <2> QED BY <2>1
  <1>9. \A f : All(f, 0) = b
    OBVIOUS
  <1>10. Solves(back)
    <2>1. PICK g : Iterates(g, V, b, N, h)
      <3> HIDE DEF h, b
      <3> QED BY <1>1, <1>5, <1>7, IterationExists
    <2>2. g \in [0 .. N -> V] /\ g[0] = b /\ \A n \in 1 .. N : g[n] = One(g[n - 1])
      <3>1. \A n \in 1 .. N : n - 1 \in 0 .. N
        BY <1>1
      <3> HIDE DEF One, b
      <3>2. \A f \in V : \A n \in 1 .. N : h[<<f, n>>] = One(f)
        OBVIOUS
      <3>3. g \in [0 .. N -> V] /\ g[0] = b /\ \A n \in 1 .. N : g[n] = h[<<g[n - 1], n>>]
        BY <2>1 DEF Iterates
      <3> HIDE DEF h
      <3> QED BY <3>1, <3>2, <3>3
    <2> HIDE DEF One, b, All
    <2>3. \A n \in 0 .. N : g[n] = All(g, n)
      <3> SUFFICES ASSUME NEW n \in 0 .. N PROVE g[n] = All(g, n)
        OBVIOUS
      <3>1. n = 0 \/ n \in 1 .. N
        OBVIOUS
      <3> QED BY <1>8, <1>9, <2>2, <3>1
    <2>4. g = [n \in 0 .. N |-> g[n]]
      BY <2>2
    <2>5. Solves(g)
      BY <2>3, <2>4
    <2> HIDE DEF Solves
    <2> QED BY <2>5
  <1>11. \A n \in 0 .. N : back[n] = All(back, n)
    <2> HIDE DEF back, All
    <2> QED BY <1>10
  <1> HIDE DEF back, Solves, All, One, h, b
  <1> DEFINE T == {n \in 0 .. N : back[n] \in V}
  <1>12. \A n \in 0 .. N : n \in T
    <2>1. 0 \in T
      <3>1. 0 \in 0 .. N
        BY <1>1
      <3> QED BY <1>5, <1>9, <1>11, <3>1
    <2>2. ASSUME NEW n \in 1 .. N, n - 1 \in T PROVE n \in T
      <3>1. n \in 0 .. N
        OBVIOUS
      <3> QED BY <1>6, <1>8, <1>11, <2>2, <3>1
    <2> HIDE DEF T
    <2> QED BY <1>1, <2>1, <2>2, CountUp
  <1>13. back[N] \in V
    <2>1. N \in 0 .. N
      BY <1>1
    <2> QED BY <1>12, <2>1
  <1> QED BY <1>2, <1>4, <1>13 DEF V, E

TraceStep(way, r, t, k) ==
    LET c == <<way[k + 1], way[k]>> IN
    [t EXCEPT !.usage = Use(@, c, r),
              !.trace = IF Inside(c) THEN Append(@, c) ELSE @,
              !.reached = @ \cup {way[k]}]
TraceWay(way, r, s, ks) == FoldLeft(LAMBDA t, k : TraceStep(way, r, t, k), s, ks)

(* Folding unrolled: along the way back.                                   *)
LEMMA TraceWayFold ==
    ASSUME NEW way, NEW r, NEW ks, NEW D, NEW a \in D, NEW N \in Nat, DOMAIN ks = 1 .. N,
           NEW h, StepFunction(D, N, h),
           \A t \in D : \A n \in 1 .. N : h[<<t, n>>] = TraceStep(way, r, t, ks[n])
    PROVE  \E g : Iterates(g, D, a, N, h) /\ TraceWay(way, r, a, ks) = g[N]
  <1> DEFINE Op(t, n) == TraceStep(way, r, t, ks[n])
             P == SUBSET (1 .. N)
             Solves(f) == f = [s \in P |-> IF s = {} THEN a ELSE Op(f[s \ {Max(s)}], Max(s))]
             iter == CHOOSE f : Solves(f)
             g == [n \in 0 .. N |-> iter[1 .. n]]
  <1>1. TraceWay(way, r, a, ks) = iter[1 .. N]
    BY Zenon DEF TraceWay, FoldLeft, MapThenFoldSet
  <1>2. \A t \in D : \A n \in 1 .. N : h[<<t, n>>] = Op(t, n)
    OBVIOUS
  <1> HIDE DEF Op
  <1>3. \A s \in P : s # {} => Max(s) \in 1 .. N
    BY MaxIn
  <1>4. Solves(iter)
    <2>1. PICK f : FoldSolution(f, D, a, N, h)
      BY FoldExists
    <2>2. f = [s \in P |-> f[s]] /\ \A s \in P : f[s] \in D
      BY <2>1 DEF FoldSolution
    <2>3. \A s \in P : f[s] = IF s = {} THEN a ELSE Op(f[s \ {Max(s)}], Max(s))
      <3> SUFFICES ASSUME NEW s \in P, s # {}
                   PROVE  h[<<f[s \ {Max(s)}], Max(s)>>] = Op(f[s \ {Max(s)}], Max(s))
        BY <2>1 DEF FoldSolution
      <3>1. Max(s) \in 1 .. N /\ s \ {Max(s)} \in P
        BY <1>3
      <3>2. f[s \ {Max(s)}] \in D
        BY <2>2, <3>1
      <3> QED BY <1>2, <3>1, <3>2
    <2>4. Solves(f)
      BY <2>2, <2>3
    <2> HIDE DEF Solves
    <2> QED BY <2>4
  <1>5. /\ iter[{}] = a
        /\ \A s \in P : s # {} => iter[s] = Op(iter[s \ {Max(s)}], Max(s))
    <2> HIDE DEF iter
    <2> QED BY <1>4
  <1> HIDE DEF iter, Solves
  <1>6. \A s \in P : s # {} /\ iter[s \ {Max(s)}] \in D
            => iter[s] = h[<<iter[s \ {Max(s)}], Max(s)>>]
    BY <1>2, <1>3, <1>5
  <1>7. Iterates(g, D, a, N, h)
    BY <1>5, <1>6, FoldIterates
  <1>8. g[N] = iter[1 .. N]
    OBVIOUS
  <1> HIDE DEF g
  <1> QED BY <1>1, <1>7, <1>8
(* What a route under way is: open connections inside switchboxes, each    *)
(* taken once more than before the route.                                  *)
TraceStates(src) ==
    [usage : Usages, trace : Seq(Legal \cup {<<src, src>>}),
     reached : SUBSET (EndPoints \cup {src}), lost : BOOLEAN]

Paid(u, r, s) ==
    \A k \in DOMAIN s.trace : LET c == s.trace[k] IN c[1] # c[2] =>
        /\ Taken(s.usage, c) >= 1 + Of(u, c).used
        /\ r.grp = -1 => Taken(s.usage, c) >= 1 + Taken(u, c)

(* S is left neither by a connection of the trace nor by a wire.           *)
Closed(S, trace) ==
    /\ \A k \in DOMAIN trace : trace[k][1] \in S => trace[k][2] \in S
    /\ \A w \in Inter : w[1] \in S => w[2] \in S

Covers(s, src) == \A S : src \in S /\ Closed(S, s.trace) => s.reached \subseteq S

Underway(u, r) == {s \in TraceStates(r.src) : Grown(u, s.usage) /\ Paid(u, r, s)}

LEMMA StepUnderway ==
    ASSUME NEW u \in Usages, NEW r, r.grp \in Int, r.prio \in BOOLEAN, NEW way, NEW k,
           <<way[k + 1], way[k]>> \in Free, way[k + 1] # way[k],
           NEW t \in Underway(u, r)
    PROVE  LET s == TraceStep(way, r, t, k) IN
           /\ s \in Underway(u, r) /\ s.reached = t.reached \cup {way[k]} /\ s.lost = t.lost
           /\ \A S : Closed(S, s.trace)
                      => Closed(S, t.trace) /\ (way[k + 1] \in S => way[k] \in S)
  <1> DEFINE c == <<way[k + 1], way[k]>>
             Tr == Legal \cup {<<r.src, r.src>>}
             v == Use(t.usage, c, r)
             trace == IF Inside(c) THEN Append(t.trace, c) ELSE t.trace
             s == TraceStep(way, r, t, k)
  <1>1. t \in TraceStates(r.src) /\ Grown(u, t.usage) /\ Paid(u, r, t)
    BY DEF Underway
  <1>2. /\ t.usage \in Usages /\ t.trace \in Seq(Tr) /\ t.lost \in BOOLEAN
        /\ t.reached \in SUBSET (EndPoints \cup {r.src})
        /\ t = [usage |-> t.usage, trace |-> t.trace, reached |-> t.reached, lost |-> t.lost]
    BY <1>1 DEF TraceStates
  <1>3. c \in Connections /\ Open(c) /\ c[1] = way[k + 1] /\ c[2] = way[k] /\ c[1] # c[2]
    BY DEF Free
  <1>4. way[k] \in EndPoints
    BY <1>3, ConnectionsType
  <1>5. s = [usage |-> v, trace |-> trace, reached |-> t.reached \cup {way[k]}, lost |-> t.lost]
    <2>1. s = [t EXCEPT !.usage = Use(@, c, r),
                        !.trace = IF Inside(c) THEN Append(@, c) ELSE @,
                        !.reached = @ \cup {way[k]}]
      BY DEF TraceStep
    <2> HIDE DEF c, s
    <2> QED BY <1>2, <2>1
  <1> HIDE DEF c
  <1>6. /\ v \in Usages /\ Grown(t.usage, v)
        /\ Taken(v, c) >= 1 + Of(t.usage, c).used
        /\ r.grp = -1 => Taken(v, c) >= 1 + Taken(t.usage, c)
    BY <1>2, <1>3, UseGrows
  <1> HIDE DEF v, s
  <1>7. Inside(c) => c \in Tr
    BY <1>3, InsideOrWire DEF Legal
  <1>8. Grown(u, v)
    BY <1>1, <1>2, <1>6, GrownTrans
  <1> HIDE DEF Tr
  <1>9. trace \in Seq(Tr)
    BY <1>2, <1>7
  <1>10. \A j \in DOMAIN trace : \/ j \in DOMAIN t.trace /\ trace[j] = t.trace[j]
                                 \/ Inside(c) /\ trace[j] = c
    BY <1>2
  <1>11. \A j \in DOMAIN t.trace : j \in DOMAIN trace /\ trace[j] = t.trace[j]
    BY <1>2
  <1>12. Inside(c) => \E j \in DOMAIN trace : trace[j] = c
    <2>1. Inside(c) => Len(t.trace) + 1 \in DOMAIN trace /\ trace[Len(t.trace) + 1] = c
      BY <1>2
    <2> QED BY <2>1
  <1> HIDE DEF trace
  <1>13. s \in TraceStates(r.src)
    BY <1>2, <1>4, <1>5, <1>6, <1>9 DEF TraceStates, Tr
  <1>14. ASSUME NEW e, e[1] # e[2],
                \/ e = c
                \/ /\ Taken(t.usage, e) >= 1 + Of(u, e).used
                   /\ r.grp = -1 => Taken(t.usage, e) >= 1 + Taken(u, e)
         PROVE  Taken(v, e) >= 1 + Of(u, e).used /\ (r.grp = -1 => Taken(v, e) >= 1 + Taken(u, e))
    <2>1. /\ Of(u, e).used \in Nat /\ Taken(u, e) \in Nat /\ Of(t.usage, e).used \in Nat
          /\ Taken(t.usage, e) \in Nat /\ Taken(v, e) \in Nat
      BY <1>2, <1>6, TakenType
    <2>2. /\ Of(t.usage, e).used >= Of(u, e).used /\ Taken(t.usage, e) >= Taken(u, e)
          /\ Taken(v, e) >= Taken(t.usage, e)
      BY <1>1, <1>6 DEF Grown
    <2>3. CASE e = c
      <3>1. /\ Taken(v, e) >= 1 + Of(t.usage, e).used
            /\ r.grp = -1 => Taken(v, e) >= 1 + Taken(t.usage, e)
        BY <1>6, <2>3
      <3> QED BY <2>1, <2>2, <3>1
    <2>4. CASE /\ Taken(t.usage, e) >= 1 + Of(u, e).used
               /\ r.grp = -1 => Taken(t.usage, e) >= 1 + Taken(u, e)
      BY <2>1, <2>2, <2>4
    <2> QED BY <1>14, <2>3, <2>4
  <1>15. Paid(u, r, s)
    <2>1. s.trace = trace /\ s.usage = v
      BY <1>5
    <2> SUFFICES ASSUME NEW j \in DOMAIN trace, trace[j][1] # trace[j][2]
                 PROVE  /\ Taken(v, trace[j]) >= 1 + Of(u, trace[j]).used
                        /\ r.grp = -1 => Taken(v, trace[j]) >= 1 + Taken(u, trace[j])
      BY <2>1 DEF Paid
    <2>2. \/ trace[j] = c
          \/ /\ Taken(t.usage, trace[j]) >= 1 + Of(u, trace[j]).used
             /\ r.grp = -1 => Taken(t.usage, trace[j]) >= 1 + Taken(u, trace[j])
      BY <1>1, <1>10 DEF Paid
    <2> QED BY <1>14, <2>2
  <1>16. s \in Underway(u, r)
    BY <1>5, <1>8, <1>13, <1>15 DEF Underway
  <1>17. ASSUME NEW S, Closed(S, s.trace)
         PROVE  Closed(S, t.trace) /\ (way[k + 1] \in S => way[k] \in S)
    <2>1. s.trace = trace
      BY <1>5
    <2>2. Closed(S, t.trace)
      BY <1>11, <1>17, <2>1 DEF Closed
    <2>3. CASE Inside(c)
      BY <1>3, <1>12, <1>17, <2>1, <2>2, <2>3 DEF Closed
    <2>4. CASE ~ Inside(c)
      <3>1. c \in Inter
        BY <1>3, <2>4, InsideOrWire
      <3> QED BY <1>3, <1>17, <2>2, <3>1 DEF Closed
    <2> QED BY <2>3, <2>4
  <1> QED BY <1>5, <1>16, <1>17 DEF s

LEMMA TraceBackKeeps ==
    ASSUME NEW u \in Usages, NEW r, r.grp \in Int, r.prio \in BOOLEAN, NEW s \in Underway(u, r),
           ~ s.lost => Covers(s, r.src), NEW node, Linked(node), NEW q
    PROVE  LET t == TraceBack(s, node, q, r) IN
           /\ t \in Underway(u, r) /\ s.reached \subseteq t.reached
           /\ ~ t.lost => ~ s.lost /\ Covers(t, r.src) /\ q \in t.reached
  <1> DEFINE way == WayBack(s.reached, node, q, r.src)
             N == Len(way) - 1
             ks == [k \in 1 .. N |-> k]
             D == Underway(u, r)
             h == [x \in D \X (1 .. N) |-> TraceStep(way, r, x[1], x[2])]
             t == TraceBack(s, node, q, r)
  <1>1. t = [TraceWay(way, r, s, ks) EXCEPT !.lost = @ \/ Last(way) \notin s.reached]
    BY DEF TraceBack, WayBack, TraceWay, TraceStep
  <1>2. way \in Seq(EndPoints \cup {q, r.src}) /\ Way(way, q)
    BY WayBackIsWay
  <1> HIDE DEF way, t
  <1>3. /\ Len(way) \in Nat /\ Len(way) >= 1 /\ N \in Nat /\ N + 1 = Len(way) /\ way[1] = q
        /\ \A k \in 1 .. N : <<way[k + 1], way[k]>> \in Free /\ way[k + 1] # way[k]
    BY <1>2 DEF Way
  <1> HIDE DEF N, D
  <1>4. ASSUME NEW f \in D, NEW k \in 1 .. N
        PROVE  LET x == TraceStep(way, r, f, k) IN
               /\ x \in D /\ x.reached = f.reached \cup {way[k]} /\ x.lost = f.lost
               /\ \A S : Closed(S, x.trace)
                         => Closed(S, f.trace) /\ (way[k + 1] \in S => way[k] \in S)
    <2>1. <<way[k + 1], way[k]>> \in Free /\ way[k + 1] # way[k]
      BY <1>3
    <2>2. f \in Underway(u, r)
      BY DEF D
    <2>3. LET x == TraceStep(way, r, f, k) IN
               /\ x \in Underway(u, r) /\ x.reached = f.reached \cup {way[k]} /\ x.lost = f.lost
               /\ \A S : Closed(S, x.trace)
                         => Closed(S, f.trace) /\ (way[k + 1] \in S => way[k] \in S)
      BY <2>1, <2>2, StepUnderway
    <2> QED BY <2>3 DEF D
  <1>5. PICK g : Iterates(g, D, s, N, h) /\ TraceWay(way, r, s, ks) = g[N]
    <2>1. StepFunction(D, N, h)
      BY <1>4 DEF StepFunction
    <2>2. \A f \in D : \A n \in 1 .. N : h[<<f, n>>] = TraceStep(way, r, f, ks[n])
      OBVIOUS
    <2>3. DOMAIN ks = 1 .. N /\ s \in D
      BY DEF D
    <2> HIDE DEF h, ks
    <2> QED BY <1>3, <2>1, <2>2, <2>3, TraceWayFold
  <1>6. /\ g \in [0 .. N -> D] /\ g[0] = s
        /\ \A n \in 1 .. N : g[n] = TraceStep(way, r, g[n - 1], n)
    <2>1. \A n \in 1 .. N : n - 1 \in 0 .. N
      BY <1>3
    <2>2. \A f \in D : \A n \in 1 .. N : h[<<f, n>>] = TraceStep(way, r, f, n)
      OBVIOUS
    <2> HIDE DEF h
    <2> QED BY <1>5, <2>1, <2>2 DEF Iterates
  <1> HIDE DEF h, ks
  <1> DEFINE Within(n, S) == r.src \in S /\ s.reached \subseteq S /\ way[n + 1] \in S
             T == {n \in 0 .. N :
                     /\ g[n].lost = s.lost /\ s.reached \subseteq g[n].reached
                     /\ n # 0 => q \in g[n].reached
                     /\ \A S : Closed(S, g[n].trace)
                               => Closed(S, s.trace) /\ (Within(n, S) => g[n].reached \subseteq S)}
  <1>7. \A n \in 0 .. N : n \in T
    <2>1. 0 \in T
      BY <1>3, <1>6
    <2>2. ASSUME NEW n \in 1 .. N, n - 1 \in T PROVE n \in T
      <3> DEFINE f == g[n - 1]
      <3>1. n \in 0 .. N /\ n - 1 \in 0 .. N /\ (n - 1) + 1 = n
        BY <1>3
      <3>2. f \in D /\ g[n] = TraceStep(way, r, f, n)
        BY <1>6, <3>1
      <3> HIDE DEF f
      <3>3. /\ g[n].reached = f.reached \cup {way[n]} /\ g[n].lost = f.lost
            /\ \A S : Closed(S, g[n].trace)
                      => Closed(S, f.trace) /\ (way[n + 1] \in S => way[n] \in S)
        BY <1>4, <3>2
      <3>4. /\ f.lost = s.lost /\ s.reached \subseteq f.reached
            /\ n - 1 # 0 => q \in f.reached
            /\ \A S : Closed(S, f.trace)
                      => Closed(S, s.trace) /\ (Within(n - 1, S) => f.reached \subseteq S)
        BY <2>2 DEF f
      <3>5. q \in g[n].reached
        BY <1>3, <3>3, <3>4
      <3>6. ASSUME NEW S, Closed(S, g[n].trace)
            PROVE  Closed(S, s.trace) /\ (Within(n, S) => g[n].reached \subseteq S)
        <4>1. Closed(S, f.trace) /\ (way[n + 1] \in S => way[n] \in S)
          BY <3>3, <3>6
        <4>2. Within(n, S) => Within(n - 1, S)
          BY <3>1, <4>1
        <4> HIDE DEF Within
        <4>3. Within(n, S) => way[n] \in S
          BY <4>1 DEF Within
        <4> QED BY <3>3, <3>4, <4>1, <4>2, <4>3
      <3> QED BY <3>1, <3>3, <3>4, <3>5, <3>6
    <2> HIDE DEF T
    <2> QED BY <1>3, <2>1, <2>2, CountUp
  <1> DEFINE x == g[N]
  <1>8. N \in 0 .. N /\ N \in T /\ x \in D
    <2>1. N \in 0 .. N
      BY <1>3
    <2> QED BY <2>1, <1>6, <1>7
  <1>9. /\ x.lost = s.lost /\ s.reached \subseteq x.reached
        /\ N # 0 => q \in x.reached
        /\ \A S : Closed(S, x.trace)
                  => Closed(S, s.trace) /\ (Within(N, S) => x.reached \subseteq S)
    BY <1>8
  <1> HIDE DEF x
  <1>10. Last(way) = way[N + 1]
    BY <1>3 DEF Last
  <1>11. t = [x EXCEPT !.lost = @ \/ way[N + 1] \notin s.reached]
    BY <1>1, <1>5, <1>10 DEF x
  <1>12. x \in TraceStates(r.src) /\ Grown(u, x.usage) /\ Paid(u, r, x)
    BY <1>8 DEF D, Underway
  <1>13. /\ t \in TraceStates(r.src) /\ t.usage = x.usage /\ t.trace = x.trace
         /\ t.reached = x.reached /\ t.lost = (x.lost \/ way[N + 1] \notin s.reached)
    BY <1>11, <1>12 DEF TraceStates
  <1>14. t \in Underway(u, r)
    BY <1>12, <1>13 DEF Underway, Paid
  <1>15. ASSUME ~ t.lost PROVE ~ s.lost /\ Covers(t, r.src) /\ q \in t.reached
    <2>1. ~ s.lost /\ way[N + 1] \in s.reached
      <3>1. s.lost \in BOOLEAN
        BY DEF Underway, TraceStates
      <3> QED BY <1>9, <1>13, <1>15, <3>1
    <2>2. Covers(t, r.src)
      <3> SUFFICES ASSUME NEW S, r.src \in S, Closed(S, x.trace) PROVE x.reached \subseteq S
        BY <1>13 DEF Covers
      <3>1. Closed(S, s.trace)
        BY <1>9
      <3>2. s.reached \subseteq S
        BY <2>1, <3>1 DEF Covers
      <3>3. Within(N, S)
        BY <2>1, <3>2
      <3> HIDE DEF Within
      <3> QED BY <1>9, <3>3
    <2>3. q \in t.reached
      <3>1. CASE N = 0
        BY <1>3, <1>9, <1>13, <2>1, <3>1
      <3>2. CASE N # 0
        BY <1>9, <1>13, <3>2
      <3> QED BY <3>1, <3>2
    <2> QED BY <2>1, <2>2, <2>3
  <1> QED BY <1>9, <1>13, <1>14, <1>15 DEF t

Covered(u, r) == {s \in Underway(u, r) : ~ s.lost => Covers(s, r.src)}

LEMMA TraceDestKeeps ==
    ASSUME NEW u \in Usages, NEW r, r.grp \in Int, r.prio \in BOOLEAN, NEW s \in Covered(u, r),
           NEW node, Linked(node), NEW q
    PROVE  LET t == TraceDest(s, node, q, r) IN
           /\ t \in Covered(u, r) /\ s.reached \subseteq t.reached
           /\ ~ t.lost => ~ s.lost /\ q \in t.reached
  <1> DEFINE x == IF q = r.src THEN [s EXCEPT !.trace = Append(@, <<q, q>>)] ELSE s
             Tr == Legal \cup {<<r.src, r.src>>}
  <1>1. s \in TraceStates(r.src) /\ Grown(u, s.usage) /\ Paid(u, r, s) /\ (~ s.lost => Covers(s, r.src))
    BY DEF Covered, Underway
  <1>2. x \in Underway(u, r) /\ x.reached = s.reached /\ x.lost = s.lost
        /\ (~ x.lost => Covers(x, r.src))
    <2>1. CASE q = r.src
      <3> DEFINE trace == Append(s.trace, <<q, q>>)
      <3>1. s.trace \in Seq(Tr) /\ <<q, q>> \in Tr
        BY <1>1, <2>1 DEF TraceStates
      <3>2. x \in [usage : Usages, trace : {trace},
                   reached : SUBSET (EndPoints \cup {r.src}), lost : BOOLEAN]
            /\ x.usage = s.usage /\ x.reached = s.reached /\ x.lost = s.lost /\ x.trace = trace
        BY <1>1, <2>1 DEF TraceStates
      <3> HIDE DEF Tr, x
      <3>3. trace \in Seq(Tr)
        BY <3>1
      <3>4. /\ \A j \in DOMAIN trace : (j \in DOMAIN s.trace /\ trace[j] = s.trace[j])
                                       \/ trace[j] = <<q, q>>
            /\ \A j \in DOMAIN s.trace : j \in DOMAIN trace /\ trace[j] = s.trace[j]
        BY <3>1
      <3> HIDE DEF trace
      <3>5. x \in TraceStates(r.src)
        BY <3>2, <3>3 DEF TraceStates, Tr
      <3>6. Paid(u, r, x)
        BY <1>1, <3>2, <3>4 DEF Paid
      <3>7. \A S : Closed(S, x.trace) => Closed(S, s.trace)
        BY <3>2, <3>4 DEF Closed
      <3>8. ~ x.lost => Covers(x, r.src)
        BY <1>1, <3>2, <3>7 DEF Covers
      <3> QED BY <1>1, <3>2, <3>5, <3>6, <3>8 DEF Underway
    <2>2. CASE q # r.src
      BY <1>1, <2>2 DEF Covered
    <2> QED BY <2>1, <2>2
  <1>3. TraceDest(s, node, q, r) = TraceBack(x, node, q, r)
    BY DEF TraceDest
  <1> HIDE DEF x
  <1>4. LET t == TraceBack(x, node, q, r) IN
        /\ t \in Underway(u, r) /\ x.reached \subseteq t.reached
        /\ ~ t.lost => ~ x.lost /\ Covers(t, r.src) /\ q \in t.reached
    BY <1>2, TraceBackKeeps
  <1> QED BY <1>2, <1>3, <1>4 DEF Covered

TraceAll(node, r, s, dsts) == FoldLeft(LAMBDA t, q : TraceDest(t, node, q, r), s, dsts)

(* Folding unrolled: from destination to destination.                      *)
LEMMA TraceAllFold ==
    ASSUME NEW node, NEW r, NEW dsts, NEW D, NEW a \in D, NEW N \in Nat, DOMAIN dsts = 1 .. N,
           NEW h, StepFunction(D, N, h),
           \A t \in D : \A n \in 1 .. N : h[<<t, n>>] = TraceDest(t, node, dsts[n], r)
    PROVE  \E g : Iterates(g, D, a, N, h) /\ TraceAll(node, r, a, dsts) = g[N]
  <1> DEFINE Op(t, n) == TraceDest(t, node, dsts[n], r)
             P == SUBSET (1 .. N)
             Solves(f) == f = [s \in P |-> IF s = {} THEN a ELSE Op(f[s \ {Max(s)}], Max(s))]
             iter == CHOOSE f : Solves(f)
             g == [n \in 0 .. N |-> iter[1 .. n]]
  <1>1. TraceAll(node, r, a, dsts) = iter[1 .. N]
    BY Zenon DEF TraceAll, FoldLeft, MapThenFoldSet
  <1>2. \A t \in D : \A n \in 1 .. N : h[<<t, n>>] = Op(t, n)
    OBVIOUS
  <1> HIDE DEF Op
  <1>3. \A s \in P : s # {} => Max(s) \in 1 .. N
    BY MaxIn
  <1>4. Solves(iter)
    <2>1. PICK f : FoldSolution(f, D, a, N, h)
      BY FoldExists
    <2>2. f = [s \in P |-> f[s]] /\ \A s \in P : f[s] \in D
      BY <2>1 DEF FoldSolution
    <2>3. \A s \in P : f[s] = IF s = {} THEN a ELSE Op(f[s \ {Max(s)}], Max(s))
      <3> SUFFICES ASSUME NEW s \in P, s # {}
                   PROVE  h[<<f[s \ {Max(s)}], Max(s)>>] = Op(f[s \ {Max(s)}], Max(s))
        BY <2>1 DEF FoldSolution
      <3>1. Max(s) \in 1 .. N /\ s \ {Max(s)} \in P
        BY <1>3
      <3>2. f[s \ {Max(s)}] \in D
        BY <2>2, <3>1
      <3> QED BY <1>2, <3>1, <3>2
    <2>4. Solves(f)
      BY <2>2, <2>3
    <2> HIDE DEF Solves
    <2> QED BY <2>4
  <1>5. /\ iter[{}] = a
        /\ \A s \in P : s # {} => iter[s] = Op(iter[s \ {Max(s)}], Max(s))
    <2> HIDE DEF iter
    <2> QED BY <1>4
  <1> HIDE DEF iter, Solves
  <1>6. \A s \in P : s # {} /\ iter[s \ {Max(s)}] \in D
            => iter[s] = h[<<iter[s \ {Max(s)}], Max(s)>>]
    BY <1>2, <1>3, <1>5
  <1>7. Iterates(g, D, a, N, h)
    BY <1>5, <1>6, FoldIterates
  <1>8. g[N] = iter[1 .. N]
    OBVIOUS
  <1> HIDE DEF g
  <1> QED BY <1>1, <1>7, <1>8

(* One route: what it takes counts once more than before, and every        *)
(* destination is reached unless an assertion fails.                       *)
LEMMA RouteTraced ==
    ASSUME NEW u \in Usages, NEW r, r.grp \in Int, r.prio \in BOOLEAN,
           NEW N \in Nat, DOMAIN r.dsts = 1 .. N, NEW node, Linked(node)
    PROVE  LET t == TraceAll(node, r, [usage |-> u, trace |-> <<>>, reached |-> {r.src},
                                       lost |-> FALSE], r.dsts) IN
           /\ t \in Covered(u, r)
           /\ ~ t.lost => \A n \in 1 .. N : r.dsts[n] \in t.reached
  <1> DEFINE s0 == [usage |-> u, trace |-> <<>>, reached |-> {r.src}, lost |-> FALSE]
             dsts == r.dsts
             D == Covered(u, r)
             h == [x \in D \X (1 .. N) |-> TraceDest(x[1], node, dsts[x[2]], r)]
  <1>1. s0 \in D
    <2>1. s0 \in TraceStates(r.src)
      <3>1. <<>> \in Seq(Legal \cup {<<r.src, r.src>>})
        OBVIOUS
      <3> QED BY <3>1 DEF TraceStates
    <2>2. Grown(u, s0.usage)
      <3>1. \A c : Of(u, c).used \in Nat /\ Taken(u, c) \in Nat
        BY TakenType
      <3>2. \A k \in Nat : k >= k
        OBVIOUS
      <3> QED BY <3>1, <3>2 DEF Grown
    <2>3. Paid(u, r, s0)
      BY DEF Paid
    <2>4. Covers(s0, r.src)
      BY DEF Covers
    <2> QED BY <2>1, <2>2, <2>3, <2>4 DEF Covered, Underway
  <1> HIDE DEF s0, D, dsts
  <1>2. ASSUME NEW f \in D, NEW q
        PROVE  LET t == TraceDest(f, node, q, r) IN
               /\ t \in D /\ f.reached \subseteq t.reached
               /\ ~ t.lost => ~ f.lost /\ q \in t.reached
    <2>1. f \in Covered(u, r)
      BY DEF D
    <2>2. LET t == TraceDest(f, node, q, r) IN
               /\ t \in Covered(u, r) /\ f.reached \subseteq t.reached
               /\ ~ t.lost => ~ f.lost /\ q \in t.reached
      BY <2>1, TraceDestKeeps
    <2> QED BY <2>2 DEF D
  <1>3. PICK g : Iterates(g, D, s0, N, h) /\ TraceAll(node, r, s0, dsts) = g[N]
    <2>1. StepFunction(D, N, h)
      BY <1>2 DEF StepFunction
    <2>2. \A f \in D : \A n \in 1 .. N : h[<<f, n>>] = TraceDest(f, node, dsts[n], r)
      OBVIOUS
    <2>3. DOMAIN dsts = 1 .. N
      BY DEF dsts
    <2> HIDE DEF h
    <2> QED BY <1>1, <2>1, <2>2, <2>3, TraceAllFold
  <1>4. /\ g \in [0 .. N -> D]
        /\ \A n \in 1 .. N : g[n] = TraceDest(g[n - 1], node, dsts[n], r)
    <2>1. \A n \in 1 .. N : n - 1 \in 0 .. N
      OBVIOUS
    <2>2. \A f \in D : \A n \in 1 .. N : h[<<f, n>>] = TraceDest(f, node, dsts[n], r)
      OBVIOUS
    <2> HIDE DEF h
    <2> QED BY <1>3, <2>1, <2>2 DEF Iterates
  <1> HIDE DEF h
  <1> DEFINE T == {n \in 0 .. N : ~ g[n].lost => \A m \in 1 .. n : dsts[m] \in g[n].reached}
  <1>5. \A n \in 0 .. N : n \in T
    <2>1. 0 \in T
      OBVIOUS
    <2>2. ASSUME NEW n \in 1 .. N, n - 1 \in T PROVE n \in T
      <3> DEFINE f == g[n - 1]
      <3>1. n \in 0 .. N /\ n - 1 \in 0 .. N /\ \A m \in 1 .. n : m = n \/ m \in 1 .. (n - 1)
        OBVIOUS
      <3>2. f \in D /\ g[n] = TraceDest(f, node, dsts[n], r)
        BY <1>4, <3>1
      <3>3. ~ f.lost => \A m \in 1 .. (n - 1) : dsts[m] \in f.reached
        BY <2>2
      <3> HIDE DEF f
      <3>4. f.reached \subseteq g[n].reached
            /\ (~ g[n].lost => ~ f.lost /\ dsts[n] \in g[n].reached)
        BY <1>2, <3>2
      <3> QED BY <3>1, <3>3, <3>4
    <2> HIDE DEF T
    <2> QED BY <2>1, <2>2, CountUp
  <1>6. N \in 0 .. N
    OBVIOUS
  <1>7. g[N] \in D /\ (~ g[N].lost => \A m \in 1 .. N : dsts[m] \in g[N].reached)
    BY <1>4, <1>5, <1>6
  <1> QED BY <1>3, <1>7 DEF D, s0, dsts
-----------------------------------------------------------------------------
(* Collecting the flows.                                                   *)
Groups == {g \in Int : g >= -1}
Route == [grp : Groups, prio : BOOLEAN, src : PathEndPoint, dsts : Seq(PathEndPoint)]
RouteLists == {rs \in Seq(Route) : \A i, j \in DOMAIN rs : rs[i].src = rs[j].src => i = j}
Serves(rs, src, dst) ==
    \E k \in DOMAIN rs : rs[k].src = src /\ \E m \in DOMAIN rs[k].dsts : rs[k].dsts[m] = dst

JoinGroup(dst, h, r) == IF (\E d \in DOMAIN r.dsts : r.dsts[d] = dst) \/ r.grp > h THEN r.grp ELSE h
GroupOver(dst, h, rs) == FoldLeft(LAMBDA g, r : JoinGroup(dst, g, r), h, rs)

(* Folding unrolled: over the groups, over the destinations of a packet     *)
(* flow, over the packet flows, over the circuits.                         *)
LEMMA GroupOverFold ==
    ASSUME NEW dst, NEW rs, NEW D, NEW a \in D, NEW N \in Nat, DOMAIN rs = 1 .. N,
           NEW h, StepFunction(D, N, h),
           \A t \in D : \A n \in 1 .. N : h[<<t, n>>] = JoinGroup(dst, t, rs[n])
    PROVE  \E g : Iterates(g, D, a, N, h) /\ GroupOver(dst, a, rs) = g[N]
  <1> DEFINE Op(t, n) == JoinGroup(dst, t, rs[n])
             P == SUBSET (1 .. N)
             Solves(f) == f = [s \in P |-> IF s = {} THEN a ELSE Op(f[s \ {Max(s)}], Max(s))]
             iter == CHOOSE f : Solves(f)
             g == [n \in 0 .. N |-> iter[1 .. n]]
  <1>1. GroupOver(dst, a, rs) = iter[1 .. N]
    BY Zenon DEF GroupOver, FoldLeft, MapThenFoldSet
  <1>2. \A t \in D : \A n \in 1 .. N : h[<<t, n>>] = Op(t, n)
    OBVIOUS
  <1> HIDE DEF Op
  <1>3. \A s \in P : s # {} => Max(s) \in 1 .. N
    BY MaxIn
  <1>4. Solves(iter)
    <2>1. PICK f : FoldSolution(f, D, a, N, h)
      BY FoldExists
    <2>2. f = [s \in P |-> f[s]] /\ \A s \in P : f[s] \in D
      BY <2>1 DEF FoldSolution
    <2>3. \A s \in P : f[s] = IF s = {} THEN a ELSE Op(f[s \ {Max(s)}], Max(s))
      <3> SUFFICES ASSUME NEW s \in P, s # {}
                   PROVE  h[<<f[s \ {Max(s)}], Max(s)>>] = Op(f[s \ {Max(s)}], Max(s))
        BY <2>1 DEF FoldSolution
      <3>1. Max(s) \in 1 .. N /\ s \ {Max(s)} \in P
        BY <1>3
      <3>2. f[s \ {Max(s)}] \in D
        BY <2>2, <3>1
      <3> QED BY <1>2, <3>1, <3>2
    <2>4. Solves(f)
      BY <2>2, <2>3
    <2> HIDE DEF Solves
    <2> QED BY <2>4
  <1>5. /\ iter[{}] = a
        /\ \A s \in P : s # {} => iter[s] = Op(iter[s \ {Max(s)}], Max(s))
    <2> HIDE DEF iter
    <2> QED BY <1>4
  <1> HIDE DEF iter, Solves
  <1>6. \A s \in P : s # {} /\ iter[s \ {Max(s)}] \in D
            => iter[s] = h[<<iter[s \ {Max(s)}], Max(s)>>]
    BY <1>2, <1>3, <1>5
  <1>7. Iterates(g, D, a, N, h)
    BY <1>5, <1>6, FoldIterates
  <1>8. g[N] = iter[1 .. N]
    OBVIOUS
  <1> HIDE DEF g
  <1> QED BY <1>1, <1>7, <1>8

LEMMA GroupForType ==
    ASSUME NEW rs \in Seq(Route), NEW dst
    PROVE  GroupFor(rs, dst) \in Groups
  <1> DEFINE N == Len(rs)
             h == [x \in Groups \X (1 .. N) |-> JoinGroup(dst, x[1], rs[x[2]])]
             G == GroupOver(dst, -1, rs)
  <1>1. N \in Nat /\ DOMAIN rs = 1 .. N /\ \A n \in 1 .. N : rs[n] \in Route
    OBVIOUS
  <1>2. \A n \in 1 .. N : rs[n].grp \in Groups
    BY <1>1 DEF Route
  <1> HIDE DEF N
  <1>3. \A t \in Groups : \A n \in 1 .. N : JoinGroup(dst, t, rs[n]) \in Groups
    BY <1>2 DEF JoinGroup
  <1>4. StepFunction(Groups, N, h) /\ \A t \in Groups : \A n \in 1 .. N : h[<<t, n>>] = JoinGroup(dst, t, rs[n])
    BY <1>3 DEF StepFunction
  <1>5. PICK g : Iterates(g, Groups, -1, N, h) /\ G = g[N]
    <2> DEFINE b == -1
               D == Groups
    <2>1. b \in D
      BY DEF Groups
    <2>2. StepFunction(D, N, h) /\ \A t \in D : \A n \in 1 .. N : h[<<t, n>>] = JoinGroup(dst, t, rs[n])
      BY <1>4
    <2> HIDE DEF h, b, D
    <2>3. DOMAIN rs = 1 .. N /\ N \in Nat
      BY <1>1
    <2>4. \E g : Iterates(g, D, b, N, h) /\ GroupOver(dst, b, rs) = g[N]
      BY <2>1, <2>2, <2>3, GroupOverFold
    <2> QED BY <2>4 DEF b, D
  <1>6. G \in Groups
    <2>1. N \in 0 .. N
      BY <1>1
    <2> QED BY <1>5, <2>1 DEF Iterates
  <1>7. GroupFor(rs, dst) = IF \E k \in DOMAIN rs : \E d \in DOMAIN rs[k].dsts : rs[k].dsts[d] = dst
                            THEN G ELSE G + 1
    BY DEF GroupFor, GroupOver, JoinGroup
  <1> HIDE DEF G
  <1> QED BY <1>6, <1>7 DEF Groups

AddFlowOf(rs, src, dst, isPkt, prio, same, i) ==
    IF same # {}
    THEN [rs EXCEPT ![i] = [rs[i] EXCEPT !.prio = prio \/ @,
                                         !.dsts = IF prio THEN <<dst>> \o @ ELSE Append(@, dst)]]
    ELSE Append(rs, [grp |-> IF isPkt THEN GroupFor(rs, dst) ELSE -1, prio |-> prio,
                     src |-> src, dsts |-> <<dst>>])
LEMMA AddFlowShape ==
    ASSUME NEW rs, NEW src, NEW dst, NEW isPkt, NEW prio
    PROVE  LET same == {k \in DOMAIN rs : rs[k].src = src} IN
           AddFlow(rs, src, dst, isPkt, prio) =
               AddFlowOf(rs, src, dst, isPkt, prio, same, CHOOSE k \in same : \A l \in same : k <= l)
  BY Zenon DEF AddFlow, AddFlowOf

(* addFlow keeps one route for each source and every flow that it has.     *)
LEMMA AddFlowType ==
    ASSUME NEW rs \in RouteLists, NEW src \in PathEndPoint, NEW dst \in PathEndPoint,
           NEW isPkt, NEW prio \in BOOLEAN
    PROVE  LET new == AddFlow(rs, src, dst, isPkt, prio) IN
           /\ new \in RouteLists /\ Serves(new, src, dst)
           /\ \A p, q : Serves(rs, p, q) => Serves(new, p, q)
  <1> DEFINE same == {k \in DOMAIN rs : rs[k].src = src}
             First(S) == CHOOSE k \in S : \A l \in S : k <= l
             grp == IF isPkt THEN GroupFor(rs, dst) ELSE -1
             i == First(same)
             merged == [rs[i] EXCEPT !.prio = prio \/ @,
                                     !.dsts = IF prio THEN <<dst>> \o @ ELSE Append(@, dst)]
             fresh == [grp |-> grp, prio |-> prio, src |-> src, dsts |-> <<dst>>]
             new == AddFlow(rs, src, dst, isPkt, prio)
  <1>1. /\ rs \in Seq(Route) /\ Len(rs) \in Nat /\ DOMAIN rs = 1 .. Len(rs)
        /\ \A k \in DOMAIN rs : rs[k] \in Route
        /\ \A k, l \in DOMAIN rs : rs[k].src = rs[l].src => k = l
    BY DEF RouteLists
  <1>2. grp \in Groups
    <2>1. -1 \in Groups
      BY DEF Groups
    <2> QED BY <1>1, <2>1, GroupForType
  <1>3. new = IF same # {} THEN [rs EXCEPT ![i] = merged] ELSE Append(rs, fresh)
    BY AddFlowShape DEF AddFlowOf
  <1> HIDE DEF new, grp
  <1>4. CASE same # {}
    <2>1. i \in same
      <3>1. same \in SUBSET Nat
        BY <1>1
      <3>2. \E k \in same : \A l \in same : k <= l
        <4> HIDE DEF same
        <4> QED BY <1>4, <3>1, LeastNumber
      <3> HIDE DEF same
      <3> QED BY <3>2
    <2>2. i \in DOMAIN rs /\ rs[i].src = src
      BY <2>1
    <2> HIDE DEF i, same
    <2> DEFINE o == rs[i]
               dsts == IF prio THEN <<dst>> \o o.dsts ELSE Append(o.dsts, dst)
    <2>3. o \in Route
      BY <1>1, <2>2
    <2>4. dsts \in Seq(PathEndPoint)
          /\ (\E m \in DOMAIN dsts : dsts[m] = dst)
          /\ \A q : (\E m \in DOMAIN o.dsts : o.dsts[m] = q) => \E m \in DOMAIN dsts : dsts[m] = q
      <3> HIDE DEF o
      <3>1. o.dsts \in Seq(PathEndPoint)
        BY <2>3 DEF Route
      <3> DEFINE ds == o.dsts
      <3> HIDE DEF ds
      <3>2. ASSUME prio PROVE /\ dsts \in Seq(PathEndPoint) /\ dsts[1] = dst /\ 1 \in DOMAIN dsts
                              /\ \A m \in DOMAIN ds : m + 1 \in DOMAIN dsts /\ dsts[m + 1] = ds[m]
        BY <3>1, <3>2 DEF ds
      <3>3. ASSUME ~ prio
            PROVE  /\ dsts \in Seq(PathEndPoint) /\ dsts[Len(ds) + 1] = dst
                   /\ Len(ds) + 1 \in DOMAIN dsts
                   /\ \A m \in DOMAIN ds : m \in DOMAIN dsts /\ dsts[m] = ds[m]
        BY <3>1, <3>3 DEF ds
      <3> HIDE DEF dsts
      <3> QED BY <3>2, <3>3 DEF ds
    <2>5. /\ merged \in Route /\ merged.src = src /\ merged.dsts = dsts
      <3>1. merged = [o EXCEPT !.prio = prio \/ @, !.dsts = dsts]
        OBVIOUS
      <3>2. o.prio \in BOOLEAN
        BY <2>3 DEF Route
      <3> HIDE DEF merged, dsts, o
      <3> QED BY <2>2, <2>3, <2>4, <3>1, <3>2 DEF Route, o
    <2>6. new = [rs EXCEPT ![i] = merged]
      BY <1>3, <1>4
    <2> HIDE DEF merged, dsts
    <2>7. /\ new \in Seq(Route) /\ DOMAIN new = DOMAIN rs
          /\ new[i] = merged /\ \A k \in DOMAIN rs : k # i => new[k] = rs[k]
      BY <1>1, <2>2, <2>5, <2>6
    <2>8. \A k \in DOMAIN rs : new[k].src = rs[k].src
      BY <2>2, <2>5, <2>7
    <2>9. new \in RouteLists
      BY <1>1, <2>7, <2>8 DEF RouteLists
    <2>10. Serves(new, src, dst)
      BY <2>2, <2>4, <2>5, <2>7 DEF Serves
    <2>11. ASSUME NEW p, NEW q, Serves(rs, p, q) PROVE Serves(new, p, q)
      <3>1. PICK k \in DOMAIN rs : rs[k].src = p /\ \E m \in DOMAIN rs[k].dsts : rs[k].dsts[m] = q
        BY <2>11 DEF Serves
      <3>2. \E m \in DOMAIN new[k].dsts : new[k].dsts[m] = q
        BY <2>2, <2>4, <2>5, <2>7, <3>1
      <3> QED BY <2>7, <2>8, <3>1, <3>2 DEF Serves
    <2> QED BY <2>9, <2>10, <2>11 DEF new
  <1>5. CASE same = {}
    <2>1. fresh \in Route /\ fresh.src = src /\ fresh.dsts = <<dst>>
      BY <1>2 DEF Route
    <2>2. new = Append(rs, fresh)
      BY <1>3, <1>5
    <2> HIDE DEF fresh
    <2>3. /\ new \in Seq(Route) /\ DOMAIN new = DOMAIN rs \cup {Len(rs) + 1}
          /\ new[Len(rs) + 1] = fresh /\ \A k \in DOMAIN rs : new[k] = rs[k]
      BY <1>1, <2>1, <2>2
    <2>4. \A k \in DOMAIN rs : rs[k].src # src
      BY <1>5
    <2>5. new \in RouteLists
      BY <1>1, <2>1, <2>3, <2>4 DEF RouteLists
    <2>6. Serves(new, src, dst)
      <3>1. 1 \in DOMAIN <<dst>> /\ <<dst>>[1] = dst
        OBVIOUS
      <3> QED BY <2>1, <2>3, <3>1 DEF Serves
    <2>7. \A p, q : Serves(rs, p, q) => Serves(new, p, q)
      BY <2>3 DEF Serves
    <2> QED BY <2>5, <2>6, <2>7 DEF new
  <1> QED BY <1>4, <1>5

JoinPacket(r, f, d) == AddFlow(r, f.src, d, TRUE, f.prio)
JoinCircuit(r, f) == AddFlow(r, f.src, f.dst, FALSE, FALSE)
AddDests(f, rs, dsts) == FoldLeft(LAMBDA r, d : JoinPacket(r, f, d), rs, dsts)
AddPackets(rs, fs) == FoldLeft(AddPacketFlow, rs, fs)
AddCircuits(rs, fs) == FoldLeft(LAMBDA r, f : JoinCircuit(r, f), rs, fs)

LEMMA AddDestsFold ==
    ASSUME NEW e, NEW dsts, NEW D, NEW a \in D, NEW N \in Nat, DOMAIN dsts = 1 .. N,
           NEW h, StepFunction(D, N, h),
           \A t \in D : \A n \in 1 .. N : h[<<t, n>>] = JoinPacket(t, e, dsts[n])
    PROVE  \E g : Iterates(g, D, a, N, h) /\ AddDests(e, a, dsts) = g[N]
  <1> DEFINE Op(t, n) == JoinPacket(t, e, dsts[n])
             P == SUBSET (1 .. N)
             Solves(f) == f = [s \in P |-> IF s = {} THEN a ELSE Op(f[s \ {Max(s)}], Max(s))]
             iter == CHOOSE f : Solves(f)
             g == [n \in 0 .. N |-> iter[1 .. n]]
  <1>1. AddDests(e, a, dsts) = iter[1 .. N]
    BY Zenon DEF AddDests, FoldLeft, MapThenFoldSet
  <1>2. \A t \in D : \A n \in 1 .. N : h[<<t, n>>] = Op(t, n)
    OBVIOUS
  <1> HIDE DEF Op
  <1>3. \A s \in P : s # {} => Max(s) \in 1 .. N
    BY MaxIn
  <1>4. Solves(iter)
    <2>1. PICK f : FoldSolution(f, D, a, N, h)
      BY FoldExists
    <2>2. f = [s \in P |-> f[s]] /\ \A s \in P : f[s] \in D
      BY <2>1 DEF FoldSolution
    <2>3. \A s \in P : f[s] = IF s = {} THEN a ELSE Op(f[s \ {Max(s)}], Max(s))
      <3> SUFFICES ASSUME NEW s \in P, s # {}
                   PROVE  h[<<f[s \ {Max(s)}], Max(s)>>] = Op(f[s \ {Max(s)}], Max(s))
        BY <2>1 DEF FoldSolution
      <3>1. Max(s) \in 1 .. N /\ s \ {Max(s)} \in P
        BY <1>3
      <3>2. f[s \ {Max(s)}] \in D
        BY <2>2, <3>1
      <3> QED BY <1>2, <3>1, <3>2
    <2>4. Solves(f)
      BY <2>2, <2>3
    <2> HIDE DEF Solves
    <2> QED BY <2>4
  <1>5. /\ iter[{}] = a
        /\ \A s \in P : s # {} => iter[s] = Op(iter[s \ {Max(s)}], Max(s))
    <2> HIDE DEF iter
    <2> QED BY <1>4
  <1> HIDE DEF iter, Solves
  <1>6. \A s \in P : s # {} /\ iter[s \ {Max(s)}] \in D
            => iter[s] = h[<<iter[s \ {Max(s)}], Max(s)>>]
    BY <1>2, <1>3, <1>5
  <1>7. Iterates(g, D, a, N, h)
    BY <1>5, <1>6, FoldIterates
  <1>8. g[N] = iter[1 .. N]
    OBVIOUS
  <1> HIDE DEF g
  <1> QED BY <1>1, <1>7, <1>8

LEMMA AddPacketsFold ==
    ASSUME NEW fs, NEW D, NEW a \in D, NEW N \in Nat, DOMAIN fs = 1 .. N,
           NEW h, StepFunction(D, N, h),
           \A t \in D : \A n \in 1 .. N : h[<<t, n>>] = AddPacketFlow(t, fs[n])
    PROVE  \E g : Iterates(g, D, a, N, h) /\ AddPackets(a, fs) = g[N]
  <1> DEFINE Op(t, n) == AddPacketFlow(t, fs[n])
             P == SUBSET (1 .. N)
             Solves(f) == f = [s \in P |-> IF s = {} THEN a ELSE Op(f[s \ {Max(s)}], Max(s))]
             iter == CHOOSE f : Solves(f)
             g == [n \in 0 .. N |-> iter[1 .. n]]
  <1>1. AddPackets(a, fs) = iter[1 .. N]
    BY Zenon DEF AddPackets, FoldLeft, MapThenFoldSet
  <1>2. \A t \in D : \A n \in 1 .. N : h[<<t, n>>] = Op(t, n)
    OBVIOUS
  <1> HIDE DEF Op
  <1>3. \A s \in P : s # {} => Max(s) \in 1 .. N
    BY MaxIn
  <1>4. Solves(iter)
    <2>1. PICK f : FoldSolution(f, D, a, N, h)
      BY FoldExists
    <2>2. f = [s \in P |-> f[s]] /\ \A s \in P : f[s] \in D
      BY <2>1 DEF FoldSolution
    <2>3. \A s \in P : f[s] = IF s = {} THEN a ELSE Op(f[s \ {Max(s)}], Max(s))
      <3> SUFFICES ASSUME NEW s \in P, s # {}
                   PROVE  h[<<f[s \ {Max(s)}], Max(s)>>] = Op(f[s \ {Max(s)}], Max(s))
        BY <2>1 DEF FoldSolution
      <3>1. Max(s) \in 1 .. N /\ s \ {Max(s)} \in P
        BY <1>3
      <3>2. f[s \ {Max(s)}] \in D
        BY <2>2, <3>1
      <3> QED BY <1>2, <3>1, <3>2
    <2>4. Solves(f)
      BY <2>2, <2>3
    <2> HIDE DEF Solves
    <2> QED BY <2>4
  <1>5. /\ iter[{}] = a
        /\ \A s \in P : s # {} => iter[s] = Op(iter[s \ {Max(s)}], Max(s))
    <2> HIDE DEF iter
    <2> QED BY <1>4
  <1> HIDE DEF iter, Solves
  <1>6. \A s \in P : s # {} /\ iter[s \ {Max(s)}] \in D
            => iter[s] = h[<<iter[s \ {Max(s)}], Max(s)>>]
    BY <1>2, <1>3, <1>5
  <1>7. Iterates(g, D, a, N, h)
    BY <1>5, <1>6, FoldIterates
  <1>8. g[N] = iter[1 .. N]
    OBVIOUS
  <1> HIDE DEF g
  <1> QED BY <1>1, <1>7, <1>8

LEMMA AddCircuitsFold ==
    ASSUME NEW fs, NEW D, NEW a \in D, NEW N \in Nat, DOMAIN fs = 1 .. N,
           NEW h, StepFunction(D, N, h),
           \A t \in D : \A n \in 1 .. N : h[<<t, n>>] = JoinCircuit(t, fs[n])
    PROVE  \E g : Iterates(g, D, a, N, h) /\ AddCircuits(a, fs) = g[N]
  <1> DEFINE Op(t, n) == JoinCircuit(t, fs[n])
             P == SUBSET (1 .. N)
             Solves(f) == f = [s \in P |-> IF s = {} THEN a ELSE Op(f[s \ {Max(s)}], Max(s))]
             iter == CHOOSE f : Solves(f)
             g == [n \in 0 .. N |-> iter[1 .. n]]
  <1>1. AddCircuits(a, fs) = iter[1 .. N]
    BY Zenon DEF AddCircuits, FoldLeft, MapThenFoldSet
  <1>2. \A t \in D : \A n \in 1 .. N : h[<<t, n>>] = Op(t, n)
    OBVIOUS
  <1> HIDE DEF Op
  <1>3. \A s \in P : s # {} => Max(s) \in 1 .. N
    BY MaxIn
  <1>4. Solves(iter)
    <2>1. PICK f : FoldSolution(f, D, a, N, h)
      BY FoldExists
    <2>2. f = [s \in P |-> f[s]] /\ \A s \in P : f[s] \in D
      BY <2>1 DEF FoldSolution
    <2>3. \A s \in P : f[s] = IF s = {} THEN a ELSE Op(f[s \ {Max(s)}], Max(s))
      <3> SUFFICES ASSUME NEW s \in P, s # {}
                   PROVE  h[<<f[s \ {Max(s)}], Max(s)>>] = Op(f[s \ {Max(s)}], Max(s))
        BY <2>1 DEF FoldSolution
      <3>1. Max(s) \in 1 .. N /\ s \ {Max(s)} \in P
        BY <1>3
      <3>2. f[s \ {Max(s)}] \in D
        BY <2>2, <3>1
      <3> QED BY <1>2, <3>1, <3>2
    <2>4. Solves(f)
      BY <2>2, <2>3
    <2> HIDE DEF Solves
    <2> QED BY <2>4
  <1>5. /\ iter[{}] = a
        /\ \A s \in P : s # {} => iter[s] = Op(iter[s \ {Max(s)}], Max(s))
    <2> HIDE DEF iter
    <2> QED BY <1>4
  <1> HIDE DEF iter, Solves
  <1>6. \A s \in P : s # {} /\ iter[s \ {Max(s)}] \in D
            => iter[s] = h[<<iter[s \ {Max(s)}], Max(s)>>]
    BY <1>2, <1>3, <1>5
  <1>7. Iterates(g, D, a, N, h)
    BY <1>5, <1>6, FoldIterates
  <1>8. g[N] = iter[1 .. N]
    OBVIOUS
  <1> HIDE DEF g
  <1> QED BY <1>1, <1>7, <1>8

(* What every step of a fold keeps and serves is served in the end.        *)
Keeps(f, t) == \A p, q : Serves(f, p, q) => Serves(t, p, q)
Provides(t, flows) == \A w \in flows : Serves(t, w[1], w[2])

LEMMA ServedAlong ==
    ASSUME NEW N \in Nat, NEW g, NEW asked,
           \A n \in 1 .. N : Keeps(g[n - 1], g[n]) /\ Provides(g[n], asked[n])
    PROVE  Keeps(g[0], g[N]) /\ \A n \in 1 .. N : Provides(g[N], asked[n])
  <1> DEFINE T == {n \in 0 .. N : Keeps(g[0], g[n]) /\ \A m \in 1 .. n : Provides(g[n], asked[m])}
  <1>1. \A x, y, z : Keeps(x, y) /\ Keeps(y, z) => Keeps(x, z)
    BY DEF Keeps
  <1>2. \A x, y, a : Provides(x, a) /\ Keeps(x, y) => Provides(y, a)
    BY DEF Keeps, Provides
  <1>3. 0 \in T
    BY DEF Keeps
  <1>4. ASSUME NEW n \in 1 .. N, n - 1 \in T PROVE n \in T
    <2>1. n \in 0 .. N /\ \A m \in 1 .. n : m = n \/ m \in 1 .. (n - 1)
      OBVIOUS
    <2>2. Keeps(g[0], g[n])
      BY <1>1, <1>4
    <2>3. \A m \in 1 .. n : Provides(g[n], asked[m])
      BY <1>2, <1>4, <2>1
    <2> QED BY <2>1, <2>2, <2>3
  <1>5. N \in 0 .. N
    OBVIOUS
  <1>6. N \in T
    <2> HIDE DEF T
    <2> QED BY <1>3, <1>4, <1>5, CountUp
  <1> QED BY <1>6

(* One packet flow, with all its destinations.                             *)
AskedBy(f) == {<<f.src, f.dsts[m]>> : m \in DOMAIN f.dsts}

LEMMA AddPacketFlowType ==
    ASSUME NEW rs \in RouteLists, NEW f, f.src \in PathEndPoint, f.prio \in BOOLEAN,
           f.dsts \in Seq(PathEndPoint)
    PROVE  LET t == AddPacketFlow(rs, f) IN
           t \in RouteLists /\ Keeps(rs, t) /\ Provides(t, AskedBy(f))
  <1> DEFINE N == Len(f.dsts)
             dsts == f.dsts
             D == RouteLists
             h == [x \in D \X (1 .. N) |-> JoinPacket(x[1], f, dsts[x[2]])]
             asked == [n \in 1 .. N |-> {<<f.src, dsts[n]>>}]
             t == AddPacketFlow(rs, f)
  <1>1. N \in Nat /\ DOMAIN dsts = 1 .. N /\ \A n \in 1 .. N : dsts[n] \in PathEndPoint
    OBVIOUS
  <1> HIDE DEF N, dsts
  <1>2. ASSUME NEW x \in D, NEW n \in 1 .. N
        PROVE  LET y == JoinPacket(x, f, dsts[n]) IN
               y \in D /\ Serves(y, f.src, dsts[n]) /\ Keeps(x, y)
    BY <1>1, AddFlowType DEF Keeps, JoinPacket
  <1> HIDE DEF D
  <1>3. StepFunction(D, N, h)
        /\ \A x \in D : \A n \in 1 .. N : h[<<x, n>>] = JoinPacket(x, f, dsts[n])
    BY <1>2 DEF StepFunction
  <1> HIDE DEF h
  <1>4. PICK g : Iterates(g, D, rs, N, h) /\ AddDests(f, rs, dsts) = g[N]
    <2>1. rs \in D
      BY DEF D
    <2> QED BY <1>1, <1>3, <2>1, AddDestsFold
  <1>5. /\ g \in [0 .. N -> D] /\ g[0] = rs
        /\ \A n \in 1 .. N : g[n] = JoinPacket(g[n - 1], f, dsts[n])
    <2>1. \A n \in 1 .. N : n - 1 \in 0 .. N
      BY <1>1
    <2> QED BY <1>3, <1>4, <2>1 DEF Iterates
  <1>6. \A n \in 1 .. N : Keeps(g[n - 1], g[n]) /\ Provides(g[n], asked[n])
    <2>1. \A n \in 1 .. N : n - 1 \in 0 .. N
      BY <1>1
    <2>2. \A n \in 1 .. N : g[n - 1] \in D
      BY <1>5, <2>1
    <2>3. \A n \in 1 .. N : Keeps(g[n - 1], g[n]) /\ Serves(g[n], f.src, dsts[n])
      BY <1>2, <1>5, <2>2
    <2> QED BY <2>3 DEF Provides
  <1>7. Keeps(g[0], g[N]) /\ \A n \in 1 .. N : Provides(g[N], asked[n])
    <2> HIDE DEF asked
    <2> QED BY <1>1, <1>6, ServedAlong
  <1>8. N \in 0 .. N
    BY <1>1
  <1>9. t = g[N]
    BY <1>4 DEF AddPacketFlow, AddDests, JoinPacket, dsts
  <1>10. Provides(g[N], AskedBy(f))
    BY <1>1, <1>7 DEF Provides, AskedBy, dsts
  <1> QED BY <1>5, <1>7, <1>8, <1>9, <1>10 DEF D

(* All packet flows, then all circuits.                                    *)
LEMMA AddPacketsType ==
    ASSUME NEW N \in Nat, NEW fs, DOMAIN fs = 1 .. N,
           \A n \in 1 .. N : /\ fs[n].src \in PathEndPoint /\ fs[n].prio \in BOOLEAN
                             /\ fs[n].dsts \in Seq(PathEndPoint)
    PROVE  LET t == AddPackets(<<>>, fs) IN
           t \in RouteLists /\ \A n \in 1 .. N : Provides(t, AskedBy(fs[n]))
  <1> DEFINE D == RouteLists
             h == [x \in D \X (1 .. N) |-> AddPacketFlow(x[1], fs[x[2]])]
             asked == [n \in 1 .. N |-> AskedBy(fs[n])]
             none == <<>>
  <1>1. none \in D
    BY DEF RouteLists
  <1>2. ASSUME NEW x \in D, NEW n \in 1 .. N
        PROVE  LET y == AddPacketFlow(x, fs[n]) IN
               y \in D /\ Keeps(x, y) /\ Provides(y, AskedBy(fs[n]))
    <2> DEFINE f == fs[n]
    <2>1. f.src \in PathEndPoint /\ f.prio \in BOOLEAN /\ f.dsts \in Seq(PathEndPoint)
      OBVIOUS
    <2> HIDE DEF f
    <2>2. LET y == AddPacketFlow(x, f) IN y \in D /\ Keeps(x, y) /\ Provides(y, AskedBy(f))
      BY <2>1, AddPacketFlowType
    <2> QED BY <2>2 DEF f
  <1> HIDE DEF D, none
  <1>3. StepFunction(D, N, h)
        /\ \A x \in D : \A n \in 1 .. N : h[<<x, n>>] = AddPacketFlow(x, fs[n])
    BY <1>2 DEF StepFunction
  <1> HIDE DEF h
  <1>4. PICK g : Iterates(g, D, none, N, h) /\ AddPackets(none, fs) = g[N]
    BY <1>1, <1>3, AddPacketsFold
  <1>5. \A n \in 1 .. N : n - 1 \in 0 .. N
    OBVIOUS
  <1>6. /\ g \in [0 .. N -> D] /\ g[0] = none
        /\ \A n \in 1 .. N : g[n] = AddPacketFlow(g[n - 1], fs[n])
    BY <1>3, <1>4, <1>5 DEF Iterates
  <1>7. \A n \in 1 .. N : Keeps(g[n - 1], g[n]) /\ Provides(g[n], asked[n])
    <2>1. \A n \in 1 .. N : g[n - 1] \in D
      BY <1>5, <1>6
    <2> QED BY <1>2, <1>6, <2>1
  <1>8. \A n \in 1 .. N : Provides(g[N], asked[n])
    <2> HIDE DEF asked
    <2> QED BY <1>7, ServedAlong
  <1>9. N \in 0 .. N
    OBVIOUS
  <1> QED BY <1>4, <1>6, <1>8, <1>9 DEF none, D

LEMMA AddCircuitsType ==
    ASSUME NEW N \in Nat, NEW fs, DOMAIN fs = 1 .. N, NEW rs \in RouteLists,
           \A n \in 1 .. N : fs[n].src \in PathEndPoint /\ fs[n].dst \in PathEndPoint
    PROVE  LET t == AddCircuits(rs, fs) IN
           t \in RouteLists /\ Keeps(rs, t)
           /\ \A n \in 1 .. N : Provides(t, {<<fs[n].src, fs[n].dst>>})
  <1> DEFINE D == RouteLists
             h == [x \in D \X (1 .. N) |-> JoinCircuit(x[1], fs[x[2]])]
             asked == [n \in 1 .. N |-> {<<fs[n].src, fs[n].dst>>}]
  <1>1. ASSUME NEW x \in D, NEW n \in 1 .. N
        PROVE  LET y == JoinCircuit(x, fs[n]) IN
               y \in D /\ Keeps(x, y) /\ Provides(y, {<<fs[n].src, fs[n].dst>>})
    <2> DEFINE a == fs[n].src
               b == fs[n].dst
               no == FALSE
    <2>1. a \in PathEndPoint /\ b \in PathEndPoint /\ no \in BOOLEAN
      OBVIOUS
    <2> HIDE DEF a, b, no
    <2>2. LET y == AddFlow(x, a, b, no, no) IN
          y \in D /\ Keeps(x, y) /\ Serves(y, a, b)
      BY <2>1, AddFlowType DEF Keeps
    <2>3. JoinCircuit(x, fs[n]) = AddFlow(x, a, b, no, no)
      BY DEF JoinCircuit, a, b, no
    <2>4. Provides(JoinCircuit(x, fs[n]), {<<a, b>>})
      BY <2>2, <2>3 DEF Provides
    <2> QED BY <2>2, <2>3, <2>4 DEF a, b
  <1>2. rs \in D
    OBVIOUS
  <1> HIDE DEF D
  <1>3. StepFunction(D, N, h)
        /\ \A x \in D : \A n \in 1 .. N :
              h[<<x, n>>] = JoinCircuit(x, fs[n])
    BY <1>1 DEF StepFunction
  <1> HIDE DEF h
  <1>4. PICK g : Iterates(g, D, rs, N, h) /\ AddCircuits(rs, fs) = g[N]
    BY <1>2, <1>3, AddCircuitsFold
  <1>5. \A n \in 1 .. N : n - 1 \in 0 .. N
    OBVIOUS
  <1>6. /\ g \in [0 .. N -> D] /\ g[0] = rs
        /\ \A n \in 1 .. N : g[n] = JoinCircuit(g[n - 1], fs[n])
    BY <1>3, <1>4, <1>5 DEF Iterates
  <1>7. \A n \in 1 .. N : Keeps(g[n - 1], g[n]) /\ Provides(g[n], asked[n])
    <2>1. \A n \in 1 .. N : g[n - 1] \in D
      BY <1>5, <1>6
    <2> QED BY <1>1, <1>6, <2>1
  <1>8. Keeps(g[0], g[N]) /\ \A n \in 1 .. N : Provides(g[N], asked[n])
    <2> HIDE DEF asked
    <2> QED BY <1>7, ServedAlong
  <1>9. N \in 0 .. N
    OBVIOUS
  <1> QED BY <1>4, <1>6, <1>8, <1>9 DEF D
-----------------------------------------------------------------------------
(* Putting the flows into order.                                           *)
LEMMA ProvidesKept ==
    ASSUME NEW x, NEW y, NEW flows, Provides(x, flows), Keeps(x, y)
    PROVE  Provides(y, flows)
  BY DEF Provides, Keeps

LEMMA LexOrder ==
    \A a, b, c \in Int \X Int \X Int \X Int :
        ~ Lex(a, a) /\ (Lex(a, b) /\ Lex(b, c) => Lex(a, c)) /\ (a # b => Lex(a, b) \/ Lex(b, a))
  BY LexStrict, Zenon

(* Places ordered by two numbers, then by themselves.                      *)
LEMMA KeyedOrder ==
    ASSUME NEW N \in Nat, NEW A \in [1 .. N -> Int], NEW B \in [1 .. N -> Int], NEW R,
           \A k, l \in 1 .. N :
               <<k, l>> \in R <=> \/ A[k] < A[l]
                                  \/ A[k] = A[l] /\ B[k] < B[l]
                                  \/ A[k] = A[l] /\ B[k] = B[l] /\ k < l
    PROVE  StrictOrder(1 .. N, R)
  <1> DEFINE Key(k) == <<A[k], B[k], k, 0>>
             I4 == Int \X Int \X Int \X Int
  <1>1. \A a, b, c \in I4 : ~ Lex(a, a) /\ (Lex(a, b) /\ Lex(b, c) => Lex(a, c))
                            /\ (a # b => Lex(a, b) \/ Lex(b, a))
    BY LexOrder, Zenon
  <1>3. \A k \in 1 .. N : Key(k) \in I4
    OBVIOUS
  <1>4. ASSUME NEW k \in 1 .. N, NEW l \in 1 .. N
        PROVE  <<k, l>> \in R <=> Lex(Key(k), Key(l))
    <2> DEFINE a == A[k]
               b == B[k]
               d == A[l]
               e == B[l]
    <2>1. a \in Int /\ b \in Int /\ d \in Int /\ e \in Int /\ k \in Int /\ l \in Int
      OBVIOUS
    <2>2. <<k, l>> \in R <=> a < d \/ (a = d /\ b < e) \/ (a = d /\ b = e /\ k < l)
      OBVIOUS
    <2> HIDE DEF a, b, d, e
    <2>3. Lex(<<a, b, k, 0>>, <<d, e, l, 0>>)
          <=> (a < d \/ (a = d /\ b < e) \/ (a = d /\ b = e /\ k < l))
      BY <2>1 DEF Lex
    <2> QED BY <2>2, <2>3 DEF a, b, d, e
  <1>5. \A k, l \in 1 .. N : k # l => Key(k) # Key(l)
    OBVIOUS
  <1> HIDE DEF Key, I4
  <1>6. \A k \in 1 .. N : <<k, k>> \notin R
    BY <1>1, <1>3, <1>4, Zenon
  <1>7. \A x, y, z \in 1 .. N : <<x, y>> \in R /\ <<y, z>> \in R => <<x, z>> \in R
    <2> SUFFICES ASSUME NEW x \in 1 .. N, NEW y \in 1 .. N, NEW z \in 1 .. N,
                        <<x, y>> \in R, <<y, z>> \in R
                 PROVE  <<x, z>> \in R
      OBVIOUS
    <2>1. Lex(Key(x), Key(y)) /\ Lex(Key(y), Key(z))
      BY <1>4, Zenon
    <2>2. Lex(Key(x), Key(z))
      BY <1>1, <1>3, <2>1, Zenon
    <2> QED BY <1>4, <2>2, Zenon
  <1>8. \A k, l \in 1 .. N : k # l => <<k, l>> \in R \/ <<l, k>> \in R
    BY <1>1, <1>3, <1>4, <1>5, Zenon
  <1> QED BY <1>6, <1>7, <1>8 DEF StrictOrder

(* Routes in another order are the same routes.                            *)
LEMMA ArrangedKeeps ==
    ASSUME NEW rs \in RouteLists, NEW R, StrictOrder(DOMAIN rs, R)
    PROVE  LET t == [n \in DOMAIN rs |-> rs[Ranked(DOMAIN rs, R)[n]]] IN
           t \in RouteLists /\ Keeps(rs, t)
  <1> DEFINE S == DOMAIN rs
             N == Len(rs)
             o == Ranked(S, R)
             t == [n \in S |-> rs[o[n]]]
  <1>1. rs \in Seq(Route) /\ N \in Nat /\ S = 1 .. N /\ \A n \in S : rs[n] \in Route
    BY DEF RouteLists
  <1>2. IsFiniteSet(S) /\ Cardinality(S) = N
    <2> HIDE DEF N, S
    <2>1. IsFiniteSet(1 .. N) /\ Cardinality(1 .. N) = N
      BY <1>1, FS_Interval
    <2> QED BY <1>1, <2>1
  <1> HIDE DEF S, N
  <1>3. /\ o \in [1 .. N -> S]
        /\ \A m, n \in 1 .. N : o[m] = o[n] => m = n
        /\ \A k \in S : \E n \in 1 .. N : o[n] = k
    <2>1. StrictOrder(S, R)
      BY DEF S
    <2>2. LET C == Cardinality(S) IN
          /\ o \in [1 .. C -> S]
          /\ \A m, n \in 1 .. C : o[m] = o[n] => m = n
          /\ \A k \in S : \E n \in 1 .. C : o[n] = k
      BY <1>2, <2>1, RankedType
    <2> QED BY <1>2, <2>2
  <1> HIDE DEF o
  <1>4. t \in Seq(Route) /\ DOMAIN t = S
    <2>1. t \in [1 .. N -> Route]
      BY <1>1, <1>3
    <2> HIDE DEF t
    <2> QED BY <1>1, <2>1, SeqOfLength
  <1>5. \A i, j \in DOMAIN t : t[i].src = t[j].src => i = j
    <2>1. \A i, j \in S : rs[i].src = rs[j].src => i = j
      BY DEF RouteLists, S
    <2> SUFFICES ASSUME NEW i \in S, NEW j \in S, t[i].src = t[j].src PROVE i = j
      BY <1>4
    <2>2. o[i] \in S /\ o[j] \in S /\ rs[o[i]].src = rs[o[j]].src
      BY <1>1, <1>3
    <2>3. o[i] = o[j]
      BY <2>1, <2>2
    <2> HIDE DEF t
    <2> QED BY <1>1, <1>3, <2>3
  <1>6. Keeps(rs, t)
    <2> SUFFICES ASSUME NEW p, NEW q, Serves(rs, p, q) PROVE Serves(t, p, q)
      BY DEF Keeps
    <2>1. PICK k \in S : rs[k].src = p /\ \E m \in DOMAIN rs[k].dsts : rs[k].dsts[m] = q
      BY DEF Serves, S
    <2>2. PICK n \in 1 .. N : o[n] = k
      BY <1>3
    <2>3. n \in DOMAIN t /\ t[n] = rs[k]
      BY <1>1, <1>4, <2>2
    <2> HIDE DEF t
    <2> QED BY <2>1, <2>3 DEF Serves
  <1> QED BY <1>4, <1>5, <1>6 DEF RouteLists, o, S

LEMMA SourceKeyType ==
    ASSUME NEW r \in Route, NEW w \in Int, NEW h \in Int
    PROVE  SourceKey(r, w, h) \in Int
  <1> DEFINE s == r.src
  <1>1. s \in Tiles \X Bundles \X Nat
    BY DEF Route, PathEndPoint
  <1> HIDE DEF s
  <1>2. s[1] \in Tiles /\ BundleInt(s[2]) \in Int /\ s[3] \in Int
    BY <1>1, BundleNumbers
  <1>3. Col(s[1]) \in Int /\ Row(s[1]) \in Int 
    BY <1>2, TargetAssumption DEF Tiles, Col, Row
  <1>4. \A a, b \in Int : a * b \in Int /\ a + b \in Int
    OBVIOUS
  <1>5. 10 * s[3] \in Int
    BY <1>2
  <1>6. BundleInt(s[2]) + 10 * s[3] \in Int
    BY <1>2, <1>4, <1>5
  <1>7. h * (BundleInt(s[2]) + 10 * s[3]) \in Int
    BY <1>3, <1>4, <1>6
  <1>8. w * (Row(s[1]) + h * (BundleInt(s[2]) + 10 * s[3])) \in Int
    BY <1>3, <1>4, <1>7
  <1>9. SourceKey(r, w, h) = Col(s[1]) + w * (Row(s[1]) + h * (BundleInt(s[2]) + 10 * s[3]))
    BY DEF SourceKey, s
  <1> QED BY <1>3, <1>4, <1>8, <1>9

LEMMA SortFlowsKeeps ==
    ASSUME NEW rs \in RouteLists, NEW w \in Int, NEW h \in Int
    PROVE  SortFlows(rs, w, h) \in RouteLists /\ Keeps(rs, SortFlows(rs, w, h))
  <1> DEFINE S == DOMAIN rs
             N == Len(rs)
             Before(k, l) ==
                 \/ rs[k].prio /\ ~ rs[l].prio
                 \/ /\ rs[k].prio /\ rs[l].prio
                    /\ \/ SourceKey(rs[k], w, h) < SourceKey(rs[l], w, h)
                       \/ (SourceKey(rs[k], w, h) = SourceKey(rs[l], w, h) /\ k < l)
                 \/ ~ rs[k].prio /\ ~ rs[l].prio /\ k < l
             R == {x \in S \X S : Before(x[1], x[2])}
             A == [k \in 1 .. N |-> IF rs[k].prio THEN 0 ELSE 1]
             B == [k \in 1 .. N |-> IF rs[k].prio THEN SourceKey(rs[k], w, h) ELSE 0]
  <1>1. N \in Nat /\ S = 1 .. N /\ \A k \in S : rs[k] \in Route
    BY DEF RouteLists
  <1>2. \A k \in S : SourceKey(rs[k], w, h) \in Int
    BY <1>1, SourceKeyType
  <1> HIDE DEF S, N
  <1>3. A \in [1 .. N -> Int] /\ B \in [1 .. N -> Int]
    BY <1>1, <1>2
  <1>4. ASSUME NEW k \in 1 .. N, NEW l \in 1 .. N
        PROVE  <<k, l>> \in R <=> \/ A[k] < A[l]
                                  \/ A[k] = A[l] /\ B[k] < B[l]
                                  \/ A[k] = A[l] /\ B[k] = B[l] /\ k < l
    <2>1. <<k, l>> \in R <=> Before(k, l)
      BY <1>1
    <2>2. /\ A[k] = (IF rs[k].prio THEN 0 ELSE 1) /\ A[l] = (IF rs[l].prio THEN 0 ELSE 1)
          /\ B[k] = (IF rs[k].prio THEN SourceKey(rs[k], w, h) ELSE 0)
          /\ B[l] = (IF rs[l].prio THEN SourceKey(rs[l], w, h) ELSE 0)
      OBVIOUS
    <2> HIDE DEF A, B, R
    <2> QED BY <1>1, <1>2, <2>1, <2>2
  <1> HIDE DEF Before
  <1>5. \A x \in S : {y \in S : Before(y, x)} = {y \in S : <<y, x>> \in R}
    OBVIOUS
  <1> HIDE DEF A, B, R
  <1>6. StrictOrder(S, R)
    BY <1>1, <1>3, <1>4, KeyedOrder
  <1>7. SortFlows(rs, w, h) =
            [n \in S |-> rs[[m \in 1 .. Cardinality(S) |->
                               CHOOSE x \in S : Cardinality({y \in S : Before(y, x)}) = m - 1][n]]]
    BY Zenon DEF SortFlows, Arranged, Sorted, Before, S
  <1> DEFINE P(m) == CHOOSE x \in S : Cardinality({y \in S : Before(y, x)}) = m - 1
             Q(m) == CHOOSE x \in S : Cardinality({y \in S : <<y, x>> \in R}) = m - 1
  <1>8. \A m : P(m) = Q(m)
    BY <1>5
  <1>9. [m \in 1 .. Cardinality(S) |-> P(m)] = Ranked(S, R)
    <2>1. Ranked(S, R) = [m \in 1 .. Cardinality(S) |-> Q(m)]
      BY DEF Ranked
    <2> HIDE DEF P, Q
    <2> QED BY <1>8, <2>1
  <1>10. SortFlows(rs, w, h) = [n \in S |-> rs[Ranked(S, R)[n]]]
    BY <1>7, <1>9, Zenon
  <1> QED BY <1>6, <1>10, ArrangedKeeps DEF S

LEMMA GroupedKeeps ==
    ASSUME NEW rs \in RouteLists
    PROVE  Grouped(rs) \in RouteLists /\ Keeps(rs, Grouped(rs))
  <1> DEFINE S == DOMAIN rs
             N == Len(rs)
             FirstOf(k) == CHOOSE l \in S : rs[l].grp = rs[k].grp
                                            /\ \A m \in 1 .. (l - 1) : rs[m].grp # rs[k].grp
             Before(k, l) == \/ FirstOf(k) < FirstOf(l)
                             \/ FirstOf(k) = FirstOf(l) /\ k < l
             R == {x \in S \X S : Before(x[1], x[2])}
             A == [k \in 1 .. N |-> 0]
             B == [k \in 1 .. N |-> FirstOf(k)]
  <1>1. N \in Nat /\ S = 1 .. N
    BY DEF RouteLists
  <1> HIDE DEF S, N
  <1>2. ASSUME NEW k \in S PROVE FirstOf(k) \in Int
    <2> DEFINE T == {l \in S : rs[l].grp = rs[k].grp}
    <2>1. T \in SUBSET Nat /\ k \in T
      BY <1>1
    <2>2. PICK l \in T : \A m \in T : l <= m
      <3> HIDE DEF T
      <3> QED BY <2>1, LeastNumber
    <2>3. l \in S /\ rs[l].grp = rs[k].grp /\ \A m \in 1 .. (l - 1) : rs[m].grp # rs[k].grp
      BY <1>1, <2>2
    <2>4. FirstOf(k) \in S
      BY <2>3
    <2> HIDE DEF FirstOf
    <2> QED BY <1>1, <2>4
  <1> HIDE DEF FirstOf
  <1>3. A \in [1 .. N -> Int] /\ B \in [1 .. N -> Int]
    BY <1>1, <1>2
  <1>4. ASSUME NEW k \in 1 .. N, NEW l \in 1 .. N
        PROVE  <<k, l>> \in R <=> \/ A[k] < A[l]
                                  \/ A[k] = A[l] /\ B[k] < B[l]
                                  \/ A[k] = A[l] /\ B[k] = B[l] /\ k < l
    BY <1>1
  <1> HIDE DEF Before
  <1>5. \A x \in S : {y \in S : Before(y, x)} = {y \in S : <<y, x>> \in R}
    OBVIOUS
  <1> HIDE DEF A, B, R
  <1>6. StrictOrder(S, R)
    BY <1>1, <1>3, <1>4, KeyedOrder
  <1>7. Grouped(rs) =
            [n \in S |-> rs[[m \in 1 .. Cardinality(S) |->
                               CHOOSE x \in S : Cardinality({y \in S : Before(y, x)}) = m - 1][n]]]
    BY Zenon DEF Grouped, Arranged, Sorted, Before, FirstOf, S
  <1> DEFINE P(m) == CHOOSE x \in S : Cardinality({y \in S : Before(y, x)}) = m - 1
             Q(m) == CHOOSE x \in S : Cardinality({y \in S : <<y, x>> \in R}) = m - 1
  <1>8. \A m : P(m) = Q(m)
    BY <1>5
  <1>9. [m \in 1 .. Cardinality(S) |-> P(m)] = Ranked(S, R)
    <2>1. Ranked(S, R) = [m \in 1 .. Cardinality(S) |-> Q(m)]
      BY DEF Ranked
    <2> HIDE DEF P, Q
    <2> QED BY <1>8, <2>1
  <1>10. Grouped(rs) = [n \in S |-> rs[Ranked(S, R)[n]]]
    BY <1>7, <1>9, Zenon
  <1> QED BY <1>6, <1>10, ArrangedKeeps DEF S
-----------------------------------------------------------------------------
(* The end of a group and of an iteration.                                 *)
LEMMA CounterUsed ==
    ASSUME NEW r \in Counter, NEW x \in Nat
    PROVE  [r EXCEPT !.used = x] \in Counter /\ [r EXCEPT !.used = x].used = x
  BY DEF Counter

LEMMA CounterCount ==
    ASSUME NEW r \in Counter
    PROVE  LET v == [r EXCEPT !.count = 0] IN v \in Counter /\ v.count = 0 /\ v.used = r.used
  BY DEF Counter

LEMMA CounterRest ==
    ASSUME NEW r \in Counter, NEW x \in Nat
    PROVE  /\ [r EXCEPT !.demand = x] \in Counter
           /\ \A g \in Int : [r EXCEPT !.grp = g] \in Counter /\ [r EXCEPT !.grp = g].count = r.count
  <1>1. [r EXCEPT !.demand = x] \in Counter
    BY DEF Counter
  <1>2. ASSUME NEW g \in Int
        PROVE  [r EXCEPT !.grp = g] \in Counter /\ [r EXCEPT !.grp = g].count = r.count
    BY DEF Counter
  <1> QED BY <1>1, <1>2

LEMMA GroupEndedType ==
    ASSUME NEW u \in Usages
    PROVE  /\ GroupEnded(u) \in Usages
           /\ \A c : /\ Of(GroupEnded(u), c).count = 0
                     /\ Taken(GroupEnded(u), c) = Taken(u, c)
                     /\ Of(GroupEnded(u), c).used = Taken(u, c)
  <1>1. PICK C \in SUBSET Connections : u \in [C -> Counter]
    BY DEF Usages
  <1> DEFINE Closing(r) == [r EXCEPT !.used = IF r.count > 0 THEN @ + 1 ELSE @, !.count = 0]
             v == GroupEnded(u)
  <1>2. ASSUME NEW r \in Counter
        PROVE  /\ Closing(r) \in Counter /\ Closing(r).count = 0
               /\ Closing(r).used = r.used + (IF r.count > 0 THEN 1 ELSE 0)
    <2> DEFINE x == IF r.count > 0 THEN r.used + 1 ELSE r.used
    <2>1. x \in Nat /\ x = r.used + (IF r.count > 0 THEN 1 ELSE 0)
      BY DEF Counter
    <2> DEFINE a == [r EXCEPT !.used = x]
               b == [a EXCEPT !.count = 0]
    <2>2. Closing(r) = b
      OBVIOUS
    <2> HIDE DEF x
    <2>3. a \in Counter /\ a.used = x
      BY <2>1, CounterUsed
    <2> HIDE DEF a
    <2>4. b \in Counter /\ b.count = 0 /\ b.used = a.used
      BY <2>3, CounterCount
    <2> HIDE DEF b, Closing
    <2> QED BY <2>1, <2>2, <2>3, <2>4
  <1>3. v = [c \in C |-> Bump(Closing(u[c]))]
    BY <1>1 DEF GroupEnded
  <1> HIDE DEF Closing
  <1>4. ASSUME NEW c \in C
        PROVE  /\ v[c] \in Counter /\ v[c].count = 0
               /\ v[c].used = u[c].used + (IF u[c].count > 0 THEN 1 ELSE 0)
    <2> DEFINE k == Closing(u[c])
    <2>1. k \in Counter /\ k.count = 0 /\ k.used = u[c].used + (IF u[c].count > 0 THEN 1 ELSE 0)
      BY <1>1, <1>2
    <2>2. v[c] = Bump(k)
      BY <1>3
    <2> HIDE DEF k, v
    <2> QED BY <2>1, <2>2, BumpType
  <1>5. v \in [C -> Counter]
    <2>1. v = [c \in C |-> v[c]]
      BY <1>3
    <2> HIDE DEF v
    <2> QED BY <1>4, <2>1
  <1> HIDE DEF v
  <1>6. ASSUME NEW c
        PROVE  /\ Of(v, c).count = 0 /\ Taken(v, c) = Taken(u, c) /\ Of(v, c).used = Taken(u, c)
    <2>1. CASE c \in C
      <3>1. Of(v, c) = v[c] /\ Of(u, c) = u[c]
        BY <1>1, <1>5, <2>1 DEF Of
      <3>2. u[c].used \in Nat /\ u[c].count \in Nat
        BY <1>1, <2>1 DEF Counter
      <3> QED BY <1>4, <2>1, <3>1, <3>2 DEF Taken
    <2>2. CASE c \notin C
      <3>1. Of(v, c) = NoUsage /\ Of(u, c) = NoUsage
        BY <1>1, <1>5, <2>2 DEF Of
      <3>2. NoUsage.used = 0 /\ NoUsage.count = 0
        BY DEF NoUsage
      <3> QED BY <3>1, <3>2 DEF Taken
    <2> QED BY <2>1, <2>2
  <1> QED BY <1>1, <1>5, <1>6 DEF Usages, v

LEMMA RippedUpType ==
    ASSUME NEW u \in Usages, NEW over
    PROVE  LET v == RippedUp([c \in DOMAIN u |->
                        [u[c] EXCEPT !.over = IF c \in over THEN @ + 1 ELSE @]]) IN
           v \in Usages /\ \A c : Of(v, c).count = 0
  <1>1. PICK C \in SUBSET Connections : u \in [C -> Counter]
    BY DEF Usages
  <1> DEFINE w == [c \in DOMAIN u |-> [u[c] EXCEPT !.over = IF c \in over THEN @ + 1 ELSE @]]
             v == RippedUp(w)
  <1>2. w \in [C -> Counter]
    BY <1>1 DEF Counter
  <1> HIDE DEF w
  <1>3. v = [c \in C |-> [w[c] EXCEPT !.demand = InitDemand(w[c].over, w[c].used),
                                      !.used = 0, !.count = 0, !.grp = -1]]
    BY <1>2 DEF RippedUp
  <1>4. ASSUME NEW c \in C PROVE v[c] \in Counter /\ v[c].count = 0
    <2> DEFINE k == w[c]
               d == InitDemand(w[c].over, w[c].used)
    <2>1. k \in Counter
      BY <1>2
    <2>2. d \in Nat
      BY <1>2, InitDemandType DEF Counter
    <2> DEFINE none == -1
               k1 == [k EXCEPT !.demand = d]
               zero == 0
               k2 == [k1 EXCEPT !.used = zero]
               k3 == [k2 EXCEPT !.count = 0]
               k4 == [k3 EXCEPT !.grp = none]
    <2>3. v[c] = k4
      BY <1>3
    <2>4. none \in Int /\ zero \in Nat
      OBVIOUS
    <2> HIDE DEF k, d, v, none, zero
    <2>5. k1 \in Counter
      BY <2>1, <2>2, CounterRest
    <2> HIDE DEF k1
    <2>6. k2 \in Counter
      BY <2>4, <2>5, CounterUsed
    <2> HIDE DEF k2
    <2>7. k3 \in Counter /\ k3.count = 0
      BY <2>6, CounterCount
    <2> HIDE DEF k3
    <2>8. k4 \in Counter /\ k4.count = k3.count
      BY <2>2, <2>4, <2>7, CounterRest
    <2> QED BY <2>3, <2>7, <2>8
  <1>5. v \in [C -> Counter]
    <2>1. v = [c \in C |-> v[c]]
      BY <1>3
    <2> HIDE DEF v
    <2> QED BY <1>4, <2>1
  <1> HIDE DEF v
  <1>6. \A c : Of(v, c).count = 0
    <2>1. NoUsage.count = 0
      BY DEF NoUsage
    <2> QED BY <1>4, <1>5, <2>1 DEF Of
  <1> QED BY <1>1, <1>5, <1>6 DEF Usages, v, w
-----------------------------------------------------------------------------
(* The invariant.                                                          *)
RouteInputs ==
    /\ Len(pktFlows) \in Nat /\ DOMAIN pktFlows = 1 .. Len(pktFlows)
    /\ \A n \in DOMAIN pktFlows : /\ pktFlows[n].src \in PathEndPoint
                                  /\ pktFlows[n].prio \in BOOLEAN
                                  /\ pktFlows[n].dsts \in Seq(PathEndPoint)
    /\ Len(circuits) \in Nat /\ DOMAIN circuits = 1 .. Len(circuits)
    /\ \A n \in DOMAIN circuits : /\ circuits[n].src \in PathEndPoint
                                  /\ circuits[n].dst \in PathEndPoint

RouterTyped ==
    /\ routes \in RouteLists /\ usage \in Usages /\ routed \in 0 .. Len(routes)
    /\ routeResult = "collect" => routes = <<>> /\ usage = <<>> /\ routed = 0 /\ solution = <<>>
    /\ routeResult = "success" => routed = Len(routes) /\ Overused(usage) = {}

Trace(i) == solution[routes[i].src]

(* Every flow belongs to a route, and the routes found so far are solved.  *)
FlowsServed ==
    routeResult # "collect" =>
        /\ \A n \in DOMAIN pktFlows : Provides(routes, AskedBy(pktFlows[n]))
        /\ \A n \in DOMAIN circuits : Provides(routes, {<<circuits[n].src, circuits[n].dst>>})
Solved ==
    /\ DOMAIN solution = {routes[i].src : i \in 1 .. routed}
    /\ \A i \in 1 .. routed :
          Trace(i) \in Seq(Legal \cup {<<routes[i].src, routes[i].src>>})

(* Whatever a route's own connections and the wires lead to from its source*)
(* contains its destinations.                                              *)
Arrives(src, dst, trace) == \A S : src \in S /\ Closed(S, trace) => dst \in S
Arrived ==
    routeResult # "crash" =>
        \A i \in 1 .. routed : \A m \in DOMAIN routes[i].dsts :
            Arrives(routes[i].src, routes[i].dsts[m], Trace(i))

(* The counters tell how often a connection is taken: what a group's       *)
(* packets share counts once, and when the group is done it is used.       *)
Takes(i, c) == c \in ToSet(Trace(i)) /\ c[1] # c[2]
Shares(i, j) == routes[i].grp = routes[j].grp /\ routes[i].grp >= 0
NothingPending == \A c : Of(usage, c).count = 0
Counted ==
    /\ \A i \in 1 .. routed : \A c : Takes(i, c) =>
          /\ Taken(usage, c) >= 1
          /\ routes[i].grp # routes[routed].grp => Of(usage, c).used >= 1
    /\ \A i, j \in 1 .. routed : i < j /\ ~ Shares(i, j) =>
          \A c : Takes(i, c) /\ Takes(j, c) => Taken(usage, c) >= 2
    /\ routed = 0 \/ routed = Len(routes) \/ routes[routed + 1].grp # routes[routed].grp
          => NothingPending

RouteInv == RouteInputs /\ RouterTyped /\ FlowsServed /\ Solved /\ Arrived /\ Counted

-----------------------------------------------------------------------------
LEMMA NothingUsed == <<>> \in Usages /\ \A c : Of(<<>>, c).count = 0
  <1> DEFINE e == <<>>
             C == {}
  <1>1. e \in [C -> Counter] /\ C \in SUBSET Connections
    OBVIOUS
  <1>2. \A c : Of(e, c) = NoUsage
    BY DEF Of
  <1>3. NoUsage.count = 0
    BY DEF NoUsage
  <1> HIDE DEF e, C
  <1>4. e \in Usages
    BY <1>1 DEF Usages
  <1> QED BY <1>2, <1>3, <1>4 DEF e

LEMMA RouteInitInv == RouteInit => RouteInv
  <1> SUFFICES ASSUME RouteInit PROVE RouteInv
    OBVIOUS
  <1>1. RouteInputs
    <2>1. \A R, s : s \in Seq(R) => /\ Len(s) \in Nat /\ DOMAIN s = 1 .. Len(s)
                                    /\ \A n \in DOMAIN s : s[n] \in R
      OBVIOUS
    <2> DEFINE P == [id : Nat, prio : BOOLEAN, src : PathEndPoint, dsts : Seq(PathEndPoint)]
               C == [src : PathEndPoint, dst : PathEndPoint]
    <2>2. pktFlows \in Seq(P) /\ circuits \in Seq(C)
      BY DEF RouteInit
    <2>3. \A f \in P : f.src \in PathEndPoint /\ f.prio \in BOOLEAN /\ f.dsts \in Seq(PathEndPoint)
      OBVIOUS
    <2>4. \A f \in C : f.src \in PathEndPoint /\ f.dst \in PathEndPoint
      OBVIOUS
    <2> HIDE DEF P, C
    <2> QED BY <2>1, <2>2, <2>3, <2>4 DEF RouteInputs
  <1>2. /\ routes = <<>> /\ usage = <<>> /\ routed = 0 /\ solution = <<>>
        /\ routeResult = "collect" /\ Len(routes) = 0 /\ 1 .. routed = {} /\ routed \in 0 .. Len(routes)
    BY DEF RouteInit
  <1>3. routes \in RouteLists
    BY <1>2 DEF RouteLists
  <1>4. RouterTyped
    BY <1>2, <1>3, NothingUsed DEF RouterTyped
  <1>5. FlowsServed /\ Solved /\ Arrived
    BY <1>2 DEF FlowsServed, Solved, Arrived
  <1>6. Counted
    BY <1>2, NothingUsed DEF Counted, NothingPending
  <1> QED BY <1>1, <1>4, <1>5, <1>6 DEF RouteInv

(* The last column and the last row of the graph are numbers.              *)
LEMMA SpanType == CollectFlows => maxCol' \in Nat /\ maxRow' \in Nat
  <1> SUFFICES ASSUME CollectFlows PROVE maxCol' \in Nat /\ maxRow' \in Nat
    OBVIOUS
  <1> DEFINE C == {c \in 0 .. Columns - 1 : c = 0 \/ \E t \in declared : Col(t) = c}
             R == {r \in 0 .. Rows - 1 : r = 0 \/ \E t \in declared : Row(t) = r}
  <1>1. maxCol' = Max(C) /\ maxRow' = Max(R)
    BY DEF CollectFlows
  <1>2. Columns \in Nat \ {0} /\ Rows \in Nat \ {0}
    BY TargetAssumption
  <1>3. C \subseteq 0 .. Columns - 1 /\ 0 \in C /\ R \subseteq 0 .. Rows - 1 /\ 0 \in R
    BY <1>2
  <1> HIDE DEF C, R
  <1>4. Max(C) \in C /\ Max(R) \in R
    <2>1. Columns - 1 \in Nat /\ Rows - 1 \in Nat
      BY <1>2
    <2>2. Max(C) \in C
      BY <1>3, <2>1, LargestIn
    <2>3. Max(R) \in R
      BY <1>3, <2>1, LargestIn
    <2> QED BY <2>2, <2>3
  <1>5. \A x \in C : x \in Nat
    BY <1>2, <1>3
  <1>6. \A x \in R : x \in Nat
    BY <1>2, <1>3
  <1> QED BY <1>1, <1>4, <1>5, <1>6

LEMMA CollectFlowsInv == RouteInv /\ CollectFlows => RouteInv'
  <1> SUFFICES ASSUME RouteInv, CollectFlows PROVE RouteInv'
    OBVIOUS
  <1>1. /\ routeResult = "collect" /\ routeResult' \in {"running", "unroutable"}
        /\ UNCHANGED <<pktFlows, circuits, fixed, usage, routed, solution>>
    BY DEF CollectFlows
  <1>2. /\ usage = <<>> /\ routed = 0 /\ solution = <<>> /\ 1 .. routed = {}
    BY <1>1 DEF RouteInv, RouterTyped
  <1>3. RouteInputs /\ RouteInputs'
    BY <1>1 DEF RouteInv, RouteInputs
  <1> DEFINE P == AddPackets(<<>>, pktFlows)
             S == SortFlows(P, maxCol', maxRow')
             C == AddCircuits(S, circuits)
  <1>4. routes' = Grouped(C)
    BY DEF CollectFlows, AddPackets, AddCircuits, JoinCircuit
  <1>5. P \in RouteLists /\ \A n \in DOMAIN pktFlows : Provides(P, AskedBy(pktFlows[n]))
    BY <1>3, AddPacketsType DEF RouteInputs
  <1> HIDE DEF P
  <1>6. S \in RouteLists /\ Keeps(P, S)
    <2>1. maxCol' \in Int /\ maxRow' \in Int
      <3>1. maxCol' \in Nat /\ maxRow' \in Nat
        BY SpanType
      <3> QED BY <3>1
    <2> DEFINE w == maxCol'
               h == maxRow'
    <2>2. w \in Int /\ h \in Int /\ S = SortFlows(P, w, h)
      BY <2>1
    <2> HIDE DEF w, h, S
    <2> QED BY <1>5, <2>2, SortFlowsKeeps
  <1> HIDE DEF S
  <1>7. C \in RouteLists /\ Keeps(S, C)
        /\ \A n \in DOMAIN circuits : Provides(C, {<<circuits[n].src, circuits[n].dst>>})
    BY <1>3, <1>6, AddCircuitsType DEF RouteInputs
  <1> HIDE DEF C
  <1>8. routes' \in RouteLists /\ Keeps(C, routes')
    BY <1>4, <1>7, GroupedKeeps
  <1>9. FlowsServed'
    <2>1. \A n \in DOMAIN pktFlows : Provides(routes', AskedBy(pktFlows[n]))
      BY <1>5, <1>6, <1>7, <1>8, ProvidesKept
    <2>2. \A n \in DOMAIN circuits : Provides(routes', {<<circuits[n].src, circuits[n].dst>>})
      BY <1>7, <1>8, ProvidesKept
    <2> QED BY <1>1, <2>1, <2>2 DEF FlowsServed
  <1>10. RouterTyped'
    <2>1. Len(routes') \in Nat
      BY <1>8 DEF RouteLists
    <2> QED BY <1>1, <1>2, <1>8, <2>1, NothingUsed DEF RouterTyped
  <1>11. Solved' /\ Arrived'
    BY <1>1, <1>2 DEF Solved, Arrived
  <1>12. Counted'
    BY <1>1, <1>2, NothingUsed DEF Counted, NothingPending
  <1> QED BY <1>3, <1>9, <1>10, <1>11, <1>12 DEF RouteInv

(* What routing one flow does to the counters.                             *)
LEMMA RoutedOnce ==
    ASSUME RouteInv, RouteFlow
    PROVE  LET r == routes[routed + 1] IN
           \E s \in Covered(usage, r) :
               /\ solution' = [q \in DOMAIN solution \cup {r.src} |->
                                  IF q = r.src THEN s.trace ELSE solution[q]]
               /\ s.lost => routeResult' = "crash"
               /\ ~ s.lost => \A m \in DOMAIN r.dsts : r.dsts[m] \in s.reached
               /\ usage' \in Usages
               /\ \A c : Taken(usage', c) = Taken(s.usage, c) /\ Of(usage', c).used >= Of(s.usage, c).used
               /\ routed + 1 = Len(routes) \/ routes[routed + 2].grp # r.grp
                     => \A c : Of(usage', c).count = 0
  <1> DEFINE r == routes[routed + 1]
             node == ShortestPaths(r.src)
             s == TraceAll(node, r, [usage |-> usage, trace |-> <<>>, reached |-> {r.src},
                                     lost |-> FALSE], r.dsts)
             last == routed + 1 = Len(routes) \/ routes[routed + 2].grp # r.grp
  <1>1. usage \in Usages /\ r \in Route
    <2>1. routes \in Seq(Route) /\ routed \in 0 .. Len(routes) /\ routed < Len(routes)
      BY DEF RouteInv, RouterTyped, RouteLists, RouteFlow
    <2> QED BY <2>1 DEF RouteInv, RouterTyped
  <1>2. r.grp \in Int /\ r.prio \in BOOLEAN /\ Len(r.dsts) \in Nat /\ DOMAIN r.dsts = 1 .. Len(r.dsts)
    BY <1>1 DEF Route, Groups
  <1>3. /\ usage' = (IF last THEN GroupEnded(s.usage) ELSE s.usage)
        /\ solution' = [q \in DOMAIN solution \cup {r.src} |->
                           IF q = r.src THEN s.trace ELSE solution[q]]
        /\ routeResult' = (IF s.lost THEN "crash" ELSE routeResult)
    BY DEF RouteFlow, TraceAll
  <1> HIDE DEF last, node, r
  <1>4. Linked(node)
    BY <1>1, SearchType DEF node
  <1>5. s \in Covered(usage, r) /\ (~ s.lost => \A m \in DOMAIN r.dsts : r.dsts[m] \in s.reached)
    <2> DEFINE N == Len(r.dsts)
    <2>1. N \in Nat /\ DOMAIN r.dsts = 1 .. N
      BY <1>2
    <2> HIDE DEF N
    <2> QED BY <1>1, <1>2, <1>4, <2>1, RouteTraced
  <1> HIDE DEF s
  <1>6. s.usage \in Usages
    BY <1>5 DEF Covered, Underway, TraceStates
  <1>7. /\ usage' \in Usages
        /\ \A c : Taken(usage', c) = Taken(s.usage, c) /\ Of(usage', c).used >= Of(s.usage, c).used
        /\ last => \A c : Of(usage', c).count = 0
    <2>1. \A c : /\ Of(s.usage, c).used \in Nat /\ Taken(s.usage, c) \in Nat
                 /\ Taken(s.usage, c) >= Of(s.usage, c).used
      BY <1>6, TakenType
    <2>2. CASE last
      <3>1. usage' = GroupEnded(s.usage)
        BY <1>3, <2>2
      <3> QED BY <1>6, <2>1, <3>1, GroupEndedType
    <2>3. CASE ~ last
      BY <1>3, <1>6, <2>1, <2>3
    <2> QED BY <2>2, <2>3
  <1> QED BY <1>3, <1>5, <1>7 DEF last, r

LEMMA RouteFlowInv == RouteInv /\ RouteFlow => RouteInv'
  <1> SUFFICES ASSUME RouteInv, RouteFlow PROVE RouteInv'
    OBVIOUS
  <1>0. PICK n \in Nat : n = routed + 1
    BY DEF RouteInv, RouterTyped
  <1> DEFINE r == routes[n]
  <1>1. /\ routeResult = "running" /\ routed < Len(routes) /\ routed' = n
        /\ UNCHANGED <<maxCol, maxRow, pktFlows, circuits, fixed, routes>>
    BY <1>0 DEF RouteFlow
  <1>2. /\ RouteInputs' /\ FlowsServed' /\ routeResult' \in {"running", "crash"}
    BY <1>1 DEF RouteFlow, RouteInv, RouteInputs, FlowsServed
  <1>3. /\ usage \in Usages /\ routed \in Nat /\ Len(routes) \in Nat /\ n \in 1 .. Len(routes)
        /\ 1 .. n = (1 .. routed) \cup {n} /\ n \notin 1 .. routed
        /\ DOMAIN routes = 1 .. Len(routes) /\ r \in Route
        /\ \A i \in 1 .. routed : i \in DOMAIN routes /\ i < n
    BY <1>0, <1>1 DEF RouteInv, RouterTyped, RouteLists
  <1>4. PICK s \in Covered(usage, r) :
            /\ solution' = [q \in DOMAIN solution \cup {r.src} |->
                               IF q = r.src THEN s.trace ELSE solution[q]]
            /\ s.lost => routeResult' = "crash"
            /\ ~ s.lost => \A m \in DOMAIN r.dsts : r.dsts[m] \in s.reached
            /\ usage' \in Usages
            /\ \A c : Taken(usage', c) = Taken(s.usage, c) /\ Of(usage', c).used >= Of(s.usage, c).used
            /\ n = Len(routes) \/ routes[routed + 2].grp # r.grp
                  => \A c : Of(usage', c).count = 0
    BY <1>0, RoutedOnce
  <1>5. /\ s \in TraceStates(r.src) /\ Grown(usage, s.usage) /\ Paid(usage, r, s)
        /\ ~ s.lost => Covers(s, r.src)
    BY <1>4 DEF Covered, Underway
  <1>6. \A i \in 1 .. routed : routes[i].src # r.src
    BY <1>3 DEF RouteInv, RouterTyped, RouteLists
  <1>7. DOMAIN solution = {routes[i].src : i \in 1 .. routed}
    BY DEF RouteInv, Solved
  <1>8. Trace(n)' = s.trace /\ \A i \in 1 .. routed : Trace(i)' = Trace(i)
    <2>1. Trace(n)' = s.trace
      BY <1>1, <1>4 DEF Trace
    <2>2. ASSUME NEW i \in 1 .. routed PROVE Trace(i)' = Trace(i)
      BY <1>1, <1>4, <1>6, <1>7 DEF Trace
    <2> QED BY <2>1, <2>2
  <1> HIDE DEF r
  <1>9. RouterTyped'
    <2>1. routes' \in RouteLists /\ routed' \in 0 .. Len(routes')
      BY <1>1, <1>3 DEF RouteInv, RouterTyped
    <2> QED BY <1>2, <1>4, <2>1 DEF RouterTyped
  <1>10. Solved'
    <2>1. DOMAIN solution' = {routes[i].src : i \in 1 .. n}
      <3>1. {routes[i].src : i \in 1 .. n} = {routes[i].src : i \in 1 .. routed} \cup {r.src}
        BY <1>3 DEF r
      <3> QED BY <1>4, <1>7, <3>1
    <2>2. s.trace \in Seq(Legal \cup {<<r.src, r.src>>})
      BY <1>5 DEF TraceStates
    <2>3. ASSUME NEW i \in 1 .. n
          PROVE  Trace(i)' \in Seq(Legal \cup {<<routes[i].src, routes[i].src>>})
      <3>1. CASE i = n
        BY <1>8, <2>2, <3>1 DEF r
      <3>2. CASE i \in 1 .. routed
        BY <1>8, <3>2 DEF RouteInv, Solved
      <3> QED BY <1>3, <3>1, <3>2
    <2>4. UNCHANGED <<Legal, routes>>
      BY <1>1 DEF Legal, Intra, Open, Spanned
    <2> QED BY <1>1, <2>1, <2>3, <2>4 DEF Solved
  <1>11. Arrived'
    <2> SUFFICES ASSUME routeResult' # "crash", NEW i \in 1 .. n, NEW m \in DOMAIN routes[i].dsts
                 PROVE  Arrives(routes[i].src, routes[i].dsts[m], Trace(i)')
      BY <1>1 DEF Arrived
    <2>1. CASE i = n
      <3>1. ~ s.lost /\ r.dsts[m] \in s.reached /\ Covers(s, r.src)
        BY <1>4, <1>5, <2>1 DEF r
      <3> QED BY <1>8, <2>1, <3>1 DEF Arrives, Covers, r
    <2>2. CASE i \in 1 .. routed
      BY <1>1, <1>8, <2>2 DEF RouteInv, Arrived
    <2> QED BY <1>3, <2>1, <2>2
  <1>12. ASSUME NEW c
         PROVE  /\ Of(usage, c).used \in Nat /\ Taken(usage, c) \in Nat
                /\ Of(usage', c).used \in Nat /\ Taken(usage', c) \in Nat
                /\ Of(usage', c).used >= Of(usage, c).used /\ Taken(usage', c) >= Taken(usage, c)
                /\ c \in ToSet(s.trace) /\ c[1] # c[2] =>
                      /\ Taken(usage', c) >= 1 + Of(usage, c).used
                      /\ r.grp = -1 => Taken(usage', c) >= 1 + Taken(usage, c)
    <2>1. s.usage \in Usages
      BY <1>5 DEF TraceStates
    <2>2. /\ Of(usage, c).used \in Nat /\ Taken(usage, c) \in Nat
          /\ Of(usage', c).used \in Nat /\ Taken(usage', c) \in Nat
          /\ Of(s.usage, c).used \in Nat /\ Taken(s.usage, c) \in Nat
      BY <1>3, <1>4, <2>1, TakenType
    <2>3. Of(s.usage, c).used >= Of(usage, c).used /\ Taken(s.usage, c) >= Taken(usage, c)
      BY <1>5 DEF Grown
    <2>4. Taken(usage', c) = Taken(s.usage, c) /\ Of(usage', c).used >= Of(s.usage, c).used
      BY <1>4
    <2>5. c \in ToSet(s.trace) /\ c[1] # c[2] =>
                      /\ Taken(s.usage, c) >= 1 + Of(usage, c).used
                      /\ r.grp = -1 => Taken(s.usage, c) >= 1 + Taken(usage, c)
      BY <1>5 DEF Paid, ToSet
    <2> QED BY <2>2, <2>3, <2>4, <2>5
  <1>13. ASSUME NEW i \in 1 .. routed, NEW c, Takes(i, c)
         PROVE  Taken(usage, c) >= 1 /\ (routes[i].grp # r.grp => Of(usage, c).used >= 1)
    <2>1. Taken(usage, c) >= 1 /\ (routes[i].grp # routes[routed].grp => Of(usage, c).used >= 1)
      BY <1>13 DEF RouteInv, Counted
    <2>2. CASE routes[routed].grp # r.grp
      <3>1. Of(usage, c).count = 0
        BY <1>0, <1>3, <2>2 DEF RouteInv, Counted, NothingPending, r
      <3>2. Taken(usage, c) = Of(usage, c).used
        <4>1. Of(usage, c).used \in Nat
          BY <1>12
        <4> QED BY <3>1, <4>1 DEF Taken
      <3> QED BY <2>1, <3>2
    <2> QED BY <2>1, <2>2
  <1>14. Counted'
    <2> DEFINE Takes2(i, c) == c \in ToSet(Trace(i)') /\ c[1] # c[2]
    <2>0. \A i \in 1 .. routed : \A c : Takes2(i, c) <=> Takes(i, c)
      BY <1>8 DEF Takes
    <2>1. ASSUME NEW i \in 1 .. n, NEW c, Takes2(i, c)
          PROVE  /\ Taken(usage', c) >= 1
                 /\ routes[i].grp # r.grp => Of(usage', c).used >= 1
      <3>1. CASE i \in 1 .. routed
        <4>1. Taken(usage, c) >= 1 /\ (routes[i].grp # r.grp => Of(usage, c).used >= 1)
          BY <1>13, <2>0, <2>1, <3>1
        <4>2. /\ Of(usage, c).used \in Nat /\ Taken(usage, c) \in Nat
              /\ Of(usage', c).used \in Nat /\ Taken(usage', c) \in Nat
              /\ Of(usage', c).used >= Of(usage, c).used /\ Taken(usage', c) >= Taken(usage, c)
          BY <1>12
        <4> QED BY <4>1, <4>2
      <3>2. CASE i = n
        <4>1. Taken(usage', c) >= 1 + Of(usage, c).used
          BY <1>8, <1>12, <2>1, <3>2
        <4>2. Of(usage, c).used \in Nat /\ Taken(usage', c) \in Nat
          BY <1>12
        <4> QED BY <3>2, <4>1, <4>2 DEF r
      <3> QED BY <1>3, <3>1, <3>2
    <2>2. ASSUME NEW i \in 1 .. n, NEW j \in 1 .. n, i < j, ~ Shares(i, j), NEW c,
                 Takes2(i, c), Takes2(j, c)
          PROVE  Taken(usage', c) >= 2
      <3>1. i \in 1 .. routed
        BY <1>3, <2>2
      <3>2. CASE j \in 1 .. routed
        <4>1. Taken(usage, c) >= 2
          BY <2>0, <2>2, <3>1, <3>2 DEF RouteInv, Counted
        <4> QED BY <1>12, <4>1
      <3>3. CASE j = n
        <4>1. Taken(usage, c) >= 1 /\ (routes[i].grp # r.grp => Of(usage, c).used >= 1)
          BY <1>13, <2>0, <2>2, <3>1
        <4>2. /\ Taken(usage', c) >= 1 + Of(usage, c).used
              /\ r.grp = -1 => Taken(usage', c) >= 1 + Taken(usage, c)
          BY <1>8, <1>12, <2>2, <3>3
        <4>3. routes[i].grp # r.grp \/ r.grp = -1
          BY <1>3, <2>2, <3>3 DEF Shares, Route, Groups, r
        <4>4. Of(usage, c).used \in Nat /\ Taken(usage, c) \in Nat /\ Taken(usage', c) \in Nat
          BY <1>12
        <4> QED BY <4>1, <4>2, <4>3, <4>4
      <3> QED BY <1>3, <3>2, <3>3
    <2>3. n = Len(routes) \/ routes[n + 1].grp # r.grp => \A c : Of(usage', c).count = 0
      <3>1. n + 1 = routed + 2
        BY <1>0, <1>3
      <3> QED BY <1>4, <3>1
    <2>4. n # 0
      BY <1>3
    <2>5. \A i, c : Takes(i, c)' <=> Takes2(i, c)
      BY DEF Takes
    <2>6. /\ routed' = n /\ routes' = routes
      BY <1>1
    <2>7. \A i, j : Shares(i, j)' <=> Shares(i, j)
      BY <2>6 DEF Shares
    <2>8. NothingPending' <=> \A c : Of(usage', c).count = 0
      BY DEF NothingPending
    <2> HIDE DEF Takes2
    <2> QED BY <2>1, <2>2, <2>3, <2>4, <2>5, <2>6, <2>7, <2>8 DEF Counted, r
  <1> QED BY <1>2, <1>9, <1>10, <1>11, <1>14 DEF RouteInv

LEMMA EndIterationInv == RouteInv /\ EndIteration => RouteInv'
  <1> SUFFICES ASSUME RouteInv, EndIteration PROVE RouteInv'
    OBVIOUS
  <1>1. /\ routeResult = "running" /\ routed = Len(routes)
        /\ UNCHANGED <<maxCol, maxRow, pktFlows, circuits, fixed, routes>>
        /\ UNCHANGED Legal
    BY DEF EndIteration, Legal, Intra, Open, Spanned
  <1>2. RouteInputs' /\ routes' \in RouteLists /\ routes \in RouteLists /\ usage \in Usages
    BY <1>1 DEF RouteInv, RouteInputs, RouterTyped
  <1>3. Len(routes) \in Nat
    BY <1>2 DEF RouteLists
  <1>4. CASE Overused(usage) = {}
    <2>1. routeResult' = "success" /\ UNCHANGED <<usage, routed, solution>>
      BY <1>4 DEF EndIteration
    <2>2. RouterTyped'
      BY <1>1, <1>2, <1>3, <1>4, <2>1 DEF RouterTyped, Overused
    <2>3. FlowsServed' /\ Solved' /\ Arrived'
      BY <1>1, <2>1 DEF RouteInv, FlowsServed, Solved, Arrived, Trace
    <2>4. Counted'
      BY <1>1, <2>1 DEF RouteInv, Counted, Takes, Trace, Shares, NothingPending
    <2> QED BY <1>2, <2>2, <2>3, <2>4 DEF RouteInv
  <1>5. CASE Overused(usage) # {}
    <2>1. /\ routeResult' \in {"unroutable", "running"} /\ routed' = 0 /\ solution' = <<>>
          /\ usage' = RippedUp([c \in DOMAIN usage |->
                        [usage[c] EXCEPT !.over = IF c \in Overused(usage) THEN @ + 1 ELSE @]])
      BY <1>1, <1>5 DEF EndIteration
    <2>2. usage' \in Usages /\ \A c : Of(usage', c).count = 0
      BY <1>2, <2>1, RippedUpType
    <2>3. RouterTyped'
      BY <1>1, <1>2, <1>3, <2>1, <2>2 DEF RouterTyped
    <2>4. 1 .. routed' = {}
      BY <2>1
    <2>5. FlowsServed'
      BY <1>1, <2>1 DEF RouteInv, FlowsServed
    <2>6. Solved' /\ Arrived'
      BY <2>1, <2>4 DEF Solved, Arrived
    <2>7. Counted'
      BY <2>2, <2>4 DEF Counted, NothingPending
    <2> QED BY <1>2, <2>3, <2>5, <2>6, <2>7 DEF RouteInv
  <1> QED BY <1>4, <1>5

LEMMA RouteStutterInv == RouteInv /\ UNCHANGED routeVars => RouteInv'
  <1> SUFFICES ASSUME RouteInv, UNCHANGED routeVars PROVE RouteInv'
    OBVIOUS
  <1>1. UNCHANGED <<maxCol, maxRow, pktFlows, circuits, fixed, routes, usage, iteration,
                    routed, solution, routeResult>>
    BY DEF routeVars
  <1>2. UNCHANGED Legal
    BY <1>1 DEF Legal, Intra, Open, Spanned
  <1>3. RouteInputs' /\ RouterTyped' /\ FlowsServed'
    BY <1>1 DEF RouteInv, RouteInputs, RouterTyped, FlowsServed
  <1>4. Solved' /\ Arrived'
    BY <1>1, <1>2 DEF RouteInv, Solved, Arrived, Trace
  <1>5. Counted'
    BY <1>1 DEF RouteInv, Counted, Takes, Trace, Shares, NothingPending
  <1> QED BY <1>3, <1>4, <1>5 DEF RouteInv

LEMMA RouteStepInv == RouteInv /\ [RouteNext]_routeVars => RouteInv'
  BY CollectFlowsInv, RouteFlowInv, EndIterationInv, RouteStutterInv DEF RouteNext

(* The invariant of the router.                                            *)
THEOREM RouterInvariant == RouteSpec => []RouteInv
  BY RouteInitInv, RouteStepInv, PTL DEF RouteSpec

LEMMA RoutesApartByInv == RouteInv => RoutesApart
  <1> SUFFICES ASSUME RouteInv, routeResult = "success", NEW i \in DOMAIN routes,
                      NEW j \in DOMAIN routes, i # j, ~ Shares(i, j), NEW c,
                      c \in ToSet(Trace(i)), c \in ToSet(Trace(j)), c[1] # c[2]
               PROVE  FALSE
    BY DEF RoutesApart, Shares, Trace
  <1>1. /\ usage \in Usages /\ routed = Len(routes) /\ Overused(usage) = {}
        /\ routes \in Seq(Route)
    BY DEF RouteInv, RouterTyped, RouteLists
  <1>2. i \in 1 .. routed /\ j \in 1 .. routed /\ (i < j \/ j < i)
    BY <1>1
  <1>3. Takes(i, c) /\ Takes(j, c) /\ ~ Shares(j, i)
    BY DEF Takes, Shares
  <1>4. Taken(usage, c) >= 2
    BY <1>2, <1>3 DEF RouteInv, Counted
  <1>5. Of(usage, c).count = 0
    BY <1>1 DEF RouteInv, Counted, NothingPending
  <1>6. Of(usage, c).used \in Nat
    BY <1>1, TakenType
  <1>7. Of(usage, c).used >= 2
    BY <1>4, <1>5, <1>6 DEF Taken
  <1>8. c \in DOMAIN usage /\ usage[c].used >= 2 /\ usage[c].used \in Nat
    BY <1>6, <1>7 DEF Of, NoUsage
  <1> QED BY <1>1, <1>8 DEF Overused

(* When the router reports success no connection carries two flows that    *)
(* are not packets of one group.                                           *)
THEOREM RoutesLieApart == RouteSpec => []RoutesApart
  BY RouterInvariant, RoutesApartByInv, PTL

LEMMA RoutesLegalByInv == RouteInv => RoutesLegal
  <1> SUFFICES ASSUME RouteInv, NEW q \in DOMAIN solution, NEW c \in ToSet(solution[q])
               PROVE  (c \in Intra /\ Open(c)) \/ c = <<q, q>>
    BY DEF RoutesLegal
  <1>1. PICK i \in 1 .. routed : routes[i].src = q
    BY DEF RouteInv, Solved
  <1>2. solution[q] \in Seq(Legal \cup {<<q, q>>})
    BY <1>1 DEF RouteInv, Solved, Trace
  <1>3. c \in Legal \cup {<<q, q>>}
    BY <1>2 DEF ToSet
  <1> QED BY <1>3 DEF Legal

(* Routes use what the switchboxes can do and the program has left.        *)
THEOREM RoutesAreLegal == RouteSpec => []RoutesLegal
  BY RouterInvariant, RoutesLegalByInv, PTL

(* When the router reports success, every destination that a flow asks for *)
(* is reached from its source over the connections of the route that is    *)
(* written for that source and the wires between the switchboxes.          *)
Led(src, dst) == src \in DOMAIN solution /\ Arrives(src, dst, solution[src])
FlowsArrive ==
    routeResult = "success" =>
        /\ \A n \in DOMAIN pktFlows : \A m \in DOMAIN pktFlows[n].dsts :
              Led(pktFlows[n].src, pktFlows[n].dsts[m])
        /\ \A n \in DOMAIN circuits : Led(circuits[n].src, circuits[n].dst)

LEMMA FlowsArriveByInv == RouteInv => FlowsArrive
  <1> SUFFICES ASSUME RouteInv, routeResult = "success" PROVE FlowsArrive
    BY DEF FlowsArrive
  <1>1. /\ routed = Len(routes) /\ routes \in Seq(Route) /\ DOMAIN routes = 1 .. routed
    BY DEF RouteInv, RouterTyped, RouteLists
  <1>2. ASSUME NEW src, NEW dst, Serves(routes, src, dst) PROVE Led(src, dst)
    <2>1. PICK k \in 1 .. routed : routes[k].src = src /\ \E m \in DOMAIN routes[k].dsts : routes[k].dsts[m] = dst
      BY <1>1, <1>2 DEF Serves
    <2>2. src \in DOMAIN solution
      BY <2>1 DEF RouteInv, Solved
    <2>3. Arrives(src, dst, solution[src])
      BY <2>1 DEF RouteInv, Arrived, Trace
    <2> QED BY <2>2, <2>3 DEF Led
  <1>3. ASSUME NEW n \in DOMAIN pktFlows, NEW m \in DOMAIN pktFlows[n].dsts
        PROVE  Led(pktFlows[n].src, pktFlows[n].dsts[m])
    <2> DEFINE f == pktFlows[n]
    <2>1. Provides(routes, AskedBy(f))
      BY DEF RouteInv, FlowsServed
    <2> HIDE DEF f
    <2>2. \A l \in DOMAIN f.dsts : Serves(routes, f.src, f.dsts[l])
      <3> SUFFICES ASSUME NEW l \in DOMAIN f.dsts PROVE Serves(routes, f.src, f.dsts[l])
        OBVIOUS
      <3> DEFINE w == <<f.src, f.dsts[l]>>
      <3>1. w \in AskedBy(f) /\ w[1] = f.src /\ w[2] = f.dsts[l]
        BY DEF AskedBy
      <3> HIDE DEF w
      <3>2. Serves(routes, w[1], w[2])
        BY <2>1, <3>1 DEF Provides
      <3> QED BY <3>1, <3>2
    <2>3. Serves(routes, f.src, f.dsts[m])
      BY <2>2 DEF f
    <2> QED BY <1>2, <2>3 DEF f
  <1>4. ASSUME NEW n \in DOMAIN circuits PROVE Led(circuits[n].src, circuits[n].dst)
    <2>1. Provides(routes, {<<circuits[n].src, circuits[n].dst>>})
      BY DEF RouteInv, FlowsServed
    <2>2. \A a, b : Provides(routes, {<<a, b>>}) => Serves(routes, a, b)
      BY DEF Provides
    <2>3. Serves(routes, circuits[n].src, circuits[n].dst)
      BY <2>1, <2>2
    <2> QED BY <1>2, <2>3
  <1> QED BY <1>3, <1>4 DEF FlowsArrive

(* Where the router succeeds, data gets to wherever a flow wants it.       *)
THEOREM RoutesArrive == RouteSpec => []FlowsArrive
  BY RouterInvariant, FlowsArriveByInv, PTL
=============================================================================
