------------------------ MODULE ObjectFifoLinkProofs ------------------------
(***************************************************************************)
(* Proofs about ObjectFifoLink, for any link, any depths, any repeat and   *)
(* any number of objects.                                                  *)
(*                                                                         *)
(* The locks (LocksConserved): what a channel takes at its start it gives  *)
(* back to the other lock at its end, so that only the units of channels   *)
(* that are busy are missing.  For links whose transfers are all alike     *)
(* there is one input and one output, and the cons lock counts exactly the *)
(* transfers that the output has to make for objects that have arrived     *)
(* (PlainLink).  So an input that gets the prod lock is less than a turn   *)
(* of the ring ahead of the first object that is still to be sent, and     *)
(* overwrites none of these.                                               *)
(***************************************************************************)
EXTENDS ObjectFifoLink, ArithmeticLemmas, FiniteSetTheorems

LEMMA LinkFacts ==
    ASSUME link \in Links
    PROVE  /\ IsLink(link) /\ Objects \in Nat
           /\ IsFiniteSet(link.ins) /\ IsFiniteSet(link.outs) /\ IsFiniteSet(Channels)
           /\ Target \in Channels /\ Depth \in Nat \ {0}
           /\ \A c \in Channels : NumBlocks(c) \in 1 .. Depth
           /\ IsFiniteSet(Parts) /\ Parts # {}
  <1>1. IsLink(link) /\ Objects \in Nat
    BY LinkAssumption
  <1>2. /\ IsFiniteSet(link.ins) /\ link.ins # {} /\ IsFiniteSet(link.outs) /\ link.outs # {}
        /\ link.size \in [Channels -> Nat \ {0}] /\ link.onMemTile \in BOOLEAN
        /\ ~ link.onMemTile => \A c \in Channels : link.size[c] <= Depth
    BY <1>1 DEF IsLink, Channels, Depth, Target
  <1>3. IsFiniteSet(Channels)
    BY <1>2, FS_Union DEF Channels, ChannelsOf
  <1>4. Target \in Channels
    BY <1>2 DEF Target, TargetOf, Channels, ChannelsOf
  <1>5. Depth \in Nat \ {0}
    BY <1>2, <1>4 DEF Depth
  <1>6. ASSUME NEW c \in Channels PROVE NumBlocks(c) \in 1 .. Depth
    BY <1>2, <1>5 DEF NumBlocks
  <1>7. IsFiniteSet(Parts) /\ Parts # {}
    BY <1>2, FS_Singleton DEF Parts
  <1> QED BY <1>1, <1>2, <1>3, <1>4, <1>5, <1>6, <1>7

LEMMA UnitFacts ==
    ASSUME link \in Links
    PROVE  /\ Uses \in Nat \ {0}
           /\ \A c \in Channels : AcqNum(c) \in Nat \ {0} /\ RelNum(c) = AcqNum(c)
           /\ \A c \in Channels \ {Target} : AcqNum(c) = 1
  <1>1. Cardinality(Parts) \in Nat \ {0}
    BY LinkFacts, FS_CardinalityType, FS_EmptySet
  <1>2. link.repeat \in Nat
    BY LinkFacts DEF IsLink
  <1>3. Uses \in Nat \ {0}
    <2> DEFINE n == Cardinality(Parts)
               r == link.repeat
    <2>1. n \in Nat /\ n >= 1 /\ r \in Nat
      BY <1>1, <1>2
    <2> HIDE DEF n, r
    <2>2. r * n \in Nat /\ (r + 1) * n = r * n + n
      BY <2>1
    <2>3. (r + 1) * n \in Nat \ {0}
      BY <2>1, <2>2
    <2> QED BY <2>3 DEF n, r, Uses
  <1> QED BY <1>3 DEF AcqNum, RelNum

(* What Start and Finish write into a buffer.                              *)
LEMMA FillType ==
    ASSUME TypeOK, NEW c \in Channels, NEW obj \in 0 .. Objects
    PROVE  Fill(bd[c], Touches(c), obj) \in [Buffers -> [Parts -> 0 .. Objects]]
  <1>1. bd[c] \in Buffers /\ buff \in [Buffers -> [Parts -> 0 .. Objects]]
    BY DEF TypeOK
  <1> DEFINE row == [p \in Parts |-> IF p \in Touches(c) THEN obj ELSE buff[bd[c]][p]]
  <1>2. row \in [Parts -> 0 .. Objects]
    <2>1. buff[bd[c]] \in [Parts -> 0 .. Objects]
      BY <1>1
    <2> QED BY <2>1
  <1>3. Fill(bd[c], Touches(c), obj) = [buff EXCEPT ![bd[c]] = row]
    BY DEF Fill
  <1> HIDE DEF row
  <1> QED BY <1>1, <1>2, <1>3
-----------------------------------------------------------------------------
(* An input that is busy is receiving one of the objects.                  *)
TypeInv == /\ TypeOK
           /\ \A i \in link.ins : /\ moved[i] <= Objects
                                  /\ busy[i] => moved[i] < Objects

LEMMA TypeInit == Init => TypeInv
  <1> SUFFICES ASSUME Init PROVE TypeInv
    OBVIOUS
  <1>1. link \in Links /\ Depth \in Nat \ {0} /\ Uses \in Nat \ {0} /\ Objects \in Nat
    BY LinkFacts, UnitFacts DEF Init
  <1>2. Depth * Uses \in Nat
    BY <1>1
  <1>3. lock \in [{"prod", "cons"} -> Nat]
    BY <1>2 DEF Init, InitLock
  <1>4. bd \in [Channels -> Buffers]
    BY <1>1 DEF Init, Buffers
  <1>5. buff \in [Buffers -> [Parts -> 0 .. Objects]]
    BY <1>1 DEF Init, Torn
  <1>6. link.ins \subseteq Channels
    BY DEF Channels, ChannelsOf
  <1> QED BY <1>1, <1>3, <1>4, <1>5, <1>6 DEF Init, TypeInv, TypeOK

LEMMA StartType == ASSUME TypeInv, NEW c, Start(c) PROVE TypeInv'
  <1>1. /\ c \in Channels /\ link' = link /\ bd' = bd /\ moved' = moved /\ TypeOK
        /\ c \in link.ins => moved[c] < Objects
        /\ lock[AcqLock(c)] >= AcqNum(c)
        /\ lock' = [lock EXCEPT ![AcqLock(c)] = @ - AcqNum(c)]
        /\ busy' = [busy EXCEPT ![c] = TRUE]
        /\ buff' = IF c \in link.ins THEN Fill(bd[c], Touches(c), Torn) ELSE buff
    BY DEF Start, TypeInv
  <1>2. Channels' = Channels /\ Parts' = Parts /\ Buffers' = Buffers
    BY <1>1 DEF Channels, Parts, Buffers, Depth, Target
  <1>3. lock' \in [{"prod", "cons"} -> Nat]
    <2>1. AcqLock(c) \in {"prod", "cons"} /\ AcqNum(c) \in Nat \ {0}
      BY <1>1, UnitFacts DEF AcqLock, TypeOK
    <2>2. lock[AcqLock(c)] - AcqNum(c) \in Nat
      BY <1>1, <2>1 DEF TypeOK
    <2> QED BY <1>1, <2>1, <2>2 DEF TypeOK
  <1>4. buff' \in [Buffers -> [Parts -> 0 .. Objects]]
    <2>1. Torn \in 0 .. Objects
      BY LinkFacts, <1>1 DEF Torn, TypeOK
    <2> QED BY <1>1, <2>1, FillType DEF TypeOK
  <1>5. busy' \in [Channels -> BOOLEAN] /\ \A d \in Channels \ {c} : busy'[d] = busy[d]
    BY <1>1 DEF TypeOK
  <1>6. ASSUME NEW i \in link.ins PROVE moved[i] <= Objects /\ (busy'[i] => moved[i] < Objects)
    <2>1. i \in Channels
      BY DEF Channels, ChannelsOf
    <2> QED BY <1>1, <1>5, <2>1 DEF TypeInv
  <1> QED BY <1>1, <1>2, <1>3, <1>4, <1>5, <1>6 DEF TypeInv, TypeOK

LEMMA FinishType == ASSUME TypeInv, NEW c, Finish(c) PROVE TypeInv'
  <1>1. /\ c \in Channels /\ busy[c] /\ link' = link /\ TypeOK
        /\ lock' = [lock EXCEPT ![RelLock(c)] = @ + RelNum(c)]
        /\ busy' = [busy EXCEPT ![c] = FALSE]
        /\ buff' = IF c \in link.ins THEN Fill(bd[c], Touches(c), moved[c] + 1) ELSE buff
        /\ bd' = [bd EXCEPT ![c] = (@ + 1) % NumBlocks(c)]
        /\ moved' = [moved EXCEPT ![c] = @ + 1]
    BY DEF Finish, TypeInv
  <1>2. Channels' = Channels /\ Parts' = Parts /\ Buffers' = Buffers
    BY <1>1 DEF Channels, Parts, Buffers, Depth, Target
  <1>3. lock' \in [{"prod", "cons"} -> Nat]
    <2>1. RelLock(c) \in {"prod", "cons"} /\ RelNum(c) \in Nat
      BY <1>1, UnitFacts DEF RelLock, TypeOK
    <2> QED BY <1>1, <2>1 DEF TypeOK
  <1>4. moved' \in [Channels -> Nat] /\ moved[c] \in Nat /\ moved'[c] = moved[c] + 1
        /\ \A d \in Channels \ {c} : moved'[d] = moved[d]
    BY <1>1 DEF TypeOK
  <1>5. buff' \in [Buffers -> [Parts -> 0 .. Objects]]
    <2>1. c \in link.ins => moved[c] + 1 \in 0 .. Objects
      BY <1>1, <1>4, LinkFacts DEF TypeInv, TypeOK
    <2> QED BY <1>1, <2>1, FillType DEF TypeOK
  <1>6. bd' \in [Channels -> Buffers]
    <2>1. NumBlocks(c) \in 1 .. Depth /\ Depth \in Nat \ {0} /\ bd[c] \in Nat
      BY <1>1, LinkFacts DEF TypeOK, Buffers
    <2>2. (bd[c] + 1) % NumBlocks(c) \in 0 .. (NumBlocks(c) - 1)
      BY <2>1, ModRange
    <2>3. (bd[c] + 1) % NumBlocks(c) \in Buffers
      BY <2>1, <2>2 DEF Buffers
    <2> QED BY <1>1, <2>3 DEF TypeOK
  <1>7. busy' \in [Channels -> BOOLEAN] /\ ~ busy'[c]
        /\ \A d \in Channels \ {c} : busy'[d] = busy[d]
    BY <1>1 DEF TypeOK
  <1>8. ASSUME NEW i \in link.ins PROVE moved'[i] <= Objects /\ (busy'[i] => moved'[i] < Objects)
    <2>1. i \in Channels /\ moved[i] \in Nat /\ Objects \in Nat
      BY <1>1, LinkFacts DEF Channels, ChannelsOf, TypeOK
    <2> QED BY <1>1, <1>4, <1>7, <2>1 DEF TypeInv
  <1> QED BY <1>1, <1>2, <1>3, <1>4, <1>5, <1>6, <1>7, <1>8 DEF TypeInv, TypeOK

LEMMA TypeStep == TypeInv /\ [Next]_vars => TypeInv'
  <1>1. TypeInv /\ UNCHANGED vars => TypeInv'
    BY DEF TypeInv, TypeOK, vars, Channels, Parts, Buffers, Depth, Target
  <1> QED BY <1>1, StartType, FinishType DEF Next, Terminating
-----------------------------------------------------------------------------
(* The state of a link stays one of the link's: the lock values, the       *)
(* buffers of the descriptors and the numbers of the objects.              *)
THEOREM LinkTypeCorrect == Spec => []TypeOK
  <1>1. TypeInv => TypeOK
    BY DEF TypeInv
  <1> QED BY <1>1, TypeInit, TypeStep, PTL DEF Spec

(* Units that are taken, with one channel more or less.                    *)
LEMMA TakenChanges ==
    ASSUME TypeOK, link' = link, NEW c \in Channels, NEW b \in BOOLEAN, busy[c] # b,
           busy' = [busy EXCEPT ![c] = b]
    PROVE  /\ UnitsTaken \in Nat
           /\ UnitsTaken' = IF b THEN UnitsTaken + AcqNum(c) ELSE UnitsTaken - AcqNum(c)
  <1> DEFINE S == {d \in Channels \ {Target} : busy[d]}
             S1 == {d \in Channels \ {Target} : busy'[d]}
             n == AcqNum(Target)
             u == IF busy[Target] THEN n ELSE 0
             u1 == IF busy'[Target] THEN n ELSE 0
  <1>1. link \in Links /\ busy \in [Channels -> BOOLEAN]
    BY DEF TypeOK
  <1>2. IsFiniteSet(S) /\ Target \in Channels /\ n \in Nat
    <2>1. IsFiniteSet(Channels) /\ Target \in Channels
      BY <1>1, LinkFacts
    <2>2. S \in SUBSET Channels
      OBVIOUS
    <2> QED BY <2>1, <2>2, <1>1, FS_Subset, UnitFacts
  <1>3. UnitsTaken = Cardinality(S) + u /\ UnitsTaken' = Cardinality(S1) + u1
    BY DEF UnitsTaken, Channels, Target, AcqNum, Uses, Parts
  <1>4. Cardinality(S) \in Nat
    BY <1>2, FS_CardinalityType
  <1>5. CASE c = Target
    <2>1. S1 = S
      BY <1>1, <1>5
    <2>2. busy'[Target] = b /\ busy[Target] = ~ b
      BY <1>1, <1>2, <1>5
    <2>3. CASE b
      <3>1. u = 0 /\ u1 = n
        BY <2>2, <2>3
      <3> HIDE DEF S, S1, u, u1
      <3> QED BY <1>2, <1>3, <1>4, <1>5, <2>1, <2>3, <3>1
    <2>4. CASE ~ b
      <3>1. u = n /\ u1 = 0
        BY <2>2, <2>4
      <3> HIDE DEF S, S1, u, u1
      <3> QED BY <1>2, <1>3, <1>4, <1>5, <2>1, <2>4, <3>1
    <2> QED BY <2>3, <2>4
  <1>6. CASE c # Target
    <2>1. AcqNum(c) = 1
      BY <1>1, <1>6, UnitFacts
    <2>2. u1 = u /\ u \in Nat
      <3>1. busy'[Target] = busy[Target]
        BY <1>1, <1>2, <1>6
      <3> QED BY <3>1, <1>2
    <2>3. CASE b
      <3>1. S1 = S \cup {c} /\ c \notin S
        BY <1>1, <1>6, <2>3
      <3>2. Cardinality(S1) = Cardinality(S) + 1
        <4> HIDE DEF S, S1
        <4> QED BY <1>2, <3>1, FS_AddElement
      <3> HIDE DEF S, S1, u, u1
      <3> QED BY <1>2, <1>3, <1>4, <2>1, <2>2, <2>3, <3>2
    <2>4. CASE ~ b
      <3>1. S1 = S \ {c} /\ c \in S
        BY <1>1, <1>6, <2>4
      <3>2. Cardinality(S1) = Cardinality(S) - 1
        <4> HIDE DEF S, S1
        <4> QED BY <1>2, <3>1, FS_RemoveElement
      <3> HIDE DEF S, S1, u, u1
      <3> QED BY <1>2, <1>3, <1>4, <2>1, <2>2, <2>4, <3>2
    <2> QED BY <2>3, <2>4
  <1> QED BY <1>5, <1>6

LEMMA ConservedInit == Init => LocksConserved
  <1> SUFFICES ASSUME Init PROVE LocksConserved
    OBVIOUS
  <1>1. link \in Links /\ Target \in Channels /\ Depth \in Nat \ {0} /\ Uses \in Nat \ {0}
    BY LinkFacts, UnitFacts DEF Init
  <1>2. \A c \in Channels : ~ busy[c]
    BY DEF Init
  <1>3. {c \in Channels \ {Target} : busy[c]} = {}
    BY <1>2
  <1>4. UnitsTaken = 0
    BY <1>1, <1>2, <1>3, FS_EmptySet DEF UnitsTaken
  <1>5. lock["prod"] = Depth * Uses /\ lock["cons"] = 0 /\ Depth * Uses \in Nat
    BY <1>1 DEF Init, InitLock
  <1> QED BY <1>4, <1>5 DEF LocksConserved

LEMMA ConservedStep == TypeInv /\ LocksConserved /\ [Next]_vars => LocksConserved'
  <1> SUFFICES ASSUME TypeInv, LocksConserved, [Next]_vars PROVE LocksConserved'
    OBVIOUS
  <1>1. TypeOK /\ link \in Links /\ lock["prod"] \in Nat /\ lock["cons"] \in Nat
    BY DEF TypeInv, TypeOK
  <1>2. Depth \in Nat /\ Uses \in Nat /\ Depth * Uses \in Nat
    BY <1>1, LinkFacts, UnitFacts
  <1>3. ASSUME NEW c, Start(c) PROVE LocksConserved'
    <2>1. /\ c \in Channels /\ ~ busy[c] /\ link' = link /\ busy' = [busy EXCEPT ![c] = TRUE]
          /\ lock' = [lock EXCEPT ![AcqLock(c)] = @ - AcqNum(c)]
      BY <1>3 DEF Start
    <2>2. UnitsTaken \in Nat /\ UnitsTaken' = UnitsTaken + AcqNum(c)
      BY <1>1, <2>1, TakenChanges
    <2>3. AcqLock(c) \in {"prod", "cons"} /\ AcqNum(c) \in Nat
      BY <1>1, <2>1, UnitFacts DEF AcqLock
    <2>4. lock'["prod"] + lock'["cons"] = lock["prod"] + lock["cons"] - AcqNum(c)
      BY <1>1, <2>1, <2>3 DEF TypeOK
    <2>5. (Depth * Uses)' = Depth * Uses
      BY <2>1 DEF Depth, Target, Uses, Parts
    <2>6. lock'["prod"] \in Int /\ lock'["cons"] \in Int
      BY <1>1, <2>1, <2>3 DEF TypeOK
    <2> QED BY <1>1, <1>2, <2>2, <2>3, <2>4, <2>5, <2>6 DEF LocksConserved
  <1>4. ASSUME NEW c, Finish(c) PROVE LocksConserved'
    <2>1. /\ c \in Channels /\ busy[c] /\ link' = link /\ busy' = [busy EXCEPT ![c] = FALSE]
          /\ lock' = [lock EXCEPT ![RelLock(c)] = @ + RelNum(c)]
      BY <1>4 DEF Finish
    <2>2. UnitsTaken \in Nat /\ UnitsTaken' = UnitsTaken - AcqNum(c)
      <3>1. busy[c] # FALSE
        BY <2>1
      <3> QED BY <1>1, <2>1, <3>1, TakenChanges
    <2>3. RelLock(c) \in {"prod", "cons"} /\ AcqNum(c) \in Nat /\ RelNum(c) = AcqNum(c)
      BY <1>1, <2>1, UnitFacts DEF RelLock
    <2>4. lock'["prod"] + lock'["cons"] = lock["prod"] + lock["cons"] + AcqNum(c)
      BY <1>1, <2>1, <2>3 DEF TypeOK
    <2>5. (Depth * Uses)' = Depth * Uses
      BY <2>1 DEF Depth, Target, Uses, Parts
    <2>6. lock'["prod"] \in Int /\ lock'["cons"] \in Int
      BY <1>1, <2>1, <2>3 DEF TypeOK
    <2> QED BY <1>1, <1>2, <2>2, <2>3, <2>4, <2>5, <2>6 DEF LocksConserved
  <1>5. CASE UNCHANGED vars
    BY <1>5 DEF LocksConserved, UnitsTaken, vars, Channels, Target, AcqNum, Uses, Parts, Depth
  <1> QED BY <1>3, <1>4, <1>5 DEF Next, Terminating

(* No transfer loses or forges a unit of the two locks, whatever the       *)
(* scaling, the number of channels and the order of their transfers.       *)
THEOREM LinkConservesLocks == Spec => []LocksConserved
  BY TypeInit, TypeStep, ConservedInit, ConservedStep, PTL DEF Spec
-----------------------------------------------------------------------------
(* Links whose transfers are all alike: what the locks count, and that an  *)
(* object stays in its buffer until the output has sent it for the last    *)
(* time.                                                                   *)
Unit(c, n) == IF busy[c] THEN n ELSE 0
Plain(i, o) ==
    /\ lock["prod"] + lock["cons"] + Unit(i, Uses) + Unit(o, 1) = Depth * Uses
    /\ lock["cons"] + Unit(o, 1) + moved[o] = Uses * moved[i]
    /\ bd[i] = moved[i] % Depth /\ bd[o] = moved[o] % Depth
    /\ \A n \in 0 .. (moved[i] - 1) :
          moved[o] < Uses * (n + 1) => buff[n % Depth]["whole"] = n + 1
PlainLink == EveryTransferAlike => \A i \in link.ins, o \in link.outs : Plain(i, o)

(* Such a link has one input and one output, and a unit of the cons lock   *)
(* for each time that the output sends the object.                         *)
LEMMA PlainFacts ==
    ASSUME link \in Links, EveryTransferAlike, NEW i \in link.ins, NEW o \in link.outs
    PROVE  /\ Channels = {i, o} /\ i \notin link.outs /\ o \notin link.ins /\ i # o
           /\ link.ins = {i} /\ link.outs = {o}
           /\ link.repeat \in Nat /\ Uses = link.repeat + 1 /\ (Uses = 1 \/ Depth = 1)
           /\ AcqNum(i) = Uses /\ RelNum(i) = Uses /\ AcqNum(o) = 1 /\ RelNum(o) = 1
           /\ NumBlocks(i) = Depth /\ NumBlocks(o) = Depth
           /\ Parts = {"whole"} /\ Touches(i) = Parts /\ Touches(o) = Parts
           /\ AcqLock(i) = "prod" /\ RelLock(i) = "cons"
           /\ AcqLock(o) = "cons" /\ RelLock(o) = "prod"
  <1>1. /\ IsFiniteSet(link.ins) /\ IsFiniteSet(link.outs) /\ link.ins \cap link.outs = {}
        /\ link.onMemTile \in BOOLEAN /\ link.repeat \in Nat
        /\ ~ link.onMemTile => link.repeat = 0
    BY LinkFacts DEF IsLink
  <1>2. /\ Parts = {"whole"} /\ (link.repeat = 0 \/ (Depth = 1 /\ Target \in link.ins))
        /\ \A c \in Channels : NumBlocks(c) = Depth
    BY DEF EveryTransferAlike
  <1>3. Cardinality({"whole"}) = 1
    BY FS_Singleton
  <1>4. ~ IsJoin(link) /\ ~ IsDistribute(link)
    BY <1>2, <1>3 DEF Parts, IsJoin, IsDistribute
  <1>5. \A S : IsFiniteSet(S) /\ ~ Cardinality(S) > 1 => \A x \in S : S = {x}
    <2> SUFFICES ASSUME NEW S, IsFiniteSet(S), ~ Cardinality(S) > 1, NEW x \in S
                 PROVE  S = {x}
      OBVIOUS
    <2>1. Cardinality(S) \in Nat /\ Cardinality(S) # 0
      BY FS_CardinalityType, FS_EmptySet
    <2>2. Cardinality(S) = 1
      BY <2>1
    <2>3. PICK y : S = {y}
      BY <2>2, FS_Singleton
    <2> QED BY <2>3
  <1>6. link.ins = {i} /\ link.outs = {o}
    BY <1>1, <1>4, <1>5 DEF IsJoin, IsDistribute
  <1>7. Channels = {i, o} /\ i \notin link.outs /\ o \notin link.ins /\ i # o
    BY <1>1, <1>6 DEF Channels, ChannelsOf
  <1>8. Uses = link.repeat + 1
    <2>1. Uses = (link.repeat + 1) * 1
      BY <1>2, <1>3 DEF Uses
    <2> QED BY <2>1, <1>1
  <1>9. AcqNum(i) = Uses /\ AcqNum(o) = 1
    <2>1. CASE link.repeat = 0
      BY <2>1, <1>8 DEF AcqNum
    <2>2. CASE link.repeat # 0
      <3>1. link.onMemTile /\ Target = i
        BY <2>2, <1>1, <1>2, <1>6
      <3> QED BY <3>1, <1>7 DEF AcqNum
    <2> QED BY <2>1, <2>2
  <1>10. Touches(i) = Parts /\ Touches(o) = Parts
    BY <1>2 DEF Touches
  <1>11. Uses = 1 \/ Depth = 1
    BY <1>2, <1>8
  <1> QED BY <1>1, <1>2, <1>6, <1>7, <1>8, <1>9, <1>10, <1>11
          DEF RelNum, AcqLock, RelLock

LEMMA FillOne ==
    ASSUME TypeOK, Parts = {"whole"}, NEW c \in Channels, Touches(c) = Parts, NEW obj
    PROVE  \A b \in Buffers : Fill(bd[c], Touches(c), obj)[b]["whole"]
                                = IF b = bd[c] THEN obj ELSE buff[b]["whole"]
  <1>1. bd[c] \in Buffers /\ buff \in [Buffers -> [Parts -> 0 .. Objects]]
    BY DEF TypeOK
  <1> DEFINE row == [p \in Parts |-> IF p \in Touches(c) THEN obj ELSE buff[bd[c]][p]]
  <1>2. row["whole"] = obj
    OBVIOUS
  <1>3. Fill(bd[c], Touches(c), obj) = [buff EXCEPT ![bd[c]] = row]
    BY DEF Fill
  <1> HIDE DEF row
  <1> QED BY <1>1, <1>2, <1>3

(* An input that has the prod lock is less than a turn ahead of the first  *)
(* object that is still to be sent.                                        *)
LEMMA LessThanATurn ==
    ASSUME NEW R \in Nat \ {0}, NEW D \in Nat \ {0}, NEW mi \in Nat, NEW mo \in Nat,
           NEW n \in Nat, mo < R * (n + 1), R * mi <= mo + D * R - R
    PROVE  mi < n + D
  <1> SUFFICES ASSUME mi >= n + D PROVE FALSE
    OBVIOUS
  <1> DEFINE k == mi - (n + D)
  <1>1. k \in Nat /\ mi = n + D + k
    OBVIOUS
  <1> HIDE DEF k
  <1>2. R * k \in Nat /\ R * n \in Nat /\ D * R \in Nat
    BY <1>1
  <1>3. R * mi = R * n + D * R + R * k /\ R * (n + 1) = R * n + R
    BY <1>1
  <1> QED BY <1>2, <1>3

(* The next object may go into the next buffer: it is not in use.          *)
LEMMA BufferNotInUse ==
    ASSUME TypeOK, EveryTransferAlike, NEW i \in link.ins, NEW o \in link.outs, Plain(i, o),
           busy[i] \/ lock["prod"] >= Uses
    PROVE  /\ moved[i] % Depth \in Buffers
           /\ \A n \in 0 .. (moved[i] - 1) :
                 moved[o] < Uses * (n + 1) => n % Depth \in Buffers /\ n % Depth # moved[i] % Depth
  <1>1. link \in Links /\ Depth \in Nat \ {0} /\ Uses \in Nat \ {0}
    BY LinkFacts, UnitFacts DEF TypeOK
  <1>2. i \in Channels /\ o \in Channels
    BY DEF Channels, ChannelsOf
  <1>3. /\ moved[i] \in Nat /\ moved[o] \in Nat /\ lock["prod"] \in Nat /\ lock["cons"] \in Nat
        /\ Unit(o, 1) \in Nat
    BY <1>2 DEF TypeOK, Unit
  <1>4. Uses * moved[i] \in Nat /\ Depth * Uses \in Nat
    BY <1>1, <1>3
  <1>5. Uses * moved[i] <= moved[o] + Depth * Uses - Uses
    <2>1. lock["prod"] + Unit(i, Uses) >= Uses
      BY <1>1, <1>3 DEF Unit
    <2>2. Unit(i, Uses) \in Nat
      BY <1>1 DEF Unit
    <2> QED BY <1>1, <1>3, <1>4, <2>1, <2>2 DEF Plain
  <1>6. ASSUME NEW n \in 0 .. (moved[i] - 1), moved[o] < Uses * (n + 1)
        PROVE  n % Depth \in Buffers /\ n % Depth # moved[i] % Depth
    <2>1. n \in Nat /\ n < moved[i]
      BY <1>3
    <2>2. moved[i] < n + Depth
      BY <1>1, <1>3, <1>5, <1>6, <2>1, LessThanATurn
    <2>3. moved[i] - n < Depth
      BY <1>1, <1>3, <2>1, <2>2
    <2> QED BY <1>1, <1>3, <2>1, <2>3, ModDistinct, ModRange DEF Buffers
  <1> QED BY <1>1, <1>3, <1>6, ModRange DEF Buffers

LEMMA PlainInit == Init => PlainLink
  <1> SUFFICES ASSUME Init, EveryTransferAlike, NEW i \in link.ins, NEW o \in link.outs
               PROVE  Plain(i, o)
    BY DEF PlainLink
  <1>1. link \in Links /\ Depth \in Nat \ {0} /\ Uses \in Nat \ {0}
    BY LinkFacts, UnitFacts DEF Init
  <1>2. /\ ~ busy[i] /\ ~ busy[o] /\ moved[i] = 0 /\ moved[o] = 0 /\ bd[i] = 0 /\ bd[o] = 0
        /\ lock["prod"] = Depth * Uses /\ lock["cons"] = 0
    BY DEF Init, InitLock, Channels, ChannelsOf
  <1>3. Depth * Uses \in Nat /\ Uses * 0 = 0 /\ 0 % Depth = 0
    BY <1>1
  <1> QED BY <1>2, <1>3 DEF Plain, Unit

LEMMA PlainStep == TypeInv /\ PlainLink /\ [Next]_vars => PlainLink'
  <1> SUFFICES ASSUME TypeInv, PlainLink, [Next]_vars PROVE PlainLink'
    OBVIOUS
  <1>1. link' = link
    BY DEF Next, Start, Finish, Terminating, vars
  <1>2. /\ Channels' = Channels /\ Parts' = Parts /\ Depth' = Depth /\ Uses' = Uses
        /\ EveryTransferAlike' <=> EveryTransferAlike
    BY <1>1 DEF Channels, Parts, Depth, Target, Uses, EveryTransferAlike, NumBlocks
  <1> SUFFICES ASSUME EveryTransferAlike, NEW i \in link.ins, NEW o \in link.outs
               PROVE  Plain(i, o)'
    BY <1>1, <1>2 DEF PlainLink
  <1>3. Plain(i, o) /\ TypeOK /\ link \in Links
    BY DEF PlainLink, TypeInv, TypeOK
  <1>4. /\ Channels = {i, o} /\ i # o /\ i \in link.ins /\ o \notin link.ins
        /\ AcqNum(i) = Uses /\ RelNum(i) = Uses /\ AcqNum(o) = 1 /\ RelNum(o) = 1
        /\ NumBlocks(i) = Depth /\ NumBlocks(o) = Depth
        /\ Parts = {"whole"} /\ Touches(i) = Parts /\ Touches(o) = Parts
        /\ AcqLock(i) = "prod" /\ RelLock(i) = "cons"
        /\ AcqLock(o) = "cons" /\ RelLock(o) = "prod"
    BY <1>3, PlainFacts
  <1>5. Depth \in Nat \ {0} /\ Uses \in Nat \ {0}
    BY <1>3, LinkFacts, UnitFacts
  <1>6. /\ moved \in [Channels -> Nat] /\ busy \in [Channels -> BOOLEAN]
        /\ lock \in [{"prod", "cons"} -> Nat] /\ bd \in [Channels -> Buffers]
        /\ moved[i] \in Nat /\ moved[o] \in Nat
    BY <1>3, <1>4 DEF TypeOK
  <1>7. /\ lock["prod"] + lock["cons"] + Unit(i, Uses) + Unit(o, 1) = Depth * Uses
        /\ lock["cons"] + Unit(o, 1) + moved[o] = Uses * moved[i]
        /\ bd[i] = moved[i] % Depth /\ bd[o] = moved[o] % Depth
        /\ \A n \in 0 .. (moved[i] - 1) :
              moved[o] < Uses * (n + 1) => buff[n % Depth]["whole"] = n + 1
    BY <1>3 DEF Plain
  <1>8. Depth * Uses \in Nat /\ Uses * moved[i] \in Nat
    BY <1>5, <1>6
  <1>0. \A obj : \A b \in Buffers : Fill(bd[i], Touches(i), obj)[b]["whole"]
                                     = IF b = moved[i] % Depth THEN obj ELSE buff[b]["whole"]
    <2>1. TypeOK /\ i \in Channels /\ Parts = {"whole"} /\ Touches(i) = Parts
      BY <1>3, <1>4
    <2>2. bd[i] = moved[i] % Depth
      BY <1>7
    <2> SUFFICES ASSUME NEW obj
                 PROVE  \A b \in Buffers : Fill(bd[i], Touches(i), obj)[b]["whole"]
                                     = IF b = bd[i] THEN obj ELSE buff[b]["whole"]
      BY <2>2
    <2> QED BY <2>1, FillOne
  <1>9. ASSUME Start(i) PROVE Plain(i, o)'
    <2>1. /\ ~ busy[i] /\ lock["prod"] >= Uses /\ bd' = bd /\ moved' = moved
          /\ lock' = [lock EXCEPT !["prod"] = @ - Uses] /\ busy' = [busy EXCEPT ![i] = TRUE]
          /\ buff' = Fill(bd[i], Touches(i), Torn)
      BY <1>4, <1>9 DEF Start
    <2>2. /\ lock'["prod"] = lock["prod"] - Uses /\ lock'["cons"] = lock["cons"]
          /\ busy'[i] /\ busy'[o] = busy[o]
      BY <1>4, <1>6, <2>1
    <2>3. /\ (lock["prod"] + lock["cons"] + Unit(i, Uses) + Unit(o, 1))' = Depth * Uses
          /\ (lock["cons"] + Unit(o, 1) + moved[o])' = Uses * moved[i]
      <3>1. /\ Unit(i, Uses) = 0 /\ Unit(i, Uses)' = Uses /\ Unit(o, 1)' = Unit(o, 1)
            /\ Unit(o, 1) \in Nat
        BY <1>2, <2>1, <2>2 DEF Unit
      <3>2. lock["prod"] \in Nat /\ lock["cons"] \in Nat /\ lock["prod"] - Uses \in Int
        BY <1>5, <1>6
      <3> QED BY <1>5, <1>6, <1>7, <1>8, <2>1, <2>2, <3>1, <3>2
    <2>4. ASSUME NEW n \in 0 .. (moved[i] - 1), moved[o] < Uses * (n + 1)
          PROVE  buff'[n % Depth]["whole"] = n + 1
      <3>1. n % Depth \in Buffers /\ n % Depth # moved[i] % Depth
        BY <1>3, <2>1, <2>4, BufferNotInUse
      <3>2. buff'[n % Depth]["whole"] = buff[n % Depth]["whole"]
        BY <1>0, <2>1, <3>1
      <3> QED BY <1>7, <2>4, <3>2
    <2> QED BY <1>2, <1>7, <2>1, <2>3, <2>4 DEF Plain
  <1>10. ASSUME Start(o) PROVE Plain(i, o)'
    <2>1. /\ ~ busy[o] /\ lock["cons"] >= 1 /\ bd' = bd /\ moved' = moved
          /\ lock' = [lock EXCEPT !["cons"] = @ - 1] /\ busy' = [busy EXCEPT ![o] = TRUE]
          /\ buff' = buff
      BY <1>4, <1>10 DEF Start
    <2>2. /\ lock'["cons"] = lock["cons"] - 1 /\ lock'["prod"] = lock["prod"]
          /\ busy'[o] /\ busy'[i] = busy[i]
      BY <1>4, <1>6, <2>1
    <2>3. /\ (lock["prod"] + lock["cons"] + Unit(i, Uses) + Unit(o, 1))' = Depth * Uses
          /\ (lock["cons"] + Unit(o, 1) + moved[o])' = Uses * moved[i]
      <3>1. /\ Unit(o, 1) = 0 /\ Unit(o, 1)' = 1 /\ Unit(i, Uses)' = Unit(i, Uses)
            /\ Unit(i, Uses) \in Nat
        BY <1>2, <1>5, <2>1, <2>2 DEF Unit
      <3>2. lock["prod"] \in Nat /\ lock["cons"] \in Nat /\ lock["cons"] - 1 \in Int
        BY <1>6
      <3> QED BY <1>5, <1>6, <1>7, <1>8, <2>1, <2>2, <3>1, <3>2
    <2> QED BY <1>2, <1>7, <2>1, <2>3 DEF Plain
  <1>11. ASSUME Finish(i) PROVE Plain(i, o)'
    <2>1. /\ busy[i] /\ lock' = [lock EXCEPT !["cons"] = @ + Uses]
          /\ busy' = [busy EXCEPT ![i] = FALSE]
          /\ buff' = Fill(bd[i], Touches(i), moved[i] + 1)
          /\ bd' = [bd EXCEPT ![i] = (@ + 1) % Depth] /\ moved' = [moved EXCEPT ![i] = @ + 1]
      BY <1>4, <1>11 DEF Finish
    <2>2. /\ lock'["cons"] = lock["cons"] + Uses /\ lock'["prod"] = lock["prod"]
          /\ ~ busy'[i] /\ busy'[o] = busy[o]
          /\ moved'[i] = moved[i] + 1 /\ moved'[o] = moved[o]
          /\ bd'[i] = (bd[i] + 1) % Depth /\ bd'[o] = bd[o]
      BY <1>4, <1>6, <2>1
    <2>3. /\ (lock["prod"] + lock["cons"] + Unit(i, Uses) + Unit(o, 1))' = Depth * Uses
          /\ (lock["cons"] + Unit(o, 1) + moved[o])' = Uses * (moved[i] + 1)
      <3>1. /\ Unit(i, Uses) = Uses /\ Unit(i, Uses)' = 0 /\ Unit(o, 1)' = Unit(o, 1)
            /\ Unit(o, 1) \in Nat
        BY <1>2, <2>1, <2>2 DEF Unit
      <3>2. lock["prod"] \in Nat /\ lock["cons"] \in Nat
        BY <1>6
      <3>3. Uses * (moved[i] + 1) = Uses * moved[i] + Uses
        BY <1>5, <1>6
      <3> QED BY <1>5, <1>6, <1>7, <1>8, <2>2, <3>1, <3>2, <3>3
    <2>4. bd'[i] = moved'[i] % Depth
      BY <1>5, <1>6, <1>7, <2>2, ModStep
    <2>5. ASSUME NEW n \in 0 .. moved[i], moved[o] < Uses * (n + 1)
          PROVE  buff'[n % Depth]["whole"] = n + 1
      <3>1. moved[i] % Depth \in Buffers
        BY <1>3, <2>1, BufferNotInUse
      <3>2. CASE n = moved[i]
        BY <1>0, <2>1, <3>1, <3>2
      <3>3. CASE n # moved[i]
        <4>1. n \in 0 .. (moved[i] - 1)
          BY <1>6, <3>3
        <4>2. n % Depth \in Buffers /\ n % Depth # moved[i] % Depth
          BY <1>3, <2>1, <2>5, <4>1, BufferNotInUse
        <4>3. buff'[n % Depth]["whole"] = buff[n % Depth]["whole"]
          BY <1>0, <2>1, <4>2
        <4> QED BY <1>7, <2>5, <4>1, <4>3
      <3> QED BY <3>2, <3>3
    <2>6. moved'[i] - 1 = moved[i]
      BY <1>6, <2>2
    <2> QED BY <1>2, <1>7, <2>2, <2>3, <2>4, <2>5, <2>6 DEF Plain
  <1>12. ASSUME Finish(o) PROVE Plain(i, o)'
    <2>1. /\ busy[o] /\ lock' = [lock EXCEPT !["prod"] = @ + 1]
          /\ busy' = [busy EXCEPT ![o] = FALSE] /\ buff' = buff
          /\ bd' = [bd EXCEPT ![o] = (@ + 1) % Depth] /\ moved' = [moved EXCEPT ![o] = @ + 1]
      BY <1>4, <1>12 DEF Finish
    <2>2. /\ lock'["prod"] = lock["prod"] + 1 /\ lock'["cons"] = lock["cons"]
          /\ ~ busy'[o] /\ busy'[i] = busy[i]
          /\ moved'[o] = moved[o] + 1 /\ moved'[i] = moved[i]
          /\ bd'[o] = (bd[o] + 1) % Depth /\ bd'[i] = bd[i]
      BY <1>4, <1>6, <2>1
    <2>3. /\ (lock["prod"] + lock["cons"] + Unit(i, Uses) + Unit(o, 1))' = Depth * Uses
          /\ (lock["cons"] + Unit(o, 1) + moved[o])' = Uses * moved[i]
      <3>1. /\ Unit(o, 1) = 1 /\ Unit(o, 1)' = 0 /\ Unit(i, Uses)' = Unit(i, Uses)
            /\ Unit(i, Uses) \in Nat
        BY <1>2, <1>5, <2>1, <2>2 DEF Unit
      <3>2. lock["prod"] \in Nat /\ lock["cons"] \in Nat
        BY <1>6
      <3> QED BY <1>5, <1>6, <1>7, <1>8, <2>2, <3>1, <3>2
    <2>4. bd'[o] = moved'[o] % Depth
      BY <1>5, <1>6, <1>7, <2>2, ModStep
    <2>5. ASSUME NEW n \in 0 .. (moved[i] - 1), moved[o] + 1 < Uses * (n + 1)
          PROVE  buff'[n % Depth]["whole"] = n + 1
      <3>1. n \in Nat /\ Uses * (n + 1) \in Nat
        BY <1>5, <1>6
      <3>2. moved[o] < Uses * (n + 1)
        BY <1>6, <2>5, <3>1
      <3> QED BY <1>7, <2>1, <3>2
    <2> QED BY <1>2, <1>7, <2>2, <2>3, <2>4, <2>5 DEF Plain
  <1>13. CASE UNCHANGED vars
    BY <1>2, <1>3, <1>13 DEF vars, Plain, Unit
  <1>14. \A c : Start(c) \/ Finish(c) => c \in {i, o}
    BY <1>4 DEF Start, Finish
  <1> QED BY <1>9, <1>10, <1>11, <1>12, <1>13, <1>14 DEF Next, Terminating

LEMMA PlainOrder == TypeInv /\ PlainLink => PlainLinksInOrder
  <1> SUFFICES ASSUME TypeInv, PlainLink, EveryTransferAlike, NEW o \in link.outs, busy[o],
                      NEW p \in Touches(o)
               PROVE  buff[bd[o]][p] = moved[o] \div (link.repeat + 1) + 1
    BY DEF PlainLinksInOrder, PartsInOrder
  <1>1. TypeOK /\ link \in Links
    BY DEF TypeInv, TypeOK
  <1>2. PICK i \in link.ins : TRUE
    BY <1>1, LinkFacts DEF IsLink
  <1>3. Plain(i, o)
    BY DEF PlainLink
  <1>4. /\ Channels = {i, o} /\ Uses = link.repeat + 1 /\ (Uses = 1 \/ Depth = 1)
        /\ Parts = {"whole"} /\ Touches(o) = Parts
    BY <1>1, PlainFacts
  <1>5. Depth \in Nat \ {0} /\ Uses \in Nat \ {0}
    BY <1>1, LinkFacts, UnitFacts
  <1>6. moved[i] \in Nat /\ moved[o] \in Nat /\ lock["cons"] \in Nat
    BY <1>1, <1>4 DEF TypeOK
  <1> DEFINE n == moved[o] \div Uses
             r == moved[o] % Uses
  <1>7. n \in Nat /\ moved[o] = Uses * n + r /\ r \in 0 .. (Uses - 1)
    BY <1>5, <1>6, DivMod, ModRange
  <1> HIDE DEF n, r
  <1>8. moved[o] < Uses * (n + 1)
    <2>1. Uses * (n + 1) = Uses * n + Uses /\ Uses * n \in Nat
      BY <1>5, <1>7
    <2> QED BY <2>1, <1>5, <1>7
  <1>9. n < moved[i]
    <2>1. moved[o] < Uses * moved[i] /\ Uses * n <= moved[o]
      <3>1. lock["cons"] + 1 + moved[o] = Uses * moved[i]
        BY <1>3 DEF Plain, Unit
      <3>2. Uses * moved[i] \in Nat /\ Uses * n \in Nat
        BY <1>5, <1>6, <1>7
      <3> QED BY <3>1, <3>2, <1>5, <1>6, <1>7
    <2> SUFFICES ASSUME n >= moved[i] PROVE FALSE
      BY <1>6, <1>7
    <2> DEFINE k == n - moved[i]
    <2>2. k \in Nat /\ n = moved[i] + k
      BY <1>6, <1>7
    <2> HIDE DEF k
    <2>3. Uses * n = Uses * moved[i] + Uses * k /\ Uses * k \in Nat /\ Uses * moved[i] \in Nat
      BY <1>5, <1>6, <2>2
    <2> QED BY <1>6, <2>1, <2>3
  <1>10. n % Depth = moved[o] % Depth
    <2>1. CASE Uses = 1
      <3>1. n = moved[o]
        BY <2>1, <1>6, <1>7
      <3> QED BY <3>1
    <2>2. CASE Depth = 1
      <3>1. n % Depth \in 0 .. 0 /\ moved[o] % Depth \in 0 .. 0
        BY <2>2, <1>5, <1>6, <1>7, ModRange
      <3> QED BY <3>1
    <2> QED BY <1>4, <2>1, <2>2
  <1>11. buff[n % Depth]["whole"] = n + 1
    BY <1>3, <1>6, <1>7, <1>8, <1>9 DEF Plain
  <1>12. bd[o] = n % Depth /\ p = "whole"
    BY <1>3, <1>4, <1>10 DEF Plain
  <1> QED BY <1>4, <1>11, <1>12 DEF n

(* A link that moves one whole object with every transfer, or one with one *)
(* buffer whose input's elements are shared, sends what has arrived        *)
(* complete and in order, each object as often as it is to be repeated,    *)
(* whatever the depth and however the two channels are interleaved.        *)
THEOREM PlainLinksKeepOrder == Spec => []PlainLinksInOrder
  BY TypeInit, TypeStep, PlainInit, PlainStep, PlainOrder, PTL DEF Spec
=============================================================================
