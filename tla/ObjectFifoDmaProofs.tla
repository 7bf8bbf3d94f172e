------------------------ MODULE ObjectFifoDmaProofs ------------------------
(***************************************************************************)
(* Proofs about ObjectFifoDma for every number of consumers, every depth   *)
(* and every stream: the core and the DMA channel of an end never use the  *)
(* same buffer, and the objectFifo keeps its contract.                     *)
(*                                                                         *)
(* The ends only meet in the stream, so the first argument is made for one *)
(* end (EndInv): the two indices follow the objects that each port has     *)
(* moved, and the units of the two locks and of the two subviews add up to *)
(* the depth, so that the subviews are less than a turn of the ring apart. *)
(* The second follows the objects (FlowInv): through the buffers of the    *)
(* producer tile, the stream of each consumer, and the consumer's buffers. *)
(***************************************************************************)
EXTENDS ObjectFifoDma, ArithmeticLemmas, SequenceTheorems, FiniteSetTheorems

Held(e, p) == Len(acquired[e][p])

EndTypes == /\ lock \in [Ends -> [Ports -> Nat]]
            /\ next \in [Ends -> [Ports -> Nat]]
            /\ acquired \in [Ends -> [Ports -> Seq(Nat)]]
            /\ moved \in [Ends -> [Ports -> Nat]]
            /\ want \in [Ends -> Nat]

Conserved(e) == lock[e]["Produce"] + Held(e, "Produce")
                  + lock[e]["Consume"] + Held(e, "Consume") = Depth(e)

InFlight(e) == moved[e]["Produce"]
                 = moved[e]["Consume"] + Held(e, "Consume") + lock[e]["Consume"]

Indexed(e, p) == /\ next[e][p] = (moved[e][p] + Held(e, p)) % Depth(e)
                 /\ \A i \in 1 .. Held(e, p) :
                       acquired[e][p][i] = (moved[e][p] + (i - 1)) % Depth(e)

EndInv(e) == Conserved(e) /\ InFlight(e) /\ Indexed(e, "Produce") /\ Indexed(e, "Consume")

DmaInv == EndTypes /\ \A e \in Ends : EndInv(e)
-----------------------------------------------------------------------------
LEMMA DepthType == ASSUME NEW e \in Ends PROVE Depth(e) \in Nat \ {0}
  <1>1. ElemNumber[e] \in Nat \ {0} /\ MaxAcquire[e] \in Nat
    BY DmaAssumption
  <1> QED BY <1>1 DEF Depth, FindObjectFifoSize

(* The state of one port.                                                  *)
LEMMA PortTypes ==
    ASSUME EndTypes, NEW e \in Ends, NEW p \in Ports
    PROVE  /\ lock[e][p] \in Nat /\ next[e][p] \in Nat /\ moved[e][p] \in Nat
           /\ acquired[e][p] \in Seq(Nat) /\ Held(e, p) \in Nat
           /\ Other(p) \in Ports /\ Other(p) # p
  BY DEF EndTypes, Held, Ports, Other

(* An end that a step leaves alone keeps its invariant.                    *)
LEMMA EndUntouched ==
    ASSUME NEW e, EndInv(e), lock'[e] = lock[e], next'[e] = next[e],
           acquired'[e] = acquired[e], moved'[e] = moved[e]
    PROVE  EndInv(e)'
  BY DEF EndInv, Conserved, InFlight, Indexed, Held

(* One entry of a table of ports is replaced.                              *)
LEMMA TableUpdate ==
    ASSUME NEW S, NEW f \in [Ends -> [Ports -> S]], NEW e \in Ends, NEW p \in Ports,
           NEW x \in S
    PROVE  [f EXCEPT ![e][p] = x] \in [Ends -> [Ports -> S]]
  OBVIOUS

LEMMA NextIndicesFacts ==
    ASSUME DmaInv, NEW e \in Ends, NEW p \in Ports, NEW n \in Nat
    PROVE  /\ NextIndices(e, p, n) \in Seq(Nat) /\ Len(NextIndices(e, p, n)) = n
           /\ \A i \in 1 .. n : NextIndices(e, p, n)[i]
                                  = (moved[e][p] + Held(e, p) + (i - 1)) % Depth(e)
  <1>1. ASSUME NEW i \in 1 .. n
        PROVE  /\ (next[e][p] + (i - 1)) % Depth(e) \in Nat
               /\ (next[e][p] + (i - 1)) % Depth(e)
                     = (moved[e][p] + Held(e, p) + (i - 1)) % Depth(e)
    <2>1. moved[e][p] + Held(e, p) \in Nat /\ i - 1 \in Nat /\ Depth(e) \in Nat \ {0}
      BY PortTypes, DepthType DEF DmaInv
    <2>2. next[e][p] = (moved[e][p] + Held(e, p)) % Depth(e)
      BY DEF DmaInv, EndInv, Indexed, Ports
    <2>3. (((moved[e][p] + Held(e, p)) % Depth(e)) + (i - 1)) % Depth(e)
             = (moved[e][p] + Held(e, p) + (i - 1)) % Depth(e)
      BY <2>1, ModAdvance
    <2>4. (moved[e][p] + Held(e, p) + (i - 1)) % Depth(e) \in Nat
      BY <2>1, ModRange
    <2> QED BY <2>2, <2>3, <2>4
  <1> QED BY <1>1 DEF NextIndices

(* Taking n units moves them from a lock to the subview of its port.       *)
LEMMA TakeInv ==
    ASSUME DmaInv, NEW e \in Ends, NEW p \in Ports, NEW n \in Nat,
           Take(e, p, n), moved' = moved, want' \in [Ends -> Nat]
    PROVE  DmaInv'
  <1> DEFINE s == acquired[e][p]
             t == NextIndices(e, p, n)
  <1>1. /\ lock[e][p] \in Nat /\ next[e][p] \in Nat /\ moved[e][p] \in Nat
        /\ s \in Seq(Nat) /\ Held(e, p) \in Nat /\ Held(e, p) = Len(s)
        /\ Other(p) \in Ports /\ Other(p) # p
        /\ EndTypes /\ EndInv(e) /\ Depth(e) \in Nat \ {0}
    BY PortTypes, DepthType DEF DmaInv, Held
  <1>2. /\ t \in Seq(Nat) /\ Len(t) = n
        /\ \A i \in 1 .. n : t[i] = (moved[e][p] + Held(e, p) + (i - 1)) % Depth(e)
    BY NextIndicesFacts
  <1>3. /\ lock' = [lock EXCEPT ![e][p] = @ - n] /\ lock[e][p] >= n
        /\ acquired' = [acquired EXCEPT ![e][p] = s \o t]
        /\ next' = [next EXCEPT ![e][p] = (@ + n) % Depth(e)]
    BY DEF Take
  <1> HIDE DEF s, t
  <1>4. /\ s \o t \in Seq(Nat) /\ Len(s \o t) = Len(s) + n
        /\ \A i \in 1 .. Len(s) : (s \o t)[i] = s[i]
        /\ \A i \in Len(s) + 1 .. Len(s) + n : (s \o t)[i] = t[i - Len(s)]
    <2>1. /\ s \o t \in Seq(Nat) /\ Len(s \o t) = Len(s) + Len(t)
          /\ \A i \in 1 .. Len(s) + Len(t) :
                (s \o t)[i] = IF i <= Len(s) THEN s[i] ELSE t[i - Len(s)]
      BY <1>1, <1>2, ConcatProperties
    <2>2. Len(s) \in Nat /\ Len(t) = n
      BY <1>1, <1>2
    <2> QED BY <2>1, <2>2
  <1>5. (next[e][p] + n) % Depth(e) \in Nat
    <2>1. next[e][p] + n \in Nat /\ Depth(e) \in Nat \ {0}
      BY <1>1
    <2>2. (next[e][p] + n) % Depth(e) \in 0 .. (Depth(e) - 1)
      BY <2>1, ModRange
    <2> QED BY <2>1, <2>2
  <1>6. EndTypes'
    <2>1. lock' \in [Ends -> [Ports -> Nat]]
      <3>1. lock[e][p] - n \in Nat
        BY <1>1, <1>3
      <3>2. lock' = [lock EXCEPT ![e][p] = lock[e][p] - n]
        BY <1>3
      <3> QED BY <3>1, <3>2, <1>1, TableUpdate DEF EndTypes
    <2>2. acquired' \in [Ends -> [Ports -> Seq(Nat)]]
      BY <1>1, <1>3, <1>4, TableUpdate DEF EndTypes
    <2>3. next' \in [Ends -> [Ports -> Nat]]
      <3>1. next' = [next EXCEPT ![e][p] = (next[e][p] + n) % Depth(e)]
        BY <1>3
      <3> QED BY <3>1, <1>1, <1>5, TableUpdate DEF EndTypes
    <2> QED BY <2>1, <2>2, <2>3, <1>1 DEF EndTypes
  <1>7. /\ acquired'[e][p] = s \o t /\ acquired'[e][Other(p)] = acquired[e][Other(p)]
        /\ lock'[e][p] = lock[e][p] - n /\ lock'[e][Other(p)] = lock[e][Other(p)]
        /\ next'[e][p] = (next[e][p] + n) % Depth(e)
        /\ next'[e][Other(p)] = next[e][Other(p)]
        /\ \A f \in Ends \ {e} : /\ lock'[f] = lock[f] /\ next'[f] = next[f]
                                 /\ acquired'[f] = acquired[f]
    BY <1>1, <1>3 DEF EndTypes
  <1>8. Held(e, p)' = Held(e, p) + n /\ Held(e, Other(p))' = Held(e, Other(p))
    BY <1>1, <1>4, <1>7 DEF Held
  <1>9. Indexed(e, p)'
    <2>1. next'[e][p] = (moved[e][p] + Held(e, p)') % Depth(e)
      <3>1. next[e][p] = (moved[e][p] + Held(e, p)) % Depth(e)
        BY <1>1 DEF EndInv, Indexed, Ports
      <3>2. (((moved[e][p] + Held(e, p)) % Depth(e)) + n) % Depth(e)
               = (moved[e][p] + Held(e, p) + n) % Depth(e)
        <4>1. moved[e][p] + Held(e, p) \in Nat /\ Depth(e) \in Nat \ {0}
          BY <1>1
        <4> QED BY <4>1, ModAdvance
      <3>3. moved[e][p] + Held(e, p) + n = moved[e][p] + Held(e, p)'
        BY <1>1, <1>8
      <3> QED BY <3>1, <3>2, <3>3, <1>7
    <2>2. ASSUME NEW i \in 1 .. Held(e, p)'
          PROVE  acquired'[e][p][i] = (moved[e][p] + (i - 1)) % Depth(e)
      <3>1. CASE i <= Len(s)
        <4>1. acquired'[e][p][i] = s[i] /\ i \in 1 .. Held(e, p)
          BY <3>1, <1>1, <1>4, <1>7
        <4> QED BY <4>1, <1>1 DEF EndInv, Indexed, Ports, s
      <3>2. CASE i > Len(s)
        <4>1. i - Len(s) \in 1 .. n /\ acquired'[e][p][i] = t[i - Len(s)]
          <5>1. i \in Len(s) + 1 .. Len(s) + n
            BY <3>2, <1>1, <1>8
          <5>2. i - Len(s) \in 1 .. n
            BY <5>1, <1>1
          <5>3. (s \o t)[i] = t[i - Len(s)]
            BY <5>1, <1>4
          <5> QED BY <5>2, <5>3, <1>7
        <4>2. moved[e][p] + Held(e, p) + ((i - Len(s)) - 1) = moved[e][p] + (i - 1)
          <5>1. moved[e][p] \in Nat /\ Len(s) \in Nat /\ i \in Nat
            BY <1>1, <1>8
          <5>2. moved[e][p] + Len(s) + ((i - Len(s)) - 1) = moved[e][p] + (i - 1)
            BY <5>1
          <5> QED BY <5>2, <1>1
        <4> QED BY <4>1, <4>2, <1>2
      <3> QED BY <3>1, <3>2, <1>1
    <2> QED BY <2>1, <2>2 DEF Indexed
  <1>10. Indexed(e, Other(p))'
    BY <1>1, <1>7, <1>8 DEF EndInv, Indexed, Ports, Other, Held
  <1>11. Conserved(e)' /\ InFlight(e)'
    <2>1. /\ Held(e, "Produce") \in Nat /\ lock[e]["Produce"] \in Nat
          /\ Held(e, "Consume") \in Nat /\ lock[e]["Consume"] \in Nat
          /\ moved[e]["Produce"] \in Nat /\ moved[e]["Consume"] \in Nat
      BY <1>1, PortTypes DEF Ports
    <2>2. /\ lock[e]["Produce"] + Held(e, "Produce")
               + lock[e]["Consume"] + Held(e, "Consume") = Depth(e)
          /\ moved[e]["Produce"] = moved[e]["Consume"] + Held(e, "Consume") + lock[e]["Consume"]
      BY <1>1 DEF EndInv, Conserved, InFlight
    <2>3. \/ /\ Held(e, "Produce")' = Held(e, "Produce") + n
             /\ Held(e, "Consume")' = Held(e, "Consume")
             /\ lock'[e]["Produce"] = lock[e]["Produce"] - n
             /\ lock'[e]["Consume"] = lock[e]["Consume"]
          \/ /\ Held(e, "Consume")' = Held(e, "Consume") + n
             /\ Held(e, "Produce")' = Held(e, "Produce")
             /\ lock'[e]["Consume"] = lock[e]["Consume"] - n
             /\ lock'[e]["Produce"] = lock[e]["Produce"]
      BY <1>7, <1>8 DEF Ports, Other
    <2>4. Depth(e)' = Depth(e)
      OBVIOUS
    <2> HIDE DEF Held
    <2> QED BY <2>1, <2>2, <2>3, <2>4 DEF Conserved, InFlight
  <1>12. EndInv(e)'
    BY <1>9, <1>10, <1>11 DEF EndInv, Ports, Other
  <1>13. \A f \in Ends \ {e} : EndInv(f)'
    BY <1>7, EndUntouched DEF DmaInv
  <1> QED BY <1>6, <1>12, <1>13 DEF DmaInv

(* Giving m units drops the oldest buffers of the subview.                 *)
LEMMA GiveInv ==
    ASSUME DmaInv, NEW e \in Ends, NEW p \in Ports, NEW m \in 1 .. Held(e, p),
           Give(e, p, m), next' = next, want' = want
    PROVE  DmaInv'
  <1> DEFINE s == acquired[e][p]
             rest == SubSeq(s, m + 1, Len(s))
  <1>1. /\ lock[e][p] \in Nat /\ next[e][p] \in Nat /\ moved[e][p] \in Nat
        /\ s \in Seq(Nat) /\ Len(s) \in Nat /\ Held(e, p) = Len(s)
        /\ lock[e][Other(p)] \in Nat
        /\ Other(p) \in Ports /\ Other(p) # p
        /\ EndTypes /\ EndInv(e) /\ Depth(e) \in Nat \ {0}
        /\ m \in Nat /\ m >= 1 /\ m <= Len(s)
    BY PortTypes, DepthType DEF DmaInv, Held
  <1>2. /\ lock' = [lock EXCEPT ![e][Other(p)] = @ + m]
        /\ acquired' = [acquired EXCEPT ![e][p] = rest]
        /\ moved' = [moved EXCEPT ![e][p] = @ + m]
    BY DEF Give
  <1>3. /\ rest \in Seq(Nat) /\ Len(rest) = Len(s) - m
        /\ \A i \in 1 .. Len(s) - m : rest[i] = s[i + m]
    <2>1. ASSUME NEW i \in (m + 1) .. Len(s) PROVE s[i] \in Nat
      <3>1. i \in 1 .. Len(s)
        BY <1>1
      <3> QED BY <3>1, <1>1, ElementOfSeq
    <2> HIDE DEF s
    <2>2. /\ SubSeq(s, m + 1, Len(s)) \in Seq(Nat)
          /\ Len(SubSeq(s, m + 1, Len(s)))
                = IF m + 1 <= Len(s) THEN Len(s) - (m + 1) + 1 ELSE 0
          /\ \A i \in 1 .. Len(s) - (m + 1) + 1 :
                SubSeq(s, m + 1, Len(s))[i] = s[(m + 1) + i - 1]
      BY <1>1, <2>1, SubSeqProperties
    <2>3. Len(rest) = Len(s) - m
      BY <1>1, <2>2
    <2>4. \A i \in 1 .. Len(s) - m : rest[i] = s[i + m]
      BY <1>1, <2>2
    <2> QED BY <2>2, <2>3, <2>4
  <1> HIDE DEF s, rest
  <1>4. EndTypes'
    <2>1. lock' \in [Ends -> [Ports -> Nat]]
      <3>1. lock[e][Other(p)] + m \in Nat
        BY <1>1
      <3>2. lock' = [lock EXCEPT ![e][Other(p)] = lock[e][Other(p)] + m]
        BY <1>2
      <3> QED BY <3>1, <3>2, <1>1, TableUpdate DEF EndTypes
    <2>2. acquired' \in [Ends -> [Ports -> Seq(Nat)]]
      BY <1>2, <1>3, <1>1, TableUpdate DEF EndTypes
    <2>3. moved' \in [Ends -> [Ports -> Nat]]
      <3>1. moved[e][p] + m \in Nat
        BY <1>1
      <3>2. moved' = [moved EXCEPT ![e][p] = moved[e][p] + m]
        BY <1>2
      <3> QED BY <3>1, <3>2, <1>1, TableUpdate DEF EndTypes
    <2> QED BY <2>1, <2>2, <2>3, <1>1 DEF EndTypes
  <1>5. /\ acquired'[e][p] = rest /\ acquired'[e][Other(p)] = acquired[e][Other(p)]
        /\ lock'[e][p] = lock[e][p] /\ lock'[e][Other(p)] = lock[e][Other(p)] + m
        /\ moved'[e][p] = moved[e][p] + m
        /\ moved'[e][Other(p)] = moved[e][Other(p)]
        /\ \A f \in Ends \ {e} : /\ lock'[f] = lock[f] /\ moved'[f] = moved[f]
                                 /\ acquired'[f] = acquired[f]
    BY <1>1, <1>2 DEF EndTypes
  <1>6. Held(e, p)' = Held(e, p) - m /\ Held(e, Other(p))' = Held(e, Other(p))
    BY <1>1, <1>3, <1>5 DEF Held
  <1>7. Indexed(e, p)'
    <2>1. next[e][p] = (moved'[e][p] + Held(e, p)') % Depth(e)
      <3>1. next[e][p] = (moved[e][p] + Held(e, p)) % Depth(e)
        BY <1>1 DEF EndInv, Indexed, Ports
      <3>2. moved[e][p] + Held(e, p) = moved'[e][p] + Held(e, p)'
        BY <1>1, <1>5, <1>6
      <3> QED BY <3>1, <3>2
    <2>2. ASSUME NEW i \in 1 .. Held(e, p)'
          PROVE  acquired'[e][p][i] = (moved'[e][p] + (i - 1)) % Depth(e)
      <3>1. i \in 1 .. Len(s) - m /\ i + m \in 1 .. Held(e, p) /\ i \in Nat
        <4>1. Held(e, p)' = Len(s) - m
          BY <1>1, <1>6
        <4>2. i \in 1 .. Len(s) - m
          BY <4>1
        <4>3. i \in Nat /\ i + m \in 1 .. Len(s)
          <5>1. Len(s) \in Nat /\ m \in Nat
            BY <1>1
          <5> QED BY <4>2, <5>1
        <4> QED BY <4>2, <4>3, <1>1
      <3>2. acquired'[e][p][i] = s[i + m]
        BY <3>1, <1>3, <1>5
      <3>3. s[i + m] = (moved[e][p] + ((i + m) - 1)) % Depth(e)
        BY <3>1, <1>1 DEF EndInv, Indexed, Ports, s
      <3>4. moved[e][p] + ((i + m) - 1) = moved'[e][p] + (i - 1)
        <4>1. /\ moved'[e][p] = moved[e][p] + m /\ moved[e][p] \in Nat
              /\ m \in Nat /\ i \in Nat
          BY <3>1, <1>1, <1>5
        <4> QED BY <4>1
      <3> QED BY <3>2, <3>3, <3>4
    <2> QED BY <2>1, <2>2 DEF Indexed
  <1>8. Indexed(e, Other(p))'
    BY <1>1, <1>5, <1>6 DEF EndInv, Indexed, Ports, Other, Held
  <1>9. Conserved(e)' /\ InFlight(e)'
    <2>1. /\ Held(e, "Produce") \in Nat /\ lock[e]["Produce"] \in Nat
          /\ Held(e, "Consume") \in Nat /\ lock[e]["Consume"] \in Nat
          /\ moved[e]["Produce"] \in Nat /\ moved[e]["Consume"] \in Nat
      BY <1>1, PortTypes DEF Ports
    <2>2. /\ lock[e]["Produce"] + Held(e, "Produce")
               + lock[e]["Consume"] + Held(e, "Consume") = Depth(e)
          /\ moved[e]["Produce"] = moved[e]["Consume"] + Held(e, "Consume") + lock[e]["Consume"]
      BY <1>1 DEF EndInv, Conserved, InFlight
    <2>3. \/ /\ Held(e, "Produce")' = Held(e, "Produce") - m
             /\ Held(e, "Consume")' = Held(e, "Consume")
             /\ lock'[e]["Consume"] = lock[e]["Consume"] + m
             /\ lock'[e]["Produce"] = lock[e]["Produce"]
             /\ moved'[e]["Produce"] = moved[e]["Produce"] + m
             /\ moved'[e]["Consume"] = moved[e]["Consume"]
          \/ /\ Held(e, "Consume")' = Held(e, "Consume") - m
             /\ Held(e, "Produce")' = Held(e, "Produce")
             /\ lock'[e]["Produce"] = lock[e]["Produce"] + m
             /\ lock'[e]["Consume"] = lock[e]["Consume"]
             /\ moved'[e]["Consume"] = moved[e]["Consume"] + m
             /\ moved'[e]["Produce"] = moved[e]["Produce"]
      BY <1>5, <1>6 DEF Ports, Other
    <2> HIDE DEF Held
    <2>4. m \in Nat
      BY <1>1
    <2> QED BY <2>1, <2>2, <2>3, <2>4 DEF Conserved, InFlight
  <1>10. EndInv(e)'
    BY <1>7, <1>8, <1>9 DEF EndInv, Ports, Other
  <1>11. \A f \in Ends \ {e} : EndInv(f)'
    BY <1>5, EndUntouched DEF DmaInv
  <1> QED BY <1>4, <1>10, <1>11 DEF DmaInv
-----------------------------------------------------------------------------
LEMMA DmaInitInv == Init => DmaInv
  <1> SUFFICES ASSUME Init PROVE DmaInv
    OBVIOUS
  <1>1. ASSUME NEW e \in Ends PROVE Depth(e) \in Nat \ {0} /\ 0 % Depth(e) = 0
    BY DepthType, ModUnique
  <1>2. EndTypes
    <2>1. \A e \in Ends : InitLock(e) \in [Ports -> Nat]
      BY <1>1 DEF InitLock
    <2>2. lock \in [Ends -> [Ports -> Nat]]
      BY <2>1 DEF Init
    <2> QED BY <2>2 DEF Init, EndTypes
  <1>3. ASSUME NEW e \in Ends PROVE EndInv(e)
    <2>1. /\ lock[e]["Produce"] = Depth(e) /\ lock[e]["Consume"] = 0
          /\ \A p \in Ports : /\ next[e][p] = 0 /\ moved[e][p] = 0
                             /\ acquired[e][p] = <<>> /\ Held(e, p) = 0
      BY DEF Init, InitLock, Ports, Held
    <2>2. Conserved(e) /\ InFlight(e)
      BY <2>1, <1>1 DEF Conserved, InFlight, Ports
    <2>3. \A p \in Ports : Indexed(e, p)
      BY <2>1, <1>1 DEF Indexed
    <2> QED BY <2>2, <2>3 DEF EndInv, Ports
  <1> QED BY <1>2, <1>3 DEF DmaInv

LEMMA DmaNextInv == DmaInv /\ [Next]_vars => DmaInv'
  <1> SUFFICES ASSUME DmaInv, [Next]_vars PROVE DmaInv'
    OBVIOUS
  <1>0. \A e \in Ends : CorePort(e) \in Ports /\ DmaPort(e) \in Ports /\ MaxAcquire[e] \in Nat
    BY DmaAssumption DEF CorePort, DmaPort, Ports, Other
  <1>1. ASSUME UNCHANGED <<lock, next, acquired, moved>>, want' \in [Ends -> Nat]
        PROVE  DmaInv'
    BY <1>1 DEF DmaInv, EndTypes, EndInv, Conserved, InFlight, Indexed, Held
  <1>2. ASSUME NEW e \in Ends, NEW n \in 1 .. MaxAcquire[e], CoreAcquire(e, n)
        PROVE  DmaInv'
    <2>1. n - Len(acquired[e][CorePort(e)]) \in Nat
      BY <1>2, <1>0, PortTypes DEF CoreAcquire, DmaInv, Held
    <2>2. want' \in [Ends -> Nat]
      BY <1>2, <2>1 DEF CoreAcquire, DmaInv, EndTypes
    <2> QED BY <1>1, <1>2, <2>2 DEF CoreAcquire
  <1>3. ASSUME NEW i, CoreWrites(i) PROVE DmaInv'
    BY <1>1, <1>3 DEF CoreWrites, DmaInv, EndTypes
  <1>4. ASSUME NEW e \in Ends, NEW m, CoreRelease(e, m) PROVE DmaInv'
    BY <1>0, <1>4, GiveInv DEF CoreRelease, Held
  <1>5. ASSUME NEW e \in Ends, CoreTakesLocks(e) PROVE DmaInv'
    <2>1. want[e] \in Nat /\ want' \in [Ends -> Nat] /\ moved' = moved
          /\ Take(e, CorePort(e), want[e])
      BY <1>5 DEF CoreTakesLocks, DmaInv, EndTypes
    <2> QED BY <2>1, <1>0, TakeInv
  <1>6. ASSUME NEW e \in Ends, BdAcquire(e) PROVE DmaInv'
    <2>1. want' \in [Ends -> Nat] /\ moved' = moved /\ Take(e, DmaPort(e), 1)
      BY <1>6 DEF BdAcquire, DmaInv, EndTypes
    <2> QED BY <2>1, <1>0, TakeInv
  <1>7. ASSUME NEW e \in Ends, NEW p \in Ports, acquired[e][p] # <<>>
        PROVE  1 \in 1 .. Held(e, p)
    <2>1. acquired[e][p] \in Seq(Nat)
      BY PortTypes DEF DmaInv
    <2> QED BY <2>1, <1>7 DEF Held
  <1>8. CASE Mm2sSends
    <2>1. Prod \in Ends /\ "Consume" \in Ports
      BY DEF Ends, Ports
    <2> QED BY <1>8, <2>1, <1>7, GiveInv DEF Mm2sSends
  <1>9. ASSUME NEW c \in Consumers, S2mmStores(c) PROVE DmaInv'
    <2>1. c \in Ends /\ "Produce" \in Ports
      BY DEF Ends, Ports
    <2> QED BY <1>9, <2>1, <1>7, GiveInv DEF S2mmStores
  <1>10. CASE UNCHANGED vars
    BY <1>1, <1>10 DEF vars, DmaInv, EndTypes
  <1> QED BY <1>2, <1>3, <1>4, <1>5, <1>6, <1>8, <1>9, <1>10
          DEF Next, CoreStep, DmaStep, Terminating

(* The subviews of an end are less than a turn of its ring apart.          *)
LEMMA DmaInvMutualExclusion == DmaInv => MutualExclusion
  <1> SUFFICES ASSUME DmaInv, NEW e \in Ends,
                      NEW i \in 1 .. Held(e, "Produce"), NEW j \in 1 .. Held(e, "Consume")
               PROVE  acquired[e]["Produce"][i] # acquired[e]["Consume"][j]
    BY DEF MutualExclusion, Held
  <1> DEFINE a == moved[e]["Produce"] + (i - 1)
             b == moved[e]["Consume"] + (j - 1)
  <1>1. /\ Held(e, "Produce") \in Nat /\ lock[e]["Produce"] \in Nat
        /\ Held(e, "Consume") \in Nat /\ lock[e]["Consume"] \in Nat
        /\ moved[e]["Produce"] \in Nat /\ moved[e]["Consume"] \in Nat
        /\ Depth(e) \in Nat \ {0}
    BY PortTypes, DepthType DEF DmaInv, Ports
  <1>2. /\ lock[e]["Produce"] + Held(e, "Produce")
             + lock[e]["Consume"] + Held(e, "Consume") = Depth(e)
        /\ moved[e]["Produce"] = moved[e]["Consume"] + Held(e, "Consume") + lock[e]["Consume"]
    BY DEF DmaInv, EndInv, Conserved, InFlight
  <1>3. /\ acquired[e]["Produce"][i] = a % Depth(e)
        /\ acquired[e]["Consume"][j] = b % Depth(e)
    BY DEF DmaInv, EndInv, Indexed
  <1>4. a \in Nat /\ b \in Nat /\ b < a /\ a - b < Depth(e)
    <2> HIDE DEF Held
    <2> QED BY <1>1, <1>2
  <1> HIDE DEF a, b
  <1>5. b % Depth(e) # a % Depth(e)
    BY <1>1, <1>4, ModDistinct
  <1> QED BY <1>3, <1>5

(* The invariant holds at every step, with any number of consumers.        *)
THEOREM DmaInvariant == Spec => []DmaInv
  <1>1. Init => DmaInv
    BY DmaInitInv
  <1>2. DmaInv /\ [Next]_vars => DmaInv'
    BY DmaNextInv
  <1> QED BY <1>1, <1>2, PTL DEF Spec

(* The core and the DMA channel of an end are never given the same buffer  *)
(* by createUseLocks and createBdBlock, whatever the depth, the number of  *)
(* consumers of a broadcast and the sizes of the acquires and releases.    *)
THEOREM DmaMutualExclusion == Spec => []MutualExclusion
  BY DmaInvariant, DmaInvMutualExclusion, PTL

-----------------------------------------------------------------------------
(* What travels: the objects in the buffers of the ends and in the stream. *)

(* The content of buffers and streams, and descriptors of one buffer.      *)
DataTypes == /\ buff = [e \in Ends |-> buff[e]]
             /\ \A e \in Ends : buff[e] \in [Buffers(e) -> 0 .. Objects]
             /\ stream \in [Consumers -> Seq(1 .. Objects)]

(* A buffer keeps its object from its release by the port that fills it to *)
(* its release by the port that reads it.                                  *)
Contents(e) == \A k \in moved[e]["Consume"] .. (moved[e]["Produce"] - 1) :
                  buff[e][k % Depth(e)] = k + 1

(* The stream holds what left the producer tile and has not arrived.       *)
StreamFollows(c) ==
    /\ Len(stream[c]) <= StreamDepth
    /\ moved[Prod]["Consume"] = moved[c]["Produce"] + Len(stream[c])
    /\ \A i \in 1 .. Len(stream[c]) : stream[c][i] = moved[c]["Produce"] + i

(* A core asks for no more than its program, a descriptor has one buffer.  *)
RequestBound(e) ==
    /\ moved[e][CorePort(e)] + Held(e, CorePort(e)) + want[e] <= Objects
    /\ want[e] <= MaxAcquire[e]
    /\ Held(e, DmaPort(e)) <= 1

FlowInv == /\ DmaInv /\ DataTypes
           /\ \A e \in Ends : Contents(e) /\ RequestBound(e)
           /\ \A c \in Consumers : StreamFollows(c)

-----------------------------------------------------------------------------
(* The ends and their ports.                                               *)
LEMMA EndFacts ==
    /\ Prod \in Ends /\ Prod \notin Consumers
    /\ \A e \in Ends : e = Prod \/ e \in Consumers
    /\ \A c \in Consumers : c \in Ends /\ c # Prod
    /\ CorePort(Prod) = "Produce" /\ DmaPort(Prod) = "Consume"
    /\ \A c \in Consumers : CorePort(c) = "Consume" /\ DmaPort(c) = "Produce"
    /\ \A e \in Ends : CorePort(e) \in Ports /\ DmaPort(e) \in Ports /\ CorePort(e) # DmaPort(e)
    /\ Ports = {"Produce", "Consume"} /\ "Produce" \in Ports /\ "Consume" \in Ports
    /\ Objects \in Nat /\ StreamDepth \in Nat \ {0} /\ MaxAcquire \in [Ends -> Nat]
  BY DmaAssumption DEF Ends, CorePort, DmaPort, Other, Ports

(* The two windows of an end lie within one turn of its ring.              *)
LEMMA EndWindow ==
    ASSUME DmaInv, NEW e \in Ends
    PROVE  /\ moved[e]["Produce"] \in Nat /\ moved[e]["Consume"] \in Nat
           /\ lock[e]["Produce"] \in Nat /\ lock[e]["Consume"] \in Nat
           /\ Held(e, "Produce") \in Nat /\ Held(e, "Consume") \in Nat
           /\ Depth(e) \in Nat \ {0}
           /\ lock[e]["Produce"] <= Depth(e) /\ lock[e]["Consume"] <= Depth(e)
           /\ moved[e]["Consume"] + Held(e, "Consume") <= moved[e]["Produce"]
           /\ moved[e]["Produce"] + Held(e, "Produce") <= moved[e]["Consume"] + Depth(e)
  <1>1. /\ moved[e]["Produce"] \in Nat /\ moved[e]["Consume"] \in Nat
        /\ lock[e]["Produce"] \in Nat /\ lock[e]["Consume"] \in Nat
        /\ Held(e, "Produce") \in Nat /\ Held(e, "Consume") \in Nat
        /\ Depth(e) \in Nat \ {0}
    BY PortTypes, DepthType, EndFacts DEF DmaInv
  <1>2. /\ lock[e]["Produce"] + Held(e, "Produce")
             + lock[e]["Consume"] + Held(e, "Consume") = Depth(e)
        /\ moved[e]["Produce"] = moved[e]["Consume"] + Held(e, "Consume") + lock[e]["Consume"]
    BY DEF DmaInv, EndInv, Conserved, InFlight
  <1> QED BY <1>1, <1>2

(* The i-th buffer of a subview.                                           *)
LEMMA BufferHeld ==
    ASSUME DmaInv, NEW e \in Ends, NEW p \in Ports, NEW i \in 1 .. Held(e, p)
    PROVE  /\ acquired[e][p][i] = (moved[e][p] + (i - 1)) % Depth(e)
           /\ acquired[e][p][i] \in Buffers(e)
  <1>1. acquired[e][p][i] = (moved[e][p] + (i - 1)) % Depth(e)
    BY EndFacts DEF DmaInv, EndInv, Indexed
  <1>2. moved[e][p] + (i - 1) \in Nat /\ Depth(e) \in Nat \ {0}
    BY PortTypes, DepthType DEF DmaInv
  <1> QED BY <1>1, <1>2, ModRange DEF Buffers

(* A buffer that the filling port holds contains no object in flight, and  *)
(* each buffer that it holds is another one.                               *)
LEMMA HeldIsFree ==
    ASSUME DmaInv, NEW e \in Ends, NEW i \in 1 .. Held(e, "Produce"),
           NEW k \in moved[e]["Consume"] .. (moved[e]["Produce"] + (i - 2))
    PROVE  k % Depth(e) # acquired[e]["Produce"][i]
  <1> DEFINE n == moved[e]["Produce"] + (i - 1)
  <1>1. /\ moved[e]["Produce"] \in Nat /\ moved[e]["Consume"] \in Nat
        /\ Held(e, "Produce") \in Nat /\ Depth(e) \in Nat \ {0}
        /\ moved[e]["Produce"] + Held(e, "Produce") <= moved[e]["Consume"] + Depth(e)
    BY EndWindow
  <1>2. k \in Nat /\ n \in Nat /\ k < n /\ n - k < Depth(e)
    BY <1>1
  <1>3. acquired[e]["Produce"][i] = n % Depth(e)
    BY BufferHeld, EndFacts
  <1> HIDE DEF n
  <1> QED BY <1>1, <1>2, <1>3, ModDistinct

(* What taking n units changes.                                            *)
LEMMA TakeEffect ==
    ASSUME DmaInv, NEW e \in Ends, NEW p \in Ports, NEW n \in Nat, Take(e, p, n)
    PROVE  /\ Held(e, p)' = Held(e, p) + n
           /\ \A f \in Ends, q \in Ports : (f # e \/ q # p) => acquired'[f][q] = acquired[f][q]
  <1> DEFINE s == acquired[e][p]
             t == NextIndices(e, p, n)
  <1>1. s \in Seq(Nat) /\ t \in Seq(Nat) /\ Len(t) = n /\ EndTypes
    BY PortTypes, NextIndicesFacts DEF DmaInv
  <1>2. acquired' = [acquired EXCEPT ![e][p] = s \o t]
    BY DEF Take
  <1> HIDE DEF s, t
  <1>3. Len(s \o t) = Len(s) + Len(t)
    BY <1>1, ConcatProperties
  <1>4. /\ acquired'[e][p] = s \o t
        /\ \A f \in Ends, q \in Ports : (f # e \/ q # p) => acquired'[f][q] = acquired[f][q]
    BY <1>1, <1>2 DEF EndTypes
  <1> QED BY <1>1, <1>3, <1>4 DEF Held, s

(* What giving m units changes.                                            *)
LEMMA GiveEffect ==
    ASSUME DmaInv, NEW e \in Ends, NEW p \in Ports, NEW m \in 1 .. Held(e, p), Give(e, p, m)
    PROVE  /\ Held(e, p)' = Held(e, p) - m
           /\ moved'[e][p] = moved[e][p] + m
           /\ \A f \in Ends, q \in Ports : (f # e \/ q # p) =>
                 acquired'[f][q] = acquired[f][q] /\ moved'[f][q] = moved[f][q]
  <1> DEFINE s == acquired[e][p]
             rest == SubSeq(s, m + 1, Len(s))
  <1>1. s \in Seq(Nat) /\ Len(s) \in Nat /\ m \in Nat /\ m <= Len(s) /\ EndTypes
    BY PortTypes DEF DmaInv, Held
  <1>2. /\ acquired' = [acquired EXCEPT ![e][p] = rest]
        /\ moved' = [moved EXCEPT ![e][p] = moved[e][p] + m]
    BY DEF Give
  <1>3. Len(rest) = Len(s) - m
    <2>1. ASSUME NEW i \in (m + 1) .. Len(s) PROVE s[i] \in Nat
      <3>1. i \in 1 .. Len(s)
        BY <1>1
      <3> QED BY <3>1, <1>1, ElementOfSeq
    <2> HIDE DEF s
    <2>2. Len(SubSeq(s, m + 1, Len(s))) = IF m + 1 <= Len(s) THEN Len(s) - (m + 1) + 1 ELSE 0
      BY <1>1, <2>1, SubSeqProperties
    <2> QED BY <1>1, <2>2
  <1> HIDE DEF s, rest
  <1>4. /\ acquired'[e][p] = rest /\ moved'[e][p] = moved[e][p] + m
        /\ \A f \in Ends, q \in Ports : (f # e \/ q # p) =>
              acquired'[f][q] = acquired[f][q] /\ moved'[f][q] = moved[f][q]
    BY <1>1, <1>2 DEF EndTypes
  <1> QED BY <1>3, <1>4 DEF Held, s

(* What a step leaves alone keeps its part of the invariant.               *)
LEMMA ContentsKept ==
    ASSUME NEW e \in Ends, Contents(e), buff'[e] = buff[e],
           \A q \in Ports : moved'[e][q] = moved[e][q]
    PROVE  Contents(e)'
  BY EndFacts DEF Contents

LEMMA RequestKept ==
    ASSUME NEW e \in Ends, RequestBound(e), want'[e] = want[e],
           \A q \in Ports : acquired'[e][q] = acquired[e][q] /\ moved'[e][q] = moved[e][q]
    PROVE  RequestBound(e)'
  BY EndFacts DEF RequestBound, Held, CorePort, DmaPort

LEMMA StreamKept ==
    ASSUME NEW c \in Consumers, StreamFollows(c), stream'[c] = stream[c],
           moved'[Prod]["Consume"] = moved[Prod]["Consume"],
           moved'[c]["Produce"] = moved[c]["Produce"]
    PROVE  StreamFollows(c)'
  BY DEF StreamFollows

LEMMA FlowInit == Init => FlowInv
  <1> SUFFICES ASSUME Init PROVE FlowInv
    OBVIOUS
  <1>1. \A e \in Ends, p \in Ports : moved[e][p] = 0 /\ Held(e, p) = 0
    BY DEF Init, Held
  <1>2. DataTypes
    BY EndFacts DEF Init, DataTypes
  <1>3. ASSUME NEW e \in Ends PROVE Contents(e) /\ RequestBound(e)
    <2>1. moved[e]["Consume"] = 0 /\ moved[e]["Produce"] = 0
      BY <1>1, EndFacts
    <2>2. Contents(e)
      BY <2>1 DEF Contents
    <2>3. want[e] = 0 /\ MaxAcquire[e] \in Nat
      BY EndFacts DEF Init
    <2> QED BY <1>1, <2>2, <2>3, EndFacts DEF RequestBound
  <1>4. ASSUME NEW c \in Consumers PROVE StreamFollows(c)
    <2>1. stream[c] = <<>> /\ Len(stream[c]) = 0
      BY DEF Init
    <2> QED BY <1>1, <2>1, EndFacts DEF StreamFollows
  <1> QED BY DmaInitInv, <1>2, <1>3, <1>4 DEF FlowInv

LEMMA FlowCoreAcquire ==
    ASSUME FlowInv, NEW e \in Ends, NEW n \in 1 .. MaxAcquire[e], CoreAcquire(e, n), DmaInv'
    PROVE  FlowInv'
  <1> DEFINE p == CorePort(e)
  <1>1. /\ p \in Ports /\ moved[e][p] \in Nat /\ Held(e, p) \in Nat /\ MaxAcquire[e] \in Nat
        /\ DmaPort(e) \in Ports /\ Held(e, DmaPort(e)) \in Nat /\ Objects \in Nat
    BY EndFacts, PortTypes DEF FlowInv, DmaInv
  <1>2. /\ n > Held(e, p) /\ moved[e][p] + n <= Objects
        /\ want' = [want EXCEPT ![e] = n - Held(e, p)]
        /\ UNCHANGED <<lock, next, acquired, buff, stream, moved>>
    BY DEF CoreAcquire, Held
  <1>3. want'[e] = n - Held(e, p) /\ \A f \in Ends \ {e} : want'[f] = want[f]
    BY <1>2 DEF FlowInv, DmaInv, EndTypes
  <1>4. RequestBound(e)'
    <2>1. moved[e][p] + Held(e, p) + (n - Held(e, p)) <= Objects /\ n - Held(e, p) <= MaxAcquire[e]
      BY <1>1, <1>2
    <2>2. Held(e, p)' = Held(e, p) /\ Held(e, DmaPort(e))' = Held(e, DmaPort(e))
      BY <1>2 DEF Held
    <2> QED BY <2>1, <2>2, <1>2, <1>3 DEF RequestBound, FlowInv, CorePort, DmaPort
  <1>5. \A f \in Ends \ {e} : RequestBound(f)'
    BY <1>2, <1>3, RequestKept DEF FlowInv
  <1>6. DataTypes' /\ (\A f \in Ends : Contents(f)') /\ \A c \in Consumers : StreamFollows(c)'
    BY <1>2 DEF FlowInv, DataTypes, Contents, StreamFollows
  <1> QED BY <1>4, <1>5, <1>6 DEF FlowInv

LEMMA FlowCoreTakesLocks ==
    ASSUME FlowInv, NEW e \in Ends, CoreTakesLocks(e), DmaInv'
    PROVE  FlowInv'
  <1> DEFINE p == CorePort(e)
  <1>1. /\ p \in Ports /\ moved[e][p] \in Nat /\ Held(e, p) \in Nat /\ MaxAcquire[e] \in Nat
        /\ want[e] \in Nat /\ DmaInv /\ Objects \in Nat
        /\ DmaPort(e) \in Ports /\ DmaPort(e) # p
    BY EndFacts, PortTypes DEF FlowInv, DmaInv, EndTypes
  <1>2. /\ Take(e, p, want[e]) /\ want' = [want EXCEPT ![e] = 0]
        /\ UNCHANGED <<buff, stream, moved>>
    BY DEF CoreTakesLocks
  <1>3. want'[e] = 0 /\ \A f \in Ends \ {e} : want'[f] = want[f]
    BY <1>2 DEF FlowInv, DmaInv, EndTypes
  <1>4. /\ Held(e, p)' = Held(e, p) + want[e]
        /\ \A f \in Ends, q \in Ports : (f # e \/ q # p) => acquired'[f][q] = acquired[f][q]
    BY <1>1, <1>2, TakeEffect
  <1>5. RequestBound(e)'
    <2>1. Held(e, DmaPort(e))' = Held(e, DmaPort(e))
      BY <1>1, <1>4 DEF Held
    <2>2. moved[e][p] + Held(e, p) + want[e] <= Objects /\ Held(e, DmaPort(e)) <= 1
      BY DEF FlowInv, RequestBound
    <2>3. moved[e][p] + (Held(e, p) + want[e]) + 0 <= Objects
      BY <2>2, <1>1
    <2> QED BY <2>1, <2>2, <2>3, <1>1, <1>2, <1>3, <1>4 DEF RequestBound, CorePort, DmaPort
  <1>6. \A f \in Ends \ {e} : RequestBound(f)'
    BY <1>2, <1>3, <1>4, RequestKept DEF FlowInv
  <1>7. DataTypes' /\ (\A f \in Ends : Contents(f)') /\ \A c \in Consumers : StreamFollows(c)'
    BY <1>2 DEF FlowInv, DataTypes, Contents, StreamFollows
  <1> QED BY <1>5, <1>6, <1>7 DEF FlowInv

LEMMA FlowBdAcquire ==
    ASSUME FlowInv, NEW e \in Ends, BdAcquire(e), DmaInv'
    PROVE  FlowInv'
  <1> DEFINE p == DmaPort(e)
  <1>1. p \in Ports /\ Held(e, p) = 0 /\ DmaInv /\ CorePort(e) \in Ports /\ CorePort(e) # p
    BY EndFacts DEF FlowInv, BdAcquire, Held
  <1>2. Take(e, p, 1) /\ UNCHANGED <<want, buff, stream, moved>>
    BY DEF BdAcquire
  <1>3. /\ Held(e, p)' = Held(e, p) + 1
        /\ \A f \in Ends, q \in Ports : (f # e \/ q # p) => acquired'[f][q] = acquired[f][q]
    BY <1>1, <1>2, TakeEffect
  <1>4. RequestBound(e)'
    <2>1. Held(e, CorePort(e))' = Held(e, CorePort(e))
      BY <1>1, <1>3 DEF Held
    <2> QED BY <2>1, <1>1, <1>2, <1>3 DEF FlowInv, RequestBound, CorePort, DmaPort
  <1>5. \A f \in Ends \ {e} : RequestBound(f)'
    BY <1>2, <1>3, RequestKept DEF FlowInv
  <1>6. DataTypes' /\ (\A f \in Ends : Contents(f)') /\ \A c \in Consumers : StreamFollows(c)'
    BY <1>2 DEF FlowInv, DataTypes, Contents, StreamFollows
  <1> QED BY <1>4, <1>5, <1>6 DEF FlowInv

LEMMA FlowCoreWrites ==
    ASSUME FlowInv, NEW i, CoreWrites(i), DmaInv'
    PROVE  FlowInv'
  <1> DEFINE b == acquired[Prod]["Produce"][i]
             obj == moved[Prod]["Produce"] + i
  <1>1. /\ i \in 1 .. Held(Prod, "Produce") /\ want[Prod] = 0
        /\ buff' = [buff EXCEPT ![Prod][b] = obj]
        /\ UNCHANGED <<lock, next, acquired, want, stream, moved>>
    BY DEF CoreWrites, Held
  <1>2. /\ DmaInv /\ moved[Prod]["Produce"] \in Nat /\ moved[Prod]["Consume"] \in Nat
        /\ Held(Prod, "Produce") \in Nat /\ Objects \in Nat
    BY EndFacts, EndWindow DEF FlowInv
  <1>3. obj \in 0 .. Objects
    <2>1. moved[Prod]["Produce"] + Held(Prod, "Produce") + 0 <= Objects
      BY <1>1, EndFacts DEF FlowInv, RequestBound
    <2> QED BY <2>1, <1>1, <1>2
  <1>4. b \in Buffers(Prod)
    BY <1>1, <1>2, BufferHeld, EndFacts
  <1>d. /\ buff = [e \in Ends |-> buff[e]]
        /\ \A e \in Ends : buff[e] \in [Buffers(e) -> 0 .. Objects]
        /\ stream \in [Consumers -> Seq(1 .. Objects)]
    BY DEF FlowInv, DataTypes
  <1> HIDE DEF b, obj
  <1>5. /\ buff'[Prod] = [buff[Prod] EXCEPT ![b] = obj]
        /\ \A e \in Ends \ {Prod} : buff'[e] = buff[e]
        /\ buff' = [e \in Ends |-> buff'[e]]
    BY <1>1, <1>d, EndFacts
  <1>6. DataTypes'
    <2>1. buff'[Prod] \in [Buffers(Prod) -> 0 .. Objects]
      BY <1>3, <1>4, <1>5, <1>d, EndFacts
    <2>2. \A e \in Ends : buff'[e] \in [Buffers(e) -> 0 .. Objects]
      BY <2>1, <1>5, <1>d
    <2> QED BY <2>2, <1>1, <1>5, <1>d DEF DataTypes
  <1>7. Contents(Prod)'
    <2> SUFFICES ASSUME NEW k \in moved[Prod]["Consume"] .. (moved[Prod]["Produce"] - 1)
                 PROVE  buff'[Prod][k % Depth(Prod)] = k + 1
      BY <1>1 DEF Contents
    <2>1. k \in moved[Prod]["Consume"] .. (moved[Prod]["Produce"] + (i - 2))
      BY <1>1, <1>2
    <2>2. k % Depth(Prod) # b
      BY <2>1, <1>1, <1>2, HeldIsFree, EndFacts DEF b
    <2>3. k % Depth(Prod) \in Buffers(Prod)
      BY <1>2, DepthType, EndFacts, ModRange DEF Buffers
    <2>4. buff[Prod][k % Depth(Prod)] = k + 1
      BY EndFacts DEF FlowInv, Contents
    <2> QED BY <2>2, <2>3, <2>4, <1>5, <1>d, EndFacts
  <1>8. \A e \in Ends \ {Prod} : Contents(e)'
    BY <1>1, <1>5, ContentsKept DEF FlowInv
  <1>9. (\A e \in Ends : RequestBound(e)') /\ \A c \in Consumers : StreamFollows(c)'
    BY <1>1, RequestKept, StreamKept DEF FlowInv
  <1> QED BY <1>6, <1>7, <1>8, <1>9 DEF FlowInv

LEMMA FlowCoreRelease ==
    ASSUME FlowInv, NEW e \in Ends, NEW m, CoreRelease(e, m), DmaInv'
    PROVE  FlowInv'
  <1> DEFINE p == CorePort(e)
  <1>1. /\ want[e] = 0 /\ m \in 1 .. Held(e, p) /\ Give(e, p, m)
        /\ e = Prod => \A i \in 1 .. m : buff[e][acquired[e][p][i]] = moved[e][p] + i
        /\ UNCHANGED <<next, want, buff, stream>>
    BY DEF CoreRelease, Held
  <1>2. /\ DmaInv /\ p \in Ports /\ DmaPort(e) \in Ports /\ DmaPort(e) # p
        /\ moved[e][p] \in Nat /\ Held(e, p) \in Nat /\ Objects \in Nat
    BY EndFacts, PortTypes DEF FlowInv, DmaInv
  <1>3. /\ Held(e, p)' = Held(e, p) - m /\ moved'[e][p] = moved[e][p] + m
        /\ \A f \in Ends, q \in Ports : (f # e \/ q # p) =>
              acquired'[f][q] = acquired[f][q] /\ moved'[f][q] = moved[f][q]
    BY <1>1, <1>2, GiveEffect
  <1>4. RequestBound(e)'
    <2>1. /\ moved[e][p] + Held(e, p) + 0 <= Objects /\ Held(e, DmaPort(e)) <= 1
          /\ want[e] <= MaxAcquire[e]
      BY <1>1 DEF FlowInv, RequestBound
    <2>2. (moved[e][p] + m) + (Held(e, p) - m) + 0 <= Objects
      BY <2>1, <1>1, <1>2
    <2>3. Held(e, DmaPort(e))' = Held(e, DmaPort(e))
      BY <1>2, <1>3 DEF Held
    <2> QED BY <2>1, <2>2, <2>3, <1>1, <1>3 DEF RequestBound, CorePort, DmaPort
  <1>5. \A f \in Ends \ {e} : RequestBound(f)'
    BY <1>1, <1>3, RequestKept DEF FlowInv
  <1>6. \A f \in Ends \ {e} : Contents(f)'
    BY <1>1, <1>3, ContentsKept DEF FlowInv
  <1>7. Contents(e)'
    <2> SUFFICES ASSUME NEW k \in moved'[e]["Consume"] .. (moved'[e]["Produce"] - 1)
                 PROVE  buff[e][k % Depth(e)] = k + 1
      BY <1>1 DEF Contents
    <2>0. moved[e]["Produce"] \in Nat /\ moved[e]["Consume"] \in Nat /\ m \in Nat
      BY <1>1, <1>2, EndWindow
    <2>1. CASE k \in moved[e]["Consume"] .. (moved[e]["Produce"] - 1)
      BY <2>1 DEF FlowInv, Contents
    <2>2. CASE k \notin moved[e]["Consume"] .. (moved[e]["Produce"] - 1)
      <3>1. e = Prod
        <4> SUFFICES ASSUME e # Prod PROVE FALSE
          OBVIOUS
        <4>1. p = "Consume"
          BY EndFacts
        <4>2. moved'[e]["Produce"] = moved[e]["Produce"] /\ moved'[e]["Consume"] = moved[e]["Consume"] + m
          BY <4>1, <1>3, EndFacts
        <4> QED BY <4>2, <2>0, <2>2
      <3>2. p = "Produce"
        BY <3>1, EndFacts
      <3>3. moved'[e]["Consume"] = moved[e]["Consume"] /\ moved'[e]["Produce"] = moved[e]["Produce"] + m
        BY <3>2, <1>3, EndFacts
      <3> DEFINE i == (k - moved[e]["Produce"]) + 1
      <3>4. /\ i \in 1 .. m /\ i \in 1 .. Held(e, p) /\ moved[e]["Produce"] + (i - 1) = k
            /\ moved[e]["Produce"] + i = k + 1
        <4>1. k >= moved[e]["Produce"] /\ k < moved[e]["Produce"] + m /\ k \in Int
          BY <2>0, <2>2, <3>3
        <4>2. m <= Held(e, p)
          BY <1>1, <1>2
        <4> QED BY <4>1, <4>2, <2>0, <1>2
      <3> HIDE DEF i
      <3>5. acquired[e][p][i] = k % Depth(e)
        BY <3>2, <3>4, <1>2, BufferHeld
      <3>6. buff[e][acquired[e][p][i]] = moved[e][p] + i
        BY <3>1, <3>4, <1>1
      <3> QED BY <3>2, <3>4, <3>5, <3>6
    <2> QED BY <2>1, <2>2
  <1>8. ASSUME NEW c \in Consumers PROVE StreamFollows(c)'
    <2>1. moved'[Prod]["Consume"] = moved[Prod]["Consume"] /\ moved'[c]["Produce"] = moved[c]["Produce"]
      <3>1. e = Prod => p = "Produce"
        BY EndFacts
      <3>2. e \in Consumers => p = "Consume"
        BY EndFacts
      <3> QED BY <3>1, <3>2, <1>3, EndFacts
    <2> QED BY <2>1, <1>1, StreamKept DEF FlowInv
  <1>9. DataTypes'
    BY <1>1 DEF FlowInv, DataTypes
  <1> QED BY <1>4, <1>5, <1>6, <1>7, <1>8, <1>9 DEF FlowInv

(* The MM2S channel sends the oldest object of the producer tile.          *)
LEMMA FlowMm2sSends ==
    ASSUME FlowInv, Mm2sSends, DmaInv'
    PROVE  FlowInv'
  <1> DEFINE G == moved[Prod]["Consume"]
             x == buff[Prod][Head(acquired[Prod]["Consume"])]
  <1>1. /\ acquired[Prod]["Consume"] # <<>>
        /\ \A c \in Consumers : Len(stream[c]) < StreamDepth
        /\ stream' = [c \in Consumers |-> Append(stream[c], x)]
        /\ Give(Prod, "Consume", 1) /\ UNCHANGED <<next, want, buff>>
    BY DEF Mm2sSends
  <1>2. /\ DmaInv /\ Prod \in Ends /\ "Consume" \in Ports /\ "Produce" \in Ports
        /\ acquired[Prod]["Consume"] \in Seq(Nat)
    BY EndFacts, PortTypes DEF FlowInv, DmaInv
  <1>3. /\ 1 \in 1 .. Held(Prod, "Consume") /\ Held(Prod, "Consume") \in Nat
        /\ Head(acquired[Prod]["Consume"]) = acquired[Prod]["Consume"][1]
    BY <1>1, <1>2 DEF Held
  <1>4. /\ Held(Prod, "Consume")' = Held(Prod, "Consume") - 1 /\ moved'[Prod]["Consume"] = G + 1
        /\ \A f \in Ends, q \in Ports : (f # Prod \/ q # "Consume") =>
              acquired'[f][q] = acquired[f][q] /\ moved'[f][q] = moved[f][q]
    BY <1>1, <1>2, <1>3, GiveEffect
  <1>5. /\ G \in Nat /\ moved[Prod]["Produce"] \in Nat /\ Held(Prod, "Produce") \in Nat
        /\ G + Held(Prod, "Consume") <= moved[Prod]["Produce"] /\ Objects \in Nat
    BY <1>2, EndWindow, EndFacts
  <1>6. x = G + 1 /\ x \in 1 .. Objects
    <2>1. G \in G .. (moved[Prod]["Produce"] - 1) /\ G + (1 - 1) = G
      BY <1>3, <1>5
    <2>2. acquired[Prod]["Consume"][1] = G % Depth(Prod)
      BY <2>1, <1>2, <1>3, BufferHeld
    <2>3. buff[Prod][G % Depth(Prod)] = G + 1
      BY <2>1, <1>2 DEF FlowInv, Contents
    <2>4. moved[Prod]["Produce"] + Held(Prod, "Produce") + want[Prod] <= Objects /\ want[Prod] \in Nat
      BY EndFacts DEF FlowInv, RequestBound, DmaInv, EndTypes
    <2>5. x = G + 1
      BY <2>2, <2>3, <1>3
    <2> HIDE DEF x, G
    <2>6. G + 1 \in 1 .. Objects
      BY <2>1, <2>4, <1>3, <1>5
    <2> QED BY <2>5, <2>6
  <1> HIDE DEF x, G
  <1>7. DataTypes'
    <2>1. ASSUME NEW c \in Consumers PROVE Append(stream[c], x) \in Seq(1 .. Objects)
      <3>1. stream[c] \in Seq(1 .. Objects)
        BY DEF FlowInv, DataTypes
      <3> QED BY <3>1, <1>6, AppendProperties
    <2>2. stream' \in [Consumers -> Seq(1 .. Objects)]
      BY <2>1, <1>1
    <2> QED BY <2>2, <1>1 DEF FlowInv, DataTypes
  <1>8. \A f \in Ends \ {Prod} : Contents(f)' /\ RequestBound(f)'
    BY <1>1, <1>4, ContentsKept, RequestKept DEF FlowInv
  <1>9. Contents(Prod)'
    <2> SUFFICES ASSUME NEW k \in (G + 1) .. (moved[Prod]["Produce"] - 1)
                 PROVE  buff[Prod][k % Depth(Prod)] = k + 1
      BY <1>1, <1>2, <1>4 DEF Contents
    <2>1. k \in G .. (moved[Prod]["Produce"] - 1)
      BY <1>5
    <2> QED BY <2>1, <1>2 DEF FlowInv, Contents, G
  <1>10. RequestBound(Prod)'
    <2>1. Held(Prod, "Produce")' = Held(Prod, "Produce") /\ moved'[Prod]["Produce"] = moved[Prod]["Produce"]
      BY <1>2, <1>4 DEF Held
    <2>2. /\ moved[Prod]["Produce"] + Held(Prod, "Produce") + want[Prod] <= Objects
          /\ want[Prod] <= MaxAcquire[Prod] /\ Held(Prod, "Consume") <= 1
      BY EndFacts DEF FlowInv, RequestBound
    <2>3. Held(Prod, "Consume")' <= 1
      BY <2>2, <1>3, <1>4
    <2> QED BY <2>1, <2>2, <2>3, <1>1, EndFacts DEF RequestBound
  <1>11. ASSUME NEW c \in Consumers PROVE StreamFollows(c)'
    <2> DEFINE s == stream[c]
    <2>1. /\ Len(s) <= StreamDepth /\ Len(s) < StreamDepth
          /\ G = moved[c]["Produce"] + Len(s)
          /\ \A i \in 1 .. Len(s) : s[i] = moved[c]["Produce"] + i
      BY <1>1 DEF FlowInv, StreamFollows, G
    <2>2. s \in Seq(1 .. Objects) /\ stream'[c] = Append(s, x)
      BY <1>1 DEF FlowInv, DataTypes
    <2>3. moved'[c]["Produce"] = moved[c]["Produce"] /\ moved[c]["Produce"] \in Nat
      BY <1>2, <1>4, EndFacts, EndWindow
    <2> HIDE DEF s
    <2>4. /\ Len(Append(s, x)) = Len(s) + 1 /\ Len(s) \in Nat
          /\ \A i \in 1 .. Len(s) : Append(s, x)[i] = s[i]
          /\ Append(s, x)[Len(s) + 1] = x
      BY <2>2, <1>6, AppendProperties, LenProperties
    <2>5. \A i \in 1 .. Len(Append(s, x)) : Append(s, x)[i] = moved[c]["Produce"] + i
      <3> TAKE i \in 1 .. Len(Append(s, x))
      <3>1. CASE i = Len(s) + 1
        <4>1. G + 1 = moved[c]["Produce"] + (Len(s) + 1)
          BY <2>1, <2>3, <2>4
        <4> QED BY <3>1, <4>1, <2>4, <1>6
      <3>2. CASE i # Len(s) + 1
        <4>1. i \in 1 .. Len(s)
          BY <3>2, <2>4
        <4> QED BY <4>1, <2>1, <2>4
      <3> QED BY <3>1, <3>2
    <2>6. /\ Len(s) + 1 <= StreamDepth /\ G + 1 = moved[c]["Produce"] + (Len(s) + 1)
      BY <2>1, <2>3, <2>4, EndFacts
    <2> QED BY <2>2, <2>3, <2>4, <2>5, <2>6, <1>4 DEF StreamFollows
  <1> QED BY <1>7, <1>8, <1>9, <1>10, <1>11 DEF FlowInv

(* The S2MM channel of a consumer stores the oldest object of its stream.  *)
LEMMA FlowS2mmStores ==
    ASSUME FlowInv, NEW c \in Consumers, S2mmStores(c), DmaInv'
    PROVE  FlowInv'
  <1> DEFINE S == moved[c]["Produce"]
             b == Head(acquired[c]["Produce"])
             s == stream[c]
  <1>1. /\ acquired[c]["Produce"] # <<>> /\ s # <<>>
        /\ buff' = [buff EXCEPT ![c][b] = Head(s)]
        /\ stream' = [stream EXCEPT ![c] = Tail(s)]
        /\ Give(c, "Produce", 1) /\ UNCHANGED <<next, want>>
    BY DEF S2mmStores
  <1>2. /\ DmaInv /\ c \in Ends /\ c # Prod /\ Prod \in Ends
        /\ "Consume" \in Ports /\ "Produce" \in Ports
        /\ acquired[c]["Produce"] \in Seq(Nat) /\ s \in Seq(1 .. Objects)
    BY EndFacts, PortTypes DEF FlowInv, DmaInv, DataTypes
  <1>3. 1 \in 1 .. Held(c, "Produce") /\ Held(c, "Produce") \in Nat /\ b = acquired[c]["Produce"][1]
    BY <1>1, <1>2 DEF Held
  <1>4. /\ Held(c, "Produce")' = Held(c, "Produce") - 1 /\ moved'[c]["Produce"] = S + 1
        /\ \A f \in Ends, q \in Ports : (f # c \/ q # "Produce") =>
              acquired'[f][q] = acquired[f][q] /\ moved'[f][q] = moved[f][q]
    BY <1>1, <1>2, <1>3, GiveEffect
  <1>5. S \in Nat /\ moved[c]["Consume"] \in Nat /\ moved[c]["Consume"] <= S /\ Held(c, "Consume") \in Nat
    BY <1>2, EndWindow, SMTT(20)
  <1>6. /\ Head(s) = s[1] /\ Head(s) \in 1 .. Objects /\ Len(s) \in Nat /\ Len(s) >= 1
        /\ Tail(s) \in Seq(1 .. Objects) /\ Len(Tail(s)) = Len(s) - 1
        /\ \A i \in 1 .. Len(Tail(s)) : Tail(s)[i] = s[i + 1]
    <2> HIDE DEF s
    <2>1. s \in Seq(1 .. Objects) /\ s # <<>>
      BY <1>1, <1>2
    <2>2. /\ Head(s) \in 1 .. Objects /\ Tail(s) \in Seq(1 .. Objects)
          /\ Len(Tail(s)) = Len(s) - 1
          /\ \A i \in 1 .. Len(Tail(s)) : Tail(s)[i] = s[i + 1]
      BY <2>1, HeadTailProperties
    <2>3. Len(s) \in Nat /\ Len(s) >= 1 /\ Head(s) = s[1]
      BY <2>1
    <2> QED BY <2>2, <2>3
  <1>7. /\ Len(s) <= StreamDepth /\ moved[Prod]["Consume"] = S + Len(s)
        /\ \A i \in 1 .. Len(s) : s[i] = S + i
    BY DEF FlowInv, StreamFollows
  <1>8. b = S % Depth(c) /\ b \in Buffers(c)
    <2>1. S + (1 - 1) = S
      BY <1>5
    <2> QED BY <2>1, <1>2, <1>3, BufferHeld
  <1>d. /\ buff = [e \in Ends |-> buff[e]]
        /\ \A e \in Ends : buff[e] \in [Buffers(e) -> 0 .. Objects]
        /\ stream \in [Consumers -> Seq(1 .. Objects)]
    BY DEF FlowInv, DataTypes
  <1> HIDE DEF S, b, s
  <1>9. Head(s) = S + 1 /\ Head(s) \in 0 .. Objects
    <2>1. 1 \in 1 .. Len(s)
      BY <1>6
    <2> QED BY <2>1, <1>6, <1>7, EndFacts
  <1>10. /\ buff'[c] = [buff[c] EXCEPT ![b] = Head(s)]
         /\ \A e \in Ends \ {c} : buff'[e] = buff[e]
         /\ buff' = [e \in Ends |-> buff'[e]]
    BY <1>1, <1>2, <1>d
  <1>11. stream'[c] = Tail(s) /\ \A d \in Consumers \ {c} : stream'[d] = stream[d]
    BY <1>1, <1>d
  <1>12. DataTypes'
    <2>1. buff'[c] \in [Buffers(c) -> 0 .. Objects]
      BY <1>2, <1>8, <1>9, <1>10, <1>d
    <2>2. \A e \in Ends : buff'[e] \in [Buffers(e) -> 0 .. Objects]
      BY <2>1, <1>10, <1>d
    <2>3. stream' \in [Consumers -> Seq(1 .. Objects)]
      BY <1>1, <1>6, <1>d
    <2> QED BY <2>2, <2>3, <1>10 DEF DataTypes
  <1>13. \A f \in Ends \ {c} : Contents(f)' /\ RequestBound(f)'
    BY <1>1, <1>4, <1>10, ContentsKept, RequestKept DEF FlowInv
  <1>14. Contents(c)'
    <2> SUFFICES ASSUME NEW k \in moved[c]["Consume"] .. ((S + 1) - 1)
                 PROVE  buff'[c][k % Depth(c)] = k + 1
      BY <1>2, <1>4 DEF Contents
    <2>1. CASE k = S
      BY <2>1, <1>2, <1>8, <1>9, <1>10, <1>d
    <2>2. CASE k # S
      <3>1. /\ k \in moved[c]["Consume"] .. (S - 1)
            /\ k \in moved[c]["Consume"] .. (S + (1 - 2)) /\ k \in Nat
        BY <2>2, <1>5
      <3>2. k % Depth(c) # b
        BY <3>1, <1>2, <1>3, HeldIsFree DEF S
      <3>3. k % Depth(c) \in Buffers(c)
        BY <3>1, <1>2, DepthType, ModRange DEF Buffers
      <3>4. buff[c][k % Depth(c)] = k + 1
        BY <3>1, <1>2 DEF FlowInv, Contents, S
      <3> QED BY <3>2, <3>3, <3>4, <1>2, <1>10, <1>d
    <2> QED BY <2>1, <2>2
  <1>15. RequestBound(c)'
    <2>1. Held(c, "Consume")' = Held(c, "Consume") /\ moved'[c]["Consume"] = moved[c]["Consume"]
      BY <1>2, <1>4 DEF Held
    <2>2. /\ moved[c]["Consume"] + Held(c, "Consume") + want[c] <= Objects
          /\ want[c] <= MaxAcquire[c] /\ Held(c, "Produce") <= 1
      BY <1>2, EndFacts DEF FlowInv, RequestBound
    <2>3. Held(c, "Produce")' <= 1
      BY <2>2, <1>3, <1>4
    <2> QED BY <2>1, <2>2, <2>3, <1>1, EndFacts DEF RequestBound
  <1>16. \A d \in Consumers \ {c} : StreamFollows(d)'
    BY <1>2, <1>4, <1>11, StreamKept, EndFacts DEF FlowInv
  <1>17. StreamFollows(c)'
    <2>1. moved'[Prod]["Consume"] = moved[Prod]["Consume"]
      BY <1>2, <1>4
    <2>2. Len(s) - 1 <= StreamDepth /\ S + Len(s) = (S + 1) + (Len(s) - 1)
      <3>1. Len(s) \in Nat /\ S \in Nat /\ Len(s) <= StreamDepth /\ StreamDepth \in Nat
        BY <1>5, <1>6, <1>7, EndFacts
      <3> QED BY <3>1
    <2>3. ASSUME NEW i \in 1 .. (Len(s) - 1) PROVE Tail(s)[i] = (S + 1) + i
      <3>1. i + 1 \in 1 .. Len(s) /\ S + (i + 1) = (S + 1) + i
        BY <1>5, <1>6
      <3> QED BY <3>1, <1>6, <1>7
    <2> QED BY <2>1, <2>2, <2>3, <1>4, <1>6, <1>7, <1>11 DEF StreamFollows
  <1> QED BY <1>12, <1>13, <1>14, <1>15, <1>16, <1>17 DEF FlowInv

LEMMA FlowNext == FlowInv /\ [Next]_vars => FlowInv'
  <1> SUFFICES ASSUME FlowInv, [Next]_vars PROVE FlowInv'
    OBVIOUS
  <1>0. DmaInv'
    BY DmaNextInv DEF FlowInv
  <1>1. ASSUME NEW e \in Ends, CoreStep(e) PROVE FlowInv'
    BY <1>0, <1>1, FlowCoreAcquire, FlowCoreRelease, FlowCoreWrites DEF CoreStep
  <1>2. ASSUME NEW e \in Ends, CoreTakesLocks(e) PROVE FlowInv'
    BY <1>0, <1>2, FlowCoreTakesLocks
  <1>3. ASSUME NEW e \in Ends, DmaStep(e) PROVE FlowInv'
    BY <1>0, <1>3, FlowBdAcquire, FlowMm2sSends, FlowS2mmStores DEF DmaStep
  <1>4. CASE UNCHANGED vars
    BY <1>0, <1>4 DEF vars, FlowInv, DataTypes, Contents, RequestBound, StreamFollows, Held,
                     CorePort, DmaPort, Other, Depth
  <1> QED BY <1>1, <1>2, <1>3, <1>4 DEF Next, Terminating

(* The invariant with the objects holds at every step.                     *)
LEMMA FlowInvariant == Spec => []FlowInv
  BY FlowInit, FlowNext, PTL DEF Spec

-----------------------------------------------------------------------------
(* A finite set has a member with the largest value.                       *)
LEMMA FiniteArgMax ==
    ASSUME NEW S, IsFiniteSet(S), S # {}, NEW f \in [S -> Nat]
    PROVE  \E x \in S : \A y \in S : f[x] >= f[y]
  <1> DEFINE NoMax(A) == \A x \in A : \E y \in A : ~ (f[x] >= f[y])
             T == {n \in Nat : \E A \in SUBSET S : A # {} /\ Cardinality(A) = n /\ NoMax(A)}
  <1> SUFFICES ASSUME NoMax(S) PROVE FALSE
    OBVIOUS
  <1>1. Cardinality(S) \in T
    BY FS_CardinalityType
  <1>2. PICK n \in T : \A m \in T : n <= m
    <2>1. T \in SUBSET Nat /\ T # {}
      BY <1>1
    <2> HIDE DEF T
    <2> QED BY <2>1, LeastNumber
  <1>3. PICK A \in SUBSET S : A # {} /\ Cardinality(A) = n /\ NoMax(A)
    BY <1>2
  <1>4. PICK x \in A : TRUE
    BY <1>3
  <1> DEFINE B == A \ {x}
  <1>5. IsFiniteSet(A) /\ IsFiniteSet(B) /\ Cardinality(B) = n - 1
    <2>1. IsFiniteSet(A)
      BY FS_Subset
    <2> QED BY <2>1, <1>3, <1>4, FS_RemoveElement
  <1>6. n - 1 \in Nat /\ n \in Nat /\ ~ (n <= n - 1)
    <2>1. Cardinality(B) \in Nat
      BY <1>5, FS_CardinalityType
    <2>2. n \in Nat
      BY <1>2
    <2> QED BY <2>1, <2>2, <1>5
  <1>7. PICK b \in A : \A y \in B : f[b] >= f[y]
    <2>1. CASE B = {}
      BY <2>1, <1>4
    <2>2. CASE B # {}
      <3>1. n - 1 \notin T
        BY <1>2, <1>6
      <3>2. ~ NoMax(B)
        BY <2>2, <3>1, <1>5, <1>6
      <3> QED BY <3>2
    <2> QED BY <2>1, <2>2
  <1>8. f[x] \in Nat /\ f[b] \in Nat /\ \A y \in A : f[y] \in Nat
    BY <1>4, <1>7
  <1>9. CASE f[x] >= f[b]
    <2>1. \A y \in A : f[x] >= f[y]
      <3> TAKE y \in A
      <3>1. CASE y = x
        BY <3>1, <1>8
      <3>2. CASE y # x
        <4>1. f[b] >= f[y]
          BY <3>2, <1>7
        <4> QED BY <4>1, <1>8, <1>9
      <3> QED BY <3>1, <3>2
    <2> QED BY <2>1, <1>3, <1>4
  <1>10. CASE ~ (f[x] >= f[b])
    <2>1. \A y \in A : f[b] >= f[y]
      BY <1>7, <1>8, <1>10
    <2> QED BY <2>1, <1>3, <1>7
  <1> QED BY <1>9, <1>10

(* The greatest depth of some ends is one of their depths.                 *)
LEMMA GreatestDepth ==
    ASSUME NEW S \in SUBSET Ends, IsFiniteSet(S), S # {}
    PROVE  /\ Max({Depth(e) : e \in S}) \in Nat
           /\ \A e \in S : Depth(e) <= Max({Depth(f) : f \in S})
  <1> DEFINE f == [e \in S |-> Depth(e)]
             D == {Depth(e) : e \in S}
  <1>1. f \in [S -> Nat] /\ \A e \in S : f[e] = Depth(e) /\ Depth(e) \in Nat
    BY DepthType
  <1> HIDE DEF f
  <1>2. PICK x \in S : \A y \in S : f[x] >= f[y]
    BY <1>1, FiniteArgMax
  <1>3. Depth(x) \in D /\ \A d \in D : Depth(x) >= d
    BY <1>1, <1>2
  <1> HIDE DEF D
  <1>4. Max(D) \in D /\ \A d \in D : Max(D) >= d
    BY <1>3 DEF Max
  <1> USE DEF D
  <1>5. Max(D) \in Nat
    BY <1>1, <1>4
  <1>6. ASSUME NEW e \in S PROVE Depth(e) <= Max(D)
    <2>1. Depth(e) \in D /\ Depth(e) \in Nat
      BY <1>1
    <2> HIDE DEF D
    <2> QED BY <2>1, <1>4, <1>5
  <1> QED BY <1>5, <1>6

(* A sequence whose elements are all in T.                                 *)
LEMMA ElementsOfSeq ==
    ASSUME NEW S, NEW T, NEW s \in Seq(S), \A i \in 1 .. Len(s) : s[i] \in T
    PROVE  s \in Seq(T)
  <1>1. Len(s) \in Nat /\ s \in [1 .. Len(s) -> S]
    BY LenProperties
  <1>2. s \in [1 .. Len(s) -> T]
    BY <1>1
  <1> QED BY <1>1, <1>2, SeqDef

(* Locks, indices, subviews, objects and counters keep their ranges.       *)
THEOREM DmaTypeCorrect == Spec => []TypeOK
  <1>1. FlowInv => TypeOK
    <2> SUFFICES ASSUME FlowInv PROVE TypeOK
      OBVIOUS
    <2> DEFINE M == Max({Depth(e) : e \in Ends})
    <2>0. DmaInv /\ EndTypes /\ DataTypes
      BY DEF FlowInv, DmaInv
    <2>1. M \in Nat /\ \A e \in Ends : Depth(e) <= M
      <3>1. IsFiniteSet(Ends) /\ Ends # {}
        BY DmaAssumption, FS_AddElement DEF Ends
      <3> QED BY <3>1, GreatestDepth
    <2> HIDE DEF M
    <2>2. lock \in [Ends -> [Ports -> 0 .. M]]
      <3>1. ASSUME NEW e \in Ends, NEW p \in Ports PROVE lock[e][p] \in 0 .. M
        <4>1. lock[e][p] \in Nat /\ lock[e][p] <= Depth(e) /\ Depth(e) \in Nat
          BY <2>0, EndWindow, EndFacts
        <4>2. Depth(e) <= M
          BY <2>1
        <4> QED BY <4>1, <4>2, <2>1
      <3> QED BY <3>1, <2>0 DEF EndTypes
    <2>3. ASSUME NEW e \in Ends, NEW p \in Ports
          PROVE  next[e][p] \in Buffers(e) /\ acquired[e][p] \in Seq(Buffers(e))
      <3>1. moved[e][p] \in Nat /\ Held(e, p) \in Nat /\ Depth(e) \in Nat \ {0}
            /\ acquired[e][p] \in Seq(Nat)
        BY <2>0, PortTypes, DepthType
      <3>2. next[e][p] = (moved[e][p] + Held(e, p)) % Depth(e)
        BY <2>0, EndFacts DEF DmaInv, EndInv, Indexed
      <3>3. moved[e][p] + Held(e, p) \in Nat
        BY <3>1
      <3>4. next[e][p] \in Buffers(e)
        BY <3>1, <3>2, <3>3, ModRange DEF Buffers
      <3>5. \A i \in 1 .. Len(acquired[e][p]) : acquired[e][p][i] \in Buffers(e)
        BY <2>0, BufferHeld DEF Held
      <3> QED BY <3>1, <3>4, <3>5, ElementsOfSeq
    <2>4. ASSUME NEW e \in Ends PROVE moved[e]["Produce"] <= Objects /\ moved[e]["Consume"] <= Objects
      <3>1. moved[Prod]["Produce"] <= Objects
        <4>1. /\ moved[Prod]["Produce"] + Held(Prod, "Produce") + want[Prod] <= Objects
              /\ moved[Prod]["Produce"] \in Nat /\ Held(Prod, "Produce") \in Nat
              /\ want[Prod] \in Nat /\ Objects \in Nat
          BY <2>0, EndFacts, EndWindow DEF FlowInv, RequestBound, EndTypes
        <4> QED BY <4>1
      <3>2. \A f \in Ends : /\ moved[f]["Produce"] \in Nat /\ moved[f]["Consume"] \in Nat
                            /\ moved[f]["Consume"] <= moved[f]["Produce"]
        <4> TAKE f \in Ends
        <4>1. /\ moved[f]["Produce"] \in Nat /\ moved[f]["Consume"] \in Nat
              /\ Held(f, "Consume") \in Nat
              /\ moved[f]["Consume"] + Held(f, "Consume") <= moved[f]["Produce"]
          BY <2>0, EndWindow
        <4> QED BY <4>1
      <3>3. moved[Prod]["Consume"] <= Objects
        BY <3>1, <3>2, EndFacts
      <3>4. CASE e \in Consumers
        <4>1. moved[Prod]["Consume"] = moved[e]["Produce"] + Len(stream[e])
          BY <3>4 DEF FlowInv, StreamFollows
        <4>2. Len(stream[e]) \in Nat
          BY <2>0, <3>4, LenProperties DEF DataTypes
        <4>3. moved[e]["Produce"] <= Objects
          BY <4>1, <4>2, <3>2, <3>3, EndFacts
        <4> QED BY <4>3, <3>2, EndFacts
      <3> QED BY <3>1, <3>3, <3>4, EndFacts
    <2>5. ASSUME NEW e \in Ends, NEW p \in Ports PROVE moved[e][p] \in 0 .. Objects
      BY <2>0, <2>4, PortTypes, EndFacts
    <2>6. ASSUME NEW e \in Ends
          PROVE  /\ want[e] \in 0 .. MaxAcquire[e]
                 /\ Len(acquired[e][DmaPort(e)]) <= 1
      <3>1. want[e] \in Nat /\ want[e] <= MaxAcquire[e] /\ Held(e, DmaPort(e)) <= 1
        BY <2>0 DEF FlowInv, RequestBound, EndTypes
      <3> QED BY <3>1, EndFacts DEF Held
    <2> QED BY <2>0, <2>2, <2>3, <2>5, <2>6 DEF TypeOK, DataTypes, M
  <1> QED BY <1>1, FlowInvariant, PTL

-----------------------------------------------------------------------------
(* What consumer c sees are the objects after those that it has released.  *)
LEMMA SeenIsWindow ==
    ASSUME FlowInv, NEW c \in Consumers
    PROVE  /\ SeenBy(c) = Contract!Window(moved[c]["Consume"], Held(c, "Consume"))
           /\ Len(SeenBy(c)) = Held(c, "Consume")
  <1>1. /\ moved[c]["Produce"] \in Nat /\ moved[c]["Consume"] \in Nat
        /\ Held(c, "Consume") \in Nat /\ c \in Ends
        /\ moved[c]["Consume"] + Held(c, "Consume") <= moved[c]["Produce"]
    BY EndFacts, EndWindow DEF FlowInv
  <1>2. ASSUME NEW i \in 1 .. Held(c, "Consume")
        PROVE  buff[c][acquired[c]["Consume"][i]] = moved[c]["Consume"] + i
    <2> DEFINE k == moved[c]["Consume"] + (i - 1)
    <2>1. /\ k \in moved[c]["Consume"] .. (moved[c]["Produce"] - 1)
          /\ k + 1 = moved[c]["Consume"] + i
      BY <1>1
    <2>2. acquired[c]["Consume"][i] = k % Depth(c)
      BY <1>1, BufferHeld, EndFacts DEF FlowInv
    <2> HIDE DEF k
    <2> QED BY <2>1, <2>2, <1>1 DEF FlowInv, Contents
  <1>3. SeenBy(c) = Contract!Window(moved[c]["Consume"], Held(c, "Consume"))
    BY <1>2 DEF SeenBy, Contract!Window, Held
  <1> QED BY <1>1, <1>3 DEF Contract!Window

(* The room that the contract gives the producer.                          *)
Room == Depth(Prod) + StreamDepth + Max({Depth(c) : c \in Consumers})

(* What the refinement uses in both states of a step.                      *)
ContractView ==
    /\ \A e \in Ends, p \in Ports : Held(e, p) \in Nat /\ moved[e][p] \in Nat
    /\ \A e \in Ends : want[e] \in Nat
    /\ \A c \in Consumers :
          /\ SeenBy(c) = Contract!Window(moved[c]["Consume"], Held(c, "Consume"))
          /\ Len(SeenBy(c)) = Held(c, "Consume")
          /\ moved[c]["Consume"] + Held(c, "Consume") <= moved[Prod]["Produce"]
          /\ moved[Prod]["Produce"] + Held(Prod, "Produce") <= moved[c]["Consume"] + Room
    /\ \A e \in Ends : moved[e][CorePort(e)] + Held(e, CorePort(e)) <= Objects

LEMMA ContractFacts == FlowInv => ContractView
  <1> SUFFICES ASSUME FlowInv PROVE ContractView
    OBVIOUS
  <1>1. /\ \A e \in Ends, p \in Ports : Held(e, p) \in Nat /\ moved[e][p] \in Nat
        /\ \A e \in Ends : want[e] \in Nat
    BY PortTypes DEF FlowInv, DmaInv, EndTypes
  <1>2. ASSUME NEW c \in Consumers
        PROVE  /\ moved[c]["Consume"] + Held(c, "Consume") <= moved[Prod]["Produce"]
               /\ moved[Prod]["Produce"] + Held(Prod, "Produce") <= moved[c]["Consume"] + Room
    <2> DEFINE D == Max({Depth(d) : d \in Consumers})
    <2>1. D \in Nat /\ Depth(c) <= D
      <3>1. Consumers \in SUBSET Ends /\ IsFiniteSet(Consumers) /\ Consumers # {}
        BY DmaAssumption, EndFacts
      <3> QED BY <3>1, GreatestDepth
    <2> HIDE DEF D
    <2>2. /\ moved[Prod]["Produce"] \in Nat /\ moved[Prod]["Consume"] \in Nat
          /\ Held(Prod, "Produce") \in Nat /\ Held(Prod, "Consume") \in Nat
          /\ Depth(Prod) \in Nat
          /\ moved[Prod]["Consume"] + Held(Prod, "Consume") <= moved[Prod]["Produce"]
          /\ moved[Prod]["Produce"] + Held(Prod, "Produce") <= moved[Prod]["Consume"] + Depth(Prod)
      BY EndWindow, EndFacts DEF FlowInv
    <2>3. /\ moved[c]["Produce"] \in Nat /\ moved[c]["Consume"] \in Nat
          /\ Held(c, "Produce") \in Nat /\ Held(c, "Consume") \in Nat
          /\ Depth(c) \in Nat
          /\ moved[c]["Consume"] + Held(c, "Consume") <= moved[c]["Produce"]
          /\ moved[c]["Produce"] + Held(c, "Produce") <= moved[c]["Consume"] + Depth(c)
      BY EndWindow, EndFacts DEF FlowInv
    <2>4. /\ moved[Prod]["Consume"] = moved[c]["Produce"] + Len(stream[c])
          /\ Len(stream[c]) <= StreamDepth /\ Len(stream[c]) \in Nat /\ StreamDepth \in Nat
      BY LenProperties, EndFacts DEF FlowInv, StreamFollows, DataTypes
    <2>5. Room = Depth(Prod) + StreamDepth + D
      BY DEF Room, D
    <2>6. moved[c]["Consume"] + Held(c, "Consume") <= moved[Prod]["Produce"]
      <3>1. moved[c]["Produce"] <= moved[Prod]["Consume"]
        BY <2>2, <2>3, <2>4, SMTT(20)
      <3>2. moved[Prod]["Consume"] <= moved[Prod]["Produce"]
        BY <2>2
      <3> QED BY <3>1, <3>2, <2>2, <2>3
    <2>7. moved[Prod]["Produce"] + Held(Prod, "Produce") <= moved[c]["Consume"] + Room
      <3> DEFINE G == moved[Prod]["Consume"]
                 x == moved[c]["Consume"]
                 d == Depth(Prod)
      <3>1. G <= moved[c]["Produce"] + StreamDepth
        BY <2>2, <2>3, <2>4, SMTT(20)
      <3>2. moved[c]["Produce"] <= x + D
        BY <2>1, <2>3
      <3>3. G \in Nat /\ x \in Nat /\ d \in Nat /\ moved[c]["Produce"] \in Nat
            /\ D \in Nat /\ StreamDepth \in Nat
        BY <2>1, <2>2, <2>3, <2>4
      <3>4. moved[Prod]["Produce"] + Held(Prod, "Produce") <= G + d
            /\ moved[Prod]["Produce"] \in Nat /\ Held(Prod, "Produce") \in Nat
        BY <2>2
      <3>5. Room = d + StreamDepth + D
        BY <2>5
      <3> HIDE DEF G, x, d
      <3>6. G + d <= x + (d + StreamDepth + D) /\ x + (d + StreamDepth + D) \in Nat
        BY <3>1, <3>2, <3>3
      <3>7. moved[Prod]["Produce"] + Held(Prod, "Produce") <= x + (d + StreamDepth + D)
        BY <3>3, <3>4, <3>6
      <3> QED BY <3>5, <3>7 DEF x
    <2> QED BY <2>6, <2>7
  <1>3. ASSUME NEW e \in Ends PROVE moved[e][CorePort(e)] + Held(e, CorePort(e)) <= Objects
    <2>1. /\ moved[e][CorePort(e)] + Held(e, CorePort(e)) + want[e] <= Objects
          /\ moved[e][CorePort(e)] \in Nat /\ Held(e, CorePort(e)) \in Nat /\ want[e] \in Nat
          /\ Objects \in Nat
      BY <1>1, EndFacts DEF FlowInv, RequestBound
    <2> QED BY <2>1
  <1> QED BY <1>1, <1>2, <1>3, SeenIsWindow DEF ContractView

LEMMA ContractFactsPrimed == FlowInv' => ContractView'
  BY ContractFacts, PTL

LEMMA InitRefines == Init => Contract!Init
  <1> SUFFICES ASSUME Init PROVE Contract!Init
    OBVIOUS
  <1>1. \A e \in Ends, p \in Ports : moved[e][p] = 0 /\ acquired[e][p] = <<>>
    BY DEF Init
  <1>2. \A c \in Consumers : SeenBy(c) = <<>>
    BY <1>1, EndFacts DEF SeenBy
  <1>3. moved[Prod]["Produce"] = 0 /\ Len(acquired[Prod]["Produce"]) = 0
    BY <1>1, EndFacts
  <1>4. \A c \in Consumers : moved[c]["Consume"] = 0
    BY <1>1, EndFacts
  <1> QED BY <1>2, <1>3, <1>4 DEF Contract!Init

(* Steps that change no window of a core are not seen by the contract.     *)
LEMMA ContractStutter ==
    ASSUME FlowInv, FlowInv',
           \A e \in Ends : /\ Held(e, CorePort(e))' = Held(e, CorePort(e))
                           /\ moved'[e][CorePort(e)] = moved[e][CorePort(e)]
    PROVE  UNCHANGED Contract!vars
  <1>1. moved'[Prod]["Produce"] = moved[Prod]["Produce"] /\ Held(Prod, "Produce")' = Held(Prod, "Produce")
    BY EndFacts DEF Held
  <1>2. ASSUME NEW c \in Consumers
        PROVE  moved'[c]["Consume"] = moved[c]["Consume"] /\ SeenBy(c)' = SeenBy(c)
    <2>1. moved'[c]["Consume"] = moved[c]["Consume"] /\ Held(c, "Consume")' = Held(c, "Consume")
      BY EndFacts DEF Held
    <2>2. /\ SeenBy(c) = Contract!Window(moved[c]["Consume"], Held(c, "Consume"))
          /\ SeenBy(c)' = Contract!Window(moved'[c]["Consume"], Held(c, "Consume")')
      BY ContractFacts, ContractFactsPrimed DEF ContractView
    <2> QED BY <2>1, <2>2
  <1> QED BY <1>1, <1>2 DEF Contract!vars, Held

(* A consumer that a step leaves alone sees what it saw.                   *)
LEMMA ConsumerKept ==
    ASSUME FlowInv, FlowInv', NEW c \in Consumers,
           acquired'[c]["Consume"] = acquired[c]["Consume"],
           moved'[c]["Consume"] = moved[c]["Consume"]
    PROVE  SeenBy(c)' = SeenBy(c)
  <1>1. Held(c, "Consume")' = Held(c, "Consume")
    BY DEF Held
  <1>2. /\ SeenBy(c) = Contract!Window(moved[c]["Consume"], Held(c, "Consume"))
        /\ SeenBy(c)' = Contract!Window(moved'[c]["Consume"], Held(c, "Consume")')
    BY ContractFacts, ContractFactsPrimed DEF ContractView
  <1> QED BY <1>1, <1>2

(* The locks that a core takes at once are an acquire of the contract.     *)
LEMMA TakeRefines ==
    ASSUME FlowInv, FlowInv', NEW e \in Ends, CoreTakesLocks(e)
    PROVE  Contract!Next
  <1> DEFINE p == CorePort(e)
             n == Held(e, p) + want[e]
  <1>1. /\ p \in Ports /\ Held(e, p) \in Nat /\ moved[e][p] \in Nat /\ want[e] \in Nat
        /\ want[e] > 0 /\ Take(e, p, want[e]) /\ moved' = moved /\ DmaInv /\ Objects \in Nat
    BY EndFacts, ContractFacts DEF ContractView, CoreTakesLocks, FlowInv
  <1>2. /\ Held(e, p)' = n
        /\ \A f \in Ends, q \in Ports : (f # e \/ q # p) => acquired'[f][q] = acquired[f][q]
    BY <1>1, TakeEffect
  <1>3. n > Held(e, p) /\ n \in 1 .. Objects /\ moved[e][p] + n <= Objects
    <2>1. moved[e][p] + n <= Objects
      <3>1. moved'[e][CorePort(e)] + Held(e, CorePort(e))' <= Objects
        BY ContractFactsPrimed DEF ContractView, CorePort
      <3> QED BY <3>1, <1>1, <1>2
    <2>2. n > Held(e, p) /\ n \in Nat /\ n >= 1
      BY <1>1
    <2> HIDE DEF n
    <2> QED BY <2>1, <2>2, <1>1
  <1> HIDE DEF n
  <1>4. CASE e = Prod
    <2>1. p = "Produce"
      BY <1>4, EndFacts
    <2>2. \A c \in Consumers : moved[Prod]["Produce"] + n <= moved[c]["Consume"] + Room
      BY <2>1, <1>1, <1>2, <1>4, ContractFactsPrimed DEF ContractView, Room, Depth
    <2>3. \A c \in Consumers : SeenBy(c)' = SeenBy(c)
      BY <1>1, <1>2, <1>4, ConsumerKept, EndFacts
    <2>4. Contract!ProducerAcquire(n)
      BY <2>1, <2>2, <2>3, <1>1, <1>2, <1>3, <1>4 DEF Contract!ProducerAcquire, Held, Room
    <2> QED BY <2>4, <1>3 DEF Contract!Next
  <1>5. CASE e \in Consumers
    <2>1. p = "Consume" /\ e # Prod
      BY <1>5, EndFacts
    <2>2. moved[e]["Consume"] + n <= moved[Prod]["Produce"]
      BY <2>1, <1>1, <1>2, <1>5, ContractFactsPrimed DEF ContractView
    <2>3. \A c \in Consumers \ {e} : SeenBy(c)' = SeenBy(c)
      BY <1>1, <1>2, ConsumerKept, EndFacts
    <2>4. /\ SeenBy(e)' = Contract!Window(moved[e]["Consume"], n)
          /\ Len(SeenBy(e)) = Held(e, "Consume")
      BY <2>1, <1>1, <1>2, <1>5, ContractFacts, ContractFactsPrimed DEF ContractView
    <2>5. acquired'[Prod]["Produce"] = acquired[Prod]["Produce"]
      BY <2>1, <1>2, EndFacts
    <2>6. [c \in Consumers |-> SeenBy(c)]'
            = [[c \in Consumers |-> SeenBy(c)] EXCEPT ![e] = Contract!Window(moved[e]["Consume"], n)]
      BY <2>3, <2>4, <1>5
    <2>7. Contract!ConsumerAcquire(e, n)
      BY <2>1, <2>2, <2>4, <2>5, <2>6, <1>1, <1>3, <1>5 DEF Contract!ConsumerAcquire
    <2> QED BY <2>7, <1>3, <1>5 DEF Contract!Next
  <1> QED BY <1>4, <1>5, EndFacts

LEMMA ReleaseRefines ==
    ASSUME FlowInv, FlowInv', NEW e \in Ends, NEW m, CoreRelease(e, m)
    PROVE  Contract!Next
  <1> DEFINE p == CorePort(e)
             n == Held(e, p)
  <1>1. /\ p \in Ports /\ n \in Nat /\ moved[e][p] \in Nat
        /\ m \in 1 .. n /\ Give(e, p, m) /\ DmaInv /\ Objects \in Nat
        /\ moved[e][p] + n <= Objects
    BY EndFacts, ContractFacts DEF ContractView, CoreRelease, FlowInv, Held
  <1>2. /\ Held(e, p)' = n - m /\ moved'[e][p] = moved[e][p] + m
        /\ \A f \in Ends, q \in Ports : (f # e \/ q # p) =>
              acquired'[f][q] = acquired[f][q] /\ moved'[f][q] = moved[f][q]
    BY <1>1, GiveEffect
  <1>3. m \in 1 .. Objects
    BY <1>1
  <1>4. CASE e = Prod
    <2>1. p = "Produce"
      BY <1>4, EndFacts
    <2>2. \A c \in Consumers : SeenBy(c)' = SeenBy(c) /\ moved'[c]["Consume"] = moved[c]["Consume"]
      BY <1>2, <1>4, ConsumerKept, EndFacts
    <2>3. Contract!ProducerRelease(m)
      BY <2>1, <2>2, <1>1, <1>2, <1>4 DEF Contract!ProducerRelease, Held
    <2> QED BY <2>3, <1>3 DEF Contract!Next
  <1>5. CASE e \in Consumers
    <2>1. p = "Consume" /\ e # Prod
      BY <1>5, EndFacts
    <2>2. \A c \in Consumers \ {e} : SeenBy(c)' = SeenBy(c) /\ moved'[c]["Consume"] = moved[c]["Consume"]
      BY <1>2, ConsumerKept, EndFacts
    <2>3. /\ SeenBy(e) = Contract!Window(moved[e]["Consume"], n) /\ Len(SeenBy(e)) = n
          /\ SeenBy(e)' = Contract!Window(moved[e]["Consume"] + m, n - m)
      BY <2>1, <1>2, <1>5, ContractFacts, ContractFactsPrimed DEF ContractView
    <2>4. SeenBy(e)' = SubSeq(SeenBy(e), m + 1, Len(SeenBy(e)))
      <3> DEFINE k == moved[e]["Consume"]
      <3>1. k \in Nat /\ n \in Nat /\ m \in 1 .. n
        BY <2>1, <1>1
      <3> HIDE DEF k, n
      <3>2. SubSeq(Contract!Window(k, n), m + 1, n) = Contract!Window(k + m, n - m)
        BY <3>1, WindowTail DEF Contract!Window
      <3> QED BY <3>2, <2>3 DEF k
    <2>5. acquired'[Prod]["Produce"] = acquired[Prod]["Produce"] /\ moved'[Prod]["Produce"] = moved[Prod]["Produce"]
      BY <2>1, <1>2, EndFacts
    <2>6. /\ [c \in Consumers |-> SeenBy(c)]'
                = [[c \in Consumers |-> SeenBy(c)] EXCEPT
                     ![e] = SubSeq(SeenBy(e), m + 1, Len(SeenBy(e)))]
          /\ [c \in Consumers |-> moved[c]["Consume"]]'
                = [[c \in Consumers |-> moved[c]["Consume"]] EXCEPT ![e] = moved[e]["Consume"] + m]
      BY <2>1, <2>2, <2>4, <1>2, <1>5
    <2>7. Contract!ConsumerRelease(e, m)
      BY <2>3, <2>5, <2>6, <1>1, <1>5 DEF Contract!ConsumerRelease
    <2> QED BY <2>7, <1>3, <1>5 DEF Contract!Next
  <1> QED BY <1>4, <1>5, EndFacts

LEMMA StepRefines == FlowInv /\ FlowInv' /\ [Next]_vars => [Contract!Next]_Contract!vars
  <1> SUFFICES ASSUME FlowInv, FlowInv', [Next]_vars PROVE [Contract!Next]_Contract!vars
    OBVIOUS
  <1>0. DmaInv
    BY DEF FlowInv
  <1>1. ASSUME UNCHANGED <<acquired, moved>> PROVE UNCHANGED Contract!vars
    <2>1. \A e \in Ends : /\ Held(e, CorePort(e))' = Held(e, CorePort(e))
                          /\ moved'[e][CorePort(e)] = moved[e][CorePort(e)]
      BY <1>1 DEF Held, CorePort
    <2> QED BY <2>1, ContractStutter
  <1>2. ASSUME NEW e \in Ends, CoreStep(e) PROVE [Contract!Next]_Contract!vars
    <2>1. ASSUME NEW n, CoreAcquire(e, n) PROVE UNCHANGED Contract!vars
      BY <2>1, <1>1 DEF CoreAcquire
    <2>2. ASSUME NEW i, CoreWrites(i) PROVE UNCHANGED Contract!vars
      BY <2>2, <1>1 DEF CoreWrites
    <2> QED BY <2>1, <2>2, <1>2, ReleaseRefines DEF CoreStep
  <1>3. ASSUME NEW e \in Ends, DmaStep(e) PROVE UNCHANGED Contract!vars
    <2> DEFINE p == DmaPort(e)
    <2>1. /\ \A f \in Ends, q \in Ports : (f # e \/ q # p) =>
                acquired'[f][q] = acquired[f][q] /\ moved'[f][q] = moved[f][q]
      <3>1. CASE BdAcquire(e)
        <4>1. Take(e, p, 1) /\ moved' = moved /\ p \in Ports
          BY <3>1, EndFacts DEF BdAcquire
        <4> QED BY <4>1, <1>0, TakeEffect
      <3>2. CASE e = Prod /\ Mm2sSends
        <4>1. Give(e, p, 1) /\ p \in Ports /\ acquired[e][p] # <<>>
          BY <3>2, EndFacts DEF Mm2sSends
        <4>2. 1 \in 1 .. Held(e, p)
          BY <4>1, <1>0, PortTypes DEF Held, DmaInv
        <4> QED BY <4>1, <4>2, <1>0, GiveEffect
      <3>3. CASE e \in Consumers /\ S2mmStores(e)
        <4>1. Give(e, p, 1) /\ p \in Ports /\ acquired[e][p] # <<>>
          BY <3>3, EndFacts DEF S2mmStores
        <4>2. 1 \in 1 .. Held(e, p)
          BY <4>1, <1>0, PortTypes DEF Held, DmaInv
        <4> QED BY <4>1, <4>2, <1>0, GiveEffect
      <3> QED BY <1>3, <3>1, <3>2, <3>3 DEF DmaStep
    <2>2. \A f \in Ends : /\ Held(f, CorePort(f))' = Held(f, CorePort(f))
                          /\ moved'[f][CorePort(f)] = moved[f][CorePort(f)]
      <3> TAKE f \in Ends
      <3>1. CorePort(f) \in Ports /\ (f # e \/ CorePort(f) # p)
        BY EndFacts
      <3> QED BY <3>1, <2>1 DEF Held, CorePort
    <2> QED BY <2>2, ContractStutter
  <1>4. ASSUME UNCHANGED vars PROVE UNCHANGED Contract!vars
    BY <1>1, <1>4 DEF vars
  <1> QED BY <1>2, <1>3, <1>4, TakeRefines DEF Next, Terminating

(* An objectFifo split over DMA channels and the stream implements the     *)
(* contract for every number of consumers of the broadcast, every depth    *)
(* and every program: each consumer gets every object once, in order, and  *)
(* unmodified while it holds it.                                           *)
THEOREM DmaKeepsContract == Spec => ContractSpec
  <1>1. Init => Contract!Init
    BY InitRefines
  <1>2. FlowInv /\ FlowInv' /\ [Next]_vars => [Contract!Next]_Contract!vars
    BY StepRefines
  <1> QED BY <1>1, <1>2, FlowInvariant, PTL DEF Spec, ContractSpec, Contract!Spec
=============================================================================
