----------------------- MODULE ObjectFifoLocksProofs -----------------------
(***************************************************************************)
(* Proofs about ObjectFifoLocks for every depth, every pair of windows and *)
(* every number of objects.                                                *)
(*                                                                         *)
(* The locks only count: nothing in the lowered program says which buffer  *)
(* a unit of a lock stands for.  The inductive invariant ties the counts   *)
(* to the buffers: buffer indices follow the number of objects moved       *)
(* (Indexed), and the units of both locks and both subviews add up to the  *)
(* depth (Conserved, InFlight), so the two subviews are at most Depth      *)
(* positions apart in the ring and share no buffer.                        *)
(***************************************************************************)
EXTENDS ObjectFifoLocks, ArithmeticLemmas, SequenceTheorems, TLAPS

Held(p) == Len(acquired[p])

(* Every unit is free, filled or held.                                     *)
Conserved == lock["Produce"] + Held("Produce") + lock["Consume"] + Held("Consume") = Depth

(* The objects between the two ends are those filled or held by the        *)
(* consumer.                                                               *)
InFlight == moved["Produce"] = moved["Consume"] + Held("Consume") + lock["Consume"]

(* The i-th buffer of a subview is that of the port's i-th next object.    *)
Indexed == \A p \in Ports : \A i \in 1 .. Held(p) :
              acquired[p][i] = (moved[p] + (i - 1)) % Depth

NextIndexed == \A p \in Ports : next[p] = (moved[p] + Held(p)) % Depth

(* A buffer keeps its object from its release by the producer to its       *)
(* release by the consumer.                                                *)
Contents == \A k \in Nat : moved["Consume"] <= k /\ k < moved["Produce"]
                              => buff[k % Depth] = k + 1

(* A request fits in the window of the port's program.                     *)
WindowBound == \A p \in Ports : want[p] > 0 => want[p] + Held(p) <= MaxAcquire[p]

(* A port neither holds nor asks for objects beyond the end of its program. *)
ProgramBound == \A p \in Ports : moved[p] + Held(p) + want[p] <= Objects

IInv == /\ TypeOK /\ Conserved /\ InFlight /\ Indexed /\ NextIndexed /\ Contents
        /\ WindowBound /\ ProgramBound
-----------------------------------------------------------------------------
(* The two ports, and the assumptions on the constants unfolded.           *)
LEMMA PortFacts == /\ Ports = {"Produce", "Consume"}
                   /\ \A p \in Ports : Other(p) \in Ports /\ Other(p) # p
                   /\ Depth \in Nat \ {0}
                   /\ MaxAcquire \in [Ports -> Nat]
                   /\ Objects \in Nat
  BY LocksAssumption DEF Ports, Other

(* Index arithmetic stays within the buffers.                              *)
LEMMA IndexInBuffers == \A k \in Nat : k % Depth \in Buffers
  BY LocksAssumption, ModRange DEF Buffers

(* The indices appended to a subview are buffers, one per lock taken, and  *)
(* continue the subview's positions in the ring.                           *)
LEMMA NextIndicesFacts ==
    ASSUME IInv, NEW p \in Ports, NEW n \in Nat
    PROVE  /\ NextIndices(p, n) \in Seq(Buffers)
           /\ Len(NextIndices(p, n)) = n
           /\ \A i \in 1 .. n : NextIndices(p, n)[i]
                                  = (moved[p] + Held(p) + (i - 1)) % Depth
<1>1. \A i \in 1 .. n : (next[p] + (i - 1)) % Depth
                          = (moved[p] + Held(p) + (i - 1)) % Depth
  <2> TAKE i \in 1 .. n
  <2>1. moved[p] + Held(p) \in Nat /\ i - 1 \in Nat
    BY DEF IInv, TypeOK, Held
  <2>2. next[p] = (moved[p] + Held(p)) % Depth
    BY DEF IInv, NextIndexed
  <2>3. (((moved[p] + Held(p)) % Depth) + (i - 1)) % Depth
        = (moved[p] + Held(p) + (i - 1)) % Depth
    BY <2>1, PortFacts, ModAdvance
  <2> QED BY <2>2, <2>3
<1>2. \A i \in 1 .. n : (next[p] + (i - 1)) % Depth \in Buffers
  <2> TAKE i \in 1 .. n
  <2>1. next[p] + (i - 1) \in Nat
    <3>1. next[p] \in Nat
      BY DEF IInv, TypeOK, Buffers
    <3> QED BY <3>1
  <2> QED BY <2>1, IndexInBuffers
<1> QED BY <1>1, <1>2 DEF NextIndices

LEMMA InitIInv == Init => IInv
<1> SUFFICES ASSUME Init PROVE IInv
  OBVIOUS
<1> USE PortFacts DEF Init
<1>1. TypeOK
  BY DEF TypeOK, Buffers, InitLock
<1>2. \A p \in Ports : Held(p) = 0
  BY DEF Held
<1>3. Conserved /\ InFlight
  BY <1>2 DEF Conserved, InFlight, InitLock
<1>4. Indexed
  BY <1>2 DEF Indexed
<1>5. NextIndexed
  <2>1. 0 % Depth = 0
    BY ModRange, SMT
  <2> QED BY <1>2, <2>1 DEF NextIndexed
<1>6. Contents
  BY DEF Contents
<1>7. WindowBound
  BY DEF WindowBound
<1>8. ProgramBound
  BY <1>2 DEF ProgramBound
<1> QED BY <1>1, <1>3, <1>4, <1>5, <1>6, <1>7, <1>8 DEF IInv

LEMMA AcquireIInv ==
    ASSUME IInv, NEW p \in Ports, NEW n \in 1 .. MaxAcquire[p], Acquire(p, n)
    PROVE  IInv'
<1> USE DEF Acquire
<1>1. NumCreate(p, n) \in Nat /\ NumCreate(p, n) + Held(p) <= MaxAcquire[p]
  BY PortFacts DEF NumCreate, Held, IInv, TypeOK
<1>2. TypeOK'
  BY <1>1 DEF IInv, TypeOK
<1>3. \A q \in Ports : Held(q)' = Held(q)
  BY DEF Held
<1>4. (Conserved /\ InFlight /\ Indexed /\ NextIndexed /\ Contents)'
  BY DEF IInv, Conserved, InFlight, Indexed, NextIndexed, Contents, Held
<1>5. WindowBound'
  BY <1>1, <1>3 DEF IInv, TypeOK, WindowBound
<1>6. ProgramBound'
  <2>1. want'[p] = n - Held(p) /\ \A q \in Ports \ {p} : want'[q] = want[q]
    BY DEF IInv, TypeOK, NumCreate, Held
  <2>2. moved[p] \in Nat /\ Held(p) \in Nat /\ n \in Nat /\ moved[p] + n <= Objects
    BY PortFacts DEF IInv, TypeOK, Held
  <2> QED BY <2>1, <2>2, <1>3 DEF IInv, ProgramBound
<1> QED BY <1>2, <1>4, <1>5, <1>6 DEF IInv

LEMMA TakeLocksIInv ==
    ASSUME IInv, NEW p \in Ports, TakeLocks(p)
    PROVE  IInv'
<1> DEFINE n == want[p]
<1> USE DEF TakeLocks
<1>1. /\ n \in Nat /\ n > 0 /\ lock[p] - n \in Nat
      /\ acquired[p] \in Seq(Buffers) /\ Held(p) \in Nat
      /\ Held(p) = Len(acquired[p])
  <2>1. lock[p] \in Nat /\ n \in Nat /\ acquired[p] \in Seq(Buffers)
    BY DEF IInv, TypeOK
  <2>2. n > 0 /\ lock[p] >= n
    OBVIOUS
  <2> QED BY <2>1, <2>2 DEF Held
<1>2. /\ NextIndices(p, n) \in Seq(Buffers)
      /\ Len(NextIndices(p, n)) = n
      /\ \A i \in 1 .. n : NextIndices(p, n)[i]
                             = (moved[p] + Held(p) + (i - 1)) % Depth
  BY <1>1, NextIndicesFacts
<1>3. /\ acquired'[p] = acquired[p] \o NextIndices(p, n)
      /\ \A q \in Ports \ {p} : acquired'[q] = acquired[q]
      /\ lock'[p] = lock[p] - n
      /\ \A q \in Ports \ {p} : lock'[q] = lock[q]
      /\ next'[p] = (next[p] + n) % Depth
      /\ \A q \in Ports \ {p} : next'[q] = next[q]
      /\ want'[p] = 0
      /\ \A q \in Ports \ {p} : want'[q] = want[q]
      /\ buff' = buff /\ moved' = moved
  BY DEF IInv, TypeOK
<1> HIDE DEF TakeLocks, n
<1>4. /\ Held(p)' = Held(p) + n
      /\ \A q \in Ports \ {p} : Held(q)' = Held(q)
  <2> DEFINE s == acquired[p]
             t == NextIndices(p, n)
  <2>0. s \in Seq(Buffers) /\ t \in Seq(Buffers) /\ Len(t) = n
    BY <1>1, <1>2
  <2> HIDE DEF t
  <2>1. Len(s \o t) = Len(s) + n
    BY <2>0, ConcatProperties
  <2> USE DEF t
  <2> QED BY <2>1, <1>3 DEF Held
<1>5. TypeOK'
  <2>1. acquired' \in [Ports -> Seq(Buffers)]
    <3>1. acquired[p] \o NextIndices(p, n) \in Seq(Buffers)
      BY <1>1, <1>2, ConcatProperties
    <3> QED BY <3>1 DEF IInv, TypeOK, TakeLocks, n
  <2>2. next' \in [Ports -> Buffers]
    <3>1. next[p] \in Nat /\ next[p] + n \in Nat
      BY <1>1 DEF IInv, TypeOK, Buffers
    <3>2. (next[p] + n) % Depth \in Buffers
      BY <3>1, IndexInBuffers
    <3> QED BY <3>2 DEF IInv, TypeOK, TakeLocks, n
  <2>3. lock' \in [Ports -> Nat]
    BY <1>1 DEF IInv, TypeOK, TakeLocks, n
  <2> QED BY <1>3, <2>1, <2>2, <2>3 DEF IInv, TypeOK, TakeLocks
<1>6. (Conserved /\ InFlight)'
  <2>1. \A q \in Ports : Held(q) \in Nat /\ lock[q] \in Nat /\ moved[q] \in Nat
    BY DEF IInv, TypeOK, Held
  <2>2. CASE p = "Produce"
    <3>1. /\ Held("Consume")' = Held("Consume") /\ lock'["Consume"] = lock["Consume"]
          /\ Held("Produce")' = Held("Produce") + n /\ lock'["Produce"] = lock["Produce"] - n
      BY <2>2, <1>3, <1>4 DEF Ports
    <3> QED BY <2>1, <3>1, <1>1, <1>3 DEF Ports, IInv, Conserved, InFlight
  <2>3. CASE p = "Consume"
    <3>1. /\ Held("Produce")' = Held("Produce") /\ lock'["Produce"] = lock["Produce"]
          /\ Held("Consume")' = Held("Consume") + n /\ lock'["Consume"] = lock["Consume"] - n
      BY <2>3, <1>3, <1>4 DEF Ports
    <3>2. Conserved'
      BY <2>1, <3>1, <1>1 DEF Ports, IInv, Conserved
    <3>3. moved' = moved
      BY <1>3
    <3>4. InFlight'
      BY <2>1, <3>1, <3>3, <1>1 DEF Ports, IInv, InFlight
    <3> QED BY <3>2, <3>4
  <2> QED BY <2>2, <2>3 DEF Ports
<1>7. Indexed'
  <2> SUFFICES ASSUME NEW q \in Ports, NEW i \in 1 .. Held(q)'
               PROVE  acquired'[q][i] = (moved[q] + (i - 1)) % Depth
    BY <1>3 DEF Indexed
  <2>1. CASE q # p
    BY <2>1, <1>3, <1>4 DEF IInv, Indexed
  <2>2. CASE q = p /\ i <= Held(p)
    <3>1. acquired'[p][i] = acquired[p][i]
      BY <2>2, <1>1, <1>2, <1>3, ConcatProperties
    <3> QED BY <3>1, <2>2, <1>1 DEF IInv, Indexed
  <2>3. CASE q = p /\ i > Held(p)
    <3> DEFINE j == i - Held(p)
    <3>1. j \in 1 .. n
      BY <2>3, <1>1, <1>4
    <3>2. acquired'[p][i] = NextIndices(p, n)[j]
      BY <3>1, <2>3, <1>1, <1>2, <1>3, ConcatProperties
    <3>3. moved[p] + Held(p) + (j - 1) = moved[p] + (i - 1)
      BY <2>3, <1>1, <1>4 DEF IInv, TypeOK
    <3> QED BY <3>1, <3>2, <3>3, <1>2, <2>3
  <2> QED BY <2>1, <2>2, <2>3, <1>1, <1>4
<1>8. NextIndexed'
  <2>1. moved[p] + Held(p) \in Nat
    BY <1>1 DEF IInv, TypeOK
  <2>2. (((moved[p] + Held(p)) % Depth) + n) % Depth = (moved[p] + Held(p) + n) % Depth
    BY <2>1, <1>1, PortFacts, ModAdvance
  <2>3. moved[p] + Held(p) + n = moved[p] + (Held(p) + n)
    BY <1>1 DEF IInv, TypeOK
  <2>4. next'[p] = (moved'[p] + Held(p)') % Depth
    BY <2>2, <2>3, <1>3, <1>4 DEF IInv, NextIndexed
  <2> QED BY <2>4, <1>3, <1>4 DEF IInv, NextIndexed
<1>9. Contents'
  BY <1>3 DEF IInv, Contents
<1>10. WindowBound'
  BY <1>3, <1>4 DEF IInv, WindowBound
<1>11. ProgramBound'
  <2>1. moved[p] + Held(p) + n <= Objects /\ moved[p] \in Nat
    BY DEF IInv, TypeOK, ProgramBound, n
  <2>2. moved'[p] + Held(p)' + want'[p] <= Objects
    BY <2>1, <1>1, <1>3, <1>4
  <2> QED BY <2>2, <1>3, <1>4 DEF IInv, ProgramBound
<1> QED BY <1>5, <1>6, <1>7, <1>8, <1>9, <1>10, <1>11 DEF IInv

(* The subviews are sequences of buffers, and the counters are numbers.     *)
LEMMA StateFacts ==
    ASSUME IInv
    PROVE  \A p \in Ports : /\ Held(p) \in Nat /\ lock[p] \in Nat /\ moved[p] \in Nat
                            /\ acquired[p] \in Seq(Buffers)
                            /\ Held(p) = Len(acquired[p])
<1> TAKE p \in Ports
<1>1. lock[p] \in Nat /\ moved[p] \in Nat /\ acquired[p] \in Seq(Buffers)
  BY DEF IInv, TypeOK
<1> QED BY <1>1, LenProperties DEF Held

(* The producer's window starts where the filled buffers end and stops     *)
(* less than a turn of the ring after the oldest object not yet released.  *)
LEMMA WindowFits ==
    ASSUME IInv
    PROVE  /\ moved["Consume"] + Held("Consume") <= moved["Produce"]
           /\ moved["Produce"] + Held("Produce") <= moved["Consume"] + Depth
<1>1. \A p \in Ports : Held(p) \in Nat /\ lock[p] \in Nat /\ moved[p] \in Nat
  BY StateFacts
<1> QED BY <1>1, PortFacts DEF IInv, Conserved, InFlight, Ports

(* A buffer of the producer's window holds no object still in flight.      *)
LEMMA WindowIsFree ==
    ASSUME IInv, NEW i \in 1 .. Held("Produce"), NEW k \in Nat,
           moved["Consume"] <= k, k < moved["Produce"] + (i - 1)
    PROVE  acquired["Produce"][i] # k % Depth
<1>1. /\ moved["Produce"] \in Nat /\ moved["Consume"] \in Nat
      /\ Held("Produce") \in Nat
  BY StateFacts DEF Ports
<1> DEFINE n == moved["Produce"] + (i - 1)
<1>2. n \in Nat /\ k < n /\ n - k < Depth
  BY <1>1, WindowFits, PortFacts
<1>3. k % Depth # n % Depth
  BY <1>2, PortFacts, ModDistinct
<1>4. acquired["Produce"][i] = n % Depth
  BY DEF IInv, Indexed, Ports
<1> QED BY <1>3, <1>4

LEMMA WriteIInv ==
    ASSUME IInv, NEW i \in 1 .. MaxAcquire["Produce"], Write(i)
    PROVE  IInv'
<1> DEFINE b == acquired["Produce"][i]
<1>1. /\ i \in 1 .. Held("Produce")
      /\ moved["Produce"] + i \in Nat
      /\ buff' = [buff EXCEPT ![b] = moved["Produce"] + i]
      /\ UNCHANGED <<lock, next, acquired, want, moved>>
  BY StateFacts DEF Write, Held, Ports
<1>2. TypeOK'
  BY <1>1 DEF IInv, TypeOK
<1>3. (Conserved /\ InFlight /\ Indexed /\ NextIndexed
        /\ WindowBound /\ ProgramBound)'
  BY <1>1 DEF IInv, Conserved, InFlight, Indexed, NextIndexed, WindowBound,
              ProgramBound, Held
<1>4. Contents'
  <2> SUFFICES ASSUME NEW k \in Nat, moved["Consume"] <= k, k < moved["Produce"]
               PROVE  buff'[k % Depth] = k + 1
    BY <1>1 DEF Contents
  <2>1. k < moved["Produce"] + (i - 1)
    BY <1>1, StateFacts DEF Ports
  <2>2. b # k % Depth
    BY <1>1, <2>1, WindowIsFree
  <2>3. k % Depth \in Buffers /\ buff \in [Buffers -> Nat]
    BY IndexInBuffers DEF IInv, TypeOK
  <2> QED BY <1>1, <2>2, <2>3 DEF IInv, Contents
<1> QED BY <1>2, <1>3, <1>4 DEF IInv

(* What is left of a subview after its m oldest objects are released.      *)
LEMMA SubviewTail ==
    ASSUME IInv, NEW p \in Ports, NEW m \in 1 .. Held(p)
    PROVE  LET rest == SubSeq(acquired[p], m + 1, Len(acquired[p]))
           IN  /\ rest \in Seq(Buffers)
               /\ Len(rest) = Held(p) - m
               /\ \A i \in 1 .. Held(p) - m : rest[i] = acquired[p][i + m]
<1> DEFINE s == acquired[p]
           n == Len(acquired[p])
           rest == SubSeq(s, m + 1, n)
<1>1. s \in Seq(Buffers) /\ n \in Nat /\ n = Held(p) /\ m + 1 \in Int /\ n \in Int
  BY StateFacts
<1>2. \A i \in (m + 1) .. n : s[i] \in Buffers
  BY <1>1, ElementOfSeq
<1> HIDE DEF s, n
<1>3. /\ SubSeq(s, m + 1, n) \in Seq(Buffers)
      /\ Len(SubSeq(s, m + 1, n)) = IF m + 1 <= n THEN n - (m + 1) + 1 ELSE 0
      /\ \A i \in 1 .. n - (m + 1) + 1 : SubSeq(s, m + 1, n)[i] = s[(m + 1) + i - 1]
  BY <1>1, <1>2, SubSeqProperties
<1>4. Len(rest) = Held(p) - m
  BY <1>1, <1>3
<1>5. \A i \in 1 .. Held(p) - m : rest[i] = s[i + m]
  BY <1>1, <1>3
<1> QED BY <1>3, <1>4, <1>5 DEF s, n

LEMMA ReleaseIInv ==
    ASSUME IInv, NEW p \in Ports, NEW m \in 1 .. MaxAcquire[p], Release(p, m)
    PROVE  IInv'
<1> DEFINE rest == SubSeq(acquired[p], m + 1, Len(acquired[p]))
<1>1. /\ m \in 1 .. Held(p)
      /\ p = "Produce" => Written(m)
      /\ lock' = [lock EXCEPT ![Other(p)] = @ + m]
      /\ acquired' = [acquired EXCEPT ![p] = rest]
      /\ moved' = [moved EXCEPT ![p] = @ + m]
      /\ want[p] = 0 /\ UNCHANGED <<next, want, buff>>
  BY DEF Release, Held
<1>2. /\ rest \in Seq(Buffers)
      /\ Len(rest) = Held(p) - m
      /\ \A i \in 1 .. Held(p) - m : rest[i] = acquired[p][i + m]
  BY <1>1, SubviewTail
<1> HIDE DEF rest
<1>3. \A q \in Ports : /\ Held(q) \in Nat /\ lock[q] \in Nat /\ moved[q] \in Nat
  BY StateFacts
<1>4. /\ acquired'[p] = rest /\ moved'[p] = moved[p] + m
      /\ lock'[Other(p)] = lock[Other(p)] + m /\ lock'[p] = lock[p]
      /\ \A q \in Ports \ {p} : acquired'[q] = acquired[q] /\ moved'[q] = moved[q]
  BY <1>1, PortFacts DEF IInv, TypeOK
<1>5. /\ Held(p)' = Held(p) - m
      /\ \A q \in Ports \ {p} : Held(q)' = Held(q)
  BY <1>2, <1>4 DEF Held
<1>6. TypeOK'
  <2>1. Other(p) \in Ports /\ lock[Other(p)] + m \in Nat /\ moved[p] + m \in Nat
    BY <1>1, <1>3, PortFacts
  <2> QED BY <1>1, <1>2, <2>1 DEF IInv, TypeOK
<1>7. (Conserved /\ InFlight)'
  <2>1. CASE p = "Produce"
    <3>1. /\ Held("Produce")' = Held("Produce") - m /\ Held("Consume")' = Held("Consume")
          /\ lock'["Consume"] = lock["Consume"] + m /\ lock'["Produce"] = lock["Produce"]
          /\ moved'["Produce"] = moved["Produce"] + m /\ moved'["Consume"] = moved["Consume"]
      BY <2>1, <1>4, <1>5 DEF Ports, Other
    <3>2. Conserved'
      BY <1>1, <1>3, <3>1 DEF Ports, IInv, Conserved
    <3>3. InFlight'
      BY <1>1, <1>3, <3>1 DEF Ports, IInv, InFlight
    <3> QED BY <3>2, <3>3
  <2>2. CASE p = "Consume"
    <3>1. /\ Held("Consume")' = Held("Consume") - m /\ Held("Produce")' = Held("Produce")
          /\ lock'["Produce"] = lock["Produce"] + m /\ lock'["Consume"] = lock["Consume"]
          /\ moved'["Consume"] = moved["Consume"] + m /\ moved'["Produce"] = moved["Produce"]
      BY <2>2, <1>4, <1>5 DEF Ports, Other
    <3>2. Conserved'
      BY <1>1, <1>3, <3>1 DEF Ports, IInv, Conserved
    <3>3. InFlight'
      BY <1>1, <1>3, <3>1 DEF Ports, IInv, InFlight
    <3> QED BY <3>2, <3>3
  <2> QED BY <2>1, <2>2 DEF Ports
<1>8. Indexed'
  <2> SUFFICES ASSUME NEW q \in Ports, NEW i \in 1 .. Held(q)'
               PROVE  acquired'[q][i] = (moved'[q] + (i - 1)) % Depth
    BY DEF Indexed
  <2>1. CASE q # p
    BY <2>1, <1>4, <1>5 DEF IInv, Indexed
  <2>2. CASE q = p
    <3>1. i \in 1 .. Held(p) - m /\ i + m \in 1 .. Held(p)
      BY <2>2, <1>1, <1>3, <1>5
    <3>2. acquired'[p][i] = acquired[p][i + m]
      BY <3>1, <1>2, <1>4
    <3>3. acquired[p][i + m] = (moved[p] + (i + m - 1)) % Depth
      BY <3>1 DEF IInv, Indexed
    <3>4. moved[p] + (i + m - 1) = moved'[p] + (i - 1)
      BY <3>1, <1>1, <1>3, <1>4
    <3> QED BY <2>2, <3>2, <3>3, <3>4
  <2> QED BY <2>1, <2>2
<1>9. NextIndexed'
  <2> SUFFICES ASSUME NEW q \in Ports
               PROVE  next[q] = (moved'[q] + Held(q)') % Depth
    BY <1>1 DEF NextIndexed
  <2>1. moved'[q] + Held(q)' = moved[q] + Held(q)
    BY <1>1, <1>3, <1>4, <1>5
  <2> QED BY <2>1 DEF IInv, NextIndexed
<1>10. Contents'
  <2> SUFFICES ASSUME NEW k \in Nat, moved'["Consume"] <= k, k < moved'["Produce"]
               PROVE  buff[k % Depth] = k + 1
    BY <1>1 DEF Contents
  <2>1. CASE p = "Consume"
    <3>1. moved["Consume"] <= k /\ k < moved["Produce"]
      BY <2>1, <1>1, <1>3, <1>4 DEF Ports
    <3> QED BY <3>1 DEF IInv, Contents
  <2>2. CASE p = "Produce" /\ k < moved["Produce"]
    <3>1. moved["Consume"] <= k
      BY <2>2, <1>4 DEF Ports
    <3> QED BY <3>1, <2>2 DEF IInv, Contents
  <2>3. CASE p = "Produce" /\ moved["Produce"] <= k
    <3> DEFINE i == k - moved["Produce"] + 1
    <3>1. i \in 1 .. m /\ i \in 1 .. Held("Produce")
      BY <2>3, <1>1, <1>3, <1>4 DEF Ports
    <3>2. moved["Produce"] + i = k + 1 /\ moved["Produce"] + (i - 1) = k
      BY <2>3, <1>3 DEF Ports
    <3> HIDE DEF i
    <3>3. buff[acquired["Produce"][i]] = k + 1
      BY <2>3, <3>1, <3>2, <1>1 DEF Written
    <3>4. acquired["Produce"][i] = k % Depth
      BY <3>1, <3>2 DEF IInv, Indexed, Ports
    <3> QED BY <3>3, <3>4
  <2> QED BY <2>1, <2>2, <2>3, <1>3 DEF Ports
<1>11. WindowBound'
  <2> SUFFICES ASSUME NEW q \in Ports, want[q] > 0
               PROVE  want[q] + Held(q)' <= MaxAcquire[q]
    BY <1>1 DEF WindowBound
  <2>1. q # p
    BY <1>1
  <2> QED BY <2>1, <1>5 DEF IInv, WindowBound
<1>12. ProgramBound'
  <2>1. moved'[p] + Held(p)' = moved[p] + Held(p) /\ want' = want
    BY <1>1, <1>3, <1>4, <1>5
  <2> QED BY <2>1, <1>4, <1>5 DEF IInv, ProgramBound
<1> QED BY <1>6, <1>7, <1>8, <1>9, <1>10, <1>11, <1>12 DEF IInv

LEMMA StepIInv == IInv /\ [Next]_vars => IInv'
<1> SUFFICES ASSUME IInv, [Next]_vars PROVE IInv'
  OBVIOUS
<1>1. ASSUME NEW p \in Ports, CoreStep(p) PROVE IInv'
  BY <1>1, AcquireIInv, ReleaseIInv, WriteIInv DEF CoreStep
<1>2. ASSUME NEW p \in Ports, TakeLocks(p) PROVE IInv'
  BY <1>2, TakeLocksIInv
<1>3. ASSUME UNCHANGED vars PROVE IInv'
  BY <1>3 DEF vars, IInv, TypeOK, Conserved, InFlight, Indexed, NextIndexed,
              Contents, WindowBound, ProgramBound, Held
<1> QED BY <1>1, <1>2, <1>3 DEF Next, Terminating

(* The inductive invariant holds of every run.                             *)
LEMMA AlwaysIInv == Spec => []IInv
  BY InitIInv, StepIInv, PTL DEF Spec

-----------------------------------------------------------------------------
(* Type correctness: in particular no lock ever goes below zero and no      *)
(* subview leaves the buffers that createObjectFifoElements made.          *)
THEOREM TypeCorrect == Spec => []TypeOK
<1>1. IInv => TypeOK
  BY DEF IInv
<1> QED BY AlwaysIInv, <1>1, PTL

(* The same buffer appears once in a subview.                              *)
LEMMA SubviewInjective ==
    ASSUME IInv, NEW p \in Ports, NEW i \in 1 .. Held(p), NEW j \in 1 .. Held(p), i < j
    PROVE  acquired[p][i] # acquired[p][j]
<1> DEFINE k == moved[p] + (i - 1)
           n == moved[p] + (j - 1)
<1>1. moved[p] \in Nat /\ Held(p) \in Nat
  BY StateFacts
<1>2. Held(p) <= Depth
  <2>1. \A q \in Ports : Held(q) \in Nat /\ lock[q] \in Nat
    BY StateFacts
  <2> QED BY <2>1, PortFacts DEF IInv, Conserved, Ports
<1>3. k \in Nat /\ n \in Nat /\ k < n /\ n - k < Depth
  BY <1>1, <1>2, PortFacts
<1>4. k % Depth # n % Depth
  BY <1>3, PortFacts, ModDistinct
<1>5. acquired[p][i] = k % Depth /\ acquired[p][j] = n % Depth
  BY DEF IInv, Indexed
<1> HIDE DEF k, n
<1> QED BY <1>4, <1>5

LEMMA ExclusionFromIInv == IInv => MutualExclusion
<1> SUFFICES ASSUME IInv PROVE MutualExclusion
  OBVIOUS
<1>1. ASSUME NEW i \in 1 .. Held("Produce"), NEW j \in 1 .. Held("Consume")
      PROVE  acquired["Produce"][i] # acquired["Consume"][j]
  <2> DEFINE k == moved["Consume"] + (j - 1)
  <2>1. k \in Nat /\ moved["Consume"] <= k /\ k < moved["Produce"] + (i - 1)
    <3>1. moved["Consume"] \in Nat /\ moved["Produce"] \in Nat /\ Held("Consume") \in Nat
      BY StateFacts DEF Ports
    <3> QED BY <3>1, WindowFits
  <2>2. acquired["Consume"][j] = k % Depth
    BY DEF IInv, Indexed, Ports
  <2> HIDE DEF k
  <2>3. acquired["Produce"][i] # k % Depth
    BY <2>1, WindowIsFree
  <2> QED BY <2>2, <2>3
<1>2. ASSUME NEW p \in Ports, NEW i \in 1 .. Held(p), NEW j \in 1 .. Held(p), i # j
      PROVE  acquired[p][i] # acquired[p][j]
  <2>1. i < j \/ j < i
    BY <1>2, StateFacts
  <2> QED BY <2>1, SubviewInjective
<1> QED BY <1>1, <1>2 DEF MutualExclusion, Held

(* Two cores that share an objectFifo never hold the same buffer, whatever *)
(* the depth and whatever windows their programs use.                      *)
THEOREM NoSharedBuffer == Spec => []MutualExclusion
  BY AlwaysIInv, ExclusionFromIInv, PTL

(* If the two windows exceed the depth by at most one, the two cores never *)
(* wait for each other.  The pass does not check this relation for an      *)
(* objectFifo in shared memory: it is the user's to keep.                  *)
THEOREM NeverStuck ==
    ASSUME MaxAcquire["Produce"] + MaxAcquire["Consume"] <= Depth + 1
    PROVE  Spec => []NotStuck
<1>1. IInv => NotStuck
  <2> SUFFICES ASSUME IInv, \A p \in Ports : want[p] > lock[p] PROVE FALSE
    BY DEF NotStuck
  <2>1. \A p \in Ports : /\ Held(p) \in Nat /\ lock[p] \in Nat
                         /\ want[p] \in Nat /\ MaxAcquire[p] \in Nat
    BY StateFacts, PortFacts DEF IInv, TypeOK
  <2>2. \A p \in Ports : want[p] + Held(p) <= MaxAcquire[p]
    BY <2>1 DEF IInv, WindowBound
  <2>3. /\ want["Produce"] >= lock["Produce"] + 1
        /\ want["Consume"] >= lock["Consume"] + 1
    BY <2>1 DEF Ports
  <2> QED BY <2>1, <2>2, <2>3, PortFacts DEF IInv, Conserved, Ports
<1> QED BY AlwaysIInv, <1>1, PTL

(* What the consumer sees is the objects after those it has released.      *)
LEMMA SeenInOrder ==
    ASSUME IInv
    PROVE  SeenBy = [i \in 1 .. Held("Consume") |-> moved["Consume"] + i]
<1> SUFFICES ASSUME NEW i \in 1 .. Held("Consume")
             PROVE  buff[acquired["Consume"][i]] = moved["Consume"] + i
  BY DEF SeenBy, Held
<1> DEFINE k == moved["Consume"] + (i - 1)
<1>1. k \in Nat /\ moved["Consume"] <= k /\ k < moved["Produce"] /\ k + 1 = moved["Consume"] + i
  <2>1. moved["Consume"] \in Nat /\ moved["Produce"] \in Nat /\ Held("Consume") \in Nat
    BY StateFacts DEF Ports
  <2> QED BY <2>1, WindowFits
<1>2. acquired["Consume"][i] = k % Depth
  BY DEF IInv, Indexed, Ports
<1> HIDE DEF k
<1>3. buff[k % Depth] = k + 1
  BY <1>1 DEF IInv, Contents
<1> QED BY <1>1, <1>2, <1>3

(* The window of an acquire, in the words of the contract.                  *)
LEMMA SeenIsWindow ==
    ASSUME IInv
    PROVE  /\ SeenBy = Contract!Window(moved["Consume"], Held("Consume"))
           /\ Len(SeenBy) = Held("Consume")
           /\ SeenBy \in Seq(Nat)
<1>1. SeenBy = [i \in 1 .. Held("Consume") |-> moved["Consume"] + i]
  BY SeenInOrder
<1>2. Held("Consume") \in Nat /\ moved["Consume"] \in Nat
  BY StateFacts DEF Ports
<1> QED BY <1>1, <1>2 DEF Contract!Window

(* The facts the refinement uses in both states of a step.                 *)
LEMMA ContractFacts ==
    IInv => /\ Held("Produce") \in Nat /\ Held("Consume") \in Nat
            /\ moved["Produce"] \in Nat /\ moved["Consume"] \in Nat
            /\ want["Produce"] \in Nat /\ want["Consume"] \in Nat
            /\ SeenBy = Contract!Window(moved["Consume"], Held("Consume"))
            /\ Len(SeenBy) = Held("Consume") /\ SeenBy \in Seq(Nat)
            /\ moved["Consume"] + Held("Consume") <= moved["Produce"]
            /\ moved["Produce"] + Held("Produce") <= moved["Consume"] + Depth
            /\ moved["Produce"] + Held("Produce") + want["Produce"] <= Objects
            /\ moved["Consume"] + Held("Consume") + want["Consume"] <= Objects
  BY StateFacts, SeenIsWindow, WindowFits DEF Ports, IInv, TypeOK, ProgramBound

LEMMA ContractFactsPrimed ==
    IInv' => (/\ Held("Produce") \in Nat /\ Held("Consume") \in Nat
              /\ moved["Produce"] \in Nat /\ moved["Consume"] \in Nat
              /\ SeenBy = Contract!Window(moved["Consume"], Held("Consume"))
              /\ moved["Consume"] + Held("Consume") <= moved["Produce"]
              /\ moved["Produce"] + Held("Produce") <= moved["Consume"] + Depth
              /\ moved["Produce"] + Held("Produce") + want["Produce"] <= Objects)'
  BY ContractFacts, PTL

LEMMA InitRefines == Init => Contract!Init
<1> SUFFICES ASSUME Init PROVE Contract!Init
  OBVIOUS
<1>1. /\ moved["Produce"] = 0 /\ moved["Consume"] = 0
      /\ acquired["Produce"] = <<>> /\ acquired["Consume"] = <<>>
  BY DEF Init, Ports
<1>2. Len(acquired["Produce"]) = 0 /\ SeenBy = <<>>
  BY <1>1 DEF SeenBy
<1> QED BY <1>1, <1>2 DEF Contract!Init

LEMMA StepRefines == IInv /\ IInv' /\ [Next]_vars => [Contract!Next]_Contract!vars
<1> SUFFICES ASSUME IInv, IInv', [Next]_vars PROVE [Contract!Next]_Contract!vars
  OBVIOUS
<1>a. /\ Held("Produce") \in Nat /\ Held("Consume") \in Nat
      /\ moved["Produce"] \in Nat /\ moved["Consume"] \in Nat
      /\ want["Produce"] \in Nat /\ want["Consume"] \in Nat /\ Objects \in Nat
      /\ moved["Produce"] + Held("Produce") + want["Produce"] <= Objects
      /\ moved["Consume"] + Held("Consume") + want["Consume"] <= Objects
  BY PortFacts, ContractFacts
<1>b. /\ moved["Consume"]' + Held("Consume")' <= moved["Produce"]'
      /\ moved["Produce"]' + Held("Produce")' <= moved["Consume"]' + Depth
  BY ContractFactsPrimed
<1>c. /\ SeenBy = Contract!Window(moved["Consume"], Held("Consume"))
      /\ SeenBy' = Contract!Window(moved["Consume"]', Held("Consume")')
      /\ Len(SeenBy) = Held("Consume")
  BY ContractFacts, ContractFactsPrimed
<1>0. /\ acquired \in [Ports -> Seq(Buffers)] /\ moved \in [Ports -> Nat]
      /\ want \in [Ports -> Nat]
      /\ "Produce" \in Ports /\ "Consume" \in Ports
  BY DEF IInv, TypeOK, Ports
<1>1. ASSUME UNCHANGED <<acquired, moved>> PROVE UNCHANGED Contract!vars
  BY <1>1, <1>c DEF Contract!vars, Held
<1>2. ASSUME NEW p \in Ports, NEW n \in 1 .. MaxAcquire[p], Acquire(p, n)
      PROVE  UNCHANGED Contract!vars
  BY <1>1, <1>2 DEF Acquire
<1>3. ASSUME NEW i \in 1 .. MaxAcquire["Produce"], Write(i)
      PROVE  UNCHANGED Contract!vars
  BY <1>1, <1>3 DEF Write
<1>4. ASSUME TakeLocks("Produce") PROVE Contract!Next
  <2> DEFINE n == Held("Produce")'
  <2>1. /\ acquired'["Produce"] = acquired["Produce"] \o NextIndices("Produce", want["Produce"])
        /\ acquired'["Consume"] = acquired["Consume"]
        /\ moved' = moved /\ want["Produce"] > 0
    BY <1>0, <1>4 DEF TakeLocks
  <2>2. Len(NextIndices("Produce", want["Produce"])) = want["Produce"]
        /\ NextIndices("Produce", want["Produce"]) \in Seq(Buffers)
    BY <1>0, NextIndicesFacts
  <2>3. n = Held("Produce") + want["Produce"]
    <3> DEFINE s == acquired["Produce"]
               t == NextIndices("Produce", want["Produce"])
    <3>1. s \in Seq(Buffers) /\ t \in Seq(Buffers)
      BY <1>0, <2>2
    <3> HIDE DEF t
    <3>2. Len(s \o t) = Len(s) + Len(t)
      BY <3>1, ConcatProperties
    <3> QED BY <3>2, <2>1, <2>2 DEF t, Held
  <2> HIDE DEF n
  <2>4. n \in 1 .. Objects /\ n > Held("Produce") /\ moved["Produce"] + n <= Objects
    <3>1. want["Produce"] > 0
      BY <2>1
    <3> QED BY <3>1, <1>a, <2>3
  <2>5. SeenBy' = SeenBy
    BY <1>c, <2>1 DEF Held
  <2> USE DEF n
  <2>7. moved["Produce"] + n <= moved["Consume"] + Depth
    BY <1>b, <2>1
  <2>6. Contract!ProducerAcquire(n)
    BY <2>7, <2>1, <2>4, <2>5 DEF Contract!ProducerAcquire, Held
  <2> QED BY <2>4, <2>6 DEF Contract!Next
<1>5. ASSUME TakeLocks("Consume") PROVE Contract!Next
  <2> DEFINE n == Held("Consume")'
  <2>1. /\ acquired'["Consume"] = acquired["Consume"] \o NextIndices("Consume", want["Consume"])
        /\ acquired'["Produce"] = acquired["Produce"]
        /\ moved' = moved /\ want["Consume"] > 0
    BY <1>0, <1>5 DEF TakeLocks
  <2>2. Len(NextIndices("Consume", want["Consume"])) = want["Consume"]
        /\ NextIndices("Consume", want["Consume"]) \in Seq(Buffers)
    BY <1>0, NextIndicesFacts
  <2>3. n = Held("Consume") + want["Consume"]
    <3> DEFINE s == acquired["Consume"]
               t == NextIndices("Consume", want["Consume"])
    <3>1. s \in Seq(Buffers) /\ t \in Seq(Buffers)
      BY <1>0, <2>2
    <3> HIDE DEF t
    <3>2. Len(s \o t) = Len(s) + Len(t)
      BY <3>1, ConcatProperties
    <3> QED BY <3>2, <2>1, <2>2 DEF t, Held
  <2> HIDE DEF n
  <2>4. n \in 1 .. Objects /\ n > Held("Consume")
    <3>1. want["Consume"] > 0
      BY <2>1
    <3> QED BY <3>1, <1>a, <2>3
  <2> USE DEF n
  <2>7. moved["Consume"] + n <= moved["Produce"]
    BY <1>b, <2>1
  <2>5. SeenBy' = Contract!Window(moved["Consume"], n)
    BY <1>c, <2>1
  <2>6. Contract!ConsumerAcquire("core", n)
    BY <1>c, <2>1, <2>4, <2>5, <2>7 DEF Contract!ConsumerAcquire
  <2> QED BY <2>4, <2>6 DEF Contract!Next
<1>6. ASSUME NEW m \in 1 .. MaxAcquire["Produce"], Release("Produce", m)
      PROVE  Contract!Next
  <2>1. /\ m \in 1 .. Held("Produce")
        /\ acquired'["Produce"] = SubSeq(acquired["Produce"], m + 1, Len(acquired["Produce"]))
        /\ acquired'["Consume"] = acquired["Consume"]
        /\ moved'["Produce"] = moved["Produce"] + m
        /\ moved'["Consume"] = moved["Consume"]
    BY <1>0, <1>6 DEF Release, Held
  <2>2. Held("Produce")' = Held("Produce") - m
    BY <1>0, <2>1, SubviewTail DEF Held
  <2>3. SeenBy' = SeenBy
    BY <1>c, <2>1 DEF Held
  <2>4. m \in 1 .. Objects
    BY <1>a, <2>1
  <2>5. Contract!ProducerRelease(m)
    BY <2>1, <2>2, <2>3 DEF Contract!ProducerRelease, Held
  <2> QED BY <2>4, <2>5 DEF Contract!Next
<1>7. ASSUME NEW m \in 1 .. MaxAcquire["Consume"], Release("Consume", m)
      PROVE  Contract!Next
  <2>1. /\ m \in 1 .. Held("Consume")
        /\ acquired'["Consume"] = SubSeq(acquired["Consume"], m + 1, Len(acquired["Consume"]))
        /\ acquired'["Produce"] = acquired["Produce"]
        /\ moved'["Consume"] = moved["Consume"] + m
        /\ moved'["Produce"] = moved["Produce"]
    BY <1>0, <1>7 DEF Release, Held
  <2>2. Held("Consume")' = Held("Consume") - m
    BY <1>0, <2>1, SubviewTail DEF Held
  <2>3. SeenBy' = SubSeq(SeenBy, m + 1, Len(SeenBy))
    <3> DEFINE k == moved["Consume"]
               n == Held("Consume")
    <3>1. SubSeq(Contract!Window(k, n), m + 1, n) = Contract!Window(k + m, n - m)
      BY <1>a, <2>1, WindowTail DEF Contract!Window
    <3>2. SeenBy' = Contract!Window(k + m, n - m)
      BY <1>c, <2>1, <2>2
    <3> QED BY <1>c, <3>1, <3>2
  <2>4. m \in 1 .. Objects
    BY <1>a, <2>1
  <2>5. Contract!ConsumerRelease("core", m)
    BY <1>c, <2>1, <2>3 DEF Contract!ConsumerRelease
  <2> QED BY <2>4, <2>5 DEF Contract!Next
<1>8. ASSUME NEW p \in Ports, CoreStep(p) PROVE [Contract!Next]_Contract!vars
  BY <1>2, <1>3, <1>6, <1>7, <1>8 DEF CoreStep, Ports
<1>9. ASSUME NEW p \in Ports, TakeLocks(p) PROVE Contract!Next
  BY <1>4, <1>5, <1>9 DEF Ports
<1>10. ASSUME UNCHANGED vars PROVE UNCHANGED Contract!vars
  BY <1>1, <1>10 DEF vars
<1> QED BY <1>8, <1>9, <1>10 DEF Next, Terminating

(* The lowered objectFifo implements the contract of the dialect for every *)
(* depth and every program: the consumer gets every object once, in order, *)
(* and unmodified for as long as it holds it.                              *)
THEOREM KeepsContract == Spec => ContractSpec
<1>1. Init => Contract!Init
  BY InitRefines
<1>2. IInv /\ IInv' /\ [Next]_vars => [Contract!Next]_Contract!vars
  BY StepRefines
<1> QED BY <1>1, <1>2, AlwaysIInv, PTL DEF Spec, ContractSpec, Contract!Spec
=============================================================================
