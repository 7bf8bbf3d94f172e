-------------------- MODULE ObjectFifoBinaryLocksProofs --------------------
(***************************************************************************)
(* Proofs about ObjectFifoBinaryLocks for every depth, every pair of       *)
(* windows and every number of objects.                                    *)
(*                                                                         *)
(* Each lock stands for its buffer, but a core takes and gives them one by *)
(* one, and finds them with two counters of its own.  The invariant says   *)
(* what the lock of each object between the two ends is: of the Depth      *)
(* objects from the oldest that the consumer has not released on, the      *)
(* first are held by the consumer, then come full and free ones, then      *)
(* those that the producer holds, then empty ones (LocksPlaced).           *)
(***************************************************************************)
EXTENDS ObjectFifoBinaryLocks, ArithmeticLemmas, SequenceTheorems

Held(p) == Len(acquired[p])

Sent == moved["Produce"]
Got == moved["Consume"]

(* The indices follow the objects that the port has moved and holds.       *)
Indexed == \A p \in Ports : \A i \in 1 .. Held(p) :
              acquired[p][i] = (moved[p] + (i - 1)) % Depth

CountersFollow == \A p \in Ports : /\ rel[p] = moved[p] % Depth
                                   /\ acq[p] = (moved[p] + Held(p)) % Depth

(* The windows of the two ends.                                            *)
InFlight == Got + Held("Consume") <= Sent /\ Sent + Held("Produce") <= Got + Depth

(* The lock of object k + 1.                                               *)
ValueOf(k) == IF k < Sent THEN 1 ELSE 0
HolderOf(k) == IF k < Got + Held("Consume") THEN "Consume"
               ELSE IF Sent <= k /\ k < Sent + Held("Produce") THEN "Produce"
               ELSE Free

LocksPlaced == \A k \in Got .. (Got + Depth - 1) :
                   value[k % Depth] = ValueOf(k) /\ holder[k % Depth] = HolderOf(k)

(* A buffer keeps its object from its release by the producer to its       *)
(* release by the consumer.                                                *)
Contents == \A k \in Got .. (Sent - 1) : buff[k % Depth] = k + 1

(* What the producer is about to release is written.                       *)
WrittenFirst == \A i \in 1 .. give["Produce"] : buff[acquired["Produce"][i]] = Sent + i

(* A core does one thing at a time.                                        *)
OneRequest == \A p \in Ports : /\ want[p] > 0 => give[p] = 0
                               /\ want[p] = 0 => fresh[p] = 0

(* A port neither holds nor asks for objects beyond the end of its program. *)
ProgramBound == \A p \in Ports : moved[p] + Held(p) + want[p] <= Objects

BinInv == /\ TypeOK /\ Indexed /\ CountersFollow /\ InFlight /\ LocksPlaced
          /\ Contents /\ WrittenFirst /\ OneRequest /\ ProgramBound

-----------------------------------------------------------------------------
(* The two ports, and the assumptions on the constants unfolded.           *)
LEMMA PortFacts == /\ Ports = {"Produce", "Consume"}
                   /\ "Produce" \in Ports /\ "Consume" \in Ports
                   /\ Free \notin Ports
                   /\ Depth \in Nat \ {0}
                   /\ MaxAcquire \in [Ports -> Nat]
                   /\ Objects \in Nat
  BY BinaryLocksAssumption DEF Ports, Free

(* Index arithmetic stays within the buffers.                              *)
LEMMA IndexInBuffers == \A k \in Nat : k % Depth \in Buffers
  BY BinaryLocksAssumption, ModRange DEF Buffers

(* Windows and counters are numbers.                                       *)
LEMMA StateFacts ==
    ASSUME TypeOK
    PROVE  /\ \A p \in Ports : /\ Held(p) \in Nat /\ moved[p] \in Nat
                               /\ want[p] \in Nat /\ fresh[p] \in Nat /\ give[p] \in Nat
                               /\ fresh[p] <= Held(p) /\ give[p] <= Held(p)
                               /\ want[p] <= MaxAcquire[p]
                               /\ acquired[p] \in Seq(Buffers)
           /\ Sent \in Nat /\ Got \in Nat
           /\ Held("Produce") \in Nat /\ Held("Consume") \in Nat
<1>1. ASSUME NEW p \in Ports
      PROVE  /\ Held(p) \in Nat /\ moved[p] \in Nat
             /\ want[p] \in Nat /\ fresh[p] \in Nat /\ give[p] \in Nat
             /\ fresh[p] <= Held(p) /\ give[p] <= Held(p)
             /\ want[p] <= MaxAcquire[p]
             /\ acquired[p] \in Seq(Buffers)
  <2>1. acquired[p] \in Seq(Buffers) /\ moved[p] \in 0 .. Objects
    BY DEF TypeOK
  <2>2. Held(p) \in Nat
    BY <2>1, LenProperties DEF Held
  <2>3. fresh[p] \in 0 .. Held(p) /\ give[p] \in 0 .. Held(p) /\ want[p] \in 0 .. MaxAcquire[p]
    BY DEF TypeOK, Held
  <2> QED BY <2>1, <2>2, <2>3, PortFacts
<1> QED BY <1>1, PortFacts DEF Sent, Got

LEMMA InitBinInv == Init => BinInv
<1> SUFFICES ASSUME Init PROVE BinInv
  OBVIOUS
<1> USE PortFacts DEF Init
<1>0. 0 % Depth = 0 /\ 0 \in Buffers
  BY ModRange, SMT DEF Buffers
<1>1. TypeOK
  BY <1>0 DEF TypeOK
<1>2. /\ \A p \in Ports : Held(p) = 0
      /\ Held("Produce") = 0 /\ Held("Consume") = 0 /\ Sent = 0 /\ Got = 0
  BY DEF Held, Sent, Got
<1>3. Indexed /\ CountersFollow
  BY <1>0, <1>2 DEF Indexed, CountersFollow
<1>4. InFlight /\ Contents
  BY <1>2 DEF InFlight, Contents
<1>5. LocksPlaced
  <2> SUFFICES ASSUME NEW k \in 0 .. (Depth - 1)
               PROVE  value[k % Depth] = ValueOf(k) /\ holder[k % Depth] = HolderOf(k)
    BY <1>2 DEF LocksPlaced
  <2>0. k \in Nat
    BY PortFacts
  <2>1. k % Depth \in Buffers
    BY <2>0, IndexInBuffers
  <2> QED BY <2>1, <1>2 DEF ValueOf, HolderOf
<1>6. WrittenFirst /\ OneRequest /\ ProgramBound
  BY <1>2 DEF WrittenFirst, OneRequest, ProgramBound
<1> QED BY <1>1, <1>3, <1>4, <1>5, <1>6 DEF BinInv

LEMMA AcquireBinInv ==
    ASSUME BinInv, NEW p \in Ports, NEW n \in 1 .. MaxAcquire[p], Acquire(p, n)
    PROVE  BinInv'
<1>0. TypeOK
  BY DEF BinInv
<1>a. /\ Held(p) \in Nat /\ moved[p] \in Nat /\ n \in Nat /\ MaxAcquire[p] \in Nat
      /\ want \in [Ports -> Nat]
  <2>1. MaxAcquire[p] \in Nat
    BY PortFacts
  <2>2. want \in [Ports -> Nat]
    BY <1>0 DEF TypeOK
  <2> QED BY <2>1, <2>2, <1>0, StateFacts
<1>b. /\ NumCreate(p, n) = n - Held(p) /\ NumCreate(p, n) > 0
      /\ give[p] = 0 /\ moved[p] + n <= Objects
      /\ want' = [want EXCEPT ![p] = NumCreate(p, n)]
  BY DEF Acquire, NumCreate, Held, Running
<1>c. NumCreate(p, n) \in 1 .. MaxAcquire[p] /\ NumCreate(p, n) \in Nat
  BY <1>a, <1>b
<1>1. /\ want'[p] = n - Held(p) /\ want'[p] \in 1 .. MaxAcquire[p]
      /\ \A q \in Ports \ {p} : want'[q] = want[q]
      /\ want' \in [Ports -> Nat]
  BY <1>a, <1>b, <1>c
<1>2. \A q \in Ports : Held(q)' = Held(q)
  BY DEF Acquire, Held
<1>3. TypeOK'
  <2>1. \A q \in Ports : want'[q] \in 0 .. MaxAcquire[q]
    <3> TAKE q \in Ports
    <3>1. want[q] \in 0 .. MaxAcquire[q]
      BY <1>0 DEF TypeOK
    <3>2. CASE q = p
      BY <3>2, <1>1, <1>a
    <3>3. CASE q # p
      BY <3>1, <3>3, <1>1
    <3> QED BY <3>2, <3>3
  <2> QED BY <2>1, <1>0, <1>1 DEF Acquire, TypeOK
<1>4. (Indexed /\ CountersFollow /\ InFlight /\ LocksPlaced /\ Contents /\ WrittenFirst)'
  BY DEF Acquire, BinInv, Indexed, CountersFollow, InFlight, LocksPlaced, Contents, WrittenFirst,
         Held, Sent, Got, ValueOf, HolderOf
<1>5. OneRequest'
  BY <1>a, <1>b, <1>1 DEF Acquire, BinInv, OneRequest
<1>6. ProgramBound'
  <2>1. moved'[p] + Held(p)' + want'[p] <= Objects
    BY <1>a, <1>b, <1>1, <1>2 DEF Acquire
  <2> QED BY <2>1, <1>1, <1>2 DEF Acquire, BinInv, ProgramBound
<1> QED BY <1>3, <1>4, <1>5, <1>6 DEF BinInv

LEMMA ReleaseBinInv ==
    ASSUME BinInv, NEW p \in Ports, NEW m \in 1 .. MaxAcquire[p], Release(p, m)
    PROVE  BinInv'
<1> USE DEF Release
<1>0. TypeOK
  BY DEF BinInv
<1>1. /\ give'[p] = m /\ m \in 1 .. Len(acquired[p])
      /\ \A q \in Ports \ {p} : give'[q] = give[q]
      /\ want[p] = 0 /\ give' \in [Ports -> Nat]
  BY <1>0 DEF Running, TypeOK
<1>2. \A q \in Ports : Held(q)' = Held(q)
  BY DEF Held
<1>3. TypeOK'
  BY <1>0, <1>1, SMTT(20) DEF TypeOK
<1>4. (Indexed /\ CountersFollow /\ InFlight /\ LocksPlaced /\ Contents /\ ProgramBound)'
  BY DEF BinInv, Indexed, CountersFollow, InFlight, LocksPlaced, Contents, ProgramBound,
         Held, Sent, Got, ValueOf, HolderOf
<1>5. OneRequest'
  BY <1>0, <1>1, StateFacts DEF BinInv, OneRequest
<1>6. WrittenFirst'
  BY <1>1, PortFacts DEF BinInv, WrittenFirst, Sent
<1> QED BY <1>3, <1>4, <1>5, <1>6 DEF BinInv

(* Two different objects between the ends are in two buffers.              *)
LEMMA PositionsDistinct ==
    ASSUME TypeOK, NEW k \in Got .. (Got + Depth - 1), NEW n \in Got .. (Got + Depth - 1), k # n
    PROVE  k % Depth # n % Depth
<1>1. Got \in Nat /\ Depth \in Nat \ {0}
  BY StateFacts, PortFacts
<1>2. k \in Nat /\ n \in Nat /\ ((k < n /\ n - k < Depth) \/ (n < k /\ k - n < Depth))
  BY <1>1
<1>3. CASE k < n
  BY <1>1, <1>2, <1>3, ModDistinct
<1>4. CASE n < k
  BY <1>1, <1>2, <1>4, ModDistinct
<1> QED BY <1>2, <1>3, <1>4

(* What a port holds are objects between the ends.                         *)
LEMMA WindowPositions ==
    ASSUME BinInv
    PROVE  /\ \A i \in 1 .. Held("Produce") :
                  /\ Sent + (i - 1) \in Got .. (Got + Depth - 1)
                  /\ acquired["Produce"][i] = (Sent + (i - 1)) % Depth
                  /\ Sent + (i - 1) >= Got + Held("Consume")
           /\ \A i \in 1 .. Held("Consume") :
                  /\ Got + (i - 1) \in Got .. (Got + Depth - 1)
                  /\ acquired["Consume"][i] = (Got + (i - 1)) % Depth
                  /\ Got + (i - 1) < Sent
<1>1. /\ Sent \in Nat /\ Got \in Nat /\ Depth \in Nat
      /\ Held("Produce") \in Nat /\ Held("Consume") \in Nat
      /\ Got + Held("Consume") <= Sent /\ Sent + Held("Produce") <= Got + Depth
  BY StateFacts, PortFacts DEF BinInv, InFlight
<1>2. \A p \in Ports : \A i \in 1 .. Held(p) : acquired[p][i] = (moved[p] + (i - 1)) % Depth
  BY DEF BinInv, Indexed
<1>3. /\ \A i \in 1 .. Held("Produce") : acquired["Produce"][i] = (Sent + (i - 1)) % Depth
      /\ \A i \in 1 .. Held("Consume") : acquired["Consume"][i] = (Got + (i - 1)) % Depth
  BY <1>2, PortFacts DEF Sent, Got
<1>4. ASSUME NEW i \in 1 .. Held("Produce")
      PROVE  /\ Sent + (i - 1) \in Got .. (Got + Depth - 1)
             /\ Sent + (i - 1) >= Got + Held("Consume")
  BY <1>1
<1>5. ASSUME NEW i \in 1 .. Held("Consume")
      PROVE  Got + (i - 1) \in Got .. (Got + Depth - 1) /\ Got + (i - 1) < Sent
  BY <1>1
<1> QED BY <1>3, <1>4, <1>5

LEMMA WriteBinInv ==
    ASSUME BinInv, NEW i \in 1 .. MaxAcquire["Produce"], Write(i)
    PROVE  BinInv'
<1> DEFINE b == acquired["Produce"][i]
           k == Sent + (i - 1)
<1>0. TypeOK
  BY DEF BinInv
<1>1. /\ i \in 1 .. Held("Produce")
      /\ buff' = [buff EXCEPT ![b] = Sent + i]
      /\ give["Produce"] = 0
      /\ UNCHANGED <<value, holder, acq, rel, acquired, want, fresh, give, moved>>
  BY DEF Write, Running, Held, Sent
<1>2. /\ k \in Got .. (Got + Depth - 1) /\ b = k % Depth /\ k >= Got + Held("Consume")
      /\ k >= Sent /\ b \in Buffers
  <2>1. k \in Got .. (Got + Depth - 1) /\ b = k % Depth /\ k >= Got + Held("Consume")
    BY <1>1, WindowPositions
  <2>2. Sent \in Nat /\ Got \in Nat /\ Depth \in Nat
    BY <1>0, StateFacts, PortFacts
  <2>3. k \in Nat /\ k >= Sent
    BY <1>1, <2>2
  <2> QED BY <2>1, <2>3, IndexInBuffers
<1>3. Sent + i \in 0 .. Objects
  <2>1. moved["Produce"] + Held("Produce") + want["Produce"] <= Objects
    BY PortFacts DEF BinInv, ProgramBound
  <2>2. /\ Sent \in Nat /\ Held("Produce") \in Nat /\ want["Produce"] \in Nat
        /\ Objects \in Nat
    BY <1>0, StateFacts, PortFacts
  <2> QED BY <2>1, <2>2, <1>1 DEF Sent
<1> HIDE DEF b, k
<1>4. TypeOK'
  <2>1. buff' \in [Buffers -> 0 .. Objects]
    BY <1>0, <1>1, <1>3 DEF TypeOK
  <2> QED BY <2>1, <1>0, <1>1 DEF TypeOK
<1>5. (Indexed /\ CountersFollow /\ InFlight /\ LocksPlaced /\ OneRequest /\ ProgramBound)'
  BY <1>1 DEF BinInv, Indexed, CountersFollow, InFlight, LocksPlaced, OneRequest, ProgramBound,
         Held, Sent, Got, ValueOf, HolderOf
<1>6. Contents'
  <2> SUFFICES ASSUME NEW n \in Got .. (Sent - 1) PROVE buff'[n % Depth] = n + 1
    BY <1>1 DEF Contents, Got, Sent
  <2>1. /\ n \in Got .. (Got + Depth - 1) /\ n # k /\ n \in Nat
    <3>1. /\ Sent \in Nat /\ Got \in Nat /\ Depth \in Nat /\ Held("Produce") \in Nat
          /\ Sent + Held("Produce") <= Got + Depth
      BY <1>0, StateFacts, PortFacts DEF BinInv, InFlight
    <3> QED BY <3>1, <1>2
  <2>2. n % Depth # b
    BY <2>1, <1>0, <1>2, PositionsDistinct
  <2>3. n % Depth \in Buffers
    BY <2>1, IndexInBuffers
  <2>4. buff'[n % Depth] = buff[n % Depth]
    BY <2>2, <2>3, <1>0, <1>1 DEF TypeOK
  <2> QED BY <2>4 DEF BinInv, Contents
<1>7. WrittenFirst'
  <2>1. give'["Produce"] = 0
    BY <1>1
  <2> QED BY <2>1 DEF WrittenFirst
<1> QED BY <1>4, <1>5, <1>6, <1>7 DEF BinInv

(* A lock that is granted is that of an object between the ends, which is  *)
(* full for the consumer and empty for the producer.                       *)
LEMMA GrantedPosition ==
    ASSUME BinInv, NEW p \in Ports, LockGranted(p), NEW k, k = moved[p] + Held(p)
    PROVE  /\ k \in Got .. (Got + Depth - 1)
           /\ acq[p] = k % Depth
           /\ p = "Consume" => k < Sent
<1>1. /\ Sent \in Nat /\ Got \in Nat /\ Depth \in Nat \ {0}
      /\ Held("Produce") \in Nat /\ Held("Consume") \in Nat
      /\ Got + Held("Consume") <= Sent /\ Sent + Held("Produce") <= Got + Depth
  BY StateFacts, PortFacts DEF BinInv, InFlight
<1>2. acq[p] = k % Depth /\ holder[k % Depth] = Free /\ value[k % Depth] = AcquireMode(p)
  BY DEF BinInv, CountersFollow, LockGranted
<1>3. \A n \in Got .. (Got + Depth - 1) :
          value[n % Depth] = ValueOf(n) /\ holder[n % Depth] = HolderOf(n)
  BY DEF BinInv, LocksPlaced
<1>4. CASE p = "Consume"
  <2>1. k = Got + Held("Consume")
    BY <1>4 DEF Got
  <2>2. k # Got + Depth
    <3> SUFFICES ASSUME k = Got + Depth PROVE FALSE
      OBVIOUS
    <3>1. k % Depth = Got % Depth
      BY <1>1, ModTurn
    <3>2. Got \in Got .. (Got + Depth - 1) /\ Got < Got + Held("Consume")
      BY <1>1, <2>1
    <3>3. holder[Got % Depth] = "Consume"
      BY <1>3, <3>2 DEF HolderOf
    <3> QED BY <3>1, <3>3, <1>2 DEF Free
  <2>3. k \in Got .. (Got + Depth - 1)
    BY <1>1, <2>1, <2>2
  <2>4. ValueOf(k) = 1
    BY <1>2, <1>3, <2>3, <1>4 DEF AcquireMode
  <2> QED BY <1>2, <2>3, <2>4 DEF ValueOf
<1>5. CASE p = "Produce"
  <2>1. k = Sent + Held("Produce")
    BY <1>5 DEF Sent
  <2>2. k # Got + Depth
    <3> SUFFICES ASSUME k = Got + Depth PROVE FALSE
      OBVIOUS
    <3>1. k % Depth = Got % Depth
      BY <1>1, ModTurn
    <3>2. Got \in Got .. (Got + Depth - 1)
      BY <1>1
    <3>3. HolderOf(Got) = Free /\ ValueOf(Got) = 0
      BY <1>2, <1>3, <1>5, <3>1, <3>2 DEF AcquireMode
    <3>4. ~ (Got < Sent)
      BY <3>3 DEF ValueOf
    <3>5. Sent <= Got /\ Got < Sent + Held("Produce")
      BY <1>1, <2>1, <3>4
    <3> QED BY <3>3, <3>5 DEF HolderOf, Free
  <2>3. k \in Got .. (Got + Depth - 1)
    BY <1>1, <2>1, <2>2
  <2> QED BY <1>2, <1>5, <2>3
<1> QED BY <1>4, <1>5, PortFacts

LEMMA TakeLockBinInv ==
    ASSUME BinInv, NEW p \in Ports, TakeLock(p)
    PROVE  BinInv'
<1> DEFINE h == Held(p)
           k == moved[p] + h
<1>0. TypeOK
  BY DEF BinInv
<1>1. /\ Sent \in Nat /\ Got \in Nat /\ Depth \in Nat \ {0}
      /\ Held("Produce") \in Nat /\ Held("Consume") \in Nat
      /\ Got + Held("Consume") <= Sent /\ Sent + Held("Produce") <= Got + Depth
  BY <1>0, StateFacts, PortFacts DEF BinInv, InFlight
<1>n. /\ h \in Nat /\ moved[p] \in Nat /\ k \in Nat /\ want[p] \in Nat /\ want[p] > 0
      /\ fresh[p] \in Nat /\ fresh[p] <= h
  <2>1. h \in Nat /\ moved[p] \in Nat /\ want[p] \in Nat /\ fresh[p] \in Nat /\ fresh[p] <= h
    BY <1>0, StateFacts
  <2> QED BY <2>1 DEF TakeLock
<1>s. acquired[p] \in Seq(Buffers)
  BY <1>0, StateFacts
<1>2. /\ k \in Got .. (Got + Depth - 1) /\ acq[p] = k % Depth
      /\ p = "Consume" => k < Sent
  BY GrantedPosition DEF TakeLock
<1>3. /\ acquired' = [acquired EXCEPT ![p] = Append(acquired[p], k % Depth)]
      /\ holder' = [holder EXCEPT ![k % Depth] = p]
      /\ acq' = [acq EXCEPT ![p] = Advance(acq[p])]
      /\ want' = [want EXCEPT ![p] = want[p] - 1]
      /\ fresh' = [fresh EXCEPT ![p] = IF want[p] = 1 THEN 0 ELSE fresh[p] + 1]
      /\ UNCHANGED <<value, rel, give, buff, moved>>
  BY <1>2 DEF TakeLock
<1>4. /\ Sent' = Sent /\ Got' = Got /\ k % Depth \in Buffers
  BY <1>n, <1>3, IndexInBuffers DEF Sent, Got
<1> HIDE DEF k, h
<1>5. /\ Append(acquired[p], k % Depth) \in Seq(Buffers)
      /\ Len(Append(acquired[p], k % Depth)) = h + 1
      /\ \A i \in 1 .. h : Append(acquired[p], k % Depth)[i] = acquired[p][i]
      /\ Append(acquired[p], k % Depth)[h + 1] = k % Depth
  BY <1>s, <1>4, AppendProperties DEF h, Held
<1>6. /\ acquired'[p] = Append(acquired[p], k % Depth)
      /\ \A q \in Ports \ {p} : acquired'[q] = acquired[q]
      /\ Held(p)' = h + 1 /\ \A q \in Ports \ {p} : Held(q)' = Held(q)
      /\ want'[p] = want[p] - 1 /\ \A q \in Ports \ {p} : want'[q] = want[q]
      /\ fresh'[p] = (IF want[p] = 1 THEN 0 ELSE fresh[p] + 1)
      /\ \A q \in Ports \ {p} : fresh'[q] = fresh[q]
      /\ acq'[p] = Advance(acq[p]) /\ \A q \in Ports \ {p} : acq'[q] = acq[q]
      /\ want' \in [Ports -> Nat] /\ fresh' \in [Ports -> Nat]
  <2>1. acquired'[p] = Append(acquired[p], k % Depth) /\ \A q \in Ports \ {p} : acquired'[q] = acquired[q]
    BY <1>0, <1>3 DEF TypeOK
  <2>2. want[p] - 1 \in Nat /\ (IF want[p] = 1 THEN 0 ELSE fresh[p] + 1) \in Nat
    BY <1>n
  <2>3. want' \in [Ports -> Nat] /\ fresh' \in [Ports -> Nat]
    BY <2>2, <1>0, <1>3 DEF TypeOK
  <2>4. /\ want'[p] = want[p] - 1 /\ \A q \in Ports \ {p} : want'[q] = want[q]
        /\ fresh'[p] = (IF want[p] = 1 THEN 0 ELSE fresh[p] + 1)
        /\ \A q \in Ports \ {p} : fresh'[q] = fresh[q]
        /\ acq'[p] = Advance(acq[p]) /\ \A q \in Ports \ {p} : acq'[q] = acq[q]
    BY <1>0, <1>3 DEF TypeOK
  <2>5. Held(p)' = h + 1 /\ \A q \in Ports \ {p} : Held(q)' = Held(q)
    BY <2>1, <1>5 DEF Held
  <2> QED BY <2>1, <2>3, <2>4, <2>5
<1>7. Advance(acq[p]) = (k + 1) % Depth /\ Advance(acq[p]) \in Buffers
  <2>1. ((k % Depth) + 1) % Depth = (k + 1) % Depth
    BY <1>1, <1>n, ModStep
  <2>2. k + 1 \in Nat
    BY <1>n
  <2> QED BY <1>2, <2>1, <2>2, IndexInBuffers DEF Advance
<1>8. TypeOK'
  <2>1. holder' \in [Buffers -> Ports \cup {Free}]
    BY <1>0, <1>3 DEF TypeOK
  <2>2. acq' \in [Ports -> Buffers] /\ acquired' \in [Ports -> Seq(Buffers)]
    BY <1>0, <1>3, <1>5, <1>7 DEF TypeOK
  <2>3. ASSUME NEW q \in Ports
        PROVE  /\ want'[q] \in 0 .. MaxAcquire[q]
               /\ fresh'[q] \in 0 .. Len(acquired'[q])
               /\ give'[q] \in 0 .. Len(acquired'[q])
    <3>1. want[q] \in 0 .. MaxAcquire[q] /\ fresh[q] \in 0 .. Held(q) /\ give[q] \in 0 .. Held(q)
      BY <1>0 DEF TypeOK, Held
    <3>2. Held(q)' = Len(acquired'[q]) /\ give'[q] = give[q]
      BY <1>3 DEF Held
    <3>3. CASE q = p
      <4>1. want[p] \in 0 .. MaxAcquire[p] /\ give[p] \in 0 .. h /\ MaxAcquire[p] \in Nat
        BY <3>1, <3>3, PortFacts DEF h
      <4>2. /\ want[p] - 1 \in 0 .. MaxAcquire[p] /\ give[p] \in 0 .. (h + 1)
            /\ (IF want[p] = 1 THEN 0 ELSE fresh[p] + 1) \in 0 .. (h + 1)
        BY <4>1, <1>n
      <4> QED BY <4>2, <3>2, <3>3, <1>6
    <3>4. CASE q # p
      BY <3>1, <3>2, <3>4, <1>6
    <3> QED BY <3>3, <3>4
  <2> QED BY <2>1, <2>2, <2>3, <1>0, <1>3, <1>6 DEF TypeOK
<1>9. Indexed'
  <2> SUFFICES ASSUME NEW q \in Ports, NEW i \in 1 .. Held(q)'
               PROVE  acquired'[q][i] = (moved[q] + (i - 1)) % Depth
    BY <1>3 DEF Indexed
  <2>1. CASE q # p
    BY <2>1, <1>6 DEF BinInv, Indexed
  <2>2. CASE q = p /\ i # h + 1
    <3>1. i \in 1 .. h
      BY <2>2, <1>n, <1>6
    <3> QED BY <3>1, <2>2, <1>5, <1>6 DEF BinInv, Indexed, h
  <2>3. CASE q = p /\ i = h + 1
    <3>1. moved[p] + (i - 1) = k
      BY <2>3, <1>n DEF k
    <3> QED BY <3>1, <2>3, <1>5, <1>6
  <2> QED BY <2>1, <2>2, <2>3
<1>10. CountersFollow'
  <2>1. moved[p] + (h + 1) = k + 1
    BY <1>n DEF k
  <2> QED BY <2>1, <1>3, <1>6, <1>7 DEF BinInv, CountersFollow
<1>11. InFlight'
  <2>1. CASE p = "Consume"
    <3>1. k = Got + Held("Consume") /\ Held("Consume")' = Held("Consume") + 1
          /\ Held("Produce")' = Held("Produce")
      BY <2>1, <1>6, PortFacts DEF k, h, Got
    <3> QED BY <3>1, <2>1, <1>1, <1>2, <1>4, <1>n DEF InFlight
  <2>2. CASE p = "Produce"
    <3>1. k = Sent + Held("Produce") /\ Held("Produce")' = Held("Produce") + 1
          /\ Held("Consume")' = Held("Consume")
      BY <2>2, <1>6, PortFacts DEF k, h, Sent
    <3> QED BY <3>1, <1>1, <1>2, <1>4, <1>n DEF InFlight
  <2> QED BY <2>1, <2>2, PortFacts
<1>12. LocksPlaced'
  <2> SUFFICES ASSUME NEW n \in Got .. (Got + Depth - 1)
               PROVE  value[n % Depth] = ValueOf(n) /\ holder'[n % Depth] = HolderOf(n)'
    BY <1>3, <1>4 DEF LocksPlaced, ValueOf
  <2>1. value[n % Depth] = ValueOf(n) /\ holder[n % Depth] = HolderOf(n) /\ n \in Nat
    BY <1>1 DEF BinInv, LocksPlaced
  <2>2. n % Depth \in Buffers
    BY <2>1, IndexInBuffers
  <2>3. HolderOf(n)' = IF n = k THEN p ELSE HolderOf(n)
    <3>1. CASE p = "Consume"
      <4>1. k = Got + Held("Consume") /\ Held("Consume")' = Held("Consume") + 1
            /\ Held("Produce")' = Held("Produce")
        BY <3>1, <1>6, PortFacts DEF k, h, Got
      <4> QED BY <4>1, <3>1, <1>1, <1>4, <2>1 DEF HolderOf
    <3>2. CASE p = "Produce"
      <4>1. k = Sent + Held("Produce") /\ Held("Produce")' = Held("Produce") + 1
            /\ Held("Consume")' = Held("Consume")
        BY <3>2, <1>6, PortFacts DEF k, h, Sent
      <4>2. ~ (k < Got + Held("Consume")) /\ Sent <= k /\ k < Sent + Held("Produce")'
        BY <4>1, <1>1
      <4>3. n # k => (n < Sent + (Held("Produce") + 1) <=> n < Sent + Held("Produce"))
        BY <4>1, <1>1, <2>1
      <4> QED BY <4>1, <4>2, <4>3, <3>2, <1>4 DEF HolderOf
    <3> QED BY <3>1, <3>2, PortFacts
  <2>4. CASE n = k
    BY <2>1, <2>2, <2>3, <2>4, <1>0, <1>3 DEF TypeOK
  <2>5. CASE n # k
    <3>1. n % Depth # k % Depth
      BY <2>5, <1>0, <1>2, PositionsDistinct
    <3>2. holder'[n % Depth] = holder[n % Depth]
      BY <3>1, <2>2, <1>0, <1>3 DEF TypeOK
    <3> QED BY <3>2, <2>1, <2>3, <2>5
  <2> QED BY <2>4, <2>5
<1>13. Contents'
  BY <1>3, <1>4 DEF BinInv, Contents
<1>14. WrittenFirst'
  <2>1. CASE p = "Produce"
    <3>1. give'["Produce"] = 0
      BY <2>1, <1>n, <1>3 DEF BinInv, OneRequest
    <3> QED BY <3>1 DEF WrittenFirst
  <2>2. CASE p # "Produce"
    BY <2>2, <1>3, <1>4, <1>6, PortFacts DEF BinInv, WrittenFirst
  <2> QED BY <2>1, <2>2
<1>15. OneRequest'
  <2> SUFFICES ASSUME NEW q \in Ports
               PROVE  (want'[q] > 0 => give[q] = 0) /\ (want'[q] = 0 => fresh'[q] = 0)
    BY <1>3 DEF OneRequest
  <2>1. CASE q = p
    <3>1. give[p] = 0
      BY <1>n DEF BinInv, OneRequest
    <3> QED BY <3>1, <2>1, <1>n, <1>6
  <2>2. CASE q # p
    BY <2>2, <1>6 DEF BinInv, OneRequest
  <2> QED BY <2>1, <2>2
<1>16. ProgramBound'
  <2>1. moved[p] + (h + 1) + (want[p] - 1) <= Objects
    <3>1. moved[p] + h + want[p] <= Objects
      BY DEF BinInv, ProgramBound, h
    <3> QED BY <3>1, <1>n
  <2> QED BY <2>1, <1>3, <1>6 DEF BinInv, ProgramBound
<1> QED BY <1>8, <1>9, <1>10, <1>11, <1>12, <1>13, <1>14, <1>15, <1>16 DEF BinInv

LEMMA GiveLockBinInv ==
    ASSUME BinInv, NEW p \in Ports, GiveLock(p)
    PROVE  BinInv'
<1> DEFINE h == Held(p)
           k == moved[p]
<1>0. TypeOK
  BY DEF BinInv
<1>1. /\ Sent \in Nat /\ Got \in Nat /\ Depth \in Nat \ {0}
      /\ Held("Produce") \in Nat /\ Held("Consume") \in Nat
      /\ Got + Held("Consume") <= Sent /\ Sent + Held("Produce") <= Got + Depth
  BY <1>0, StateFacts, PortFacts DEF BinInv, InFlight
<1>n. /\ h \in Nat /\ k \in Nat /\ give[p] \in Nat /\ give[p] > 0 /\ give[p] <= h
      /\ want[p] = 0 /\ fresh[p] = 0
  <2>1. h \in Nat /\ k \in Nat /\ give[p] \in Nat /\ give[p] <= h /\ want[p] \in Nat
    BY <1>0, StateFacts
  <2>2. give[p] > 0
    BY DEF GiveLock
  <2>3. (want[p] > 0 => give[p] = 0) /\ (want[p] = 0 => fresh[p] = 0)
    BY DEF BinInv, OneRequest
  <2> QED BY <2>1, <2>2, <2>3
<1>s. acquired[p] \in Seq(Buffers) /\ acquired[p] # <<>>
  BY <1>0, <1>n, StateFacts DEF Held
<1>2. rel[p] = k % Depth /\ k % Depth \in Buffers
  BY <1>n, IndexInBuffers DEF BinInv, CountersFollow
<1>3. /\ value' = [value EXCEPT ![k % Depth] = ReleaseMode(p)]
      /\ holder' = [holder EXCEPT ![k % Depth] = Free]
      /\ rel' = [rel EXCEPT ![p] = NextRelease(p)]
      /\ acquired' = [acquired EXCEPT ![p] = Tail(acquired[p])]
      /\ moved' = [moved EXCEPT ![p] = k + 1]
      /\ give' = [give EXCEPT ![p] = give[p] - 1]
      /\ UNCHANGED <<acq, want, fresh, buff>>
  BY <1>2 DEF GiveLock
<1> HIDE DEF k, h
<1>4. /\ Tail(acquired[p]) \in Seq(Buffers) /\ Len(Tail(acquired[p])) = h - 1
      /\ \A i \in 1 .. (h - 1) : Tail(acquired[p])[i] = acquired[p][i + 1]
  BY <1>s, HeadTailProperties DEF h, Held
<1>5. NextRelease(p) = (k + 1) % Depth /\ NextRelease(p) \in Buffers
  <2>1. ((k % Depth) + 1) % Depth = (k + 1) % Depth
    BY <1>1, <1>n, ModStep
  <2>2. k + 1 \in Nat
    BY <1>n
  <2> QED BY <1>2, <2>1, <2>2, IndexInBuffers DEF NextRelease, Advance
<1>6. /\ acquired'[p] = Tail(acquired[p])
      /\ \A q \in Ports \ {p} : acquired'[q] = acquired[q]
      /\ Held(p)' = h - 1 /\ \A q \in Ports \ {p} : Held(q)' = Held(q)
      /\ moved'[p] = k + 1 /\ \A q \in Ports \ {p} : moved'[q] = moved[q]
      /\ give'[p] = give[p] - 1 /\ \A q \in Ports \ {p} : give'[q] = give[q]
      /\ rel'[p] = (k + 1) % Depth /\ \A q \in Ports \ {p} : rel'[q] = rel[q]
  <2>1. acquired'[p] = Tail(acquired[p]) /\ \A q \in Ports \ {p} : acquired'[q] = acquired[q]
    BY <1>0, <1>3 DEF TypeOK
  <2>2. /\ moved'[p] = k + 1 /\ \A q \in Ports \ {p} : moved'[q] = moved[q]
        /\ give'[p] = give[p] - 1 /\ \A q \in Ports \ {p} : give'[q] = give[q]
        /\ rel'[p] = NextRelease(p) /\ \A q \in Ports \ {p} : rel'[q] = rel[q]
    BY <1>0, <1>3 DEF TypeOK
  <2>3. Held(p)' = h - 1 /\ \A q \in Ports \ {p} : Held(q)' = Held(q)
    BY <2>1, <1>4 DEF Held
  <2> QED BY <2>1, <2>2, <2>3, <1>5
<1>7. k + 1 \in 0 .. Objects
  <2>1. k + h + want[p] <= Objects
    BY DEF BinInv, ProgramBound, k, h
  <2> QED BY <2>1, <1>n, PortFacts
<1>8. TypeOK'
  <2>1. value' \in [Buffers -> {0, 1}] /\ holder' \in [Buffers -> Ports \cup {Free}]
    BY <1>0, <1>3 DEF TypeOK, ReleaseMode
  <2>2. rel' \in [Ports -> Buffers] /\ acquired' \in [Ports -> Seq(Buffers)]
    BY <1>0, <1>3, <1>4, <1>5 DEF TypeOK
  <2>3. moved' \in [Ports -> 0 .. Objects]
    BY <1>0, <1>3, <1>7 DEF TypeOK
  <2>4. give' \in [Ports -> Nat]
    <3>1. give[p] - 1 \in Nat
      BY <1>n
    <3> QED BY <3>1, <1>0, <1>3 DEF TypeOK
  <2>5. ASSUME NEW q \in Ports
        PROVE  /\ want'[q] \in 0 .. MaxAcquire[q]
               /\ fresh'[q] \in 0 .. Len(acquired'[q])
               /\ give'[q] \in 0 .. Len(acquired'[q])
    <3>1. want[q] \in 0 .. MaxAcquire[q] /\ fresh[q] \in 0 .. Held(q) /\ give[q] \in 0 .. Held(q)
      BY <1>0 DEF TypeOK, Held
    <3>2. Held(q)' = Len(acquired'[q]) /\ want'[q] = want[q] /\ fresh'[q] = fresh[q]
      BY <1>3 DEF Held
    <3>3. CASE q = p
      <4>1. give[p] - 1 \in 0 .. (h - 1) /\ fresh[p] \in 0 .. (h - 1)
        BY <1>n
      <4> QED BY <4>1, <3>1, <3>2, <3>3, <1>6
    <3>4. CASE q # p
      BY <3>1, <3>2, <3>4, <1>6
    <3> QED BY <3>3, <3>4
  <2> QED BY <2>1, <2>2, <2>3, <2>4, <2>5, <1>0, <1>3 DEF TypeOK
<1>9. Indexed'
  <2> SUFFICES ASSUME NEW q \in Ports, NEW i \in 1 .. Held(q)'
               PROVE  acquired'[q][i] = (moved'[q] + (i - 1)) % Depth
    BY DEF Indexed
  <2>1. CASE q # p
    BY <2>1, <1>6 DEF BinInv, Indexed
  <2>2. CASE q = p
    <3>1. i \in 1 .. (h - 1) /\ i + 1 \in 1 .. h
      BY <2>2, <1>n, <1>6
    <3>2. acquired[p][i + 1] = (k + ((i + 1) - 1)) % Depth
      BY <3>1 DEF BinInv, Indexed, h, k
    <3>3. k + ((i + 1) - 1) = (k + 1) + (i - 1)
      BY <3>1, <1>n
    <3> QED BY <3>1, <3>2, <3>3, <2>2, <1>4, <1>6
  <2> QED BY <2>1, <2>2
<1>10. CountersFollow'
  <2>1. (k + 1) + (h - 1) = k + h
    BY <1>n
  <2>2. acq[p] = (k + h) % Depth
    BY DEF BinInv, CountersFollow, k, h
  <2> QED BY <2>1, <2>2, <1>3, <1>6 DEF BinInv, CountersFollow
<1>11. /\ p = "Consume" => /\ k = Got /\ h = Held("Consume") /\ Got' = Got + 1 /\ Sent' = Sent
                           /\ Held("Consume")' = Held("Consume") - 1
                           /\ Held("Produce")' = Held("Produce")
       /\ p = "Produce" => /\ k = Sent /\ h = Held("Produce") /\ Sent' = Sent + 1 /\ Got' = Got
                           /\ Held("Produce")' = Held("Produce") - 1
                           /\ Held("Consume")' = Held("Consume")
  BY <1>6, PortFacts DEF k, h, Got, Sent
<1>12. InFlight'
  <2>1. CASE p = "Consume"
    BY <2>1, <1>1, <1>11 DEF InFlight
  <2>2. CASE p = "Produce"
    BY <2>2, <1>1, <1>11 DEF InFlight
  <2> QED BY <2>1, <2>2, PortFacts
<1>13. LocksPlaced'
  <2> SUFFICES ASSUME NEW n \in Got' .. (Got' + Depth - 1)
               PROVE  value'[n % Depth] = ValueOf(n)' /\ holder'[n % Depth] = HolderOf(n)'
    BY DEF LocksPlaced
  <2>0. n \in Nat /\ n % Depth \in Buffers
    <3>1. n \in Nat
      BY <1>1, <1>11, PortFacts
    <3> QED BY <3>1, IndexInBuffers
  <2>1. value'[k % Depth] = ReleaseMode(p) /\ holder'[k % Depth] = Free
    BY <1>0, <1>2, <1>3 DEF TypeOK
  <2>2. ASSUME n \in Got .. (Got + Depth - 1), n # k, k \in Got .. (Got + Depth - 1)
        PROVE  value'[n % Depth] = ValueOf(n) /\ holder'[n % Depth] = HolderOf(n)
    <3>1. n % Depth # k % Depth
      BY <2>2, <1>0, PositionsDistinct
    <3>2. value'[n % Depth] = value[n % Depth] /\ holder'[n % Depth] = holder[n % Depth]
      BY <3>1, <2>0, <1>0, <1>3 DEF TypeOK
    <3> QED BY <3>2, <2>2 DEF BinInv, LocksPlaced
  <2>3. CASE p = "Consume" /\ n = Got + Depth
    <3>1. n % Depth = k % Depth
      BY <2>3, <1>1, <1>11, ModTurn
    <3>2. ~ (n < Sent') /\ ~ (n < Got' + Held("Consume")') /\ ~ (n < Sent' + Held("Produce")')
      BY <2>3, <1>1, <1>11
    <3>3. ValueOf(n)' = 0 /\ HolderOf(n)' = Free
      BY <3>2 DEF ValueOf, HolderOf
    <3> QED BY <3>1, <3>3, <2>1, <2>3 DEF ReleaseMode
  <2>4. CASE p = "Consume" /\ n # Got + Depth
    <3>1. n \in Got .. (Got + Depth - 1) /\ n # k /\ k \in Got .. (Got + Depth - 1)
      BY <2>4, <1>1, <1>11
    <3>2. ValueOf(n)' = ValueOf(n) /\ HolderOf(n)' = HolderOf(n)
      <4>1. Got' + Held("Consume")' = Got + Held("Consume")
        BY <2>4, <1>1, <1>11
      <4> QED BY <4>1, <2>4, <1>11 DEF ValueOf, HolderOf
    <3> QED BY <3>1, <3>2, <2>2
  <2>5. CASE p = "Produce" /\ n = k
    <3>1. n < Sent' /\ ~ (n < Got' + Held("Consume")') /\ ~ (Sent' <= n)
      BY <2>5, <1>1, <1>11
    <3>2. ValueOf(n)' = 1 /\ HolderOf(n)' = Free
      BY <3>1 DEF ValueOf, HolderOf
    <3> QED BY <3>2, <2>1, <2>5 DEF ReleaseMode
  <2>6. CASE p = "Produce" /\ n # k
    <3>1. n \in Got .. (Got + Depth - 1) /\ k \in Got .. (Got + Depth - 1)
      BY <2>6, <1>1, <1>n, <1>11
    <3>2. /\ n < Sent' <=> n < Sent
          /\ Sent' <= n <=> Sent <= n
          /\ Sent' + Held("Produce")' = Sent + Held("Produce")
      BY <2>0, <2>6, <1>1, <1>11
    <3>3. ValueOf(n)' = ValueOf(n) /\ HolderOf(n)' = HolderOf(n)
      BY <3>2, <2>6, <1>11 DEF ValueOf, HolderOf
    <3> QED BY <3>1, <3>3, <2>2, <2>6
  <2> QED BY <2>3, <2>4, <2>5, <2>6, PortFacts
<1>14. Contents'
  <2> SUFFICES ASSUME NEW n \in Got' .. (Sent' - 1) PROVE buff[n % Depth] = n + 1
    BY <1>3 DEF Contents
  <2>1. CASE n \in Got .. (Sent - 1)
    BY <2>1 DEF BinInv, Contents
  <2>2. CASE n \notin Got .. (Sent - 1)
    <3>1. p = "Produce" /\ n = Sent
      BY <2>2, <1>1, <1>11, PortFacts
    <3>2. 1 \in 1 .. give["Produce"] /\ 1 \in 1 .. Held("Produce")
      BY <3>1, <1>n, <1>11
    <3>3. buff[acquired["Produce"][1]] = Sent + 1
      BY <3>2 DEF BinInv, WrittenFirst
    <3>4. acquired["Produce"][1] = (Sent + (1 - 1)) % Depth
      BY <3>2, WindowPositions
    <3>5. Sent + (1 - 1) = Sent
      BY <1>1
    <3> QED BY <3>1, <3>3, <3>4, <3>5
  <2> QED BY <2>1, <2>2
<1>15. WrittenFirst'
  <2>1. CASE p = "Produce"
    <3> SUFFICES ASSUME NEW i \in 1 .. give'["Produce"]
                 PROVE  buff[acquired'["Produce"][i]] = Sent' + i
      BY <1>3 DEF WrittenFirst
    <3>1. i \in 1 .. (h - 1) /\ i + 1 \in 1 .. give["Produce"]
      BY <2>1, <1>n, <1>6
    <3>2. acquired'["Produce"][i] = acquired["Produce"][i + 1]
      BY <3>1, <2>1, <1>4, <1>6
    <3>3. buff[acquired["Produce"][i + 1]] = Sent + (i + 1)
      BY <3>1 DEF BinInv, WrittenFirst
    <3>4. Sent + (i + 1) = Sent' + i
      BY <3>1, <2>1, <1>1, <1>11
    <3> QED BY <3>2, <3>3, <3>4
  <2>2. CASE p = "Consume"
    BY <2>2, <1>3, <1>6, <1>11, PortFacts DEF BinInv, WrittenFirst
  <2> QED BY <2>1, <2>2, PortFacts
<1>16. OneRequest'
  <2> SUFFICES ASSUME NEW q \in Ports
               PROVE  (want[q] > 0 => give'[q] = 0) /\ (want[q] = 0 => fresh[q] = 0)
    BY <1>3 DEF OneRequest
  <2>1. CASE q = p
    BY <2>1, <1>n
  <2>2. CASE q # p
    BY <2>2, <1>6 DEF BinInv, OneRequest
  <2> QED BY <2>1, <2>2
<1>17. ProgramBound'
  <2>1. (k + 1) + (h - 1) = k + h
    BY <1>n
  <2>2. k + h + want[p] <= Objects
    BY DEF BinInv, ProgramBound, k, h
  <2> QED BY <2>1, <2>2, <1>3, <1>6 DEF BinInv, ProgramBound
<1> QED BY <1>8, <1>9, <1>10, <1>12, <1>13, <1>14, <1>15, <1>16, <1>17 DEF BinInv

LEMMA StepBinInv == BinInv /\ [Next]_vars => BinInv'
<1> SUFFICES ASSUME BinInv, [Next]_vars PROVE BinInv'
  OBVIOUS
<1>1. ASSUME NEW p \in Ports, CoreStep(p) PROVE BinInv'
  BY <1>1, AcquireBinInv, ReleaseBinInv, WriteBinInv, GiveLockBinInv DEF CoreStep
<1>2. ASSUME NEW p \in Ports, TakeLock(p) PROVE BinInv'
  BY <1>2, TakeLockBinInv
<1>3. ASSUME UNCHANGED vars PROVE BinInv'
  BY <1>3 DEF vars, BinInv, TypeOK, Indexed, CountersFollow, InFlight, LocksPlaced, Contents,
              WrittenFirst, OneRequest, ProgramBound, Held, Sent, Got, ValueOf, HolderOf
<1> QED BY <1>1, <1>2, <1>3 DEF Next, Terminating

(* The inductive invariant holds of every run.                             *)
LEMMA AlwaysBinInv == Spec => []BinInv
  BY InitBinInv, StepBinInv, PTL DEF Spec
(* Values, holders, counters and subviews keep their ranges.               *)
THEOREM BinaryTypeCorrect == Spec => []TypeOK
  BY AlwaysBinInv, PTL DEF BinInv

-----------------------------------------------------------------------------
(* The locks that a port has are those of its subview.                     *)
LEMMA HeldLocks ==
    ASSUME BinInv, NEW p \in Ports
    PROVE  {b \in Buffers : holder[b] = p} = {acquired[p][i] : i \in 1 .. Held(p)}
<1>1. /\ Sent \in Nat /\ Got \in Nat /\ Depth \in Nat \ {0} /\ moved[p] \in Nat /\ Held(p) \in Nat
      /\ Held("Produce") \in Nat /\ Held("Consume") \in Nat
      /\ Got + Held("Consume") <= Sent /\ Sent + Held("Produce") <= Got + Depth
  BY StateFacts, PortFacts DEF BinInv, InFlight
<1>2. ASSUME NEW i \in 1 .. Held(p)
      PROVE  acquired[p][i] \in Buffers /\ holder[acquired[p][i]] = p
  <2> DEFINE k == moved[p] + (i - 1)
  <2>1. /\ acquired[p][i] = k % Depth /\ k \in Got .. (Got + Depth - 1)
        /\ p = "Produce" => k = Sent + (i - 1) /\ k >= Got + Held("Consume")
        /\ p = "Consume" => k = Got + (i - 1)
    BY WindowPositions, PortFacts DEF Sent, Got
  <2>2. HolderOf(k) = p
    BY <2>1, <1>1, PortFacts DEF HolderOf
  <2>3. k \in Nat
    BY <1>1
  <2>4. holder[k % Depth] = HolderOf(k) /\ k % Depth \in Buffers
    BY <2>1, <2>3, IndexInBuffers DEF BinInv, LocksPlaced
  <2> QED BY <2>1, <2>2, <2>4
<1>3. ASSUME NEW b \in Buffers, holder[b] = p
      PROVE  \E i \in 1 .. Held(p) : b = acquired[p][i]
  <2>1. PICK k \in Got .. (Got + Depth - 1) : k % Depth = b
    BY <1>1, RingCovered DEF Buffers
  <2>2. HolderOf(k) = p
    BY <2>1, <1>3 DEF BinInv, LocksPlaced
  <2>3. moved[p] <= k /\ k < moved[p] + Held(p)
    BY <2>1, <2>2, <1>1, PortFacts DEF HolderOf, Sent, Got
  <2> DEFINE i == (k - moved[p]) + 1
  <2>4. i \in 1 .. Held(p) /\ moved[p] + (i - 1) = k
    BY <2>1, <2>3, <1>1
  <2>5. acquired[p][i] = (moved[p] + (i - 1)) % Depth
    BY <2>4 DEF BinInv, Indexed
  <2> HIDE DEF i
  <2> QED BY <2>1, <2>4, <2>5
<1> QED BY <1>2, <1>3

(* relPerFifo and acqPerFifo frame the subview of their port, and no core  *)
(* has a lock outside of its subview.                                      *)
THEOREM IndicesStayWithLocks == Spec => []IndicesFrameSubview
<1>1. BinInv => IndicesFrameSubview
  <2> SUFFICES ASSUME BinInv, NEW p \in Ports
               PROVE  /\ {b \in Buffers : holder[b] = p}
                            = {acquired[p][i] : i \in 1 .. Len(acquired[p])}
                      /\ \A i \in 1 .. Len(acquired[p]) :
                            acquired[p][i] = (rel[p] + i - 1) % Depth
                      /\ acq[p] = (rel[p] + Len(acquired[p])) % Depth
    BY DEF IndicesFrameSubview
  <2>1. Held(p) \in Nat /\ moved[p] \in Nat /\ Depth \in Nat \ {0}
    BY StateFacts, PortFacts DEF BinInv
  <2>2. /\ rel[p] = moved[p] % Depth /\ acq[p] = (moved[p] + Held(p)) % Depth
        /\ rel[p] \in Nat
    <3>1. moved[p] % Depth \in Nat
      BY <2>1, ModRange
    <3> QED BY <3>1 DEF BinInv, CountersFollow
  <2>3. ASSUME NEW i \in 1 .. Held(p) PROVE acquired[p][i] = (rel[p] + i - 1) % Depth
    <3>1. rel[p] + i - 1 = rel[p] + (i - 1) /\ i - 1 \in Nat
      BY <2>1, <2>2
    <3>2. ((moved[p] % Depth) + (i - 1)) % Depth = (moved[p] + (i - 1)) % Depth
      BY <3>1, <2>1, ModAdvance
    <3>3. acquired[p][i] = (moved[p] + (i - 1)) % Depth
      BY DEF BinInv, Indexed
    <3> QED BY <3>1, <3>2, <3>3, <2>2
  <2>4. acq[p] = (rel[p] + Held(p)) % Depth
    BY <2>1, <2>2, ModAdvance
  <2> QED BY <2>3, <2>4, HeldLocks DEF Held
<1> QED BY <1>1, AlwaysBinInv, PTL

-----------------------------------------------------------------------------
(* The consumer sees the objects that follow those it has released, in     *)
(* order.                                                                  *)
LEMMA SeenIsWindow ==
    ASSUME BinInv
    PROVE  /\ Visible("Produce") \in Nat /\ Visible("Consume") \in Nat
           /\ Visible("Produce") = Held("Produce") - fresh["Produce"]
           /\ Visible("Consume") = Held("Consume") - fresh["Consume"]
           /\ SeenBy = Contract!Window(Got, Visible("Consume"))
<1>1. /\ Sent \in Nat /\ Got \in Nat
      /\ \A p \in Ports : Held(p) \in Nat /\ fresh[p] \in Nat /\ fresh[p] <= Held(p)
      /\ Got + Held("Consume") <= Sent
  BY StateFacts DEF BinInv, InFlight
<1>2. \A p \in Ports : Visible(p) \in Nat /\ Visible(p) = Held(p) - fresh[p]
  <2> TAKE p \in Ports
  <2>1. Visible(p) = Held(p) - fresh[p]
    BY DEF Visible, Held
  <2> QED BY <2>1, <1>1
<1>3. Visible("Consume") <= Held("Consume")
  BY <1>1, <1>2, PortFacts
<1>4. ASSUME NEW i \in 1 .. Visible("Consume")
      PROVE  buff[acquired["Consume"][i]] = Got + i
  <2>1. i \in 1 .. Held("Consume")
    BY <1>1, <1>2, <1>3, PortFacts
  <2>2. acquired["Consume"][i] = (Got + (i - 1)) % Depth
    BY <2>1, WindowPositions
  <2>3. Got + (i - 1) \in Got .. (Sent - 1) /\ (Got + (i - 1)) + 1 = Got + i
    BY <2>1, <1>1, PortFacts
  <2> QED BY <2>2, <2>3 DEF BinInv, Contents
<1> QED BY <1>2, <1>4, PortFacts DEF SeenBy, Contract!Window

(* The facts that the refinement uses in both states of a step.            *)
LEMMA ContractFacts ==
    BinInv => /\ Sent \in Nat /\ Got \in Nat /\ Objects \in Nat
              /\ Visible("Produce") \in Nat /\ Visible("Consume") \in Nat
              /\ SeenBy = Contract!Window(Got, Visible("Consume"))
              /\ Len(SeenBy) = Visible("Consume")
              /\ Got + Visible("Consume") <= Sent
              /\ Sent + Visible("Produce") <= Got + Depth
              /\ Sent + Visible("Produce") <= Objects
              /\ Got + Visible("Consume") <= Objects
<1> SUFFICES ASSUME BinInv
             PROVE  /\ Sent \in Nat /\ Got \in Nat /\ Objects \in Nat
                    /\ Visible("Produce") \in Nat /\ Visible("Consume") \in Nat
                    /\ SeenBy = Contract!Window(Got, Visible("Consume"))
                    /\ Len(SeenBy) = Visible("Consume")
                    /\ Got + Visible("Consume") <= Sent
                    /\ Sent + Visible("Produce") <= Got + Depth
                    /\ Sent + Visible("Produce") <= Objects
                    /\ Got + Visible("Consume") <= Objects
  OBVIOUS
<1>1. /\ Sent \in Nat /\ Got \in Nat /\ Objects \in Nat /\ Depth \in Nat
      /\ \A p \in Ports : /\ Held(p) \in Nat /\ fresh[p] \in Nat /\ want[p] \in Nat
                          /\ fresh[p] <= Held(p)
      /\ Got + Held("Consume") <= Sent /\ Sent + Held("Produce") <= Got + Depth
  BY StateFacts, PortFacts DEF BinInv, InFlight
<1>2. /\ Sent + Held("Produce") + want["Produce"] <= Objects
      /\ Got + Held("Consume") + want["Consume"] <= Objects
  BY PortFacts DEF BinInv, ProgramBound, Sent, Got
<1>3. /\ Visible("Produce") \in Nat /\ Visible("Produce") <= Held("Produce")
      /\ Visible("Consume") \in Nat /\ Visible("Consume") <= Held("Consume")
  BY <1>1, SeenIsWindow, PortFacts
<1>4. SeenBy = Contract!Window(Got, Visible("Consume"))
  BY SeenIsWindow
<1>5. Len(SeenBy) = Visible("Consume")
  BY <1>3, <1>4 DEF Contract!Window
<1>6. /\ Got + Visible("Consume") <= Sent
      /\ Sent + Visible("Produce") <= Got + Depth
      /\ Sent + Visible("Produce") <= Objects
      /\ Got + Visible("Consume") <= Objects
  <2>1. /\ Held("Produce") \in Nat /\ want["Produce"] \in Nat
        /\ Held("Consume") \in Nat /\ want["Consume"] \in Nat
    BY <1>1, PortFacts
  <2> QED BY <2>1, <1>1, <1>2, <1>3
<1> QED BY <1>1, <1>3, <1>4, <1>5, <1>6

LEMMA ContractFactsPrimed ==
    BinInv' => (/\ Sent \in Nat /\ Got \in Nat
                /\ Visible("Produce") \in Nat /\ Visible("Consume") \in Nat
                /\ SeenBy = Contract!Window(Got, Visible("Consume"))
                /\ Got + Visible("Consume") <= Sent
                /\ Sent + Visible("Produce") <= Got + Depth
                /\ Sent + Visible("Produce") <= Objects
                /\ Got + Visible("Consume") <= Objects)'
  BY ContractFacts, PTL

LEMMA InitRefines == Init => Contract!Init
<1> SUFFICES ASSUME Init PROVE Contract!Init
  OBVIOUS
<1>1. /\ moved["Produce"] = 0 /\ moved["Consume"] = 0
      /\ fresh["Produce"] = 0 /\ fresh["Consume"] = 0
      /\ acquired["Produce"] = <<>> /\ acquired["Consume"] = <<>>
  BY PortFacts DEF Init
<1>2. Visible("Produce") = 0 /\ Visible("Consume") = 0
  BY <1>1 DEF Visible
<1>3. SeenBy = <<>>
  BY <1>2 DEF SeenBy
<1> QED BY <1>1, <1>2, <1>3 DEF Contract!Init

(* A lock taken in the middle of an acquire changes nothing that the       *)
(* contract speaks of; the last one shows the port the whole window.       *)
LEMMA TakeRefines ==
    ASSUME BinInv, BinInv', NEW p \in Ports, TakeLock(p)
    PROVE  [Contract!Next]_Contract!vars
<1>1. /\ acquired' = [acquired EXCEPT ![p] = Append(acquired[p], acq[p])]
      /\ fresh' = [fresh EXCEPT ![p] = IF want[p] = 1 THEN 0 ELSE fresh[p] + 1]
      /\ moved' = moved /\ want[p] > 0
  BY DEF TakeLock
<1>2. TypeOK
  BY DEF BinInv
<1>3. /\ Held(p) \in Nat /\ fresh[p] \in Nat /\ want[p] \in Nat /\ fresh[p] <= Held(p)
      /\ acquired[p] \in Seq(Buffers) /\ acq[p] \in Buffers
  BY <1>2, StateFacts DEF TypeOK
<1>4. Len(Append(acquired[p], acq[p])) = Held(p) + 1
  BY <1>3, AppendProperties DEF Held
<1>5. /\ acquired'[p] = Append(acquired[p], acq[p])
      /\ fresh'[p] = IF want[p] = 1 THEN 0 ELSE fresh[p] + 1
      /\ \A q \in Ports \ {p} : acquired'[q] = acquired[q] /\ fresh'[q] = fresh[q]
  BY <1>1, <1>2 DEF TypeOK
<1>6. /\ Visible(p)' = (Held(p) + 1) - fresh'[p]
      /\ Visible(p) = Held(p) - fresh[p]
      /\ \A q \in Ports \ {p} : Visible(q)' = Visible(q)
      /\ Sent' = Sent /\ Got' = Got
  BY <1>1, <1>4, <1>5 DEF Visible, Held, Sent, Got
<1>7. /\ Sent \in Nat /\ Got \in Nat /\ Objects \in Nat
      /\ SeenBy = Contract!Window(Got, Visible("Consume"))
      /\ Len(SeenBy) = Visible("Consume")
  BY ContractFacts
<1>8. /\ SeenBy' = Contract!Window(Got', Visible("Consume")')
      /\ Visible("Produce")' \in Nat /\ Visible("Consume")' \in Nat
      /\ Got' + Visible("Consume")' <= Sent'
      /\ Sent' + Visible("Produce")' <= Got' + Depth
      /\ Sent' + Visible("Produce")' <= Objects
      /\ Got' + Visible("Consume")' <= Objects
  BY ContractFactsPrimed
<1>9. CASE want[p] # 1
  <2>1. Visible(p)' = Visible(p)
    <3>1. fresh'[p] = fresh[p] + 1 /\ (Held(p) + 1) - (fresh[p] + 1) = Held(p) - fresh[p]
      BY <1>3, <1>5, <1>9
    <3> QED BY <3>1, <1>6
  <2>2. Visible("Produce")' = Visible("Produce") /\ Visible("Consume")' = Visible("Consume")
    BY <2>1, <1>6, PortFacts
  <2>3. SeenBy' = SeenBy
    BY <2>2, <1>6, <1>7, <1>8
  <2> QED BY <2>2, <2>3, <1>1 DEF Contract!vars
<1>10. CASE want[p] = 1
  <2>1. Visible(p)' = Held(p) + 1 /\ Visible(p)' > Visible(p)
    BY <1>3, <1>5, <1>6, <1>10
  <2>2. CASE p = "Produce"
    <3> DEFINE n == Visible("Produce")'
    <3>1. n \in 1 .. Objects /\ n > Visible("Produce") /\ Visible("Consume")' = Visible("Consume")
      BY <2>1, <2>2, <1>3, <1>6, <1>7, <1>8, PortFacts, SMTT(20)
    <3>2. moved["Produce"] + n <= Objects /\ moved["Produce"] + n <= moved["Consume"] + Depth
      BY <1>6, <1>8 DEF Sent, Got
    <3>3. SeenBy' = SeenBy
      BY <3>1, <1>6, <1>7, <1>8
    <3> HIDE DEF n
    <3>4. Contract!ProducerAcquire(n)
      BY <3>1, <3>2, <3>3, <1>1 DEF Contract!ProducerAcquire, n
    <3> QED BY <3>1, <3>4 DEF Contract!Next
  <2>3. CASE p = "Consume"
    <3> DEFINE n == Visible("Consume")'
    <3>1. n \in 1 .. Objects /\ n > Visible("Consume") /\ Visible("Produce")' = Visible("Produce")
      BY <2>1, <2>3, <1>3, <1>6, <1>7, <1>8, PortFacts, SMTT(20)
    <3>2. moved["Consume"] + n <= moved["Produce"]
      BY <1>6, <1>8 DEF Sent, Got
    <3>3. SeenBy' = Contract!Window(moved["Consume"], n)
      BY <1>6, <1>8 DEF Got
    <3> HIDE DEF n
    <3>4. Contract!ConsumerAcquire("core", n)
      BY <3>1, <3>2, <3>3, <1>1, <1>7 DEF Contract!ConsumerAcquire
    <3> QED BY <3>1, <3>4 DEF Contract!Next
  <2> QED BY <2>2, <2>3, PortFacts
<1> QED BY <1>9, <1>10

(* One use_lock Release gives up the oldest object of the port.            *)
LEMMA GiveRefines ==
    ASSUME BinInv, BinInv', NEW p \in Ports, GiveLock(p)
    PROVE  Contract!Next
<1>1. /\ acquired' = [acquired EXCEPT ![p] = Tail(acquired[p])]
      /\ moved' = [moved EXCEPT ![p] = moved[p] + 1]
      /\ fresh' = fresh /\ give[p] > 0
  BY DEF GiveLock
<1>2. TypeOK
  BY DEF BinInv
<1>3. /\ Held(p) \in Nat /\ Held(p) > 0 /\ fresh[p] = 0
      /\ acquired[p] \in Seq(Buffers) /\ acquired[p] # <<>>
  <2>1. /\ Held(p) \in Nat /\ give[p] \in Nat /\ give[p] <= Held(p) /\ want[p] \in Nat
        /\ acquired[p] \in Seq(Buffers)
    BY <1>2, StateFacts
  <2>2. (want[p] > 0 => give[p] = 0) /\ (want[p] = 0 => fresh[p] = 0)
    BY DEF BinInv, OneRequest
  <2>3. Held(p) > 0 /\ fresh[p] = 0
    BY <2>1, <2>2, <1>1
  <2> QED BY <2>1, <2>3 DEF Held
<1>4. Len(Tail(acquired[p])) = Held(p) - 1
  BY <1>3, HeadTailProperties DEF Held
<1>5. /\ acquired'[p] = Tail(acquired[p]) /\ moved'[p] = moved[p] + 1
      /\ \A q \in Ports \ {p} : acquired'[q] = acquired[q] /\ moved'[q] = moved[q]
  BY <1>1, <1>2 DEF TypeOK
<1>6. /\ Visible(p)' = (Held(p) - 1) - fresh[p] /\ Visible(p) = Held(p) - fresh[p]
      /\ \A q \in Ports \ {p} : Visible(q)' = Visible(q)
  BY <1>1, <1>4, <1>5 DEF Visible, Held
<1>7. Visible(p)' = Visible(p) - 1 /\ Visible(p) \in Nat /\ 1 \in 1 .. Visible(p)
  BY <1>3, <1>6
<1>8. /\ Sent \in Nat /\ Got \in Nat /\ Objects \in Nat
      /\ SeenBy = Contract!Window(Got, Visible("Consume"))
      /\ Len(SeenBy) = Visible("Consume")
      /\ Sent + Visible("Produce") <= Objects /\ Got + Visible("Consume") <= Objects
  BY ContractFacts
<1>9. SeenBy' = Contract!Window(Got', Visible("Consume")')
  BY ContractFactsPrimed
<1>10. 1 \in 1 .. Objects
  BY <1>7, <1>8, PortFacts
<1>11. CASE p = "Produce"
  <2>1. /\ moved'["Produce"] = moved["Produce"] + 1 /\ moved'["Consume"] = moved["Consume"]
        /\ Visible("Consume")' = Visible("Consume")
    BY <1>5, <1>6, <1>11, PortFacts
  <2>2. SeenBy' = SeenBy
    BY <2>1, <1>8, <1>9 DEF Got
  <2>3. Contract!ProducerRelease(1)
    BY <2>1, <2>2, <1>7, <1>11 DEF Contract!ProducerRelease
  <2> QED BY <2>3, <1>10 DEF Contract!Next
<1>12. CASE p = "Consume"
  <2> DEFINE n == Visible("Consume")
  <2>1. /\ moved'["Consume"] = moved["Consume"] + 1 /\ moved'["Produce"] = moved["Produce"]
        /\ Visible("Produce")' = Visible("Produce")
        /\ n \in Nat /\ 1 \in 1 .. n /\ Visible("Consume")' = n - 1
    BY <1>5, <1>6, <1>7, <1>12, PortFacts
  <2>2. SeenBy' = SubSeq(SeenBy, 1 + 1, Len(SeenBy))
    <3>1. SubSeq(Contract!Window(Got, n), 1 + 1, n) = Contract!Window(Got + 1, n - 1)
      BY <2>1, <1>8, WindowTail DEF Contract!Window
    <3>2. SeenBy' = Contract!Window(Got + 1, n - 1)
      BY <2>1, <1>9 DEF Got
    <3> QED BY <3>1, <3>2, <1>8
  <2> HIDE DEF n
  <2>3. 1 \in 1 .. Len(SeenBy)
    BY <2>1, <1>8 DEF n
  <2>4. Contract!ConsumerRelease("core", 1)
    BY <2>1, <2>2, <2>3 DEF Contract!ConsumerRelease
  <2> QED BY <2>4, <1>10 DEF Contract!Next
<1> QED BY <1>11, <1>12, PortFacts

LEMMA StepRefines == BinInv /\ BinInv' /\ [Next]_vars => [Contract!Next]_Contract!vars
<1> SUFFICES ASSUME BinInv, BinInv', [Next]_vars PROVE [Contract!Next]_Contract!vars
  OBVIOUS
<1>1. ASSUME UNCHANGED <<acquired, moved, fresh>> PROVE UNCHANGED Contract!vars
  <2>1. /\ Visible("Produce")' = Visible("Produce") /\ Visible("Consume")' = Visible("Consume")
        /\ Got' = Got
    BY <1>1 DEF Visible, Got
  <2>2. SeenBy' = SeenBy
    BY <2>1, ContractFacts, ContractFactsPrimed
  <2> QED BY <2>1, <2>2, <1>1 DEF Contract!vars
<1>2. ASSUME NEW p \in Ports, CoreStep(p) PROVE [Contract!Next]_Contract!vars
  <2>1. ASSUME NEW n \in 1 .. MaxAcquire[p], Acquire(p, n) PROVE UNCHANGED Contract!vars
    BY <2>1, <1>1 DEF Acquire
  <2>2. ASSUME NEW m \in 1 .. MaxAcquire[p], Release(p, m) PROVE UNCHANGED Contract!vars
    BY <2>2, <1>1 DEF Release
  <2>3. ASSUME NEW i \in 1 .. MaxAcquire[p], Write(i) PROVE UNCHANGED Contract!vars
    BY <2>3, <1>1 DEF Write
  <2>4. ASSUME GiveLock(p) PROVE Contract!Next
    BY <2>4, GiveRefines
  <2> QED BY <2>1, <2>2, <2>3, <2>4, <1>2 DEF CoreStep
<1>3. ASSUME NEW p \in Ports, TakeLock(p) PROVE [Contract!Next]_Contract!vars
  BY <1>3, TakeRefines
<1>4. ASSUME UNCHANGED vars PROVE UNCHANGED Contract!vars
  BY <1>1, <1>4 DEF vars
<1> QED BY <1>2, <1>3, <1>4 DEF Next, Terminating

(* The lowering with binary locks implements the contract of the dialect   *)
(* for every depth and every program, although its acquires and releases   *)
(* are interleaved lock by lock with the other core's.                     *)
THEOREM BinaryKeepsContract == Spec => ContractSpec
<1>1. Init => Contract!Init
  BY InitRefines
<1>2. BinInv /\ BinInv' /\ [Next]_vars => [Contract!Next]_Contract!vars
  BY StepRefines
<1> QED BY <1>1, <1>2, AlwaysBinInv, PTL DEF Spec, ContractSpec, Contract!Spec
=============================================================================
