---------------------------- MODULE ObjectFifoDma ----------------------------
(***************************************************************************)
(* An objectFifo that AIEObjectFifoStatefulTransform splits, on AIE2: the  *)
(* producer tile and each consumer tile get their own buffers and pair of  *)
(* counting locks, an MM2S channel sends the producer's buffers into the   *)
(* stream, and an S2MM channel of each consumer stores them (a broadcast   *)
(* when there are several consumers).  Each end is an objectFifo in shared *)
(* memory between a core and a DMA channel, whose buffer descriptors form  *)
(* a ring and take and release one lock unit each.                         *)
(*                                                                         *)
(* The stream switch is outside the repository: a FIFO per destination,    *)
(* and a word leaves the sender when every destination can take it.        *)
(***************************************************************************)
EXTENDS Integers, Sequences, FiniteSetsExt

CONSTANTS Consumers,      \* consumer tiles
          ElemNumber,     \* [end] depth written in the objectFifo operation
          IsArray,        \* the depth was written as an array, one per end
          MaxAcquire,     \* [end] largest acquire of the core of that end
          StreamDepth,    \* objects that the stream holds towards a consumer
          Objects         \* objects moved by the programs (bounds the counters)

Prod == "prod"
Ends == {Prod} \cup Consumers
Ports == {"Produce", "Consume"}
Other(p) == IF p = "Produce" THEN "Consume" ELSE "Produce"

(* The port of an end that its core uses; its DMA channel uses the other.  *)
CorePort(e) == IF e = Prod THEN "Produce" ELSE "Consume"
DmaPort(e) == Other(CorePort(e))

(* findObjectFifoSize, for a core tile: depth after the split, from the    *)
(* acquires found in the core, one more than the largest for prefetching.  *)
FindObjectFifoSize(e) == IF MaxAcquire[e] = 0 THEN ElemNumber[e]
                         ELSE IF MaxAcquire[e] = 1 /\ ElemNumber[e] = 1 THEN 1
                         ELSE MaxAcquire[e] + 1

(* Depths given as an array are used as they are.                          *)
Depth(e) == IF IsArray THEN ElemNumber[e] ELSE FindObjectFifoSize(e)
Buffers(e) == 0 .. (Depth(e) - 1)

ASSUME DmaAssumption == /\ Prod \notin Consumers
                        /\ Consumers # {} /\ IsFiniteSet(Consumers)
                        /\ IsArray \in BOOLEAN
                        /\ ElemNumber \in [Ends -> Nat \ {0}]
                        /\ MaxAcquire \in [Ends -> Nat]
                        /\ StreamDepth \in Nat \ {0}
                        /\ Objects \in Nat

VARIABLES lock,      \* [end][port] value of the lock that the port acquires
          next,      \* [end][port] next buffer to acquire, next descriptor
          acquired,  \* [end][port] buffers held by the core or the descriptor
          want,      \* [end] locks the core of the end is blocked on
          buff,      \* [end][buffer] number of the object it contains
          stream,    \* [consumer] objects on their way
          moved      \* [end][port] objects released so far (history)

vars == <<lock, next, acquired, want, buff, stream, moved>>

TypeOK == /\ lock \in [Ends -> [Ports -> 0 .. Max({Depth(e) : e \in Ends})]]
          /\ \A e \in Ends, p \in Ports :
                /\ next[e][p] \in Buffers(e)
                /\ acquired[e][p] \in Seq(Buffers(e))
                /\ moved[e][p] \in 0 .. Objects
          /\ \A e \in Ends : /\ want[e] \in 0 .. MaxAcquire[e]
                             /\ buff[e] \in [Buffers(e) -> 0 .. Objects]
                             /\ Len(acquired[e][DmaPort(e)]) <= 1
          /\ stream \in [Consumers -> Seq(1 .. Objects)]

(* Slips: one unit too many; the two locks exchanged.                      *)
InitLockOneExtra(e) == [p \in Ports |-> IF p = "Produce" THEN Depth(e) + 1 ELSE 0]
InitLockSwapped(e) == [p \in Ports |-> IF p = "Produce" THEN 0 ELSE Depth(e)]

(* createObjectFifoLocks at each end.                                      *)
InitLock(e) == [p \in Ports |-> IF p = "Produce" THEN Depth(e) ELSE 0]

Init == /\ lock = [e \in Ends |-> InitLock(e)]
        /\ next = [e \in Ends |-> [p \in Ports |-> 0]]
        /\ acquired = [e \in Ends |-> [p \in Ports |-> <<>>]]
        /\ want = [e \in Ends |-> 0]
        /\ buff = [e \in Ends |-> [b \in Buffers(e) |-> 0]]
        /\ stream = [c \in Consumers |-> <<>>]
        /\ moved = [e \in Ends |-> [p \in Ports |-> 0]]

-----------------------------------------------------------------------------
(* The pair of locks and the ring of buffers of one end.                   *)

(* Slip: the index runs past the last buffer.                              *)
NextIndicesNoWrap(e, p, n) == [i \in 1 .. n |-> next[e][p] + (i - 1)]

NextIndices(e, p, n) == [i \in 1 .. n |-> (next[e][p] + (i - 1)) % Depth(e)]

(* Slip: the lock has to exceed the request.                               *)
TakeStrict(e, p, n) ==
    /\ lock[e][p] > n
    /\ lock' = [lock EXCEPT ![e][p] = @ - n]
    /\ acquired' = [acquired EXCEPT ![e][p] = @ \o NextIndices(e, p, n)]
    /\ next' = [next EXCEPT ![e][p] = (@ + n) % Depth(e)]

(* n units of the port's lock are taken, and the next n buffers with them. *)
Take(e, p, n) ==
    /\ lock[e][p] >= n
    /\ lock' = [lock EXCEPT ![e][p] = @ - n]
    /\ acquired' = [acquired EXCEPT ![e][p] = @ \o NextIndices(e, p, n)]
    /\ next' = [next EXCEPT ![e][p] = (@ + n) % Depth(e)]

(* The m oldest buffers of the port go to the other port.                  *)
Give(e, p, m) ==
    /\ lock' = [lock EXCEPT ![e][Other(p)] = @ + m]
    /\ acquired' = [acquired EXCEPT ![e][p] = SubSeq(@, m + 1, Len(@))]
    /\ moved' = [moved EXCEPT ![e][p] = @ + m]

-----------------------------------------------------------------------------
(* The cores.                                                              *)

CoreAcquire(e, n) ==
    LET p == CorePort(e) IN
    /\ want[e] = 0
    /\ n > Len(acquired[e][p])
    /\ moved[e][p] + n <= Objects
    /\ want' = [want EXCEPT ![e] = n - Len(acquired[e][p])]
    /\ UNCHANGED <<lock, next, acquired, buff, stream, moved>>

CoreTakesLocks(e) ==
    /\ want[e] > 0
    /\ Take(e, CorePort(e), want[e])
    /\ want' = [want EXCEPT ![e] = 0]
    /\ UNCHANGED <<buff, stream, moved>>

(* The producer core writes an object of its subview.                      *)
CoreWrites(i) ==
    LET held == acquired[Prod]["Produce"]
        obj  == moved[Prod]["Produce"] + i
    IN  /\ want[Prod] = 0
        /\ i \in 1 .. Len(held)
        /\ buff[Prod][held[i]] # obj
        /\ buff' = [buff EXCEPT ![Prod][held[i]] = obj]
        /\ UNCHANGED <<lock, next, acquired, want, stream, moved>>

(* A core releases the m oldest objects of its subview; the producer has   *)
(* written them.                                                           *)
CoreRelease(e, m) ==
    LET p == CorePort(e) IN
    /\ want[e] = 0
    /\ m \in 1 .. Len(acquired[e][p])
    /\ e = Prod => \A i \in 1 .. m : buff[e][acquired[e][p][i]] = moved[e][p] + i
    /\ Give(e, p, m)
    /\ UNCHANGED <<next, want, buff, stream>>

CoreStep(e) == \/ \E n \in 1 .. MaxAcquire[e] : CoreAcquire(e, n)
               \/ \E m \in 1 .. MaxAcquire[e] : CoreRelease(e, m)
               \/ e = Prod /\ \E i \in 1 .. MaxAcquire[e] : CoreWrites(i)

-----------------------------------------------------------------------------
(* The DMA channels: the descriptor of the next buffer takes one unit of   *)
(* the lock, moves the buffer, releases one unit of the other lock, and    *)
(* hands over to the next descriptor of the ring.                          *)

BdAcquire(e) ==
    /\ acquired[e][DmaPort(e)] = <<>>
    /\ Take(e, DmaPort(e), 1)
    /\ UNCHANGED <<want, buff, stream, moved>>

(* The MM2S descriptor has sent its buffer to every consumer.              *)
Mm2sSends ==
    /\ acquired[Prod]["Consume"] # <<>>
    /\ \A c \in Consumers : Len(stream[c]) < StreamDepth
    /\ stream' = [c \in Consumers |->
                    Append(stream[c], buff[Prod][Head(acquired[Prod]["Consume"])])]
    /\ Give(Prod, "Consume", 1)
    /\ UNCHANGED <<next, want, buff>>

(* The S2MM descriptor of consumer c has filled its buffer.                *)
S2mmStores(c) ==
    /\ acquired[c]["Produce"] # <<>>
    /\ stream[c] # <<>>
    /\ buff' = [buff EXCEPT ![c][Head(acquired[c]["Produce"])] = Head(stream[c])]
    /\ stream' = [stream EXCEPT ![c] = Tail(@)]
    /\ Give(c, "Produce", 1)
    /\ UNCHANGED <<next, want>>

DmaStep(e) == \/ BdAcquire(e)
              \/ e = Prod /\ Mm2sSends
              \/ e \in Consumers /\ S2mmStores(e)

(* Every core has run its program; a DMA may be left waiting for a lock.   *)
Done == \A e \in Ends : moved[e][CorePort(e)] = Objects
Terminating == Done /\ UNCHANGED vars

Next == \/ \E e \in Ends : CoreStep(e) \/ CoreTakesLocks(e) \/ DmaStep(e)
        \/ Terminating

Spec == Init /\ [][Next]_vars

(* Each core, each lock request and each DMA channel runs on by itself.    *)
Fairness == \A e \in Ends : /\ WF_vars(CoreStep(e))
                            /\ WF_vars(CoreTakesLocks(e))
                            /\ WF_vars(DmaStep(e))
FairSpec == Spec /\ Fairness

-----------------------------------------------------------------------------
(* No buffer of an end is in use by its core and its DMA channel at once.  *)
MutualExclusion ==
    \A e \in Ends : \A i \in 1 .. Len(acquired[e]["Produce"]),
                       j \in 1 .. Len(acquired[e]["Consume"]) :
        acquired[e]["Produce"][i] # acquired[e]["Consume"][j]

(* Every object that the producer's program makes reaches every consumer   *)
(* and every program ends, with the depths that the pass computes and      *)
(* whatever the pace of the consumers of a broadcast.                      *)
Completes == <>Done

SeenBy(c) == [i \in 1 .. Len(acquired[c]["Consume"]) |-> buff[c][acquired[c]["Consume"][i]]]

Contract == INSTANCE ObjectFifo
    WITH Capacity <- Depth(Prod) + StreamDepth + Max({Depth(c) : c \in Consumers}),
         produced <- moved[Prod]["Produce"],
         writing  <- Len(acquired[Prod]["Produce"]),
         consumed <- [c \in Consumers |-> moved[c]["Consume"]],
         subview  <- [c \in Consumers |-> SeenBy(c)]

(* The split objectFifo keeps the contract of the dialect operations for   *)
(* every consumer: each sees every object once, in order, unmodified.      *)
ContractSpec == Contract!Spec
=============================================================================
