----------------------------- MODULE ObjectFifo -----------------------------
(***************************************************************************)
(* What an objectFifo promises to the cores that use it, whatever it is    *)
(* lowered to (AIEOps.td, ObjectFifoCreateOp, ObjectFifoAcquireOp and      *)
(* ObjectFifoReleaseOp): a circular buffer between one producer and one or *)
(* more consumers.  The producer acquires objects for writing and releases *)
(* them in order; each consumer acquires a window of the released objects, *)
(* sees them in the order in which they were released, and releases them   *)
(* from the oldest on.                                                     *)
(*                                                                         *)
(* Objects are numbered in the order in which the producer releases them.  *)
(***************************************************************************)
EXTENDS Integers, Sequences

CONSTANTS Consumers,   \* the consumer cores
          Capacity,    \* objects that fit between the producer and a consumer
          Objects      \* objects that the producer's program produces

VARIABLES produced,    \* objects the producer has released
          writing,     \* objects the producer holds
          consumed,    \* [c] objects consumer c has released
          subview      \* [c] the objects consumer c holds, as it sees them

vars == <<produced, writing, consumed, subview>>

TypeOK == /\ produced \in Nat
          /\ writing \in Nat
          /\ consumed \in [Consumers -> Nat]
          /\ subview \in [Consumers -> Seq(Nat)]

(* Objects k + 1 .. k + n in order.                                        *)
Window(k, n) == [i \in 1 .. n |-> k + i]

Init == /\ produced = 0
        /\ writing = 0
        /\ consumed = [c \in Consumers |-> 0]
        /\ subview = [c \in Consumers |-> <<>>]

ProducerAcquire(n) ==
    /\ n > writing
    /\ produced + n <= Objects
    /\ \A c \in Consumers : produced + n <= consumed[c] + Capacity
    /\ writing' = n
    /\ UNCHANGED <<produced, consumed, subview>>

ProducerRelease(m) ==
    /\ m \in 1 .. writing
    /\ writing' = writing - m
    /\ produced' = produced + m
    /\ UNCHANGED <<consumed, subview>>

ConsumerAcquire(c, n) ==
    /\ n > Len(subview[c])
    /\ consumed[c] + n <= produced
    /\ subview' = [subview EXCEPT ![c] = Window(consumed[c], n)]
    /\ UNCHANGED <<produced, writing, consumed>>

ConsumerRelease(c, m) ==
    /\ m \in 1 .. Len(subview[c])
    /\ consumed' = [consumed EXCEPT ![c] = @ + m]
    /\ subview' = [subview EXCEPT ![c] = SubSeq(@, m + 1, Len(@))]
    /\ UNCHANGED <<produced, writing>>

Next == \/ \E n \in 1 .. Objects : ProducerAcquire(n) \/ ProducerRelease(n)
        \/ \E c \in Consumers, n \in 1 .. Objects :
              ConsumerAcquire(c, n) \/ ConsumerRelease(c, n)

Spec == Init /\ [][Next]_vars
=============================================================================
