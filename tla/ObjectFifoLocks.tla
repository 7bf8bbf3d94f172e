-------------------------- MODULE ObjectFifoLocks --------------------------
(***************************************************************************)
(* An objectFifo between two cores that share a memory module, as          *)
(* AIEObjectFifoStatefulTransform lowers it on AIE2: Depth buffers and two *)
(* counting locks, _prod_lock (buffers free for the producer) and          *)
(* _cons_lock (buffers filled for the consumer).  An acquire becomes one   *)
(* use_lock AcquireGreaterEqual on the port's own lock, for the objects    *)
(* that the port does not hold yet; a release becomes one use_lock Release *)
(* on the other port's lock.                                               *)
(*                                                                         *)
(* The cores run any program of acquires and releases whose window stays   *)
(* within MaxAcquire: programs are chosen step by step.  A core that has   *)
(* reached a use_lock stays blocked on it until the lock has the value.    *)
(***************************************************************************)
EXTENDS Integers, Sequences

CONSTANTS Depth,        \* op.size(): the number of buffers
          MaxAcquire,   \* [port] the largest acquire of the port's program
          Objects       \* objects moved by the programs (bounds the counters)

Ports == {"Produce", "Consume"}

(* Slip: a port releases its own lock.                                     *)
OtherIsSame(p) == p

Other(p) == IF p = "Produce" THEN "Consume" ELSE "Produce"
Buffers == 0 .. (Depth - 1)

ASSUME LocksAssumption == /\ Depth \in Nat \ {0}
                          /\ MaxAcquire \in [Ports -> Nat]
                          /\ Objects \in Nat

VARIABLES lock,      \* [port] value of the lock that the port acquires
          next,      \* [port] acqPerFifo: index of the next buffer to acquire
          acquired,  \* [port] acquiredIndices: buffers of the current subview
          want,      \* [port] locks the core is blocked on, 0 if it is running
          buff,      \* [buffer] number of the object it contains, 0 for none
          moved      \* [port] objects released so far (history)

vars == <<lock, next, acquired, want, buff, moved>>

TypeOK == /\ lock \in [Ports -> Nat]
          /\ next \in [Ports -> Buffers]
          /\ acquired \in [Ports -> Seq(Buffers)]
          /\ want \in [Ports -> Nat]
          /\ buff \in [Buffers -> Nat]
          /\ moved \in [Ports -> Nat]

(* Slips: one unit more, or one less, than there are buffers.              *)
InitLockOneExtra == [p \in Ports |-> IF p = "Produce" THEN Depth + 1 ELSE 0]
InitLockOneShort == [p \in Ports |-> IF p = "Produce" THEN Depth - 1 ELSE 0]

(* createObjectFifoLocks: the producer lock starts at the number of        *)
(* elements, the consumer lock at 0.                                       *)
InitLock == [p \in Ports |-> IF p = "Produce" THEN Depth ELSE 0]

Init == /\ lock = InitLock
        /\ next = [p \in Ports |-> 0]
        /\ acquired = [p \in Ports |-> <<>>]
        /\ want = [p \in Ports |-> 0]
        /\ buff = [b \in Buffers |-> 0]
        /\ moved = [p \in Ports |-> 0]

-----------------------------------------------------------------------------
(* The locks that an acquire of n objects has to take: those of the window *)
(* that the port holds already are not acquired again.                     *)
NumCreate(p, n) == n - Len(acquired[p])

(* The core reaches an acquire of n objects.  An acquire within the held   *)
(* window creates no use_lock and is no step.                              *)
Acquire(p, n) ==
    /\ want[p] = 0
    /\ NumCreate(p, n) > 0
    /\ moved[p] + n <= Objects
    /\ want' = [want EXCEPT ![p] = NumCreate(p, n)]
    /\ UNCHANGED <<lock, next, acquired, buff, moved>>

(* Slip: the index runs past the last buffer.                              *)
NextIndicesNoWrap(p, n) == [i \in 1 .. n |-> next[p] + (i - 1)]

(* The n buffers that follow the subview in the ring.                      *)
NextIndices(p, n) == [i \in 1 .. n |-> (next[p] + (i - 1)) % Depth]

(* The use_lock AcquireGreaterEqual of the core completes.                 *)
TakeLocks(p) ==
    /\ want[p] > 0
    /\ lock[p] >= want[p]
    /\ lock' = [lock EXCEPT ![p] = @ - want[p]]
    /\ acquired' = [acquired EXCEPT ![p] = @ \o NextIndices(p, want[p])]
    /\ next' = [next EXCEPT ![p] = (@ + want[p]) % Depth]
    /\ want' = [want EXCEPT ![p] = 0]
    /\ UNCHANGED <<buff, moved>>

(* The producer core writes an object of its subview.                      *)
Write(i) ==
    /\ want["Produce"] = 0
    /\ i \in 1 .. Len(acquired["Produce"])
    /\ buff[acquired["Produce"][i]] # moved["Produce"] + i
    /\ buff' = [buff EXCEPT ![acquired["Produce"][i]] = moved["Produce"] + i]
    /\ UNCHANGED <<lock, next, acquired, want, moved>>

(* The m oldest objects of the producer's subview have been written.       *)
Written(m) ==
    \A i \in 1 .. m : buff[acquired["Produce"][i]] = moved["Produce"] + i

(* The core releases the m oldest objects of its subview.                  *)
Release(p, m) ==
    /\ want[p] = 0
    /\ m \in 1 .. Len(acquired[p])
    /\ p = "Produce" => Written(m)
    /\ lock' = [lock EXCEPT ![Other(p)] = @ + m]
    /\ acquired' = [acquired EXCEPT ![p] = SubSeq(@, m + 1, Len(@))]
    /\ moved' = [moved EXCEPT ![p] = @ + m]
    /\ UNCHANGED <<next, want, buff>>

(* Both programs have run to their end.                                    *)
Done == \A p \in Ports : moved[p] = Objects
Terminating == Done /\ UNCHANGED vars

CoreStep(p) == \/ \E n \in 1 .. MaxAcquire[p] : Acquire(p, n)
               \/ \E m \in 1 .. MaxAcquire[p] : Release(p, m)
               \/ p = "Produce" /\ \E i \in 1 .. MaxAcquire[p] : Write(i)

Next == \/ \E p \in Ports : CoreStep(p) \/ TakeLocks(p)
        \/ Terminating

Spec == Init /\ [][Next]_vars

(* A core runs on until it blocks, and a lock unit serves a request that   *)
(* it can satisfy: only port p takes from lock[p], so weak fairness is     *)
(* enough.                                                                 *)
Fairness == \A p \in Ports : WF_vars(CoreStep(p)) /\ WF_vars(TakeLocks(p))
FairSpec == Spec /\ Fairness

-----------------------------------------------------------------------------
(* No buffer is in the hands of both cores, nor twice in one subview: what *)
(* the locks of createObjectFifoLocks are for.                             *)
MutualExclusion ==
    /\ \A i \in 1 .. Len(acquired["Produce"]), j \in 1 .. Len(acquired["Consume"]) :
          acquired["Produce"][i] # acquired["Consume"][j]
    /\ \A p \in Ports : \A i, j \in 1 .. Len(acquired[p]) :
          i # j => acquired[p][i] # acquired[p][j]

(* The cores are never blocked on each other.  The pass does not compare   *)
(* the acquires with the depth of a shared objectFifo: this holds only     *)
(* when the two windows together exceed the depth by at most one.          *)
NotStuck == ~ \A p \in Ports : want[p] > lock[p]

(* The programs run to their end: every acquire is granted in the end.     *)
Completes == <>Done

(* The consumer core's subview as it reads it, through the buffers.        *)
SeenBy == [i \in 1 .. Len(acquired["Consume"]) |-> buff[acquired["Consume"][i]]]

Contract == INSTANCE ObjectFifo
    WITH Consumers <- {"core"}, Capacity <- Depth,
         produced <- moved["Produce"], writing <- Len(acquired["Produce"]),
         consumed <- [c \in {"core"} |-> moved["Consume"]],
         subview <- [c \in {"core"} |-> SeenBy]

(* The lowered objectFifo keeps the contract of the dialect operations:    *)
(* objects arrive once, in order, unmodified while they are held.          *)
ContractSpec == Contract!Spec
=============================================================================
