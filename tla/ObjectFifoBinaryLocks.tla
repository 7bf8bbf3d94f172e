------------------------ MODULE ObjectFifoBinaryLocks ------------------------
(***************************************************************************)
(* An objectFifo in shared memory as AIEObjectFifoStatefulTransform lowers *)
(* it on AIE1, whose locks are binary: one lock per buffer, with value 0   *)
(* when the buffer is empty and 1 when it is full.  An acquire of n        *)
(* objects becomes one use_lock for each lock that the port does not hold  *)
(* yet, in ring order; a release of m objects becomes m use_locks.         *)
(*                                                                         *)
(* Unlike the AIE2 lowering (ObjectFifoLocks), a core can be blocked in    *)
(* the middle of an acquire while it keeps the locks taken so far, and the *)
(* indices of the locks to acquire and to release are counted apart        *)
(* (acqPerFifo, relPerFifo).                                               *)
(***************************************************************************)
EXTENDS Integers, Sequences

CONSTANTS Depth,        \* op.size(): the number of buffers, and of locks
          MaxAcquire,   \* [port] the largest acquire of the port's program
          Objects       \* objects moved by the programs (bounds the counters)

Ports == {"Produce", "Consume"}
Buffers == 0 .. (Depth - 1)
Free == "free"

ASSUME BinaryLocksAssumption == /\ Depth \in Nat \ {0}
                                /\ MaxAcquire \in [Ports -> Nat]
                                /\ Objects \in Nat

VARIABLES value,     \* [buffer] value of its lock
          holder,    \* [buffer] the port whose core has the lock, or Free
          acq, rel,  \* [port] acqPerFifo and relPerFifo: next lock to use
          acquired,  \* [port] buffers whose lock the core took, oldest first
          want,      \* [port] use_locks left of the acquire being executed
          fresh,     \* [port] locks taken so far by that acquire
          give,      \* [port] use_locks left of the release being executed
          buff,      \* [buffer] number of the object it contains, 0 for none
          moved      \* [port] objects released so far (history)

vars == <<value, holder, acq, rel, acquired, want, fresh, give, buff, moved>>

TypeOK == /\ value \in [Buffers -> {0, 1}]
          /\ holder \in [Buffers -> Ports \cup {Free}]
          /\ acq \in [Ports -> Buffers] /\ rel \in [Ports -> Buffers]
          /\ acquired \in [Ports -> Seq(Buffers)]
          /\ want \in [Ports -> Nat] /\ fresh \in [Ports -> Nat] /\ give \in [Ports -> Nat]
          /\ \A p \in Ports : /\ want[p] \in 0 .. MaxAcquire[p]
                              /\ fresh[p] \in 0 .. Len(acquired[p])
                              /\ give[p] \in 0 .. Len(acquired[p])
          /\ buff \in [Buffers -> 0 .. Objects]
          /\ moved \in [Ports -> 0 .. Objects]

(* createObjectFifoLocks: every lock starts free, with value 0.            *)
Init == /\ value = [b \in Buffers |-> 0]
        /\ holder = [b \in Buffers |-> Free]
        /\ acq = [p \in Ports |-> 0] /\ rel = [p \in Ports |-> 0]
        /\ acquired = [p \in Ports |-> <<>>]
        /\ want = [p \in Ports |-> 0]
        /\ fresh = [p \in Ports |-> 0]
        /\ give = [p \in Ports |-> 0]
        /\ buff = [b \in Buffers |-> 0]
        /\ moved = [p \in Ports |-> 0]

-----------------------------------------------------------------------------
(* createUseLocks: the lock mode is 1 for a producer's release and a       *)
(* consumer's acquire, 0 for the others.                                   *)
AcquireMode(p) == IF p = "Consume" THEN 1 ELSE 0

(* Slips: every release marks the buffer empty, or full.                   *)
ReleaseModeEmpty(p) == 0
ReleaseModeFull(p) == 1

ReleaseMode(p) == IF p = "Produce" THEN 1 ELSE 0

(* Slip: the index runs past the last lock.                                *)
AdvanceNoWrap(index) == index + 1

(* The next lock of the ring.                                              *)
Advance(index) == (index + 1) % Depth

(* Slip: relPerFifo is not updated.                                        *)
SameRelease(p) == rel[p]

(* relPerFifo after one use_lock of a release.                             *)
NextRelease(p) == Advance(rel[p])

(* The use_locks of an acquire of n objects: one for each that the port    *)
(* does not hold.                                                          *)
NumCreate(p, n) == n - Len(acquired[p])

Running(p) == want[p] = 0 /\ give[p] = 0

(* The core reaches an acquire of n objects.                               *)
Acquire(p, n) ==
    /\ Running(p)
    /\ NumCreate(p, n) > 0
    /\ moved[p] + n <= Objects
    /\ want' = [want EXCEPT ![p] = NumCreate(p, n)]
    /\ UNCHANGED <<value, holder, acq, rel, acquired, fresh, give, buff, moved>>

(* A use_lock Acquire waits until the lock is free and has its value.      *)
LockGranted(p) == holder[acq[p]] = Free /\ value[acq[p]] = AcquireMode(p)

(* The next use_lock Acquire of the acquire completes.                     *)
TakeLock(p) ==
    /\ want[p] > 0
    /\ LockGranted(p)
    /\ holder' = [holder EXCEPT ![acq[p]] = p]
    /\ acquired' = [acquired EXCEPT ![p] = Append(@, acq[p])]
    /\ acq' = [acq EXCEPT ![p] = Advance(@)]
    /\ want' = [want EXCEPT ![p] = @ - 1]
    /\ fresh' = [fresh EXCEPT ![p] = IF want[p] = 1 THEN 0 ELSE @ + 1]
    /\ UNCHANGED <<value, rel, give, buff, moved>>

(* The producer core writes an object of its subview.                      *)
Write(i) ==
    LET held == acquired["Produce"]
        obj  == moved["Produce"] + i
    IN  /\ Running("Produce")
        /\ i \in 1 .. Len(held)
        /\ buff[held[i]] # obj
        /\ buff' = [buff EXCEPT ![held[i]] = obj]
        /\ UNCHANGED <<value, holder, acq, rel, acquired, want, fresh, give, moved>>

(* The core reaches a release of its m oldest objects; the producer has    *)
(* written them.                                                           *)
Release(p, m) ==
    /\ Running(p)
    /\ m \in 1 .. Len(acquired[p])
    /\ p = "Produce" => \A i \in 1 .. m : buff[acquired[p][i]] = moved[p] + i
    /\ give' = [give EXCEPT ![p] = m]
    /\ UNCHANGED <<value, holder, acq, rel, acquired, want, fresh, buff, moved>>

(* One use_lock Release: the lock gets its value and is free.              *)
GiveLock(p) ==
    /\ give[p] > 0
    /\ value' = [value EXCEPT ![rel[p]] = ReleaseMode(p)]
    /\ holder' = [holder EXCEPT ![rel[p]] = Free]
    /\ rel' = [rel EXCEPT ![p] = NextRelease(p)]
    /\ acquired' = [acquired EXCEPT ![p] = Tail(@)]
    /\ moved' = [moved EXCEPT ![p] = @ + 1]
    /\ give' = [give EXCEPT ![p] = @ - 1]
    /\ UNCHANGED <<acq, want, fresh, buff>>

Done == \A p \in Ports : moved[p] = Objects
Terminating == Done /\ UNCHANGED vars

CoreStep(p) == \/ \E n \in 1 .. MaxAcquire[p] : Acquire(p, n)
               \/ \E m \in 1 .. MaxAcquire[p] : Release(p, m)
               \/ p = "Produce" /\ \E i \in 1 .. MaxAcquire[p] : Write(i)
               \/ GiveLock(p)

Next == \/ \E p \in Ports : CoreStep(p) \/ TakeLock(p)
        \/ Terminating

Spec == Init /\ [][Next]_vars

(* A core runs on until it blocks, and a request that can be satisfied is  *)
(* served: the lock at acq[p] is taken by nobody else while it has the     *)
(* value that port p asks for.                                             *)
Fairness == \A p \in Ports : WF_vars(CoreStep(p)) /\ WF_vars(TakeLock(p))
FairSpec == Spec /\ Fairness

-----------------------------------------------------------------------------
(* The two index counters never drift apart: a port holds exactly the      *)
(* locks of its subview, starting at the one that it releases next and     *)
(* ending before the one that it acquires next.  A release of a lock that  *)
(* the port does not hold would free the other core's buffer.              *)
IndicesFrameSubview ==
    \A p \in Ports :
        /\ {b \in Buffers : holder[b] = p}
              = {acquired[p][i] : i \in 1 .. Len(acquired[p])}
        /\ \A i \in 1 .. Len(acquired[p]) : acquired[p][i] = (rel[p] + i - 1) % Depth
        /\ acq[p] = (rel[p] + Len(acquired[p])) % Depth

(* The programs run to their end: every acquire is granted in the end.     *)
Completes == <>Done

(* The subview of a port: the locks taken by an acquire that is not over   *)
(* are not part of it.                                                     *)
Visible(p) == Len(acquired[p]) - fresh[p]
SeenBy == [i \in 1 .. Visible("Consume") |-> buff[acquired["Consume"][i]]]

Contract == INSTANCE ObjectFifo
    WITH Consumers <- {"core"}, Capacity <- Depth,
         produced <- moved["Produce"], writing <- Visible("Produce"),
         consumed <- [c \in {"core"} |-> moved["Consume"]],
         subview <- [c \in {"core"} |-> SeenBy]

(* The lowering with one lock per buffer keeps the same contract as the    *)
(* one with counting locks, although its acquires and releases take        *)
(* several steps that interleave with the other core's.                    *)
ContractSpec == Contract!Spec
=============================================================================
