------------------------ MODULE AcquireReleaseLowering ------------------------
(***************************************************************************)
(* How AIEObjectFifoStatefulTransform turns the acquires and releases of   *)
(* one objectFifo port in a core program into use_locks and buffers, and   *)
(* what the lowered program then does when it runs.                        *)
(*                                                                         *)
(* The pass unrolls the loops (UnrollForLoops), replaces the releases,     *)
(* then replaces the acquires in the order of the text: each gets at       *)
(* compile time the number of locks that it takes and the buffers of its   *)
(* subview.  At run time a window of objects moves on: an acquire of n     *)
(* objects extends it to at least n, a release drops its oldest ones.  The *)
(* pass has to predict that window for every execution of every acquire.   *)
(***************************************************************************)
EXTENDS RegisterProcess

CONSTANTS MaxWindow,         \* largest acquire or release of a program
          MaxPre, MaxBody, MaxPost,   \* longest parts of a single loop
          MaxInner, MaxAround,        \* ... of a nest, of a loop beside another
          MaxCalls,                   \* longest process
          TripCounts, Steps,          \* of a single loop
          NestTrips,                  \* trip counts of two loops
          OneReleaseOnly,    \* only texts with at most one release between
                             \* two acquires
          SteadyLoopsOnly,   \* only texts whose loops end each trip with the
                             \* window that it began with
          AlignedLoopsOnly   \* only texts whose loops move on by whole turns
                             \* of the ring

ASSUME LoweringAssumption ==
    /\ Depth \in Nat \ {0}
    /\ MaxWindow \in 1 .. Depth
    /\ \A n \in {MaxPre, MaxBody, MaxPost, MaxInner, MaxAround, MaxCalls} : n \in Nat
    /\ TripCounts \cup NestTrips \cup Steps \subseteq Nat \ {0}
    /\ {OneReleaseOnly, SteadyLoopsOnly, AlignedLoopsOnly} \subseteq BOOLEAN

VARIABLES source,      \* the core program before the pass
          phase,       \* "unroll", "acquires", "run", "done", "rejected", "left out"
          pc,          \* position in the text of the walk, or of the core
          releaseOps,  \* positions of the releases registered and not erased
          acquires,    \* acquiresPerFifo: buffers of the latest subview
          start,       \* acqPerFifo: next buffer to acquire
          numCreate,   \* [position] locks taken by the lowered acquire
          subview,     \* [position] buffers of its subview
          trips,       \* the loops that the core is in, innermost first:
                       \* trips that are still to come
          taken,       \* locks that the running core has taken
          base, held,  \* the window at run time: objects released, held
          view         \* buffers of the subview just acquired, its n objects

compiled == <<source, unrolling, releaseOps, acquires, start, numCreate, subview>>
running == <<trips, taken, base, held, view>>
vars == <<source, ir, visited, callback, region, walk, prevLoop, found, ragged,
          unrolled, erased, lastID, phase, pc, releaseOps, acquires, start,
          numCreate, subview, trips, taken, base, held, view>>

-----------------------------------------------------------------------------
(* Programs.                                                               *)

Op == [kind : {"acquire", "release"}, n : 1 .. MaxWindow]
IsRelease(op) == op.kind = "release"

(* The size of the window after an operation.  A release of more than it   *)
(* has is not legal, and nothing after it is.                              *)
Step(w, op) == IF w < 0 \/ IsMark(op) THEN w
               ELSE IF IsRelease(op) THEN w - op.n
               ELSE IF op.n > w THEN op.n ELSE w

(* The window after each operation of a text, its loops run once.          *)
Windows(ops) == LET w[i \in 0 .. Len(ops)] == IF i = 0 THEN 0 ELSE Step(w[i - 1], ops[i])
                IN  w

Legal(ops) == Windows(ops)[Len(ops)] >= 0

(* At most one release between two acquires.                               *)
OneRelease(ops) ==
    \A i, j \in 1 .. Len(ops) :
        i < j /\ IsRelease(ops[i]) /\ IsRelease(ops[j])
            => \/ \E k \in i .. j : IsAcquire(ops[k])
               \/ \A k \in j .. Len(ops) : ~ IsAcquire(ops[k])

Steady(text) ==
    \A l \in ToSet(LoopsOf(text)) :
        Windows(text)[BeginOf(text, l)] = Windows(text)[EndOf(text, l)]

(* What a text releases, its loops run once.                               *)
Released(text) ==
    LET r[i \in 0 .. Len(text)] ==
            IF i = 0 THEN 0 ELSE r[i - 1] + IF IsRelease(text[i]) THEN text[i].n ELSE 0
    IN  r[Len(text)]

Aligned(text) ==
    \A l \in ToSet(LoopsOf(text)) : Released(BodyOf(text, l)) % Depth = 0

SingleLoops ==
    {Then(Ops(p[1]), Then(Loop(1, p[2], p[3], Ops(p[4])), Ops(p[5]))) :
        p \in SeqOf(Op, MaxPre) \X TripCounts \X Steps
                 \X (SeqOf(Op, MaxBody) \ {<<>>}) \X SeqOf(Op, MaxPost)}

Nests ==
    {Loop(2, p[1], 1, Then(Ops(p[2]), Then(Loop(1, p[3], 1, Ops(p[4])), Ops(p[5])))) :
        p \in NestTrips \X SeqOf(Op, MaxAround) \X NestTrips
                 \X SeqOf(Op, MaxInner) \X SeqOf(Op, MaxAround)}

Neighbours ==
    {Then(Loop(1, p[1], 1, Ops(p[2])), Loop(2, p[3], 1, Ops(p[4]))) :
        p \in NestTrips \X SeqOf(Op, MaxInner) \X NestTrips \X SeqOf(Op, MaxInner)}

Patterns == SeqOf(0 .. MaxWindow, MaxCalls) \ {<<>>}

Processes ==
    LET registered == {p \in Patterns \X Patterns \X (TripCounts \cup 1 .. MaxCalls) :
                          VerifiedProcess(p[1], p[2], p[3]) /\ InBounds(p[1], p[2], p[3])}
    IN  {ProcessProgram(Calls(p[1], p[2], p[3])) : p \in registered}

Shapes == {SingleLoops, Nests, Neighbours, Processes}

-----------------------------------------------------------------------------
Code == ir
Positions(ops, kind) == SelectSeq([i \in 1 .. Len(ops) |-> i], LAMBDA i : ops[i].kind = kind)

Init == /\ \E programs \in Shapes : \E p \in programs : Legal(p.run) /\ source = p.text
        /\ ir = source
        /\ UnrollInit
        /\ phase = "unroll" /\ pc = 1
        /\ releaseOps = <<>> /\ acquires = <<>> /\ start = 0
        /\ numCreate = <<>> /\ subview = <<>>
        /\ trips = <<>> /\ taken = 0 /\ base = 0 /\ held = 0
        /\ view = [buffers |-> <<>>, n |-> 0]

-----------------------------------------------------------------------------
UnrollStep ==
    /\ phase = "unroll"
    /\ UnrollNext
    /\ UNCHANGED <<source, phase, pc, releaseOps, acquires, start, numCreate, subview, running>>

(* The texts that a run is about.                                          *)
Covered == /\ OneReleaseOnly => OneRelease(Code)
           /\ SteadyLoopsOnly => Steady(Code)
           /\ AlignedLoopsOnly => Aligned(Code)

(* The walk over the releases replaces each by a use_lock and registers    *)
(* all of them in the order of the text.                                   *)
ReplaceReleases ==
    /\ phase = "unroll" /\ UnrollingDone
    /\ IF Covered
       THEN /\ phase' = "acquires"
            /\ releaseOps' = Positions(Code, "release")
            /\ numCreate' = [i \in 1 .. Len(Code) |-> 0]
            /\ subview' = [i \in 1 .. Len(Code) |-> <<>>]
       ELSE /\ phase' = "left out"
            /\ UNCHANGED <<releaseOps, numCreate, subview>>
    /\ UNCHANGED <<source, unrolling, pc, acquires, start, running>>

(* The walk over the acquires.                                             *)
(* The loop that counts the objects released before the acquire at         *)
(* position a.  It erases the head of releaseOps while a range-for runs    *)
(* over the same vector: the iteration keeps its n slots, each erase moves *)
(* the elements one slot down, and the slots past the new end keep the     *)
(* last element.                                                           *)
ScanReleases(a) ==
    LET n == Len(releaseOps)
        scan[i \in 0 .. n] ==
            IF i = 0 THEN [erased |-> 0, numRel |-> 0]
            ELSE LET s == scan[i - 1]
                     slot == i + s.erased
                     rel == releaseOps[IF slot > n THEN n ELSE slot]
                 IN  IF rel < a THEN [erased |-> s.erased + 1,
                                      numRel |-> s.numRel + Code[rel].n]
                     ELSE s
    IN  scan[n]

(* Slip: what was released since is forgotten.                             *)
StillHeldAll(numRel) == acquires

(* The subview of the previous acquire without what was released since.    *)
StillHeld(numRel) == SubSeq(acquires, numRel + 1, Len(acquires))

(* Slip: releasing all that is held is refused.                            *)
RejectAll(numRel) == acquires # <<>> /\ numRel >= Len(acquires)

(* "cannot release more elements than are already acquired": the acquire   *)
(* is left without a subview.  The module stops there: the accesses of its *)
(* subview then index an empty vector.                                     *)
Reject(numRel) == acquires # <<>> /\ numRel > Len(acquires)

(* Slip: the objects that are held are acquired again.                     *)
NumCreateAll(n, alreadyAcq) == n

(* Locks to take for an acquire of n objects when alreadyAcq are held.     *)
NumCreate(n, alreadyAcq) == IF n > alreadyAcq THEN n - alreadyAcq ELSE 0

NextIndices(k) == [i \in 1 .. k |-> (start + i - 1) % Depth]

ReplaceAcquire ==
    /\ phase = "acquires" /\ pc <= Len(Code) /\ IsAcquire(Code[pc])
    /\ LET scan == ScanReleases(pc)
           kept == StillHeld(scan.numRel)
           create == NumCreate(Code[pc].n, Len(kept))
       IN  /\ releaseOps' = SubSeq(releaseOps, scan.erased + 1, Len(releaseOps))
           /\ IF Reject(scan.numRel)
              THEN /\ phase' = "rejected"
                   /\ UNCHANGED <<pc, acquires, start, numCreate, subview>>
              ELSE /\ acquires' = kept \o NextIndices(create)
                   /\ start' = (start + create) % Depth
                   /\ numCreate' = [numCreate EXCEPT ![pc] = create]
                   /\ subview' = [subview EXCEPT ![pc] = kept \o NextIndices(create)]
                   /\ pc' = pc + 1
                   /\ UNCHANGED phase
    /\ UNCHANGED <<source, unrolling, running>>

SkipOthers ==
    /\ phase = "acquires" /\ pc <= Len(Code) /\ ~ IsAcquire(Code[pc])
    /\ pc' = pc + 1
    /\ UNCHANGED <<phase, compiled, running>>

StartCore ==
    /\ phase = "acquires" /\ pc > Len(Code)
    /\ phase' = "run" /\ pc' = 1
    /\ UNCHANGED <<compiled, running>>

-----------------------------------------------------------------------------
(* The lowered program runs.                                               *)

RunAcquire ==
    /\ phase = "run" /\ pc <= Len(Code) /\ IsAcquire(Code[pc])
    /\ taken' = taken + numCreate[pc]
    /\ held' = Step(held, Code[pc])
    /\ view' = [buffers |-> subview[pc], n |-> Code[pc].n]
    /\ pc' = pc + 1
    /\ UNCHANGED <<phase, compiled, trips, base>>

RunRelease ==
    /\ phase = "run" /\ pc <= Len(Code) /\ IsRelease(Code[pc])
    /\ base' = base + Code[pc].n
    /\ held' = Step(held, Code[pc])
    /\ view' = [buffers |-> <<>>, n |-> 0]
    /\ pc' = pc + 1
    /\ UNCHANGED <<phase, compiled, trips, taken>>

EnterLoop ==
    /\ phase = "run" /\ pc <= Len(Code) /\ IsFor(Code[pc])
    /\ trips' = <<Code[pc].trips - 1>> \o trips
    /\ pc' = pc + 1
    /\ UNCHANGED <<phase, compiled, taken, base, held, view>>

EndTrip ==
    /\ phase = "run" /\ pc <= Len(Code) /\ IsEnd(Code[pc])
    /\ IF Head(trips) > 0
       THEN /\ trips' = <<Head(trips) - 1>> \o Tail(trips)
            /\ pc' = BeginOf(Code, Code[pc].id) + 1
       ELSE /\ trips' = Tail(trips)
            /\ pc' = pc + 1
    /\ UNCHANGED <<phase, compiled, taken, base, held, view>>

Finish ==
    /\ phase = "run" /\ pc > Len(Code)
    /\ phase' = "done"
    /\ UNCHANGED <<pc, compiled, running>>

Terminating == phase \in {"done", "rejected", "left out"} /\ UNCHANGED vars

Next == UnrollStep \/ ReplaceReleases \/ ReplaceAcquire \/ SkipOthers \/ StartCore
          \/ RunAcquire \/ RunRelease \/ EnterLoop \/ EndTrip \/ Finish \/ Terminating

Spec == Init /\ [][Next]_vars

-----------------------------------------------------------------------------
(* At every point of the run the lowered program has taken one lock for    *)
(* each object that its window ever reached, no more (an acquire takes     *)
(* only what the window lacks, or units leak until the core blocks) and no *)
(* fewer (it would use a buffer that the other side owns).                 *)
LocksMatchWindow == taken = base + held

(* The subview computed at compile time names the buffers of the window as *)
(* it is when the acquire runs, the oldest object first, on every trip.    *)
(* That is what the pass and its CHECK lines do; a comment of the test     *)
(* AIE2_delayed_release.mlir expects the most recent object instead.       *)
SubviewIsWindow ==
    /\ view.n <= Len(view.buffers)
    /\ \A i \in 1 .. view.n : view.buffers[i] = (base + i - 1) % Depth

(* A program that never releases more than it holds is compiled.           *)
LegalAccepted == phase # "rejected"

(* Loops whose remainder the pass gets right: there is none of two trips   *)
(* or more, or the loop is the only one, is left a loop itself, and has a  *)
(* step smaller than its remainder.                                        *)
RemaindersUnderstood ==
    \A l \in ToSet(LoopsOf(source)) :
        LET loop == source[BeginOf(source, l)]
            rest == IF loop.trips < Depth THEN 0 ELSE loop.trips % Depth
        IN  \/ rest <= 1
            \/ ToSet(LoopsOf(source)) = {l} /\ loop.trips > 2 * Depth /\ loop.step < rest

(* Unrolling leaves only loops that move the ring by whole turns, so that  *)
(* the buffers named in a text are those of every trip.                    *)
UnrollingAligns ==
    phase # "unroll" /\ Steady(Code) /\ RemaindersUnderstood => Aligned(Code)
=============================================================================
