---------------------------- MODULE UnrollForLoops ----------------------------
(***************************************************************************)
(* unrollForLoops of AIEObjectFifoStatefulTransform.  A subview names its  *)
(* buffers at compile time, so a loop around acquires has to be unrolled   *)
(* until each of its trips moves the ring of buffers by whole turns, and   *)
(* what is left over has to be unrolled away.                              *)
(*                                                                         *)
(* A walk over the loops of a core calls back for each, inner ones first;  *)
(* the callback walks over all loops in the region around it, again and    *)
(* again, while maps that are keyed by the address of a loop tell what was *)
(* found, which loops are unrolled, and which have a remainder.  Loops are *)
(* cloned and erased under both walks.                                     *)
(*                                                                         *)
(* The text of a core program is a sequence of operations with marks where *)
(* a loop begins and ends.  Trip counts are constants and not zero;        *)
(* between two loops there is an operation, if only a constant (without    *)
(* one the walk goes on from an erased loop).                              *)
(***************************************************************************)
EXTENDS Integers, Sequences, SequencesExt

CONSTANT Depth               \* op.size(), the number of buffers

VARIABLES ir,          \* the text of the core program
          visited,     \* loops that coreOp.walk is past
          callback,    \* the loop that it is at, or NoLoop
          region,      \* the loop whose body region->walk is in, or NoLoop
          walk,        \* loops that region->walk has still to come to
          prevLoop,    \* the loop that it was at last
          found,       \* foundMap: loops with TRUE
          ragged,      \* remainderMap: loops with more than one trip left over
          unrolled,    \* unrolledLoops
          erased,      \* addresses of loops that were promoted
          lastID       \* highest address given to a loop

unrolling == <<ir, visited, callback, region, walk, prevLoop, found, ragged,
               unrolled, erased, lastID>>

NoLoop == 0

-----------------------------------------------------------------------------
(* The text.                                                               *)

IsAcquire(op) == op.kind = "acquire"
IsFor(op) == op.kind = "for"
IsEnd(op) == op.kind = "end"
IsMark(op) == IsFor(op) \/ IsEnd(op)

For(l, trips, step) == [kind |-> "for", id |-> l, trips |-> trips, step |-> step]
End(l) == [kind |-> "end", id |-> l]

Copies(s, k) == [i \in 1 .. k * Len(s) |-> s[((i - 1) % Len(s)) + 1]]

(* A loop of one trip is promoted: its body stands in its place.           *)
LoopText(l, trips, step, body) ==
    IF trips = 1 THEN body ELSE <<For(l, trips, step)>> \o body \o <<End(l)>>

BeginOf(text, l) == CHOOSE i \in 1 .. Len(text) : IsFor(text[i]) /\ text[i].id = l
EndOf(text, l) == CHOOSE i \in 1 .. Len(text) : IsEnd(text[i]) /\ text[i].id = l
BodyOf(text, l) == SubSeq(text, BeginOf(text, l) + 1, EndOf(text, l) - 1)

(* The loops of a text in the order of a post-order walk.                  *)
LoopsOf(text) == LET ends == SelectSeq(text, IsEnd)
                 IN  [i \in 1 .. Len(ends) |-> ends[i].id]

RegionText(text, l) == IF l = NoLoop THEN text ELSE BodyOf(text, l)

(* The loop directly around a loop.                                        *)
ParentOf(text, l) ==
    LET around == SelectSeq(LoopsOf(text), LAMBDA m : \E i \in 1 .. Len(BodyOf(text, m)) :
                                               BodyOf(text, m)[i] = End(l))
    IN  IF around = <<>> THEN NoLoop ELSE Head(around)

(* An acquire is in the body itself, not in a loop inside of it.           *)
HasDirectAcquire(text, l) ==
    \E i \in BeginOf(text, l) .. EndOf(text, l) :
        /\ IsAcquire(text[i])
        /\ \A m \in ToSet(LoopsOf(BodyOf(text, l))) :
               i \notin BeginOf(text, m) .. EndOf(text, m)

-----------------------------------------------------------------------------
UnrollInit ==
    /\ visited = {} /\ callback = NoLoop /\ region = NoLoop /\ walk = <<>>
    /\ prevLoop = NoLoop /\ found = {} /\ ragged = {} /\ unrolled = {} /\ erased = {}
    /\ lastID = Len(LoopsOf(ir))

ToVisit == SelectSeq(LoopsOf(ir), LAMBDA l : l \notin visited)

UnrollingDone == callback = NoLoop /\ ToVisit = <<>>

(* coreOp.walk comes to a loop.  One without acquires is not to be         *)
(* unrolled.                                                               *)
VisitLoop ==
    /\ callback = NoLoop /\ ToVisit # <<>>
    /\ LET l == Head(ToVisit)
       IN  /\ visited' = visited \cup {l}
           /\ ragged' = ragged \ {l}
           /\ IF HasDirectAcquire(ir, l)
              THEN /\ callback' = l
                   /\ region' = ParentOf(ir, l)
                   /\ prevLoop' = l
                   /\ found' = found \cup {l}
                   /\ UNCHANGED unrolled
              ELSE /\ found' = found \ {l}
                   /\ unrolled' = unrolled \cup {l}
                   /\ UNCHANGED <<callback, region, prevLoop>>
    /\ UNCHANGED <<ir, walk, erased, lastID>>

(* The callback walks over its region while the loop of the last step has  *)
(* something left to do.                                                   *)
WalkRegion ==
    /\ callback # NoLoop /\ walk = <<>>
    /\ IF prevLoop \in ragged \cup found
       THEN walk' = LoopsOf(RegionText(ir, region)) /\ UNCHANGED callback
       ELSE callback' = NoLoop /\ UNCHANGED walk
    /\ UNCHANGED <<ir, visited, region, prevLoop, found, ragged, unrolled, erased, lastID>>

(* Slip: the copies are counted without the body that is there.            *)
UnrollFactorUncounted(trips) == IF trips < Depth THEN trips ELSE Depth - 1

(* The factor for a loop: all fifos of the program have the same depth.    *)
UnrollFactor(trips) == IF trips < Depth THEN trips ELSE Depth

(* Clones get addresses of their own, in copy c those of the c-th range.   *)
Clone(body, c) == [i \in 1 .. Len(body) |->
    IF IsMark(body[i]) THEN [body[i] EXCEPT !.id = @ + c * lastID] ELSE body[i]]

(* The text after loopUnrollByFactor: the body f times, and the rest of    *)
(* the trips in a loop of its own, at address e, behind it.                *)
UnrolledBy(l, f, e) ==
    LET loop == ir[BeginOf(ir, l)]
        body == BodyOf(ir, l)
        copies == FlattenSeq([c \in 1 .. f |-> Clone(body, c - 1)])
        rest == IF loop.trips % f = 0 THEN <<>>
                ELSE LoopText(e, loop.trips % f, loop.step, Clone(body, f))
    IN  SubSeq(ir, 1, BeginOf(ir, l) - 1)
          \o LoopText(l, loop.trips \div f, loop.step * f, copies) \o rest
          \o SubSeq(ir, EndOf(ir, l) + 1, Len(ir))

(* region->walk comes to a loop.  A loop after one with a remainder is put *)
(* off, and the mark of the remainder with it; a small step is taken for   *)
(* the sign of a loop that was not unrolled.  The loop for the rest may be *)
(* allocated where an erased loop was, of which the maps still know.       *)
VisitInRegion ==
    /\ walk # <<>>
    /\ LET l == Head(walk)
           loop == ir[BeginOf(ir, l)]
           f == UnrollFactor(loop.trips)
           skipLoop == prevLoop \in ragged /\ l \notin found /\ prevLoop # l
           toUnroll == l \notin unrolled /\ ~ skipLoop /\ (loop.step < f \/ l \in found)
       IN  /\ ragged' = IF toUnroll /\ loop.trips % f > 1 THEN ragged \cup {l} ELSE ragged \ {l}
           /\ found' = found \ {l}
           /\ prevLoop' = l
           /\ walk' = Tail(walk)
           /\ \/ /\ toUnroll
                 /\ unrolled' = unrolled \cup {l}
                 /\ \E e \in IF loop.trips % f > 1 THEN erased \cup {l + f * lastID} ELSE {l + f * lastID} :
                       /\ ir' = UnrolledBy(l, f, e)
                       /\ erased' = (erased \ {e}) \cup IF loop.trips \div f = 1 THEN {l} ELSE {}
                       /\ LET new == (ToSet(LoopsOf(ir')) \ ToSet(LoopsOf(ir))) \cup {e}
                          IN  visited' = IF l \in visited THEN visited \cup new ELSE visited \ new
                 /\ lastID' = (f + 1) * lastID
              \/ /\ ~ toUnroll
                 /\ UNCHANGED <<ir, visited, unrolled, erased, lastID>>
    /\ UNCHANGED <<callback, region>>

UnrollNext == VisitLoop \/ WalkRegion \/ VisitInRegion
=============================================================================
