--------------------------- MODULE RegisterProcess ----------------------------
(***************************************************************************)
(* AIEObjectFifoRegisterProcess: the core program for a process that is    *)
(* registered with an objectFifo, from how many objects each of its calls  *)
(* acquires and releases.  Equal calls in a row become a loop.             *)
(*                                                                         *)
(* A program is the text that the pass leaves and, beside it, the          *)
(* operations in the order in which the core runs that text.               *)
(***************************************************************************)
EXTENDS UnrollForLoops

Ops(s) == [text |-> s, run |-> s]

Loop(l, trips, step, p) ==
    [text |-> <<For(l, trips, step)>> \o p.text \o <<End(l)>>, run |-> Copies(p.run, trips)]

Then(p, q) == [text |-> p.text \o q.text, run |-> p.run \o q.run]

-----------------------------------------------------------------------------
Acquire(n) == [kind |-> "acquire", n |-> n]
Release(n) == [kind |-> "release", n |-> n]

(* A process: its two patterns and its length.                             *)
VerifiedProcess(acqPattern, relPattern, length) ==
    /\ length >= 1
    /\ Len(acqPattern) = Len(relPattern) \/ length \in {Len(acqPattern), Len(relPattern)}

(* A pattern of one entry stands for length equal ones.                    *)
Duplicated(pattern, length) ==
    IF Len(pattern) = 1 THEN [i \in 1 .. length |-> pattern[1]] ELSE pattern

(* The pass goes over the acquires and would read past the end of shorter  *)
(* releases.                                                               *)
InBounds(acqPattern, relPattern, length) ==
    Len(Duplicated(acqPattern, length)) <= Len(Duplicated(relPattern, length))

(* The calls of a process: patterns of the same size above one do not look *)
(* at the length.                                                          *)
Calls(acqPattern, relPattern, length) ==
    LET acqVector == Duplicated(acqPattern, length)
        relVector == Duplicated(relPattern, length)
    IN  [i \in 1 .. Len(acqVector) |-> <<acqVector[i], relVector[i]>>]

(* createPattern: acquires and releases of nothing are left out.           *)
CreatePattern(call, length, l) ==
    LET body == Ops((IF call[1] > 0 THEN <<Acquire(call[1])>> ELSE <<>>)
                      \o (IF call[2] > 0 THEN <<Release(call[2])>> ELSE <<>>))
    IN  IF length > 1 THEN Loop(l, length, 1, body) ELSE body

(* The program: the loop over the calls counts equal ones in length, and   *)
(* writes them when the next one differs.  Loops are numbered from 1.      *)
ProcessProgram(calls) ==
    LET n == Len(calls)
        scan[i \in 0 .. n] ==
            IF i = 0 THEN [done |-> Ops(<<>>), length |-> 1, loops |-> 0]
            ELSE LET s == scan[i - 1]
                 IN  IF i < n /\ calls[i] = calls[i + 1]
                     THEN [s EXCEPT !.length = @ + 1]
                     ELSE [done |-> Then(s.done, CreatePattern(calls[i], s.length, s.loops + 1)),
                           length |-> 1,
                           loops |-> s.loops + IF s.length > 1 THEN 1 ELSE 0]
    IN  scan[n].done
=============================================================================
