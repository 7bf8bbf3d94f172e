-------------------------- MODULE MCObjectFifoLink --------------------------
(* Instances of ObjectFifoLink: the links that TLC lowers.                 *)
EXTENDS ObjectFifoLink

LinkOf(ins, outs, inSize, outSize, inIsLarger, onMemTile, repeat) ==
    [ins |-> ins, outs |-> outs,
     size |-> [c \in ins \cup outs |-> IF c \in ins THEN inSize ELSE outSize],
     inIsLarger |-> inIsLarger, onMemTile |-> onMemTile, repeat |-> repeat]

OneToOne(inSize, outSize, inIsLarger, onMemTile, repeat) ==
    LinkOf({"in1"}, {"out1"}, inSize, outSize, inIsLarger, onMemTile, repeat)

Distribute(size, repeat) ==
    LinkOf({"in1"}, {"out1", "out2"}, size, size, TRUE, TRUE, repeat)
Join(size) == LinkOf({"in1", "in2"}, {"out1"}, size, size, FALSE, TRUE, 0)

MCLinks == {OneToOne(3, 2, TRUE, TRUE, 0), OneToOne(2, 3, FALSE, TRUE, 0),
            OneToOne(2, 2, TRUE, FALSE, 0), OneToOne(1, 1, TRUE, TRUE, 2),
            OneToOne(1, 1, FALSE, TRUE, 2),
            Distribute(1, 1), Distribute(2, 0), Join(2)}

DistributeLink == {Distribute(2, 0)}
TileLinkOfTwoDepths == {OneToOne(4, 2, TRUE, FALSE, 0)}
=============================================================================
