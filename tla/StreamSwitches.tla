--------------------------- MODULE StreamSwitches ---------------------------
(***************************************************************************)
(* The second half of aie-create-pathfinder-flows writes the routes into   *)
(* the stream switches: circuits as connections, packets as master sets    *)
(* (which output belongs to which arbiter and master select, the amsel)    *)
(* and packet rules (which identifiers at an input go to which amsel).     *)
(* The verifier of the switchboxes looks at the result.                    *)
(***************************************************************************)
EXTENDS PathFinder

CONSTANTS NumArbiters, NumMsels     \* 6 and 4

ASSUME SwitchAssumption == NumArbiters \in Nat \ {0} /\ NumMsels \in Nat \ {0}

VARIABLES connects,     \* connections in the order in which they are written:
                        \* [tile, mux, src, dst]; mux: below the switchbox
          rewritten,    \* circuit flows that have been rewritten
          processed,    \* sources whose circuits have been written
          streams,      \* [tile] packet connections [src, dst, id], in order
          ctrlPktFlows, \* [<<tile, output, id>>] is it for control packets
          amsels,       \* [tile][amsel] its output ports
          slaveAmsel,   \* [<<tile, port, id, ctrl>>] amsel of a stream
          masters,      \* [tile][output port] its amsels, as written
          rules,        \* [tile][input port] rules [mask, value, amsel]
          switchResult  \* "circuits", "amsels", "written", "legal",
                        \* "rejected" by the verifier, or "undefined" when
                        \* an amsel that does not exist is used

switchVars == <<tileOps, connects, rewritten, processed, streams, ctrlPktFlows,
                amsels, slaveAmsel, masters, rules, switchResult>>

TilesInOrder == [k \in 1 .. Columns * Rows |-> <<(k - 1) \div Rows, (k - 1) % Rows>>]
PortOf(p) == <<p[2], p[3]>>
At(t, port) == <<t, port[1], port[2]>>

-----------------------------------------------------------------------------
(* The wires between a shim's multiplexer and its switchbox that stand for *)
(* the DMAs, the NoC and the PL.                                           *)
ShimIn(p) == CASE p[1] = "DMA" -> IF p[2] = 0 THEN 3 ELSE 7
               [] p[1] = "NOC" -> IF p[2] >= 2 THEN p[2] + 4 ELSE p[2] + 2
               [] OTHER -> p[2]
ShimOut(p) == CASE p[1] = "DMA" -> IF p[2] = 0 THEN 2 ELSE 3
                [] p[1] = "NOC" -> p[2] + 2
                [] OTHER -> p[2]

Connect(t, mux, src, dst) == [tile |-> t, mux |-> mux, src |-> src, dst |-> dst]

(* One connection of a route that starts at source.                        *)
EdgeConnects(source, e) ==
    LET t == e[1][1]
        src == PortOf(e[1])
        dst == PortOf(e[2])
    IN  IF IsShim(t) /\ t = source[1]
        THEN <<Connect(t, FALSE, <<"South", ShimIn(PortOf(source))>>, dst)>>
        ELSE IF IsShim(t) /\ dst[1] \in ShimMuxBundles
        THEN <<Connect(t, TRUE, <<"North", ShimOut(dst)>>, dst),
               Connect(t, FALSE, src, <<"South", ShimOut(dst)>>)>>
        ELSE <<Connect(t, FALSE, src, dst)>>

(* Tiles that a route passes and that the program does not name are added. *)
Named(ts) == SelectSeq(TilesInOrder, LAMBDA t : t \in ts \ declared)

(* The pattern for FlowOp writes the whole route of the flow's source, and *)
(* nothing for further flows of that source.                               *)
RewriteCircuit ==
    /\ routeResult = "success" /\ switchResult = "circuits"
    /\ rewritten < Len(circuits)
    /\ rewritten' = rewritten + 1
    /\ LET source == circuits[rewritten + 1].src
           mux == IF IsShim(source[1])
                  THEN <<Connect(source[1], TRUE, PortOf(source),
                                 <<"North", ShimIn(PortOf(source))>>)>>
                  ELSE <<>>
       IN  /\ connects' = IF source \in processed THEN connects
                          ELSE FoldLeft(LAMBDA w, e : w \o EdgeConnects(source, e),
                                        connects \o mux, solution[source])
           /\ tileOps' = IF source \in processed THEN tileOps
                         ELSE tileOps \o Named({e[1][1] : e \in ToSet(solution[source])})
           /\ processed' = processed \cup {source}
    /\ UNCHANGED <<streams, ctrlPktFlows, amsels, slaveAmsel, masters, rules, switchResult>>

-----------------------------------------------------------------------------
(* findPathToDest: the route, gone along from an output port, comes to the *)
(* destination.  At a switchbox it may have been traced in several pieces. *)
LeadsTo(edges, out, dst) ==
    LET leads[p \in {e[2] : e \in edges}] ==
            \/ p = dst
            \/ /\ p[2] \in {"East", "West", "North", "South"}
               /\ \E e \in edges : e[1] = Neighbour(p) /\ leads[e[2]]
    IN  leads[out]

(* Connections of the route from f.src that lead to a destination of f, in *)
(* the order in which the destinations and the connections come.           *)
StreamsOf(f) ==
    LET route == IF f.src \in processed THEN <<>> ELSE solution[f.src]
        Leading(d) == SelectSeq(route, LAMBDA e : LeadsTo({route[k] : k \in DOMAIN route}, e[2], d))
    IN  FoldLeft(LAMBDA s, d : s \o Leading(d), <<>>, f.dsts)

AddStream(s, e, id) ==
    LET c == [src |-> PortOf(e[1]), dst |-> PortOf(e[2]), id |-> id] IN
    IF Contains(s[e[1][1]], c) THEN s ELSE [s EXCEPT ![e[1][1]] = Append(@, c)]

(* The flows write one after the other whether an output of a switchbox is *)
(* for control packets: the last one of an identifier that leads there says*)
(* so for all of them.                                                     *)
MarkOutputs(m, f) ==
    [x \in {<<e[1][1], PortOf(e[2]), f.id>> : e \in ToSet(StreamsOf(f))} |-> f.prio] @@ m

CollectStreams ==
    /\ routeResult = "success" /\ switchResult = "circuits"
    /\ rewritten = Len(circuits)
    /\ streams' = FoldLeft(LAMBDA s, f :
                      FoldLeft(LAMBDA r, e : AddStream(r, e, f.id), s, StreamsOf(f)),
                      [t \in Tiles |-> <<>>], pktFlows)
    /\ ctrlPktFlows' = FoldLeft(MarkOutputs, <<>>, pktFlows)
    /\ switchResult' = "amsels"
    /\ UNCHANGED <<tileOps, connects, rewritten, processed, amsels, slaveAmsel,
                   masters, rules>>

(* The outputs of the stream id at an input port: those for control packets*)
(* (ctrlPacketFlows of the code) or the others (packetFlows).              *)
StreamsAt(t) == {streams[t][k] : k \in DOMAIN streams[t]}
IsCtrl(t, c) == ctrlPktFlows[<<t, c.dst, c.id>>]
DestsOf(t, src, id, ctrl) ==
    {c.dst : c \in {d \in StreamsAt(t) : d.src = src /\ d.id = id /\ IsCtrl(t, d) = ctrl}}

(* What of them decides on the rules: the control packets' outputs do not  *)
(* replace other ones.                                                     *)
RuledDests(t, src, id) ==
    LET D == DestsOf(t, src, id, FALSE) IN IF D # {} THEN D ELSE DestsOf(t, src, id, TRUE)

(* getUniqueIdPerFlowPerSB: ten for the source, twenty for the first       *)
(* destination, thirty for the next.                                       *)
UniqueId(f) ==
    LET dests == DestsOf(f[1], f[2], f[3], f[4])
        n == Cardinality(dests)
    IN  f[3] + 10 + BundleInt(f[2][1]) + 5 * n * (n + 3)
           + MapThenSumSet(LAMBDA d : BundleInt(d[1]), dests)

-----------------------------------------------------------------------------
(* A stream with outputs of both kinds gets two amsels.                    *)
Unallocated(t) ==
    {f \in {<<t, c.src, c.id, IsCtrl(t, c)>> : c \in StreamsAt(t)} : f \notin DOMAIN slaveAmsel}

(* Control packets first, then by UniqueId; the order of equals is that of *)
(* a hash table.                                                           *)
Precedes(f, g) == \/ f[4] /\ ~ g[4]
                  \/ f[4] = g[4] /\ UniqueId(f) < UniqueId(g)

Amsels == 0 .. (NumArbiters * NumMsels - 1)
ArbiterOf(a) == a % NumArbiters
Unused(t) == Amsels \ DOMAIN amsels[t]
Lowest(S) == CHOOSE a \in S : \A b \in S : a <= b
Highest(S) == CHOOSE a \in S : \A b \in S : a >= b

(* The stream f gets amsel a with the outputs D.                           *)
Allocated(f, a, D) ==
    /\ amsels' = [amsels EXCEPT ![f[1]] = (a :> D) @@ @]
    /\ slaveAmsel' = (f :> a) @@ slaveAmsel
    /\ UNCHANGED switchResult

(* Without an unused amsel the code goes on with -1 and writes out of the  *)
(* bounds of a vector.                                                     *)
AllocateFrom(f, S, fromTop, D) ==
    IF S = {} THEN switchResult' = "undefined" /\ UNCHANGED <<amsels, slaveAmsel>>
    ELSE Allocated(f, IF fromTop THEN Highest(S) ELSE Lowest(S), D)

(* The first amsel that is found to share an output with the stream (in    *)
(* the order of a hash table) decides: the same outputs take it over, other*)
(* ones take a new amsel of its arbiter.                                   *)
AllocateAmsel(f) ==
    LET t == f[1]
        D == DestsOf(t, f[2], f[3], f[4])
        sharing == {a \in DOMAIN amsels[t] : amsels[t][a] \cap D # {}}
    IN  /\ switchResult = "amsels"
        /\ f \in Unallocated(t) /\ \A g \in Unallocated(t) : ~ Precedes(g, f)
        /\ \/ /\ sharing = {}
              /\ AllocateFrom(f, Unused(t), f[4], D)
           \/ \E a \in sharing :
                 IF amsels[t][a] = D THEN Allocated(f, a, D)
                 ELSE AllocateFrom(f, {b \in Unused(t) : ArbiterOf(b) = ArbiterOf(a)},
                                   FALSE, D)
        /\ UNCHANGED <<tileOps, connects, rewritten, processed, streams, ctrlPktFlows,
                       masters, rules>>

-----------------------------------------------------------------------------
(* Streams of one input with the same outputs share a rule.  They are      *)
(* gathered from the last one back; the first of a group stands for it.    *)
SlaveGroups(t) ==
    LET Fits(g, c) == g.src = c.src
                      /\ RuledDests(t, g.src, g.ids[1]) = RuledDests(t, c.src, c.id)
        Join(gs, c) ==
            LET k == SelectInSeq(gs, LAMBDA g : Fits(g, c)) IN
            IF k = 0 THEN Append(gs, [src |-> c.src, ids |-> <<c.id>>])
            ELSE [gs EXCEPT ![k].ids = Append(@, c.id)]
    IN  FoldLeft(Join, <<>>, Reverse(streams[t]))

(* Bits of an identifier, which has five.                                  *)
Bits(id) == {n \in 0 .. 4 : (id \div 2 ^ n) % 2 = 1}

(* Slip: the rule is that of the first identifier alone.                   *)
MaskOfFirst(ids) == 0 .. 4

(* Bits in which all identifiers of a group agree.                         *)
Mask(ids) == {n \in 0 .. 4 : \A k \in DOMAIN ids : n \in Bits(ids[k]) <=> n \in Bits(ids[1])}

(* The amsel of a stream is the one that was written last.                 *)
AmselOf(t, src, id) ==
    slaveAmsel[<<t, src, id, <<t, src, id, FALSE>> \notin DOMAIN slaveAmsel>>]

RuleOf(t, g) == [mask |-> Mask(g.ids), value |-> Bits(g.ids[1]) \cap Mask(g.ids),
                 amsel |-> AmselOf(t, g.src, g.ids[1])]
Matches(rule, id) == Bits(id) \cap rule.mask = rule.value

(* At a shim tile the ports of the DMA lie behind the multiplexer.         *)
SlavePort(t, p) == IF IsShim(t) /\ p[1] = "DMA" THEN <<"South", ShimIn(p)>> ELSE p
MasterPort(t, p) == IF IsShim(t) /\ p[1] = "DMA" THEN <<"South", ShimOut(p)>> ELSE p

RulesOf(t) ==
    LET gs == SlaveGroups(t)
        At1(p) == SelectSeq(gs, LAMBDA g : SlavePort(t, g.src) = p)
    IN  [p \in {SlavePort(t, gs[k].src) : k \in DOMAIN gs} |->
            [k \in DOMAIN At1(p) |-> RuleOf(t, At1(p)[k])]]
MastersOf(t) ==
    LET Of1(p) == {a \in DOMAIN amsels[t] : \E q \in amsels[t][a] : MasterPort(t, q) = p}
    IN  [p \in {MasterPort(t, q) : q \in UNION {amsels[t][a] : a \in DOMAIN amsels[t]}} |->
            Of1(p)]
PacketMux(t) ==
    LET dma == {c.src : c \in StreamsAt(t)}
        out == UNION {amsels[t][a] : a \in DOMAIN amsels[t]}
    IN  IF ~ IsShim(t) THEN <<>>
        ELSE SetToSeq({Connect(t, TRUE, p, <<"North", ShimIn(p)>>) : p \in {q \in dma : q[1] = "DMA"}}
                \cup {Connect(t, TRUE, <<"North", ShimOut(p)>>, p) : p \in {q \in out : q[1] = "DMA"}})

(* Only the tiles that the program or a circuit has named are written: the *)
(* map of tiles was filled before the routes of the packets were looked at.*)
EmitPacketRules ==
    /\ switchResult = "amsels" /\ \A t \in Tiles : Unallocated(t) = {}
    /\ masters' = [t \in declared |-> MastersOf(t)]
    /\ rules' = [t \in declared |-> RulesOf(t)]
    /\ connects' = FoldLeft(LAMBDA w, t : w \o PacketMux(t), connects,
                            SelectSeq(TilesInOrder, LAMBDA t : t \in declared))
    /\ switchResult' = "written"
    /\ UNCHANGED <<tileOps, rewritten, processed, streams, ctrlPktFlows, amsels, slaveAmsel>>

-----------------------------------------------------------------------------
(* SwitchboxOp::verify and ShimMuxOp::verify.                              *)
Index(f) == {<<t, p>> : t \in DOMAIN f, p \in UNION {DOMAIN f[u] : u \in DOMAIN f}}
Pairs(f) == {x \in Index(f) : x[2] \in DOMAIN f[x[1]]}
MasterSets == Pairs(masters)
RuledPorts == Pairs(rules)

DuplicateDest ==
    \/ \E i, j \in DOMAIN connects :
          /\ i < j /\ connects[i].tile = connects[j].tile
          /\ connects[i].mux = connects[j].mux /\ connects[i].dst = connects[j].dst
    \/ \E i \in DOMAIN connects :
          ~ connects[i].mux /\ <<connects[i].tile, connects[i].dst>> \in MasterSets

PacketSourceConnected ==
    \E i \in DOMAIN connects :
        ~ connects[i].mux /\ <<connects[i].tile, connects[i].src>> \in RuledPorts

IllegalConnect ==
    \E i \in DOMAIN connects :
        LET c == connects[i] IN
        ~ c.mux /\ ~ LegalTileConnection(c.tile, c.src[1], c.src[2], c.dst[1], c.dst[2])

IllegalMaster ==
    \E x \in MasterSets :
        LET t == x[1] p == x[2] IN
        \/ p[2] >= NumDest(t, p[1])
        \/ \E a, b \in masters[t][p] : ArbiterOf(a) # ArbiterOf(b)
        \/ \E s \in DOMAIN rules[t] : \E k \in DOMAIN rules[t][s] :
              /\ rules[t][s][k].amsel \in masters[t][p]
              /\ ~ LegalTileConnection(t, s[1], s[2], p[1], p[2])

VerifySwitchboxes ==
    /\ switchResult = "written"
    /\ switchResult' = IF DuplicateDest \/ PacketSourceConnected \/ IllegalConnect \/ IllegalMaster
                       THEN "rejected" ELSE "legal"
    /\ UNCHANGED <<tileOps, connects, rewritten, processed, streams, ctrlPktFlows,
                   amsels, slaveAmsel, masters, rules>>

SwitchInit == /\ rewritten = 0 /\ processed = {} /\ streams = [t \in Tiles |-> <<>>]
              /\ ctrlPktFlows = <<>>
              /\ amsels = [t \in Tiles |-> <<>>] /\ slaveAmsel = <<>>
              /\ masters = <<>> /\ rules = <<>> /\ switchResult = "circuits"

(* Tiles are independent of each other; they are served in order.         *)
NextTile == {t \in Tiles : /\ Unallocated(t) # {}
                           /\ \A u \in Tiles : Unallocated(u) # {} =>
                                 Col(t) < Col(u) \/ (Col(t) = Col(u) /\ Row(t) <= Row(u))}

SwitchNext == \/ RewriteCircuit \/ CollectStreams
              \/ \E t \in NextTile : \E f \in Unallocated(t) : AllocateAmsel(f)
              \/ EmitPacketRules \/ VerifySwitchboxes

-----------------------------------------------------------------------------
(* What the switches do, as aie-find-flows reads them.  From an input of a *)
(* switch to its outputs, for a packet of identifier id (NoPacket: for the *)
(* data of a circuit).                                                     *)
NoPacket == -1
Outputs(t, mux, port, id) ==
    {c.dst : c \in {connects[k] : k \in {l \in DOMAIN connects :
        connects[l].tile = t /\ connects[l].mux = mux /\ connects[l].src = port}}}
    \cup (IF mux \/ id = NoPacket \/ <<t, port>> \notin RuledPorts THEN {}
          ELSE {p \in DOMAIN masters[t] : \E k \in DOMAIN rules[t][port] :
                   /\ Matches(rules[t][port][k], id)
                   /\ rules[t][port][k].amsel \in masters[t][p]})

(* A place of data: an input port of a switchbox ("sb") or a multiplexer   *)
(* ("mux"), or the "end" of an output port.  What leaves a shim's switchbox*)
(* to the South ends there if the multiplexer does not lead it on.         *)
Place(t, kind, port) == [tile |-> t, kind |-> kind, port |-> port]
Wire(t, mux, out) ==
    CASE mux /\ out[1] = "North" -> Place(t, "sb", <<"South", out[2]>>)
      [] ~ mux /\ IsShim(t) /\ out[1] = "South" ->
            LET in == <<"North", out[2]>> IN
            IF Outputs(t, TRUE, in, NoPacket) = {} THEN Place(t, "end", out)
            ELSE Place(t, "mux", in)
      [] ~ mux /\ out[1] \in {"North", "East", "West", "South"} ->
            LET q == Neighbour(At(t, out)) IN Place(q[1], "sb", PortOf(q))
      [] OTHER -> Place(t, "end", out)
Onward(x, id) ==
    IF x.kind = "end" THEN {}
    ELSE {Wire(x.tile, x.kind = "mux", out) : out \in Outputs(x.tile, x.kind = "mux", x.port, id)}

(* Places that data can come to from x.                                    *)
Places == [tile : Int \X Int, kind : {"sb", "mux", "end"}, port : Bundles \X Nat]
Flood(x, id) ==
    LET flood[seen \in SUBSET Places] ==
            LET new == seen \cup UNION {Onward(y, id) : y \in seen}
            IN  IF new = seen THEN seen ELSE flood[new]
    IN  flood[{x}]

Delivered(src, id) ==
    LET x == Place(src[1], IF IsShim(src[1]) /\ src[2] \in ShimMuxBundles THEN "mux" ELSE "sb",
                   PortOf(src))
    IN  {At(y.tile, y.port) : y \in {z \in Flood(x, id) : z.kind = "end"}}

-----------------------------------------------------------------------------
Written == switchResult = "written"

(* No route goes through a switchbox by an output and on from the input of *)
(* the same name, which is no wire: the graph of the router has one vertex *)
(* for both.                                                               *)
NoTurn == \A s \in DOMAIN solution : \A i, j \in DOMAIN solution[s] :
             solution[s][i][2] = solution[s][j][1] => i = j

CircuitDests(src) == {circuits[k].dst : k \in {l \in DOMAIN circuits : circuits[l].src = src}}

(* The data of every circuit source arrives at the destinations of its     *)
(* flows and nowhere else, through all switches on the way, whatever else  *)
(* has been routed and in whichever iteration the router found the way.    *)
RoutesReach ==
    Written /\ NoTurn =>
        \A k \in DOMAIN circuits :
            Delivered(circuits[k].src, NoPacket) = CircuitDests(circuits[k].src)

(* Rules match the identifiers they were made for only.                    *)
NoFalseMatch ==
    \A t \in declared : \A c \in StreamsAt(t) :
        \A k \in DOMAIN rules[t][SlavePort(t, c.src)] :
            Matches(rules[t][SlavePort(t, c.src)][k], c.id)
                => rules[t][SlavePort(t, c.src)][k].amsel = AmselOf(t, c.src, c.id)
AllDeclared == \A t \in Tiles : streams[t] # <<>> => t \in declared

PacketDests(src, id) ==
    UNION {ToSet(pktFlows[k].dsts) :
              k \in {l \in DOMAIN pktFlows : pktFlows[l].src = src /\ pktFlows[l].id = id}}

(* A packet arrives at the destinations of its flow and nowhere else,      *)
(* although flows share switch ports, arbiters and rules, if no rule takes *)
(* a foreign identifier and the program names the tiles on the way.        *)
PacketsReach ==
    Written /\ NoTurn /\ AllDeclared /\ NoFalseMatch =>
        \A k \in DOMAIN pktFlows :
            Delivered(pktFlows[k].src, pktFlows[k].id)
                = PacketDests(pktFlows[k].src, pktFlows[k].id)
=============================================================================
