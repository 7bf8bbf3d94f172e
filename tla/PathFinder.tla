----------------------------- MODULE PathFinder -----------------------------
(***************************************************************************)
(* The router of aie-create-pathfinder-flows: flows are routed one by one  *)
(* along shortest paths in the graph of all ports, with demands that grow  *)
(* where connections are shared; as long as a connection is used more than *)
(* once everything is ripped up and routed again with the new demands.     *)
(*                                                                         *)
(* Demands are doubles in the code.  Here they are multiples of 1/Unit and *)
(* at most Prohibitive, which stands for the factor of a connection that a *)
(* prioritised flow holds.                                                 *)
(***************************************************************************)
EXTENDS TargetModel, SequencesExt

CONSTANT MaxIterations    \* the code gives up after 1000

ASSUME PathFinderAssumption == MaxIterations \in Nat \ {0}

VARIABLES tileOps,    \* tiles that the program names, in its order
          maxCol,     \* the graph spans the columns 0 .. maxCol
          maxRow,     \* and the rows 0 .. maxRow
          pktFlows,   \* the packet flows: [id, prio, src, dsts]
          circuits,   \* the circuit flows: [src, dst]
          fixed,      \* connections of switchboxes the program has configured
          routes,     \* flows to route: [grp, prio, src, dsts]
          usage,      \* [connection] its counters, where they are not NoUsage
          iteration,  \* iterationCount
          routed,     \* flows routed in this iteration
          solution,   \* [source] connections inside switchboxes, as traced
          routeResult \* "collect", "running", "success", "unroutable", or
                      \* "crash" where an assertion fails

(* The tiles the program names are the switches' to extend, not the        *)
(* router's.                                                               *)
routeVars == <<maxCol, maxRow, pktFlows, circuits, fixed, routes, usage, iteration,
               routed, solution, routeResult>>

declared == ToSet(tileOps)

-----------------------------------------------------------------------------
PathEndPoint == Tiles \X Bundles \X Nat

(* The graph, of all tiles of the device: the code builds the part of it   *)
(* that Spanned names.  An end point stands for the port into the          *)
(* switchbox and for the port out of it with the same name.                *)
Ports(t, Num(_, _)) == UNION {{<<t, b, c>> : c \in 0 .. (Num(t, b) - 1)} : b \in Bundles}

NumIn(t, b) == IF NumSource(t, b) = 0 THEN NumSourceShimMux(t, b) ELSE NumSource(t, b)
NumOut(t, b) == IF NumDest(t, b) = 0 THEN NumDestShimMux(t, b) ELSE NumDest(t, b)

ShimMuxBundles == {"DMA", "NOC", "PLIO"}

Intra == UNION {{e \in Ports(t, NumIn) \X Ports(t, NumOut) :
                    \/ LegalTileConnection(t, e[1][2], e[1][3], e[2][2], e[2][3])
                    \/ IsShim(t) /\ {e[1][2], e[2][2]} \cap ShimMuxBundles # {}} : t \in Tiles}

Neighbour(p) ==
    LET t == p[1] IN
    CASE p[2] = "South" -> <<<<Col(t), Row(t) - 1>>, "North", p[3]>>
      [] p[2] = "West" -> <<<<Col(t) - 1, Row(t)>>, "East", p[3]>>
      [] p[2] = "North" -> <<<<Col(t), Row(t) + 1>>, "South", p[3]>>
      [] p[2] = "East" -> <<<<Col(t) + 1, Row(t)>>, "West", p[3]>>
      [] OTHER -> p

Inter == {<<p, Neighbour(p)>> :
             p \in {q \in UNION {Ports(t, NumOut) : t \in Tiles} :
                       Neighbour(q) # q /\ Neighbour(q)[1] \in Tiles}}

Connections == Intra \cup Inter
EndPoints == UNION {{c[1], c[2]} : c \in Connections}

(* The members of S in the order in which Before puts them.                *)
Sorted(S, Before(_, _)) ==
    [n \in 1 .. Cardinality(S) |->
        CHOOSE x \in S : Cardinality({y \in S : Before(y, x)}) = n - 1]

(* PathEndPoint's operator<: column, row, bundle, channel.                 *)
EndPointLess(p, q) ==
    \/ Col(p[1]) < Col(q[1])
    \/ /\ Col(p[1]) = Col(q[1])
       /\ \/ Row(p[1]) < Row(q[1])
          \/ /\ Row(p[1]) = Row(q[1])
             /\ \/ BundleInt(p[2]) < BundleInt(q[2])
                \/ p[2] = q[2] /\ p[3] < q[3]

(* The end points that a connection leads to from p.                       *)
Channels == [p \in EndPoints |-> Sorted({q \in EndPoints : <<p, q>> \in Connections},
                                       EndPointLess)]

Inside(c) == c[1][1] = c[2][1]

(* The switchboxes of the code's graph: up to the last column and to the   *)
(* last row in which the program names a tile.                             *)
Spanned(t) == Col(t) <= maxCol /\ Row(t) <= maxRow

(* A connection that a route may take.                                     *)
Open(c) == c \notin fixed /\ Spanned(c[1][1]) /\ Spanned(c[2][1])

-----------------------------------------------------------------------------
(* Counters of a connection.                                               *)
Unit == 200
Prohibitive == 100000000
InitDemand(over, used) == (10 + over) * (50 + used) * Unit
NoUsage == [used |-> 0, count |-> 0, grp |-> -1, prio |-> FALSE, over |-> 0,
            demand |-> InitDemand(0, 0)]
MaxPacketStreams == 32

Of(u, c) == IF c \in DOMAIN u THEN u[c] ELSE NoUsage
Bump(r) == [r EXCEPT !.demand =
               IF r.used = 0 THEN @
               ELSE IF r.prio \/ @ + @ \div 10 > Prohibitive THEN Prohibitive
               ELSE @ + @ \div 10]

(* A new iteration: demands from what was used, then nothing is used.      *)
RippedUp(u) == [c \in DOMAIN u |->
                  [u[c] EXCEPT !.demand = InitDemand(u[c].over, u[c].used),
                               !.used = 0, !.count = 0, !.grp = -1]]

(* Slip: what packets share does not count when their group ends.          *)
GroupEndedUncounted(u) == [c \in DOMAIN u |-> Bump([u[c] EXCEPT !.count = 0])]

(* The end of a group of flows: a connection that packets share counts     *)
(* once, and every used connection becomes dearer.                         *)
GroupEnded(u) == [c \in DOMAIN u |->
                    Bump([u[c] EXCEPT !.used = IF u[c].count > 0 THEN @ + 1 ELSE @,
                                      !.count = 0])]

(* Slip: a connection may be used twice.                                   *)
OverusedByTwo(u) == {c \in DOMAIN u : u[c].used > 2}

Overused(u) == {c \in DOMAIN u : u[c].used > 1}

-----------------------------------------------------------------------------
(* addFlow: one route for each source.  Circuits are the group -1.  A      *)
(* packet flow joins the group of the last route that it shares its end    *)
(* with, unless a later one has a larger group: the loop runs on and takes *)
(* the maximum with what it has found.                                     *)
GroupFor(rs, dst) ==
    LET Meets(r) == \E d \in DOMAIN r.dsts : r.dsts[d] = dst
        g == FoldLeft(LAMBDA h, r : IF Meets(r) \/ r.grp > h THEN r.grp ELSE h, -1, rs)
    IN  IF \E k \in DOMAIN rs : Meets(rs[k]) THEN g ELSE g + 1

AddFlow(rs, src, dst, isPkt, prio) ==
    LET same == {k \in DOMAIN rs : rs[k].src = src}
        First(S) == CHOOSE k \in S : \A l \in S : k <= l
        Joined(r) == [r EXCEPT !.prio = prio \/ @,
                               !.dsts = IF prio THEN <<dst>> \o @ ELSE Append(@, dst)]
        grp == IF isPkt THEN GroupFor(rs, dst) ELSE -1
    IN  IF same # {} THEN [rs EXCEPT ![First(same)] = Joined(@)]
        ELSE Append(rs, [grp |-> grp, prio |-> prio, src |-> src, dsts |-> <<dst>>])

AddPacketFlow(rs, f) ==
    FoldLeft(LAMBDA r, d : AddFlow(r, f.src, d, TRUE, f.prio), rs, f.dsts)

(* sortFlows: prioritised flows first, ordered by a number for their       *)
(* source.  Its factors w and h are the last column and the last row, not  *)
(* how many there are: where one is 0, sources have one number.            *)
SourceKey(f, w, h) == LET s == f.src IN
    Col(s[1]) + w * (Row(s[1]) + h * (BundleInt(s[2]) + 10 * s[3]))
Arranged(rs, Before(_, _)) ==
    LET order == Sorted(DOMAIN rs, Before) IN [n \in DOMAIN rs |-> rs[order[n]]]
SortFlows(rs, w, h) ==
    LET Key(k) == SourceKey(rs[k], w, h)
        Precedes(k, l) == Key(k) < Key(l) \/ (Key(k) = Key(l) /\ k < l)
    IN  Arranged(rs, LAMBDA k, l : \/ rs[k].prio /\ ~ rs[l].prio
                                   \/ rs[k].prio /\ rs[l].prio /\ Precedes(k, l)
                                   \/ ~ rs[k].prio /\ ~ rs[l].prio /\ k < l)

(* Routes of one group are routed after each other, groups in the order of *)
(* their first route (a MapVector).                                        *)
Grouped(rs) ==
    LET FirstOf(k) == CHOOSE l \in DOMAIN rs :
            rs[l].grp = rs[k].grp /\ \A m \in 1 .. (l - 1) : rs[m].grp # rs[k].grp
    IN  Arranged(rs, LAMBDA k, l : \/ FirstOf(k) < FirstOf(l)
                                   \/ FirstOf(k) = FirstOf(l) /\ k < l)

CollectFlows ==
    /\ routeResult = "collect"
    /\ maxCol' = Max({c \in 0 .. Columns - 1 : c = 0 \/ \E t \in declared : Col(t) = c})
    /\ maxRow' = Max({r \in 0 .. Rows - 1 : r = 0 \/ \E t \in declared : Row(t) = r})
    /\ LET packets == SortFlows(FoldLeft(AddPacketFlow, <<>>, pktFlows), maxCol', maxRow') IN
       routes' = Grouped(FoldLeft(LAMBDA r, f : AddFlow(r, f.src, f.dst, FALSE, FALSE),
                                  packets, circuits))
    /\ routeResult' = IF \A c \in fixed : c \in Intra /\ Spanned(c[1][1])'
                      THEN "running" ELSE "unroutable"
    /\ UNCHANGED <<pktFlows, circuits, fixed, usage, iteration, routed, solution>>

-----------------------------------------------------------------------------
(* The queue of the search, a heap in which every node has four children   *)
(* (d_ary_heap.h), ordered by the distances of the moment.                 *)
Parent(i) == (i + 2) \div 4
Children(h, i) == (4 * i - 2) .. (IF 4 * i + 1 < Len(h) THEN 4 * i + 1 ELSE Len(h))

(* The end point at place i moves up, or down, and those that it passes    *)
(* take the places it leaves.                                              *)
SiftUp(h, node, i) ==
    LET p == h[i]
        up[k \in DOMAIN h] ==
            IF k > 1 /\ node[p].dist < node[h[Parent(k)]].dist
            THEN [up[Parent(k)] EXCEPT ![k] = h[Parent(k)]]
            ELSE [h EXCEPT ![k] = p]
    IN  up[i]
SiftDown(h, node, i) ==
    LET p == h[i]
        Least(cs) == CHOOSE k \in cs : \A l \in cs :
                        \/ node[h[k]].dist < node[h[l]].dist
                        \/ (node[h[k]].dist = node[h[l]].dist /\ k <= l)
        down[k \in DOMAIN h] ==
            LET cs == Children(h, k) IN
            IF cs # {} /\ node[h[Least(cs)]].dist < node[p].dist
            THEN [down[Least(cs)] EXCEPT ![k] = h[Least(cs)]]
            ELSE [h EXCEPT ![k] = p]
    IN  down[i]

Push(h, node, p) == SiftUp(Append(h, p), node, Len(h) + 1)
Pop(h, node) == IF Len(h) = 1 THEN <<>>
                ELSE SiftDown(SubSeq([h EXCEPT ![1] = Last(h)], 1, Len(h) - 1), node, 1)

-----------------------------------------------------------------------------
Far == 2147483647

(* One neighbour of src.  A white end point is queued; one in the queue    *)
(* that comes nearer stays at its place in the queue.                      *)
Relax(s, src, q) ==
    LET old == s.node[q]
        d == s.node[src].dist + Of(usage, <<src, q>>).demand
        node == IF d < old.dist /\ old.color # "black"
                THEN [s.node EXCEPT ![q] = [dist |-> d, pred |-> src, color |-> "gray"]]
                ELSE s.node
    IN  [heap |-> IF old.color = "white" THEN Push(s.heap, node, q) ELSE s.heap,
         node |-> node]

VisitEndPoint(s) ==
    LET src == s.heap[1]
        popped == [s EXCEPT !.heap = Pop(@, s.node)]
        next == IF src \in EndPoints THEN Channels[src] ELSE <<>>
    IN  [FoldLeft(LAMBDA t, q : IF Open(<<src, q>>) THEN Relax(t, src, q) ELSE t,
                  popped, next)
            EXCEPT !.node[src].color = "black"]

(* dijkstraShortestPaths: end points leave the queue until it is empty, and*)
(* none is queued twice.  after[n][s] is the search s when n more have     *)
(* left.                                                                   *)
Nodes(points) == [points -> [dist : Nat, pred : points, color : {"white", "gray", "black"}]]
Searches(points) == [heap : Seq(points), node : Nodes(points)]

Started(src) ==
    [heap |-> <<src>>,
     node |-> [p \in EndPoints \cup {src} |->
                 [dist |-> IF p = src THEN 0 ELSE Far, pred |-> p, color |-> "white"]]]

ShortestPaths(src) ==
    LET after[n \in 1 .. Cardinality(EndPoints) + 1] ==
            [s \in Searches(EndPoints \cup {src}) |->
                IF s.heap = <<>> THEN s
                ELSE IF n = 1 THEN VisitEndPoint(s)
                ELSE after[n - n \div 2][after[n \div 2][s]]]
    IN  after[Cardinality(EndPoints) + 1][Started(src)].node

(* The connections of a switchbox that have an end in common with c.       *)
Beside(c) == {c} \cup
    (IF Inside(c) THEN ({c[1]} \X Ports(c[1][1], NumOut) \cup
                        Ports(c[1][1], NumIn) \X {c[2]}) \cap Intra ELSE {})

(* A route takes connection c.  Packets of one group share it, and keep    *)
(* other groups from sharing what has an end in common with it.            *)
Use(u, c, r) ==
    LET old == [Of(u, c) EXCEPT !.prio = r.prio]
        shares == r.grp >= 0 /\ old.grp \in {-1, r.grp}
        full == old.count + 1 >= MaxPacketStreams
        new == IF ~ shares THEN [old EXCEPT !.used = @ + 1]
               ELSE [old EXCEPT !.count = IF full THEN 0 ELSE @ + 1,
                                !.used = IF full THEN @ + 1 ELSE @,
                                !.grp = r.grp]
        marked == IF shares THEN Beside(c) ELSE {}
    IN  [e \in DOMAIN u \cup marked \cup {c} |->
            IF e = c THEN Bump(new)
            ELSE IF e \in marked THEN [Of(u, e) EXCEPT !.grp = r.grp]
            ELSE u[e]]

(* From a destination back to what the route has reached already.          *)
TraceBack(s, node, q, r) ==
    LET steps == Cardinality(EndPoints)
        back[n \in 0 .. steps] ==
            [p \in EndPoints \cup {q, r.src} |->
                IF n = 0 \/ p \in s.reached \/ p \notin EndPoints \/ node[p].pred = p THEN <<p>>
                ELSE <<p>> \o back[n - 1][node[p].pred]]
        way == back[steps][q]
        Step(t, k) ==
            LET c == <<way[k + 1], way[k]>> IN
            [t EXCEPT !.usage = Use(@, c, r),
                      !.trace = IF Inside(c) THEN Append(@, c) ELSE @,
                      !.reached = @ \cup {way[k]}]
    IN  [FoldLeft(Step, s, [k \in 1 .. Len(way) - 1 |-> k])
            EXCEPT !.lost = @ \/ Last(way) \notin s.reached]

TraceDest(s, node, q, r) ==
    TraceBack(IF q = r.src THEN [s EXCEPT !.trace = Append(@, <<q, q>>)] ELSE s, node, q, r)

(* A destination that the search has not reached, or an end that is no     *)
(* port of the device, fails an assertion.                                 *)
RouteFlow ==
    /\ routeResult = "running" /\ routed < Len(routes)
    /\ LET r == routes[routed + 1]
           node == ShortestPaths(r.src)
           s == FoldLeft(LAMBDA t, q : TraceDest(t, node, q, r),
                         [usage |-> usage, trace |-> <<>>, reached |-> {r.src},
                          lost |-> FALSE], r.dsts)
           lastOfGroup == routed + 1 = Len(routes) \/ routes[routed + 2].grp # r.grp
       IN  /\ usage' = IF lastOfGroup THEN GroupEnded(s.usage) ELSE s.usage
           /\ solution' = [q \in DOMAIN solution \cup {r.src} |->
                             IF q = r.src THEN s.trace ELSE solution[q]]
           /\ routeResult' = IF s.lost THEN "crash" ELSE routeResult
    /\ routed' = routed + 1
    /\ UNCHANGED <<maxCol, maxRow, pktFlows, circuits, fixed, routes, iteration>>

EndIteration ==
    /\ routeResult = "running" /\ routed = Len(routes)
    /\ LET over == Overused(usage) IN
       IF over = {}
       THEN routeResult' = "success" /\ UNCHANGED <<usage, iteration, routed, solution>>
       ELSE /\ iteration' = iteration + 1
            /\ routeResult' = IF iteration + 1 = MaxIterations THEN "unroutable" ELSE routeResult
            /\ usage' = RippedUp([c \in DOMAIN usage |->
                            [usage[c] EXCEPT !.over = IF c \in over THEN @ + 1 ELSE @]])
            /\ routed' = 0 /\ solution' = <<>>
    /\ UNCHANGED <<maxCol, maxRow, pktFlows, circuits, fixed, routes>>

RouteInit == /\ maxCol = 0 /\ maxRow = 0
             /\ pktFlows \in Seq([id : Nat, prio : BOOLEAN, src : PathEndPoint,
                                 dsts : Seq(PathEndPoint)])
             /\ circuits \in Seq([src : PathEndPoint, dst : PathEndPoint])
             /\ usage = <<>> /\ iteration = 0 /\ routed = 0 /\ routes = <<>>
             /\ solution = <<>> /\ routeResult = "collect"

RouteNext == CollectFlows \/ RouteFlow \/ EndIteration

RouteSpec == RouteInit /\ [][RouteNext]_routeVars

-----------------------------------------------------------------------------
(* Once the router reports success, two routes have a connection of a      *)
(* switchbox in common only if packets of one group share it, in whichever *)
(* iteration they were found and whatever the counters have gone through.  *)
RoutesApart ==
    routeResult = "success" =>
        \A i, j \in DOMAIN routes :
            i # j /\ ~ (routes[i].grp = routes[j].grp /\ routes[i].grp >= 0) =>
                \A c \in ToSet(solution[routes[i].src]) \cap ToSet(solution[routes[j].src]) :
                    c[1] = c[2]

(* A route consists of connections that the switchboxes can make, in the   *)
(* columns and rows the program uses, and that the program has not made    *)
(* itself; only a flow that ends where it starts is written as a connection*)
(* of a port with itself.                                                  *)
RoutesLegal ==
    \A q \in DOMAIN solution : \A c \in ToSet(solution[q]) :
        (c \in Intra /\ Open(c)) \/ c = <<q, q>>
=============================================================================
