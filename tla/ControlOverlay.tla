--------------------------- MODULE ControlOverlay ---------------------------
(***************************************************************************)
(* The passes that write flows before the router runs: broadcasts become   *)
(* packet flows (aie-lower-broadcast-packet), multicasts become circuits   *)
(* (aie-lower-multicast), and every tile gets a controller identifier and  *)
(* control packet flows between it and the shim tile of its column         *)
(* (aie-assign-tile-controller-ids, aie-generate-column-control-overlay).  *)
(***************************************************************************)
EXTENDS StreamSwitches

VARIABLES broadcasts,    \* [src, bpids]; bpids: [id, dsts]
          multicasts,    \* [src, dsts]
          controllerID,  \* [tile] identifier, given by the program at first
          columnWise,    \* option column-wise-unique-ids
          tctRouting,    \* option route-shim-to-tct
          shimToCtrl,    \* option route-shim-to-tile-ctrl
          columnsLeft,   \* occupied columns without an overlay yet
          overlayStage   \* "broadcast", "multicast", "ids", "overlay", "done", or
                         \* "crash" where the device has no identifiers

overlayVars == <<broadcasts, multicasts, controllerID, columnWise, tctRouting,
                 shimToCtrl, columnsLeft, overlayStage>>

OverlayInit == /\ overlayStage = "broadcast" /\ columnsLeft = {}
               /\ columnWise \in BOOLEAN /\ shimToCtrl \in BOOLEAN
               /\ tctRouting \in {"shim-only", "all-tiles", "disable"}
               /\ broadcasts \in Seq([src : PathEndPoint,
                                      bpids : Seq([id : Nat, dsts : Seq(PathEndPoint)])])
               /\ multicasts \in Seq([src : PathEndPoint, dsts : Seq(PathEndPoint)])

-----------------------------------------------------------------------------
PacketFlow(id, prio, src, dsts) == [id |-> id, prio |-> prio, src |-> src, dsts |-> dsts]

(* Each flow is put right behind its broadcast, before the ones put there  *)
(* earlier; broadcasts are written behind the packet flows.                *)
LowerBroadcastPacket ==
    /\ overlayStage = "broadcast"
    /\ LET Flows(b) == Reverse([k \in DOMAIN b.bpids |->
                          PacketFlow(b.bpids[k].id, FALSE, b.src, b.bpids[k].dsts)])
       IN  pktFlows' = pktFlows \o FlattenSeq([n \in DOMAIN broadcasts |-> Flows(broadcasts[n])])
    /\ broadcasts' = <<>>
    /\ overlayStage' = "multicast"
    /\ UNCHANGED <<circuits, tileOps, multicasts, controllerID, columnWise,
                   tctRouting, shimToCtrl, columnsLeft>>

FlowsOf(m) == [k \in DOMAIN m.dsts |-> [src |-> m.src, dst |-> m.dsts[k]]]

LowerMulticast ==
    /\ overlayStage = "multicast"
    /\ circuits' = circuits \o FlattenSeq([n \in DOMAIN multicasts |-> FlowsOf(multicasts[n])])
    /\ multicasts' = <<>>
    /\ overlayStage' = "ids"
    /\ UNCHANGED <<pktFlows, tileOps, broadcasts, controllerID, columnWise,
                   tctRouting, shimToCtrl, columnsLeft>>

-----------------------------------------------------------------------------
(* The identifiers are chosen so that packet rules can tell the tiles of a *)
(* column apart.  Devices of more than six rows number the tiles of every  *)
(* column.                                                                 *)
ValidTileIds == <<<<15, 26, 27, 29, 30, 31>>, <<14, 21, 22, 23, 24, 25>>,
                  <<13, 11, 17, 18, 19, 20>>, <<12, 28, 7, 8, 9, 10>>>>


TileToControllerId(t, byColumn) ==
    IF Rows > 6 THEN Row(t)
    ELSE ValidTileIds[IF byColumn THEN 1 ELSE Col(t) + 1][Row(t) + 1]

(* Without identifiers for each column there must be some for every tile:  *)
(* an assertion fails on a device of more rows, and on one of more columns *)
(* the code reads beyond the table.                                        *)
TooFewIds == ~ columnWise /\ (Rows > 6 \/ Columns > Len(ValidTileIds))

(* Tiles that have an identifier keep it.                                  *)
AssignControllerIds ==
    /\ overlayStage = "ids"
    /\ IF TooFewIds
       THEN overlayStage' = "crash" /\ UNCHANGED <<controllerID, columnsLeft>>
       ELSE /\ controllerID' = controllerID
                                 @@ [t \in declared |-> TileToControllerId(t, columnWise)]
            /\ columnsLeft' = {Col(t) : t \in declared}
            /\ overlayStage' = "overlay"
    /\ UNCHANGED <<pktFlows, circuits, tileOps, broadcasts, multicasts, columnWise,
                   tctRouting, shimToCtrl>>

(* The MM2S channel of the shim tile that serves a row: the rows are shared*)
(* out between the channels.                                               *)
NumShimChans == 2
RowToShimChan(row) == row \div (Rows \div NumShimChans)

IdOf(t) == IF t \in DOMAIN controllerID THEN controllerID[t]
           ELSE TileToControllerId(t, TRUE)
CtrlPort(t) == <<t, "Ctrl", 0>>
TokenFlow(t) == PacketFlow(IdOf(t), TRUE, CtrlPort(t), <<<<<<Col(t), 0>>, "South", 0>>>>)
ControlFlow(t) == PacketFlow(IdOf(t), TRUE,
                    <<<<Col(t), 0>>, "DMA", RowToShimChan(Row(t))>>, <<CtrlPort(t)>>)

(* Tiles of a column that are named so far, in the order of the program.   *)
TilesOn(col, rows) ==
    LET at == Sorted({k \in DOMAIN tileOps : Col(tileOps[k]) = col /\ Row(tileOps[k]) \in rows},
                     LAMBDA k, l : k < l)
    IN  [n \in DOMAIN at |-> tileOps[at[n]]]

(* The overlay of one column.  A shim tile that the program does not name  *)
(* is created, but gets no control flows itself.  A shim channel that is   *)
(* reserved for a circuit is reported, and used all the same.              *)
GenerateOverlay(col) ==
    /\ overlayStage = "overlay" /\ col \in columnsLeft
    /\ \A c \in columnsLeft : col <= c
    /\ LET tct == CASE tctRouting = "all-tiles" -> TilesOn(col, 0 .. Rows - 1)
                    [] tctRouting = "shim-only" -> TilesOn(col, {0})
                    [] OTHER -> <<>>
           ctrl == IF shimToCtrl THEN TilesOn(col, 0 .. Rows - 1) ELSE <<>>
       IN  pktFlows' = pktFlows \o [k \in DOMAIN tct |-> TokenFlow(tct[k])]
                                \o [k \in DOMAIN ctrl |-> ControlFlow(ctrl[k])]
    /\ tileOps' = IF <<col, 0>> \in declared THEN tileOps ELSE <<<<col, 0>>>> \o tileOps
    /\ columnsLeft' = columnsLeft \ {col}
    /\ overlayStage' = IF columnsLeft = {col} THEN "done" ELSE overlayStage
    /\ UNCHANGED <<circuits, broadcasts, multicasts, controllerID, columnWise,
                   tctRouting, shimToCtrl>>

OverlayNext == LowerBroadcastPacket \/ LowerMulticast \/ AssignControllerIds
               \/ \E col \in columnsLeft : GenerateOverlay(col)

(* What of the other modules' state the passes leave alone.                *)
unrouted == <<maxCol, maxRow, fixed, routes, usage, iteration, routed, solution,
              routeResult, connects, rewritten, processed, streams, ctrlPktFlows, amsels,
              slaveAmsel, masters, rules, switchResult>>

-----------------------------------------------------------------------------
=============================================================================
