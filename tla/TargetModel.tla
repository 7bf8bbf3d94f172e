---------------------------- MODULE TargetModel ----------------------------
(***************************************************************************)
(* The device that the passes compile for: an AIE2 array as AIETargetModel *)
(* describes it.  Row 0 holds shim tiles, row 1 memtiles, the rows above   *)
(* core tiles.  Locks, descriptors and memory of a tile are parameters, so *)
(* that a small instance runs out of them; the stream switches are those   *)
(* of the device, with at most MaxChannels channels in a bundle.           *)
(***************************************************************************)
EXTENDS Integers, Sequences, FiniteSets

CONSTANTS Columns, Rows,        \* size of the array
          CoreLocks, MemLocks,  \* locks of a core or shim tile, of a memtile
          CoreBDs, MemBDs,      \* buffer descriptors, likewise
          MaxChannels           \* bound on the channels of a bundle

ASSUME TargetAssumption ==
    /\ Columns \in Nat \ {0} /\ Rows \in Nat
    /\ Rows > 2
    /\ CoreLocks \in Nat /\ MemLocks \in Nat
    /\ CoreBDs \in Nat /\ MemBDs \in Nat
    /\ MaxChannels \in Nat

Tiles == (0 .. Columns - 1) \X (0 .. Rows - 1)
Col(t) == t[1]
Row(t) == t[2]

IsShim(t) == Row(t) = 0
IsMemTile(t) == Row(t) = 1
IsCore(t) == Row(t) > 1

NumLocks(t) == IF IsMemTile(t) THEN MemLocks ELSE CoreLocks
NumBDs(t) == IF IsMemTile(t) THEN MemBDs ELSE CoreBDs

(* Channels of even number reach the lower half of a memtile's descriptors,*)
(* those of odd number the upper half.                                     *)
BdAccessible(t, id, channel) ==
    IsMemTile(t) => (channel % 2 = 0) = (id < MemBDs \div 2)

-----------------------------------------------------------------------------
(* Tiles whose memory and locks a core at t can use.                       *)
Side(t, m) ==
    CASE m = <<Col(t), Row(t) - 1>> -> "South"
      [] m = <<Col(t) - 1, Row(t)>> -> "West"
      [] m = <<Col(t), Row(t) + 1>> -> "North"
      [] m = t -> "East"
      [] OTHER -> "None"

LegalMemAffinity(t, m) ==
    IF IsMemTile(t) THEN Row(m) = Row(t) /\ Col(m) \in Col(t) - 1 .. Col(t) + 1
    ELSE Side(t, m) # "None" /\ (Side(t, m) = "South" => ~ IsMemTile(m))

-----------------------------------------------------------------------------
(* Stream switches.  A port is <<bundle, channel>>, an end point            *)
(* <<tile, bundle, channel>>.  The bundles in the order of WireBundle.      *)
BundleOrder == <<"Core", "DMA", "FIFO", "South", "West", "North", "East",
                 "PLIO", "NOC", "Trace", "Ctrl">>
Bundles == {BundleOrder[k] : k \in DOMAIN BundleOrder}
BundleInt(b) == (CHOOSE k \in DOMAIN BundleOrder : BundleOrder[k] = b) - 1

AtMost(n) == IF n < MaxChannels THEN n ELSE MaxChannels
AtBorder(t, b) == CASE b = "North" -> Row(t) = Rows - 1
                    [] b = "West" -> Col(t) = 0
                    [] b = "East" -> Col(t) = Columns - 1
                    [] OTHER -> FALSE

MemTileWidth == [b \in Bundles |->
    CASE b = "DMA" -> 6 [] b = "Ctrl" -> 1 [] OTHER -> 0]
ShimWidth == [b \in Bundles |->
    CASE b \in {"West", "East"} -> 4 [] b \in {"FIFO", "Ctrl"} -> 1 [] OTHER -> 0]
CoreWidth == [b \in Bundles |->
    CASE b = "DMA" -> 2 [] b \in {"Core", "FIFO", "Ctrl"} -> 1
      [] b \in {"West", "East"} -> 4 [] OTHER -> 0]

(* getNumDestSwitchboxConnections: ports out of the switchbox.             *)
NumDest(t, b) ==
    AtMost(IF AtBorder(t, b) THEN 0
           ELSE CASE b = "North" -> 6
                  [] b = "South" -> IF IsShim(t) THEN 6 ELSE 4
                  [] OTHER -> IF IsMemTile(t) THEN MemTileWidth[b]
                              ELSE IF IsShim(t) THEN ShimWidth[b] ELSE CoreWidth[b])

(* getNumSourceSwitchboxConnections: ports into the switchbox.             *)
NumSource(t, b) ==
    AtMost(IF AtBorder(t, b) THEN 0
           ELSE CASE b = "North" -> 4
                  [] b = "South" -> IF IsShim(t) THEN 8 ELSE 6
                  [] b = "Trace" -> IF IsCore(t) THEN 2 ELSE 1
                  [] OTHER -> IF IsMemTile(t) THEN MemTileWidth[b]
                              ELSE IF IsShim(t) THEN ShimWidth[b] ELSE CoreWidth[b])

(* Connections of the multiplexer below a shim tile's switchbox.           *)
NumDestShimMux(t, b) ==
    IF ~ IsShim(t) THEN 0
    ELSE AtMost(CASE b = "DMA" -> 2 [] b = "NOC" -> 4 [] b = "PLIO" -> 6
                  [] b = "South" -> 8 [] OTHER -> 0)
NumSourceShimMux(t, b) ==
    IF ~ IsShim(t) THEN 0
    ELSE AtMost(CASE b = "DMA" -> 2 [] b = "NOC" -> 4 [] b = "PLIO" -> 8
                  [] b = "South" -> 6 [] OTHER -> 0)

LegalMemTile(sb, sc, db, dc) ==
    CASE sb = "DMA" -> db \in {"Ctrl", "South", "North"} \/ (db = "DMA" /\ sc = dc)
      [] sb = "Ctrl" -> db \in {"South", "North"} \/ (db = "DMA" /\ dc = 5)
      [] sb \in {"South", "North"} ->
           db \in {"DMA", "Ctrl"} \/ (db \in {"South", "North"} /\ sc = dc)
      [] sb = "Trace" -> db = "South" \/ (db = "DMA" /\ dc = 5)
      [] OTHER -> FALSE

LegalShim(sb, sc, db, dc) ==
    LET Out == {"Ctrl", "FIFO", "South", "West", "North", "East"} IN
    CASE sb = "Ctrl" -> db # "Ctrl"
      [] sb \in {"FIFO", "South"} -> db \in Out
      [] sb \in {"West", "North", "East"} -> IF sb = db THEN sc = dc ELSE db \in Out
      [] sb = "Trace" -> db \in {"FIFO", "South"} \/ (db \in {"West", "East"} /\ dc = 0)
      [] OTHER -> FALSE

LegalCore(sb, sc, db, dc) ==
    CASE sb \in {"DMA", "FIFO", "South", "West", "North", "East"} ->
           db \notin {"Trace", "PLIO", "NOC"} /\ (sb = db => sc = dc)
      [] sb = "Core" -> db # "Core"
      [] sb = "Ctrl" -> db \notin {"Ctrl", "DMA"}
      [] sb = "Trace" -> db \in {"FIFO", "South"} \/ (db = "DMA" /\ dc = 0)
      [] OTHER -> FALSE

LegalTileConnection(t, sb, sc, db, dc) ==
    /\ sc < NumSource(t, sb) /\ dc < NumDest(t, db)
    /\ IF IsMemTile(t) THEN LegalMemTile(sb, sc, db, dc)
       ELSE IF IsShim(t) THEN LegalShim(sb, sc, db, dc)
       ELSE LegalCore(sb, sc, db, dc)
=============================================================================
