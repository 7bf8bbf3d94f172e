-------------------------- MODULE BufferAddresses --------------------------
(***************************************************************************)
(* The pass aie-assign-buffer-addresses places the buffers of every tile   *)
(* in its memory: behind each other (basic), or spread over the banks of   *)
(* the memory, keeping what the program fixes where that is possible.      *)
(***************************************************************************)
EXTENDS TargetModel

CONSTANTS CoreMemory, MemTileMemory,   \* bytes of a tile's memory
          NoAddress, NoBank            \* not given

ASSUME BufferAssumption ==
    /\ CoreMemory \in Nat /\ CoreMemory % 4 = 0
    /\ MemTileMemory \in Nat
    /\ NoAddress \notin Nat /\ NoBank \notin Nat

VARIABLES bufs,       \* the buffers in program order: [tile, size, addr, bank]
          stack,      \* [tile] stack of its core, 0 without a core
          basic,      \* the option basic_alloc
          tilesLeft,  \* tiles still to be served, in program order
          inTile,     \* the first of them is being served
          nextAddr,   \* [bank] next free address in that tile
          unchecked,  \* buffers of the tile whose wishes are to be checked
          waiting,    \* buffers of the tile that wait for a place
          bankIndex,  \* bank that the next search begins at
          bufResult   \* "running", "success" or "overflow"

bufVars == <<bufs, stack, basic, tilesLeft, inTile, nextAddr, unchecked,
             waiting, bankIndex, bufResult>>

MemorySize(t) == IF IsMemTile(t) THEN MemTileMemory ELSE CoreMemory
NumBanks(t) == IF IsMemTile(t) THEN 1 ELSE 4
Banks(t) == 0 .. (NumBanks(t) - 1)
BankSize(t) == MemorySize(t) \div NumBanks(t)
BankStart(t, b) == BankSize(t) * b
BankEnd(t, b) == BankSize(t) * (b + 1)

Tile == Head(tilesLeft)
BufsOf(t) == {i \in DOMAIN bufs : bufs[i].tile = t}

(* An address that the program fixes lies in the tile's memory and a bank  *)
(* is one of the tile's; neither the verifier nor the pass checks it.      *)
Buf == {b \in [tile : Tiles, size : Nat \ {0},
               addr : Nat \cup {NoAddress}, bank : Nat \cup {NoBank}] :
           /\ b.addr = NoAddress \/ b.addr < MemorySize(b.tile)
           /\ b.bank = NoBank \/ b.bank \in Banks(b.tile)}

BufInit == /\ bufs \in Seq(Buf)
           /\ stack \in [Tiles -> Nat]
           /\ basic \in BOOLEAN
           /\ tilesLeft \in Seq(Tiles) \ {<<>>}
           /\ {bufs[i].tile : i \in DOMAIN bufs} \subseteq {tilesLeft[k] : k \in DOMAIN tilesLeft}
           /\ \A k, l \in DOMAIN tilesLeft : tilesLeft[k] = tilesLeft[l] => k = l
           /\ inTile = FALSE /\ nextAddr = <<>> /\ unchecked = {} /\ waiting = {}
           /\ bankIndex = 0 /\ bufResult = "running"

BufTypeOK == /\ bufs \in Seq([tile : Tiles, size : Nat \ {0},
                               addr : Nat \cup {NoAddress}, bank : Nat \cup {NoBank}])
             /\ tilesLeft \in Seq(Tiles) /\ inTile \in BOOLEAN
             /\ inTile => tilesLeft # <<>> /\ nextAddr \in [Banks(Tile) -> Nat]
             /\ unchecked \cup waiting \subseteq DOMAIN bufs
             /\ bankIndex \in 0 .. 3
             /\ bufResult \in {"running", "success", "overflow"}

-----------------------------------------------------------------------------
BeginTile ==
    /\ bufResult = "running" /\ ~ inTile /\ tilesLeft # <<>>
    /\ inTile' = TRUE
    /\ nextAddr' = [b \in Banks(Tile) |->
                       BankStart(Tile, b) + IF b = 0 THEN stack[Tile] ELSE 0]
    /\ unchecked' = IF basic THEN {} ELSE BufsOf(Tile)
    /\ waiting' = IF basic THEN BufsOf(Tile) ELSE {}
    /\ bankIndex' = 0
    /\ UNCHANGED <<bufs, stack, basic, tilesLeft, bufResult>>

(* checkAndAddBufferWithAddress: the bank of the fixed address, if the     *)
(* address is still free.                                                  *)
BankOf(t, addr) == {b \in Banks(t) : BankStart(t, b) <= addr /\ addr < BankEnd(t, b)}

(* Slip: what lies below the fixed address is not looked at.               *)
KeepsAnyAddress(i) == bufs[i].addr # NoAddress

KeepsAddress(i) ==
    /\ bufs[i].addr # NoAddress
    /\ \A b \in BankOf(Tile, bufs[i].addr) : bufs[i].addr >= nextAddr[b]

(* The first check sets the bank of a buffer that keeps its address.  The  *)
(* second check is made for every buffer with a bank, then: it moves the   *)
(* buffer behind itself if there is room for it once more.                 *)
CheckBuffer(i) ==
    LET hasAddr == KeepsAddress(i)
        size == bufs[i].size
        kept == IF hasAddr THEN BankOf(Tile, bufs[i].addr) ELSE {}
        next == [b \in Banks(Tile) |->
                    IF b \in kept THEN bufs[i].addr + size ELSE nextAddr[b]]
        bank == IF kept = {} THEN bufs[i].bank ELSE CHOOSE b \in kept : TRUE
        hasBank == bank # NoBank /\ next[bank] + size <= BankEnd(Tile, bank)
        checked == [bufs[i] EXCEPT !.bank = bank, !.addr = IF hasBank THEN next[bank] ELSE @]
    IN  /\ inTile /\ i \in unchecked /\ \A j \in unchecked : i <= j
        /\ bufs' = [bufs EXCEPT ![i] = checked]
        /\ nextAddr' = IF hasBank THEN [next EXCEPT ![bank] = @ + size] ELSE next
        /\ unchecked' = unchecked \ {i}
        /\ waiting' = IF hasAddr \/ hasBank THEN waiting ELSE waiting \cup {i}
        /\ UNCHANGED <<stack, basic, tilesLeft, inTile, bankIndex, bufResult>>

(* The buffers are sorted by size; those of one size come in any order.    *)
Largest(i) == i \in waiting /\ \A j \in waiting : bufs[j].size <= bufs[i].size

(* setBufferAddress: the first bank with room, from bankIndex around; the  *)
(* last one is taken in any case.                                          *)
Turn(k) == (bankIndex + k) % NumBanks(Tile)
HasRoom(b, size) == nextAddr[b] + size <= BankEnd(Tile, b)
SearchedBank(size) ==
    LET n == NumBanks(Tile)
    IN  Turn(CHOOSE k \in 0 .. (n - 1) :
                 /\ k = n - 1 \/ HasRoom(Turn(k), size)
                 /\ \A l \in 0 .. (k - 1) : ~ HasRoom(Turn(l), size))

PlaceBuffer(i) ==
    /\ inTile /\ ~ basic /\ unchecked = {} /\ Largest(i)
    /\ LET b == SearchedBank(bufs[i].size) IN
       /\ bufs' = [bufs EXCEPT ![i] = [@ EXCEPT !.bank = b, !.addr = nextAddr[b]]]
       /\ nextAddr' = [nextAddr EXCEPT ![b] = @ + bufs[i].size]
       /\ bankIndex' = (b + 1) % NumBanks(Tile)
    /\ waiting' = waiting \ {i}
    /\ UNCHANGED <<stack, basic, tilesLeft, inTile, unchecked, bufResult>>

(* basicAllocation: behind each other, whatever the program fixes.         *)
PlaceBasic(i) ==
    /\ inTile /\ basic /\ Largest(i)
    /\ bufs' = [bufs EXCEPT ![i].addr = nextAddr[0]]
    /\ nextAddr' = [nextAddr EXCEPT ![0] = @ + bufs[i].size]
    /\ waiting' = waiting \ {i}
    /\ UNCHANGED <<stack, basic, tilesLeft, inTile, unchecked, bankIndex, bufResult>>

(* Slip: the check lets a bank run over by one.                            *)
OverflowsByMoreThanOne ==
    IF basic THEN nextAddr[0] > MemorySize(Tile) + 1
    ELSE \E b \in Banks(Tile) : nextAddr[b] > BankEnd(Tile, b) + 1

(* checkAndPrintOverflow of either scheme.                                 *)
Overflows == IF basic THEN nextAddr[0] > MemorySize(Tile)
             ELSE \E b \in Banks(Tile) : nextAddr[b] > BankEnd(Tile, b)

EndTile ==
    /\ inTile /\ unchecked = {} /\ waiting = {} /\ bufResult = "running"
    /\ IF Overflows
       THEN bufResult' = "overflow" /\ UNCHANGED <<tilesLeft, inTile>>
       ELSE /\ tilesLeft' = Tail(tilesLeft)
            /\ inTile' = FALSE
            /\ bufResult' = IF Tail(tilesLeft) = <<>> THEN "success" ELSE bufResult
    /\ UNCHANGED <<bufs, stack, basic, nextAddr, unchecked, waiting, bankIndex>>

BufNext == \/ BeginTile \/ EndTile
           \/ \E i \in DOMAIN bufs : CheckBuffer(i) \/ PlaceBuffer(i) \/ PlaceBasic(i)

BufSpec == BufInit /\ [][BufNext]_bufVars

-----------------------------------------------------------------------------

(* When the pass succeeds no two buffers of a tile share a byte, none lies *)
(* in the stack of the tile's core, and all lie in the tile's memory.      *)
BuffersDisjoint ==
    bufResult = "success" =>
        /\ \A i \in DOMAIN bufs :
              /\ bufs[i].addr \in stack[bufs[i].tile] .. MemorySize(bufs[i].tile)
              /\ bufs[i].addr + bufs[i].size <= MemorySize(bufs[i].tile)
        /\ \A i, j \in DOMAIN bufs :
              i # j /\ bufs[i].tile = bufs[j].tile =>
                  \/ bufs[i].addr + bufs[i].size <= bufs[j].addr
                  \/ bufs[j].addr + bufs[j].size <= bufs[i].addr

(* A buffer that the bank-aware scheme has placed lies in its bank and in  *)
(* no other.                                                               *)
BanksMatchAddresses ==
    bufResult = "success" /\ ~ basic =>
        \A i \in DOMAIN bufs :
            LET t == bufs[i].tile IN
            /\ bufs[i].bank \in Banks(t)
            /\ BankStart(t, bufs[i].bank) <= bufs[i].addr
            /\ bufs[i].addr + bufs[i].size <= BankEnd(t, bufs[i].bank)
=============================================================================
