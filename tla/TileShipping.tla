------------------------------ MODULE TileShipping ------------------------------
(***************************************************************************)
(* tessera/tile_shipper.go: which tlog-tiles objects the object store      *)
(* needs so that a reader with nothing else can serve proofs at a size.    *)
(***************************************************************************)
EXTENDS Integers

CONSTANT TileHeight      \* layout.TileHeight (8 in the code)

ASSUME TileHeightAssumption == TileHeight \in Nat \ {0}

TileWidth == 2 ^ TileHeight

(* The levels at which a tree of size n has nodes.                         *)
Levels(n) == {l \in 0..n : n \div TileWidth ^ l > 0}

AtLevel(l, n) == n \div TileWidth ^ l

(* layout.PartialTileSize: 0 stands for a full tile.                       *)
PartialTileSize(l, i, n) ==
    IF AtLevel(l, n) \div TileWidth > i THEN 0 ELSE AtLevel(l, n) % TileWidth

TileRef(l, i, n) ==
    [entry |-> FALSE, level |-> l, index |-> i, width |-> PartialTileSize(l, i, n)]

BundleRef(i, n) ==
    [entry |-> TRUE, level |-> 0, index |-> i, width |-> PartialTileSize(0, i, n)]

(* What a reader asks for at size n: on every level, and in the entry      *)
(* bundles, every tile with content, at the width it has at that size.     *)
Required(n) ==
    UNION {{TileRef(l, i, n) : i \in 0..(AtLevel(l, n) - 1) \div TileWidth} :
           l \in Levels(n)}
    \union IF n = 0 THEN {}
           ELSE {BundleRef(i, n) : i \in 0..(n - 1) \div TileWidth}

(* Mutant: starts after the frontier tile that was partial at last.        *)
TilesToShipSkipsPartial(last, n) ==
    {r \in Required(n) : r.index * TileWidth >= AtLevel(r.level, last)}

(* The delta from last to n: on every level up to the first unchanged one, *)
(* the tile that was partial at last and every later one.                  *)
TilesToShip(last, n) ==
    LET changed == {l \in Levels(n) : \A m \in 0..l : AtLevel(m, n) # AtLevel(m, last)}
        from(l) == AtLevel(l, last) \div TileWidth
    IN IF n <= last THEN {}
       ELSE UNION {{TileRef(l, i, n) : i \in from(l)..(AtLevel(l, n) - 1) \div TileWidth} :
                   l \in changed}
            \union {BundleRef(i, n) : i \in from(0)..(n - 1) \div TileWidth}
================================================================================
