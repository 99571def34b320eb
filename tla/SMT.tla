----------------------------------- MODULE SMT -----------------------------------
(***************************************************************************)
(* The sparse Merkle tree as the builder and the checkpoint loop use it.   *)
(* A node is named by its content (the code: its hash), so a node is the   *)
(* part of the leaf map below it: the root holds every key, a leaf node    *)
(* one.  A leaf's value is the seq of the last entry that wrote it         *)
(* (OriginTip), NoTip when the leaf does not exist.  The depth of the real *)
(* tree, the interior nodes between root and leaf and their grouping into  *)
(* tiles belong to the SDK; here a tile holds one node.                    *)
(***************************************************************************)
EXTENDS Integers

CONSTANT Key          \* SMT leaf keys

NoTip == -1

Tree == [Key -> Nat \union {NoTip}]

(* smt.EmptyHash *)
EmptyRoot == [k \in Key |-> NoTip]

LeafNode(t, k) == [j \in {k} |-> t[j]]

IsEmptyNode(n) == \A k \in DOMAIN n : n[k] = NoTip

(* The nodes a walk from root t to the leaf of key k reads.                *)
Path(t, k) == {n \in {t, LeafNode(t, k)} : ~IsEmptyNode(n)}

(* The nodes reachable from root t.                                        *)
Nodes(t) == UNION {Path(t, k) : k \in Key}
================================================================================
