---------------------------- MODULE BlockGraph ----------------------------
(***************************************************************************)
(* The header graph every chain component refers to: block identities, the *)
(* parent each header commits to, and heights.  A block hash commits to    *)
(* its header and through prev_hash to all its ancestors, so an identity   *)
(* stands for the whole chain below it (chain/src/tree.rs, node.rs).       *)
(***************************************************************************)
EXTENDS Naturals

CONSTANTS
    Block,      \* block hashes
    Genesis,    \* the genesis block hash
    Parent,     \* prev_hash of every block; genesis is its own parent
    Height,     \* height of every block
    Ancestors   \* the blocks on the chain ending in a block, itself included

ASSUME BlockGraphAssumption ==
    /\ Genesis \in Block
    /\ Parent \in [Block -> Block]
    /\ Height \in [Block -> Nat]
    /\ Ancestors \in [Block -> SUBSET Block]
    /\ Height[Genesis] = 0
    /\ Parent[Genesis] = Genesis
    /\ Ancestors[Genesis] = {Genesis}
    /\ \A b \in Block \ {Genesis} :
         /\ Height[b] = Height[Parent[b]] + 1
         /\ Ancestors[b] = Ancestors[Parent[b]] \cup {b}

(* Child blocks of b: the headers whose prev_hash is b. *)
Children(b) == {c \in Block \ {Genesis} : Parent[c] = b}

(* The two blocks lie on one chain. *)
Related(a, b) == a \in Ancestors[b] \/ b \in Ancestors[a]
============================================================================
