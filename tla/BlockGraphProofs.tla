-------------------------- MODULE BlockGraphProofs --------------------------
(***************************************************************************)
(* Facts about the header graph that the proofs about the components cite. *)
(* Each holds at genesis and passes from a block to its children, so a     *)
(* counterexample of least height does not exist.                          *)
(***************************************************************************)
EXTENDS BlockGraph, WellFoundedInduction, TLAPS

(* Every non-empty set of blocks has a lowest member. *)
LEMMA LowestBlock ==
    ASSUME NEW S \in SUBSET Block, S # {}
    PROVE  \E b \in S : \A c \in S : ~(Height[c] < Height[b])
<1> DEFINE Heights == {Height[b] : b \in S}
           Less == {p \in Nat \X Nat : p[1] < p[2]}
<1>1. Heights \subseteq Nat /\ Heights # {}
  BY BlockGraphAssumption
<1>2. IsWellFoundedOn(Less, Nat)
  BY NatLessThanWellFounded, Zenon DEF OpToRel
<1>3. PICK h \in Heights : \A k \in Heights : ~(<<k, h>> \in Less)
  <2> HIDE DEF Heights, Less
  <2> QED BY <1>1, <1>2, WFMin, Zenon
<1>4. \A k \in Heights : ~(k < h)
  BY <1>1, <1>3
<1> QED
  BY <1>4

(* A set of blocks that holds genesis, and every block whose parent it     *)
(* holds, holds them all.                                                  *)
LEMMA BlockInduction ==
    ASSUME NEW S \in SUBSET Block, Genesis \in S,
           \A b \in Block \ {Genesis} : Parent[b] \in S => b \in S
    PROVE  S = Block
<1> SUFFICES ASSUME Block \ S # {} PROVE FALSE
  OBVIOUS
<1>1. PICK b \in Block \ S : \A c \in Block \ S : ~(Height[c] < Height[b])
  BY LowestBlock
<1>2. b # Genesis /\ Parent[b] \in Block /\ Height[b] = Height[Parent[b]] + 1
      /\ Height[Parent[b]] \in Nat
  BY BlockGraphAssumption
<1>3. Parent[b] \in S
  BY <1>1, <1>2
<1> QED
  BY <1>2, <1>3

(* A block is on its own chain, and so is genesis. *)
LEMMA ChainEnds ==
    \A b \in Block : b \in Ancestors[b] /\ Genesis \in Ancestors[b]
<1> DEFINE S == {b \in Block : Genesis \in Ancestors[b]}
<1>1. \A b \in Block : b \in Ancestors[b]
  BY BlockGraphAssumption
<1>2. S = Block
  <2>1. Genesis \in S
    BY BlockGraphAssumption
  <2>2. \A b \in Block \ {Genesis} : Parent[b] \in S => b \in S
    BY BlockGraphAssumption
  <2> HIDE DEF S
  <2> QED
    BY <2>1, <2>2, BlockInduction DEF S
<1> QED
  BY <1>1, <1>2

(* Going down a chain, heights fall. *)
LEMMA AncestorIsLower ==
    \A b \in Block : \A a \in Ancestors[b] :
        a \in Block /\ (a = b \/ Height[a] < Height[b])
<1> DEFINE S == {b \in Block : \A a \in Ancestors[b] : a = b \/ Height[a] < Height[b]}
<1>1. Genesis \in S
  BY BlockGraphAssumption
<1>2. ASSUME NEW b \in Block \ {Genesis}, Parent[b] \in S
      PROVE  b \in S
  <2>1. /\ Height[b] = Height[Parent[b]] + 1
        /\ Ancestors[b] = Ancestors[Parent[b]] \cup {b}
        /\ Parent[b] \in Block
        /\ Ancestors[Parent[b]] \subseteq Block
        /\ \A a \in Block : Height[a] \in Nat
    BY BlockGraphAssumption
  <2>2. ASSUME NEW a \in Ancestors[Parent[b]]
        PROVE  Height[a] < Height[b]
    <3>1. a = Parent[b] \/ Height[a] < Height[Parent[b]]
      BY <1>2
    <3>2. Height[a] \in Nat /\ Height[Parent[b]] \in Nat
      BY <2>1
    <3> QED
      BY <2>1, <3>1, <3>2
  <2> QED
    BY <2>1, <2>2
<1>3. S = Block
  <2> HIDE DEF S
  <2>1. S \subseteq Block
    BY DEF S
  <2> QED
    BY <1>1, <1>2, <2>1, BlockInduction
<1> QED
  BY <1>3, BlockGraphAssumption

(* The chain of a block holds the chain of every block on it. *)
LEMMA AncestorsNest ==
    \A b \in Block : \A a \in Ancestors[b] : Ancestors[a] \subseteq Ancestors[b]
<1> DEFINE S == {b \in Block : \A a \in Ancestors[b] : Ancestors[a] \subseteq Ancestors[b]}
<1>1. Genesis \in S
  BY BlockGraphAssumption
<1>2. ASSUME NEW b \in Block \ {Genesis}, Parent[b] \in S
      PROVE  b \in S
  <2>1. Ancestors[b] = Ancestors[Parent[b]] \cup {b}
    BY BlockGraphAssumption
  <2> QED
    BY <1>2, <2>1
<1>3. S = Block
  <2> HIDE DEF S
  <2>1. S \subseteq Block
    BY DEF S
  <2> QED
    BY <1>1, <1>2, <2>1, BlockInduction
<1> QED
  BY <1>3

(* A block's chain without the block is its parent's chain. *)
LEMMA ParentChain ==
    \A b \in Block \ {Genesis} :
        /\ Parent[b] \in Block /\ Parent[b] # b
        /\ Parent[b] \in Ancestors[b]
        /\ b \notin Ancestors[Parent[b]]
        /\ Ancestors[b] = Ancestors[Parent[b]] \cup {b}
        /\ Ancestors[Parent[b]] = Ancestors[b] \ {b}
        /\ \A a \in Ancestors[b] : a # b => a \in Ancestors[Parent[b]]
<1> SUFFICES ASSUME NEW b \in Block \ {Genesis}
             PROVE  /\ Parent[b] \in Block /\ Parent[b] # b
                    /\ Parent[b] \in Ancestors[b]
                    /\ b \notin Ancestors[Parent[b]]
                    /\ Ancestors[b] = Ancestors[Parent[b]] \cup {b}
                    /\ Ancestors[Parent[b]] = Ancestors[b] \ {b}
                    /\ \A a \in Ancestors[b] : a # b => a \in Ancestors[Parent[b]]
  OBVIOUS
<1>1. /\ Parent[b] \in Block /\ Height[Parent[b]] \in Nat
      /\ Height[b] = Height[Parent[b]] + 1
      /\ Ancestors[b] = Ancestors[Parent[b]] \cup {b}
  BY BlockGraphAssumption
<1>2. b \notin Ancestors[Parent[b]] /\ Parent[b] # b
  BY <1>1, AncestorIsLower
<1> QED
  BY <1>1, <1>2, ChainEnds

(* Of two blocks on one chain the lower is on the chain of the other. *)
LEMMA ChainIsLinear ==
    \A b \in Block : \A a, c \in Ancestors[b] :
        Height[a] <= Height[c] => a \in Ancestors[c]
<1> DEFINE S == {b \in Block : \A a, c \in Ancestors[b] :
                                  Height[a] <= Height[c] => a \in Ancestors[c]}
<1>1. Genesis \in S
  BY BlockGraphAssumption
<1>2. ASSUME NEW b \in Block \ {Genesis}, Parent[b] \in S
      PROVE  b \in S
  <2> SUFFICES ASSUME NEW a \in Ancestors[b], NEW c \in Ancestors[b], Height[a] <= Height[c]
               PROVE  a \in Ancestors[c]
    OBVIOUS
  <2>1. CASE c = b
    BY <2>1
  <2>2. CASE c # b
    <3>1. c \in Ancestors[Parent[b]]
      BY <2>2, ParentChain
    <3>2. a # b
      <4>1. Height[c] < Height[b] /\ Height[c] \in Nat /\ Height[b] \in Nat
        BY <2>2, AncestorIsLower, BlockGraphAssumption
      <4> QED
        BY <4>1
    <3>3. a \in Ancestors[Parent[b]]
      BY <3>2, ParentChain
    <3> QED
      BY <1>2, <3>1, <3>3
  <2> QED
    BY <2>1, <2>2
<1>3. S = Block
  <2> HIDE DEF S
  <2>1. S \subseteq Block
    BY DEF S
  <2> QED
    BY <1>1, <1>2, <2>1, BlockInduction
<1> QED
  BY <1>3
=============================================================================
