---------------------------- MODULE DurableChain ----------------------------
(***************************************************************************)
(* What the chainstate promises, without coins, journal or checkpoints: a  *)
(* durable tip that grows along a branch or gives up one block at a time,  *)
(* and the tip a serving process shows, which follows it block by block.   *)
(* A process that stops shows nothing until it has found the durable tip   *)
(* again.  The durable tip never moves while the shown one is behind it,   *)
(* or while none is shown.                                                 *)
(***************************************************************************)
EXTENDS BlockGraph

CONSTANT NoView    \* no process is serving

VARIABLES
    root,    \* the durable tip
    view     \* the tip shown to readers

Init == root = Genesis /\ view = Genesis

(* A batch of blocks becomes durable at once. *)
Extend ==
    /\ view = root
    /\ root' \in {b \in Block : root \in Ancestors[b]}
    /\ UNCHANGED view

Retreat ==
    /\ view = root
    /\ root # Genesis
    /\ root' = Parent[root]
    /\ UNCHANGED view

(* The shown tip takes one step towards the durable one. *)
Publish ==
    /\ view # NoView /\ view # root
    /\ \/ view' \in Children(view) \cap Ancestors[root]
       \/ root = Parent[view] /\ view' = root
    /\ UNCHANGED root

Stop == view' = NoView /\ UNCHANGED root

Recover ==
    /\ view = NoView
    /\ view' = root
    /\ UNCHANGED root

Next == Extend \/ Retreat \/ Publish \/ Stop \/ Recover

Spec == Init /\ [][Next]_<<root, view>>
=============================================================================
