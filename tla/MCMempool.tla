----------------------------- MODULE MCMempool -----------------------------
(***************************************************************************)
(* The mempool gateway and the mining pool's ledger for TLC, over a branch *)
(* of two blocks and one of one.  They share no variable here; part names  *)
(* the one that runs, and the other rests in a first state.                *)
(*                                                                         *)
(* The mempool is offered a parent p, its child q, and a transaction rival *)
(* that spends what p spends.                                              *)
(***************************************************************************)
EXTENDS MempoolGateway, PoolLedger, TLC

CONSTANTS rpc, ingress, g, a1, a2, b1, p, q, rival, x, y, none, worker, m1, m2, s0, s1, k1, k2, x1, x2, z

VARIABLE part

MCParent == (g :> g) @@ (a1 :> g) @@ (a2 :> a1) @@ (b1 :> g)
MCHeight == (g :> 0) @@ (a1 :> 1) @@ (a2 :> 2) @@ (b1 :> 1)
MCAncestors == (g :> {g}) @@ (a1 :> {g, a1}) @@ (a2 :> {g, a1, a2}) @@ (b1 :> {g, b1})
MCInputs == (p :> {x}) @@ (q :> {p, y}) @@ (rival :> {x})
MCFinalAt == (p :> 0) @@ (q :> 0) @@ (rival :> 2)
MCTxs == (g :> {}) @@ (a1 :> {p}) @@ (a2 :> {q}) @@ (b1 :> {})
MCOffers == (rpc :> {p}) @@ (ingress :> {q, rival})
MCSymmetry == Permutations(Changer)

-----------------------------------------------------------------------------
(* Two miners, of whom the first has the larger share of a window of 2.  A   *)
(* payment x1 spends two coins of the pool, its replacement x2 one of them,  *)
(* and z, which is not the pool's, the other.                                *)
MCShare(a, n) == [account |-> a, work |-> n]
MCShareOf ==
    (s0 :> MCShare(1, 2)) @@ (s1 :> MCShare(2, 2))
        @@ (g :> MCShare(2, 1)) @@ (a1 :> MCShare(2, 1)) @@ (b1 :> MCShare(1, 1))
MCSpends == (x1 :> {x, y}) @@ (x2 :> {y}) @@ (z :> {x})
MCFinds(b, c) == (m1 :> b) @@ (m2 :> c)

(* Connections that find blocks, and rounds that are there to be paid. *)
MCFinding(tip, headers, blocks, finds, shares) ==
    [tip |-> tip, headers |-> headers, blocks |-> blocks, finds |-> finds, table |-> <<s0>>,
     won |-> <<>>, shares |-> shares, keys |-> {}, prunes |-> shares # {}]
MCPaying(b) ==
    [tip |-> b, headers |-> {}, blocks |-> {a1, a2, b1}, finds |-> MCFinds(none, none),
     table |-> <<s0, b>>, won |-> <<b>>, shares |-> {}, keys |-> {k1, k2}, prunes |-> FALSE]

(* Two blocks at once; one block twice; one that the chain takes up and      *)
(* drops; one while shares are recorded and pruned; a payout that the chain  *)
(* confirms, drops or makes impossible; and one whose round is displaced.    *)
MCPlStarts ==
    {MCFinding(a1, {b1}, {}, MCFinds(a1, b1), {}),
     MCFinding(a1, {}, {}, MCFinds(a1, a1), {}),
     MCFinding(g, {a1}, {a1, b1}, MCFinds(a1, none), {}),
     MCFinding(a1, {}, {}, MCFinds(a1, none), {s1}),
     MCPaying(g), MCPaying(a1)}

-----------------------------------------------------------------------------
poolsVars == <<part, vars, plVars>>

(* One of the first states of each part stands for it while it rests. *)
Resting ==
    /\ part # "mempool" => applied = Genesis
    /\ part # "ledger" => plStart.shares # {}

PoolsInit == part \in {"mempool", "ledger"} /\ Init /\ PoolInit /\ Resting

RunMempool == part = "mempool" /\ Next /\ UNCHANGED <<part, plVars>>
RunLedger == part = "ledger" /\ PoolNext /\ UNCHANGED <<part, vars>>

PoolsNext == RunMempool \/ RunLedger

PoolsSpec == PoolsInit /\ [][PoolsNext]_poolsVars

(* The state of the part that runs has its type: the orphan pool keeps its   *)
(* quota, and no balance of the ledger goes below zero.                      *)
PoolsTypeOK == IF part = "mempool" THEN TypeOK ELSE PoolTypeOK

(* PoolIsSound where the ledger runs: the pool's books are right and no      *)
(* found block is lost, however connections, operator, worker and chain      *)
(* interleave (Ledger, LedgerHost).                                          *)
LedgerIsSound == part = "ledger" => PoolIsSound
=============================================================================
