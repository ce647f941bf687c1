------------------------------- MODULE MCNode -------------------------------
(***************************************************************************)
(* The parts of the node beside the chainstate, each on its own small      *)
(* instance over one header graph: the index follower, the template        *)
(* coordinator, the admission gate with its shutdown latch, and the block  *)
(* download.  They share no variable here; part names the one that runs,   *)
(* and the others rest in their first state.                               *)
(***************************************************************************)
EXTENDS IndexFollower, MiningCoordinator, ApplyAdmission, BlockDownload, TLC

CONSTANTS
    none,
    g, a1, a2, b1, b2, d2, d3,
    t1, t2, r1, r2,
    th1, th2, th3, th4, h1,
    p1, p2

VARIABLE part

-----------------------------------------------------------------------------
(* Two branches for the index and, above b1, a heavier one for the download; *)
(* the coordinator works on d2 and its child.                                *)
MCParent ==
    (g :> g) @@ (a1 :> g) @@ (a2 :> a1)
        @@ (b1 :> g) @@ (b2 :> b1) @@ (d2 :> b1) @@ (d3 :> d2)
MCHeight ==
    (g :> 0) @@ (a1 :> 1) @@ (a2 :> 2)
        @@ (b1 :> 1) @@ (b2 :> 2) @@ (d2 :> 2) @@ (d3 :> 3)
MCAncestors ==
    (g :> {g}) @@ (a1 :> {g, a1}) @@ (a2 :> {g, a1, a2})
        @@ (b1 :> {g, b1}) @@ (b2 :> {g, b1, b2}) @@ (d2 :> {g, b1, d2})
        @@ (d3 :> {g, b1, d2, d3})

MCStart(m, late, lost, moves, faults) ==
    [mark |-> m, late |-> late, lost |-> lost, moves |-> moves, faults |-> faults]
MCStarts ==
    {MCStart(none, {}, {}, 1, 0), MCStart(none, {a1}, {}, 0, 1), MCStart(b1, {}, {}, 0, 0),
     MCStart(b1, {}, {a1}, 0, 1), MCStart(b1, {}, {b1}, 0, 1)}
MCTxs == [b \in Block |-> IF b = d3 THEN {t1} ELSE {}]
MCRequests(x, y, n, u) ==
    [kind |-> (r1 :> x) @@ (r2 :> y), tries |-> n, used |-> u]
MCScenario ==
    {MCRequests("plain", "none", 2, 0), MCRequests("plain", "plain", 1, 1),
     MCRequests("budget", "plain", 2, 2), MCRequests("budget", "budget", 2, 2),
     MCRequests("budget", "none", 2, 1), MCRequests("poll", "none", 2, 1)}
MCThreads(a, b, c, d) == (th1 :> a) @@ (th2 :> b) @@ (th3 :> c) @@ (th4 :> d)
MCRoles ==
    {MCThreads("transition", "transition", "publish", "close"),
     MCThreads("transition", "install", "recover", "publish"),
     MCThreads("transition", "transition", "stable", "close")}
MCBest == (p1 :> 3) @@ (p2 :> 2)
MCInvalid == {{}, {d3}}

-----------------------------------------------------------------------------
nodeVars == <<part, idxVars, mncVars, gateVars, dlVars>>

(* One of the first states of each part stands for it while it rests. *)
Resting ==
    /\ part # "index" => idxUsed.moves = 1
    /\ part # "mining" => mncUsed = 0
    /\ part # "gate" => gtRole = MCThreads("transition", "install", "recover", "publish")
    /\ part # "download" => dlChain.bad = {}

NodeInit ==
    /\ part \in {"index", "mining", "gate", "download"}
    /\ IndexInit /\ MiningInit /\ GateInit /\ DownloadInit
    /\ Resting

RunIndex == part = "index" /\ IndexNext /\ UNCHANGED <<part, mncVars, gateVars, dlVars>>
RunMining == part = "mining" /\ MiningNext /\ UNCHANGED <<part, idxVars, gateVars, dlVars>>
RunGate == part = "gate" /\ GateNext /\ UNCHANGED <<part, idxVars, mncVars, dlVars>>
RunDownload == part = "download" /\ DownloadNext /\ UNCHANGED <<part, idxVars, mncVars, gateVars>>

NodeNext == RunIndex \/ RunMining \/ RunGate \/ RunDownload

(* The fairness of each part while it runs.  A resting part waits for        *)
(* nothing but its threads.                                                  *)
NodeFairness ==
    /\ IndexSurroundings
    /\ WF_idxVars(part = "index" /\ IndexWorker)
    /\ MiningSurroundings
    /\ \A r \in Requester : WF_mncVars(part = "mining" /\ ~AtReq(r, "idle") /\ RequestStep(r))
    /\ WF_mncVars(part = "mining" /\ PrepStep)
    /\ \A t \in GateThread : WF_gateVars(part = "gate" /\ GateStep(t))
    /\ \A h \in GateHook : WF_gateVars(part = "gate" /\ HookStep(h))
    /\ DownloadSurroundings
    /\ []<>(part # "download" \/ ~AtPc("idle"))

NodeSpec == NodeInit /\ [][NodeNext]_nodeVars /\ NodeFairness

-----------------------------------------------------------------------------
(* Every part's state has its type, and the template cache keeps its budget. *)
NodeTypeOK == IndexTypeOK /\ MiningTypeOK /\ GateTypeOK /\ DownloadTypeOK

(* IndexCatchesUp where the index worker runs: whatever reorganisation,      *)
(* crash, lost undo data or late body it met, every enabled capability ends  *)
(* up at the tip (the reconciliation loop of index/src/runtime).             *)
NodeIndexCatchesUp == <>[](part = "index" => CaughtUp)

(* RequestsReturn where the coordinator runs: no assembly, preparation or    *)
(* panic leaves a getblocktemplate call waiting (candidate_for_key).         *)
NodeRequestsReturn == <>[](part = "mining" => NoneWaits)

(* GateSettles where the gate runs: transitions, publications, stable reads, *)
(* close and recovery all come to their end, and each hook that is due has   *)
(* run (ApplyAdmission, LatchInner).                                         *)
NodeGateSettles == <>[](part = "gate" => Settled)

(* DownloadCompletes where the block download runs: whatever its peers do    *)
(* and the chainstate refuses, the best header's block is applied in the end *)
(* (BlockSync::tick, DownloadWindow).                                        *)
NodeDownloadCompletes == <>[](part = "download" => Complete)
=============================================================================
