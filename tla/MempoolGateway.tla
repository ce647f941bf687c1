--------------------------- MODULE MempoolGateway ---------------------------
(***************************************************************************)
(* The mempool behind its gateway and the chain changes it must follow     *)
(* (crates/mempool: gateway, admission, orphan pool; crates/node: window   *)
(* commit, reorganisation, snapshot import, transaction ingress).          *)
(*                                                                         *)
(* A submission validates a transaction without any lock: it captures the  *)
(* chain generation and the pool's sequence, reads the applied tip and the *)
(* coins, judges, and commits under the pool's write lock if what it       *)
(* captured still stands.  A chain change makes the generation odd, moves  *)
(* the chain, carries the effects of every block to the pool and to the    *)
(* orphans, and makes the generation even again.  Three kinds of change    *)
(* run in different threads and take the generation and the transition     *)
(* mutex in different orders.                                              *)
(*                                                                         *)
(* Abstractions.  A transaction has one output, named by the transaction,  *)
(* and one witness; its fees, scripts and sizes are the choice whether a   *)
(* check that reads them accepts it, and its locks the first height it may *)
(* be mined at.  The sequence counters are u64 and only compared, so they  *)
(* are kept as the set of actors whose captured value is out of date.      *)
(* Announcers are left out: only the ingress thread changes them, between  *)
(* two retries, and an orphan without announcers is one that Maintain      *)
(* drops.  The observer queue, packages and previews are not here.         *)
(***************************************************************************)
EXTENDS BlockGraph, FiniteSets

CONSTANTS
    Tx,           \* transactions, each standing for its txid and its output
    Coin,         \* outputs that exist at genesis
    Inputs,       \* the outputs each transaction spends
    FinalAt,      \* first height each transaction may be mined at
    Txs,          \* the transactions of each block, coinbase left out
    Rpc,          \* threads that submit local transactions
    Ingress,      \* the thread that admits peer transactions
    Changer,      \* threads that change the chain
    Attempts,     \* MAX_ADMISSION_RETRIES
    Window,       \* most blocks in one window commit
    PoolLimit,    \* transactions that fit the pool's byte limit
    OrphanQuota,  \* orphans held at most
    Offers,       \* bound: the transactions each submitter is offered
    MaxGen,       \* largest chain generation
    Kind,         \* the kinds of chain change: window, branch, snapshot
    NoOne         \* the transition mutex is free

Outputs == Tx \cup Coin

Job == Rpc \cup {Ingress}

Created(b) == UNION {Txs[a] : a \in Ancestors[b]}

SpentBy(ts) == UNION {Inputs[t] : t \in ts}

(* The UTXO set at a block. *)
Coins(b) == (Coin \cup Created(b)) \ SpentBy(Created(b))

(* Two of the transactions spend one output. *)
Clash(t, u) == t # u /\ Inputs[t] \cap Inputs[u] # {}

ASSUME GatewayAssumption ==
    /\ Tx \cap Coin = {}
    /\ Inputs \in [Tx -> SUBSET Outputs]
    /\ FinalAt \in [Tx -> Nat]
    /\ Txs \in [Block -> SUBSET Tx]
    /\ Ingress \notin Rpc
    /\ NoOne \notin Changer
    /\ Kind \subseteq {"window", "branch", "snapshot"}
    /\ {Attempts, Window, PoolLimit, OrphanQuota, MaxGen} \subseteq Nat
    /\ Offers \in [Job -> SUBSET Tx]
    /\ \A t \in Tx : t \notin Inputs[t]

(* Blocks are valid: consensus accepted every one of them. *)
ASSUME BlocksValid ==
    /\ Txs[Genesis] = {}
    /\ \A b \in Block \ {Genesis} :
         /\ Txs[b] \cap Created(Parent[b]) = {}
         /\ SpentBy(Txs[b]) \subseteq Coins(Parent[b]) \cup Txs[b]
         /\ \A t, u \in Txs[b] : ~Clash(t, u)
         /\ \A t \in Txs[b] : FinalAt[t] <= Height[b]

VARIABLES
    gen,         \* chain_generation
    pool,        \* resident transactions
    orphans,     \* transactions held for missing parents
    ready,       \* orphans queued for a retry
    rejects,     \* refused transactions, each with the reason
    utxo,        \* block whose coins the UTXO set holds
    applied,     \* published applied tip
    base,        \* lowest block that may be the tip: genesis or the snapshot
    closed,      \* the recovery latch of the chainstate
    transition,  \* holder of the chain transition mutex
    change,      \* what each changer is doing
    job,         \* what each submitter is doing
    claims,      \* orphans the ingress thread took for this retry pass
    moved,       \* jobs whose captured pool sequence is out of date
    repriced     \* actors whose captured policy stamp is out of date

chainVars == <<utxo, applied, base>>
lifecycle == <<orphans, ready, rejects>>
vars == <<gen, pool, lifecycle, chainVars, closed, transition, change, job,
          claims, moved, repriced>>

Even(n) == n % 2 = 0

-----------------------------------------------------------------------------
(* Sets of residents that have all their resident descendants in them. *)
Closed(v, p) == \A t \in p : Inputs[t] \cap v # {} => t \in v

(* The transactions r of the pool p and their resident descendants. *)
Family(r, p) == {t \in p : \A v \in SUBSET p : r \subseteq v /\ Closed(v, p) => t \in v}

(* Pools that expiry and the size limit may leave of p. *)
Trimmed(p) == {q \in SUBSET p : Closed(p \ q, p) /\ Cardinality(q) <= PoolLimit}

(* What t replaces: the residents it clashes with and their descendants. *)
Replaced(t, p) == Family({u \in p : Clash(t, u)}, p)

Inserted(t, p) == (p \ Replaced(t, p)) \cup {t}

(* Inputs that are a live coin at b or an output of a resident. *)
Supported(t, p, b) == Inputs[t] \subseteq p \cup Coins(b)

Final(t, b) == FinalAt[t] <= Height[b] + 1

(* The block after a on the way up to b. *)
NextOn(a, b) == CHOOSE c \in Children(a) : c \in Ancestors[b]

(* Jobs that hold a pool sequence, and actors that hold a policy stamp. *)
Captured == {j \in Job : job[j].pc \notin {"idle", "start"}}

Stamped == {j \in Job : job[j].pc = "prepared"} \cup {c \in Changer : change[c].pc = "trimming"}

(* Every change of the pool advances its sequence number. *)
PoolTo(p) ==
    /\ pool' = p
    /\ moved' = IF p = pool THEN moved ELSE Captured

(* Orphans that spend an output of one of the transactions or coins ps. *)
Waiting(ps) == {t \in orphans : Inputs[t] \cap ps # {}}

(* Mutant: a dropped orphan stays queued for its retry. *)
DropOrphansKeepsReady(ts) ==
    /\ orphans' = orphans \ ts
    /\ UNCHANGED ready

(* Forget every orphan of ts. *)
DropOrphans(ts) ==
    /\ orphans' = orphans \ ts
    /\ ready' = ready \ ts

(* Mutant: the refusals outlive the chain they were made against. *)
ChainChangedKeepsRejects(ps) ==
    /\ ready' = ready \cup Waiting(ps)
    /\ UNCHANGED <<orphans, rejects>>

ChainChanged(ps) ==
    /\ rejects' = {}
    /\ ready' = ready \cup Waiting(ps)
    /\ UNCHANGED orphans

-----------------------------------------------------------------------------
(* Submissions. *)
NoJob == [pc |-> "idle"]

Begun(t, held) == [pc |-> "start", tx |-> t, claim |-> held, tries |-> Attempts]

(* The job's captured values are gone. *)
Forget(j) ==
    /\ moved' = moved \ {j}
    /\ repriced' = repriced \ {j}

(* Mutant: a retried orphan that runs out of attempts is not queued again. *)
RetryForgetsClaim(j) ==
    /\ Forget(j)
    /\ IF job[j].tries > 1
       THEN job' = [job EXCEPT ![j] = [Begun(@.tx, @.claim) EXCEPT !.tries = job[j].tries - 1]]
       ELSE job' = [job EXCEPT ![j] = NoJob]
    /\ UNCHANGED lifecycle

(* Another attempt, or none left: a retried orphan is queued again. *)
Retry(j) ==
    /\ Forget(j)
    /\ IF job[j].tries > 1
       THEN /\ job' = [job EXCEPT ![j] = [Begun(@.tx, @.claim) EXCEPT !.tries = job[j].tries - 1]]
            /\ UNCHANGED lifecycle
       ELSE /\ job' = [job EXCEPT ![j] = NoJob]
            /\ ready' = ready \cup (IF job[j].claim THEN {job[j].tx} \cap orphans ELSE {})
            /\ UNCHANGED <<orphans, rejects>>

Return(j) == job' = [job EXCEPT ![j] = NoJob]

(* Mutant: only the pool's sequence is compared. *)
CurrentIgnoresGeneration(j) == j \notin moved

(* check_admission_state without a stamp. *)
Current(j) == Even(gen) /\ gen = job[j].gen /\ j \notin moved

ClaimLost(j) == job[j].claim /\ job[j].tx \notin orphans

Submit(j, t) ==
    /\ j \in Rpc \/ claims = {}
    /\ job[j].pc = "idle"
    /\ t \in Offers[j]
    /\ job' = [job EXCEPT ![j] = Begun(t, FALSE)]
    /\ UNCHANGED <<gen, pool, lifecycle, chainVars, closed, transition, change,
                   claims, moved, repriced>>

(* The generation is loaded and checked again under the pool's read lock;  *)
(* one that moves in between costs an attempt, as an odd one does.         *)
Capture(j) ==
    LET t == job[j].tx
        known == \/ t \in pool
                 \/ j = Ingress /\ \E r \in rejects : r[1] = t
                 \/ ClaimLost(j)
    IN  /\ job[j].pc = "start"
        /\ \/ ~Even(gen) /\ Retry(j)
           \/ /\ Even(gen)
              /\ known
              /\ Return(j)
              /\ UNCHANGED <<lifecycle, moved, repriced>>
           \/ /\ Even(gen)
              /\ ~known
              /\ job' = [job EXCEPT ![j] =
                    [pc |-> "captured", tx |-> t, claim |-> @.claim, tries |-> @.tries,
                     gen |-> gen, found |-> Inputs[t] \cap pool]]
              /\ UNCHANGED <<lifecycle, moved, repriced>>
        /\ UNCHANGED <<gen, pool, chainVars, closed, transition, change, claims>>

(* The snapshot loads the applied tip first and then reads the coins. *)
ReadTip(j) ==
    /\ job[j].pc = "captured"
    /\ job' = [job EXCEPT ![j] =
          [pc |-> "tip", tx |-> @.tx, claim |-> @.claim, tries |-> @.tries,
           gen |-> @.gen, found |-> @.found, final |-> Final(@.tx, applied)]]
    /\ UNCHANGED <<gen, pool, lifecycle, chainVars, closed, transition, change,
                   claims, moved, repriced>>

ReadCoins(j) ==
    LET t == job[j].tx
    IN  /\ job[j].pc = "tip"
        /\ job' = [job EXCEPT
                     ![j].pc = IF j = Ingress /\ t \in Coins(utxo) THEN "confirmed" ELSE "read",
                     ![j].found = @ \cup (Inputs[t] \cap Coins(utxo))]
        /\ UNCHANGED <<gen, pool, lifecycle, chainVars, closed, transition, change,
                       claims, moved, repriced>>

(* A peer's transaction with live outputs is confirmed: stop holding it. *)
AlreadyConfirmed(j) ==
    /\ job[j].pc = "confirmed"
    /\ \/ ~Current(j) /\ Retry(j)
       \/ /\ Current(j)
          /\ Return(j)
          /\ DropOrphans(IF ClaimLost(j) THEN {} ELSE {job[j].tx})
          /\ Forget(j)
          /\ UNCHANGED rejects
    /\ UNCHANGED <<gen, pool, chainVars, closed, transition, change, claims>>

(* Verdicts on a transaction with the facts of its job: missing inputs,    *)
(* then the locks, then fees, replacement rules, limits and scripts.  A    *)
(* replacement may not spend what it evicts.                               *)
Verdicts(j) ==
    CASE job[j].found # Inputs[job[j].tx] -> {"missing"}
      [] job[j].found = Inputs[job[j].tx] /\ ~job[j].final -> {"nonfinal"}
      [] OTHER -> {"policy"} \cup
             (IF Inputs[job[j].tx] \cap Replaced(job[j].tx, pool) = {} THEN {"ok"} ELSE {})

Prepare(j) ==
    /\ job[j].pc = "read"
    /\ \/ ~Current(j) /\ Retry(j)
       \/ /\ Current(j)
          /\ \E v \in Verdicts(j) :
               job' = [job EXCEPT ![j] =
                  [pc |-> "prepared", tx |-> @.tx, claim |-> @.claim, tries |-> @.tries,
                   gen |-> @.gen, verdict |-> v]]
          /\ UNCHANGED <<lifecycle, moved, repriced>>
    /\ UNCHANGED <<gen, pool, chainVars, closed, transition, change, claims>>

(* Insert evicting an orphan when the quota is exceeded. *)
HoldOrphan(t) ==
    \/ /\ Cardinality(orphans \cup {t}) <= OrphanQuota
       /\ orphans' = orphans \cup {t}
       /\ UNCHANGED ready
    \/ /\ Cardinality(orphans \cup {t}) > OrphanQuota
       /\ \E o \in orphans \cup {t} :
            /\ orphans' = (orphans \cup {t}) \ {o}
            /\ ready' = ready \ {o}

(* A refusal.  A refused insertion may raise the rolling minimum fee, and  *)
(* a peer's refusal is remembered or, for missing inputs, held.            *)
Refuse(j) ==
    LET t == job[j].tx
        why == job[j].verdict
    IN  /\ \E s \in IF why = "policy" THEN {repriced, Stamped} ELSE {repriced} : repriced' = s \ {j}
        /\ \/ j # Ingress /\ UNCHANGED lifecycle
           \/ j = Ingress /\ why = "missing" /\ HoldOrphan(t) /\ UNCHANGED rejects
           \/ /\ j = Ingress
              /\ why # "missing"
              /\ DropOrphans({t})
              /\ rejects' = rejects \cup {<<t, why>>}
        /\ moved' = moved \ {j}
        /\ UNCHANGED pool

Accept(j) ==
    LET t == job[j].tx
    IN  /\ pool' \in Trimmed(Inserted(t, pool))
        /\ moved' = Captured \ {j}
        /\ repriced' = repriced \ {j}
        /\ orphans' = orphans \ {t}
        /\ ready' = (ready \cup (IF t \in pool' THEN Waiting({t}) ELSE {})) \ {t}
        /\ UNCHANGED rejects

Commit(j) ==
    /\ job[j].pc = "prepared"
    /\ \/ /\ ~Current(j) \/ j \in repriced
          /\ Retry(j)
          /\ UNCHANGED pool
       \/ /\ Current(j)
          /\ j \notin repriced
          /\ Return(j)
          /\ IF ClaimLost(j) THEN Forget(j) /\ UNCHANGED <<pool, lifecycle>>
             ELSE IF job[j].verdict = "ok" THEN Accept(j) ELSE Refuse(j)
    /\ UNCHANGED <<gen, chainVars, closed, transition, change, claims>>

-----------------------------------------------------------------------------
(* The ingress thread's passes over the orphans, and the operator. *)
IngressIdle == job[Ingress].pc = "idle"

(* An orphan expires or its last announcer departs. *)
Maintain(t) ==
    /\ IngressIdle /\ claims = {}
    /\ t \in orphans
    /\ DropOrphans({t})
    /\ UNCHANGED <<gen, pool, rejects, chainVars, closed, transition, change, job,
                   claims, moved, repriced>>

TakeReady ==
    /\ IngressIdle /\ claims = {}
    /\ Even(gen)
    /\ ready # {}
    /\ claims' = ready
    /\ ready' = {}
    /\ UNCHANGED <<gen, pool, orphans, rejects, chainVars, closed, transition, change,
                   job, moved, repriced>>

(* The next claim is submitted; one that is not held any more is skipped. *)
RetryOrphan(t) ==
    /\ IngressIdle
    /\ t \in claims
    /\ claims' = claims \ {t}
    /\ job' = IF t \in orphans THEN [job EXCEPT ![Ingress] = Begun(t, TRUE)] ELSE job
    /\ UNCHANGED <<gen, pool, lifecycle, chainVars, closed, transition, change, moved, repriced>>

(* prioritisetransaction: not fenced by the generation. *)
Prioritise ==
    /\ repriced' = Stamped
    /\ rejects' = {}
    /\ UNCHANGED <<gen, pool, orphans, ready, chainVars, closed, transition, change, job,
                   claims, moved>>

-----------------------------------------------------------------------------
(* Chain changes.  A changer's target is the block its walk heads for, its *)
(* origin the tip it started from, seen the last block whose effects were  *)
(* carried, dropped the transactions of disconnected blocks, regained      *)
(* those of blocks connected since, and withheld the refused ones.         *)
NoChange == [pc |-> "idle"]

Started(pc, kind) ==
    [pc |-> pc, kind |-> kind, target |-> applied, origin |-> applied, seen |-> applied,
     undone |-> FALSE, fatal |-> FALSE, dropped |-> {}, regained |-> {}, withheld |-> {}]

To(c, pc) == change' = [change EXCEPT ![c].pc = pc]

Free(c) == transition' = IF transition = c THEN NoOne ELSE transition

(* A window commit or submitblock takes the transition first. *)
LockWindow(c) ==
    /\ change[c].pc = "idle"
    /\ "window" \in Kind
    /\ ~closed
    /\ transition = NoOne
    /\ transition' = c
    /\ change' = [change EXCEPT ![c] = [pc |-> "locked"]]
    /\ UNCHANGED <<gen, pool, lifecycle, chainVars, closed, job, claims, moved, repriced>>

(* Mutant: a second change begins while one is active. *)
MayBeginTwice == gen < MaxGen

(* begin_chain_change refuses at an odd generation or when the counter is  *)
(* used up, and never waits.                                               *)
MayBegin == Even(gen) /\ gen + 2 <= MaxGen

(* Mutant: a window waits for the other change to end. *)
BeginWindowWaits(c) ==
    /\ change[c].pc = "locked"
    /\ MayBegin
    /\ gen' = gen + 1
    /\ change' = [change EXCEPT ![c] = Started("walk", "window")]
    /\ UNCHANGED <<transition, pool, lifecycle, chainVars, closed, job, claims, moved, repriced>>

BeginWindow(c) ==
    /\ change[c].pc = "locked"
    /\ \/ /\ MayBegin
          /\ gen' = gen + 1
          /\ change' = [change EXCEPT ![c] = Started("walk", "window")]
          /\ UNCHANGED transition
       \/ /\ ~MayBegin
          /\ change' = [change EXCEPT ![c] = NoChange]
          /\ Free(c)
          /\ UNCHANGED gen
    /\ UNCHANGED <<pool, lifecycle, chainVars, closed, job, claims, moved, repriced>>

(* A branch switch, an invalidation or a snapshot import takes the         *)
(* generation first; a refused one returns without a trace.                *)
BeginChange(c, kind) ==
    /\ change[c].pc = "idle"
    /\ kind \in Kind \ {"window"}
    /\ MayBegin
    /\ gen' = gen + 1
    /\ \E b \in Block :
         change' = [change EXCEPT ![c] = [Started("planned", kind) EXCEPT !.target = b]]
    /\ UNCHANGED <<pool, lifecycle, chainVars, closed, transition, job, claims, moved, repriced>>

(* The plan of a switch, made against the applied tip: nothing to do or    *)
(* no way settles at once.                                                 *)
PlanBranch(c) ==
    /\ change[c].pc = "planned"
    /\ change[c].kind = "branch"
    /\ \E pc \in {"wait", "settle"} :
         change' = [change EXCEPT ![c].pc = pc, ![c].origin = applied, ![c].seen = applied]
    /\ UNCHANGED <<gen, pool, lifecycle, chainVars, closed, transition, job, claims,
                   moved, repriced>>

(* The walk needs the transition, and the plan again if the tip has moved. *)
LockBranch(c) ==
    /\ change[c].pc = "wait"
    /\ change[c].kind = "branch"
    /\ transition = NoOne
    /\ transition' = IF ~closed /\ applied = change[c].origin THEN c ELSE NoOne
    /\ To(c, IF closed THEN "settle" ELSE IF applied = change[c].origin THEN "walk" ELSE "planned")
    /\ UNCHANGED <<gen, pool, lifecycle, chainVars, closed, job, claims, moved, repriced>>

(* A window commits the coins of its blocks, or of the prefix before the   *)
(* one that fails, in one batch.                                           *)
CommitWindow(c) ==
    /\ change[c].pc = "walk"
    /\ change[c].kind = "window"
    /\ \E b \in Block :
         /\ applied \in Ancestors[b]
         /\ Height[b] <= Height[applied] + Window
         /\ utxo' = b
    /\ To(c, "publish")
    /\ UNCHANGED <<gen, pool, lifecycle, applied, base, closed, transition, job, claims,
                   moved, repriced>>

(* One block of a branch walk: down while the tip is off the target's      *)
(* chain, then up.                                                         *)
DisconnectBlock(c) ==
    /\ change[c].pc = "walk"
    /\ change[c].kind = "branch"
    /\ applied \notin Ancestors[change[c].target]
    /\ applied # base
    /\ utxo' = Parent[applied]
    /\ To(c, "publish")
    /\ UNCHANGED <<gen, pool, lifecycle, applied, base, closed, transition, job, claims,
                   moved, repriced>>

ConnectBlock(c) ==
    /\ change[c].pc = "walk"
    /\ change[c].kind = "branch"
    /\ applied \in Ancestors[change[c].target]
    /\ applied # change[c].target
    /\ utxo' = NextOn(applied, change[c].target)
    /\ To(c, "publish")
    /\ UNCHANGED <<gen, pool, lifecycle, applied, base, closed, transition, job, claims,
                   moved, repriced>>

(* The tip follows the coins, block by block. *)
PublishTip(c) ==
    /\ change[c].pc = "publish"
    /\ \/ /\ applied = utxo
          /\ To(c, "effects")
          /\ UNCHANGED applied
       \/ /\ applied # utxo
          /\ applied' = IF applied \in Ancestors[utxo] THEN NextOn(applied, utxo) ELSE utxo
          /\ UNCHANGED change
    /\ UNCHANGED <<gen, pool, lifecycle, utxo, base, closed, transition, job, claims,
                   moved, repriced>>

(* remove_for_block: what the block confirms leaves alone, what it         *)
(* conflicts with goes with its descendants.                               *)
WithoutBlock(b, p) ==
    LET rest == p \ Txs[b]
    IN  rest \ Family({t \in rest : \E u \in Txs[b] : Clash(t, u)}, rest)

RemoveForBlock(c) ==
    /\ change[c].pc = "effects"
    /\ change[c].seen # applied
    /\ change[c].seen \in Ancestors[applied]
    /\ PoolTo(WithoutBlock(NextOn(change[c].seen, applied), pool))
    /\ To(c, "notify")
    /\ UNCHANGED <<gen, lifecycle, chainVars, closed, transition, job, claims, repriced>>

NotifyConnect(c) ==
    LET b == NextOn(change[c].seen, applied)
    IN  /\ change[c].pc = "notify"
        /\ ChainChanged(Txs[b])
        /\ change' = [change EXCEPT ![c].pc = "effects", ![c].seen = b,
                                    ![c].regained = @ \cup Txs[b]]
        /\ UNCHANGED <<gen, pool, chainVars, closed, transition, job, claims, moved, repriced>>

(* on_disconnect names the parents of the coins the rollback restored. *)
NotifyDisconnect(c) ==
    LET b == change[c].seen
    IN  /\ change[c].pc = "effects"
        /\ b \notin Ancestors[applied]
        /\ ChainChanged(SpentBy(Txs[b]))
        /\ change' = [change EXCEPT ![c].seen = Parent[b], ![c].undone = TRUE,
                                    ![c].dropped = @ \cup Txs[b]]
        /\ UNCHANGED <<gen, pool, chainVars, closed, transition, job, claims, moved, repriced>>

(* All effects carried: a window settles, a walk goes on. *)
EffectsDone(c) ==
    /\ change[c].pc = "effects"
    /\ change[c].seen = applied
    /\ To(c, IF change[c].fatal \/ change[c].kind = "window" THEN "finish" ELSE "walk")
    /\ UNCHANGED <<gen, pool, lifecycle, chainVars, closed, transition, job, claims,
                   moved, repriced>>

(* The fork of a walk whose blocks are undone and none connected. *)
AtFork(c) ==
    /\ change[c].undone
    /\ applied \in Ancestors[change[c].target] \cap Ancestors[change[c].origin]

Restoring(c) == change[c].undone /\ change[c].target = change[c].origin

(* The walk is done, or a block is refused or its body lost. *)
StopWalk(c) ==
    /\ change[c].pc = "walk"
    /\ change[c].kind = "branch"
    /\ Restoring(c) => applied = change[c].origin
    /\ To(c, "settle")
    /\ UNCHANGED <<gen, pool, lifecycle, chainVars, closed, transition, job, claims,
                   moved, repriced>>

(* The new branch's first block is invalid: put the old branch back. *)
RestoreBranch(c) ==
    /\ change[c].pc = "walk"
    /\ AtFork(c)
    /\ applied # change[c].target
    /\ ~Restoring(c)
    /\ change' = [change EXCEPT ![c].target = change[c].origin]
    /\ UNCHANGED <<gen, pool, lifecycle, chainVars, closed, transition, job, claims,
                   moved, repriced>>

(* The change cannot vouch for the state it leaves: the latch closes. *)
FailClosed(c, pc) ==
    /\ closed' = TRUE
    /\ change' = [change EXCEPT ![c].pc = pc, ![c].fatal = TRUE]

(* A storage failure before or after the coins moved, or a restoration     *)
(* that fails; a window still carries the effects of what it published.    *)
Fatal(c) ==
    /\ change[c].pc \in {"walk"} \cup (IF applied # utxo THEN {"publish"} ELSE {})
    /\ FailClosed(c, "effects")
    /\ UNCHANGED <<gen, pool, lifecycle, chainVars, transition, job, claims, moved, repriced>>

(* Settlement of a branch: nothing to do if no block was disconnected, and *)
(* no readmission if the bodies of the disconnected blocks cannot be read. *)
Settle(c) ==
    /\ change[c].pc = "settle"
    /\ \E pc \in IF change[c].undone THEN {"reconsider", "sweep"} ELSE {"finish"} : To(c, pc)
    /\ UNCHANGED <<gen, pool, lifecycle, chainVars, closed, transition, job, claims,
                   moved, repriced>>

Unsettled(c) == change[c].dropped \ change[c].regained

(* The disconnected transactions are submitted again, parents first, under *)
(* the odd generation and with no size limit.  A refused one withholds     *)
(* those that spend it, and so does one that a later one replaces.         *)
Reconsider(c, t) ==
    LET w == change[c].withheld
        held(u) == change' = [change EXCEPT ![c].dropped = @ \ {t}, ![c].withheld = @ \cup u]
    IN  /\ change[c].pc = "reconsider"
        /\ t \in Unsettled(c)
        /\ Inputs[t] \cap Unsettled(c) = {}
        /\ \/ /\ held(IF t \in pool THEN {} ELSE {t})
              /\ UNCHANGED <<pool, moved, lifecycle>>
           \/ /\ Inputs[t] \cap (w \cup Replaced(t, pool)) = {}
              /\ t \notin pool
              /\ Supported(t, pool, utxo)
              /\ Final(t, applied)
              /\ held(Replaced(t, pool))
              /\ pool' = Inserted(t, pool)
              /\ moved' = Captured
              /\ orphans' = orphans \ {t}
              /\ ready' = (ready \cup Waiting({t})) \ {t}
              /\ UNCHANGED rejects
        /\ UNCHANGED <<gen, chainVars, closed, transition, job, claims, repriced>>

(* remove_for_reorg: residents the chain no longer supports go, with their *)
(* descendants.                                                            *)
Swept(p) == p \ Family({t \in p : ~Supported(t, p, utxo) \/ ~Final(t, applied)}, p)

RemoveForReorg(c) ==
    /\ \/ change[c].pc = "reconsider" /\ Unsettled(c) = {} /\ To(c, "trim")
       \/ change[c].pc = "sweep" /\ To(c, "finish")
    /\ PoolTo(Swept(pool))
    /\ UNCHANGED <<gen, lifecycle, chainVars, closed, transition, job, claims, repriced>>

(* Expiry, then the plan of the size trim under the pool's read lock. *)
PlanTrim(c) ==
    /\ change[c].pc = "trim"
    /\ \E q \in SUBSET pool :
         /\ Closed(pool \ q, pool)
         /\ PoolTo(q)
         /\ To(c, IF Cardinality(q) <= PoolLimit THEN "finish" ELSE "trimming")
    /\ UNCHANGED <<gen, lifecycle, chainVars, closed, transition, job, claims, repriced>>

(* A plan made stale by a fee change fails the settlement. *)
CommitTrim(c) ==
    /\ change[c].pc = "trimming"
    /\ \/ /\ c \notin repriced
          /\ \E q \in Trimmed(pool) : PoolTo(q)
          /\ To(c, "finish")
          /\ UNCHANGED <<closed, repriced>>
       \/ /\ c \in repriced
          /\ FailClosed(c, "finish")
          /\ repriced' = repriced \ {c}
          /\ UNCHANGED <<pool, moved>>
    /\ UNCHANGED <<gen, lifecycle, chainVars, transition, job, claims>>

(* Snapshot import: refused over a populated pool or for a bad snapshot.   *)
CheckSnapshot(c) ==
    /\ change[c].pc = "planned"
    /\ change[c].kind = "snapshot"
    /\ \E pc \in IF pool = {} THEN {"wait", "finish"} ELSE {"finish"} : To(c, pc)
    /\ UNCHANGED <<gen, pool, lifecycle, chainVars, closed, transition, job, claims,
                   moved, repriced>>

(* install_snapshot replaces the coins and the tip while it has the        *)
(* transition; a base with no more work is refused, and one that cannot be *)
(* recorded closes the latch.                                              *)
InstallSnapshot(c) ==
    LET b == change[c].target
        better == ~closed /\ base = Genesis /\ Height[b] > Height[applied]
    IN  /\ change[c].pc = "wait"
        /\ change[c].kind = "snapshot"
        /\ transition = NoOne
        /\ \/ /\ ~better
              /\ change' = [change EXCEPT ![c].pc = "finish", ![c].fatal = closed]
              /\ UNCHANGED <<chainVars, closed>>
           \/ /\ better
              /\ utxo' = b /\ applied' = b /\ base' = b
              /\ To(c, "imported")
              /\ UNCHANGED closed
           \/ /\ FailClosed(c, "finish")
              /\ UNCHANGED chainVars
        /\ UNCHANGED <<gen, pool, lifecycle, transition, job, claims, moved, repriced>>

(* on_snapshot wakes every orphan. *)
SnapshotChanged(c) ==
    /\ change[c].pc = "imported"
    /\ rejects' = {}
    /\ ready' = orphans
    /\ To(c, "finish")
    /\ UNCHANGED <<gen, pool, orphans, chainVars, closed, transition, job, claims, moved, repriced>>

(* finish reopens admission; a change that failed closed drops its guard,  *)
(* which leaves the generation odd.                                        *)
Finish(c) ==
    /\ change[c].pc = "finish"
    /\ gen' = IF change[c].fatal THEN gen ELSE gen + 1
    /\ change' = [change EXCEPT ![c] = [pc |-> "release"]]
    /\ UNCHANGED <<pool, lifecycle, chainVars, closed, transition, job, claims, moved, repriced>>

Release(c) ==
    /\ change[c].pc = "release"
    /\ Free(c)
    /\ change' = [change EXCEPT ![c] = NoChange]
    /\ UNCHANGED <<gen, pool, lifecycle, chainVars, closed, job, claims, moved, repriced>>

-----------------------------------------------------------------------------
Init ==
    /\ gen = 0
    /\ pool = {} /\ orphans = {} /\ ready = {} /\ rejects = {}
    /\ applied \in Block /\ utxo = applied /\ base = Genesis
    /\ closed = FALSE
    /\ transition = NoOne
    /\ change = [c \in Changer |-> NoChange]
    /\ job = [j \in Job |-> NoJob]
    /\ claims = {} /\ moved = {} /\ repriced = {}

(* Steps a running submission goes on to take. *)
JobStep(j) ==
    \/ Capture(j)
    \/ ReadTip(j)
    \/ ReadCoins(j)
    \/ AlreadyConfirmed(j)
    \/ Prepare(j)
    \/ Commit(j)

(* Steps a running chain change goes on to take. *)
ChangeStep(c) ==
    \/ BeginWindow(c)
    \/ PlanBranch(c)
    \/ LockBranch(c)
    \/ CommitWindow(c)
    \/ DisconnectBlock(c)
    \/ ConnectBlock(c)
    \/ PublishTip(c)
    \/ RemoveForBlock(c)
    \/ NotifyConnect(c)
    \/ NotifyDisconnect(c)
    \/ EffectsDone(c)
    \/ StopWalk(c)
    \/ RestoreBranch(c)
    \/ Fatal(c)
    \/ Settle(c)
    \/ \E t \in Tx : Reconsider(c, t)
    \/ RemoveForReorg(c)
    \/ PlanTrim(c)
    \/ CommitTrim(c)
    \/ CheckSnapshot(c)
    \/ InstallSnapshot(c)
    \/ SnapshotChanged(c)
    \/ Finish(c)
    \/ Release(c)

RetryPass == TakeReady \/ \E t \in Tx : RetryOrphan(t)

Next ==
    \/ \E j \in Job, t \in Tx : Submit(j, t)
    \/ \E j \in Job : JobStep(j)
    \/ \E t \in Tx : Maintain(t)
    \/ RetryPass
    \/ Prioritise
    \/ \E c \in Changer : LockWindow(c)
    \/ \E c \in Changer, k \in Kind : BeginChange(c, k)
    \/ \E c \in Changer : ChangeStep(c)

Spec == Init /\ [][Next]_vars

-----------------------------------------------------------------------------
(* The labels of a submission and of a chain change. *)
JobPc == {"idle", "start", "captured", "tip", "read", "confirmed", "prepared"}

ChangePc == {"idle", "locked", "planned", "wait", "walk", "publish", "effects", "notify", "settle",
             "reconsider", "sweep", "trim", "trimming", "imported", "finish", "release"}

(* Changers that hold a guard of the generation. *)
Owns(c) == change[c].pc \notin {"idle", "locked", "release"}

(* Every variable has its type; an orphan queued for a retry is held, and  *)
(* the orphan pool keeps its quota (OrphanPool).                            *)
TypeOK ==
    /\ gen \in 0 .. MaxGen
    /\ pool \subseteq Tx /\ Cardinality(orphans) <= OrphanQuota
    /\ orphans \subseteq Tx /\ ready \subseteq orphans /\ claims \subseteq Tx
    /\ rejects \subseteq Tx \X {"nonfinal", "policy"}
    /\ {utxo, applied, base} \subseteq Block
    /\ closed \in BOOLEAN
    /\ transition \in Changer \cup {NoOne}
    /\ moved \subseteq Job /\ repriced \subseteq Job \cup Changer
    /\ DOMAIN change = Changer /\ \A c \in Changer : change[c].pc \in ChangePc
    /\ DOMAIN job = Job /\ \A j \in Job : job[j].pc \in JobPc

(* While admission is open the pool follows the applied chain: every       *)
(* resident is supported by live coins and other residents, spends nothing *)
(* another resident spends, is not confirmed, may be mined in the next     *)
(* block, and the pool keeps its limit (check_admission_state,             *)
(* remove_for_block, remove_for_reorg).                                    *)
PoolFollowsChain ==
    Even(gen) =>
        /\ utxo = applied
        /\ \A t \in pool :
             /\ Supported(t, pool, applied)
             /\ t \notin Created(applied)
             /\ Final(t, applied)
             /\ \A u \in pool : ~Clash(t, u)
        /\ Cardinality(pool) <= PoolLimit

(* At most one change holds the generation, the generation is odd while it *)
(* does, and a generation left odd by nobody means that the chainstate is  *)
(* closed for recovery (begin_chain_change, ChainChangeGuard::finish).     *)
FenceIsOwned ==
    /\ \A c, d \in Changer : Owns(c) /\ Owns(d) => c = d
    /\ (\E c \in Changer : Owns(c)) => ~Even(gen)
    /\ ~Even(gen) => closed \/ \E c \in Changer : Owns(c)

(* A refusal that depends on the chain is forgotten when the chain moves:  *)
(* no peer transaction is turned away as not final once it is final        *)
(* (chain_changed, snapshot_changed, clear_rejects).                       *)
RefusalsAreCurrent ==
    Even(gen) => \A t \in Tx : <<t, "nonfinal">> \in rejects => ~Final(t, applied)

(* No wake-up is lost: while admission is open, an orphan whose inputs are *)
(* all there is queued for a retry, claimed by the running pass or being   *)
(* submitted (parent_ready, chain_changed, mark_ready).                    *)
NoOrphanForgotten ==
    Even(gen) =>
        \A t \in orphans :
            Supported(t, pool, applied) =>
                \/ t \in ready \cup claims
                \/ job[Ingress].pc # "idle" /\ job[Ingress].tx = t

(* A chain change never waits for one that waits for it: windows take the  *)
(* transition and then the generation, the other changes the generation    *)
(* and then the transition, and only the transition is waited for          *)
(* (commit_window, switch_to_branch, install_snapshot).                    *)
ChangesNeverDeadlock ==
    (\E c \in Changer : change[c].pc # "idle") => ENABLED \E c \in Changer : ChangeStep(c)
=============================================================================
