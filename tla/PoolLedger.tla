----------------------------- MODULE PoolLedger -----------------------------
(***************************************************************************)
(* The mining pool's accounting (crates/mining/src/pool/ledger and         *)
(* crates/node/src/pool).  Sessions record shares and the blocks they      *)
(* find; a block that cannot be recorded waits in a bounded queue that the *)
(* reconciliation worker drains.  The worker observes the chain outside    *)
(* any transaction and then moves rounds and payout batches in one, while  *)
(* the operator prepares, signs and cancels batches.                       *)
(*                                                                         *)
(* A write transaction of the store is atomic and excludes the others, so  *)
(* each action holds at most one.  Nothing holds the chain still: the tip  *)
(* may move between an observation and the transaction that uses it.       *)
(*                                                                         *)
(* Abstractions.  A share is identified by its header hash; a solving      *)
(* share by the hash of its block.  A batch is named by its idempotency    *)
(* key.  The revision of a batch is only ever compared with the one that   *)
(* was observed: plWork.touched holds the batches whose revision has moved *)
(* since.  The audit records, which no operation reads, are left out.      *)
(***************************************************************************)
EXTENDS BlockGraph, Sequences, FiniteSets

LOCAL INSTANCE FiniteSetsExt
LOCAL INSTANCE SequencesExt

CONSTANTS
    PlAccount,       \* miners with a payout script, numbers
    PlSession,       \* connections of the Stratum listener
    PlWorker,        \* the pool-reconcile thread
    PlShareOf,       \* account and work of every share, by hash
    PlKey,           \* idempotency keys of payout batches
    PlTx,            \* payout transactions a signer may return
    PlForeign,       \* transactions of others that spend the same coins
    PlSpends,        \* inputs of every transaction
    PlRoom,          \* bound: the blocks that may confirm any of them
    PlStarts,        \* first states
    PlNone,
    WindowWork,      \* window_work
    FeeBps,          \* pool_fee_bps
    Gross,           \* value of the coinbase outputs to the pool
    Maturity,        \* coinbase_maturity
    PayoutDepth,     \* payout_confirmations
    AbandonDepth,    \* abandon_confirmations; no reorganisation is as deep
    WatchDepth,      \* reorg_watch_depth
    MinPayout,
    MaxOutputs,
    PlSlots,         \* MAX_PENDING_BLOCK_RECORDS
    PlMaxFaults      \* bound: failing transactions

(* PoolConfig::validate, and the first states. *)
ASSUME PoolAssumption ==
    /\ PlAccount \subseteq Nat
    /\ {WindowWork, Maturity, PayoutDepth, AbandonDepth, MinPayout, MaxOutputs} \subseteq Nat \ {0}
    /\ FeeBps \in 0..10000 /\ Gross \in Nat
    /\ WatchDepth >= Maturity /\ WatchDepth >= PayoutDepth /\ WatchDepth >= AbandonDepth
    /\ PlRoom \subseteq Block /\ PlForeign \cap PlTx = {}
    /\ \A s \in PlStarts : s.tip \in Block /\ s.keys \subseteq PlKey

VARIABLES
    plStart,   \* the first state: what may happen from it
    plChain,   \* applied tip, block tree, bodies, greatest height so far
    plShares,  \* every share in order of its sequence number
    plPruned,  \* pruned_below, and the boundary a pruning call has read
    plRounds,  \* rounds by id
    plBal,     \* balances by account
    plBatch,   \* payout batches by key
    plPending, \* PendingBlockRecords: reserved slots and the queue
    plHold,    \* recovery state of each session's queued block
    plRec,     \* record_found_block as each thread runs it
    plSess,    \* what each session is doing
    plWork,    \* what the worker is doing and has observed
    plFaults

plVars == <<plStart, plChain, plShares, plPruned, plRounds, plBal, plBatch, plPending, plHold,
            plRec, plSess, plWork, plFaults>>
plStore == <<plShares, plPruned, plRounds, plBal, plBatch>>
plThreads == <<plPending, plHold, plRec, plSess>>

-----------------------------------------------------------------------------
(* The pay-per-last-N-shares window and the split of a reward *)

Work(shares, S) ==
    LET W(i) == shares[i].work
    IN  MapThenSumSet(W, S)

(* The part of share i that lies in the window ending at share end. *)
push_older(shares, end, i) ==
    LET newer == Work(shares, (i + 1)..end)
    IN  IF newer >= WindowWork THEN 0 ELSE Min({shares[i].work, WindowWork - newer})

WindowOf(shares, from, end) ==
    [a \in PlAccount |->
        LET Taken(i) == push_older(shares, end, i)
        IN  MapThenSumSet(Taken, {i \in from..end : shares[i].account = a})]

(* Some of the window ending at share end has been pruned. *)
WindowPruned(end) ==
    \/ end <= plPruned.below
    \/ plPruned.below > 0 /\ Work(plShares, (plPruned.below + 1)..end) < WindowWork

collect_window(end) == WindowOf(plShares, plPruned.below + 1, end)

SumOf(f) ==
    LET At(a) == f[a]
    IN  MapThenSumSet(At, DOMAIN f)

split_pool_fee == (Gross * FeeBps) \div 10000

(* Floors first; what is left goes to the largest remainders, one unit each, *)
(* and among equal ones to the smaller account.                              *)
split_reward(net, weights) ==
    LET total == SumOf(weights)
        paid == {a \in PlAccount : weights[a] > 0}
        part == [a \in PlAccount |-> (net * weights[a]) \div total]
        rem == [a \in PlAccount |-> (net * weights[a]) % total]
        Ahead(a) == {b \in paid : rem[b] > rem[a] \/ (rem[b] = rem[a] /\ b < a)}
        residual == net - SumOf(part)
    IN  [a \in PlAccount |->
            part[a] + (IF a \in paid /\ Cardinality(Ahead(a)) < residual THEN 1 ELSE 0)]

-----------------------------------------------------------------------------
(* Balances *)

NoBalance == [available |-> 0, reserved |-> 0, paid |-> 0, deficit |-> 0]

(* Money that becomes available pays off the deficit first. *)
Gain(b, amount) ==
    LET offset == Min({b.deficit, amount})
    IN  [b EXCEPT !.deficit = @ - offset, !.available = @ + (amount - offset)]

credit_round_allocations(bal, alloc) == [a \in PlAccount |-> Gain(bal[a], alloc[a])]

reverse_round_credits(bal, alloc) ==
    [a \in PlAccount |->
        LET take == Min({bal[a].available, alloc[a]})
        IN  [bal[a] EXCEPT !.available = @ - take, !.deficit = @ + (alloc[a] - take)]]

settle_paid(bal, outputs) ==
    [a \in PlAccount |-> [bal[a] EXCEPT !.reserved = @ - outputs[a], !.paid = @ + outputs[a]]]

unsettle_paid(bal, outputs) ==
    [a \in PlAccount |-> [bal[a] EXCEPT !.paid = @ - outputs[a], !.reserved = @ + outputs[a]]]

release_reservation(bal, outputs) ==
    [a \in PlAccount |-> Gain([bal[a] EXCEPT !.reserved = @ - outputs[a]], outputs[a])]

reserve(bal, outputs) ==
    [a \in PlAccount |->
        [bal[a] EXCEPT !.available = @ - outputs[a], !.reserved = @ + outputs[a]]]

NoAmount == [a \in PlAccount |-> 0]

-----------------------------------------------------------------------------
(* The chain, as NodeChainView shows it *)

Canonical(b) == b \in Ancestors[plChain.tip]

PlTip == Height[plChain.tip]

confirmations(tip, height) == IF tip < height THEN 0 ELSE tip - height + 1

Depth(b) == confirmations(PlTip, Height[b])

block_location(b) ==
    IF Canonical(b) THEN "canonical" ELSE IF b \in plChain.tree THEN "displaced" ELSE "unknown"

OnChain(b) == UNION {plChain.body[c] : c \in Ancestors[b]}

(* The canonical blocks that hold a transaction. *)
BlocksOf(x) == {b \in Ancestors[plChain.tip] : x \in plChain.body[b]}

(* What a block on b may confirm: transactions that have been published and  *)
(* that no other one of the block or of its chain conflicts with.            *)
Bodies(b) ==
    LET known == PlForeign \cup UNION {plBatch[k].txs : k \in PlKey}
        Conflict(x, y) == x # y /\ PlSpends[x] \cap PlSpends[y] # {}
    IN  {s \in SUBSET (known \ OnChain(b)) :
            \A x \in s : \A y \in s \cup OnChain(b) : ~Conflict(x, y)}

(* A reconciliation that has begun will see that the tip has moved. *)
TipMoves == plWork' = [plWork EXCEPT !.moved = @ \/ plWork.pc \in {"rounds", "pay", "settle"}]

(* The applied tip moves up by a block; a block's body is fixed once seen. *)
Connect ==
    /\ \E b \in Children(plChain.tip) \cap plStart.blocks :
        \E s \in IF b \in PlRoom \ plChain.seen THEN Bodies(plChain.tip) ELSE {plChain.body[b]} :
            plChain' = [plChain EXCEPT !.tip = b, !.tree = @ \cup {b}, !.seen = @ \cup {b},
                                       !.body[b] = s, !.high = Max({@, Height[b]})]
    /\ TipMoves
    /\ UNCHANGED <<plStart, plStore, plThreads, plFaults>>

(* A reorganisation takes a block off that was never AbandonDepth deep. *)
Disconnect ==
    /\ plChain.tip \in plStart.blocks
    /\ confirmations(plChain.high, PlTip) < AbandonDepth
    /\ plChain' = [plChain EXCEPT !.tip = Parent[@]]
    /\ TipMoves
    /\ UNCHANGED <<plStart, plStore, plThreads, plFaults>>

-----------------------------------------------------------------------------
(* Shares *)

ShareAt(h) == {i \in DOMAIN plShares : plShares[i].hash = h}

Share(h) == [hash |-> h, account |-> PlShareOf[h].account, work |-> PlShareOf[h].work]

(* credit_share: a hash that has its share gets no second one. *)
CreditShare(h) == IF ShareAt(h) # {} THEN plShares ELSE Append(plShares, Share(h))

record_share ==
    /\ \E h \in plStart.shares : ShareAt(h) = {} /\ plShares' = CreditShare(h)
    /\ UNCHANGED <<plStart, plChain, plPruned, plRounds, plBal, plBatch, plThreads, plWork, plFaults>>

(* The oldest share that must be kept, read before the rows are removed. *)
prune_boundary ==
    /\ plStart.prunes
    /\ LET full == {i \in (plPruned.below + 1)..Len(plShares) :
                        Work(plShares, i..Len(plShares)) >= WindowWork}
       IN  /\ full # {}
           /\ plPruned' = [plPruned EXCEPT !.boundary = Max(full)]
    /\ UNCHANGED <<plStart, plChain, plShares, plRounds, plBal, plBatch, plThreads, plWork, plFaults>>

prune_batch ==
    /\ plPruned.boundary > plPruned.below + 1
    /\ plPruned' = [below |-> plPruned.boundary - 1, boundary |-> 0]
    /\ UNCHANGED <<plStart, plChain, plShares, plRounds, plBal, plBatch, plThreads, plWork, plFaults>>

-----------------------------------------------------------------------------
(* record_found_block: three transactions, for the thread t *)

NoRecord == [step |-> "none", block |-> Genesis, seq |-> 0, weights |-> NoAmount]

round_for_block(b) == {i \in DOMAIN plRounds : plRounds[i].block = b}

Recorded(b) == round_for_block(b) # {}

AtRec(t, step) == plRec[t].step = step

Begins(t, b) == plRec' = [plRec EXCEPT ![t] = [NoRecord EXCEPT !.step = "credit", !.block = b]]

RecStep(t, step) == plRec' = [plRec EXCEPT ![t].step = step]

RecordFrame == UNCHANGED <<plStart, plChain, plBal, plBatch, plPending, plHold, plSess, plWork>>

credit_solving_share(t) ==
    LET b == plRec[t].block
    IN  /\ AtRec(t, "credit")
        /\ IF Recorded(b)
           THEN RecStep(t, "ok") /\ UNCHANGED plShares
           ELSE /\ plShares' = CreditShare(b)
                /\ plRec' = [plRec EXCEPT ![t].step = "window",
                                          ![t].seq = CHOOSE i \in DOMAIN plShares' :
                                                        plShares'[i].hash = b]
        /\ UNCHANGED <<plPruned, plRounds, plFaults>>
        /\ RecordFrame

solving_window(t) ==
    /\ AtRec(t, "window")
    /\ IF WindowPruned(plRec[t].seq)
       THEN RecStep(t, "err")
       ELSE plRec' = [plRec EXCEPT ![t].step = "store",
                                   ![t].weights = collect_window(plRec[t].seq)]
    /\ UNCHANGED <<plShares, plPruned, plRounds, plFaults>>
    /\ RecordFrame

Round(t) ==
    [block |-> plRec[t].block, seq |-> plRec[t].seq, weights |-> plRec[t].weights,
     fixed |-> FALSE, net |-> 0, alloc |-> NoAmount, state |-> "pending", open |-> TRUE]

store_found_round(t) ==
    /\ AtRec(t, "store")
    /\ \/ Recorded(plRec[t].block) /\ RecStep(t, "ok") /\ UNCHANGED plRounds
       \/ /\ ~Recorded(plRec[t].block)
          /\ plRec[t].seq <= plPruned.below
          /\ RecStep(t, "err") /\ UNCHANGED plRounds
       \/ /\ ~Recorded(plRec[t].block)
          /\ plRec[t].seq > plPruned.below
          /\ plRounds' = Append(plRounds, Round(t))
          /\ RecStep(t, "ok")
    /\ UNCHANGED <<plShares, plPruned, plFaults>>
    /\ RecordFrame

(* A transaction fails and leaves nothing, or its commit lands and the reply *)
(* is an error; a store that is down fails the next read as well.            *)
CommitFails(t) ==
    LET b == plRec[t].block
    IN  /\ plRec[t].step \in {"credit", "window", "store"}
        /\ plFaults < PlMaxFaults
        /\ plFaults' = plFaults + 1
        /\ RecStep(t, "err") \/ RecStep(t, "down")
        /\ \/ UNCHANGED <<plShares, plRounds>>
           \/ /\ AtRec(t, "credit") /\ ~Recorded(b)
              /\ plShares' = CreditShare(b)
              /\ UNCHANGED plRounds
           \/ /\ AtRec(t, "store") /\ ~Recorded(b) /\ plRec[t].seq > plPruned.below
              /\ plRounds' = Append(plRounds, Round(t))
              /\ UNCHANGED plShares
        /\ UNCHANGED plPruned
        /\ RecordFrame

-----------------------------------------------------------------------------
(* A connection and the slot of its found block *)

AtSess(c, pc) == plSess[c].pc = pc

Found(c) == plStart.finds[c]

SessFrame == UNCHANGED <<plStart, plChain, plStore, plWork, plFaults>>

Released(pending) == [pending EXCEPT !.reserved = @ - 1]

try_reserve_block_slot(c) ==
    /\ AtSess(c, "idle")
    /\ Found(c) # PlNone
    /\ plPending.reserved < PlSlots
    /\ plPending' = [plPending EXCEPT !.reserved = @ + 1]
    /\ plSess' = [plSess EXCEPT ![c].pc = "held"]
    /\ UNCHANGED <<plHold, plRec>>
    /\ SessFrame

(* The turn found no block: the permit is dropped. *)
TurnEnds(c) ==
    /\ AtSess(c, "held")
    /\ plPending' = Released(plPending)
    /\ plSess' = [plSess EXCEPT ![c].pc = "idle"]
    /\ UNCHANGED <<plHold, plRec>>
    /\ SessFrame

(* A block applied by its own submission has been on the chain. *)
Submissions(c) ==
    {"undetermined", "rejected"} \cup (IF Found(c) \in plChain.seen THEN {"applied"} ELSE {})

handle_block_found(c) ==
    /\ AtSess(c, "held")
    /\ \E v \in Submissions(c) :
        plSess' = [plSess EXCEPT ![c] = [pc |-> "recording", verdict |-> v, charge |-> "none"]]
    /\ Begins(c, Found(c))
    /\ UNCHANGED <<plPending, plHold>>
    /\ SessFrame

(* record_or_enqueue, the block being recorded: an undetermined submission   *)
(* keeps its slot until it is settled.                                       *)
RecordedDirectly(c) ==
    /\ AtSess(c, "recording")
    /\ AtRec(c, "ok") \/ (AtRec(c, "err") /\ Recorded(Found(c)))
    /\ IF plSess[c].verdict = "undetermined"
       THEN /\ plSess' = [plSess EXCEPT ![c].pc = "deferred", ![c].charge = "permit"]
            /\ UNCHANGED plPending
       ELSE /\ plSess' = [plSess EXCEPT ![c].pc = "over"]
            /\ plPending' = Released(plPending)
    /\ plRec' = [plRec EXCEPT ![c] = NoRecord]
    /\ UNCHANGED plHold
    /\ SessFrame

(* Its slot moves into the queue with it. *)
Enqueue(c) ==
    /\ AtSess(c, "recording")
    /\ AtRec(c, "down") \/ (AtRec(c, "err") /\ ~Recorded(Found(c)))
    /\ IF plSess[c].verdict = "rejected"
       THEN /\ plPending' = [plPending EXCEPT !.queue =
                                Append(@, [block |-> Found(c), recovery |-> PlNone])]
            /\ plSess' = [plSess EXCEPT ![c].pc = "over"]
            /\ UNCHANGED plHold
       ELSE /\ plPending' = [plPending EXCEPT !.queue =
                                Append(@, [block |-> Found(c), recovery |-> c])]
            /\ plHold' = [plHold EXCEPT ![c] = "alive"]
            /\ plSess' = [plSess EXCEPT ![c].pc = "deferred", ![c].charge = "queued"]
    /\ plRec' = [plRec EXCEPT ![c] = NoRecord]
    /\ SessFrame

(* Dropping what a deferred block is charged to.  A queued block's hold      *)
(* leaves the slot to the worker, or takes over the one the worker left.     *)
DropCharge(c) ==
    \/ /\ plSess[c].charge = "permit"
       /\ plPending' = Released(plPending)
       /\ plSess' = [plSess EXCEPT ![c].pc = "over", ![c].charge = "none"]
       /\ UNCHANGED plHold
    \/ /\ plSess[c].charge = "queued" /\ plHold[c] = "alive"
       /\ plHold' = [plHold EXCEPT ![c] = "gone"]
       /\ plSess' = [plSess EXCEPT ![c].pc = "over", ![c].charge = "none"]
       /\ UNCHANGED plPending
    \/ /\ plSess[c].charge = "queued" /\ plHold[c] = "owns"
       /\ plHold' = [plHold EXCEPT ![c] = "released"]
       /\ plSess' = [plSess EXCEPT ![c].pc = "releasing", ![c].charge = "none"]
       /\ UNCHANGED plPending

(* ... and gives it back under the lock. *)
ReleaseHold(c) ==
    /\ AtSess(c, "releasing")
    /\ plPending' = Released(plPending)
    /\ plSess' = [plSess EXCEPT ![c].pc = "over"]
    /\ UNCHANGED <<plHold, plRec>>
    /\ SessFrame

(* A recorded block that is applied is confirmed; an undetermined one is     *)
(* submitted again, and dropped when it is refused.                          *)
settle_one_deferred(c) ==
    /\ AtSess(c, "deferred")
    /\ Recorded(Found(c))
    /\ \/ DropCharge(c)
       \/ /\ plSess[c].verdict = "undetermined" /\ "applied" \in Submissions(c)
          /\ plSess' = [plSess EXCEPT ![c].verdict = "applied"]
          /\ UNCHANGED <<plPending, plHold>>
    /\ UNCHANGED plRec
    /\ SessFrame

(* The connection ends with what it has deferred. *)
ConnectionEnds(c) ==
    /\ AtSess(c, "deferred")
    /\ DropCharge(c)
    /\ UNCHANGED plRec
    /\ SessFrame

-----------------------------------------------------------------------------
(* The worker: drain_one_block_record until the queue is empty or fails *)

AtWork(pc) == plWork.pc = pc

Goes(pc) == plWork' = [plWork EXCEPT !.pc = pc]

FirstPending == Head(plPending.queue)

DrainFrame == UNCHANGED <<plStart, plChain, plStore, plFaults>>

(* The front of the queue is looked at, not taken. *)
PeekBlockRecord ==
    /\ AtWork("drain")
    /\ plPending.queue # <<>>
    /\ IF Recorded(FirstPending.block)
       THEN plRec' = [plRec EXCEPT ![PlWorker] = [NoRecord EXCEPT !.step = "ok", !.block = FirstPending.block]]
       ELSE Begins(PlWorker, FirstPending.block)
    /\ Goes("recording")
    /\ UNCHANGED <<plPending, plHold, plSess>>
    /\ DrainFrame

(* It is recorded and leaves the queue.  A connection that still holds on to *)
(* it keeps the slot; otherwise the slot is free.                            *)
PopBlockRecord ==
    /\ AtWork("recording") /\ AtRec(PlWorker, "ok")
    /\ LET popped == [plPending EXCEPT !.queue = Tail(@)]
           c == FirstPending.recovery
       IN  \/ /\ c = PlNone
              /\ plPending' = Released(popped)
              /\ UNCHANGED plHold
           \/ /\ c # PlNone /\ plHold[c] = "alive"
              /\ plPending' = popped
              /\ plHold' = [plHold EXCEPT ![c] = "owns"]
           \/ /\ c # PlNone /\ plHold[c] = "gone"
              /\ plPending' = Released(popped)
              /\ plHold' = [plHold EXCEPT ![c] = "released"]
    /\ plRec' = [plRec EXCEPT ![PlWorker] = NoRecord]
    /\ Goes("drain")
    /\ UNCHANGED plSess
    /\ DrainFrame

(* The queue is empty, or its front cannot be recorded now. *)
DrainStops ==
    /\ \/ AtWork("drain") /\ plPending.queue = <<>>
       \/ AtWork("recording") /\ plRec[PlWorker].step \in {"err", "down"}
    /\ plRec' = [plRec EXCEPT ![PlWorker] = NoRecord]
    /\ Goes("observe")
    /\ UNCHANGED <<plPending, plHold, plSess>>
    /\ DrainFrame

-----------------------------------------------------------------------------
(* Rounds *)

WorkFrame == UNCHANGED <<plStart, plChain, plShares, plPruned, plThreads, plFaults>>

OpenRounds == {i \in DOMAIN plRounds : plRounds[i].open}

(* The chain is asked about every open round, and for the coinbase of one    *)
(* whose reward is not fixed; the body that holds it may be missing.         *)
ObserveRounds ==
    /\ AtWork("observe")
    /\ \E missing \in SUBSET {i \in OpenRounds : ~plRounds[i].fixed /\ Canonical(plRounds[i].block)} :
        plWork' = [plWork EXCEPT !.pc = "rounds", !.moved = FALSE, !.tip = PlTip,
                      !.rounds = [i \in OpenRounds |->
                            IF i \in missing THEN "bodyless" ELSE block_location(plRounds[i].block)]]
    /\ UNCHANGED <<plRounds, plBal, plBatch>>
    /\ WorkFrame

fix_reward(r) ==
    LET net == Gross - split_pool_fee
    IN  IF r.fixed THEN r
        ELSE [r EXCEPT !.fixed = TRUE, !.net = net, !.alloc = split_reward(net, r.weights)]

(* The round and the balances after apply_round_state. *)
apply_round_state(s, i, canon, depth) ==
    LET r == s.rounds[i]
        f == fix_reward(r)
        Becomes(round, bal) == [rounds |-> [s.rounds EXCEPT ![i] = round], bal |-> bal]
    IN  IF r.state = "matured" /\ canon = "displaced"
        THEN Becomes([r EXCEPT !.state = "orphaned"], reverse_round_credits(s.bal, r.alloc))
        ELSE IF r.state = "matured" /\ canon = "canonical"
        THEN IF depth < Maturity
             THEN Becomes([r EXCEPT !.state = "immature"], reverse_round_credits(s.bal, r.alloc))
             ELSE s
        ELSE IF canon = "displaced" THEN Becomes([r EXCEPT !.state = "orphaned"], s.bal)
        ELSE IF canon = "canonical"
        THEN IF depth >= Maturity
             THEN Becomes([f EXCEPT !.state = "matured"], credit_round_allocations(s.bal, f.alloc))
             ELSE Becomes([f EXCEPT !.state = "immature"], s.bal)
        ELSE s

(* A round deep enough below the tip is settled and no longer watched. *)
apply_round_observation(s, i) ==
    LET canon == plWork.rounds[i]
        height == Height[s.rounds[i].block]
        t == apply_round_state(s, i, canon, confirmations(plWork.tip, height))
        settled == plWork.tip >= height + WatchDepth /\ (canon # "canonical" \/ t.rounds[i].fixed)
    IN  IF canon = "bodyless" THEN s
        ELSE IF ~settled THEN t
        ELSE [t EXCEPT !.rounds[i].open = FALSE,
                       !.rounds[i].state = IF @ \in {"pending", "immature"} THEN "orphaned" ELSE @]

(* One transaction for all of them, given up when the tip has moved since. *)
reconcile_rounds_checked_limit ==
    /\ AtWork("rounds")
    /\ LET ids == IF plWork.moved THEN <<>> ELSE SetToSortSeq(DOMAIN plWork.rounds, <)
           s == FoldLeft(apply_round_observation, [rounds |-> plRounds, bal |-> plBal], ids)
       IN  /\ plRounds' = s.rounds
           /\ plBal' = s.bal
    /\ plWork' = [plWork EXCEPT !.pc = "pay", !.rounds = <<>>]
    /\ UNCHANGED plBatch
    /\ WorkFrame

-----------------------------------------------------------------------------
(* Payout batches *)

NoBatch == [state |-> "none", outputs |-> NoAmount, txs |-> {}, confirmation |-> PlNone,
            active |-> FALSE]

holds_reservation(b) == b.state \in {"prepared", "externally_signed", "broadcast"}

state_is_observable(b) == b.state \in {"externally_signed", "broadcast", "confirmed"}

OperatorFrame ==
    UNCHANGED <<plStart, plChain, plShares, plPruned, plRounds, plThreads, plFaults>>

(* The revision of batch k moves on. *)
next_rev(k) == plWork' = [plWork EXCEPT !.touched = @ \cup ({k} \cap DOMAIN plWork.batches)]

(* Whoever has enough to be paid, in order of account, up to max_outputs. *)
select_payout_outputs ==
    LET ready == {a \in PlAccount : plBal[a].available >= MinPayout}
        picks == {a \in ready : Cardinality({b \in ready : b < a}) < MaxOutputs}
    IN  [a \in PlAccount |-> IF a \in picks THEN plBal[a].available ELSE 0]

(* A known key returns its batch; a new one reserves what it selects. *)
prepare_payout_batch(k) ==
    /\ k \in plStart.keys
    /\ plBatch[k] = NoBatch
    /\ select_payout_outputs # NoAmount
    /\ plBal' = reserve(plBal, select_payout_outputs)
    /\ plBatch' = [plBatch EXCEPT ![k] = [NoBatch EXCEPT !.state = "prepared",
                                            !.outputs = select_payout_outputs, !.active = TRUE]]
    /\ next_rev(k)
    /\ OperatorFrame

(* A signed transaction of no batch yet, that conflicts with every earlier   *)
(* one of its own batch.                                                     *)
record_signed(k) ==
    /\ holds_reservation(plBatch[k])
    /\ \E x \in PlTx :
        /\ \A other \in PlKey : x \notin plBatch[other].txs
        /\ \A y \in plBatch[k].txs : PlSpends[x] \cap PlSpends[y] # {}
        /\ plBatch' = [plBatch EXCEPT ![k].txs = @ \cup {x},
                            ![k].state = IF @ = "prepared" THEN "externally_signed" ELSE @]
    /\ next_rev(k)
    /\ UNCHANGED plBal
    /\ OperatorFrame

(* Some signed transaction has been seen in the pool or on the chain: the    *)
(* first one, or another than the one on record.                             *)
record_broadcast(k) ==
    /\ \/ plBatch[k].state = "externally_signed"
       \/ plBatch[k].state = "broadcast" /\ Cardinality(plBatch[k].txs) > 1
    /\ plBatch' = [plBatch EXCEPT ![k].state = "broadcast"]
    /\ next_rev(k)
    /\ UNCHANGED plBal
    /\ OperatorFrame

cancel_prepared(k) ==
    /\ plBatch[k].state = "prepared"
    /\ plBal' = release_reservation(plBal, plBatch[k].outputs)
    /\ plBatch' = [plBatch EXCEPT ![k].state = "cancelled", ![k].active = FALSE]
    /\ next_rev(k)
    /\ OperatorFrame

(* The transaction spends a coin that a stranger's, AbandonDepth deep in the *)
(* chain, has spent.                                                         *)
DeadSpend(txs, x) ==
    \E b \in Ancestors[plChain.tip] :
        /\ Depth(b) >= AbandonDepth
        /\ \E y \in plChain.body[b] \ txs : PlSpends[x] \cap PlSpends[y] # {}

(* What the chain shows of a batch; the indexes it is read from may lag. *)
observe_batch(b, lag) ==
    LET confirmed == {[tx |-> x, block |-> c] : x \in b.txs, c \in plChain.seen}
        canonical == {p \in confirmed : p.block \in BlocksOf(p.tx)}
        enough == {p \in canonical : Depth(p.block) >= PayoutDepth}
        Here(x) == \E p \in canonical : p.tx = x
    IN  [txs |-> b.txs,
         enough |-> IF lag THEN {} ELSE enough,
         dead |-> IF lag \/ enough # {} THEN {}
                  ELSE {x \in b.txs : ~Here(x) /\ DeadSpend(b.txs, x)}]

ObservePayouts ==
    /\ AtWork("pay")
    /\ \E lag \in BOOLEAN :
        plWork' = [plWork EXCEPT !.pc = "settle", !.touched = {}, !.tip = PlTip,
                      !.batches = [k \in {j \in PlKey : plBatch[j].active
                                                         /\ state_is_observable(plBatch[j])} |->
                                        observe_batch(plBatch[k], lag)]]
    /\ UNCHANGED <<plRounds, plBal, plBatch>>
    /\ WorkFrame

decide(b, o) ==
    IF b.state = "confirmed"
    THEN IF b.confirmation \in o.enough THEN "none"
         ELSE IF o.enough # {} THEN "reconfirm" ELSE "revert"
    ELSE IF o.enough # {} THEN "confirm"
    ELSE IF o.txs # {} /\ o.txs = o.dead THEN "fail" ELSE "none"

(* The batch and the balances after the decision. *)
apply_batch_decision(b, o, bal) ==
    LET d == decide(b, o)
        seen == CHOOSE p \in o.enough : TRUE
        Confirmed == [b EXCEPT !.state = "confirmed", !.confirmation = seen]
    IN  IF d = "confirm" THEN [batch |-> Confirmed, bal |-> settle_paid(bal, b.outputs)]
        ELSE IF d = "reconfirm" THEN [batch |-> Confirmed, bal |-> bal]
        ELSE IF d = "revert"
        THEN [batch |-> [b EXCEPT !.state = "broadcast", !.confirmation = PlNone],
              bal |-> unsettle_paid(bal, b.outputs)]
        ELSE IF d = "fail"
        THEN [batch |-> [b EXCEPT !.state = "failed", !.active = FALSE],
              bal |-> release_reservation(bal, b.outputs)]
        ELSE [batch |-> b, bal |-> bal]

(* A payment deep enough below the tip is no longer watched. *)
Unwatched(b) ==
    IF b.state = "confirmed" /\ plWork.tip >= Height[b.confirmation.block] + WatchDepth
    THEN [b EXCEPT !.active = FALSE] ELSE b

SettleBatch(s, k) ==
    LET d == apply_batch_decision(s.batch[k], plWork.batches[k], s.bal)
    IN  [batch |-> [s.batch EXCEPT ![k] = Unwatched(d.batch)], bal |-> d.bal]

Settles(keys) ==
    /\ LET s == FoldLeft(SettleBatch, [batch |-> plBatch, bal |-> plBal], SetToSeq(keys))
       IN  /\ plBatch' = s.batch
           /\ plBal' = s.bal
    /\ plWork' = [plWork EXCEPT !.pc = "drain", !.batches = <<>>, !.touched = {},
                                !.tip = 0, !.moved = FALSE]
    /\ UNCHANGED plRounds
    /\ WorkFrame

(* Mutant: the revision is not compared. *)
SettleAnyRevision ==
    /\ AtWork("settle")
    /\ Settles(IF plWork.moved THEN {} ELSE DOMAIN plWork.batches)

(* The observations whose batch has not moved on since, in one transaction,  *)
(* given up when the tip has moved.                                          *)
settle_observations ==
    /\ AtWork("settle")
    /\ Settles(IF plWork.moved THEN {} ELSE DOMAIN plWork.batches \ plWork.touched)

-----------------------------------------------------------------------------
(* The specification *)

FirstRound(table, b) ==
    LET seq == CHOOSE i \in DOMAIN table : table[i].hash = b
    IN  [block |-> b, seq |-> seq, weights |-> WindowOf(table, 1, seq), fixed |-> FALSE, net |-> 0,
         alloc |-> NoAmount, state |-> "pending", open |-> TRUE]

PoolInit ==
    /\ plStart \in PlStarts
    /\ plChain = [tip |-> plStart.tip, tree |-> Ancestors[plStart.tip] \cup plStart.headers,
                  seen |-> Ancestors[plStart.tip], body |-> [b \in Block |-> {}],
                  high |-> Height[plStart.tip]]
    /\ plShares = [i \in DOMAIN plStart.table |-> Share(plStart.table[i])]
    /\ plPruned = [below |-> 0, boundary |-> 0]
    /\ plRounds = [i \in DOMAIN plStart.won |-> FirstRound(plShares, plStart.won[i])]
    /\ plBal = [a \in PlAccount |-> NoBalance]
    /\ plBatch = [k \in PlKey |-> NoBatch]
    /\ plPending = [reserved |-> 0, queue |-> <<>>]
    /\ plHold = [c \in PlSession |-> "none"]
    /\ plRec = [t \in PlSession \cup {PlWorker} |-> NoRecord]
    /\ plSess = [c \in PlSession |-> [pc |-> "idle", verdict |-> "none", charge |-> "none"]]
    /\ plWork = [pc |-> "drain", moved |-> FALSE, tip |-> 0, rounds |-> <<>>, batches |-> <<>>,
                 touched |-> {}]
    /\ plFaults = 0

RecordStep(t) ==
    credit_solving_share(t) \/ solving_window(t) \/ store_found_round(t) \/ CommitFails(t)

SessionStep(c) ==
    \/ try_reserve_block_slot(c) \/ TurnEnds(c) \/ handle_block_found(c)
    \/ RecordedDirectly(c) \/ Enqueue(c) \/ settle_one_deferred(c)
    \/ ConnectionEnds(c) \/ ReleaseHold(c)

OperatorStep(k) ==
    prepare_payout_batch(k) \/ record_signed(k) \/ record_broadcast(k) \/ cancel_prepared(k)

WorkerStep ==
    \/ PeekBlockRecord \/ PopBlockRecord \/ DrainStops
    \/ ObserveRounds \/ reconcile_rounds_checked_limit
    \/ ObservePayouts \/ settle_observations

PoolNext ==
    \/ Connect \/ Disconnect
    \/ record_share \/ prune_boundary \/ prune_batch
    \/ \E t \in PlSession \cup {PlWorker} : RecordStep(t)
    \/ \E c \in PlSession : SessionStep(c)
    \/ \E k \in PlKey : OperatorStep(k)
    \/ WorkerStep

PoolSpec == PoolInit /\ [][PoolNext]_plVars

-----------------------------------------------------------------------------
(* Properties *)

(* The pool's state has its type, and no amount is negative. *)
PoolTypeOK ==
    /\ plChain.tip \in plChain.seen /\ plChain.seen \subseteq plChain.tree
    /\ plPruned.below \in 0..Len(plShares)
    /\ \A i \in DOMAIN plRounds :
        plRounds[i].state \in {"pending", "immature", "matured", "orphaned"}
    /\ plBal \in [PlAccount -> [available : Nat, reserved : Nat, paid : Nat, deficit : Nat]]
    /\ \A k \in PlKey : plBatch[k].state \in {"none", "prepared", "externally_signed", "broadcast",
                                              "confirmed", "cancelled", "failed"}
    /\ plHold \in [PlSession -> {"none", "alive", "gone", "owns", "released"}]
    /\ plPending.reserved \in 0..PlSlots
    /\ plWork.pc \in {"drain", "recording", "observe", "rounds", "pay", "settle"}

OutputsOf(a, keys) ==
    LET Out(k) == plBatch[k].outputs[a]
    IN  MapThenSumSet(Out, keys)

Allocated(a, ids) ==
    LET Part(i) == plRounds[i].alloc[a]
    IN  MapThenSumSet(Part, ids)

(* Ledger::check_invariants, after every transaction: an account's balance   *)
(* is what matured rounds have credited to it, what is reserved and what is  *)
(* paid are the outputs of the batches that say so, and nothing is available *)
(* to an account that has a deficit.                                         *)
BalancesConserved ==
    \A a \in PlAccount :
        LET b == plBal[a]
        IN  /\ b.reserved = OutputsOf(a, {k \in PlKey : holds_reservation(plBatch[k])})
            /\ b.paid = OutputsOf(a, {k \in PlKey : plBatch[k].state = "confirmed"})
            /\ b.available + b.reserved + b.paid
                = b.deficit + Allocated(a, {i \in DOMAIN plRounds : plRounds[i].state = "matured"})
            /\ b.available = 0 \/ b.deficit = 0

(* A found block has one round, whose weights are the window that ends at    *)
(* its solving share in the history of all shares, whatever was recorded or  *)
(* pruned meanwhile; a fixed reward is given away to the last unit.          *)
RoundsAreExact ==
    \A i \in DOMAIN plRounds :
        LET r == plRounds[i]
        IN  /\ round_for_block(r.block) = {i}
            /\ plShares[r.seq].hash = r.block
            /\ r.weights = WindowOf(plShares, 1, r.seq)
            /\ IF r.fixed THEN SumOf(r.alloc) = r.net ELSE r.state # "matured"

(* After a pass that no tip change interrupted, the credited rounds are      *)
(* those of the chain; one that is no longer watched stays so.               *)
CreditFollowsChain ==
    \A i \in DOMAIN plRounds :
        LET r == plRounds[i]
        IN  /\ ~r.open => (r.state = "matured" <=> Canonical(r.block))
            /\ AtWork("pay") /\ ~plWork.moved /\ r.fixed =>
                    (r.state = "matured" <=> Canonical(r.block) /\ Depth(r.block) >= Maturity)

(* A stranger's transaction that no reorganisation takes off the chain has   *)
(* spent a coin of x.                                                        *)
CannotConfirm(txs, x) ==
    \E b \in Ancestors[plChain.tip] :
        /\ confirmations(plChain.high, Height[b]) >= AbandonDepth
        /\ \E y \in plChain.body[b] \ txs : PlSpends[x] \cap PlSpends[y] # {}

(* Money is given back to the accounts only when no transaction signed for   *)
(* it can confirm any more, and a payment that is no longer watched is on    *)
(* the chain: a credit is never paid twice.                                  *)
PaidOnce ==
    \A k \in PlKey :
        LET b == plBatch[k]
        IN  /\ b.state = "failed" => \A x \in b.txs : CannotConfirm(b.txs, x)
            /\ b.state = "cancelled" => b.txs = {}
            /\ b.state = "confirmed" /\ ~b.active =>
                    b.confirmation.block \in BlocksOf(b.confirmation.tx)

(* Every reserved slot has one owner: a permit, an entry of the queue, or a  *)
(* hold that outlived its entry.  A block that was found is recorded or      *)
(* still queued, whatever failed and whichever connection has gone.          *)
SlotsAreOwned ==
    LET permits == {c \in PlSession : plSess[c].pc \in {"held", "recording", "releasing"}
                                        \/ plSess[c].charge = "permit"}
        owners == {c \in PlSession : plHold[c] = "owns"}
    IN  /\ plPending.reserved = Cardinality(permits) + Len(plPending.queue) + Cardinality(owners)
        /\ \A c \in PlSession :
            plSess[c].pc \in {"deferred", "releasing", "over"} =>
                \/ Recorded(Found(c))
                \/ \E i \in DOMAIN plPending.queue : plPending.queue[i].block = Found(c)

(* The pool's books are right and no found block is lost, however sessions,  *)
(* operator, worker and chain interleave (Ledger, LedgerHost).               *)
PoolIsSound ==
    BalancesConserved /\ RoundsAreExact /\ CreditFollowsChain /\ PaidOnce /\ SlotsAreOwned
=============================================================================
