------------------------- MODULE MiningCoordinator -------------------------
(***************************************************************************)
(* Block templates (crates/mining/src/coordinator.rs): requesters share    *)
(* one cache of candidates by generation, one ordinary assembly at a time  *)
(* and one budgeted assembly at a time, while a worker prepares the        *)
(* candidate for a block that is about to be connected.                    *)
(*                                                                         *)
(* A generation is the applied tip with the two revisions of the pool.     *)
(* They are read without any lock of the coordinator, so each of its       *)
(* decisions is taken on a reading that may be stale when it acts: every   *)
(* action is one critical section of the state or of the mailbox, and the  *)
(* publications made by the chain and by the pool arrive in any order.     *)
(*                                                                         *)
(* Abstractions.  A body is the set of transactions it was selected from.  *)
(* A condition variable is waited on for a slice of time and then looked   *)
(* at again, so a wait is a disabled action and a wake needs no step.  One *)
(* reading of a generation is one step.  Errors other than a race, and the *)
(* projection of a candidate on the protocol, are left out.                *)
(***************************************************************************)
EXTENDS BlockGraph, Sequences, FiniteSets

CONSTANTS
    Requester,       \* threads that serve getblocktemplate
    MineTx,          \* transactions of the pool
    BlockTxs,        \* transactions a block confirms
    MineTip,         \* applied tip at first
    MinePool,        \* pool at first
    Scenario,        \* kinds of request, their retries, events already used up
    NoTip,
    NoOne,
    CacheLimit,      \* CANDIDATE_CACHE_LIMIT
    MaxEvents        \* bound: tips, pool changes, panics and the shutdown

ASSUME MiningAssumption ==
    /\ BlockTxs \in [Block -> SUBSET MineTx]
    /\ Scenario \subseteq [kind : [Requester -> {"plain", "budget", "poll", "none"}],
                            tries : Nat \ {0},   \* CANDIDATE_GENERATION_RETRIES
                            used : Nat]
    /\ MinePool \subseteq MineTx
    /\ MineTip \in Block /\ NoTip \notin Block /\ NoOne \notin Requester
    /\ {CacheLimit, MaxEvents} \subseteq Nat
    /\ CacheLimit > 0

VARIABLES
    mncLive,   \* applied tip, pool and its revisions
    mncPast,   \* the pool at every membership sequence so far
    mncState,  \* CoordinatorState: published, cache, in_flight, budgeted
    mncBox,    \* PrepMailbox and the body the worker holds
    mncReq,    \* what each requester is doing
    mncChain,  \* what the thread that moves the tip is doing
    mncPosts,  \* what the chain's and the pool's thread have yet to publish
    mncUsed,   \* events so far
    mncOff     \* the shutdown latch

mncVars == <<mncLive, mncPast, mncState, mncBox, mncReq, mncChain, mncPosts, mncUsed, mncOff>>

-----------------------------------------------------------------------------
(* Generations and candidates *)

live_generation_key == [tip |-> mncLive.tip, seq |-> mncLive.seq, fee |-> mncLive.fee]

NoKey == [tip |-> Genesis, seq |-> 0, fee |-> 0, none |-> TRUE]

NoFlight == [owner |-> NoOne, key |-> NoKey]

(* A candidate: the generation and budget of its template id, and the pool   *)
(* its body was selected from.                                               *)
Candidate(key, budget, txs) == [key |-> key, budget |-> budget, txs |-> txs]

NoCandidate == Candidate(NoKey, FALSE, {})

NoPrep == [target |-> NoTip, progress |-> "working", source |-> 0, gone |-> {},
           candidate |-> NoCandidate]

ChainIdle == [pc |-> "idle", block |-> Genesis, gone |-> {}]

CacheKey(key, budget) == [generation |-> key, budget |-> budget]

Cached(s, k) == {i \in DOMAIN s.cache : s.cache[i].key = k}

(* Mutant: nothing is evicted. *)
InsertUnbounded(cache, k, c) ==
    LET same == {i \in DOMAIN cache : cache[i].key = k}
    IN  IF same # {}
        THEN [i \in DOMAIN cache |-> IF i \in same THEN [key |-> k, candidate |-> c] ELSE cache[i]]
        ELSE Append(cache, [key |-> k, candidate |-> c])

cache_insert(cache, k, c) ==
    LET same == {i \in DOMAIN cache : cache[i].key = k}
        kept == IF Len(cache) >= CacheLimit THEN Tail(cache) ELSE cache
    IN  IF same # {}
        THEN [i \in DOMAIN cache |-> IF i \in same THEN [key |-> k, candidate |-> c] ELSE cache[i]]
        ELSE Append(kept, [key |-> k, candidate |-> c])

invalidate_key(s, g) ==
    LET Other(e) == e.key.generation # g
    IN  [s EXCEPT !.cache = SelectSeq(@, Other),
                  !.in_flight = IF @.key = g THEN NoFlight ELSE @]

publish_locked(s, key) ==
    [IF s.published # NoKey /\ s.published # key THEN invalidate_key(s, s.published) ELSE s
        EXCEPT !.published = key]

ensure_published == publish_locked(mncState, live_generation_key)

-----------------------------------------------------------------------------
(* Publications *)

Thread == {"chain", "pool"}

Post(th, p) == mncPosts' = [mncPosts EXCEPT ![th] = @ \o p]

Posted(th) == mncPosts[th] = <<>>

Publishes(th, kind) ==
    /\ mncPosts[th] # <<>>
    /\ Head(mncPosts[th]).kind = kind
    /\ mncPosts' = [mncPosts EXCEPT ![th] = Tail(@)]

(* The generation as the step leaves it, on its way to publish_locked. *)
Reading == [kind |-> "key", key |-> [tip |-> mncLive'.tip, seq |-> mncLive'.seq, fee |-> mncLive'.fee]]

From(n) == [kind |-> "from", seq |-> mncLive.seq + n]

(* publish_generation read the generation when it was asked to publish. *)
publish_generation ==
    /\ \E th \in Thread :
         /\ Publishes(th, "key")
         /\ mncState' = publish_locked(mncState, Head(mncPosts[th]).key)
    /\ UNCHANGED <<mncLive, mncPast, mncBox, mncReq, mncChain, mncUsed, mncOff>>

(* The observer of pool mutations drops a generation of another sequence. *)
publish_generation_from ==
    /\ \E th \in Thread :
         LET was == mncState.published
         IN  /\ Publishes(th, "from")
             /\ mncState' = IF was # NoKey /\ was.seq # Head(mncPosts[th]).seq
                            THEN [invalidate_key(mncState, was) EXCEPT !.published = NoKey]
                            ELSE mncState
    /\ UNCHANGED <<mncLive, mncPast, mncBox, mncReq, mncChain, mncUsed, mncOff>>

(* A changed priority publishes its own revision with the last sequence the  *)
(* coordinator knew, unless a later revision of it is published.             *)
publish_fee_delta_generation ==
    /\ Publishes("pool", "fee")
    /\ LET was == mncState.published
           fee == Head(mncPosts["pool"]).fee
           key == [tip |-> mncLive.tip, fee |-> fee, seq |-> IF was = NoKey THEN 0 ELSE was.seq]
       IN  mncState' = IF was # NoKey /\ was.tip = key.tip /\ was.seq = key.seq /\ was.fee > fee
                       THEN mncState ELSE publish_locked(mncState, key)
    /\ UNCHANGED <<mncLive, mncPast, mncBox, mncReq, mncChain, mncUsed, mncOff>>

-----------------------------------------------------------------------------
(* The pool and the chain.  While the tip moves only the moving thread       *)
(* changes the membership of the pool; priorities change at any time.        *)

PoolTo(p, n) ==
    /\ mncLive' = [mncLive EXCEPT !.pool = p, !.seq = @ + n]
    /\ mncPast' = [s \in DOMAIN mncPast \cup {mncLive.seq + n} |->
                      IF s = mncLive.seq + n THEN p ELSE mncPast[s]]

Event == mncUsed < MaxEvents /\ mncUsed' = mncUsed + 1

Idle == mncChain.pc = "idle" /\ Posted("chain")

AcceptTx ==
    /\ Idle /\ Posted("pool")
    /\ \E t \in MineTx \ (mncLive.pool \cup UNION {BlockTxs[b] : b \in Ancestors[mncLive.tip]}) :
         PoolTo(mncLive.pool \cup {t}, 1)
    /\ Post("pool", <<From(1), Reading>>)
    /\ Event
    /\ UNCHANGED <<mncState, mncBox, mncReq, mncChain, mncOff>>

Prioritise ==
    /\ Posted("pool")
    /\ mncLive' = [mncLive EXCEPT !.fee = @ + 1]
    /\ Post("pool", <<[kind |-> "fee", fee |-> mncLive.fee + 1]>>)
    /\ Event
    /\ UNCHANGED <<mncPast, mncState, mncBox, mncReq, mncChain, mncOff>>

owns_tip(t) == mncBox.active.target = t \/ mncBox.pending = t

(* A block is staged before its commit, once the node has synced. *)
stage_tip ==
    /\ Idle
    /\ mncUsed < MaxEvents
    /\ \E b \in Children(mncLive.tip) :
         /\ mncChain' = [mncChain EXCEPT !.pc = "staged", !.block = b]
         /\ mncBox' = IF mncBox.stopped \/ owns_tip(b) THEN mncBox
                      ELSE [mncBox EXCEPT !.pending = b]
    /\ UNCHANGED <<mncLive, mncPast, mncState, mncReq, mncPosts, mncUsed, mncOff>>

(* The commit fails and nothing is published, or the tip moves. *)
CommitConnect ==
    /\ mncChain.pc = "staged"
    /\ \/ mncChain' = ChainIdle /\ UNCHANGED <<mncLive, mncUsed>>
       \/ /\ mncChain' = [mncChain EXCEPT !.pc = "connected"]
          /\ mncLive' = [mncLive EXCEPT !.tip = mncChain.block]
          /\ Event
    /\ UNCHANGED <<mncPast, mncState, mncBox, mncReq, mncPosts, mncOff>>

remove_for_block ==
    LET gone == mncLive.pool \cap BlockTxs[mncChain.block]
        n == Cardinality(gone)
    IN  /\ mncChain.pc = "connected"
        /\ PoolTo(mncLive.pool \ gone, n)
        /\ Post("chain", IF n > 0 THEN <<From(n)>> ELSE <<>>)
        /\ mncChain' = [mncChain EXCEPT !.pc = "removed", !.gone = gone]
        /\ UNCHANGED <<mncState, mncBox, mncReq, mncUsed, mncOff>>

publish_block_generation ==
    /\ mncChain.pc = "removed" /\ Posted("chain")
    /\ mncBox' = [mncBox EXCEPT !.receipt = [tip |-> mncChain.block, gone |-> mncChain.gone]]
    /\ mncChain' = ChainIdle
    /\ UNCHANGED <<mncLive, mncPast, mncState, mncReq, mncUsed, mncOff>>
    /\ Post("chain", <<Reading>>)

Disconnect ==
    /\ Idle
    /\ mncLive.tip # Genesis
    /\ mncLive' = [mncLive EXCEPT !.tip = Parent[@]]
    /\ mncChain' = [mncChain EXCEPT !.pc = "disconnected", !.gone = BlockTxs[mncLive.tip]]
    /\ Post("chain", <<Reading>>)
    /\ Event
    /\ UNCHANGED <<mncPast, mncState, mncBox, mncReq, mncOff>>

(* A disconnected block gives its transactions back to the pool. *)
Reconsider ==
    LET back == mncChain.gone \ mncLive.pool
        n == Cardinality(back)
    IN  /\ mncChain.pc = "disconnected" /\ Posted("chain")
        /\ PoolTo(mncLive.pool \cup back, n)
        /\ Post("chain", IF n > 0 THEN <<From(n)>> ELSE <<>>)
        /\ mncChain' = ChainIdle
        /\ UNCHANGED <<mncState, mncBox, mncReq, mncUsed, mncOff>>

-----------------------------------------------------------------------------
(* The preparation worker *)

Owned(t) == mncBox.active.target = t

wait_for_staged_job ==
    LET t == mncBox.pending
    IN  /\ mncBox.job = NoPrep
        /\ t # NoTip
        /\ ~mncBox.stopped /\ ~mncOff
        /\ mncBox' = IF Owned(t) THEN [mncBox EXCEPT !.pending = NoTip]
                     ELSE [mncBox EXCEPT !.pending = NoTip,
                                         !.active = [NoPrep EXCEPT !.target = t],
                                         !.job = [NoPrep EXCEPT !.target = t]]
        /\ UNCHANGED <<mncLive, mncPast, mncState, mncReq, mncChain, mncPosts, mncUsed, mncOff>>

(* Mutant: the prepared body keeps what the block confirms. *)
PrepareWithoutProjection ==
    LET job == mncBox.job
        gone == mncLive.pool \cap BlockTxs[job.target]
        key == [tip |-> job.target, seq |-> mncLive.seq + Cardinality(gone), fee |-> mncLive.fee]
    IN  /\ job # NoPrep /\ job.progress = "working"
        /\ mncBox' = [mncBox EXCEPT !.job =
               [target |-> job.target, progress |-> "ready", source |-> mncLive.seq, gone |-> gone,
                candidate |-> Candidate(key, FALSE, mncLive.pool)]]
        /\ UNCHANGED <<mncLive, mncPast, mncState, mncReq, mncChain, mncPosts, mncUsed, mncOff>>

(* The pool as it will be once the block is applied, with the sequence it    *)
(* will then have, read at once under the lock of the pool.                  *)
select_template_after ==
    LET job == mncBox.job
        gone == mncLive.pool \cap BlockTxs[job.target]
        key == [tip |-> job.target, seq |-> mncLive.seq + Cardinality(gone), fee |-> mncLive.fee]
    IN  /\ job # NoPrep /\ job.progress = "working"
        /\ mncBox' = [mncBox EXCEPT !.job =
               [target |-> job.target, progress |-> "ready", source |-> mncLive.seq, gone |-> gone,
                candidate |-> Candidate(key, FALSE, mncLive.pool \ gone)]]
        /\ UNCHANGED <<mncLive, mncPast, mncState, mncReq, mncChain, mncPosts, mncUsed, mncOff>>

(* Mutant: a preparation that fails is not marked in the mailbox. *)
FailureUnmarked ==
    LET job == mncBox.job
    IN  /\ job # NoPrep
        /\ mncBox' = [mncBox EXCEPT !.job = NoPrep,
               !.active = IF Owned(job.target) /\ job.progress = "ready" THEN job ELSE @]
        /\ UNCHANGED <<mncLive, mncPast, mncState, mncReq, mncChain, mncPosts, mncUsed, mncOff>>

(* The result, or the failure, is for the mailbox only while the mailbox     *)
(* still wants this tip.                                                     *)
PreparationEnds ==
    LET job == mncBox.job
        failed == [NoPrep EXCEPT !.target = job.target, !.progress = "failed"]
    IN  /\ job # NoPrep
        /\ \E done \in {failed} \cup (IF job.progress = "ready" THEN {job} ELSE {}) :
             mncBox' = [mncBox EXCEPT !.job = NoPrep,
                                      !.active = IF Owned(job.target) THEN done ELSE @]
        /\ UNCHANGED <<mncLive, mncPast, mncState, mncReq, mncChain, mncPosts, mncUsed, mncOff>>

(* The worker panics, or stops with the node: waiters are released. *)
WorkerExit ==
    /\ ~mncBox.stopped
    /\ \/ mncOff /\ mncBox.job = NoPrep /\ UNCHANGED mncUsed
       \/ mncBox.job # NoPrep /\ Event
    /\ mncBox' = [mncBox EXCEPT !.stopped = TRUE, !.pending = NoTip, !.active = NoPrep,
                                !.job = NoPrep]
    /\ UNCHANGED <<mncLive, mncPast, mncState, mncReq, mncChain, mncPosts, mncOff>>

discard_preparation(box, t) == [box EXCEPT !.active = IF @.target = t THEN NoPrep ELSE @]

-----------------------------------------------------------------------------
(* Requests *)

Fresh == [pc |-> "idle", budget |-> FALSE, polls |-> FALSE, key |-> NoKey, tries |-> 0,
          got |-> NoCandidate, prep |-> NoPrep]

(* A request is plain, with a coinbase budget, or a long poll; only that it   *)
(* returned is kept of it.                                                   *)
Return(r) == mncReq' = [mncReq EXCEPT ![r] = [Fresh EXCEPT !.pc = "done"]]

Go(r, pc) == mncReq' = [mncReq EXCEPT ![r].pc = pc]

AtReq(r, pc) == mncReq[r].pc = pc

(* An attempt lost a race with the generation: the next one, or an error.    *)
Raced(r) ==
    IF mncReq[r].tries > 1
    THEN mncReq' = [mncReq EXCEPT ![r] = [Fresh EXCEPT !.pc = "attempt", !.budget = mncReq[r].budget,
                                                       !.tries = mncReq[r].tries - 1]]
    ELSE Return(r)

(* A candidate found for r's generation is handed out if that is still live. *)
HandOut(r) == IF live_generation_key = mncReq[r].key THEN Return(r) ELSE Raced(r)

(* A long poll of the generation that is live waits for another one. *)
get_block_template(r) ==
    /\ AtReq(r, "idle")
    /\ mncReq[r].polls
    /\ mncState' = ensure_published
    /\ mncReq' = [mncReq EXCEPT ![r].pc = "poll", ![r].key = live_generation_key]
    /\ UNCHANGED <<mncLive, mncPast, mncBox, mncChain, mncPosts, mncUsed, mncOff>>

wait_for_generation_change(r) ==
    /\ AtReq(r, "poll")
    /\ IF mncOff THEN Return(r) /\ UNCHANGED mncState
       ELSE /\ live_generation_key # mncReq[r].key
            /\ mncState' = ensure_published
            /\ Go(r, "attempt")
    /\ UNCHANGED <<mncLive, mncPast, mncBox, mncChain, mncPosts, mncUsed, mncOff>>

(* An attempt publishes the live generation and looks in the cache; so does  *)
(* a request that is no long poll, at once.                                  *)
live_candidate(r) ==
    LET key == live_generation_key
        s == ensure_published
        budget == mncReq[r].budget
    IN  /\ AtReq(r, "attempt") \/ (AtReq(r, "idle") /\ ~mncReq[r].polls)
        /\ IF mncOff THEN Return(r) /\ UNCHANGED mncState
           ELSE /\ mncState' = s
                /\ IF ~budget /\ Cached(s, CacheKey(key, FALSE)) # {} THEN Return(r)
                   ELSE mncReq' = [mncReq EXCEPT ![r].pc = IF budget THEN "reuse" ELSE "join",
                                                 ![r].key = key]
        /\ UNCHANGED <<mncLive, mncPast, mncBox, mncChain, mncPosts, mncUsed, mncOff>>

(* Nothing prepared serves r: an ordinary request looks at the flight, a     *)
(* budgeted one at its slot.                                                 *)
Unserved(r) ==
    mncReq' = [mncReq EXCEPT ![r].pc = IF mncReq[r].budget THEN "slot" ELSE "flight",
                             ![r].prep = NoPrep]

Targeted(t) == Owned(t) \/ mncBox.pending = t

(* A preparation for the tip is waited for until it fails, is finished and   *)
(* its block is committed, or the generation moves on.                       *)
join_preparation(r) ==
    LET key == mncReq[r].key
        active == mncBox.active
        ready == /\ active.target = key.tip /\ active.progress = "ready"
                 /\ mncBox.receipt.tip = key.tip \/ active.candidate.key # key
        failed == active.target = key.tip /\ active.progress = "failed"
    IN  /\ AtReq(r, "join")
        /\ IF mncOff THEN Return(r) /\ UNCHANGED mncBox
           ELSE IF mncBox.stopped \/ ~Targeted(key.tip) THEN Unserved(r) /\ UNCHANGED mncBox
           ELSE IF failed
           THEN Unserved(r) /\ mncBox' = [mncBox EXCEPT !.active = NoPrep]
           ELSE IF ready
           THEN /\ mncReq' = [mncReq EXCEPT ![r].pc = "ready", ![r].prep = active]
                /\ UNCHANGED mncBox
           ELSE live_generation_key # key /\ Unserved(r) /\ UNCHANGED mncBox
        /\ UNCHANGED <<mncLive, mncPast, mncState, mncChain, mncPosts, mncUsed, mncOff>>

(* The prepared body stands for the generation only if the block was         *)
(* committed with the removals that were planned and nothing else changed.   *)
prepared_candidate_for_key(r) ==
    LET key == mncReq[r].key
        k == CacheKey(key, FALSE)
        prep == mncReq[r].prep
        receipt == mncBox.receipt
        fits == /\ receipt.gone = prep.gone
                /\ prep.source + Cardinality(prep.gone) = key.seq
                /\ prep.candidate.key = key
        Use == Return(r) \/ (mncReq[r].budget /\ Unserved(r))
    IN  /\ AtReq(r, "ready")
        /\ IF live_generation_key # key \/ receipt.tip # key.tip
           THEN Unserved(r) /\ UNCHANGED <<mncState, mncBox>>
           ELSE IF ~fits
           THEN /\ Unserved(r)
                /\ mncBox' = discard_preparation(mncBox, key.tip)
                /\ UNCHANGED mncState
           ELSE IF Cached(mncState, k) # {}
           THEN Use /\ UNCHANGED <<mncState, mncBox>>
           ELSE /\ Use
                /\ mncState' = [mncState EXCEPT !.cache = cache_insert(@, k, prep.candidate),
                                                !.published = key]
                /\ mncBox' = discard_preparation(mncBox, key.tip)
        /\ UNCHANGED <<mncLive, mncPast, mncChain, mncPosts, mncUsed, mncOff>>

(* await_flight, then the flight of r's own.  A flight of another generation *)
(* is not waited for and is replaced.                                        *)
StartFlight(r) ==
    LET key == mncReq[r].key
        k == CacheKey(key, FALSE)
        flight == [owner |-> r, key |-> key]
    IN  /\ AtReq(r, "flight")
        /\ IF mncOff THEN Return(r) /\ UNCHANGED mncState
           ELSE /\ mncState.in_flight = NoFlight \/ mncState.in_flight.key # key
                /\ IF Cached(mncState, k) # {}
                   THEN HandOut(r) /\ UNCHANGED mncState
                   ELSE Go(r, "assemble") /\ mncState' = [mncState EXCEPT !.in_flight = flight]
        /\ UNCHANGED <<mncLive, mncPast, mncBox, mncChain, mncPosts, mncUsed, mncOff>>

(* The tip and the revisions must be those of the generation when the body   *)
(* is selected; the race is reported only when the assembly ends.            *)
assemble_for_key(r) ==
    LET key == mncReq[r].key
    IN  /\ AtReq(r, "assemble")
        /\ mncReq' = [mncReq EXCEPT
               ![r].pc = "assembled",
               ![r].got = IF live_generation_key = key
                          THEN Candidate(key, mncReq[r].budget, mncLive.pool)
                          ELSE NoCandidate]
        /\ UNCHANGED <<mncLive, mncPast, mncState, mncBox, mncChain, mncPosts, mncUsed, mncOff>>

Landed(s, r) == [s EXCEPT !.in_flight = IF @.owner = r THEN NoFlight ELSE @,
                          !.budgeted = IF @ = r THEN NoOne ELSE @]

EndAssembly(r) ==
    LET key == mncReq[r].key
        c == mncReq[r].got
        ok == c # NoCandidate /\ live_generation_key = key
        kept == [mncState EXCEPT !.cache = cache_insert(@, CacheKey(key, mncReq[r].budget), c),
                                 !.published = IF mncReq[r].budget THEN @ ELSE key]
    IN  /\ AtReq(r, "assembled")
        /\ mncState' = Landed(IF ok THEN kept ELSE mncState, r)
        /\ IF ok THEN Return(r) ELSE Raced(r)
        /\ UNCHANGED <<mncLive, mncPast, mncBox, mncChain, mncPosts, mncUsed, mncOff>>

(* InFlightAssemblyGuard and BudgetedSlot: an assembly that panics lands.    *)
Panic(r) ==
    /\ AtReq(r, "assemble")
    /\ Event
    /\ mncState' = Landed(mncState, r)
    /\ Return(r)
    /\ UNCHANGED <<mncLive, mncPast, mncBox, mncChain, mncPosts, mncOff>>

preparation_installable(t) ==
    Owned(t) /\ mncBox.active.progress = "ready" /\ mncBox.receipt.tip = t

(* An ordinary candidate serves a budget it happens to admit. *)
reusable_candidate(r) ==
    LET key == mncReq[r].key
        exact == CacheKey(key, TRUE)
        plain == CacheKey(key, FALSE)
    IN  /\ AtReq(r, "reuse")
        /\ IF mncOff THEN Return(r)
           ELSE IF Cached(mncState, exact) # {} THEN HandOut(r)
           ELSE IF Cached(mncState, plain) # {}
           THEN HandOut(r) \/ Go(r, "slot")
           ELSE Go(r, IF preparation_installable(key.tip) THEN "join" ELSE "slot")
        /\ UNCHANGED <<mncLive, mncPast, mncState, mncBox, mncChain, mncPosts, mncUsed, mncOff>>

(* The budgeted slot is taken; else, after a wait, it is free and the cache  *)
(* is looked at again, or the request gives up for this attempt.             *)
budgeted_candidate(r) ==
    LET k == CacheKey(mncReq[r].key, TRUE)
    IN  /\ AtReq(r, "slot")
        /\ IF Cached(mncState, k) # {} THEN HandOut(r) /\ UNCHANGED mncState
           ELSE IF mncState.budgeted = NoOne
           THEN Go(r, "assemble") /\ mncState' = [mncState EXCEPT !.budgeted = r]
           ELSE (Go(r, "reuse") \/ Raced(r)) /\ UNCHANGED mncState
        /\ UNCHANGED <<mncLive, mncPast, mncBox, mncChain, mncPosts, mncUsed, mncOff>>

RequestStep(r) ==
    \/ get_block_template(r) \/ wait_for_generation_change(r) \/ live_candidate(r)
    \/ join_preparation(r) \/ prepared_candidate_for_key(r)
    \/ StartFlight(r) \/ assemble_for_key(r) \/ EndAssembly(r)
    \/ reusable_candidate(r) \/ budgeted_candidate(r)

PrepStep == wait_for_staged_job \/ select_template_after \/ PreparationEnds \/ WorkerExit

PostStep ==
    publish_generation \/ publish_generation_from \/ publish_fee_delta_generation

ChainStep == CommitConnect \/ remove_for_block \/ publish_block_generation \/ Reconsider

Shutdown ==
    /\ ~mncOff
    /\ mncOff' = TRUE
    /\ Event
    /\ UNCHANGED <<mncLive, mncPast, mncState, mncBox, mncReq, mncChain, mncPosts>>

MiningInit ==
    /\ mncLive = [tip |-> MineTip, pool |-> MinePool, seq |-> 0, fee |-> 0]
    /\ mncPast = [s \in {0} |-> mncLive.pool]
    /\ mncState = [published |-> NoKey, cache |-> <<>>, in_flight |-> NoFlight,
                   budgeted |-> NoOne]
    /\ mncBox = [pending |-> NoTip, active |-> NoPrep, receipt |-> [tip |-> NoTip, gone |-> {}],
                 stopped |-> FALSE, job |-> NoPrep]
    /\ \E s \in Scenario :
         /\ mncReq = [r \in Requester |->
               [Fresh EXCEPT !.pc = IF s.kind[r] = "none" THEN "done" ELSE "idle",
                             !.tries = s.tries,
                             !.budget = s.kind[r] = "budget", !.polls = s.kind[r] = "poll"]]
         /\ mncUsed = s.used
    /\ mncChain = ChainIdle
    /\ mncPosts = [th \in Thread |-> <<>>]
    /\ mncOff = FALSE

MiningNext ==
    \/ \E r \in Requester : RequestStep(r) \/ Panic(r)
    \/ PrepStep \/ PostStep \/ ChainStep
    \/ stage_tip \/ Disconnect \/ AcceptTx \/ Prioritise \/ Shutdown

(* A tip that is moving settles and what it posts is published. *)
MiningSurroundings ==
    /\ []<>(mncChain.pc = "idle")
    /\ \A th \in Thread : []<>Posted(th)

(* Every thread that can go on does; requests, tips, pool changes, panics    *)
(* and the shutdown need not come.                                           *)
MiningFairness ==
    /\ MiningSurroundings
    /\ \A r \in Requester : WF_mncVars(~AtReq(r, "idle") /\ RequestStep(r))
    /\ WF_mncVars(PrepStep)

MiningSpec == MiningInit /\ [][MiningNext]_mncVars /\ MiningFairness

-----------------------------------------------------------------------------
(* The live pool is the one its sequence names, and the template cache keeps *)
(* its budget and one entry per key (cache_insert).                          *)
MiningTypeOK ==
    /\ mncLive.seq \in Nat /\ mncLive.fee \in Nat
    /\ mncLive.pool = mncPast[mncLive.seq]
    /\ Len(mncState.cache) <= CacheLimit
    /\ \A i, j \in DOMAIN mncState.cache :
         mncState.cache[i].key = mncState.cache[j].key => i = j

(* Whatever the readings were when it was assembled or prepared, a candidate *)
(* that is cached or handed out holds the pool of the generation and the     *)
(* budget that its template id names.                                        *)
TemplatesAreCoherent ==
    /\ \A i \in DOMAIN mncState.cache :
         LET e == mncState.cache[i]
         IN  /\ e.candidate.key = e.key.generation
             /\ e.candidate.budget = e.key.budget
             /\ e.candidate.txs = mncPast[e.key.generation.seq]
    /\ \A r \in Requester :
         LET c == mncReq[r].got
         IN  c # NoCandidate => c.txs = mncPast[c.key.seq]

(* The flight and the budgeted slot belong to an assembly that still runs:   *)
(* none outlives a panic, and none is taken down by a later assembly's end.  *)
FlightHasOwner ==
    \A r \in {mncState.in_flight.owner, mncState.budgeted} \ {NoOne} :
        mncReq[r].pc \in {"assemble", "assembled"}

(* Every candidate is what its template id says, and nothing that makes      *)
(* requests wait is left behind.                                             *)
CoordinatorIsCoherent == TemplatesAreCoherent /\ FlightHasOwner

(* No preparation, flight or slot keeps a request waiting. *)
NoneWaits ==
    \A r \in Requester :
        \/ AtReq(r, "idle") \/ AtReq(r, "done")
        \/ AtReq(r, "poll") /\ mncReq[r].key = live_generation_key

(* Every request returns, unless it is a long poll of the generation that    *)
(* stays live.                                                               *)
RequestsReturn == <>[]NoneWaits
=============================================================================
