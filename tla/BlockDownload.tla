--------------------------- MODULE BlockDownload ---------------------------
(***************************************************************************)
(* Block download (crates/p2p/src/download_window.rs, block_stager.rs and  *)
(* sync/): the sync thread asks peers for the bodies between the applied   *)
(* tip and the header tip, stages what arrives, and hands the prefix that  *)
(* extends the applied tip to the chainstate.  One tick of it is a round   *)
(* of steps, each a critical section of the scheduler lock; the peers'     *)
(* threads answer, refuse, vanish and come back between any two of them.   *)
(*                                                                         *)
(* Abstractions.  A deadline that passed is a flag that a step of the      *)
(* clock raises: a peer whose queue is overdue, a staged body that is old. *)
(* Byte budgets are a possible refusal by the stager.  A peer serves every *)
(* height up to its best one.  Requests go out in the ordinary mode: the   *)
(* fan-out over many peers, and the second requests of hedged fronts and   *)
(* prefix probes, are left out, and so are the fetches of announced blocks *)
(* and of history below a snapshot; a body that this window did not ask    *)
(* for may still arrive.  Headers are known before their bodies.           *)
(***************************************************************************)
EXTENDS BlockGraph, Sequences, FiniteSets

CONSTANTS
    DlPeer,          \* endpoints
    DlBest,          \* the height up to which a peer serves bodies
    DlFirstTip,      \* header tip at first
    DlTips,          \* tips that headers may announce
    DlInvalid,       \* possible sets of consensus-invalid blocks
    DlNoPeer,
    DlNoBlock,
    DlMaxPending,    \* max_pending_blocks
    DlMaxReceived,   \* max_received_blocks
    DlBatch,         \* getdata_batch_limit
    DlInflight,      \* max_peer_inflight
    DlMaxFaults      \* bound: misbehaving peers, failing commits, early clocks

ASSUME DownloadAssumption ==
    /\ DlBest \in [DlPeer -> Nat]
    /\ DlFirstTip \in Block /\ DlTips \subseteq Block
    /\ DlInvalid \subseteq SUBSET (Block \ {Genesis})
    /\ DlNoPeer \notin DlPeer /\ DlNoBlock \notin Block
    /\ {DlMaxPending, DlMaxReceived, DlBatch, DlInflight} \subseteq Nat \ {0}
    /\ DlMaxFaults \in Nat

VARIABLES
    dlChain,   \* applied tip, header tip, known headers, marked and truly invalid blocks
    dlWin,     \* DownloadWindow and the refusals remembered beside it
    dlStaged,  \* BlockStager: bodies in the order they arrived
    dlLoop,    \* where the sync thread is in its tick
    dlNet,     \* live sessions and the requests they have yet to answer
    dlFaults

dlVars == <<dlChain, dlWin, dlStaged, dlLoop, dlNet, dlFaults>>

NoObservation == [owner |-> DlNoPeer, hash |-> DlNoBlock, released |-> FALSE]

NoPlan == [owner |-> DlNoPeer, entries |-> {}, next |-> 0]

DownloadInit ==
    /\ \E bad \in DlInvalid :
         dlChain = [applied |-> Genesis, tip |-> DlFirstTip, known |-> Ancestors[DlFirstTip],
                    stored |-> {Genesis}, invalid |-> {}, bad |-> bad]
    /\ dlWin = [pend |-> <<>>, next |-> 1, tip |-> DlNoBlock, obs |-> NoObservation,
                overdue |-> {}, cooling |-> {}, refused |-> {}]
    /\ dlStaged = <<>>
    /\ dlLoop = [pc |-> "idle", got |-> FALSE, queue |-> <<>>, plan |-> NoPlan]
    /\ dlNet = [live |-> DlPeer, asked |-> {}]
    /\ dlFaults = 0

Spend == dlFaults < DlMaxFaults /\ dlFaults' = dlFaults + 1

-----------------------------------------------------------------------------
(* The chain the window follows *)

OnBranch(b, t) == b \in Ancestors[t]

ToConnect == Ancestors[dlChain.tip] \ Ancestors[dlChain.applied]

LowestOf(S) == {b \in S : \A c \in S : Height[b] <= Height[c]}

(* The block the applied tip, or the fork below it, needs next. *)
next_required_body == LowestOf(ToConnect)

FrontHeight == Height[CHOOSE b \in next_required_body : TRUE]

applied_is_chain_ancestor == OnBranch(dlChain.applied, dlChain.tip)

StagedSet(s) == {s[i].hash : i \in DOMAIN s}

StagedWithout(s, S) == SelectSeq(s, LAMBDA e : e.hash \notin S)

staged_source(s, S) == {s[i].from : i \in {j \in DOMAIN s : s[j].hash \in S}}

-----------------------------------------------------------------------------
(* DownloadWindow *)

Pending(w) == DOMAIN w.pend

PendingOf(w, p) == {b \in Pending(w) : w.pend[b].owner = p}

Lower(w, S) ==
    [w EXCEPT !.next = CHOOSE h \in {@} \cup {Height[b] : b \in S} :
                          \A k \in {@} \cup {Height[b] : b \in S} : h <= k]

(* The owner's clock starts anew when its oldest request is gone.           *)
reset_owner_queue_start(w, gone, left) ==
    {p \in w.overdue :
        \/ gone \cap PendingOf(w, p) = {}
        \/ /\ left \cap PendingOf(w, p) # {}
           /\ \A r \in gone \cap PendingOf(w, p) :
                \E b \in left \cap PendingOf(w, p) : r \notin w.pend[b].after}

remove_pending(w, S) ==
    LET left == Pending(w) \ S
    IN  [w EXCEPT
            !.pend = [b \in left |-> [w.pend[b] EXCEPT !.after = @ \cap left]],
            !.overdue = reset_owner_queue_start(w, S \cap Pending(w), left)]

requeue_for_retry(w, S) == Lower(remove_pending(w, S), S)

ObservationEnds(w, b, p) ==
    IF w.obs.hash = b /\ w.obs.owner = p THEN [w EXCEPT !.obs = NoObservation] ELSE w

reject_delivery(w, b, p) ==
    LET v == ObservationEnds(w, b, p)
    IN  IF b \in PendingOf(v, p) THEN requeue_for_retry(v, {b}) ELSE v

(* A body that arrived is proof that its sender moved past what was asked   *)
(* of it before.                                                            *)
credit_delivery_from(w, b, p) ==
    [ObservationEnds(w, b, p) EXCEPT
        !.pend = [c \in DOMAIN @ |-> [@[c] EXCEPT !.passed = @ \/ w.pend[c].owner = p]],
        !.refused = @ \ {<<p, b>>}]

(* Mutant: the delivery is credited and the request stays. *)
CreditOnly(w, b, p) == credit_delivery_from(w, b, p)

mark_received_from(w, b, p) == credit_delivery_from(remove_pending(w, {b}), b, p)

mark_peer_unresponsive(w, P) == [w EXCEPT !.cooling = @ \cup P]

retain_owned_by(w, live) ==
    LET lost == {b \in Pending(w) : w.pend[b].owner \notin live}
        left == Pending(w) \ lost
    IN  [Lower(w, lost) EXCEPT
            !.pend = [b \in left |-> [w.pend[b] EXCEPT !.after = @ \cap left]],
            !.overdue = @ \cap live,
            !.refused = {r \in @ : r[1] \in live},
            !.obs = IF @.owner \in live THEN @ ELSE NoObservation]

Skipped(w, p) == {b \in PendingOf(w, p) : w.pend[b].passed}

(* The requests of overdue owners go, and those an owner has passed over    *)
(* once its backoff is over.                                                *)
expire_pending(w, backoff) ==
    LET gone == {b \in Pending(w) : w.pend[b].owner \in w.overdue}
                  \cup UNION {Skipped(w, p) : p \in backoff}
        v == requeue_for_retry(w, gone)
    IN  [win |-> [v EXCEPT !.obs.released =
                     @ \/ /\ w.obs.hash \in gone
                          /\ w.pend[w.obs.hash].owner = w.obs.owner],
         gone |-> gone]

retarget_request_branch(w, t) ==
    LET extends == w.tip = DlNoBlock \/ OnBranch(w.tip, t)
        off == {b \in Pending(w) : ~OnBranch(b, t) \/ Height[b] < FrontHeight}
        v == remove_pending(w, off)
    IN  IF extends THEN [w EXCEPT !.tip = t]
        ELSE [v EXCEPT !.tip = t, !.next = FrontHeight, !.obs = NoObservation]

RetargetedStage(w, s, t) ==
    IF w.tip = DlNoBlock \/ OnBranch(w.tip, t) THEN s
    ELSE SelectSeq(s, LAMBDA e : OnBranch(e.hash, t) /\ Height[e.hash] >= FrontHeight)

(* Mutant: a front that nobody holds below the cursor stays there. *)
NoRewind(w, s) == w

maybe_rewind_request_frontier(w, s) ==
    IF /\ FrontHeight < w.next
       /\ next_required_body \cap (Pending(w) \cup StagedSet(s)) = {}
    THEN [w EXCEPT !.next = FrontHeight] ELSE w

Minus(a, b) == IF a > b THEN a - b ELSE 0

AtMost(a, b) == IF a < b THEN a ELSE b

staged_count_headroom(w, s, expired) ==
    IF s = <<>> THEN DlMaxPending
    ELSE Minus(Minus(DlMaxReceived, Len(s)), Cardinality(Pending(w)) - expired)

has_request_capacity(w, s) ==
    Cardinality(Pending(w)) < DlMaxPending /\ staged_count_headroom(w, s, 0) > 0

compute_request_capacity(w, s, p) ==
    AtMost(AtMost(DlBatch, Minus(DlInflight, Cardinality(PendingOf(w, p)))),
           AtMost(Minus(DlMaxPending, Cardinality(Pending(w))), staged_count_headroom(w, s, 0)))

(* The n lowest blocks of S, all on one branch. *)
LowestN(S, n) == {b \in S : Cardinality({c \in S : Height[c] < Height[b]}) < n}

HighestOf(H) == CHOOSE h \in H : \A k \in H : h >= k

(* Expired requests first, then the branch from the cursor up.              *)
next_peer_request_allowing_retry(v, gone, s, p) ==
    LET limit == compute_request_capacity(v, s, p)
        refuses(b) == <<p, b>> \in v.refused
        held(w) == Pending(w) \cup StagedSet(s)
        first == LowestN({b \in gone : ~refuses(b) /\ b \notin held(v)}, limit)
        w == maybe_rewind_request_frontier(v, s)
        top == AtMost(Height[dlChain.tip], DlBest[p])
        from == IF FrontHeight > w.next THEN FrontHeight ELSE w.next
        more == limit - Cardinality(first)
        span == more + Cardinality(held(w)) + Cardinality(first) - 1
        scanned == IF more = 0 THEN {}
                   ELSE {b \in Ancestors[dlChain.tip] \ (held(w) \cup first) :
                            Height[b] \in from .. AtMost(top, from + span)}
        rest == LowestN({b \in scanned : ~refuses(b)}, more)
        all == more > 0 /\ from <= top
                 /\ Cardinality({b \in scanned : ~refuses(b)}) < more
        reach == HighestOf({w.next} \cup {Height[b] + 1 : b \in rest}
                             \cup (IF all THEN {top + 1} ELSE {}))
        no == {Height[b] : b \in {c \in gone \cup scanned : refuses(c)}}
        next == HighestOf({w.next, IF no = {} THEN reach
                                   ELSE AtMost(reach, CHOOSE h \in no : \A k \in no : h <= k)})
    IN  [win |-> IF limit = 0 THEN v ELSE w,
         plan |-> IF limit = 0 \/ first \cup rest = {} THEN NoPlan
                  ELSE [owner |-> p, entries |-> first \cup rest, next |-> next]]

mark_requested(w, plan) ==
    LET older == PendingOf(w, plan.owner)
    IN  [w EXCEPT
            !.pend = [b \in Pending(w) \cup plan.entries |->
                        IF b \in plan.entries
                        THEN [owner |-> plan.owner, after |-> older, passed |-> FALSE]
                        ELSE @[b]],
            !.next = IF plan.next > @ THEN plan.next ELSE @]

-----------------------------------------------------------------------------
(* Peers.  Bodies wait in a channel that one step of the tick reads to its  *)
(* end, and their arrival is part of that step.  What else a peer's thread  *)
(* does takes the scheduler lock, and can be told from a step before the    *)
(* tick only while requests are planned and sent.                           *)

AtPc(pc) == dlLoop.pc = pc

PeersTurn == dlLoop.pc \in {"idle", "plan", "send"}

GoTo(pc) == dlLoop' = [dlLoop EXCEPT !.pc = pc]

AskedOf(p) == {r \in dlNet.asked : r[1] = p}

Served(p) == {r \in AskedOf(p) : Height[r[2]] <= DlBest[p]}

disconnect_source(n, P) ==
    [n EXCEPT !.live = @ \ P, !.asked = {r \in @ : r[1] \notin P}]

Ignore(p) ==
    /\ AtPc("idle")
    /\ p \in dlNet.live
    /\ \E r \in AskedOf(p) : dlNet' = [dlNet EXCEPT !.asked = @ \ {r}]
    /\ Spend
    /\ UNCHANGED <<dlChain, dlWin, dlStaged, dlLoop>>

(* The peer's own thread gives the request back and notes the refusal; it   *)
(* says nothing if the block is not, or no longer, asked of this peer.  A   *)
(* peer may refuse what it has, and must refuse what it has not.            *)
block_not_found(p) ==
    /\ PeersTurn
    /\ p \in dlNet.live
    /\ \E r \in AskedOf(p) :
         /\ dlNet' = [dlNet EXCEPT !.asked = @ \ {r}]
         /\ dlWin' = IF r[2] \in PendingOf(dlWin, p)
                     THEN [reject_delivery(dlWin, r[2], p) EXCEPT !.refused = @ \cup {r}]
                     ELSE dlWin
         /\ IF r \in Served(p) THEN Spend ELSE UNCHANGED dlFaults
    /\ UNCHANGED <<dlChain, dlStaged, dlLoop>>

PeerLost(p) ==
    /\ PeersTurn
    /\ p \in dlNet.live
    /\ dlNet' = disconnect_source(dlNet, {p})
    /\ Spend
    /\ UNCHANGED <<dlChain, dlWin, dlStaged, dlLoop>>

Forget(x, p) == IF x = p THEN DlNoPeer ELSE x

(* A new session of the endpoint: what the old one held is given back, and  *)
(* what still names the old one names nobody.                               *)
on_peer_ready(p) ==
    /\ PeersTurn
    /\ p \notin dlNet.live
    /\ dlNet' = [dlNet EXCEPT !.live = @ \cup {p}]
    /\ dlWin' = retain_owned_by(dlWin, dlNet.live)
    /\ dlStaged' = [i \in DOMAIN dlStaged |-> [dlStaged[i] EXCEPT !.from = Forget(@, p)]]
    /\ dlLoop' = [dlLoop EXCEPT !.queue = [i \in DOMAIN @ |-> Forget(@[i], p)],
                                !.plan.owner = Forget(@, p)]
    /\ UNCHANGED <<dlChain, dlFaults>>

HeadersArrive ==
    /\ AtPc("idle")
    /\ \E t \in DlTips \ dlChain.known :
         /\ Ancestors[t] \cap dlChain.invalid = {}
         /\ dlChain' = [dlChain EXCEPT !.known = @ \cup Ancestors[t],
                                       !.tip = IF Height[t] > Height[@] THEN t ELSE @]
    /\ UNCHANGED <<dlWin, dlStaged, dlLoop, dlNet, dlFaults>>

-----------------------------------------------------------------------------
(* The clock *)

Coming(p) == {r[2] : r \in AskedOf(p)}

(* An answer that never comes lets every deadline of its owner pass; before *)
(* that, an early deadline is a fault.                                      *)
TimeUp(p) == IF PendingOf(dlWin, p) \subseteq Coming(p) THEN Spend ELSE UNCHANGED dlFaults

OwnerTimesOut(p) ==
    /\ PeersTurn
    /\ PendingOf(dlWin, p) # {}
    /\ p \notin dlWin.overdue
    /\ TimeUp(p)
    /\ dlWin' = [dlWin EXCEPT !.overdue = @ \cup {p}]
    /\ UNCHANGED <<dlChain, dlStaged, dlLoop, dlNet>>

CooldownEnds(p) ==
    /\ AtPc("idle")
    /\ p \in dlWin.cooling
    /\ dlWin' = [dlWin EXCEPT !.cooling = @ \ {p}]
    /\ UNCHANGED <<dlChain, dlStaged, dlLoop, dlNet, dlFaults>>

RefusalEnds ==
    /\ AtPc("idle")
    /\ \E r \in dlWin.refused : dlWin' = [dlWin EXCEPT !.refused = @ \ {r}]
    /\ UNCHANGED <<dlChain, dlStaged, dlLoop, dlNet, dlFaults>>

(* The staged bodies have waited for long; to say so while anything is on   *)
(* its way is a fault.                                                      *)
StagedAge ==
    /\ AtPc("idle")
    /\ \E i \in DOMAIN dlStaged : ~dlStaged[i].old
    /\ IF dlNet.asked = {} THEN UNCHANGED dlFaults ELSE Spend
    /\ dlStaged' = [i \in DOMAIN dlStaged |-> [dlStaged[i] EXCEPT !.old = TRUE]]
    /\ UNCHANGED <<dlChain, dlWin, dlLoop, dlNet>>

-----------------------------------------------------------------------------
(* The sync thread: a tick *)

reconcile_peer_sessions ==
    /\ AtPc("idle")
    /\ dlWin' = retain_owned_by(dlWin, dlNet.live)
    /\ GoTo("receive")
    /\ UNCHANGED <<dlChain, dlStaged, dlNet, dlFaults>>

(* Known and settled at or below the applied tip of the active branch. *)
BehindApplied(b) ==
    /\ applied_is_chain_ancestor
    /\ Height[b] <= Height[dlChain.applied]
    /\ OnBranch(b, dlChain.tip)

unrequested_body_admissible(b) ==
    OnBranch(b, dlChain.tip) /\ Height[b] >= Height[dlChain.applied]

(* The oldest bodies beyond the budget, the next expected one excepted. *)
evict_over_budget(s) ==
    LET over == Minus(Len(s), DlMaxReceived)
        free == {i \in DOMAIN s : s[i].hash \notin next_required_body}
    IN  {s[i].hash : i \in {j \in free : Cardinality({k \in free : k < j}) < over}}

Answered(d) == [dlNet EXCEPT !.asked = @ \ {<<d.from, d.hash>>}]

Arrival(d) ==
    LET s == Append(dlStaged, [hash |-> d.hash, from |-> d.from, old |-> FALSE])
        out == evict_over_budget(s)
    IN  /\ dlStaged' = StagedWithout(s, out)
        /\ dlWin' = requeue_for_retry(mark_received_from(dlWin, d.hash, d.from), out)

requested(d) == d.hash \in Pending(dlWin)

(* Bodies that are dropped without a word. *)
Unwanted(d) ==
    \/ BehindApplied(d.hash)
    \/ /\ d.hash \notin StagedSet(dlStaged) /\ ~requested(d)
       /\ \/ ~unrequested_body_admissible(d.hash)
          \/ d.good /\ Len(dlStaged) >= DlMaxReceived

AlreadyStaged(d) ==
    /\ d.hash \in StagedSet(dlStaged)
    /\ dlWin' = [ObservationEnds(dlWin, d.hash, d.from) EXCEPT !.refused = @ \ {<<d.from, d.hash>>}]
    /\ UNCHANGED dlStaged

process_reject_deliveries(d) ==
    LET guilty == {d.from} \cap {p \in DlPeer : d.hash \in PendingOf(dlWin, p)}
    IN  /\ ~d.good
        /\ dlWin' = mark_peer_unresponsive(reject_delivery(dlWin, d.hash, d.from), guilty)
        /\ dlNet' = disconnect_source(Answered(d), guilty)
        /\ UNCHANGED dlStaged

(* DroppedForRetry: no room for its bytes. *)
DroppedForRetry(d) ==
    /\ dlWin' = requeue_for_retry(dlWin, {d.hash} \cap Pending(dlWin))
    /\ UNCHANGED dlStaged

buffer_received_block(d) ==
    \/ Unwanted(d) /\ dlNet' = Answered(d) /\ UNCHANGED <<dlWin, dlStaged, dlLoop>>
    \/ /\ ~Unwanted(d)
       /\ dlLoop' = [dlLoop EXCEPT !.got = TRUE]
       /\ \/ AlreadyStaged(d) /\ dlNet' = Answered(d)
          \/ /\ d.hash \notin StagedSet(dlStaged)
             /\ process_reject_deliveries(d) \/ (d.good /\ Arrival(d) /\ dlNet' = Answered(d))

Body(p, b, good) == [hash |-> b, from |-> p, good |-> good]

(* A body of a live session: the one asked for, or a fault. *)
drain_inbound_blocks(p) ==
    /\ AtPc("receive")
    /\ p \in dlNet.live
    /\ \/ /\ \E r \in Served(p) : buffer_received_block(Body(p, r[2], TRUE))
          /\ UNCHANGED dlFaults
       \/ /\ Spend
          /\ \/ \E r \in Served(p) : buffer_received_block(Body(p, r[2], FALSE))
             \/ \E b \in dlChain.known \ {Genesis} :
                  /\ <<p, b>> \notin dlNet.asked /\ Height[b] <= DlBest[p]
                  /\ buffer_received_block(Body(p, b, TRUE))
             \/ \E r \in Served(p) :
                  LET d == Body(p, r[2], TRUE)
                  IN  /\ ~Unwanted(d) /\ d.hash \notin StagedSet(dlStaged)
                      /\ DroppedForRetry(d)
                      /\ dlNet' = Answered(d)
                      /\ dlLoop' = [dlLoop EXCEPT !.got = TRUE]
    /\ UNCHANGED dlChain

(* Nothing more arrived.  With nothing received and nothing staged the tick *)
(* goes straight to the requests.                                           *)
prune_expired ==
    LET old == {dlStaged[i].hash : i \in {j \in DOMAIN dlStaged : dlStaged[j].old}}
    IN  /\ AtPc("receive")
        /\ dlStaged' = StagedWithout(dlStaged, old)
        /\ dlWin' = requeue_for_retry(dlWin, old)
        /\ dlLoop' = [dlLoop EXCEPT
                         !.pc = IF dlLoop.got \/ dlStaged # <<>> THEN "switch" ELSE "observe",
                         !.got = FALSE]
        /\ UNCHANGED <<dlChain, dlNet, dlFaults>>

-----------------------------------------------------------------------------
(* The sync thread: connecting blocks *)

(* What can be connected with these bodies, in order and without a gap. *)
Connectable(have) == {b \in ToConnect : Ancestors[b] \cap ToConnect \subseteq have}

Sound(S) == {b \in S : Ancestors[b] \cap dlChain.bad = {}}

Topmost(S) == {b \in S : \A c \in S : Height[c] <= Height[b]}

(* The chainstate connected the blocks of done and found those of failed    *)
(* invalid: it marks their subtree and moves the header tip off it, and the *)
(* window lets go of every body and request in there.                       *)
purge_invalidated(done, failed) ==
    LET dead == {b \in dlChain.known : Ancestors[b] \cap failed # {}}
        guilty == staged_source(dlStaged, failed) \cap dlNet.live
    IN  /\ \E t \in IF failed = {} THEN {dlChain.tip}
                    ELSE Topmost(dlChain.known \ (dlChain.invalid \cup dead)) :
             dlChain' = [dlChain EXCEPT
                            !.applied = IF done = {} THEN @ ELSE CHOOSE b \in Topmost(done) : TRUE,
                            !.tip = t,
                            !.stored = @ \cup done,
                            !.invalid = @ \cup dead]
        /\ dlStaged' = StagedWithout(dlStaged, done \cup dead)
        /\ dlWin' = mark_peer_unresponsive(remove_pending(dlWin, dead), guilty)
        /\ dlNet' = disconnect_source(dlNet, guilty)

(* A switch needs no more than the first body of the heavier branch; bodies *)
(* on disk serve as well as staged ones.  Without one, or when the switch   *)
(* fails for another reason than the block, nothing changes.                *)
switch_branch_if_outweighed ==
    LET all == Connectable(StagedSet(dlStaged) \cup dlChain.stored)
    IN  /\ AtPc("switch")
        /\ GoTo("apply")
        /\ IF applied_is_chain_ancestor \/ all = {}
           THEN UNCHANGED <<dlChain, dlStaged, dlWin, dlNet, dlFaults>>
           ELSE \/ purge_invalidated(Sound(all), LowestOf(all \ Sound(all))) /\ UNCHANGED dlFaults
                \/ Spend /\ UNCHANGED <<dlChain, dlStaged, dlWin, dlNet>>

(* The staged prefix goes to the chainstate.  It stops at an invalid block, *)
(* or at any block for a reason of its own: that body is dropped and asked  *)
(* for again, the ones behind it stay staged.                               *)
apply_buffered_blocks ==
    LET all == IF applied_is_chain_ancestor THEN Connectable(StagedSet(dlStaged)) ELSE {}
    IN  /\ AtPc("apply")
        /\ GoTo("observe")
        /\ \/ purge_invalidated(Sound(all), LowestOf(all \ Sound(all))) /\ UNCHANGED dlFaults
           \/ \E b \in all :
                LET done == {c \in Sound(all) : Height[c] < Height[b]}
                IN  /\ done = {c \in all : Height[c] < Height[b]}
                    /\ Spend
                    /\ dlChain' = [dlChain EXCEPT !.applied = IF done = {} THEN @ ELSE Parent[b],
                                                  !.stored = @ \cup done]
                    /\ dlStaged' = StagedWithout(dlStaged, done \cup {b})
                    /\ dlWin' = requeue_for_retry(dlWin, {b})
                    /\ UNCHANGED dlNet

-----------------------------------------------------------------------------
(* The sync thread: blaming and asking *)

Blame(w, p) ==
    /\ dlNet' = disconnect_source(dlNet, {p})
    /\ dlWin' = retain_owned_by(mark_peer_unresponsive(w, {p}), dlNet.live \ {p})

NoBlame(w) == dlWin' = retain_owned_by(w, dlNet.live) /\ UNCHANGED dlNet

apply_side_busy == next_required_body # {} /\ next_required_body \subseteq StagedSet(dlStaged)

(* The block everything staged is waiting for, if somebody was asked for it. *)
window_blocked_on ==
    {b \in LowestOf(Pending(dlWin)) :
        /\ Height[b] = IF next_required_body = {} THEN Height[dlChain.applied] + 1 ELSE FrontHeight
        /\ Len(dlStaged) >= DlMaxReceived \div 2
        /\ \E c \in StagedSet(dlStaged) : Height[c] > Height[b]}

advance_stall ==
    \E b \in window_blocked_on :
        LET p == dlWin.pend[b].owner IN Blame(dlWin, p) /\ TimeUp(p)

(* A deadline that passed is seen twice before its owner is blamed. *)
advance_pending_timeout ==
    LET o == dlWin.obs
        v == [dlWin EXCEPT !.obs = NoObservation]
        late == {b \in Pending(dlWin) : dlWin.pend[b].owner \in dlWin.overdue}
    IN  \/ /\ o # NoObservation
           /\ IF o.released \/ (o.hash \in PendingOf(dlWin, o.owner) /\ o.owner \in dlWin.overdue)
              THEN Blame(v, o.owner) ELSE NoBlame(v)
        \/ /\ o = NoObservation /\ late = {}
           /\ NoBlame(dlWin)
        \/ /\ o = NoObservation
           /\ \E b \in LowestOf(late) :
                NoBlame([dlWin EXCEPT !.obs = [owner |-> dlWin.pend[b].owner, hash |-> b,
                                               released |-> FALSE]])

reconcile_window_recovery ==
    /\ AtPc("observe")
    /\ GoTo("select")
    /\ \/ /\ apply_side_busy
          /\ \/ /\ NoBlame([dlWin EXCEPT !.obs = NoObservation])
                /\ UNCHANGED <<dlStaged, dlFaults>>
             \/ /\ Spend   \* escalate_stuck_staged_body
                /\ dlStaged' = StagedWithout(dlStaged, next_required_body)
                /\ NoBlame([requeue_for_retry(dlWin, next_required_body)
                               EXCEPT !.obs = NoObservation])
       \/ ~apply_side_busy /\ advance_stall /\ UNCHANGED dlStaged
       \/ ~apply_side_busy /\ advance_pending_timeout /\ UNCHANGED <<dlStaged, dlFaults>>
    /\ UNCHANGED dlChain

request_peer_scan_limit(w, s) ==
    LET expired == Cardinality({b \in Pending(w) : w.pend[b].owner \in w.overdue})
        blocks == AtMost(Minus(DlMaxPending, Cardinality(Pending(w)) - expired),
                         staged_count_headroom(w, s, expired))
        each == AtMost(DlBatch, DlInflight)
    IN  IF blocks = 0 THEN 0
        ELSE (blocks + each - 1) \div each
               + Cardinality({p \in DlPeer : PendingOf(w, p) # {}})

(* Peers that are late, cooling down or known to lack the block come last,  *)
(* and only if there is no other.                                           *)
sync_peer_selection(w, s) ==
    LET able == {p \in dlNet.live : DlBest[p] >= FrontHeight}
        soft == {p \in able : \/ p \in w.overdue \cup w.cooling
                              \/ \E b \in next_required_body : <<p, b>> \in w.refused}
        servers == IF able = soft THEN able ELSE able \ soft
        n == AtMost(Cardinality(servers), request_peer_scan_limit(w, s))
    IN  {q \in [1 .. n -> servers] :
            /\ \A i, j \in 1 .. n : i < j => q[i] # q[j] /\ DlBest[q[i]] >= DlBest[q[j]]
            /\ \A p \in servers : (\E i \in 1 .. n : q[i] = p)
                                     \/ \A i \in 1 .. n : DlBest[q[i]] >= DlBest[p]}

NextPeer(loop) ==
    IF Len(loop.queue) <= 1 THEN [loop EXCEPT !.pc = "idle", !.queue = <<>>, !.plan = NoPlan]
    ELSE [loop EXCEPT !.pc = "plan", !.queue = Tail(@), !.plan = NoPlan]

window_selection ==
    /\ AtPc("select")
    /\ IF next_required_body = {} \/ dlNet.live = {}
       THEN GoTo("idle") /\ UNCHANGED <<dlWin, dlStaged>>
       ELSE /\ dlWin' = retarget_request_branch(dlWin, dlChain.tip)
            /\ dlStaged' = RetargetedStage(dlWin, dlStaged, dlChain.tip)
            /\ \E q \in sync_peer_selection(dlWin', dlStaged') :
                 dlLoop' = [dlLoop EXCEPT !.pc = IF q = <<>> THEN "idle" ELSE "plan", !.queue = q]
    /\ UNCHANGED <<dlChain, dlNet, dlFaults>>

(* next_peer_request; the last peer is asked even if it is late. *)
plan_peer_getdata_request ==
    LET p == Head(dlLoop.queue)
        late == p \in dlWin.overdue \cup dlWin.cooling
        Ask(backoff) ==
            LET e == expire_pending(dlWin, backoff)
                r == next_peer_request_allowing_retry(e.win, e.gone, dlStaged, p)
            IN  /\ dlWin' = r.win
                /\ dlLoop' = IF r.plan = NoPlan THEN NextPeer(dlLoop)
                             ELSE [dlLoop EXCEPT !.pc = "send", !.plan = r.plan]
    IN  /\ AtPc("plan")
        /\ IF p \notin dlNet.live \/ (late /\ Len(dlLoop.queue) > 1)
           THEN dlLoop' = NextPeer(dlLoop) /\ UNCHANGED <<dlWin, dlFaults>>
           ELSE \/ Ask({}) /\ UNCHANGED dlFaults
                \/ \E q \in DlPeer : Skipped(dlWin, q) # {} /\ Ask({q}) /\ TimeUp(q)
        /\ UNCHANGED <<dlChain, dlStaged, dlNet>>

(* send_then: the window records the request only if the session still      *)
(* lives and takes the message.                                             *)
dispatch_getdata_request ==
    LET plan == dlLoop.plan
        w == mark_requested(dlWin, plan)
    IN  /\ AtPc("send")
        /\ \/ /\ plan.owner \in dlNet.live
              /\ dlWin' = w
              /\ dlNet' = [dlNet EXCEPT !.asked = @ \cup ({plan.owner} \X plan.entries)]
              /\ dlLoop' = IF has_request_capacity(w, dlStaged) THEN NextPeer(dlLoop)
                           ELSE NextPeer([dlLoop EXCEPT !.queue = <<>>])
              /\ UNCHANGED dlFaults
           \/ /\ IF plan.owner \in dlNet.live THEN Spend ELSE UNCHANGED dlFaults
              /\ dlLoop' = NextPeer(dlLoop)
              /\ UNCHANGED <<dlWin, dlNet>>
        /\ UNCHANGED <<dlChain, dlStaged>>

-----------------------------------------------------------------------------
SyncTick ==
    \/ reconcile_peer_sessions \/ prune_expired
    \/ switch_branch_if_outweighed \/ apply_buffered_blocks
    \/ reconcile_window_recovery \/ window_selection
    \/ plan_peer_getdata_request \/ dispatch_getdata_request

PeerStep(p) ==
    \/ drain_inbound_blocks(p) \/ Ignore(p)
    \/ block_not_found(p) \/ PeerLost(p) \/ on_peer_ready(p)

ClockStep == StagedAge \/ RefusalEnds \/ \E p \in DlPeer : OwnerTimesOut(p) \/ CooldownEnds(p)

DownloadNext == SyncTick \/ HeadersArrive \/ ClockStep \/ \E p \in DlPeer : PeerStep(p)

(* The service goes on ticking; no request stays unanswered for ever, no    *)
(* peer stays away, and no clock stands still while nothing is on its way.  *)
(* Each line is weak or strong fairness of a step that ends what it waits   *)
(* for, written as the state that cannot last.                              *)
DownloadSurroundings ==
    /\ []<>AtPc("idle")
    /\ \A p \in DlPeer :
         /\ \A b \in Block : []<>(<<p, b>> \notin dlNet.asked)
         /\ []<>(p \in dlNet.live)
         /\ []<>(p \in dlWin.overdue \/ PendingOf(dlWin, p) \subseteq Coming(p))
         /\ []<>(p \notin dlWin.cooling)
         /\ \A b \in Block : []<>(<<p, b>> \notin dlWin.refused)
    /\ []<>(dlNet.asked # {} \/ \A i \in DOMAIN dlStaged : dlStaged[i].old)

DownloadFairness == DownloadSurroundings /\ []<>~AtPc("idle")

DownloadSpec == DownloadInit /\ [][DownloadNext]_dlVars /\ DownloadFairness

-----------------------------------------------------------------------------
(* The chain, the window, the stager and the sessions hold known blocks and *)
(* peers.                                                                   *)
DownloadTypeOK ==
    /\ dlChain.applied \in Block /\ dlChain.tip \in dlChain.known
    /\ dlChain.known \subseteq Block /\ dlChain.invalid \subseteq dlChain.known
    /\ Pending(dlWin) \subseteq dlChain.known
    /\ \A b \in Pending(dlWin) :
         /\ dlWin.pend[b].owner \in DlPeer
         /\ dlWin.pend[b].after \subseteq PendingOf(dlWin, dlWin.pend[b].owner)
    /\ dlWin.next \in Nat
    /\ dlWin.overdue \cup dlWin.cooling \subseteq DlPeer
    /\ StagedSet(dlStaged) \subseteq dlChain.known
    /\ dlNet.live \subseteq DlPeer
    /\ dlFaults \in 0 .. DlMaxFaults

(* A body is asked for or staged, never both and never twice, also by the   *)
(* request that was planned before the lock was let go; both stay within    *)
(* their budgets; and every request in the window has a clock: its owner is *)
(* live or the next tick takes it back.                                     *)
WindowIsConsistent ==
    /\ Pending(dlWin) \cap StagedSet(dlStaged) = {}
    /\ dlLoop.plan.entries \cap (Pending(dlWin) \cup StagedSet(dlStaged)) = {}
    /\ Cardinality(StagedSet(dlStaged)) = Len(dlStaged)
    /\ Len(dlStaged) <= DlMaxReceived
    /\ Cardinality(Pending(dlWin)) <= DlMaxPending
    /\ \A p \in DlPeer : Cardinality(PendingOf(dlWin, p)) <= DlInflight
    /\ dlWin.overdue \subseteq {p \in DlPeer : PendingOf(dlWin, p) # {}}

Complete == dlChain.applied = dlChain.tip

(* However peers refuse, ignore, alter, vanish and return, and whatever the *)
(* chainstate rejects: the node ends up with the best header's block        *)
(* applied.                                                                 *)
DownloadCompletes == <>[]Complete

=============================================================================
