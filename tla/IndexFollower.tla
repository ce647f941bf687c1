--------------------------- MODULE IndexFollower ---------------------------
(***************************************************************************)
(* The derived index worker (crates/index/src/runtime and index): it       *)
(* follows the applied tip, keeps one watermark per capability, rolls back *)
(* the capabilities whose watermark left the active chain, seeds the live  *)
(* script index from a snapshot artifact, and writes forward batches.      *)
(*                                                                         *)
(* The worker is the only writer of the store.  What runs beside it is the *)
(* chain (the tip moves, and only later the event reaches the worker),     *)
(* pruning, bodies that arrive, artifacts that are offered, the clock, and *)
(* a crash at any point, between the batches of one reset or seed too.     *)
(*                                                                         *)
(* Abstractions.  A row is the block that contributed it; the live rows    *)
(* after a block are the blocks applied so far.  The runtime revision is   *)
(* only compared with an earlier reading, so it is the flag "moved since". *)
(* A history lease delays pruning until it is evicted, so it is left out:  *)
(* a request is granted exactly when nothing below it is or is about to be *)
(* pruned.  The published phases and the index-ahead evidence, which no    *)
(* decision reads, and the format and namespace checks of opening are left *)
(* out.  Shutting down is the crash that loses nothing.                    *)
(***************************************************************************)
EXTENDS BlockGraph, FiniteSets

CONSTANTS
    Enabled,        \* configured capabilities
    Leftover,       \* capabilities an earlier configuration left in the store
    IdentityChunk,  \* IDENTITY_CHUNK_BLOCKS
    Cutover,        \* rollback_rebuild_cutover
    StartTip,       \* applied tip the node first starts with
    IndexStarts,    \* first watermarks, absent bodies, unreadable undo records,
                    \* and the moves and faults already used up
    MaxMoves,       \* bound: moves of the applied tip
    MaxFaults,      \* bound: crashes, prunes and failed seeds
    NoBlock

Capability == {"tx_lookup", "script_history", "script_live", "compact_filters"}

ASSUME IndexAssumption ==
    /\ Enabled \subseteq Capability
    /\ Leftover \subseteq Capability \ Enabled
    /\ StartTip \in Block
    /\ NoBlock \notin Block
    /\ IndexStarts \subseteq [mark : Block \cup {NoBlock}, late : SUBSET Block,
                              lost : SUBSET (Block \ {Genesis}), moves : Nat, faults : Nat]
    /\ {IdentityChunk, Cutover, MaxMoves, MaxFaults} \subseteq Nat
    /\ IdentityChunk > 0

VARIABLES
    idxChain,  \* the applied tip, the chain event cursor, an event still owed
    idxHist,   \* bodies, the durable ones, the prune line and its reservation
    idxStore,  \* the index store: all of it durable
    idxSlot,   \* the seed slot shared with the checkpoint publisher
    idxWork,   \* the worker
    idxWake,   \* the wake channel and "the revision moved"
    idxUsed    \* moves and faults so far

idxVars == <<idxChain, idxHist, idxStore, idxSlot, idxWork, idxWake, idxUsed>>

NoBatch == [caps |-> {}, durable |-> NoBlock, end |-> NoBlock, blocks |-> {},
            fresh |-> TRUE, late |-> FALSE]

Marks == Block \cup {NoBlock}

-----------------------------------------------------------------------------
(* Selections *)

tip == idxChain.tip

mark == idxStore.mark

effective_enabled == Enabled \ idxWork.failed

forward_start(m) == IF m = NoBlock THEN 0 ELSE Height[m] + 1

watermark_is_on_target_chain(m, t) == m \in Ancestors[t]

(* Enabled capabilities whose watermark is off the chain of t. *)
OffChain(t) ==
    {c \in effective_enabled :
        mark[c] # NoBlock /\ ~watermark_is_on_target_chain(mark[c], t)}

(* The capabilities the next rollback takes: they share the highest          *)
(* watermark that left the chain of t.                                       *)
rollback_selection(t) ==
    {{d \in effective_enabled : mark[d] = mark[c]} :
        c \in {e \in OffChain(t) : \A d \in OffChain(t) : Height[mark[d]] <= Height[mark[e]]}}

NeedsForward(t) ==
    {c \in effective_enabled : mark[c] = NoBlock \/ Height[mark[c]] < Height[t]}

(* The capabilities with the lowest start that is at least from. *)
forward_selection(t, from) ==
    LET open == {c \in NeedsForward(t) : forward_start(mark[c]) >= from}
    IN  {c \in open : \A d \in open : forward_start(mark[c]) <= forward_start(mark[d])}

(* Blocks of m's chain above its last block on the chain of t. *)
RollbackDepth(m, t) == Cardinality(Ancestors[m] \ Ancestors[t])

(* Every enabled capability stands at m once caps do. *)
is_aligned(caps, m) == \A c \in Enabled : c \in caps \/ mark[c] = m

-----------------------------------------------------------------------------
(* The store *)

(* The claim batch of a reset, and what its purge and completion leave. *)
Claimed(caps) ==
    [idxStore EXCEPT
        !.mark = [c \in Capability |-> IF c \in caps THEN NoBlock ELSE @[c]],
        !.floor = [c \in Capability |-> IF c \in caps THEN 0 ELSE @[c]],
        !.cursor = NoBlock,
        !.claim = caps]

(* Mutant: the header rows go with any reset. *)
PurgedWithHeaders ==
    [idxStore EXCEPT
        !.rows = [c \in Capability |-> IF c \in idxStore.claim THEN {} ELSE @[c]],
        !.headers = {},
        !.claim = {}]

Purged ==
    [idxStore EXCEPT
        !.rows = [c \in Capability |-> IF c \in idxStore.claim THEN {} ELSE @[c]],
        !.headers = IF \E c \in Capability \ idxStore.claim : mark[c] # NoBlock
                    THEN @ ELSE {},
        !.claim = {}]

Stamped(caps, m) == [c \in Capability |-> IF c \in caps THEN m ELSE mark[c]]

(* The cursor a commit that leaves caps at m may store: none unless the      *)
(* chain event cursor and every enabled capability stand at m.               *)
cursor_for_result(caps, m) ==
    IF /\ "compact_filters" \notin idxWork.failed
       /\ m = idxChain.told
       /\ is_aligned(caps, m)
    THEN m ELSE NoBlock

Forwarded(b) ==
    LET cursor == cursor_for_result(b.caps, b.end)
    IN  [idxStore EXCEPT
            !.rows = [c \in Capability |-> IF c \in b.caps THEN @[c] \cup b.blocks ELSE @[c]],
            !.headers = @ \cup b.blocks,
            !.mark = Stamped(b.caps, b.end),
            !.cursor = IF cursor = NoBlock THEN @ ELSE cursor]

RolledBack(caps, m) ==
    [idxStore EXCEPT
        !.rows = [c \in Capability |-> IF c \in caps THEN @[c] \ {m} ELSE @[c]],
        !.headers = IF \E c \in Capability \ caps :
                          mark[c] # NoBlock /\ Height[mark[c]] >= Height[m]
                    THEN @ ELSE @ \ {m},
        !.mark = Stamped(caps, Parent[m]),
        !.cursor = cursor_for_result(caps, Parent[m])]

(* No reset came after the fence that the batch was begun under.             *)
FenceLive(b) == b.fresh

(* The batch continues the watermark of its capabilities without a gap. *)
chain_forward_blocks(b) ==
    /\ \A c \in b.caps : mark[c] = b.durable
    /\ b.blocks = Ancestors[b.end] \ (IF b.durable = NoBlock THEN {} ELSE Ancestors[b.durable])

-----------------------------------------------------------------------------
(* The worker's moves: where it stands next, and what it changes there. *)

At(pc) == idxWork.pc = pc

(* The variables of a pass end with it. *)
Move(w, pc) ==
    IF pc \in {"pass", "recheck", "check", "persist", "wait", "quiet", "buffered"}
    THEN [w EXCEPT !.pc = pc, !.then = "pass", !.target = Genesis, !.fresh = TRUE,
                   !.after = 0, !.want = FALSE]
    ELSE [w EXCEPT !.pc = pc]

To(pc) == idxWork' = Move(idxWork, pc)

(* Only sync_and_commit touches more than the store, the slot and itself. *)
Alone == UNCHANGED <<idxChain, idxHist, idxUsed>>

(* Mutant: the revision moves and the worker is not woken. *)
WakeWithoutToken == idxWake' = [idxWake EXCEPT !.moved = TRUE]

wake == idxWake' = [token |-> TRUE, moved |-> TRUE]

want == idxSlot' = [idxSlot EXCEPT !.demand = @ \/ idxSlot.artifact = NoBlock]

(* Claims a reset of caps; the purge is a step of its own. *)
reset_capabilities(caps, w, then) ==
    /\ idxStore' = Claimed(caps)
    /\ idxWork' = [w EXCEPT !.pc = "purge", !.then = then]

resume_capability_reset ==
    /\ At("purge")
    /\ idxStore' = Purged
    /\ To(idxWork.then)
    /\ UNCHANGED <<idxSlot, idxWake>>
    /\ Alone

(* Opening completes a reset that a crash interrupted. *)
open_writer ==
    /\ At("down")
    /\ idxStore' = Purged
    /\ To("pass")
    /\ UNCHANGED <<idxSlot, idxWake>>
    /\ Alone

(* The revision is read, then the watermarks and the applied tip. *)
reconcile_pass ==
    LET leftover == {c \in Capability \ Enabled : mark[c] # NoBlock}
        start == [idxWork EXCEPT !.target = tip,
                                 !.pc = IF idxWork.batch = NoBatch THEN "drain" ELSE "pending"]
    IN  /\ At("pass")
        /\ idxWake' = [idxWake EXCEPT !.moved = FALSE]
        /\ \/ leftover # {} /\ reset_capabilities(leftover, idxWork, "pass")
           \/ leftover = {} /\ idxWork' = start /\ UNCHANGED idxStore
        /\ UNCHANGED idxSlot
        /\ Alone

commit_then(then) == idxWork' = [idxWork EXCEPT !.pc = "commit", !.then = then]

reconcile_pending ==
    LET b == idxWork.batch
        t == idxWork.target
        extends == Height[b.end] < Height[t] /\ watermark_is_on_target_chain(b.end, t)
    IN  /\ At("pending")
        /\ IF ~FenceLive(b)
           THEN idxWork' = Move([idxWork EXCEPT !.batch = NoBatch], "quiet")
           ELSE IF \E c \in b.caps : mark[c] # b.durable THEN To("failed")
           ELSE IF b.end = t /\ ~b.late THEN To("buffered")
           ELSE IF b.end = t THEN commit_then("recheck")
           ELSE IF extends /\ ~b.late THEN To("leg")
           ELSE commit_then("pass")
        /\ UNCHANGED <<idxStore, idxSlot, idxWake>>
        /\ Alone

-----------------------------------------------------------------------------
(* drain_rollbacks: one selection at a time, all against the same target. *)

fail_capabilities(caps, then) ==
    /\ idxWork' = [idxWork EXCEPT !.failed = @ \cup caps, !.pc = then]
    /\ wake

DrainDone ==
    /\ At("drain")
    /\ OffChain(idxWork.target) = {}
    /\ To("seed")
    /\ UNCHANGED <<idxStore, idxSlot, idxWake>>
    /\ Alone

(* A selection too deep, or without its header row, is rebuilt. *)
RollbackRebuilds(caps, m) ==
    /\ reset_capabilities(caps, idxWork, "drain")
    /\ UNCHANGED <<idxSlot, idxWake>>

RollbackPruned(caps, m) ==
    IF "compact_filters" \in caps
    THEN fail_capabilities({"compact_filters"}, "drain") /\ UNCHANGED <<idxStore, idxSlot>>
    ELSE IF "script_live" \in caps
    THEN fail_capabilities({"script_live"}, "drain") /\ want /\ UNCHANGED idxStore
    ELSE RollbackRebuilds(caps, m)

RollbackWithoutUndo(caps) ==
    LET failed == [idxWork EXCEPT
                      !.failed = @ \cup (caps \cap {"compact_filters", "script_history"})]
    IN  /\ IF "script_live" \in caps
           THEN reset_capabilities({"script_live"}, failed, "drain")
           ELSE idxWork' = failed /\ UNCHANGED idxStore
        /\ IF caps \cap {"compact_filters", "script_history"} # {} THEN wake ELSE UNCHANGED idxWake
        /\ UNCHANGED idxSlot

needs_anchor(caps) == caps \cap {"script_history", "script_live", "compact_filters"} # {}

(* request_history: refused below the prune line, deferred below a line      *)
(* that is reserved.                                                         *)
HistoryPruned(h) == h < idxHist.below

HistoryReserved(h) == h < idxHist.line

rollback_one(caps, m) ==
    IF HistoryPruned(Height[m]) THEN RollbackPruned(caps, m)
    ELSE IF HistoryReserved(Height[m]) \/ m \notin idxHist.bodies
    THEN To("quiet") /\ UNCHANGED <<idxStore, idxSlot, idxWake>>
    ELSE IF needs_anchor(caps) /\ m \in idxHist.lost THEN RollbackWithoutUndo(caps)
    ELSE IF m \notin idxStore.headers THEN RollbackRebuilds(caps, m)
    ELSE /\ idxStore' = RolledBack(caps, m)
         /\ UNCHANGED <<idxWork, idxSlot, idxWake>>

drain_rollbacks ==
    /\ At("drain")
    /\ \E caps \in rollback_selection(idxWork.target) :
         LET m == mark[CHOOSE c \in caps : TRUE]
         IN  IF RollbackDepth(m, idxWork.target) > Cutover
             THEN RollbackRebuilds(caps, m)
             ELSE rollback_one(caps, m)
    /\ Alone

-----------------------------------------------------------------------------
(* Seeding the live script index. *)

dispatch_script_live_seed_pass ==
    /\ At("seed")
    /\ IF "script_live" \notin Enabled
       THEN To("forward") /\ UNCHANGED <<idxStore, idxSlot>>
       ELSE IF mark["script_live"] = NoBlock
       THEN To("dispatch") /\ UNCHANGED <<idxStore, idxSlot>>
       ELSE IF "script_live" \notin idxWork.failed
       THEN /\ idxWork' = [idxWork EXCEPT !.pc = "forward", !.bundle = NoBlock]
            /\ idxSlot' = [demand |-> FALSE, artifact |-> NoBlock]
            /\ UNCHANGED idxStore
       ELSE /\ reset_capabilities({"script_live"},
                   [idxWork EXCEPT !.failed = @ \ {"script_live"}], "dispatch")
            /\ UNCHANGED idxSlot
    /\ UNCHANGED idxWake
    /\ Alone

(* An artifact at hand is used; otherwise rows of an interrupted seed are    *)
(* cleared and the rows come from a replay of the blocks.                    *)
seed_dispatch ==
    LET replay == [idxWork EXCEPT !.pc = "forward", !.want = TRUE]
    IN  /\ At("dispatch")
        /\ \/ /\ idxWork.bundle # NoBlock
              /\ To("bundle")
              /\ UNCHANGED <<idxStore, idxSlot>>
           \/ /\ idxWork.bundle = NoBlock
              /\ idxSlot.artifact # NoBlock
              /\ idxWork' = [idxWork EXCEPT !.pc = "bundle", !.bundle = idxSlot.artifact,
                                            !.failed = @ \ {"script_live"}]
              /\ idxSlot' = [demand |-> FALSE, artifact |-> NoBlock]
              /\ UNCHANGED idxStore
           \/ /\ idxWork.bundle = NoBlock
              /\ idxSlot.artifact = NoBlock
              /\ IF idxStore.rows["script_live"] # {}
                 THEN reset_capabilities({"script_live"}, replay, "forward")
                 ELSE idxWork' = replay /\ UNCHANGED idxStore
              /\ UNCHANGED idxSlot
        /\ UNCHANGED idxWake
        /\ Alone

seed_from_bundle ==
    LET h == Height[idxWork.bundle]
    IN  /\ At("bundle")
        /\ IF HistoryPruned(h)
           THEN /\ idxWork' = [idxWork EXCEPT !.pc = "forward", !.want = TRUE,
                                              !.bundle = NoBlock]
                /\ UNCHANGED idxStore
           ELSE IF HistoryReserved(h) THEN To("quiet") /\ UNCHANGED idxStore
           ELSE reset_capabilities({"script_live"}, idxWork, "seeding")
        /\ UNCHANGED <<idxSlot, idxWake>>
        /\ Alone

(* The batches before the last one carry rows and no watermark. *)
SeedRows ==
    /\ At("seeding")
    /\ idxStore' = [idxStore EXCEPT !.rows["script_live"] = {Genesis}]
    /\ To("sealing")
    /\ UNCHANGED <<idxSlot, idxWake>>
    /\ Alone

(* The last batch stamps the watermark. *)
SeedDone ==
    /\ At("sealing")
    /\ idxStore' = [idxStore EXCEPT
                       !.rows["script_live"] = Ancestors[idxWork.bundle],
                       !.mark["script_live"] = idxWork.bundle]
    /\ idxWork' = Move([idxWork EXCEPT !.bundle = NoBlock, !.failed = @ \ {"script_live"}],
                       "pass")
    /\ UNCHANGED <<idxSlot, idxWake>>
    /\ Alone

-----------------------------------------------------------------------------
(* Forward legs *)

(* The blocks of the next leg: the target chain from start, one chunk.  *)
collect_target_chain(start) ==
    {b \in Ancestors[idxWork.target] : start <= Height[b] /\ Height[b] < start + IdentityChunk}

(* Those before the first absent body. *)
load_body_prefix(ids) == {b \in ids : ids \cap Ancestors[b] \subseteq idxHist.bodies}

Highest(bs) == CHOOSE b \in bs : \A c \in bs : Height[c] <= Height[b]

ForwardPruned(caps) ==
    LET below == idxHist.below
        bare == [idxWork EXCEPT !.batch = NoBatch]
    IN  IF "compact_filters" \in caps
        THEN /\ idxWork' = Move([bare EXCEPT !.failed = @ \cup {"compact_filters"}], "pass")
             /\ wake
             /\ UNCHANGED <<idxStore, idxSlot>>
        ELSE IF "script_live" \in caps
        THEN /\ idxWork' = Move([bare EXCEPT !.failed = @ \cup {"script_live"}], "quiet")
             /\ wake /\ want
             /\ UNCHANGED idxStore
        ELSE /\ IF below - 1 > Height[idxWork.target]
                THEN idxWork' = Move(bare, "quiet") /\ UNCHANGED idxStore
                ELSE reset_capabilities(caps,
                         [bare EXCEPT !.anchor = [caps |-> caps, below |-> below]], "anchor")
             /\ UNCHANGED <<idxSlot, idxWake>>

(* A rebuild after pruning starts above an anchor at the prune line. *)
anchor_watermark ==
    LET a == idxWork.anchor
        m == CHOOSE b \in Ancestors[idxWork.target] : Height[b] = a.below - 1
    IN  /\ At("anchor")
        /\ idxStore' = [idxStore EXCEPT
                           !.mark = Stamped(a.caps, m),
                           !.floor = [c \in Capability |-> IF c \in a.caps THEN a.below ELSE @[c]]]
        /\ idxWork' = Move([idxWork EXCEPT !.anchor = [caps |-> {}, below |-> 0]], "pass")
        /\ UNCHANGED <<idxSlot, idxWake>>
        /\ Alone

(* An undo record that a selected capability needs cannot be read.  A live   *)
(* index among them is reset under the fence of this pass.                   *)
ForwardWithoutUndo(caps, start) ==
    LET w == [idxWork EXCEPT
                 !.batch = NoBatch,
                 !.failed = @ \cup (caps \ {"tx_lookup"})]
    IN  /\ wake
        /\ IF "script_live" \in caps
           THEN /\ reset_capabilities({"script_live"},
                       [w EXCEPT !.fresh = FALSE, !.after = start + 1], "forward")
                /\ want
           ELSE /\ idxWork' = Move(w, "pass")
                /\ UNCHANGED <<idxStore, idxSlot>>

(* catch_up_to: b is the batch so far.  Loaded blocks are admitted until     *)
(* the batch is full, a body is absent or the chunk ends.                    *)
catch_up_to(b, start) ==
    LET ids == collect_target_chain(start)
        loaded == load_body_prefix(ids)
        Upto(e) == [b EXCEPT !.end = e,
                             !.blocks = @ \cup {c \in loaded : Height[c] <= Height[e]}]
        Hold(pc, n) == /\ idxWork' = Move([idxWork EXCEPT !.batch = n], pc)
                       /\ UNCHANGED <<idxStore, idxSlot, idxWake>>
    IN  IF HistoryPruned(start) THEN ForwardPruned(b.caps)
        ELSE IF HistoryReserved(start) THEN Hold("quiet", IF b.blocks = {} THEN NoBatch ELSE b)
        ELSE IF loaded = {} /\ b.blocks # {} THEN Hold("buffered", b)
        ELSE IF loaded = {}
        THEN /\ idxWork' = [idxWork EXCEPT !.batch = NoBatch, !.after = start + 1,
                                           !.pc = "forward"]
             /\ UNCHANGED <<idxStore, idxSlot, idxWake>>
        ELSE IF needs_anchor(b.caps) /\ loaded \cap idxHist.lost # {}
        THEN ForwardWithoutUndo(b.caps, start)
        ELSE \/ \E e \in loaded :
                  /\ idxWork' = [idxWork EXCEPT !.batch = Upto(e), !.pc = "commit",
                                                !.then = "pass"]
                  /\ UNCHANGED <<idxStore, idxSlot, idxWake>>
             \/ Hold(IF loaded # ids THEN "buffered"
                     ELSE IF Highest(loaded) = idxWork.target THEN "finish" ELSE "pass",
                     Upto(Highest(loaded)))

execute_forward_pass ==
    LET caps == forward_selection(idxWork.target, idxWork.after)
        m == mark[CHOOSE c \in caps : TRUE]
    IN  /\ At("forward")
        /\ caps # {}
        /\ catch_up_to([NoBatch EXCEPT !.caps = caps, !.durable = m, !.fresh = idxWork.fresh],
                       forward_start(m))
        /\ Alone

(* No capability is left to move: stalled if one was passed over. *)
ForwardDone ==
    /\ At("forward")
    /\ forward_selection(idxWork.target, idxWork.after) = {}
    /\ To(IF idxWork.after > 0 THEN "quiet" ELSE "recheck")
    /\ IF /\ idxWork.after > 0 /\ idxWork.want
          /\ mark["script_live"] = NoBlock /\ idxWork.bundle = NoBlock
       THEN want ELSE UNCHANGED idxSlot
    /\ UNCHANGED <<idxStore, idxWake>>
    /\ Alone

(* A batch that is pending and that the target extends. *)
ExtendPending ==
    /\ At("leg")
    /\ catch_up_to(idxWork.batch, Height[idxWork.batch.end] + 1)
    /\ Alone

(* The applied tip is read again before the batch is given up for commit. *)
finish_catch_up ==
    LET e == idxWork.batch.end
    IN  /\ At("finish")
        /\ IF Height[e] < Height[tip] /\ watermark_is_on_target_chain(e, tip) THEN To("pass")
           ELSE IF e = tip THEN To("buffered")
           ELSE commit_then("pass")
        /\ UNCHANGED <<idxStore, idxSlot, idxWake>>
        /\ Alone

(* Mutant: the batch is committed before the bodies are synced. *)
CommitUnsynced ==
    LET b == idxWork.batch
        w == [idxWork EXCEPT !.batch = NoBatch]
    IN  /\ At("commit")
        /\ IF ~FenceLive(b)
           THEN idxWork' = Move(w, "quiet") /\ UNCHANGED idxStore
           ELSE IF ~chain_forward_blocks(b) THEN To("failed") /\ UNCHANGED idxStore
           ELSE /\ idxStore' = Forwarded(b)
                /\ idxWork' = Move([w EXCEPT !.failed = @ \ b.caps], w.then)
        /\ UNCHANGED <<idxChain, idxHist, idxSlot, idxWake, idxUsed>>

(* Bodies are made durable before the rows that refer to them. *)
sync_and_commit ==
    LET b == idxWork.batch
        w == [idxWork EXCEPT !.batch = NoBatch]
    IN  /\ At("commit")
        /\ idxHist' = [idxHist EXCEPT !.synced = idxHist.bodies]
        /\ IF ~FenceLive(b)
           THEN idxWork' = Move(w, "quiet") /\ UNCHANGED idxStore
           ELSE IF ~chain_forward_blocks(b) THEN To("failed") /\ UNCHANGED idxStore
           ELSE /\ idxStore' = Forwarded(b)
                /\ idxWork' = Move([w EXCEPT !.failed = @ \ b.caps], w.then)
        /\ UNCHANGED <<idxChain, idxSlot, idxWake, idxUsed>>

-----------------------------------------------------------------------------
(* Between passes *)

reconcile_once ==
    /\ At("recheck")
    /\ To(IF OffChain(tip) # {} \/ NeedsForward(tip) # {} THEN "pass" ELSE "check")
    /\ UNCHANGED <<idxStore, idxSlot, idxWake>>
    /\ Alone

CheckRevision ==
    /\ At("check")
    /\ To(IF idxWake.moved THEN "pass" ELSE "persist")
    /\ UNCHANGED <<idxStore, idxSlot, idxWake>>
    /\ Alone

persist_chain_cursor ==
    LET settled == "compact_filters" \in idxWork.failed \/ idxChain.told # tip
    IN  /\ At("persist")
        /\ To(IF settled \/ is_aligned({}, tip) THEN "wait" ELSE "quiet")
        /\ idxStore' = IF ~settled /\ is_aligned({}, tip)
                       THEN [idxStore EXCEPT !.cursor = tip] ELSE idxStore
        /\ UNCHANGED <<idxSlot, idxWake>>
        /\ Alone

(* A wake reaches a worker that waits for one or for its batch deadline. *)
Woken ==
    /\ idxWork.pc \in {"wait", "buffered"}
    /\ idxWake.token
    /\ idxWake' = [idxWake EXCEPT !.token = FALSE]
    /\ To("pass")
    /\ UNCHANGED <<idxStore, idxSlot>>
    /\ Alone

wait_for_batch_deadline ==
    /\ At("buffered")
    /\ idxWork.batch.late
    /\ commit_then("pass")
    /\ UNCHANGED <<idxStore, idxSlot, idxWake>>
    /\ Alone

wait_for_revision_quiet ==
    /\ At("quiet")
    /\ \/ /\ idxWake.token
          /\ idxWake' = [token |-> FALSE, moved |-> FALSE]
          /\ UNCHANGED idxWork
       \/ /\ idxWake' = [idxWake EXCEPT !.moved = FALSE]
          /\ IF idxWake.moved THEN UNCHANGED idxWork ELSE To("pass")
    /\ UNCHANGED <<idxStore, idxSlot>>
    /\ Alone

IndexWorker ==
    \/ resume_capability_reset \/ open_writer \/ reconcile_pass \/ reconcile_pending
    \/ DrainDone \/ drain_rollbacks
    \/ dispatch_script_live_seed_pass \/ seed_dispatch \/ seed_from_bundle
    \/ SeedRows \/ SeedDone
    \/ anchor_watermark \/ execute_forward_pass \/ ForwardDone \/ ExtendPending
    \/ finish_catch_up \/ sync_and_commit
    \/ reconcile_once \/ CheckRevision \/ persist_chain_cursor
    \/ Woken \/ wait_for_batch_deadline \/ wait_for_revision_quiet

-----------------------------------------------------------------------------
(* Around the worker *)

Fault == /\ idxUsed.faults < MaxFaults
         /\ idxUsed' = [idxUsed EXCEPT !.faults = @ + 1]

(* The applied tip connects a block, or disconnects one whose body and undo  *)
(* it has, above what pruning may delete; the event and the wake follow.     *)
TipMoves ==
    /\ ~idxChain.owed
    /\ idxUsed.moves < MaxMoves
    /\ \/ \E b \in Children(tip) :
              /\ idxChain' = [idxChain EXCEPT !.tip = b, !.owed = TRUE]
              /\ idxHist' = [idxHist EXCEPT !.bodies = @ \cup {b}]
       \/ /\ tip \in idxHist.bodies \ idxHist.lost
          /\ Height[tip] > idxHist.line
          /\ idxChain' = [idxChain EXCEPT !.tip = Parent[tip], !.owed = TRUE]
          /\ UNCHANGED idxHist
    /\ idxUsed' = [idxUsed EXCEPT !.moves = @ + 1]
    /\ UNCHANGED <<idxStore, idxSlot, idxWork, idxWake>>

wake_index ==
    /\ idxChain.owed
    /\ idxChain' = [idxChain EXCEPT !.told = tip, !.owed = FALSE]
    /\ wake
    /\ UNCHANGED <<idxHist, idxStore, idxSlot, idxWork, idxUsed>>

BodyArrives ==
    /\ \E b \in Ancestors[tip] \ idxHist.bodies :
         /\ Height[b] >= idxHist.line
         /\ idxHist' = [idxHist EXCEPT !.bodies = @ \cup {b}]
    /\ UNCHANGED <<idxChain, idxStore, idxSlot, idxWork, idxWake, idxUsed>>

PruneReserves ==
    /\ idxHist.line = idxHist.below
    /\ \E h \in idxHist.below + 1 .. Height[tip] : idxHist' = [idxHist EXCEPT !.line = h]
    /\ Fault
    /\ UNCHANGED <<idxChain, idxStore, idxSlot, idxWork, idxWake>>

PruneCommits ==
    LET kept == {b \in Block : Height[b] >= idxHist.line}
    IN  /\ idxHist.line > idxHist.below
        /\ idxHist' = [idxHist EXCEPT !.below = idxHist.line, !.bodies = @ \cap kept,
                                      !.synced = @ \cap kept]
        /\ UNCHANGED <<idxChain, idxStore, idxSlot, idxWork, idxWake, idxUsed>>

DeadlinePasses ==
    /\ idxWork.batch # NoBatch
    /\ ~idxWork.batch.late
    /\ idxWork' = [idxWork EXCEPT !.batch.late = TRUE]
    /\ UNCHANGED <<idxChain, idxHist, idxStore, idxSlot, idxWake, idxUsed>>

(* A checkpoint of the applied tip is published, with the bodies below it    *)
(* made durable, and offered to a worker that asked for one.                 *)
offer_committed_seed ==
    /\ idxSlot.demand
    /\ idxSlot.artifact = NoBlock
    /\ idxSlot' = [idxSlot EXCEPT !.artifact = tip]
    /\ idxHist' = [idxHist EXCEPT !.synced = idxHist.bodies]
    /\ UNCHANGED <<idxChain, idxStore, idxWork, idxWake, idxUsed>>

(* An artifact proves corrupt and the rows are reset, or a batch cannot be   *)
(* written and the artifact is kept for the next pass.                       *)
SeedPoisoned ==
    /\ At("sealing")
    /\ Fault
    /\ reset_capabilities({"script_live"}, [idxWork EXCEPT !.bundle = NoBlock], "pass")
    /\ UNCHANGED <<idxChain, idxHist, idxSlot, idxWake>>

SeedWriteFails ==
    /\ At("sealing")
    /\ Fault
    /\ To("quiet")
    /\ UNCHANGED <<idxChain, idxHist, idxStore, idxSlot, idxWake>>

Stopped == [pc |-> "down", then |-> "pass", target |-> Genesis, fresh |-> TRUE,
            batch |-> NoBatch, after |-> 0, want |-> FALSE, bundle |-> NoBlock,
            anchor |-> [caps |-> {}, below |-> 0], failed |-> {}]

(* The node restarts with an applied tip it had made durable, and with the   *)
(* bodies it had; the worker asks for a seed until it finds live rows.       *)
Crash ==
    /\ ~At("down")
    /\ Fault
    /\ \E t \in {b \in Ancestors[tip] : Height[b] >= idxHist.line} :
         idxChain' = [tip |-> t, told |-> t, owed |-> FALSE]
    /\ idxHist' = [idxHist EXCEPT !.bodies = idxHist.synced, !.line = idxHist.below]
    /\ idxSlot' = [demand |-> TRUE, artifact |-> NoBlock]
    /\ idxWork' = Stopped
    /\ idxWake' = [token |-> FALSE, moved |-> FALSE]
    /\ UNCHANGED idxStore

IndexInit ==
    /\ idxChain = [tip |-> StartTip, told |-> StartTip, owed |-> FALSE]
    /\ \E s \in IndexStarts :
         LET was(c) == IF c \in Leftover THEN Genesis
                       ELSE IF c \in Enabled THEN s.mark ELSE NoBlock
             chain(b) == IF b = NoBlock THEN {} ELSE Ancestors[b]
             had == (Ancestors[StartTip] \cup chain(s.mark)) \ s.late
         IN  /\ idxHist = [bodies |-> had, synced |-> had, lost |-> s.lost,
                           below |-> 0, line |-> 0]
             /\ idxUsed = [moves |-> s.moves, faults |-> s.faults]
             /\ idxStore = [mark |-> [c \in Capability |-> was(c)],
                            rows |-> [c \in Capability |-> chain(was(c))],
                            floor |-> [c \in Capability |-> 0],
                            headers |-> UNION {chain(was(c)) : c \in Capability},
                            cursor |-> NoBlock, claim |-> {}]
    /\ idxSlot = [demand |-> TRUE, artifact |-> NoBlock]
    /\ idxWork = Stopped
    /\ idxWake = [token |-> FALSE, moved |-> FALSE]

IndexNext ==
    \/ IndexWorker
    \/ TipMoves \/ wake_index \/ BodyArrives \/ PruneReserves \/ PruneCommits
    \/ DeadlinePasses \/ offer_committed_seed \/ SeedPoisoned \/ SeedWriteFails
    \/ Crash

(* The event dispatch, the download of missing bodies, a started prune and   *)
(* the clock go on: fairness of the step that ends each state named here.    *)
IndexSurroundings ==
    /\ []<>~idxChain.owed
    /\ []<>({b \in Ancestors[tip] : Height[b] >= idxHist.line} \subseteq idxHist.bodies)
    /\ []<>(idxHist.line = idxHist.below)
    /\ []<>(idxWork.batch = NoBatch \/ idxWork.batch.late)

(* So does the worker thread; tips, faults and offers need not come.         *)
IndexFairness == IndexSurroundings /\ WF_idxVars(IndexWorker)

IndexSpec == IndexInit /\ [][IndexNext]_idxVars /\ IndexFairness

-----------------------------------------------------------------------------
(* Watermarks, rows and floors are kept per capability; what is durable of   *)
(* the history exists, and only enabled capabilities fail or are batched.    *)
IndexTypeOK ==
    /\ idxChain \in [tip : Block, told : Block, owed : BOOLEAN]
    /\ idxStore.mark \in [Capability -> Marks]
    /\ idxStore.rows \in [Capability -> SUBSET Block]
    /\ idxStore.claim \subseteq Capability
    /\ idxHist.synced \subseteq idxHist.bodies
    /\ idxHist.below <= idxHist.line
    /\ idxWork.failed \subseteq Enabled
    /\ idxWork.batch.caps \subseteq Enabled

(* A watermark speaks for its rows: they are exactly the rows of its chain   *)
(* above the floor, whatever reset, seed or batch a crash cut short.         *)
RowsMatchWatermark ==
    \A c \in Capability : mark[c] # NoBlock =>
        idxStore.rows[c] = {b \in Ancestors[mark[c]] : Height[b] >= idxStore.floor[c]}

(* The header row a rollback looks for is there for every watermark that was *)
(* reached by rows, shared header rows and partial resets included.          *)
IdentityKept ==
    \A c \in Capability \ {"script_live"} :
        mark[c] # NoBlock /\ Height[mark[c]] >= idxStore.floor[c] => mark[c] \in idxStore.headers

(* The stored consumer cursor is never ahead of an enabled capability.       *)
CursorCovered ==
    idxStore.cursor # NoBlock =>
        \A c \in Enabled : mark[c] # NoBlock /\ idxStore.cursor \in Ancestors[mark[c]]

(* Rows that outlive a crash refer to bodies that do, unless pruned.         *)
RowsHaveBodies ==
    \A c \in {"tx_lookup", "script_history"} : mark[c] # NoBlock =>
        \A b \in idxStore.rows[c] : Height[b] >= idxHist.below => b \in idxHist.synced

(* No order of reorganisations, resets and stale batches makes the worker    *)
(* meet a batch that does not continue its watermarks.                       *)
NoContradiction == idxWork.pc # "failed"

(* What the store says of itself stays true, whatever tips, resets, seeds,   *)
(* batches and crashes come: of rows, of headers and of the cursor.          *)
StoreIsCoherent == RowsMatchWatermark /\ IdentityKept /\ CursorCovered /\ NoContradiction

CaughtUp == \A c \in effective_enabled : mark[c] = tip

(* Once the tip and the faults rest, every available capability reaches it.  *)
IndexCatchesUp == <>[]CaughtUp
=============================================================================
