---------------------------- MODULE JournalWriter ----------------------------
(***************************************************************************)
(* The chainstate journal writer (storage/src/chainstate_journal/writer.rs *)
(* and writer/), the files it keeps and the restore path that reads them   *)
(* back.  The journal is a log of connected blocks above a checkpoint: the *)
(* log lives in numbered segment files and head.json names its durable     *)
(* end.  The caller is the chainstate: it asks prepare_for_apply before a  *)
(* block, appends the block after its head batch, rewinds on a disconnect  *)
(* and drains the log through freeze / compact / resume.                   *)
(*                                                                         *)
(* Abstractions.  A record is its block; it takes one unit of its segment. *)
(* Elapsed time against batch_seconds and max_lag_seconds is a free choice *)
(* (due).  A call is told which of its I/O boundaries fails (f): the       *)
(* boundaries are the ones JournalWriterFailpoint names, with the three    *)
(* before the rename of head.json merged into HeadWrite.  A crash inside a *)
(* call is the same call failing at that boundary, followed by Crash.      *)
(***************************************************************************)
EXTENDS BlockGraph, Integers, Sequences, SequencesExt

CONSTANTS
    BaseBlock,        \* tip of the checkpoint the node starts from
    KnownCounts,      \* FALSE: the base checkpoint carries no chain_tx_count
    BatchBlocks,      \* JournalPolicy.batch_blocks
    RotateRecords,    \* rotate_mib, in records
    MaxRecords,       \* max_journal_mib, in records
    MaxLag,           \* max_lag_blocks
    MaxSegGen,        \* model bound: segment generations
    MaxCkptGen,       \* model bound: checkpoint generations
    MaxStaged,        \* model bound: blocks prepared but not yet appended
    Faults,           \* I/O boundaries that may fail
    FaultyBoot        \* FALSE: none of them fails while a boot recovers

ASSUME JournalAssumption ==
    /\ BaseBlock \in Block
    /\ {KnownCounts, FaultyBoot} \subseteq BOOLEAN
    /\ {BatchBlocks, RotateRecords, MaxRecords, MaxLag} \subseteq Nat \ {0}
    /\ {MaxSegGen, MaxCkptGen, MaxStaged} \subseteq Nat
    /\ Faults \subseteq {"SegmentAppend", "SegmentAppendPartial", "RollbackFails",
                         "SegmentSync", "StorageFlush", "HeadWrite", "HeadDirSync",
                         "RewindTruncate", "RemoveSegments", "Checkpoint"}

VARIABLES
    w,       \* the JournalWriter in memory
    disk,    \* the journal directory: head, lastHead, seg, marker
    ckpt,    \* the checkpoint CURRENT names: generation, tip, count
    tip,     \* the caller's applied tip
    head,    \* the tip of the durable head, which survives a crash
    staged,  \* blocks that passed prepare_for_apply and are not yet appended
    owed,    \* a disconnect marker is retained: its rewind failed
    phase,   \* "run", "boot", "closed", "down", or a step of publish_transaction
    kind     \* the DisconnectRetirement of the running publish_transaction

vars == <<w, disk, ckpt, tip, head, staged, owed, phase, kind>>

None == "none"
NoHead == [kind |-> "absent"]
NoFile == [exists |-> FALSE, data |-> <<>>, synced |-> 0]
Torn == "torn"
Fault == Faults \cup {None}
SegGen == 0..MaxSegGen

(* Every block carries one transaction; 0 on the wire means unknown. *)
TxCountOf(b) == IF KnownCounts THEN Height[b] + 1 ELSE 0

(* advance_chain_tx_count *)
AdvanceCount(base, count) ==
    IF count = 0 /\ Height[base.blk] # 0 THEN 0 ELSE count + 1

(* HeadMarker: base, start cursor, durable cursor, tip, count, record count *)
MarkerAt(base, start, gen, off, blk, count, records) ==
    [kind |-> "head", base |-> base, start |-> start, gen |-> gen, off |-> off,
     blk |-> blk, count |-> count, records |-> records]

HeadOf(v) ==
    MarkerAt(v.base, v.start, v.durable.gen, v.durable.off, v.durable.blk,
             v.durable.count, v.records)

(* The writer restore() builds from a head marker. *)
Restored(h) ==
    [base |-> h.base, start |-> h.start, pending |-> <<>>,
     segGen |-> h.gen, segOff |-> h.off,
     durable |-> [gen |-> h.gen, off |-> h.off, blk |-> h.blk, count |-> h.count],
     nextHeight |-> Height[h.blk] + 1, count |-> h.count, records |-> h.records,
     gap |-> FALSE, retry |-> FALSE, invalidated |-> FALSE, state |-> "Open"]

FreshHead(gen, blk, count) ==
    MarkerAt([gen |-> gen, blk |-> blk, count |-> count],
             [gen |-> 0, off |-> 0], 0, 0, blk, count, 0)

---------------------------------------------------------------------------
(* Files.  lastHead is the head.json the directory entry is synced to: a   *)
(* crash may bring it back while the directory sync of a rename is owed.   *)

(* write_head_atomic: temp write, rename, directory sync. *)
WriteHead(d, h, f) ==
    IF f = "HeadWrite" THEN [ok |-> FALSE, d |-> d]
    ELSE IF f = "HeadDirSync" THEN [ok |-> FALSE, d |-> [d EXCEPT !.head = h]]
    ELSE [ok |-> TRUE, d |-> [d EXCEPT !.head = h, !.lastHead = h]]

(* Mutant: set_len without sync_all. *)
TruncatedUnsynced(file, len) == [file EXCEPT !.data = SubSeq(@, 1, len)]

Truncated(file, len) ==
    [file EXCEPT !.data = SubSeq(@, 1, len), !.synced = len]

(* journal_size_bytes *)
JournalSize(d) ==
    FoldFunctionOnSet(LAMBDA n, m : n + m, 0,
                      [g \in SegGen |-> Len(d.seg[g].data)], SegGen)

(* The frames of the committed window start..(gen, off), with the cursor   *)
(* each one ends at.                                                       *)
CommittedFrames(d, start, gen, off) ==
    FlattenSeq([i \in 1..(gen - start.gen + 1) |->
        LET g == start.gen + i - 1
            from == IF g = start.gen THEN start.off ELSE 0
            to == IF g = gen THEN off ELSE Len(d.seg[g].data)
            n == IF to < from THEN 0 ELSE to - from
        IN  [k \in 1..n |-> [gen |-> g, off |-> from + k, blk |-> d.seg[g].data[from + k]]]])

(* stream_committed_range finds a file for the first and the last segment. *)
WindowPresent(d, start, gen, off) ==
    /\ d.seg[start.gen].exists
    /\ d.seg[gen].exists
    /\ off <= Len(d.seg[gen].data)

(* ReplayCursor::accept over the frames, from the checkpoint tip. *)
Contiguous(frames, base) ==
    \A i \in 1..Len(frames) :
       /\ frames[i].blk # Torn
       /\ Parent[frames[i].blk] = IF i = 1 THEN base ELSE frames[i - 1].blk

BaseMatches(h, ck) ==
    /\ h # NoHead
    /\ h.base = ck
    /\ Height[h.blk] >= Height[ck.blk]
    /\ Height[h.blk] = Height[ck.blk] =>
          h.blk = ck.blk /\ h.count = ck.count /\ h.records = 0

(* replay_committed_range and validate_replayed_head: the committed window *)
(* replays onto the checkpoint tip and ends where the head marker says.    *)
ReplayOk(d, ck) ==
    /\ BaseMatches(d.head, ck)
    /\ Height[d.head.blk] # Height[ck.blk] =>
          /\ WindowPresent(d, d.head.start, d.head.gen, d.head.off)
          /\ LET frames == CommittedFrames(d, d.head.start, d.head.gen, d.head.off)
             IN  /\ Len(frames) = d.head.records
                 /\ Contiguous(frames, ck.blk)
                 /\ frames # <<>> /\ Last(frames).blk = d.head.blk
                 /\ d.head.count = IF ck.count = 0 /\ Height[ck.blk] # 0
                                   THEN 0 ELSE ck.count + Len(frames)

---------------------------------------------------------------------------
(* The writer's methods, as functions from a writer and a directory to a   *)
(* return value, a writer and a directory.                                 *)

Ret(ok, v, d) == [ok |-> ok, w |-> v, d |-> d]

(* A later step of a method runs on the result of an earlier one. *)
Commit(wrote, v, kept) == IF wrote.ok THEN Ret(TRUE, v, wrote.d) ELSE Ret(FALSE, kept, wrote.d)

(* Mutant: head.json is published before the segment is synced. *)
AdvanceToUnsynced(v, d, n, last, count, f) ==
    IF f \in {"StorageFlush", "SegmentSync"} \/ ~d.seg[v.segGen].exists
    THEN Ret(FALSE, v, d)
    ELSE Commit(WriteHead(d, MarkerAt(v.base, v.start, v.segGen, last.end, last.blk,
                                      count, v.records + n), f),
                [v EXCEPT !.durable = [gen |-> v.segGen, off |-> last.end,
                                       blk |-> last.blk, count |-> count],
                          !.records = @ + n,
                          !.pending = SubSeq(@, n + 1, Len(@))],
                v)

(* try_advance_durability_upto: flush, segment sync, head, memory. *)
AdvanceTo(v, d, n, last, count, f) ==
    IF f \in {"StorageFlush", "SegmentSync"} \/ ~d.seg[v.segGen].exists
    THEN Ret(FALSE, v, d)
    ELSE Commit(WriteHead([d EXCEPT !.seg[v.segGen].synced = Len(d.seg[v.segGen].data)],
                          MarkerAt(v.base, v.start, v.segGen, last.end, last.blk,
                                   count, v.records + n), f),
                [v EXCEPT !.durable = [gen |-> v.segGen, off |-> last.end,
                                       blk |-> last.blk, count |-> count],
                          !.records = @ + n,
                          !.pending = SubSeq(@, n + 1, Len(@))],
                v)

TryAdvance(v, d, n, f) ==
    IF v.pending = <<>> \/ n = 0 THEN Ret(TRUE, v, d)
    ELSE AdvanceTo(v, d, n, v.pending[n],
                   FoldFunctionOnSet(LAMBDA x, c : AdvanceCount(v.base, c),
                                     v.durable.count, v.pending, 1..n), f)

(* advance_durability_upto: a failure owes a retry to the next apply. *)
OwesRetry(r) == [r EXCEPT !.w.retry = ~r.ok]
AdvanceUpto(v, d, n, f) == OwesRetry(TryAdvance(v, d, n, f))
AdvanceAll(v, d, f) == AdvanceUpto(v, d, Len(v.pending), f)

Appendable(v) == v.state = "Open" /\ ~v.gap

FailAppend(v, d) == Ret(FALSE, [v EXCEPT !.gap = TRUE], d)

(* maybe_rotate: the new segment exists and is synced before head names it. *)
Rotated(v) == [v EXCEPT !.segGen = @ + 1, !.segOff = 0,
                        !.durable.gen = v.segGen + 1, !.durable.off = 0]

RotateAfter(adv, f) ==
    IF ~adv.ok THEN adv
    ELSE Commit(WriteHead([adv.d EXCEPT !.seg[adv.w.segGen + 1] =
                              [exists |-> TRUE, data |-> <<>>, synced |-> 0]],
                          HeadOf(Rotated(adv.w)), f),
                Rotated(adv.w), adv.w)

MaybeRotate(v, d, f) ==
    IF v.segOff < RotateRecords THEN Ret(TRUE, v, d) ELSE RotateAfter(AdvanceAll(v, d, f), f)

(* append_record_bytes: the frame goes to the end of the file (O_APPEND);  *)
(* the offset the writer remembers advances from its own segment_offset.   *)
WriteFrame(v, d, x) ==
    [d EXCEPT !.seg[v.segGen] = [@ EXCEPT !.exists = TRUE, !.data = Append(@, x)]]

Pushed(v, b) ==
    [v EXCEPT !.segOff = @ + 1,
              !.pending = Append(@, [blk |-> b, end |-> v.segOff + 1]),
              !.nextHeight = @ + 1,
              !.count = AdvanceCount(v.base, @)]

AppendAfter(rot, b, due, f) ==
    IF ~rot.ok \/ f = "SegmentAppend" THEN FailAppend(rot.w, rot.d)
    ELSE IF f = "SegmentAppendPartial"
         THEN FailAppend(rot.w, [rot.d EXCEPT !.seg[rot.w.segGen] =
                                     [Truncated(@, rot.w.segOff) EXCEPT !.exists = TRUE]])
    ELSE IF f = "RollbackFails" THEN FailAppend(rot.w, WriteFrame(rot.w, rot.d, Torn))
    ELSE IF Len(rot.w.pending) + 1 >= BatchBlocks \/ due
         THEN AdvanceAll(Pushed(rot.w, b), WriteFrame(rot.w, rot.d, b), f)
    ELSE Ret(TRUE, Pushed(rot.w, b), WriteFrame(rot.w, rot.d, b))

(* Mutant: a later append of the same group forgets the gap. *)
AppendForgetsGap(v, d, b, due, f) ==
    IF v.state # "Open" THEN Ret(FALSE, v, d)
    ELSE IF Height[b] # v.nextHeight THEN FailAppend(v, d)
    ELSE AppendAfter(MaybeRotate([v EXCEPT !.gap = FALSE], d, f), b, due, f)

(* append *)
AppendRecord(v, d, b, due, f) ==
    IF ~Appendable(v) THEN Ret(FALSE, v, d)
    ELSE IF Height[b] # v.nextHeight THEN FailAppend(v, d)
    ELSE AppendAfter(MaybeRotate(v, d, f), b, due, f)

(* flush_due: an idle writer syncs a batch that is old enough. *)
FlushDue(v, d, due, f) ==
    IF v.state = "Open" /\ v.pending # <<>> /\ due THEN AdvanceAll(v, d, f) ELSE Ret(TRUE, v, d)

(* discard_invalidated_cold_segments *)
ColdDiscard(v, d) ==
    IF /\ JournalSize(d) >= MaxRecords
       /\ v.base.gen = 0 /\ Height[v.base.blk] = 0 /\ Height[v.durable.blk] = 0
       /\ v.segGen = 0 /\ v.segOff = 0 /\ v.records = 0 /\ v.pending = <<>>
       /\ d.marker
    THEN [d EXCEPT !.seg = [g \in SegGen |-> IF g = v.segGen THEN @[g] ELSE NoFile]]
    ELSE d

(* prepare_for_apply: settle what is owed, catch up, then check retention. *)
Retain(v, d) == Ret(JournalSize(d) < MaxRecords, v, d)

CheckRetention(r) == IF r.ok THEN Retain(r.w, ColdDiscard(r.w, r.d)) ELSE r

LagExceeded(v) == (v.nextHeight - 1) - Height[v.durable.blk] >= MaxLag

CatchUp(r, due, f) ==
    IF r.ok /\ (LagExceeded(r.w) \/ (r.w.pending # <<>> /\ due))
    THEN AdvanceAll(r.w, r.d, f) ELSE r

(* Mutants: admission that checks only retention; that ignores the gap. *)
PrepareUnpaced(v, d, due, f) ==
    IF ~Appendable(v) THEN Ret(FALSE, v, d) ELSE CheckRetention(Ret(TRUE, v, d))

PrepareOverGap(v, d, due, f) ==
    IF v.state # "Open" THEN Ret(FALSE, v, d)
    ELSE CheckRetention(CatchUp(IF v.retry THEN AdvanceAll(v, d, f) ELSE Ret(TRUE, v, d), due, f))

Prepare(v, d, due, f) ==
    IF ~Appendable(v) THEN Ret(FALSE, v, d)
    ELSE CheckRetention(CatchUp(IF v.retry THEN AdvanceAll(v, d, f) ELSE Ret(TRUE, v, d), due, f))

(* invalidate_generation: drop the log, leave the full-revalidation marker. *)
Invalidate(v, d) ==
    Ret(FALSE,
        [v EXCEPT !.pending = <<>>, !.retry = FALSE, !.invalidated = TRUE, !.state = "Frozen"],
        [head |-> NoHead, lastHead |-> NoHead, seg |-> [g \in SegGen |-> NoFile], marker |-> TRUE])

(* scan_fork_cursor: the cursor of the first frame at a height.  The scan  *)
(* adds every block's transactions to the base count, an unknown (0) base  *)
(* count included.                                                         *)
ScanForkCursor(frames, base, height) ==
    {[gen |-> frames[i].gen, off |-> frames[i].off, records |-> i,
      count |-> base.count + i, blk |-> frames[i].blk] :
        i \in {j \in 1..Len(frames) :
                 /\ \A k \in 1..j : frames[k].blk # Torn
                 /\ Height[frames[j].blk] = height
                 /\ \A k \in 1..(j - 1) : Height[frames[k].blk] < height}}

(* Mutant: only the durable end and the base are known cursors. *)
CursorsAtEnds(v, d, height) ==
    IF height = Height[v.durable.blk]
    THEN {[gen |-> v.durable.gen, off |-> v.durable.off, records |-> v.records,
           count |-> v.durable.count, blk |-> v.durable.blk]}
    ELSE {}

(* committed_cursor_at, or the durable cursor itself: at most one cursor. *)
CursorsAt(v, d, height) ==
    IF height = Height[v.durable.blk]
    THEN {[gen |-> v.durable.gen, off |-> v.durable.off, records |-> v.records,
           count |-> v.durable.count, blk |-> v.durable.blk]}
    ELSE IF height = Height[v.base.blk]
    THEN {[gen |-> v.start.gen, off |-> v.start.off, records |-> 0,
           count |-> v.base.count, blk |-> v.base.blk]}
    ELSE IF ~WindowPresent(d, v.start, v.durable.gen, v.durable.off) THEN {}
    ELSE ScanForkCursor(CommittedFrames(d, v.start, v.durable.gen, v.durable.off), v.base, height)

(* truncate_after: cut the fork segment, delete the later ones. *)
TruncateAfter(d, c) ==
    [d EXCEPT !.seg = [g \in SegGen |-> IF g > c.gen THEN NoFile
                                        ELSE IF g = c.gen /\ @[g].exists THEN Truncated(@[g], c.off)
                                        ELSE @[g]]]

(* rewind_to, after the fork is durable: move head to the fork point, then *)
(* cut the log behind it.                                                  *)
CutTo(wrote, v, c, fork, count, f) ==
    IF ~wrote.ok THEN Ret(FALSE, v, wrote.d)
    ELSE IF f = "RewindTruncate" THEN FailAppend(v, wrote.d)
    ELSE Ret(TRUE,
             [v EXCEPT !.segGen = c.gen, !.segOff = c.off,
                       !.durable = [gen |-> c.gen, off |-> c.off, blk |-> fork, count |-> count],
                       !.count = count, !.records = c.records,
                       !.nextHeight = Height[fork] + 1, !.pending = <<>>],
             TruncateAfter(wrote.d, c))

MoveHead(v, d, cursors, fork, count, f) ==
    IF \E c \in cursors : c.blk = fork /\ c.count = count
    THEN LET c == CHOOSE x \in cursors : TRUE
         IN  CutTo(WriteHead(d, MarkerAt(v.base, v.start, c.gen, c.off, fork, count, c.records), f),
                   v, c, fork, count, f)
    ELSE Ret(FALSE, v, d)

ForkDurable(v, d, fork, f) ==
    IF Height[fork] <= Height[v.durable.blk] THEN Ret(TRUE, v, d)
    ELSE IF \E i \in 1..Len(v.pending) : Height[v.pending[i].blk] = Height[fork]
    THEN AdvanceUpto(v, d, CHOOSE i \in 1..Len(v.pending) :
                              Height[v.pending[i].blk] = Height[fork], f)
    ELSE Ret(FALSE, v, d)

RewindAfter(adv, fork, count, f) ==
    IF ~adv.ok THEN adv
    ELSE MoveHead(adv.w, adv.d, CursorsAt(adv.w, adv.d, Height[fork]), fork, count, f)

Rewind(v, d, fork, count, f) ==
    IF ~Appendable(v) THEN Ret(FALSE, v, d)
    ELSE IF Height[fork] < Height[v.base.blk] THEN Invalidate(v, d)
    ELSE RewindAfter(ForkDurable(v, d, fork, f), fork, count, f)

(* freeze: refuse appends and make the whole log durable. *)
ThawOnError(r) == IF r.ok THEN r ELSE [r EXCEPT !.w.state = "Open"]

FreezeLog(v, d, f) ==
    IF v.invalidated THEN Ret(TRUE, v, d)
    ELSE IF ~Appendable(v) THEN Ret(FALSE, v, d)
    ELSE ThawOnError(AdvanceAll([v EXCEPT !.state = "Frozen"], d, f))

(* remove_retained_segments *)
RemoveRetained(r, retire, f) ==
    IF ~r.ok THEN r
    ELSE IF f = "RemoveSegments" THEN [r EXCEPT !.ok = FALSE]
    ELSE [r EXCEPT !.d.seg = [g \in SegGen |-> NoFile],
                   !.d.marker = IF retire THEN FALSE ELSE @]

CompactedOn(marker, v) == [Restored(marker) EXCEPT !.state = "Compacted", !.retry = v.retry]

CompactMarker(v, ck) ==
    MarkerAt(ck, [gen |-> v.segGen + 1, off |-> 0], v.segGen + 1, 0, ck.blk, ck.count, 0)

(* Mutant: compaction that keeps the old base. *)
CompactKeepsBase(v, d, ck, retire, f) ==
    IF v.state # "Frozen" \/ v.gap THEN Ret(FALSE, v, d) ELSE Ret(TRUE, v, d)

(* compact_to_checkpoint: restart the log on the new checkpoint, then drop *)
(* the retained segments and (unless recovery is still replaying) the      *)
(* full-revalidation marker.                                               *)
Compact(v, d, ck, retire, f) ==
    IF \/ v.state # "Frozen" \/ v.gap
       \/ ~v.invalidated /\ (v.durable.blk # ck.blk \/ v.durable.count # ck.count)
    THEN Ret(FALSE, v, d)
    ELSE RemoveRetained(Commit(WriteHead(d, CompactMarker(v, ck), f),
                               CompactedOn(CompactMarker(v, ck), v), v), retire, f)

(* resume: republish the head; the writer opens even when that fails. *)
ResumeLog(v, d, f) ==
    IF v.invalidated \/ v.state = "Open" THEN Ret(FALSE, v, d)
    ELSE Commit(WriteHead(d, HeadOf(v), f), [v EXCEPT !.state = "Open"], [v EXCEPT !.state = "Open"])

---------------------------------------------------------------------------
(* The caller: chainstate transitions, publication, crash and restart.     *)

Init ==
    LET base == [gen |-> 1, blk |-> BaseBlock, count |-> TxCountOf(BaseBlock)]
        start == FreshHead(base.gen, base.blk, base.count)
    IN  /\ w = Restored(start)
        /\ disk = [head |-> start, lastHead |-> start,
                   seg |-> [g \in SegGen |-> NoFile], marker |-> FALSE]
        /\ ckpt = base
        /\ tip = BaseBlock
        /\ head = BaseBlock
        /\ staged = 0
        /\ owed = FALSE
        /\ phase = "run"
        /\ kind = "Ordinary"

Called(r) == w' = r.w /\ disk' = r.d

MayFail(f) == phase = "boot" /\ ~FaultyBoot => f = None

(* A block asks for admission.  Retention pressure refuses it; any other   *)
(* journal error is fatal and closes the chainstate for recovery.          *)
PrepareForApply(due, f) ==
    /\ MayFail(f)
    /\ phase \in {"run", "boot"}
    /\ staged < MaxStaged
    /\ phase = "boot" => tip # head /\ tip \in Ancestors[head] /\ staged = 0
    /\ LET r == Prepare(w, disk, due, f)
           limit == Appendable(w) /\ ~r.w.retry
       IN  /\ Called(r)
           /\ staged' = IF r.ok THEN staged + 1 ELSE IF limit THEN staged ELSE 0
           /\ phase' = IF r.ok \/ limit THEN phase ELSE "closed"
    /\ UNCHANGED <<ckpt, tip, head, owed, kind>>

(* The journal record of a committed block; its failure is only logged. *)
AppendBlock(b, due, f) ==
    /\ MayFail(f)
    /\ phase \in {"run", "boot"}
    /\ staged > 0
    /\ w.segGen < MaxSegGen
    /\ b \in Children(tip)
    /\ phase = "boot" => b \in Ancestors[head]
    /\ Called(AppendRecord(w, disk, b, due, f))
    /\ tip' = b
    /\ head' = IF phase = "boot" THEN head ELSE b
    /\ staged' = staged - 1
    /\ UNCHANGED <<ckpt, owed, phase, kind>>

(* Mutant: the disconnect marker is disarmed whatever the rewind returned. *)
RewindToDisarms(f) ==
    /\ phase = "run"
    /\ staged = 0
    /\ tip # Genesis
    /\ LET r == Rewind(w, disk, Parent[tip], TxCountOf(Parent[tip]), f)
       IN  Called(r) /\ owed' = FALSE
    /\ tip' = Parent[tip]
    /\ head' = tip'
    /\ UNCHANGED <<ckpt, staged, phase, kind>>

(* A disconnected block: the journal rewinds to its parent; when it cannot *)
(* the disconnect marker is retained.                                      *)
RewindTo(f) ==
    /\ MayFail(f)
    /\ phase = "run"
    /\ staged = 0
    /\ tip # Genesis
    /\ LET r == Rewind(w, disk, Parent[tip], TxCountOf(Parent[tip]), f)
       IN  Called(r) /\ owed' = ~r.ok
    /\ tip' = Parent[tip]
    /\ head' = tip'
    /\ UNCHANGED <<ckpt, staged, phase, kind>>

(* The maintenance tick, which also runs after the chainstate closed. *)
IdleFlush(f) ==
    /\ MayFail(f)
    /\ phase \in {"run", "closed"}
    /\ w.pending # <<>>
    /\ Called(FlushDue(w, disk, TRUE, f))
    /\ UNCHANGED <<ckpt, tip, head, staged, owed, phase, kind>>

(* publish_transaction: freeze, checkpoint, compact, resume, retire.  A    *)
(* failed publication fails the boot it belongs to.                        *)
Freeze(k, f) ==
    /\ MayFail(f)
    /\ staged = 0
    /\ CASE k = "Ordinary"  -> phase = "run"
         [] k = "Recovered" -> phase = "boot" /\ owed /\ tip = head
         [] k = "Progress"  -> phase = "boot" /\ JournalSize(disk) >= MaxRecords
    /\ ckpt.gen < MaxCkptGen
    /\ w.segGen < MaxSegGen
    /\ LET r == FreezeLog(w, disk, f)
       IN  /\ Called(r)
           /\ phase' = IF r.ok THEN "frozen" ELSE IF k = "Ordinary" THEN "run" ELSE "down"
    /\ kind' = k
    /\ UNCHANGED <<ckpt, tip, head, staged, owed>>

(* publish_frozen: the new generation is CURRENT; the full-revalidation    *)
(* marker retires unless boot replay is still in progress.                 *)
PublishCheckpoint(f) ==
    /\ MayFail(f)
    /\ phase = "frozen"
    /\ f \in {None, "Checkpoint"}
    /\ IF f = None
       THEN /\ ckpt' = [gen |-> ckpt.gen + 1, blk |-> tip, count |-> TxCountOf(tip)]
            /\ disk' = [disk EXCEPT !.marker = @ /\ kind = "Progress"]
            /\ phase' = "published"
       ELSE UNCHANGED <<ckpt, disk>> /\ phase' = "failed"
    /\ UNCHANGED <<w, tip, head, staged, owed, kind>>

CompactToCheckpoint(f) ==
    /\ MayFail(f)
    /\ phase = "published"
    /\ LET r == Compact(w, disk, ckpt, kind # "Progress", f)
       IN  Called(r) /\ phase' = IF r.ok THEN "compacted" ELSE "failed"
    /\ UNCHANGED <<ckpt, tip, head, staged, owed, kind>>

(* Mutant: only a failed publication resumes the writer. *)
ResumeAfterFailure(f) ==
    /\ phase = "failed"
    /\ Called(ResumeLog(w, disk, f))
    /\ phase' = IF kind = "Ordinary" THEN "run" ELSE "down"
    /\ UNCHANGED <<ckpt, tip, head, staged, owed, kind>>

Resume(f) ==
    /\ MayFail(f)
    /\ phase \in {"compacted", "failed"}
    /\ LET r == ResumeLog(w, disk, f)
           done == r.ok /\ phase = "compacted"
       IN  /\ Called(r)
           /\ owed' = IF done /\ kind # "Progress" THEN FALSE ELSE owed
           /\ phase' = IF kind = "Ordinary" THEN "run"
                       ELSE IF ~done THEN "down"
                       ELSE IF kind = "Progress" THEN "boot" ELSE "run"
    /\ UNCHANGED <<ckpt, tip, head, staged, kind>>

(* Power loss: an unsynced rename and unsynced file tails may be lost. *)
CrashImages(d) ==
    {[d EXCEPT !.head = h, !.lastHead = h,
               !.seg = [g \in SegGen |->
                   LET keep == IF lost THEN d.seg[g].synced ELSE Len(d.seg[g].data)
                   IN  [d.seg[g] EXCEPT !.data = SubSeq(@, 1, keep), !.synced = keep]]] :
        h \in {d.head, d.lastHead}, lost \in BOOLEAN}

Crash ==
    /\ phase # "down"
    /\ disk' \in CrashImages(disk)
    /\ phase' = "down"
    /\ staged' = 0
    /\ UNCHANGED <<w, ckpt, tip, head, owed, kind>>

(* require_full_script_attestation: a datadir whose head is not attested   *)
(* as fully validated is marked for revalidation before it is restored.    *)
MarkFullRevalidation ==
    /\ phase = "down"
    /\ disk' = [disk EXCEPT !.marker = TRUE]
    /\ UNCHANGED <<w, ckpt, tip, head, staged, owed, phase, kind>>

(* prepare_initial_chainstate and the writer it bootstraps: cold under the *)
(* full-revalidation marker, else the journal on its checkpoint, else the  *)
(* checkpoint alone with the journal directory reset.                      *)
Restart ==
    LET cold == disk.marker
        replay == ~cold /\ ReplayOk(disk, ckpt)
        at == IF replay THEN disk.head
                ELSE IF cold THEN FreshHead(0, Genesis, 1)
                ELSE FreshHead(ckpt.gen, ckpt.blk, ckpt.count)
        cut == IF replay THEN [disk.seg EXCEPT ![at.gen] = Truncated(@, at.off)]
               ELSE IF cold THEN [disk.seg EXCEPT ![0] = Truncated(@, 0)]
               ELSE [g \in SegGen |-> NoFile]
    IN  /\ phase = "down"
        /\ w' = Restored(at)
        /\ disk' = [head |-> at, lastHead |-> at, seg |-> cut, marker |-> disk.marker]
        /\ tip' = at.blk
        /\ staged' = 0
        /\ phase' = "boot"
        /\ UNCHANGED <<ckpt, head, owed, kind>>

(* rewind_one_step: boot recovery under a disconnect marker takes restored *)
(* coins back one block.  It does not touch the journal.                   *)
RewindOneStep ==
    /\ phase = "boot"
    /\ owed
    /\ staged = 0
    /\ tip \notin Ancestors[head]
    /\ tip' = Parent[tip]
    /\ UNCHANGED <<w, disk, ckpt, head, staged, owed, phase, kind>>

(* Without a marker the boot ends when replay reached the durable head. *)
BootDone ==
    /\ phase = "boot"
    /\ ~owed
    /\ tip = head
    /\ staged = 0
    /\ phase' = "run"
    /\ UNCHANGED <<w, disk, ckpt, tip, head, staged, owed, kind>>

(* reconcile_at_boot: without a marker a restored tip off the head's chain *)
(* is not a publication lag, and startup stops.                            *)
BootRefused ==
    /\ phase = "boot"
    /\ ~owed
    /\ tip \notin Ancestors[head]
    /\ phase' = "down"
    /\ UNCHANGED <<w, disk, ckpt, tip, head, staged, owed, kind>>

Next ==
    \/ \E f \in Fault, due \in BOOLEAN : PrepareForApply(due, f)
    \/ \E b \in Block, f \in Fault, due \in BOOLEAN : AppendBlock(b, due, f)
    \/ \E f \in Fault : RewindTo(f)
    \/ \E f \in Fault : IdleFlush(f)
    \/ \E k \in {"Ordinary", "Recovered", "Progress"}, f \in Fault : Freeze(k, f)
    \/ \E f \in Fault : PublishCheckpoint(f)
    \/ \E f \in Fault : CompactToCheckpoint(f)
    \/ \E f \in Fault : Resume(f)
    \/ Crash
    \/ MarkFullRevalidation
    \/ Restart
    \/ RewindOneStep
    \/ BootDone
    \/ BootRefused

Spec == Init /\ [][Next]_vars

(* The publication thread and a restarted process keep taking their steps. *)
Fairness ==
    /\ WF_vars(PublishCheckpoint(None))
    /\ WF_vars(\E f \in Fault : CompactToCheckpoint(f))
    /\ WF_vars(\E f \in Fault : Resume(f))
    /\ WF_vars(Restart)

FairSpec == Spec /\ Fairness

---------------------------------------------------------------------------
(* Properties.                                                             *)

WriterType ==
    [base : [gen : Nat, blk : Block, count : Nat], start : [gen : SegGen, off : Nat],
     pending : Seq([blk : Block, end : Nat]), segGen : SegGen, segOff : Nat,
     durable : [gen : SegGen, off : Nat, blk : Block, count : Nat],
     nextHeight : Nat, count : Nat, records : Nat,
     gap : BOOLEAN, retry : BOOLEAN, invalidated : BOOLEAN,
     state : {"Open", "Frozen", "Compacted"}]

(* The writer, its directory and its caller hold values of their types. *)
TypeOK ==
    /\ w \in WriterType
    /\ disk.marker \in BOOLEAN
    /\ \A g \in SegGen : disk.seg[g].synced \in 0..Len(disk.seg[g].data)
    /\ ckpt \in [gen : 1..MaxCkptGen, blk : Block, count : Nat]
    /\ {tip, head} \subseteq Block
    /\ staged \in 0..MaxStaged
    /\ owed \in BOOLEAN
    /\ phase \in {"run", "boot", "closed", "down", "frozen", "published", "compacted", "failed"}

(* Journal replay never leaves the durable head's chain: over a checkpoint *)
(* that is on that chain, the committed log ends on it too, unless the     *)
(* disconnect marker or the full-revalidation marker tells the restart not *)
(* to trust it (rewind.rs, disconnect.rs).                                 *)
ReplayStaysOnChain ==
    ReplayOk(disk, ckpt) /\ ckpt.blk \in Ancestors[head] =>
        disk.head.blk \in Ancestors[head] \/ owed \/ disk.marker

(* RCV-08: restart at every committed ancestor is valid, so what a restart *)
(* restores lies on the durable head's chain, or the disconnect marker     *)
(* that lets recovery rewind it is still there.                            *)
RestartStaysValid ==
    phase = "boot" => tip \in Ancestors[head] \/ owed

(* JW-DUR-1, JW-ROT-1: whatever a power loss drops, a head.json built on   *)
(* the current checkpoint names bytes that are there and replay.           *)
CommittedRangeSurvives ==
    \A image \in CrashImages(disk) : BaseMatches(image.head, ckpt) => ReplayOk(image, ckpt)

(* JW-ORDER-1: while an append gap is open nothing new is admitted and the *)
(* log is not rebased on a newer checkpoint.                               *)
GapBlocksProgress ==
    [][w.gap /\ w'.gap => staged' <= staged /\ w'.base = w.base]_vars

(* JW-ORDER-1, other half: only a restart closes an append gap. *)
GapNeedsRestart ==
    [][w.gap /\ ~w'.gap => phase = "down"]_vars

(* max_lag_blocks: the blocks applied but not durable in the log stay      *)
(* within the lag limit plus what one commit group may stage.              *)
LagBounded ==
    (w.nextHeight - 1) - Height[w.durable.blk] + staged < MaxLag + MaxStaged

(* A disconnect of the block on top of an intact log rewinds it, whatever  *)
(* lies below, unless the fork crosses the checkpoint base.                *)
RewindReachesFork ==
    [][RewindTo(None) /\ ~owed /\ Appendable(w) => ~owed' \/ w'.invalidated]_vars

(* RCV-15: a surviving disconnect marker is never a permanent refusal.     *)
(* When the repaired state stands at the durable head and this boot met no *)
(* I/O failure, the journal lets the recovery publication freeze it.       *)
RecoveryCanPublish ==
    [][Freeze("Recovered", None) => phase' = "frozen"]_vars

(* JW-LIFE-1: a publication always hands the writer back. *)
PublicationSettles ==
    phase \in {"frozen", "published", "compacted", "failed"} ~> phase \in {"run", "boot", "down"}
=============================================================================
