----------------------------- MODULE Chainstate -----------------------------
(***************************************************************************)
(* The durable chainstate (crates/chainstate): how blocks are connected in *)
(* groups, how a reorganisation disconnects and reconnects them, how the   *)
(* state is published as a checkpoint, and how a restart finds its way     *)
(* back.                                                                   *)
(*                                                                         *)
(* The commit point is the durable head, one row written in one batch with *)
(* the undo rows and body locators of the blocks it certifies.  Coins live *)
(* in memory and reach the disk only in checkpoints; the journal repeats   *)
(* the blocks connected since the last one.  A chain transition (a window  *)
(* of blocks, a reorganisation) holds the admission barrier from its first *)
(* step to its last and a publication holds it exclusively, so they do not *)
(* overlap: pc is the step the running one is at.                          *)
(*                                                                         *)
(* Abstractions.  The UTXO set is the set of blocks whose changes it       *)
(* holds.  The commit group is the path from the published tip to staged.  *)
(* Commit ids and checkpoint generations only ever grow and are compared   *)
(* for equality: every head batch is a new id, and jOnCkpt says whether    *)
(* the journal rests on the generation CURRENT names.  Module              *)
(* JournalWriter has the journal's files.  A block that fails validation   *)
(* leaves nothing behind.  Faults names the calls that may fail; a crash   *)
(* may come between any two steps.                                         *)
(***************************************************************************)
EXTENDS BlockGraph

CONSTANTS
    NoBlock,    \* no tip, no target
    MaxGroup,   \* DURABLE_HEAD_GROUP_BLOCKS
    Faults      \* the calls that may fail

AllFaults == {"Persist", "HeadBatch", "JournalAppend", "JournalRewind", "Retention",
              "Rollback", "Marker", "Checkpoint", "Compact"}

ASSUME ChainstateAssumption ==
    /\ NoBlock \notin Block
    /\ MaxGroup \in Nat
    /\ Faults \subseteq AllFaults

VARIABLES
    headTip,     \* durable head: its tip
    rows,        \* blocks whose undo row and body locator a head batch wrote
    marker,      \* the disconnect marker: "none", "InFlight" or "RolledBack"
    ckptTip,     \* the tip of the checkpoint CURRENT names, if any
    revalidate,  \* the full-revalidation marker file
    jOnCkpt,     \* journal head.json: based on that checkpoint
    jBase,       \* journal head.json: the tip of its base
    jTip,        \* journal head.json: the durable tip
    jNext,       \* memory: the tip the journal has buffered up to
    jState,      \* memory: "open", "gap" or "invalid"
    applied,     \* memory: the published tip
    coins,       \* memory: blocks whose changes the UTXO set holds
    staged,      \* memory: the last block of the commit group
    unsynced,    \* bodies appended to block files and not synced
    target,      \* memory: where the running reorganisation goes
    origin,      \* memory: where it started
    rewound,     \* memory: journal_rewound of the running disconnect
    kind,        \* memory: DisconnectRetirement of the running publication
    pc           \* the step the running transition, publication or boot is at

headVars == <<headTip, rows>>
ckptVars == <<ckptTip, revalidate>>
logVars == <<jOnCkpt, jBase, jTip, jNext, jState>>
viewVars == <<applied, coins, staged, unsynced>>
reorgVars == <<target, origin>>
stepVars == <<rewound, kind>>
vars == <<headVars, marker, ckptVars, logVars, viewVars, reorgVars, stepVars, pc>>

(* A node that has connected its genesis block and holds no checkpoint. *)
Init ==
    /\ headTip = Genesis /\ rows = {Genesis}
    /\ marker = "none"
    /\ ckptTip = NoBlock /\ revalidate = FALSE
    /\ jOnCkpt = FALSE /\ jBase = Genesis /\ jTip = Genesis /\ jNext = Genesis
    /\ jState = "open"
    /\ applied = Genesis /\ coins = {Genesis} /\ staged = Genesis /\ unsynced = {}
    /\ target = NoBlock /\ origin = NoBlock
    /\ rewound = FALSE /\ kind = "Ordinary"
    /\ pc = "idle"

---------------------------------------------------------------------------
(* Connecting blocks (connect.rs, window.rs).                              *)

Path(from, to) == Ancestors[to] \ Ancestors[from]

(* fail_closed_for_recovery: admission closes, the group is abandoned, and *)
(* what the coins hold stays in memory until the process ends.             *)
FailClosed ==
    /\ pc' = "closed"
    /\ staged' = applied
    /\ UNCHANGED reorgVars

(* The block a window or a reorganisation connects next.  A reorganisation *)
(* commits each block on its own.                                          *)
Connectable(b) ==
    /\ pc = "idle"
    /\ b \in Children(staged)
    /\ Height[staged] - Height[applied] < MaxGroup
    /\ target # NoBlock => staged = applied /\ b \in Ancestors[target]

(* prepare_journal_for_apply may flush what the journal has buffered. *)
LogFlushes == jTip' \in {jTip} \cup Path(jTip, jNext)

(* A block is validated on top of the group, its body appended unless it   *)
(* is stored already, its coins applied; it joins the group.               *)
StageBlock(b) ==
    /\ Connectable(b)
    /\ jState = "open"
    /\ LogFlushes
    /\ unsynced' = unsynced \cup ({b} \ rows)
    /\ coins' = coins \cup {b}
    /\ staged' = b
    /\ UNCHANGED <<headVars, marker, ckptVars, jOnCkpt, jBase, jNext, jState,
                   applied, reorgVars, stepVars, pc>>

(* prepare_journal_for_apply refuses a block: anything but retention       *)
(* pressure is fatal.                                                      *)
RefusedByJournal(b) ==
    /\ Connectable(b)
    /\ jState # "open"
    /\ FailClosed
    /\ UNCHANGED <<headVars, marker, ckptVars, logVars, applied, coins, unsynced, stepVars>>

(* persist_payload fails at the undo row, the body or the coins. *)
PersistFails(b) ==
    /\ "Persist" \in Faults
    /\ Connectable(b)
    /\ jState = "open"
    /\ \/ UNCHANGED <<unsynced, coins>>
       \/ unsynced' = unsynced \cup ({b} \ rows) /\ coins' \in {coins, coins \cup {b}}
    /\ FailClosed
    /\ UNCHANGED <<headVars, marker, ckptVars, logVars, applied, stepVars>>

(* Mutant: the head batch names bodies that are not synced. *)
SyncBodiesSkipped ==
    /\ pc = "idle"
    /\ staged # applied
    /\ pc' = "synced"
    /\ UNCHANGED <<headVars, marker, ckptVars, logVars, viewVars, reorgVars, stepVars>>

(* The group is full or the window has ended: flush. *)
SyncBodies ==
    /\ pc = "idle"
    /\ staged # applied
    /\ unsynced' = {}
    /\ pc' = "synced"
    /\ UNCHANGED <<headVars, marker, ckptVars, logVars, applied, coins, staged,
                   reorgVars, stepVars>>

(* commit_connect_head: one batch names the group's undo rows, its body    *)
(* locators and the new head.                                              *)
ConnectBatch ==
    /\ headTip' = staged
    /\ rows' = rows \cup Path(applied, staged)

CommitHead ==
    /\ pc = "synced"
    /\ headTip = applied
    /\ ConnectBatch
    /\ pc' = "committed"
    /\ UNCHANGED <<marker, ckptVars, logVars, viewVars, reorgVars, stepVars>>

(* Mutant: an ambiguous batch is retried in the same process. *)
CommitFailsStaysOpen ==
    /\ pc = "synced"
    /\ "HeadBatch" \in Faults
    /\ UNCHANGED headVars \/ ConnectBatch
    /\ pc' = "idle"
    /\ UNCHANGED <<marker, ckptVars, logVars, viewVars, reorgVars, stepVars>>

(* The batch reports an error: it may or may not have landed. *)
CommitFails ==
    /\ pc = "synced"
    /\ "HeadBatch" \in Faults \/ headTip # applied
    /\ UNCHANGED headVars \/ (headTip = applied /\ ConnectBatch)
    /\ FailClosed
    /\ UNCHANGED <<marker, ckptVars, logVars, applied, coins, unsynced, stepVars>>

(* Journal appends up to b: durability boundaries may come anywhere. *)
LogAppends(b) ==
    /\ jNext' = b
    /\ jTip' \in {jTip} \cup Path(jTip, b)

(* emit_journal_record for every block of the group.  The journal checks   *)
(* the height of a record; a refused or failed append opens a gap.         *)
EmitRecords ==
    /\ pc = "committed"
    /\ \/ /\ jState = "open" /\ Height[jNext] = Height[applied]
          /\ LogAppends(staged)
          /\ UNCHANGED jState
       \/ /\ jState = "open" /\ Height[jNext] = Height[applied]
          /\ "JournalAppend" \in Faults
          /\ \E b \in Path(applied, staged) : LogAppends(Parent[b])
          /\ jState' = "gap"
       \/ /\ jState # "open" \/ Height[jNext] # Height[applied]
          /\ jState' = IF jState = "open" THEN "gap" ELSE jState
          /\ UNCHANGED <<jTip, jNext>>
    /\ pc' = "emitted"
    /\ UNCHANGED <<headVars, marker, ckptVars, jOnCkpt, jBase, viewVars, reorgVars, stepVars>>

(* Mutant: only the last block of the group is published. *)
PublishLastOnly(b) ==
    /\ pc = "emitted"
    /\ b = staged
    /\ applied' = b
    /\ pc' = "idle"
    /\ UNCHANGED <<headVars, marker, ckptVars, logVars, coins, staged, unsynced,
                   reorgVars, stepVars>>

(* publish_applied, block by block. *)
PublishConnected(b) ==
    /\ pc = "emitted"
    /\ b \in Children(applied) \cap Ancestors[staged]
    /\ applied' = b
    /\ pc' = IF b = staged THEN "idle" ELSE "emitted"
    /\ UNCHANGED <<headVars, marker, ckptVars, logVars, coins, staged, unsynced,
                   reorgVars, stepVars>>

---------------------------------------------------------------------------
(* Reorganisations (reorg.rs): disconnect down to the branch of the        *)
(* target, then connect up to it.                                          *)

(* switch_to_branch, invalidate_block: the plan is made, the bodies to be  *)
(* disconnected load, the transition begins.                               *)
BeginReorg(t) ==
    /\ pc = "idle" /\ target = NoBlock
    /\ staged = applied
    /\ t # applied
    /\ Path(t, applied) \subseteq rows
    /\ target' = t /\ origin' = applied
    /\ UNCHANGED <<headVars, marker, ckptVars, logVars, viewVars, stepVars, pc>>

EndReorg ==
    /\ target' = NoBlock /\ origin' = NoBlock
    /\ UNCHANGED <<headVars, marker, ckptVars, logVars, viewVars, stepVars, pc>>

(* The target is reached, or a block on the way to it has no body, fails   *)
(* validation or is refused under retention pressure, and the tip stays    *)
(* where it got to.  A body may also fail to load between disconnects.     *)
ReorgStops ==
    /\ pc = "idle" /\ target # NoBlock
    /\ staged = applied
    /\ \/ applied = target
       \/ applied \in Ancestors[target] /\ target # origin
       \/ "Persist" \in Faults /\ target # origin
    /\ EndReorg

(* restore_disconnected_branch: the first block of the new branch turned   *)
(* out invalid; the old branch is connected again.                         *)
ReorgRestores ==
    /\ pc = "idle" /\ target # NoBlock
    /\ staged = applied
    /\ applied \in Ancestors[target] \cap Ancestors[origin]
    /\ applied \notin {target, origin}
    /\ target' = origin
    /\ UNCHANGED <<headVars, marker, ckptVars, logVars, viewVars, origin, stepVars, pc>>

(* RestorationFailed: whatever stops the way back is fatal. *)
RestoreFails ==
    /\ "Retention" \in Faults
    /\ pc = "idle" /\ target # NoBlock
    /\ staged = applied
    /\ target = origin /\ applied # origin
    /\ jNext # jBase
    /\ FailClosed
    /\ UNCHANGED <<headVars, marker, ckptVars, logVars, applied, coins, unsynced, stepVars>>

---------------------------------------------------------------------------
(* Disconnecting the tip (disconnect.rs, utxo/src/contract.rs).            *)

Disconnectable ==
    /\ pc = "idle" /\ target # NoBlock
    /\ staged = applied
    /\ applied \notin Ancestors[target]
    /\ applied = headTip
    /\ applied \in rows

(* plan_disconnect passes and rollback_block arms the marker. *)
ArmDisconnect ==
    /\ Disconnectable
    /\ marker # "InFlight"
    /\ marker' = "InFlight"
    /\ pc' = "armed"
    /\ UNCHANGED <<headVars, ckptVars, logVars, viewVars, reorgVars, stepVars>>

(* The disconnect is refused: one is in flight already, or arming failed,  *)
(* which may leave the marker behind.  The reorganisation stops.           *)
ArmFails ==
    /\ Disconnectable
    /\ \/ marker = "InFlight" /\ UNCHANGED marker
       \/ "Marker" \in Faults /\ marker' \in {marker, "InFlight"}
    /\ target' = NoBlock /\ origin' = NoBlock
    /\ UNCHANGED <<headVars, ckptVars, logVars, viewVars, stepVars, pc>>

UndoCoins ==
    /\ pc = "armed"
    /\ coins' = coins \ {applied}
    /\ pc' = "rolled"
    /\ UNCHANGED <<headVars, marker, ckptVars, logVars, applied, staged, unsynced,
                   reorgVars, stepVars>>

CompleteDisconnect ==
    /\ pc = "rolled"
    /\ marker' = "RolledBack"
    /\ pc' = "completed"
    /\ UNCHANGED <<headVars, ckptVars, logVars, viewVars, reorgVars, stepVars>>

(* The undo or the marker update fails: the marker stays InFlight. *)
RollbackFails ==
    /\ \/ pc = "armed" /\ "Rollback" \in Faults
       \/ pc = "rolled" /\ "Marker" \in Faults
    /\ FailClosed
    /\ UNCHANGED <<headVars, marker, ckptVars, logVars, applied, coins, unsynced, stepVars>>

(* rewind_to: the log is cut back to the parent. *)
RewindLog(fork) ==
    /\ jState = "open"
    /\ Height[fork] >= Height[jBase]
    /\ fork \in Ancestors[jNext]
    /\ jTip' = fork
    /\ jNext' = fork
    /\ rewound' = TRUE
    /\ UNCHANGED <<jState, revalidate>>

(* The fork lies below the checkpoint: invalidate_generation drops the log *)
(* and leaves the full-revalidation marker.                                *)
InvalidateLog(fork) ==
    /\ jState = "open"
    /\ Height[fork] < Height[jBase]
    /\ jState' = "invalid"
    /\ revalidate' = TRUE
    /\ rewound' = FALSE
    /\ UNCHANGED <<jTip, jNext>>

(* The writer refuses or fails.  When it failed to cut the segments after  *)
(* head.json had moved it holds an append gap.                             *)
RewindLogFails(fork) ==
    /\ \/ /\ jState # "open" \/ (Height[fork] >= Height[jBase] /\ fork \notin Ancestors[jNext])
          /\ UNCHANGED <<jTip, jState>>
       \/ /\ jState = "open" /\ "JournalRewind" \in Faults
          /\ Height[fork] >= Height[jBase] /\ fork \in Ancestors[jNext]
          /\ \/ LogFlushes /\ UNCHANGED jState
             \/ jTip' = fork /\ jState' = "gap"
    /\ rewound' = FALSE
    /\ UNCHANGED <<jNext, revalidate>>

RewindJournal ==
    /\ pc = "completed"
    /\ \/ RewindLog(Parent[applied])
       \/ InvalidateLog(Parent[applied])
       \/ RewindLogFails(Parent[applied])
    /\ pc' = "rewound"
    /\ UNCHANGED <<headVars, marker, ckptTip, jOnCkpt, jBase, viewVars, reorgVars, kind>>

(* commit_disconnect_head *)
DisconnectBatch ==
    /\ headTip' = Parent[applied]
    /\ UNCHANGED rows

CommitDisconnect ==
    /\ pc = "rewound"
    /\ DisconnectBatch
    /\ pc' = "uncommitted"
    /\ UNCHANGED <<marker, ckptVars, logVars, viewVars, reorgVars, stepVars>>

CommitDisconnectFails ==
    /\ pc = "rewound"
    /\ "HeadBatch" \in Faults
    /\ UNCHANGED headVars \/ DisconnectBatch
    /\ FailClosed
    /\ UNCHANGED <<marker, ckptVars, logVars, applied, coins, unsynced, stepVars>>

PublishDisconnected ==
    /\ pc = "uncommitted"
    /\ applied' = Parent[applied]
    /\ staged' = Parent[applied]
    /\ pc' = "unpublished"
    /\ UNCHANGED <<headVars, marker, ckptVars, logVars, coins, unsynced, reorgVars, stepVars>>

(* Mutant: the marker is disarmed whatever the journal did. *)
DisarmAlways ==
    /\ pc = "unpublished"
    /\ marker' = "none"
    /\ rewound' = FALSE
    /\ pc' = "idle"
    /\ UNCHANGED <<headVars, ckptVars, logVars, viewVars, reorgVars, kind>>

(* disarm_disconnect, only when the journal followed. *)
Disarm ==
    /\ pc = "unpublished"
    /\ marker' = IF rewound THEN "none" ELSE marker
    /\ rewound' = FALSE
    /\ pc' = "idle"
    /\ UNCHANGED <<headVars, ckptVars, logVars, viewVars, reorgVars, kind>>

(* MarkerStuck *)
DisarmFails ==
    /\ pc = "unpublished"
    /\ rewound /\ "Marker" \in Faults
    /\ rewound' = FALSE
    /\ FailClosed
    /\ UNCHANGED <<headVars, marker, ckptVars, logVars, applied, coins, unsynced, kind>>

---------------------------------------------------------------------------
(* Publishing a checkpoint (checkpoint/publisher.rs).  Ordinary in a       *)
(* serving node, Recovered at the end of marker recovery, Progress when    *)
(* boot replay must relieve the journal.                                   *)

(* Mutant: a publication that does not wait for the running window. *)
PublicationUnpaused(k) ==
    CASE k = "Ordinary"  -> pc = "idle" /\ target = NoBlock
      [] k = "Recovered" -> pc = "boot" /\ marker # "none" /\ applied = headTip
      [] k = "Progress"  -> pc = "boot" /\ applied \in Ancestors[headTip] \ {headTip}

PublicationDue(k) ==
    CASE k = "Ordinary"  -> pc = "idle" /\ target = NoBlock /\ staged = applied
      [] k = "Recovered" -> pc = "boot" /\ marker # "none" /\ applied = headTip
      [] k = "Progress"  -> pc = "boot" /\ applied \in Ancestors[headTip] \ {headTip}
                            /\ jNext # jBase

(* freeze: the whole log becomes durable and takes no more records. *)
FreezeJournal(k) ==
    /\ PublicationDue(k)
    /\ jState # "gap"
    /\ jTip' = IF jState = "open" THEN jNext ELSE jTip
    /\ kind' = k
    /\ pc' = "frozen"
    /\ UNCHANGED <<headVars, marker, ckptVars, jOnCkpt, jBase, jNext, jState, viewVars,
                   reorgVars, rewound>>

(* A publication that ends early resumes the writer; a boot ends with it. *)
Abort ==
    /\ pc' = IF kind = "Ordinary" THEN "idle" ELSE "refused"
    /\ kind' = "Ordinary"
    /\ UNCHANGED <<headVars, marker, ckptVars, logVars, viewVars, reorgVars, rewound>>

MayCheckpoint ==
    /\ kind = "Ordinary" => marker # "InFlight"
    /\ applied = headTip \/ Height[applied] < Height[headTip]

(* publish_frozen: the new generation is CURRENT ... *)
WriteCheckpoint ==
    /\ pc = "frozen"
    /\ MayCheckpoint
    /\ ckptTip' = applied
    /\ jOnCkpt' = FALSE
    /\ pc' = "written"
    /\ UNCHANGED <<headVars, marker, revalidate, jBase, jTip, jNext, jState, viewVars,
                   reorgVars, stepVars>>

(* ... and what it holds was validated. *)
RetireRevalidation ==
    /\ pc = "written"
    /\ revalidate' = (revalidate /\ kind = "Progress")
    /\ pc' = "certified"
    /\ UNCHANGED <<headVars, marker, ckptTip, logVars, viewVars, reorgVars, stepVars>>

CheckpointFails ==
    /\ pc = "frozen"
    /\ "Checkpoint" \in Faults \/ ~MayCheckpoint
    /\ Abort

(* compact_to_checkpoint: the frozen log must end at the checkpoint. *)
CompactJournal ==
    /\ pc = "certified"
    /\ jState = "invalid" \/ jTip = applied
    /\ jOnCkpt' = TRUE
    /\ jBase' = applied /\ jTip' = applied /\ jNext' = applied
    /\ jState' = "open"
    /\ pc' = "compacted"
    /\ UNCHANGED <<headVars, marker, ckptVars, viewVars, reorgVars, stepVars>>

(* CURRENT has moved and a later step of the publication fails. *)
CompactFails ==
    /\ \/ pc \in {"written", "certified"} /\ "Compact" \in Faults
       \/ pc = "certified" /\ jState # "invalid" /\ jTip # applied
    /\ Abort

(* The marker retires last, and never on a progress checkpoint. *)
RetireMarker ==
    /\ pc = "compacted"
    /\ marker' = IF kind = "Progress" THEN marker ELSE "none"
    /\ pc' = IF kind = "Progress" THEN "boot" ELSE "idle"
    /\ staged' = IF kind = "Progress" THEN staged ELSE applied
    /\ kind' = "Ordinary"
    /\ UNCHANGED <<headVars, ckptVars, logVars, applied, coins, unsynced, reorgVars, rewound>>

(* The writer does not resume cleanly or the marker does not retire. *)
RetireFails ==
    /\ pc = "compacted"
    /\ "Marker" \in Faults
    /\ Abort

(* The maintenance thread flushes what the journal has buffered; it shares *)
(* only the journal's lock with a transition.                              *)
IdleFlush ==
    /\ pc \notin {"down", "refused", "boot", "frozen", "written", "certified", "compacted"}
    /\ jState # "invalid"
    /\ jTip # jNext /\ jTip \in Ancestors[jNext]
    /\ jTip' = jNext
    /\ UNCHANGED <<headVars, marker, ckptVars, jOnCkpt, jBase, jNext, jState,
                   viewVars, reorgVars, stepVars, pc>>

---------------------------------------------------------------------------
(* Crash and restart (recovery.rs, durable.rs).                            *)

(* The process ends, orderly or not: memory is gone. *)
Crash ==
    /\ pc # "down"
    /\ pc' = "down"
    /\ jNext' = jTip /\ jState' = "open"
    /\ applied' = NoBlock /\ coins' = {} /\ staged' = Genesis /\ unsynced' = {}
    /\ target' = NoBlock /\ origin' = NoBlock
    /\ rewound' = FALSE /\ kind' = "Ordinary"
    /\ UNCHANGED <<headVars, marker, ckptVars, jOnCkpt, jBase, jTip>>

(* require_full_script_attestation: the head was never fully validated and *)
(* the node is started in full validation mode.                            *)
MarkFullRevalidation ==
    /\ pc = "down"
    /\ ~revalidate
    /\ revalidate' = TRUE
    /\ UNCHANGED <<headVars, marker, ckptTip, logVars, viewVars, reorgVars, stepVars, pc>>

(* prepare_initial_chainstate: nothing under the full-revalidation marker  *)
(* or without a checkpoint; the journal if it rests on the checkpoint;     *)
(* else the checkpoint, on which the journal starts afresh.                *)
RestoreCold == revalidate \/ ckptTip = NoBlock

RestoredTip ==
    IF RestoreCold THEN NoBlock ELSE IF jOnCkpt THEN jTip ELSE ckptTip

(* Mutant: a cold start seeds the journal from the missing checkpoint. *)
RestoredLogOnCheckpoint ==
    IF jOnCkpt THEN [on |-> TRUE, base |-> jBase, tip |-> jTip]
    ELSE [on |-> TRUE, base |-> ckptTip, tip |-> ckptTip]

(* Mutant: a cold start keeps the journal it found. *)
RestoredLogKept ==
    IF RestoreCold \/ jOnCkpt THEN [on |-> jOnCkpt, base |-> jBase, tip |-> jTip]
    ELSE [on |-> TRUE, base |-> ckptTip, tip |-> ckptTip]

RestoredLog ==
    IF RestoreCold THEN [on |-> FALSE, base |-> Genesis, tip |-> Genesis]
    ELSE IF jOnCkpt THEN [on |-> TRUE, base |-> jBase, tip |-> jTip]
    ELSE [on |-> TRUE, base |-> ckptTip, tip |-> ckptTip]

Restore ==
    /\ pc \in {"down", "refused"}
    /\ applied' = RestoredTip
    /\ coins' = IF RestoreCold THEN {} ELSE Ancestors[RestoredTip]
    /\ staged' = Genesis /\ unsynced' = {}
    /\ jOnCkpt' = RestoredLog.on /\ jBase' = RestoredLog.base
    /\ jTip' = RestoredLog.tip /\ jNext' = RestoredLog.tip /\ jState' = "open"
    /\ pc' = "boot"
    /\ UNCHANGED <<headVars, marker, ckptVars, reorgVars, stepVars>>

OnHeadChain == applied \in Ancestors[headTip] \cup {NoBlock}

(* rewind_one_step: under a marker, restored coins go back block by block  *)
(* to the head's chain.  The journal stays where it is.                    *)
RewindOneStep ==
    /\ pc = "boot"
    /\ marker # "none"
    /\ ~OnHeadChain
    /\ applied \in rows
    /\ coins' = coins \ {applied}
    /\ applied' = Parent[applied]
    /\ UNCHANGED <<headVars, marker, ckptVars, logVars, staged, unsynced, reorgVars, stepVars, pc>>

(* The next block of the head's chain. *)
Replayable(b) ==
    /\ OnHeadChain
    /\ b \in Ancestors[headTip]
    /\ IF applied = NoBlock THEN b = Genesis ELSE b \in Children(applied)

(* apply_replayed_gap_block: the block is applied from its stored body in  *)
(* Replay mode: no head commit, but a journal record (genesis has none).   *)
ReplayBlock(b) ==
    /\ pc = "boot"
    /\ Replayable(b)
    /\ Ancestors[headTip] \subseteq rows
    /\ jState = "open"
    /\ coins' = coins \cup {b}
    /\ applied' = b
    /\ \/ b = Genesis /\ UNCHANGED <<jTip, jNext, jState>>
       \/ b # Genesis /\ Height[jNext] = Height[Parent[b]] /\ LogAppends(b) /\ UNCHANGED jState
       \/ /\ b # Genesis
          /\ Height[jNext] # Height[Parent[b]] \/ "JournalAppend" \in Faults
          /\ jState' = "gap"
          /\ UNCHANGED <<jTip, jNext>>
    /\ UNCHANGED <<headVars, marker, ckptVars, jOnCkpt, jBase, staged, unsynced,
                   reorgVars, stepVars, pc>>

(* Startup stops: a restored tip off the head's chain with no marker, a    *)
(* stored row missing, or a journal that refuses the next block or the     *)
(* recovery checkpoint.                                                    *)
BootRefused ==
    /\ pc = "boot"
    /\ \/ ~OnHeadChain /\ (marker = "none" \/ applied \notin rows)
       \/ OnHeadChain /\ applied # headTip
          /\ (jState # "open" \/ ~(Ancestors[headTip] \subseteq rows))
       \/ applied = headTip /\ marker # "none" /\ jState = "gap"
    /\ pc' = "refused"
    /\ UNCHANGED <<headVars, marker, ckptVars, logVars, viewVars, reorgVars, stepVars>>

BootDone ==
    /\ pc = "boot"
    /\ marker = "none"
    /\ applied = headTip
    /\ staged' = applied
    /\ pc' = "idle"
    /\ UNCHANGED <<headVars, marker, ckptVars, logVars, applied, coins, unsynced,
                   reorgVars, stepVars>>

---------------------------------------------------------------------------
ConnectNext ==
    \/ \E b \in Block : StageBlock(b)
    \/ \E b \in Block : RefusedByJournal(b)
    \/ \E b \in Block : PersistFails(b)
    \/ SyncBodies
    \/ CommitHead
    \/ CommitFails
    \/ EmitRecords
    \/ \E b \in Block : PublishConnected(b)

ReorgNext ==
    \/ \E t \in Block : BeginReorg(t)
    \/ ReorgStops
    \/ ReorgRestores
    \/ RestoreFails

DisconnectNext ==
    \/ ArmDisconnect
    \/ ArmFails
    \/ UndoCoins
    \/ CompleteDisconnect
    \/ RollbackFails
    \/ RewindJournal
    \/ CommitDisconnect
    \/ CommitDisconnectFails
    \/ PublishDisconnected
    \/ Disarm
    \/ DisarmFails

PublishNext ==
    \/ \E k \in {"Ordinary", "Recovered", "Progress"} : FreezeJournal(k)
    \/ WriteCheckpoint
    \/ RetireRevalidation
    \/ CheckpointFails
    \/ CompactJournal
    \/ CompactFails
    \/ RetireMarker
    \/ RetireFails
    \/ IdleFlush

BootNext ==
    \/ Crash
    \/ MarkFullRevalidation
    \/ Restore
    \/ RewindOneStep
    \/ \E b \in Block : ReplayBlock(b)
    \/ BootRefused
    \/ BootDone

Next == ConnectNext \/ ReorgNext \/ DisconnectNext \/ PublishNext \/ BootNext

Spec == Init /\ [][Next]_vars

(* A started process keeps taking the steps of its boot, and the operator  *)
(* (or the service manager) starts it again.                               *)
Fairness ==
    /\ WF_vars(Restore)
    /\ WF_vars(RewindOneStep)
    /\ WF_vars(\E b \in Block : ReplayBlock(b))
    /\ WF_vars(FreezeJournal("Recovered"))
    /\ WF_vars(WriteCheckpoint)
    /\ WF_vars(RetireRevalidation)
    /\ WF_vars(CompactJournal \/ CompactFails)
    /\ WF_vars(RetireMarker)
    /\ WF_vars(BootRefused)
    /\ WF_vars(BootDone)

FairSpec == Spec /\ Fairness

---------------------------------------------------------------------------
(* Properties.                                                             *)

Steps == {"idle", "synced", "committed", "emitted",
          "armed", "rolled", "completed", "rewound", "uncommitted", "unpublished",
          "frozen", "written", "certified", "compacted",
          "closed", "down", "refused", "boot"}

(* The variables hold values of their types. *)
TypeOK ==
    /\ headTip \in Block /\ rows \subseteq Block
    /\ marker \in {"none", "InFlight", "RolledBack"}
    /\ ckptTip \in Block \cup {NoBlock} /\ revalidate \in BOOLEAN
    /\ jOnCkpt \in BOOLEAN /\ {jBase, jTip, jNext} \subseteq Block
    /\ jState \in {"open", "gap", "invalid"}
    /\ applied \in Block \cup {NoBlock} /\ staged \in Block
    /\ coins \subseteq Block /\ unsynced \subseteq Block
    /\ target \in Block \cup {NoBlock} /\ origin \in Block \cup {NoBlock}
    /\ rewound \in BOOLEAN /\ kind \in {"Ordinary", "Recovered", "Progress"}
    /\ pc \in Steps

(* Between transitions the published tip is the durable head's tip and the *)
(* coins in memory are exactly those of the blocks up to the group's last: *)
(* after any mix of windows, reorganisations, failures and restarts.       *)
ServedStateIsCommitted ==
    pc = "idle" =>
        /\ applied = headTip
        /\ applied \in Ancestors[staged]
        /\ coins = Ancestors[staged]

(* The rows recovery reads are there: the head's chain and the chain of    *)
(* whatever a restart would begin with have their undo rows and locators,  *)
(* and no locator of the head's chain names a body that is not synced      *)
(* (RCV-03).                                                               *)
HeadIsRecoverable ==
    /\ Ancestors[headTip] \subseteq rows
    /\ RestoredTip # NoBlock => Ancestors[RestoredTip] \subseteq rows
    /\ Ancestors[headTip] \cap unsynced = {}

(* A checkpoint is only ever replaced by one that holds the coins of its   *)
(* tip, and that tip is on the durable head's chain (RCV-14).              *)
CheckpointIsClean ==
    [][ckptTip' # ckptTip =>
         /\ ckptTip' \in Ancestors[headTip]
         /\ coins = Ancestors[ckptTip']]_vars

(* Without a disconnect marker a restart begins on the head's chain, from  *)
(* whatever state the process ended in: recovery never refuses (RCV-08).   *)
RestartStaysValid ==
    marker = "none" => RestoredTip \in Ancestors[headTip] \cup {NoBlock}

(* A boot may be killed, its checkpoint or the removal of its marker may    *)
(* fail, and so may the append of a record that fits the journal.          *)
BootUndisturbed ==
    /\ pc # "down" => pc' # "down"
    /\ kind # "Ordinary" => ~(MayCheckpoint /\ CheckpointFails) /\ ~RetireFails
    /\ pc = "boot" /\ jState = "open" /\ jState' = "gap" =>
         Height[jNext] # Height[Parent[applied']]

(* If the process is not killed again and its I/O works, boots end in a    *)
(* serving node.                                                           *)
RecoveryCompletes ==
    (<>[][BootUndisturbed]_vars) => ((pc = "boot") ~> (pc = "idle"))

(* With no call failing, a reorganisation does not close the chainstate:   *)
(* it applies the new branch "using ordinary connect" (RCV-04).            *)
ReorgStaysOpen == Faults = {} => ~(pc = "closed" /\ target # NoBlock)

(* The tip readers of a serving process see. *)
ShownTip ==
    IF pc \in {"down", "refused", "boot"} \/ kind # "Ordinary" THEN NoBlock ELSE applied

Promise == INSTANCE DurableChain WITH root <- headTip, view <- ShownTip, NoView <- NoBlock

(* The chainstate implements module DurableChain: the head moves only by   *)
(* whole batches from the tip readers see, readers follow it block by      *)
(* block, and a restart serves nothing before it is back on the head.      *)
ImplementsPromise == Promise!Spec
=============================================================================
