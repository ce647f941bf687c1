------------------------------ MODULE Pruning ------------------------------
(***************************************************************************)
(* Pruning and retained history (crates/storage: pruning, block bodies and *)
(* block files; crates/node: the prune service; crates/chainstate: the     *)
(* reorganisation and the database walk that depend on history).           *)
(*                                                                         *)
(* A prune pass deletes undo rows, body rows and whole block files below a *)
(* line.  It holds the chain transition from its first step to its last,   *)
(* so no block connects or disconnects meanwhile, but readers of history   *)
(* do not: what keeps them safe is the retention registry, a table of      *)
(* lease floors and of the lines running passes have claimed.  The lease   *)
(* of a reorganisation is mandatory; those of readers are optional, and a  *)
(* pass may withdraw one that fell too far behind.                         *)
(*                                                                         *)
(* Abstractions.  A block is known by its height, the file its frame lies  *)
(* in, and whether it is on the applied chain; rows and undo are the       *)
(* blocks whose body index row and whose undo row exist.  A file holds     *)
(* FileBodies frames.  Recovery (module Chainstate) is kept to the heights *)
(* it needs: a restart restores a state at height durable, whose chain     *)
(* leaves the applied one at height base, and reads the rows above base.   *)
(* Genesis has no rows.  The registry's shutdown flag only refuses         *)
(* requests and is left out.                                               *)
(***************************************************************************)
EXTENDS Integers, FiniteSets

CONSTANTS
    Reader,      \* consumers that hold optional history leases
    MaxHeight,   \* bound on the tip
    MaxFile,     \* bound on the block file numbers
    FileBodies,  \* frames in a full block file (max_file_bytes)
    Margin,      \* CORE_REORG_SAFETY_MARGIN
    Fork,        \* the lowest heights reorganisations may touch
    Depth,       \* RetentionBudget of the readers; 0 is Unlimited
    Faults       \* the calls that may fail

AllFaults == {"Batch", "Evidence", "Reclaim"}

ASSUME PruningAssumption ==
    /\ MaxHeight \in Nat /\ MaxFile \in Nat
    /\ FileBodies \in Nat \ {0}
    /\ Fork \subseteq Nat \ {0}
    /\ Margin \in Nat /\ Depth \in Nat
    /\ Faults \subseteq AllFaults

VARIABLES
    tip,       \* durable head: the applied tip's height
    rows,      \* block-body index
    undo,      \* undo rows
    files,     \* block files present
    maxRow,    \* per-file maximum height rows; None without a row
    current,   \* the file the block store appends to
    fill,      \* frames in it
    frontier,  \* node:prune_executed
    durable,   \* durable_tip_height: the height of the state a restart restores
    base,      \* height where that state's chain leaves the applied one, or less
    pruned,    \* memory: the registry's pruned_below
    leaked,    \* memory: the highest line of a reservation that failed closed
    floors,    \* memory: floor of each reader's lease; None without one
    walk,      \* memory: what each reader is doing
    reorg,     \* memory: the reorganisation and its mandatory lease
    pass       \* memory: the running prune pass

chainVars == <<tip, durable, base>>
rowVars == <<rows, undo, maxRow>>
fileVars == <<files, current, fill>>
registryVars == <<pruned, leaked, floors>>
vars == <<chainVars, rowVars, fileVars, frontier, registryVars, walk, reorg, pass>>

Height == 1 .. MaxHeight
File == 0 .. MaxFile
None == -1

Max2(a, b) == IF a >= b THEN a ELSE b
Min2(a, b) == IF a <= b THEN a ELSE b
SatSub(a, b) == IF a >= b THEN a - b ELSE 0

Idle == [pc |-> "idle", line |-> 0, files |-> {}, executed |-> 0]
NoReorg == [pc |-> "none", floor |-> 0, from |-> 0]
ReorgAt(pc) == [pc |-> pc, floor |-> reorg.floor, from |-> reorg.from]
Out == [pc |-> "out", start |-> 0, upto |-> 0, at |-> 0, file |-> 0]
WalkAt(r, pc, h, f) == [pc |-> pc, start |-> walk[r].start, upto |-> walk[r].upto, at |-> h, file |-> f]

-----------------------------------------------------------------------------
(***************************************************************************)
(* The retention registry.                                                 *)
(***************************************************************************)

\* refusal_line: h is at or above it when no executed or claimed line covers h.
Admits(h) ==
    /\ h >= pruned /\ h >= leaked
    /\ pass.pc \in {"reserved", "written"} => h >= pass.line

LeaseFloors == {floors[r] : r \in {q \in Reader : floors[q] # None}}
               \cup (IF reorg.pc = "none" THEN {} ELSE {reorg.floor})

Expires(floor, policyLine) == Depth # 0 /\ floor < SatSub(policyLine, Depth)

Expired(policyLine) ==
    [r \in Reader |-> IF floors[r] # None /\ Expires(floors[r], policyLine) THEN None ELSE floors[r]]

-----------------------------------------------------------------------------
(***************************************************************************)
(* Blocks.                                                                 *)
(***************************************************************************)

\* The row of one block, which joins or leaves the applied chain.
Flip(row) == [h |-> row.h, file |-> row.file, live |-> ~row.live]
Retag(set, row) == (set \ {row}) \cup {Flip(row)}

\* The transition authority is free for a block of the sync path.
TransitionFree == pass.pc = "idle" /\ reorg.pc \notin {"running", "stuck"}

MayConnect == tip < MaxHeight /\ (TransitionFree \/ reorg.pc = "running")

\* Mutant: the rollover check is off by one.
ConnectNewOverfull ==
    /\ MayConnect
    /\ fill > FileBodies => current < MaxFile
    /\ current' = IF fill > FileBodies THEN current + 1 ELSE current
    /\ fill' = IF fill > FileBodies THEN 1 ELSE fill + 1
    /\ files' = files \cup {current'}
    /\ tip' = tip + 1
    /\ rows' = rows \cup {[h |-> tip + 1, file |-> current', live |-> TRUE]}
    /\ undo' = undo \cup {[h |-> tip + 1, file |-> current', live |-> TRUE]}
    /\ maxRow' = [maxRow EXCEPT ![current'] = Max2(@, tip + 1)]
    /\ UNCHANGED <<durable, base, frontier, registryVars, walk, reorg, pass>>

\* append, with its rollover to a new file, and the rows the head batch adds.
ConnectNew ==
    /\ MayConnect
    /\ fill = FileBodies => current < MaxFile
    /\ current' = IF fill = FileBodies THEN current + 1 ELSE current
    /\ fill' = IF fill = FileBodies THEN 1 ELSE fill + 1
    /\ files' = files \cup {current'}
    /\ tip' = tip + 1
    /\ rows' = rows \cup {[h |-> tip + 1, file |-> current', live |-> TRUE]}
    /\ undo' = undo \cup {[h |-> tip + 1, file |-> current', live |-> TRUE]}
    /\ maxRow' = [maxRow EXCEPT ![current'] = Max2(@, tip + 1)]
    /\ UNCHANGED <<durable, base, frontier, registryVars, walk, reorg, pass>>

\* A block connected before: its frame loads, so persist keeps the position
\* and the batch writes the same rows again.
ConnectKnown(row) ==
    /\ MayConnect
    /\ row.h = tip + 1 /\ ~row.live /\ row.file \in files
    /\ tip' = tip + 1
    /\ rows' = Retag(rows, row)
    /\ undo' = Retag(undo, row)
    /\ UNCHANGED <<durable, base, maxRow, fileVars, frontier, registryVars, walk, reorg, pass>>

PublishCheckpoint ==
    /\ TransitionFree
    /\ <<durable, base>> # <<tip, tip>>
    /\ durable' = tip /\ base' = tip
    /\ UNCHANGED <<tip, rowVars, fileVars, frontier, registryVars, walk, reorg, pass>>

-----------------------------------------------------------------------------
(***************************************************************************)
(* The reorganisation.  Its lease is acquired before the transition lock;  *)
(* under the lock the plan is computed again and must be the same.         *)
(***************************************************************************)

\* Mutant: the lease is taken without looking at the claims of running passes.
PrepareBranchesUnclaimed(floor) ==
    /\ reorg.pc = "none"
    /\ floor <= tip + 1
    /\ floor >= pruned
    /\ reorg' = [pc |-> "leased", floor |-> floor, from |-> tip]
    /\ UNCHANGED <<chainVars, rowVars, fileVars, frontier, registryVars, walk, pass>>

PrepareBranches(floor) ==
    /\ reorg.pc = "none"
    /\ floor <= tip + 1
    /\ Admits(floor)
    /\ reorg' = [pc |-> "leased", floor |-> floor, from |-> tip]
    /\ UNCHANGED <<chainVars, rowVars, fileVars, frontier, registryVars, walk, pass>>

BeginReorg ==
    /\ reorg.pc = "leased" /\ TransitionFree
    /\ reorg' = IF tip = reorg.from THEN ReorgAt("running") ELSE NoReorg
    /\ UNCHANGED <<chainVars, rowVars, fileVars, frontier, registryVars, walk, pass>>

\* Disconnecting the tip reads its body and its undo row.
Disconnectable(row) == row.h = tip /\ row.live /\ row \in undo /\ row.file \in files

DisconnectBlock ==
    /\ reorg.pc = "running" /\ tip >= reorg.floor
    /\ IF \E row \in rows : Disconnectable(row)
       THEN \E row \in rows :
              /\ Disconnectable(row)
              /\ tip' = tip - 1
              /\ base' = Min2(base, tip - 1)
              /\ rows' = Retag(rows, row) /\ undo' = Retag(undo, row)
              /\ UNCHANGED reorg
       ELSE reorg' = ReorgAt("stuck") /\ UNCHANGED <<tip, base, rows, undo>>
    /\ UNCHANGED <<durable, maxRow, fileVars, frontier, registryVars, walk, pass>>

\* It ends with every block connected, or where a body was missing or invalid;
\* the lease is dropped.
EndReorg ==
    /\ reorg.pc \in {"leased", "running"}
    /\ reorg' = NoReorg
    /\ UNCHANGED <<chainVars, rowVars, fileVars, frontier, registryVars, walk, pass>>

-----------------------------------------------------------------------------
(***************************************************************************)
(* The prune pass.  want is the height asked of the service, which raises  *)
(* it to the highest one it has executed; only the safety margin bounds it *)
(* here.                                                                   *)
(***************************************************************************)

\* Mutant: the line follows the request alone.
PolicyLineOfRequest(want) == want

PolicyLine(want) == SatSub(Min2(want + Margin, durable), Margin)

\* Mutant: a pass does not stop at the floors of the leases it kept.
ReserveOverLeases(want, line) ==
    /\ floors' = Expired(PolicyLine(want))
    /\ line = PolicyLine(want)
    /\ pass' = [pc |-> "reserved", line |-> line, files |-> {}, executed |-> 0]

\* reserve: withdraw leases over their budget, stop at the lowest floor left,
\* and claim the line against later requests.
Reserve(want, line) ==
    /\ floors' = Expired(PolicyLine(want))
    /\ line <= PolicyLine(want)
    /\ \A f \in LeaseFloors' : line <= f
    /\ line = PolicyLine(want) \/ line \in LeaseFloors'
    /\ pass' = [pc |-> "reserved", line |-> line, files |-> {}, executed |-> 0]

BeginPass(want, line) ==
    /\ TransitionFree
    /\ want <= SatSub(tip, Margin)
    /\ UNCHANGED reorg
    /\ Reserve(want, line)
    /\ UNCHANGED <<chainVars, rowVars, fileVars, frontier, pruned, leaked, walk>>

\* Files whose every row lies below the line, and which nobody appends to.
SelectedFiles == {f \in File : maxRow[f] # None /\ maxRow[f] < pass.line /\ f # current}

PrunedRows == {row \in rows : row.h < pass.line \/ row.file \in SelectedFiles}
PrunedUndo == {row \in undo : row.h < pass.line}

\* The frontier after the batch: one above the highest row removed.
ExecutedIs(e) ==
    /\ e >= frontier
    /\ \A row \in PrunedRows \cup PrunedUndo : row.h < e
    /\ e = frontier \/ \E row \in PrunedRows \cup PrunedUndo : e = row.h + 1

\* The batch lands: deletions, the frontier and the height, at once.
BatchLands(executed) ==
    /\ ExecutedIs(executed)
    /\ rows' = rows \ PrunedRows
    /\ undo' = undo \ PrunedUndo
    /\ frontier' = executed

\* write_durable succeeds, or fails and the receipt shows that it landed.
WriteBatch(executed) ==
    /\ pass.pc = "reserved"
    /\ BatchLands(executed)
    /\ pass' = [pc |-> "written", line |-> pass.line, files |-> SelectedFiles, executed |-> executed]
    /\ UNCHANGED <<chainVars, maxRow, fileVars, registryVars, walk, reorg>>

\* Staging fails, or the write fails and the receipt shows that it did not
\* land: the reservation is dropped.
AbortPass ==
    /\ "Batch" \in Faults
    /\ pass.pc = "reserved"
    /\ pass' = Idle
    /\ UNCHANGED <<chainVars, rowVars, fileVars, frontier, registryVars, walk, reorg>>

\* Mutant: the reservation is dropped although the batch may have landed.
ForgetNothing == UNCHANGED leaked

\* The write fails and the evidence cannot be read: the line stays claimed for
\* the life of the process, whether or not the batch landed.
ForgetReservation == leaked' = Max2(leaked, pass.line)

FailClosed(executed) ==
    /\ "Evidence" \in Faults
    /\ pass.pc = "reserved"
    /\ \/ BatchLands(executed)
       \/ executed = frontier /\ UNCHANGED <<rows, undo, frontier>>
    /\ ForgetReservation
    /\ pass' = Idle
    /\ UNCHANGED <<chainVars, maxRow, fileVars, pruned, floors, walk, reorg>>

\* commit: the claim becomes the executed line.
CommitReservation ==
    /\ pass.pc = "written"
    /\ pruned' = Max2(pruned, pass.executed)
    /\ pass' = [pc |-> "reclaim", line |-> 0, files |-> pass.files, executed |-> 0]
    /\ UNCHANGED <<chainVars, rowVars, fileVars, frontier, leaked, floors, walk, reorg>>

ReclaimFile(f) ==
    /\ pass.pc = "reclaim"
    /\ f \in pass.files \cap files
    /\ files' = files \ {f}
    /\ UNCHANGED <<chainVars, rowVars, current, fill, frontier, registryVars, walk, reorg, pass>>

\* The metadata rows of the deleted files go.
EndPass ==
    /\ pass.pc = "reclaim"
    /\ pass.files \cap files = {}
    /\ maxRow' = [f \in File |-> IF f \in pass.files THEN None ELSE maxRow[f]]
    /\ pass' = Idle
    /\ UNCHANGED <<chainVars, rows, undo, fileVars, frontier, registryVars, walk, reorg>>

\* A file that cannot be deleted ends the pass; its metadata row keeps it
\* selectable for the next one.
ReclaimFails ==
    /\ "Reclaim" \in Faults
    /\ pass.pc = "reclaim" /\ pass.files # {}
    /\ pass' = Idle
    /\ UNCHANGED <<chainVars, rowVars, fileVars, frontier, registryVars, walk, reorg>>

-----------------------------------------------------------------------------
(***************************************************************************)
(* Readers of history: the walk of the block database, and index workers   *)
(* that advance their floor as they go.  Each look at the index, at a file *)
(* and at the lease is a step of its own.                                  *)
(***************************************************************************)

RequestHistory(r, start) ==
    /\ walk[r].pc = "out"
    /\ start <= tip
    /\ Admits(start)
    /\ floors' = [floors EXCEPT ![r] = start]
    /\ walk' = [walk EXCEPT ![r] = [pc |-> "in", start |-> start, upto |-> tip, at |-> 0, file |-> 0]]
    /\ UNCHANGED <<chainVars, rowVars, fileVars, frontier, pruned, leaked, reorg, pass>>

Advance(r, start) ==
    /\ walk[r].pc = "in"
    /\ start > walk[r].start /\ start <= walk[r].upto
    /\ floors' = [floors EXCEPT ![r] = IF @ = None THEN None ELSE Max2(@, start)]
    /\ walk' = [walk EXCEPT ![r] = [pc |-> "in", start |-> start, upto |-> walk[r].upto, at |-> 0, file |-> 0]]
    /\ UNCHANGED <<chainVars, rowVars, fileVars, frontier, pruned, leaked, reorg, pass>>

Release(r) ==
    /\ walk[r].pc = "in"
    /\ floors' = [floors EXCEPT ![r] = None]
    /\ walk' = [walk EXCEPT ![r] = Out]
    /\ UNCHANGED <<chainVars, rowVars, fileVars, frontier, pruned, leaked, reorg, pass>>

\* poll_boundaries, then the index row of height h.
LookUp(r, h) ==
    /\ walk[r].pc = "in"
    /\ h >= walk[r].start /\ h <= walk[r].upto
    /\ IF floors[r] = None THEN walk' = [walk EXCEPT ![r] = Out]
       ELSE \/ \E row \in {q \in rows : q.h = h} :
                 walk' = [walk EXCEPT ![r] = WalkAt(r, "row", h, row.file)]
            \/ (\A row \in rows : row.h # h) /\ walk' = [walk EXCEPT ![r] = WalkAt(r, "absent", h, 0)]
    /\ UNCHANGED <<chainVars, rowVars, fileVars, frontier, registryVars, reorg, pass>>

\* load_frame_bytes: a file that is gone reads as no body.
LoadFrame(r) ==
    /\ walk[r].pc = "row"
    /\ walk' = [walk EXCEPT ![r] =
                    IF walk[r].file \in files THEN WalkAt(r, "body", walk[r].at, 0)
                    ELSE WalkAt(r, "absent", walk[r].at, 0)]
    /\ UNCHANGED <<chainVars, rowVars, fileVars, frontier, registryVars, reorg, pass>>

LoadUndo(r) ==
    /\ walk[r].pc = "body"
    /\ walk' = [walk EXCEPT ![r] =
                    IF \E row \in undo : row.h = walk[r].at THEN WalkAt(r, "in", 0, 0)
                    ELSE WalkAt(r, "absent", walk[r].at, 0)]
    /\ UNCHANGED <<chainVars, rowVars, fileVars, frontier, registryVars, reorg, pass>>

\* Mutant: a missing row is judged by the poll that preceded the read.
AbsentByEarlierPoll(r) ==
    /\ walk[r].pc = "absent"
    /\ walk' = [walk EXCEPT ![r] = WalkAt(r, "damaged", 0, 0)]
    /\ floors' = [floors EXCEPT ![r] = None]
    /\ UNCHANGED <<chainVars, rowVars, fileVars, frontier, pruned, leaked, reorg, pass>>

\* absent: damage when the lease still stands, a skip when it was withdrawn.
Absent(r) ==
    /\ walk[r].pc = "absent"
    /\ walk' = [walk EXCEPT ![r] = IF floors[r] # None THEN WalkAt(r, "damaged", 0, 0) ELSE Out]
    /\ floors' = [floors EXCEPT ![r] = None]
    /\ UNCHANGED <<chainVars, rowVars, fileVars, frontier, pruned, leaked, reorg, pass>>

-----------------------------------------------------------------------------
Present(h) ==
    \E row \in rows : row.h = h /\ row.live /\ row \in undo /\ row.file \in files

\* What a restart reads: the undo rows of the restored branch down to the
\* applied chain, and the applied chain's blocks from there up.
RecoveryRows ==
    /\ \A h \in base + 1 .. tip : Present(h)
    /\ \A h \in base + 1 .. durable : \E row \in rows \cap undo : row.h = h /\ row.file \in files

\* Mutant: the registry of a new process starts empty.
SeedEmpty ==
    /\ pruned' = 0
    /\ leaked' = 0
    /\ floors' = [r \in Reader |-> None]

\* A crash and the next boot.  The registry is seeded from the executed
\* frontier.  The journal may carry the restored state past the checkpoint,
\* and recovery publishes when it had to leave the restored branch.
SeedRegistry ==
    /\ pruned' = frontier
    /\ leaked' = 0
    /\ floors' = [r \in Reader |-> None]

Restart(h) ==
    /\ RecoveryRows
    /\ IF base < durable THEN h = tip ELSE h >= durable /\ h <= tip
    /\ durable' = h /\ base' = h
    /\ SeedRegistry
    /\ walk' = [r \in Reader |-> Out]
    /\ reorg' = NoReorg
    /\ pass' = Idle
    /\ UNCHANGED <<tip, rowVars, fileVars, frontier>>

-----------------------------------------------------------------------------
Init ==
    /\ tip = 0 /\ durable = 0 /\ base = 0
    /\ rows = {} /\ undo = {} /\ maxRow = [f \in File |-> None]
    /\ files = {0} /\ current = 0 /\ fill = 0
    /\ frontier = 0
    /\ pruned = 0 /\ leaked = 0 /\ floors = [r \in Reader |-> None]
    /\ walk = [r \in Reader |-> Out]
    /\ reorg = NoReorg /\ pass = Idle

ReaderStep(r) ==
    \/ \E h \in Height : RequestHistory(r, h) \/ Advance(r, h) \/ LookUp(r, h)
    \/ Release(r) \/ LoadFrame(r) \/ LoadUndo(r) \/ Absent(r)

PassStep ==
    \/ \E want, line \in 0 .. MaxHeight : BeginPass(want, line)
    \/ \E e \in 0 .. MaxHeight : WriteBatch(e) \/ FailClosed(e)
    \/ AbortPass \/ CommitReservation \/ EndPass \/ ReclaimFails
    \/ \E f \in File : ReclaimFile(f)

ChainStep ==
    \/ ConnectNew \/ PublishCheckpoint
    \/ \E row \in rows : ConnectKnown(row)
    \/ \E h \in Fork : PrepareBranches(h)
    \/ BeginReorg \/ DisconnectBlock \/ EndReorg

Next == ChainStep \/ PassStep \/ (\E r \in Reader : ReaderStep(r)) \/ (\E h \in 0 .. MaxHeight : Restart(h))

Spec == Init /\ [][Next]_vars

-----------------------------------------------------------------------------
BlockId == [h : Height, file : File, live : BOOLEAN]

WalkState == [pc : {"out", "in", "row", "body", "absent", "damaged"}, start : 0 .. MaxHeight,
              upto : 0 .. MaxHeight, at : 0 .. MaxHeight, file : File]
ReorgState == [pc : {"none", "leased", "running", "stuck"}, floor : 0 .. MaxHeight + 1,
               from : 0 .. MaxHeight]
PassState == [pc : {"idle", "reserved", "written", "reclaim"}, line : 0 .. MaxHeight,
              files : SUBSET File, executed : 0 .. MaxHeight]

\* Every variable of the store, the registry and the running operations has its type.
TypeOK ==
    /\ tip \in 0 .. MaxHeight /\ durable \in 0 .. MaxHeight /\ base \in 0 .. MaxHeight
    /\ rows \subseteq BlockId /\ undo \subseteq BlockId
    /\ maxRow \in [File -> Height \cup {None}]
    /\ files \subseteq File /\ current \in File /\ fill \in 0 .. FileBodies
    /\ frontier \in 0 .. MaxHeight
    /\ pruned \in 0 .. MaxHeight /\ leaked \in 0 .. MaxHeight
    /\ floors \in [Reader -> Height \cup {None}]
    /\ walk \in [Reader -> WalkState]
    /\ reorg \in ReorgState
    /\ pass \in PassState

\* A height the registry would admit (refusal_line) has its body row, its undo
\* row and its block file, at every point of a pass, after a pass that failed
\* with its batch on disk, and after a restart seeded from the frontier.
AdmittedHistoryExists == \A h \in 1 .. tip : Admits(h) => Present(h)

\* Nothing at or above a live lease's floor is gone, and no running pass has
\* claimed past it: a lease granted between two steps of a pass is as good
\* as one granted before it.
LeaseProtects ==
    \A f \in LeaseFloors : Admits(f) /\ \A h \in f .. tip : Present(h)

\* On a store that is not damaged the walk of the block database never says it
\* is: a row or file that a pass took away is only ever missed under a
\* withdrawn lease, which absent() checks after the read.
NoFalseDamage == \A r \in Reader : walk[r].pc # "damaged"

\* A reorganisation that got its lease before the transition lock finds the
\* body and the undo row of every block it disconnects, whatever passes ran
\* between the two.
ReorgFindsRows == reorg.pc # "stuck"

\* A restart finds the rows that lead from the restored checkpoint and journal
\* to the durable head, as long as the applied chain left the state that
\* durable_tip_height names by no more than the safety margin.
RecoveryFindsRows == durable <= base + Margin => RecoveryRows

\* What the registry has once called pruned stays pruned, over restarts too:
\* the line in memory never runs ahead of the frontier on disk.
PrunedNeverReturns == [][pruned' >= pruned]_vars
=============================================================================
