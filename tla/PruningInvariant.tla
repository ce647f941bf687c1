--------------------------- MODULE PruningInvariant --------------------------
(***************************************************************************)
(* Proofs about module Pruning, for any number of readers, blocks and      *)
(* files, any margin and budget, and any of the failures.                  *)
(*                                                                         *)
(* The argument is about two lines.  On disk, every height of the applied  *)
(* chain at or above the frontier has its rows and its file: the batch     *)
(* that deletes a row moves the frontier above it.  In memory, a height    *)
(* the registry admits is at or above the frontier: a pass claims its line *)
(* before its batch can land and gives the claim up only for the executed  *)
(* line, or never.  Leases lie above both because a pass stops at the      *)
(* lowest floor and a lease is only granted above every claim.             *)
(***************************************************************************)
EXTENDS Pruning, TLAPS

\* Disk: the applied chain, and the restored state's chain, have their rows
\* down to the frontier.
HeadRows == \A h \in 1 .. tip : h >= frontier => Present(h)
RestoredRows == \A h \in 1 .. durable : h >= frontier => \E row \in rows \cap undo : row.h = h

\* The files the running pass is about to delete.
Reclaiming == IF pass.pc \in {"written", "reclaim"} THEN pass.files ELSE {}

\* Every row has its file, which no pass is deleting, and the file's maximum
\* covers it.
RowsBacked ==
    /\ current \in files \ Reclaiming
    /\ \A row \in rows : row.file \in files \ Reclaiming /\ maxRow[row.file] >= row.h

\* Registry: the claims cover the frontier.
ClaimsCover ==
    /\ pruned <= frontier
    /\ frontier <= pruned \/ frontier <= leaked \/ (pass.pc = "written" /\ frontier <= pass.line)
    /\ pass.pc = "written" => pass.executed = frontier

\* Leases lie above the claims.
LeasesAdmitted ==
    /\ \A r \in Reader : floors[r] # None => Admits(floors[r])
    /\ reorg.pc # "none" => Admits(reorg.floor) /\ reorg.floor >= 1

\* The transition authority, and a reorganisation that finds its rows.
ReorgOk == (reorg.pc = "running" => pass.pc = "idle") /\ reorg.pc # "stuck"

\* Where the restored state stands relative to the frontier, and the line of a
\* pass relative to both.
RestoreOk ==
    /\ base <= durable /\ base <= tip
    /\ frontier <= tip + 1
    /\ durable <= base + Margin => frontier <= base + 1
    /\ pass.pc = "reserved" => pass.line <= tip /\ (pass.line + Margin <= durable \/ pass.line = 0)

\* What a reader with a live lease can rely on.
HasRows(h) == (\E row \in rows : row.h = h) /\ (\E row \in undo : row.h = h)

LeasedOk(r) ==
    /\ walk[r].pc \in {"in", "row", "body"}
    /\ floors[r] <= walk[r].start
    /\ \A h \in floors[r] .. walk[r].upto : HasRows(h)
    /\ walk[r].pc \in {"row", "body"} => walk[r].at \in walk[r].start .. walk[r].upto
    /\ walk[r].pc = "row" => /\ walk[r].file \in files \ Reclaiming
                             /\ maxRow[walk[r].file] >= walk[r].at

ReaderOk(r) == walk[r].pc # "damaged" /\ (floors[r] # None => LeasedOk(r))

ReadersOk == \A r \in Reader : ReaderOk(r)

IInv ==
    /\ TypeOK /\ HeadRows /\ RestoredRows /\ RowsBacked
    /\ ClaimsCover /\ LeasesAdmitted /\ ReorgOk /\ RestoreOk /\ ReadersOk

-----------------------------------------------------------------------------
(***************************************************************************)
(* Each action preserves the inductive invariant.                          *)
(***************************************************************************)

\* Retagging one block keeps the others and the block's height and file.
LEMMA RetagFacts ==
  ASSUME NEW S, S \subseteq BlockId, NEW row \in BlockId
  PROVE  /\ Retag(S, row) \subseteq BlockId
         /\ Flip(row) \in Retag(S, row)
         /\ Flip(row).h = row.h /\ Flip(row).file = row.file /\ Flip(row).live = ~row.live
         /\ \A x \in S : x # row => x \in Retag(S, row)
         /\ \A x \in Retag(S, row) : x \in S \/ x = Flip(row)
<1>1. Flip(row) \in BlockId /\ Flip(row).live = ~row.live
  BY DEF Flip, BlockId
<1> QED
  BY <1>1 DEF Retag, Flip

\* So a height that had rows keeps them.
LEMMA RetagHeights ==
  ASSUME TypeOK, NEW row \in rows, rows' = Retag(rows, row), undo' = Retag(undo, row)
  PROVE  /\ \A h : HasRows(h) => HasRows(h)'
         /\ \A h : (\E x \in rows \cap undo : x.h = h) => (\E x \in rows' \cap undo' : x.h = h)
<1>1. row \in BlockId /\ rows \subseteq BlockId /\ undo \subseteq BlockId
  BY DEF TypeOK
<1>2. /\ Flip(row) \in rows' /\ Flip(row) \in undo' /\ Flip(row).h = row.h
      /\ \A x \in rows : x # row => x \in rows'
      /\ \A x \in undo : x # row => x \in undo'
  BY <1>1, RetagFacts
<1>3. ASSUME NEW h, HasRows(h) PROVE HasRows(h)'
  BY <1>2, <1>3 DEF HasRows
<1>4. ASSUME NEW h, NEW x \in rows \cap undo, x.h = h PROVE \E y \in rows' \cap undo' : y.h = h
  BY <1>2, <1>4
<1> QED
  BY <1>3, <1>4

\* The same for a leased reader that the step leaves alone.
LEMMA ReadersKept ==
  ASSUME TypeOK, ReadersOk, \A h : HasRows(h) => HasRows(h)', UNCHANGED <<files, maxRow, walk, floors>>,
         Reclaiming' \subseteq Reclaiming
  PROVE  ReadersOk'
<1> SUFFICES ASSUME NEW r \in Reader PROVE ReaderOk(r)'
  BY DEF ReadersOk
<1>1. ReaderOk(r)
  BY DEF ReadersOk
<1>2. CASE floors[r] = None
  BY <1>1, <1>2, SMTT(60) DEF ReaderOk
<1>3. CASE floors[r] # None
  <2>1. LeasedOk(r)
    BY <1>1, <1>3, SMTT(60) DEF ReaderOk
  <2>2. LeasedOk(r)'
    BY <2>1 DEF LeasedOk
  <2> QED
    BY <1>1, <2>2, SMTT(60) DEF ReaderOk
<1> QED
  BY <1>2, <1>3

\* What a batch removes lies below the line and below the frontier it writes,
\* because a file's maximum covers every row in it.
LEMMA BatchFacts ==
  ASSUME TypeOK, RowsBacked, pass.pc = "reserved", NEW e \in 0 .. MaxHeight, BatchLands(e)
  PROVE  /\ frontier' = e /\ e >= frontier
         /\ e = frontier \/ e <= pass.line
         /\ rows' \subseteq rows /\ undo' \subseteq undo
         /\ \A x \in rows : x \notin rows' => x.h < e /\ x.h < pass.line
         /\ \A x \in undo : x \notin undo' => x.h < e /\ x.h < pass.line
         /\ \A x \in rows' : x.file \notin SelectedFiles
<1>1. \A x \in PrunedRows \cup PrunedUndo : x \in BlockId /\ x.h < pass.line
  BY SMTT(60) DEF TypeOK, BlockId, PassState, RowsBacked, PrunedRows, PrunedUndo, SelectedFiles, Height, File, None
<1>2. \A x \in PrunedRows \cup PrunedUndo : x.h < e
  BY DEF BatchLands, ExecutedIs
<1>3. e = frontier \/ e <= pass.line
  BY <1>1 DEF BatchLands, ExecutedIs, BlockId, Height, TypeOK, PassState
<1>4. \A x \in rows' : x.file \notin SelectedFiles
  BY SMTT(60) DEF BatchLands, PrunedRows
<1> QED
  BY <1>1, <1>2, <1>3, <1>4 DEF BatchLands, ExecutedIs

\* A block whose body is appended, with the rollover of the block file.
LEMMA ConnectNewKeeps ==
  ASSUME IInv, ConnectNew PROVE IInv'
<1>a. /\ TypeOK /\ HeadRows /\ RestoredRows /\ RowsBacked /\ ClaimsCover
      /\ LeasesAdmitted /\ ReorgOk /\ RestoreOk /\ ReadersOk
  BY DEF IInv
<1> USE <1>a, PruningAssumption
<1> USE DEF ConnectNew, chainVars, rowVars, fileVars, registryVars, Height, File, None, MayConnect, TransitionFree,
      Max2
<1>1. TypeOK'
  <2> DEFINE new == [h |-> tip + 1, file |-> current', live |-> TRUE]
  <2>1. current' \in File /\ new \in BlockId
    BY SMTT(60) DEF TypeOK, BlockId
  <2>2. fill' \in 0 .. FileBodies /\ files' \subseteq File /\ tip' \in 0 .. MaxHeight
    BY <2>1 DEF TypeOK
  <2>3. rows' \subseteq BlockId /\ undo' \subseteq BlockId
    BY <2>1, ZenonT(60) DEF TypeOK
  <2>4. maxRow' \in [File -> Height \cup {None}]
    BY <2>1 DEF TypeOK
  <2> QED
    BY <2>1, <2>2, <2>3, <2>4 DEF TypeOK
<1>2. HeadRows'
  <2> DEFINE new == [h |-> tip + 1, file |-> current', live |-> TRUE]
  <2>1. current' \in File /\ new \in BlockId
    BY SMTT(60) DEF TypeOK, BlockId
  <2>2. /\ new \in rows' /\ new \in undo' /\ new.h = tip + 1 /\ new.file \in files' /\ new.live
        /\ rows \subseteq rows' /\ undo \subseteq undo' /\ files \subseteq files'
    OBVIOUS
  <2> HIDE DEF new
  <2> SUFFICES ASSUME NEW h \in 1 .. tip', h >= frontier PROVE Present(h)'
    BY DEF HeadRows
  <2>3. CASE h = tip + 1
    BY <2>2, <2>3 DEF Present
  <2>4. CASE h # tip + 1
    <3>1. Present(h)
      BY <2>4 DEF HeadRows, TypeOK
    <3> QED
      BY <2>2, <3>1 DEF Present
  <2> QED
    BY <2>3, <2>4
<1>3. RowsBacked'
  <2> DEFINE new == [h |-> tip + 1, file |-> current', live |-> TRUE]
  <2>1. current' \in File /\ new \in BlockId
    BY SMTT(60) DEF TypeOK, BlockId
  <2>2. pass.pc = "idle" /\ pass' = pass
    BY DEF ReorgOk
  <2>3. /\ current' \in files'
        /\ maxRow'[current'] >= tip + 1
        /\ \A f \in File : maxRow'[f] >= maxRow[f]
    <3>1. tip + 1 \in Int /\ \A f \in File : maxRow[f] \in Int
      BY DEF TypeOK
    <3>2. \A f \in File : maxRow'[f] = IF f = current' THEN Max2(maxRow[f], tip + 1) ELSE maxRow[f]
      BY <2>1 DEF TypeOK
    <3> QED
      BY <2>1, <3>1, <3>2
  <2>4. \A row \in rows : row.file \in files' /\ maxRow'[row.file] >= row.h
    BY <2>1, <2>3 DEF RowsBacked, TypeOK, BlockId
  <2>5. \A row \in rows' : row.file \in files' /\ maxRow'[row.file] >= row.h
    BY <2>3, <2>4
  <2> QED
    BY <2>2, <2>3, <2>5 DEF RowsBacked, Reclaiming
<1>4. RestoreOk'
  BY SMTT(60) DEF TypeOK, BlockId, WalkState, ReorgState, PassState, RestoreOk
<1>5. ReadersOk'
  <2> DEFINE new == [h |-> tip + 1, file |-> current', live |-> TRUE]
  <2>1. current' \in File /\ new \in BlockId
    BY SMTT(60) DEF TypeOK, BlockId
  <2>2. \A f \in File : maxRow'[f] >= maxRow[f] /\ maxRow[f] \in Int /\ maxRow'[f] \in Int
    BY <2>1 DEF TypeOK
  <2>3. \A h : HasRows(h) => HasRows(h)'
    BY DEF HasRows
  <2> SUFFICES ASSUME NEW r \in Reader PROVE ReaderOk(r)'
    BY DEF ReadersOk
  <2>4. ReaderOk(r) /\ walk[r] \in WalkState
    BY DEF ReadersOk, TypeOK
  <2>5. CASE floors[r] = None
    BY <2>4, <2>5, SMTT(60) DEF ReaderOk
  <2>6. CASE floors[r] # None
    <3>1. LeasedOk(r)
      BY <2>4, <2>6, SMTT(60) DEF ReaderOk
    <3>2. walk[r].pc = "row" => walk[r].file \in files' \ Reclaiming' /\ maxRow'[walk[r].file] >= walk[r].at
      BY <2>2, <2>4, <3>1, SMTT(60) DEF LeasedOk, WalkState, Reclaiming
    <3>3. LeasedOk(r)'
      BY <2>3, <3>1, <3>2 DEF LeasedOk
    <3> QED
      BY <2>4, <3>3, SMTT(60) DEF ReaderOk
  <2> QED
    BY <2>5, <2>6
<1>6. RestoredRows' /\ ClaimsCover' /\ LeasesAdmitted' /\ ReorgOk'
  BY DEF RestoredRows, ClaimsCover, Admits, LeasesAdmitted, ReorgOk
<1> QED
  BY <1>1, <1>2, <1>3, <1>4, <1>5, <1>6 DEF IInv

\* A block whose body is already stored.
LEMMA ConnectKnownKeeps ==
  ASSUME NEW row \in rows, IInv, ConnectKnown(row) PROVE IInv'
<1>a. /\ TypeOK /\ HeadRows /\ RestoredRows /\ RowsBacked /\ ClaimsCover
      /\ LeasesAdmitted /\ ReorgOk /\ RestoreOk /\ ReadersOk
  BY DEF IInv
<1> USE <1>a, PruningAssumption
<1> USE DEF ConnectKnown, chainVars, rowVars, fileVars, registryVars, Height, File, None, MayConnect, TransitionFree
<1>1. TypeOK'
  <2>1. row \in BlockId /\ rows \subseteq BlockId /\ undo \subseteq BlockId
    BY DEF TypeOK
  <2>2. rows' \subseteq BlockId /\ undo' \subseteq BlockId
    BY <2>1, RetagFacts
  <2> QED
    BY <2>2 DEF TypeOK
<1>2. HeadRows'
  <2>1. row \in BlockId /\ rows \subseteq BlockId /\ undo \subseteq BlockId
    BY DEF TypeOK
  <2>2. /\ Flip(row) \in rows' /\ Flip(row) \in undo'
        /\ Flip(row).h = row.h /\ Flip(row).file = row.file /\ Flip(row).live = ~row.live
        /\ \A x \in rows : x # row => x \in rows'
        /\ \A x \in undo : x # row => x \in undo'
        /\ \A x \in rows' : x \in rows \/ x = Flip(row)
    BY <2>1, RetagFacts
  <2> SUFFICES ASSUME NEW h \in 1 .. tip', h >= frontier PROVE Present(h)'
    BY DEF HeadRows
  <2>3. CASE h = tip + 1
    BY <2>2, <2>3, ZenonT(60) DEF Present
  <2>4. CASE h # tip + 1
    <3>1. Present(h)
      BY <2>4 DEF HeadRows, TypeOK
    <3> QED
      BY <2>2, <3>1 DEF Present
  <2> QED
    BY <2>3, <2>4
<1>3. RestoredRows'
  BY RetagHeights DEF RestoredRows
<1>4. RowsBacked'
  <2>1. row \in BlockId /\ rows \subseteq BlockId /\ undo \subseteq BlockId
    BY DEF TypeOK
  <2>2. /\ Flip(row) \in rows' /\ Flip(row) \in undo'
        /\ Flip(row).h = row.h /\ Flip(row).file = row.file /\ Flip(row).live = ~row.live
        /\ \A x \in rows : x # row => x \in rows'
        /\ \A x \in undo : x # row => x \in undo'
        /\ \A x \in rows' : x \in rows \/ x = Flip(row)
    BY <2>1, RetagFacts
  <2> QED
    BY <2>2 DEF RowsBacked, Reclaiming
<1>5. RestoreOk'
  BY DEF RestoreOk, TypeOK, PassState
<1>6. ReadersOk'
  <2>1. \A h : HasRows(h) => HasRows(h)'
    BY RetagHeights
  <2> QED
    BY <2>1, ReadersKept DEF Reclaiming
<1>7. ClaimsCover' /\ LeasesAdmitted' /\ ReorgOk'
  BY DEF ClaimsCover, Admits, LeasesAdmitted, ReorgOk
<1> QED
  BY <1>1, <1>2, <1>3, <1>4, <1>5, <1>6, <1>7 DEF IInv

\* A published checkpoint: the restored state moves to the applied tip.
LEMMA PublishCheckpointKeeps ==
  ASSUME IInv, PublishCheckpoint PROVE IInv'
<1>a. /\ TypeOK /\ HeadRows /\ RestoredRows /\ RowsBacked /\ ClaimsCover
      /\ LeasesAdmitted /\ ReorgOk /\ RestoreOk /\ ReadersOk
  BY DEF IInv
<1> USE <1>a, PruningAssumption
<1> USE DEF PublishCheckpoint, chainVars, rowVars, fileVars, registryVars, Height, File, None, TransitionFree
<1>1. TypeOK'
  BY DEF TypeOK
<1>2. RestoredRows'
  BY ZenonT(60) DEF TypeOK, BlockId, WalkState, ReorgState, PassState, RestoredRows, HeadRows, Present
<1>3. RestoreOk'
  BY SMTT(60) DEF TypeOK, BlockId, WalkState, ReorgState, PassState, RestoreOk
<1>4. HeadRows' /\ RowsBacked' /\ ClaimsCover' /\ LeasesAdmitted' /\ ReorgOk' /\ ReadersOk'
  BY SMTT(60) DEF HeadRows, Present, RowsBacked, Reclaiming, ClaimsCover, Admits, LeasesAdmitted, ReorgOk, ReadersOk, ReaderOk,
     LeasedOk, HasRows
<1> QED
  BY <1>1, <1>2, <1>3, <1>4 DEF IInv

\* A mandatory lease, granted above every claim.
LEMMA PrepareBranchesKeeps ==
  ASSUME NEW h \in Fork, IInv, PrepareBranches(h) PROVE IInv'
<1>a. /\ TypeOK /\ HeadRows /\ RestoredRows /\ RowsBacked /\ ClaimsCover
      /\ LeasesAdmitted /\ ReorgOk /\ RestoreOk /\ ReadersOk
  BY DEF IInv
<1> USE <1>a, PruningAssumption
<1> USE DEF PrepareBranches, chainVars, rowVars, fileVars, registryVars, Height, File, None
<1>1. TypeOK'
  BY DEF TypeOK, ReorgState
<1>2. HeadRows' /\ RestoredRows' /\ RowsBacked' /\ ClaimsCover' /\ LeasesAdmitted' /\ ReorgOk' /\ RestoreOk' /\
      ReadersOk'
  BY DEF HeadRows, Present, RestoredRows, RowsBacked, Reclaiming, ClaimsCover, Admits, LeasesAdmitted, ReorgOk,
     RestoreOk, ReadersOk, ReaderOk, LeasedOk, HasRows
<1> QED
  BY <1>1, <1>2 DEF IInv

\* The reorganisation under the transition lock, or its replanning.
LEMMA BeginReorgKeeps ==
  ASSUME IInv, BeginReorg PROVE IInv'
<1>a. /\ TypeOK /\ HeadRows /\ RestoredRows /\ RowsBacked /\ ClaimsCover
      /\ LeasesAdmitted /\ ReorgOk /\ RestoreOk /\ ReadersOk
  BY DEF IInv
<1> USE <1>a, PruningAssumption
<1> USE DEF BeginReorg, chainVars, rowVars, fileVars, registryVars, Height, File, None, TransitionFree, NoReorg,
      ReorgAt
<1>1. TypeOK'
  BY DEF TypeOK, ReorgState
<1>2. HeadRows' /\ RestoredRows' /\ RowsBacked' /\ ClaimsCover' /\ LeasesAdmitted' /\ ReorgOk' /\ RestoreOk' /\
      ReadersOk'
  BY DEF HeadRows, Present, RestoredRows, RowsBacked, Reclaiming, ClaimsCover, Admits, LeasesAdmitted, ReorgOk,
     RestoreOk, ReadersOk, ReaderOk, LeasedOk, HasRows
<1> QED
  BY <1>1, <1>2 DEF IInv

\* A disconnect: the lease puts the tip at or above the frontier, so its rows exist.
LEMMA DisconnectBlockKeeps ==
  ASSUME IInv, DisconnectBlock PROVE IInv'
<1>a. /\ TypeOK /\ HeadRows /\ RestoredRows /\ RowsBacked /\ ClaimsCover
      /\ LeasesAdmitted /\ ReorgOk /\ RestoreOk /\ ReadersOk
  BY DEF IInv
<1> USE <1>a, PruningAssumption
<1> USE DEF DisconnectBlock, chainVars, rowVars, fileVars, registryVars, Height, File, None, Disconnectable, Min2,
      ReorgAt
<1>0. /\ tip >= 1 /\ tip >= frontier
      /\ \E row \in rows : Disconnectable(row)
      /\ \E row \in rows : /\ Disconnectable(row) /\ rows' = Retag(rows, row) /\ undo' = Retag(undo, row)
                          /\ tip' = tip - 1 /\ base' = Min2(base, tip - 1) /\ UNCHANGED reorg
  <2>1. tip >= 1 /\ tip >= frontier
    BY DEF TypeOK, ReorgState, PassState, LeasesAdmitted, Admits, ClaimsCover, ReorgOk
  <2>2. Present(tip)
    BY <2>1 DEF HeadRows, TypeOK
  <2> QED
    BY <2>1, <2>2 DEF Present
<1>1. TypeOK'
  <2>0. PICK row \in rows : /\ Disconnectable(row) /\ rows' = Retag(rows, row) /\ undo' = Retag(undo, row)
                          /\ tip' = tip - 1 /\ UNCHANGED reorg
    BY <1>0
  <2>1. row \in BlockId /\ rows \subseteq BlockId /\ undo \subseteq BlockId
    BY SMTT(60) DEF TypeOK
  <2>2. rows' \subseteq BlockId /\ undo' \subseteq BlockId
    BY <2>0, <2>1, RetagFacts
  <2>3. tip' \in 0 .. MaxHeight /\ base' \in 0 .. MaxHeight
    <3>1. tip \in 1 .. MaxHeight /\ base \in 0 .. MaxHeight /\ tip' = tip - 1 /\ base' = Min2(base, tip - 1)
      BY <1>0 DEF TypeOK
    <3> HIDE DEF DisconnectBlock
    <3> QED
      BY <3>1
  <2> QED
    BY <2>0, <2>2, <2>3, ZenonT(60) DEF TypeOK
<1>2. HeadRows'
  <2>0. PICK row \in rows : /\ Disconnectable(row) /\ rows' = Retag(rows, row) /\ undo' = Retag(undo, row)
                          /\ tip' = tip - 1 /\ UNCHANGED reorg
    BY <1>0
  <2>1. row \in BlockId /\ rows \subseteq BlockId /\ undo \subseteq BlockId
    BY DEF TypeOK
  <2>2. /\ Flip(row) \in rows' /\ Flip(row) \in undo'
        /\ Flip(row).h = row.h /\ Flip(row).file = row.file /\ Flip(row).live = ~row.live
        /\ \A x \in rows : x # row => x \in rows'
        /\ \A x \in undo : x # row => x \in undo'
        /\ \A x \in rows' : x \in rows \/ x = Flip(row)
    BY <2>0, <2>1, RetagFacts
  <2> SUFFICES ASSUME NEW h \in 1 .. tip', h >= frontier PROVE Present(h)'
    BY DEF HeadRows
  <2>3. Present(h) /\ h # row.h
    <3>1. tip \in Int /\ tip' = tip - 1 /\ row.h = tip
      BY <2>0 DEF TypeOK
    <3>2. h \in 1 .. tip /\ h # row.h
      <4> HIDE DEF DisconnectBlock
      <4> QED
        BY <3>1
    <3> QED
      BY <3>2 DEF HeadRows
  <2> QED
    BY <2>2, <2>3 DEF Present
<1>3. RestoredRows'
  <2>0. PICK row \in rows : /\ Disconnectable(row) /\ rows' = Retag(rows, row) /\ undo' = Retag(undo, row)
                          /\ tip' = tip - 1 /\ UNCHANGED reorg
    BY <1>0
  <2> QED
    BY <2>0, RetagHeights DEF RestoredRows
<1>4. RowsBacked'
  <2>0. PICK row \in rows : /\ Disconnectable(row) /\ rows' = Retag(rows, row) /\ undo' = Retag(undo, row)
                          /\ tip' = tip - 1 /\ UNCHANGED reorg
    BY <1>0
  <2>1. row \in BlockId /\ rows \subseteq BlockId /\ undo \subseteq BlockId
    BY DEF TypeOK
  <2>2. /\ Flip(row) \in rows' /\ Flip(row) \in undo'
        /\ Flip(row).h = row.h /\ Flip(row).file = row.file /\ Flip(row).live = ~row.live
        /\ \A x \in rows : x # row => x \in rows'
        /\ \A x \in undo : x # row => x \in undo'
        /\ \A x \in rows' : x \in rows \/ x = Flip(row)
    BY <2>0, <2>1, RetagFacts
  <2> QED
    BY <2>2 DEF RowsBacked, Reclaiming
<1>5. ClaimsCover'
  BY DEF ClaimsCover
<1>6. LeasesAdmitted'
  BY <1>0 DEF LeasesAdmitted, Admits
<1>7. ReorgOk'
  BY <1>0 DEF ReorgOk
<1>8. RestoreOk'
  <2>1. /\ pass.pc = "idle" /\ pass' = pass /\ durable' = durable /\ frontier' = frontier
        /\ tip' = tip - 1 /\ base' = IF base <= tip - 1 THEN base ELSE tip - 1
    BY <1>0 DEF ReorgOk
  <2>2. tip \in Int /\ base \in Int /\ durable \in Int /\ frontier \in Int /\ frontier <= tip
    BY <1>0 DEF TypeOK
  <2> QED
    BY <2>1, <2>2 DEF RestoreOk
<1>9. ReadersOk'
  <2>0. PICK row \in rows : /\ Disconnectable(row) /\ rows' = Retag(rows, row) /\ undo' = Retag(undo, row)
                          /\ tip' = tip - 1 /\ UNCHANGED reorg
    BY <1>0
  <2>1. \A h : HasRows(h) => HasRows(h)'
    BY <2>0, RetagHeights
  <2> QED
    BY <2>1, ReadersKept DEF Reclaiming
<1> QED
  BY <1>1, <1>2, <1>3, <1>4, <1>5, <1>6, <1>7, <1>8, <1>9 DEF IInv

\* The end of a reorganisation.
LEMMA EndReorgKeeps ==
  ASSUME IInv, EndReorg PROVE IInv'
<1>a. /\ TypeOK /\ HeadRows /\ RestoredRows /\ RowsBacked /\ ClaimsCover
      /\ LeasesAdmitted /\ ReorgOk /\ RestoreOk /\ ReadersOk
  BY DEF IInv
<1> USE <1>a, PruningAssumption
<1> USE DEF EndReorg, chainVars, rowVars, fileVars, registryVars, Height, File, None, NoReorg
<1>1. TypeOK'
  BY DEF TypeOK, ReorgState
<1>2. HeadRows' /\ RestoredRows' /\ RowsBacked' /\ ClaimsCover' /\ LeasesAdmitted' /\ ReorgOk' /\ RestoreOk' /\
      ReadersOk'
  BY DEF HeadRows, Present, RestoredRows, RowsBacked, Reclaiming, ClaimsCover, Admits, LeasesAdmitted, ReorgOk,
     RestoreOk, ReadersOk, ReaderOk, LeasedOk, HasRows
<1> QED
  BY <1>1, <1>2 DEF IInv

\* The claim of a pass, which stops at the lowest floor left.
LEMMA BeginPassKeeps ==
  ASSUME NEW want \in 0 .. MaxHeight, NEW line \in 0 .. MaxHeight,
         IInv, BeginPass(want, line) PROVE IInv'
<1>a. /\ TypeOK /\ HeadRows /\ RestoredRows /\ RowsBacked /\ ClaimsCover
      /\ LeasesAdmitted /\ ReorgOk /\ RestoreOk /\ ReadersOk
  BY DEF IInv
<1> USE <1>a, PruningAssumption
<1> USE DEF BeginPass, chainVars, rowVars, fileVars, registryVars, Height, File, None, TransitionFree, Reserve, Idle,
      Expired, Expires, PolicyLine, SatSub, Min2
<1>1. TypeOK'
  BY DEF TypeOK, PassState
<1>2. LeasesAdmitted'
  <2>1. LeaseFloors' = {floors'[r] : r \in {q \in Reader : floors'[q] # None}}
                       \cup (IF reorg.pc = "none" THEN {} ELSE {reorg.floor})
    BY DEF LeaseFloors
  <2>2. /\ \A r \in Reader : floors'[r] # None => line <= floors'[r]
        /\ reorg.pc # "none" => line <= reorg.floor
    BY <2>1
  <2>3. \A r \in Reader : floors'[r] # None => floors'[r] = floors[r]
    BY DEF TypeOK
  <2>4. \A x : Admits(x) /\ line <= x => Admits(x)'
    BY DEF Admits
  <2> QED
    BY <2>2, <2>3, <2>4 DEF LeasesAdmitted
<1>3. RestoreOk'
  BY SMTT(60) DEF TypeOK, BlockId, WalkState, ReorgState, PassState, RestoreOk
<1>4. HeadRows' /\ RestoredRows' /\ RowsBacked' /\ ClaimsCover' /\ ReorgOk' /\ ReadersOk'
  BY SMTT(60) DEF HeadRows, Present, RestoredRows, RowsBacked, Reclaiming, ClaimsCover, Admits, ReorgOk, ReadersOk, ReaderOk,
     LeasedOk, HasRows
<1> QED
  BY <1>1, <1>2, <1>3, <1>4 DEF IInv

\* The batch of a pass.
LEMMA WriteBatchKeeps ==
  ASSUME NEW e \in 0 .. MaxHeight, IInv, WriteBatch(e) PROVE IInv'
<1>a. /\ TypeOK /\ HeadRows /\ RestoredRows /\ RowsBacked /\ ClaimsCover
      /\ LeasesAdmitted /\ ReorgOk /\ RestoreOk /\ ReadersOk
  BY DEF IInv
<1> USE <1>a, PruningAssumption
<1> USE DEF WriteBatch, chainVars, rowVars, fileVars, registryVars, Height, File, None
<1>0. /\ frontier' = e /\ e >= frontier
      /\ e = frontier \/ e <= pass.line
      /\ rows' \subseteq rows /\ undo' \subseteq undo
      /\ \A x \in rows : x \notin rows' => x.h < e /\ x.h < pass.line
      /\ \A x \in undo : x \notin undo' => x.h < e /\ x.h < pass.line
      /\ \A x \in rows' : x.file \notin SelectedFiles
  BY BatchFacts
<1>1. TypeOK'
  <2>1. SelectedFiles \subseteq File
    BY DEF SelectedFiles
  <2> QED
    BY <1>0, <2>1 DEF TypeOK, PassState
<1>2. HeadRows'
  <2> SUFFICES ASSUME NEW h \in 1 .. tip, h >= frontier' PROVE Present(h)'
    BY DEF HeadRows
  <2>1. Present(h)
    BY <1>0 DEF HeadRows, TypeOK
  <2> QED
    BY <1>0, <2>1 DEF Present
<1>3. RestoredRows'
  <2> SUFFICES ASSUME NEW h \in 1 .. durable, h >= frontier' PROVE \E row \in rows' \cap undo' : row.h = h
    BY DEF RestoredRows
  <2>1. PICK row \in rows \cap undo : row.h = h
    BY <1>0 DEF RestoredRows, TypeOK
  <2> QED
    BY <1>0, <2>1
<1>4. RowsBacked'
  <2>1. Reclaiming' \subseteq SelectedFiles /\ current' = current /\ current \notin SelectedFiles
    BY DEF Reclaiming, SelectedFiles
  <2> QED
    BY <1>0, <2>1 DEF RowsBacked, Reclaiming
<1>5. ClaimsCover'
  BY <1>0 DEF ClaimsCover, TypeOK, PassState
<1>6. RestoreOk'
  <2>1. /\ tip \in Int /\ base \in Int /\ durable \in Int /\ frontier \in Int /\ frontier' \in Int
        /\ pass.line \in Int /\ Margin \in Int
        /\ tip' = tip /\ base' = base /\ durable' = durable /\ pass'.pc # "reserved"
    BY <1>0 DEF TypeOK, PassState
  <2>2. /\ base <= durable /\ base <= tip /\ frontier <= tip + 1
        /\ durable <= base + Margin => frontier <= base + 1
        /\ pass.line <= tip /\ (pass.line + Margin <= durable \/ pass.line = 0)
    BY DEF RestoreOk
  <2>3. base >= 0 /\ tip >= 0
    BY DEF TypeOK
  <2>4. frontier' <= tip + 1 /\ (durable <= base + Margin => frontier' <= base + 1)
    <3> HIDE DEF WriteBatch
    <3> QED
      BY <1>0, <2>1, <2>2, <2>3
  <2> QED
    BY <2>1, <2>2, <2>4 DEF RestoreOk
<1>7. ReadersOk'
  <2> SUFFICES ASSUME NEW r \in Reader PROVE ReaderOk(r)'
    BY DEF ReadersOk
  <2>1. /\ ReaderOk(r) /\ walk[r] \in WalkState /\ floors[r] \in Height \cup {None}
        /\ walk' = walk /\ floors' = floors /\ files' = files /\ maxRow' = maxRow
    BY DEF ReadersOk, TypeOK
  <2>2. CASE floors[r] = None
    BY <2>1, <2>2, SMTT(60) DEF ReaderOk
  <2>3. CASE floors[r] # None
    <3>1. LeasedOk(r) /\ floors[r] >= pass.line
      BY <2>1, <2>3, SMTT(60) DEF ReaderOk, LeasesAdmitted, Admits
    <3>2. \A h \in floors[r] .. walk[r].upto : HasRows(h)'
      <4> SUFFICES ASSUME NEW h \in floors[r] .. walk[r].upto PROVE HasRows(h)'
        OBVIOUS
      <4>1. HasRows(h) /\ ~(h < pass.line)
        BY <2>1, <3>1, SMTT(60) DEF LeasedOk, TypeOK, PassState, WalkState
      <4> QED
        BY <1>0, <4>1 DEF HasRows
    <3>3. walk[r].pc = "row" => walk[r].file \notin Reclaiming'
      BY <2>1, <3>1, SMTT(60) DEF LeasedOk, WalkState, Reclaiming, SelectedFiles, TypeOK, PassState
    <3>4. LeasedOk(r)'
      BY <2>1, <3>1, <3>2, <3>3 DEF LeasedOk
    <3> QED
      BY <2>1, <3>4, SMTT(60) DEF ReaderOk
  <2> QED
    BY <2>2, <2>3
<1>8. LeasesAdmitted' /\ ReorgOk'
  BY DEF LeasesAdmitted, Admits, ReorgOk
<1> QED
  BY <1>1, <1>2, <1>3, <1>4, <1>5, <1>6, <1>7, <1>8 DEF IInv

\* A batch whose outcome cannot be read: the claim stays.
LEMMA FailClosedKeeps ==
  ASSUME NEW e \in 0 .. MaxHeight, IInv, FailClosed(e) PROVE IInv'
<1>a. /\ TypeOK /\ HeadRows /\ RestoredRows /\ RowsBacked /\ ClaimsCover
      /\ LeasesAdmitted /\ ReorgOk /\ RestoreOk /\ ReadersOk
  BY DEF IInv
<1> USE <1>a, PruningAssumption
<1> USE DEF FailClosed, chainVars, rowVars, fileVars, registryVars, Height, File, None, ForgetReservation, Idle, Max2
<1>0. /\ frontier' = e /\ e >= frontier
      /\ e = frontier \/ e <= pass.line
      /\ rows' \subseteq rows /\ undo' \subseteq undo
      /\ \A x \in rows : x \notin rows' => x.h < e /\ x.h < pass.line
      /\ \A x \in undo : x \notin undo' => x.h < e /\ x.h < pass.line
  <2>1. CASE BatchLands(e)
    BY <2>1, BatchFacts
  <2>2. CASE e = frontier /\ UNCHANGED <<rows, undo, frontier>>
    BY <2>2 DEF TypeOK
  <2> QED
    BY <2>1, <2>2
<1>1. TypeOK'
  BY <1>0 DEF TypeOK, PassState
<1>2. HeadRows'
  <2> SUFFICES ASSUME NEW h \in 1 .. tip, h >= frontier' PROVE Present(h)'
    BY DEF HeadRows
  <2>1. Present(h)
    BY <1>0 DEF HeadRows, TypeOK
  <2> QED
    BY <1>0, <2>1 DEF Present
<1>3. RestoredRows'
  <2> SUFFICES ASSUME NEW h \in 1 .. durable, h >= frontier' PROVE \E row \in rows' \cap undo' : row.h = h
    BY DEF RestoredRows
  <2>1. PICK row \in rows \cap undo : row.h = h
    BY <1>0 DEF RestoredRows, TypeOK
  <2> QED
    BY <1>0, <2>1
<1>4. RowsBacked'
  BY <1>0 DEF RowsBacked, Reclaiming
<1>5. ClaimsCover'
  BY <1>0 DEF ClaimsCover, TypeOK, PassState
<1>6. RestoreOk'
  <2>1. /\ tip \in Int /\ base \in Int /\ durable \in Int /\ frontier \in Int /\ frontier' \in Int
        /\ pass.line \in Int /\ Margin \in Int
        /\ tip' = tip /\ base' = base /\ durable' = durable /\ pass'.pc # "reserved"
    BY <1>0 DEF TypeOK, PassState
  <2>2. /\ base <= durable /\ base <= tip /\ frontier <= tip + 1
        /\ durable <= base + Margin => frontier <= base + 1
        /\ pass.line <= tip /\ (pass.line + Margin <= durable \/ pass.line = 0)
    BY DEF RestoreOk
  <2>3. base >= 0 /\ tip >= 0
    BY DEF TypeOK
  <2>4. frontier' <= tip + 1 /\ (durable <= base + Margin => frontier' <= base + 1)
    <3> HIDE DEF FailClosed
    <3> QED
      BY <1>0, <2>1, <2>2, <2>3
  <2> QED
    BY <2>1, <2>2, <2>4 DEF RestoreOk
<1>7. ReadersOk'
  <2> SUFFICES ASSUME NEW r \in Reader PROVE ReaderOk(r)'
    BY DEF ReadersOk
  <2>1. /\ ReaderOk(r) /\ walk[r] \in WalkState /\ floors[r] \in Height \cup {None}
        /\ walk' = walk /\ floors' = floors /\ files' = files /\ maxRow' = maxRow
    BY DEF ReadersOk, TypeOK
  <2>2. CASE floors[r] = None
    BY <2>1, <2>2, SMTT(60) DEF ReaderOk
  <2>3. CASE floors[r] # None
    <3>1. LeasedOk(r) /\ floors[r] >= pass.line
      BY <2>1, <2>3, SMTT(60) DEF ReaderOk, LeasesAdmitted, Admits
    <3>2. \A h \in floors[r] .. walk[r].upto : HasRows(h)'
      <4> SUFFICES ASSUME NEW h \in floors[r] .. walk[r].upto PROVE HasRows(h)'
        OBVIOUS
      <4>1. HasRows(h) /\ ~(h < pass.line)
        BY <2>1, <3>1, SMTT(60) DEF LeasedOk, TypeOK, PassState, WalkState
      <4> QED
        BY <1>0, <4>1 DEF HasRows
    <3>3. walk[r].pc = "row" => walk[r].file \notin Reclaiming'
      BY <2>1, <3>1, SMTT(60) DEF LeasedOk, WalkState, Reclaiming, SelectedFiles, TypeOK, PassState
    <3>4. LeasedOk(r)'
      BY <2>1, <3>1, <3>2, <3>3 DEF LeasedOk
    <3> QED
      BY <2>1, <3>4, SMTT(60) DEF ReaderOk
  <2> QED
    BY <2>2, <2>3
<1>8. LeasesAdmitted' /\ ReorgOk'
  BY DEF LeasesAdmitted, Admits, ReorgOk
<1> QED
  BY <1>1, <1>2, <1>3, <1>4, <1>5, <1>6, <1>7, <1>8 DEF IInv
=============================================================================
