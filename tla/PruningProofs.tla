--------------------------- MODULE PruningProofs ---------------------------
(***************************************************************************)
(* The last steps of a pass, the readers' steps and a restart keep the     *)
(* inductive invariant of module PruningInvariant, so every reachable      *)
(* state satisfies it, and with it the properties of module Pruning.       *)
(***************************************************************************)
EXTENDS PruningInvariant

\* A pass that gives its claim up with nothing on disk.
LEMMA AbortPassKeeps ==
  ASSUME IInv, AbortPass PROVE IInv'
<1>a. /\ TypeOK /\ HeadRows /\ RestoredRows /\ RowsBacked /\ ClaimsCover
      /\ LeasesAdmitted /\ ReorgOk /\ RestoreOk /\ ReadersOk
  BY DEF IInv
<1> USE <1>a, PruningAssumption
<1> USE DEF AbortPass, chainVars, rowVars, fileVars, registryVars, Height, File, None, Idle
<1>1. TypeOK'
  BY DEF TypeOK, PassState
<1>2. HeadRows' /\ RestoredRows' /\ RowsBacked' /\ ClaimsCover' /\ LeasesAdmitted' /\ ReorgOk' /\ RestoreOk' /\
      ReadersOk'
  BY DEF HeadRows, Present, RestoredRows, RowsBacked, Reclaiming, ClaimsCover, Admits, LeasesAdmitted, ReorgOk,
     RestoreOk, ReadersOk, ReaderOk, LeasedOk, HasRows
<1> QED
  BY <1>1, <1>2 DEF IInv

\* The claim becomes the executed line, which is the frontier.
LEMMA CommitReservationKeeps ==
  ASSUME IInv, CommitReservation PROVE IInv'
<1>a. /\ TypeOK /\ HeadRows /\ RestoredRows /\ RowsBacked /\ ClaimsCover
      /\ LeasesAdmitted /\ ReorgOk /\ RestoreOk /\ ReadersOk
  BY DEF IInv
<1> USE <1>a, PruningAssumption
<1> USE DEF CommitReservation, chainVars, rowVars, fileVars, registryVars, Height, File, None, Max2
<1>1. TypeOK'
  BY DEF TypeOK, PassState
<1>2. ClaimsCover'
  BY SMTT(60) DEF TypeOK, BlockId, WalkState, ReorgState, PassState, ClaimsCover, Admits
<1>3. LeasesAdmitted'
  <2>1. pass.executed = frontier /\ (frontier <= pruned \/ frontier <= leaked \/ frontier <= pass.line)
    BY DEF ClaimsCover
  <2> QED
    BY <2>1, SMTT(60) DEF TypeOK, BlockId, WalkState, ReorgState, PassState, LeasesAdmitted, Admits
<1>4. HeadRows' /\ RestoredRows' /\ RowsBacked' /\ ReorgOk' /\ RestoreOk' /\ ReadersOk'
  BY SMTT(60) DEF HeadRows, Present, RestoredRows, RowsBacked, Reclaiming, ReorgOk, RestoreOk, ReadersOk, ReaderOk, LeasedOk,
     HasRows
<1> QED
  BY <1>1, <1>2, <1>3, <1>4 DEF IInv

\* The end of a pass.
LEMMA EndPassKeeps ==
  ASSUME IInv, EndPass PROVE IInv'
<1>a. /\ TypeOK /\ HeadRows /\ RestoredRows /\ RowsBacked /\ ClaimsCover
      /\ LeasesAdmitted /\ ReorgOk /\ RestoreOk /\ ReadersOk
  BY DEF IInv
<1> USE <1>a, PruningAssumption
<1> USE DEF EndPass, chainVars, rowVars, fileVars, registryVars, Height, File, None, Idle
<1>1. TypeOK'
  BY DEF TypeOK, PassState
<1>2. RowsBacked'
  BY SMTT(60) DEF TypeOK, BlockId, WalkState, ReorgState, PassState, RowsBacked, Reclaiming
<1>3. ReadersOk'
  BY SMTT(60) DEF TypeOK, BlockId, WalkState, ReorgState, PassState, ReadersOk, ReaderOk, LeasedOk, HasRows, Reclaiming
<1>4. HeadRows' /\ RestoredRows' /\ ClaimsCover' /\ LeasesAdmitted' /\ ReorgOk' /\ RestoreOk'
  BY SMTT(60) DEF HeadRows, Present, RestoredRows, ClaimsCover, Admits, LeasesAdmitted, ReorgOk, RestoreOk
<1> QED
  BY <1>1, <1>2, <1>3, <1>4 DEF IInv

\* A pass that ends with files left over.
LEMMA ReclaimFailsKeeps ==
  ASSUME IInv, ReclaimFails PROVE IInv'
<1>a. /\ TypeOK /\ HeadRows /\ RestoredRows /\ RowsBacked /\ ClaimsCover
      /\ LeasesAdmitted /\ ReorgOk /\ RestoreOk /\ ReadersOk
  BY DEF IInv
<1> USE <1>a, PruningAssumption
<1> USE DEF ReclaimFails, chainVars, rowVars, fileVars, registryVars, Height, File, None, Idle
<1>1. TypeOK'
  BY DEF TypeOK, PassState
<1>2. HeadRows' /\ RestoredRows' /\ RowsBacked' /\ ClaimsCover' /\ LeasesAdmitted' /\ ReorgOk' /\ RestoreOk' /\
      ReadersOk'
  BY DEF HeadRows, Present, RestoredRows, RowsBacked, Reclaiming, ClaimsCover, Admits, LeasesAdmitted, ReorgOk,
     RestoreOk, ReadersOk, ReaderOk, LeasedOk, HasRows
<1> QED
  BY <1>1, <1>2 DEF IInv

\* The deletion of a file no row points into.
LEMMA ReclaimFileKeeps ==
  ASSUME NEW f \in File, IInv, ReclaimFile(f) PROVE IInv'
<1>a. /\ TypeOK /\ HeadRows /\ RestoredRows /\ RowsBacked /\ ClaimsCover
      /\ LeasesAdmitted /\ ReorgOk /\ RestoreOk /\ ReadersOk
  BY DEF IInv
<1> USE <1>a, PruningAssumption
<1> USE DEF ReclaimFile, chainVars, rowVars, fileVars, registryVars, Height, File, None
<1>1. TypeOK'
  BY DEF TypeOK
<1>2. HeadRows'
  <2>1. \A row \in rows : row.file \in files'
    BY DEF RowsBacked, Reclaiming
  <2> QED
    BY <2>1 DEF HeadRows, Present
<1>3. ReadersOk'
  <2>1. \A x \in files \ Reclaiming : x \in files' \ Reclaiming'
    BY DEF Reclaiming
  <2> SUFFICES ASSUME NEW r \in Reader PROVE ReaderOk(r)'
    BY DEF ReadersOk
  <2>2. ReaderOk(r)
    BY DEF ReadersOk
  <2> QED
    BY <2>1, <2>2, SMTT(60) DEF ReaderOk, LeasedOk, HasRows
<1>4. RestoredRows' /\ RowsBacked' /\ ClaimsCover' /\ LeasesAdmitted' /\ ReorgOk' /\ RestoreOk'
  BY SMTT(60) DEF RestoredRows, RowsBacked, Reclaiming, ClaimsCover, Admits, LeasesAdmitted, ReorgOk, RestoreOk
<1> QED
  BY <1>1, <1>2, <1>3, <1>4 DEF IInv

\* An optional lease, granted above every claim.
LEMMA RequestHistoryKeeps ==
  ASSUME NEW r \in Reader, NEW h \in Height, IInv, RequestHistory(r, h) PROVE IInv'
<1>a. /\ TypeOK /\ HeadRows /\ RestoredRows /\ RowsBacked /\ ClaimsCover
      /\ LeasesAdmitted /\ ReorgOk /\ RestoreOk /\ ReadersOk
  BY DEF IInv
<1> USE <1>a, PruningAssumption
<1> USE DEF RequestHistory, chainVars, rowVars, fileVars, registryVars, Height, File, None, Out
<1>1. TypeOK'
  <2>1. walk[r] \in WalkState
    BY DEF TypeOK
  <2>2. walk'[r] \in WalkState
    BY <2>1, SMTT(60) DEF TypeOK, BlockId, WalkState, ReorgState, PassState
  <2>3. walk' \in [Reader -> WalkState]
    BY <2>2 DEF TypeOK
  <2>4. floors' \in [Reader -> Height \cup {None}]
    BY DEF TypeOK
  <2> QED
    BY <2>3, <2>4 DEF TypeOK
<1>2. LeasesAdmitted'
  <2>1. \A q \in Reader : floors'[q] = IF q = r THEN h ELSE floors[q]
    BY DEF TypeOK
  <2> QED
    BY <2>1 DEF LeasesAdmitted, Admits
<1>3. ReadersOk'
  <2>1. walk[r] \in WalkState /\ floors[r] \in Height \cup {None} /\ ReaderOk(r)
    BY DEF TypeOK, ReadersOk
  <2>2. ReaderOk(r)'
    <3>1. /\ walk'[r] = [pc |-> "in", start |-> h, upto |-> tip, at |-> 0, file |-> 0]
          /\ floors'[r] = h
      BY DEF TypeOK
    <3>2. \A x \in h .. tip : HasRows(x)
      <4> SUFFICES ASSUME NEW x \in h .. tip PROVE HasRows(x)
        OBVIOUS
      <4>1. x \in 1 .. tip /\ x >= frontier
        BY DEF TypeOK, ClaimsCover, Admits, PassState
      <4> QED
        BY <4>1 DEF HeadRows, Present, HasRows
    <3> QED
      BY <3>1, <3>2, SMTT(60) DEF ReaderOk, LeasedOk, HasRows
  <2>3. ASSUME NEW q \in Reader, q # r PROVE ReaderOk(q)'
    <3>1. walk'[q] = walk[q] /\ floors'[q] = floors[q]
      BY <2>3 DEF TypeOK
    <3> QED
      BY <3>1, SMTT(60) DEF ReadersOk, ReaderOk, LeasedOk, HasRows, Reclaiming
  <2> QED
    BY <2>2, <2>3 DEF ReadersOk
<1>4. HeadRows' /\ RestoredRows' /\ RowsBacked' /\ ClaimsCover' /\ ReorgOk' /\ RestoreOk'
  BY SMTT(60) DEF HeadRows, Present, RestoredRows, RowsBacked, Reclaiming, ClaimsCover, Admits, ReorgOk, RestoreOk
<1> QED
  BY <1>1, <1>2, <1>3, <1>4 DEF IInv

\* A reader that raises its floor.
LEMMA AdvanceKeeps ==
  ASSUME NEW r \in Reader, NEW h \in Height, IInv, Advance(r, h) PROVE IInv'
<1>a. /\ TypeOK /\ HeadRows /\ RestoredRows /\ RowsBacked /\ ClaimsCover
      /\ LeasesAdmitted /\ ReorgOk /\ RestoreOk /\ ReadersOk
  BY DEF IInv
<1> USE <1>a, PruningAssumption
<1> USE DEF Advance, chainVars, rowVars, fileVars, registryVars, Height, File, None, Max2
<1>1. TypeOK'
  <2>1. walk[r] \in WalkState
    BY DEF TypeOK
  <2>2. walk'[r] \in WalkState
    BY <2>1, SMTT(60) DEF TypeOK, BlockId, WalkState, ReorgState, PassState
  <2>3. walk' \in [Reader -> WalkState]
    BY <2>2 DEF TypeOK
  <2>4. floors' \in [Reader -> Height \cup {None}]
    BY DEF TypeOK
  <2> QED
    BY <2>3, <2>4 DEF TypeOK
<1>2. LeasesAdmitted'
  <2>1. \A q \in Reader : floors'[q] = IF q = r /\ floors[r] # None THEN Max2(floors[r], h) ELSE floors[q]
    BY SMTT(60) DEF TypeOK
  <2>2. \A q \in Reader : floors[q] \in Int
    BY DEF TypeOK
  <2>3. pruned \in Int /\ leaked \in Int /\ pass.line \in Int
    BY DEF TypeOK, PassState
  <2> QED
    BY <2>1, <2>2, <2>3 DEF LeasesAdmitted, Admits
<1>3. ReadersOk'
  <2>1. walk[r] \in WalkState /\ floors[r] \in Height \cup {None} /\ ReaderOk(r)
    BY DEF TypeOK, ReadersOk
  <2>2. ReaderOk(r)'
    <3>1. /\ walk'[r] = [pc |-> "in", start |-> h, upto |-> walk[r].upto, at |-> 0, file |-> 0]
          /\ floors'[r] = IF floors[r] = None THEN None ELSE Max2(floors[r], h)
      BY DEF TypeOK
    <3>2. CASE floors[r] = None
      BY <3>1, <3>2, SMTT(60) DEF ReaderOk
    <3>3. CASE floors[r] # None
      <4>1. floors'[r] \in Height /\ floors'[r] >= floors[r] /\ floors'[r] = h
        BY <2>1, <3>1, <3>3, SMTT(60) DEF ReaderOk, LeasedOk, WalkState
      <4> QED
        BY <2>1, <3>1, <3>3, <4>1, SMTT(60) DEF ReaderOk, LeasedOk, HasRows, WalkState
    <3> QED
      BY <3>2, <3>3
  <2>3. ASSUME NEW q \in Reader, q # r PROVE ReaderOk(q)'
    <3>1. walk'[q] = walk[q] /\ floors'[q] = floors[q]
      BY <2>3 DEF TypeOK
    <3> QED
      BY <3>1, SMTT(60) DEF ReadersOk, ReaderOk, LeasedOk, HasRows, Reclaiming
  <2> QED
    BY <2>2, <2>3 DEF ReadersOk
<1>4. HeadRows' /\ RestoredRows' /\ RowsBacked' /\ ClaimsCover' /\ ReorgOk' /\ RestoreOk'
  BY SMTT(60) DEF HeadRows, Present, RestoredRows, RowsBacked, Reclaiming, ClaimsCover, Admits, ReorgOk, RestoreOk
<1> QED
  BY <1>1, <1>2, <1>3, <1>4 DEF IInv

\* A reader that drops its lease.
LEMMA ReleaseKeeps ==
  ASSUME NEW r \in Reader, IInv, Release(r) PROVE IInv'
<1>a. /\ TypeOK /\ HeadRows /\ RestoredRows /\ RowsBacked /\ ClaimsCover
      /\ LeasesAdmitted /\ ReorgOk /\ RestoreOk /\ ReadersOk
  BY DEF IInv
<1> USE <1>a, PruningAssumption
<1> USE DEF Release, chainVars, rowVars, fileVars, registryVars, Height, File, None, Out
<1>1. TypeOK'
  <2>1. walk[r] \in WalkState
    BY DEF TypeOK
  <2>2. walk'[r] \in WalkState
    BY <2>1, SMTT(60) DEF TypeOK, BlockId, WalkState, ReorgState, PassState
  <2>3. walk' \in [Reader -> WalkState]
    BY <2>2 DEF TypeOK
  <2>4. floors' \in [Reader -> Height \cup {None}]
    BY DEF TypeOK
  <2> QED
    BY <2>3, <2>4 DEF TypeOK
<1>2. ReadersOk'
  <2>1. walk[r] \in WalkState /\ floors[r] \in Height \cup {None}
    BY DEF TypeOK
  <2>2. ReaderOk(r)'
    BY <2>1, SMTT(60) DEF TypeOK, BlockId, WalkState, ReorgState, PassState, ReadersOk, ReaderOk, LeasedOk, HasRows, Reclaiming
  <2>3. ASSUME NEW q \in Reader, q # r PROVE ReaderOk(q)'
    <3>1. walk'[q] = walk[q] /\ floors'[q] = floors[q]
      BY <2>3 DEF TypeOK
    <3> QED
      BY <3>1, SMTT(60) DEF ReadersOk, ReaderOk, LeasedOk, HasRows, Reclaiming
  <2> QED
    BY <2>2, <2>3 DEF ReadersOk
<1>3. HeadRows' /\ RestoredRows' /\ RowsBacked' /\ ClaimsCover' /\ LeasesAdmitted' /\ ReorgOk' /\ RestoreOk'
  BY DEF HeadRows, Present, RestoredRows, RowsBacked, Reclaiming, ClaimsCover, Admits, LeasesAdmitted, ReorgOk,
     RestoreOk
<1> QED
  BY <1>1, <1>2, <1>3 DEF IInv

\* A look at the index: under a live lease the row is there, and so is its file.
LEMMA LookUpKeeps ==
  ASSUME NEW r \in Reader, NEW h \in Height, IInv, LookUp(r, h) PROVE IInv'
<1>a. /\ TypeOK /\ HeadRows /\ RestoredRows /\ RowsBacked /\ ClaimsCover
      /\ LeasesAdmitted /\ ReorgOk /\ RestoreOk /\ ReadersOk
  BY DEF IInv
<1> USE <1>a, PruningAssumption
<1> USE DEF LookUp, chainVars, rowVars, fileVars, registryVars, Height, File, None, Out, WalkAt
<1>1. TypeOK'
  <2>1. walk[r] \in WalkState
    BY DEF TypeOK
  <2>2. Out \in WalkState
    BY SMTT(60) DEF WalkState
  <2>3. \A row \in rows : WalkAt(r, "row", h, row.file) \in WalkState
    BY <2>1, SMTT(60) DEF WalkState, TypeOK, BlockId
  <2>4. WalkAt(r, "absent", h, 0) \in WalkState
    BY <2>1, SMTT(60) DEF WalkState
  <2>5. \E v \in WalkState : walk' = [walk EXCEPT ![r] = v]
    <3> HIDE DEF Out, WalkAt
    <3> QED
      BY <2>2, <2>3, <2>4
  <2>6. walk' \in [Reader -> WalkState]
    <3> HIDE DEF LookUp
    <3> QED
      BY <2>5 DEF TypeOK
  <2> QED
    BY <2>6, ZenonT(60) DEF TypeOK
<1>2. ReadersOk'
  <2>1. walk[r] \in WalkState /\ floors[r] \in Height \cup {None} /\ ReaderOk(r)
    BY DEF TypeOK, ReadersOk
  <2>2. ReaderOk(r)'
    <3>1. CASE floors[r] = None
      BY <2>1, <3>1, SMTT(60) DEF ReaderOk, WalkState, TypeOK
    <3>2. CASE floors[r] # None
      <4>1. HasRows(h) /\ h \in walk[r].start .. walk[r].upto
        BY <2>1, <3>2, SMTT(60) DEF ReaderOk, LeasedOk, WalkState
      <4>2. PICK row \in rows : row.h = h /\ walk' = [walk EXCEPT ![r] = WalkAt(r, "row", h, row.file)]
        BY <3>2, <4>1 DEF HasRows
      <4>3. /\ walk'[r] = [pc |-> "row", start |-> walk[r].start, upto |-> walk[r].upto, at |-> h, file |-> row.file]
            /\ floors'[r] = floors[r]
        BY <4>2 DEF TypeOK
      <4>4. row.file \in files \ Reclaiming /\ maxRow[row.file] >= h
        BY <4>2 DEF RowsBacked
      <4> QED
        BY <2>1, <3>2, <4>1, <4>3, <4>4, SMTT(60) DEF ReaderOk, LeasedOk, HasRows, Reclaiming
    <3> QED
      BY <3>1, <3>2
  <2>3. ASSUME NEW q \in Reader, q # r PROVE ReaderOk(q)'
    <3>1. walk'[q] = walk[q] /\ floors'[q] = floors[q]
      BY <2>3 DEF TypeOK
    <3> QED
      BY <3>1, SMTT(60) DEF ReadersOk, ReaderOk, LeasedOk, HasRows, Reclaiming
  <2> QED
    BY <2>2, <2>3 DEF ReadersOk
<1>3. HeadRows' /\ RestoredRows' /\ RowsBacked' /\ ClaimsCover' /\ LeasesAdmitted' /\ ReorgOk' /\ RestoreOk'
  BY DEF HeadRows, Present, RestoredRows, RowsBacked, Reclaiming, ClaimsCover, Admits, LeasesAdmitted, ReorgOk,
     RestoreOk
<1> QED
  BY <1>1, <1>2, <1>3 DEF IInv

\* A look at the block file.
LEMMA LoadFrameKeeps ==
  ASSUME NEW r \in Reader, IInv, LoadFrame(r) PROVE IInv'
<1>a. /\ TypeOK /\ HeadRows /\ RestoredRows /\ RowsBacked /\ ClaimsCover
      /\ LeasesAdmitted /\ ReorgOk /\ RestoreOk /\ ReadersOk
  BY DEF IInv
<1> USE <1>a, PruningAssumption
<1> USE DEF LoadFrame, chainVars, rowVars, fileVars, registryVars, Height, File, None, WalkAt
<1>1. TypeOK'
  <2>1. walk[r] \in WalkState
    BY DEF TypeOK
  <2>2. walk'[r] \in WalkState
    BY <2>1, SMTT(60) DEF TypeOK, BlockId, WalkState, ReorgState, PassState
  <2>3. walk' \in [Reader -> WalkState]
    BY <2>2 DEF TypeOK
  <2>4. floors' \in [Reader -> Height \cup {None}]
    BY DEF TypeOK
  <2> QED
    BY <2>3, <2>4 DEF TypeOK
<1>2. ReadersOk'
  <2>1. walk[r] \in WalkState /\ floors[r] \in Height \cup {None}
    BY DEF TypeOK
  <2>2. ReaderOk(r)'
    BY <2>1, SMTT(60) DEF TypeOK, BlockId, WalkState, ReorgState, PassState, ReadersOk, ReaderOk, LeasedOk, HasRows, Reclaiming
  <2>3. ASSUME NEW q \in Reader, q # r PROVE ReaderOk(q)'
    <3>1. walk'[q] = walk[q] /\ floors'[q] = floors[q]
      BY <2>3 DEF TypeOK
    <3> QED
      BY <3>1, SMTT(60) DEF ReadersOk, ReaderOk, LeasedOk, HasRows, Reclaiming
  <2> QED
    BY <2>2, <2>3 DEF ReadersOk
<1>3. HeadRows' /\ RestoredRows' /\ RowsBacked' /\ ClaimsCover' /\ LeasesAdmitted' /\ ReorgOk' /\ RestoreOk'
  BY DEF HeadRows, Present, RestoredRows, RowsBacked, Reclaiming, ClaimsCover, Admits, LeasesAdmitted, ReorgOk,
     RestoreOk
<1> QED
  BY <1>1, <1>2, <1>3 DEF IInv

\* A look at the undo rows.
LEMMA LoadUndoKeeps ==
  ASSUME NEW r \in Reader, IInv, LoadUndo(r) PROVE IInv'
<1>a. /\ TypeOK /\ HeadRows /\ RestoredRows /\ RowsBacked /\ ClaimsCover
      /\ LeasesAdmitted /\ ReorgOk /\ RestoreOk /\ ReadersOk
  BY DEF IInv
<1> USE <1>a, PruningAssumption
<1> USE DEF LoadUndo, chainVars, rowVars, fileVars, registryVars, Height, File, None, WalkAt
<1>1. TypeOK'
  <2>1. walk[r] \in WalkState
    BY DEF TypeOK
  <2>2. walk'[r] \in WalkState
    BY <2>1, SMTT(60) DEF TypeOK, BlockId, WalkState, ReorgState, PassState
  <2>3. walk' \in [Reader -> WalkState]
    BY <2>2 DEF TypeOK
  <2>4. floors' \in [Reader -> Height \cup {None}]
    BY DEF TypeOK
  <2> QED
    BY <2>3, <2>4 DEF TypeOK
<1>2. ReadersOk'
  <2>1. walk[r] \in WalkState /\ floors[r] \in Height \cup {None} /\ ReaderOk(r)
    BY DEF TypeOK, ReadersOk
  <2>2. ReaderOk(r)'
    <3>1. CASE floors[r] = None
      BY <2>1, <3>1, SMTT(60) DEF ReaderOk, WalkState, TypeOK
    <3>2. CASE floors[r] # None
      <4>1. HasRows(walk[r].at)
        BY <2>1, <3>2, SMTT(60) DEF ReaderOk, LeasedOk, WalkState
      <4>2. /\ walk'[r] = [pc |-> "in", start |-> walk[r].start, upto |-> walk[r].upto, at |-> 0, file |-> 0]
            /\ floors'[r] = floors[r]
        BY <4>1 DEF TypeOK, HasRows
      <4> QED
        BY <2>1, <3>2, <4>2, SMTT(60) DEF ReaderOk, LeasedOk, HasRows
    <3> QED
      BY <3>1, <3>2
  <2>3. ASSUME NEW q \in Reader, q # r PROVE ReaderOk(q)'
    <3>1. walk'[q] = walk[q] /\ floors'[q] = floors[q]
      BY <2>3 DEF TypeOK
    <3> QED
      BY <3>1, SMTT(60) DEF ReadersOk, ReaderOk, LeasedOk, HasRows, Reclaiming
  <2> QED
    BY <2>2, <2>3 DEF ReadersOk
<1>3. HeadRows' /\ RestoredRows' /\ RowsBacked' /\ ClaimsCover' /\ LeasesAdmitted' /\ ReorgOk' /\ RestoreOk'
  BY DEF HeadRows, Present, RestoredRows, RowsBacked, Reclaiming, ClaimsCover, Admits, LeasesAdmitted, ReorgOk,
     RestoreOk
<1> QED
  BY <1>1, <1>2, <1>3 DEF IInv

\* The verdict on a missing row, which no reader with a live lease reaches.
LEMMA AbsentKeeps ==
  ASSUME NEW r \in Reader, IInv, Absent(r) PROVE IInv'
<1>a. /\ TypeOK /\ HeadRows /\ RestoredRows /\ RowsBacked /\ ClaimsCover
      /\ LeasesAdmitted /\ ReorgOk /\ RestoreOk /\ ReadersOk
  BY DEF IInv
<1> USE <1>a, PruningAssumption
<1> USE DEF Absent, chainVars, rowVars, fileVars, registryVars, Height, File, None, Out, WalkAt
<1>1. TypeOK'
  <2>1. walk[r] \in WalkState
    BY DEF TypeOK
  <2>2. walk'[r] \in WalkState
    BY <2>1, SMTT(60) DEF TypeOK, BlockId, WalkState, ReorgState, PassState
  <2>3. walk' \in [Reader -> WalkState]
    BY <2>2 DEF TypeOK
  <2>4. floors' \in [Reader -> Height \cup {None}]
    BY DEF TypeOK
  <2> QED
    BY <2>3, <2>4 DEF TypeOK
<1>2. ReadersOk'
  <2>1. walk[r] \in WalkState /\ floors[r] \in Height \cup {None} /\ ReaderOk(r)
    BY DEF TypeOK, ReadersOk
  <2>2. ReaderOk(r)'
    <3>1. floors[r] = None
      BY <2>1, SMTT(60) DEF ReaderOk, LeasedOk
    <3>2. walk'[r] = Out /\ floors'[r] = None
      BY <3>1 DEF TypeOK
    <3> QED
      BY <3>2, SMTT(60) DEF ReaderOk
  <2>3. ASSUME NEW q \in Reader, q # r PROVE ReaderOk(q)'
    <3>1. walk'[q] = walk[q] /\ floors'[q] = floors[q]
      BY <2>3 DEF TypeOK
    <3> QED
      BY <3>1, SMTT(60) DEF ReadersOk, ReaderOk, LeasedOk, HasRows, Reclaiming
  <2> QED
    BY <2>2, <2>3 DEF ReadersOk
<1>3. HeadRows' /\ RestoredRows' /\ RowsBacked' /\ ClaimsCover' /\ LeasesAdmitted' /\ ReorgOk' /\ RestoreOk'
  BY DEF HeadRows, Present, RestoredRows, RowsBacked, Reclaiming, ClaimsCover, Admits, LeasesAdmitted, ReorgOk,
     RestoreOk
<1> QED
  BY <1>1, <1>2, <1>3 DEF IInv

\* A crash and the next boot.
LEMMA RestartKeeps ==
  ASSUME NEW h \in 0 .. MaxHeight, IInv, Restart(h) PROVE IInv'
<1>a. /\ TypeOK /\ HeadRows /\ RestoredRows /\ RowsBacked /\ ClaimsCover
      /\ LeasesAdmitted /\ ReorgOk /\ RestoreOk /\ ReadersOk
  BY DEF IInv
<1> USE <1>a, PruningAssumption
<1> USE DEF Restart, chainVars, rowVars, fileVars, registryVars, Height, File, None, SeedRegistry, Out, NoReorg, Idle,
      RecoveryRows
<1>1. TypeOK'
  BY SMTT(60) DEF TypeOK, BlockId, WalkState, ReorgState, PassState
<1>2. RestoredRows'
  <2>1. \A x \in 1 .. tip : x >= frontier => \E row \in rows \cap undo : row.h = x
    BY DEF HeadRows, Present
  <2> QED
    BY <2>1 DEF RestoredRows, RestoreOk, TypeOK
<1>3. ClaimsCover'
  BY SMTT(60) DEF TypeOK, BlockId, WalkState, ReorgState, PassState, ClaimsCover, Admits
<1>4. RestoreOk'
  BY SMTT(60) DEF TypeOK, BlockId, WalkState, ReorgState, PassState, RestoreOk
<1>5. HeadRows' /\ RowsBacked' /\ LeasesAdmitted' /\ ReorgOk' /\ ReadersOk'
  BY SMTT(60) DEF HeadRows, Present, RowsBacked, Reclaiming, LeasesAdmitted, Admits, ReorgOk, ReadersOk, ReaderOk, LeasedOk,
     HasRows
<1> QED
  BY <1>1, <1>2, <1>3, <1>4, <1>5 DEF IInv

\* The initial state satisfies the inductive invariant.
LEMMA InitHolds == Init => IInv
  BY PruningAssumption, SMTT(60) DEF Init, IInv, TypeOK, BlockId, WalkState, ReorgState, PassState, Out, Idle, NoReorg,
     HeadRows, RestoredRows, RowsBacked, Reclaiming, ClaimsCover, LeasesAdmitted, Admits, ReorgOk, RestoreOk,
     ReadersOk, ReaderOk, Height, File, None

\* Every step of the store, the pass, the readers and a restart keeps it.
LEMMA StepKeeps == IInv /\ [Next]_vars => IInv'
<1> SUFFICES ASSUME IInv, [Next]_vars PROVE IInv'
  OBVIOUS
<1>1. CASE ChainStep
  BY <1>1, ConnectNewKeeps, ConnectKnownKeeps, PublishCheckpointKeeps, PrepareBranchesKeeps, BeginReorgKeeps,
     DisconnectBlockKeeps, EndReorgKeeps DEF ChainStep
<1>2. CASE PassStep
  BY <1>2, BeginPassKeeps, WriteBatchKeeps, FailClosedKeeps, AbortPassKeeps, CommitReservationKeeps, EndPassKeeps,
     ReclaimFailsKeeps, ReclaimFileKeeps DEF PassStep
<1>3. ASSUME NEW r \in Reader, ReaderStep(r) PROVE IInv'
  BY <1>3, RequestHistoryKeeps, AdvanceKeeps, LookUpKeeps, ReleaseKeeps, LoadFrameKeeps, LoadUndoKeeps, AbsentKeeps
     DEF ReaderStep
<1>4. ASSUME NEW h \in 0 .. MaxHeight, Restart(h) PROVE IInv'
  BY <1>4, RestartKeeps
<1>5. CASE UNCHANGED vars
  BY <1>5 DEF vars, chainVars, rowVars, fileVars, registryVars, IInv, TypeOK, HeadRows, Present, RestoredRows,
     RowsBacked,
     Reclaiming, ClaimsCover, LeasesAdmitted, Admits, ReorgOk, RestoreOk, ReadersOk, ReaderOk, LeasedOk, HasRows
<1> QED
  BY <1>1, <1>2, <1>3, <1>4, <1>5 DEF Next

-----------------------------------------------------------------------------
(***************************************************************************)
(* The results.                                                            *)
(***************************************************************************)

\* The inductive invariant holds in every reachable state of the store, the
\* registry, the pass, the reorganisation and the readers.
THEOREM PruningInvariance == Spec => []IInv
  BY InitHolds, StepKeeps, PTL DEF Spec

\* Every variable keeps its type (TypeOK).
THEOREM PruningTypes == Spec => []TypeOK
<1>1. IInv => TypeOK
  BY DEF IInv
<1> QED
  BY <1>1, PruningInvariance, PTL

\* Whatever refusal_line admits, the store has: through every step of a pass,
\* every failure of its batch and every restart.
THEOREM AdmittedHistoryTheorem == Spec => []AdmittedHistoryExists
<1>1. IInv => AdmittedHistoryExists
  BY DEF IInv, AdmittedHistoryExists, HeadRows, ClaimsCover, Admits, TypeOK, PassState
<1> QED
  BY <1>1, PruningInvariance, PTL

\* A live lease, mandatory or optional, keeps everything from its floor up.
THEOREM LeaseTheorem == Spec => []LeaseProtects
<1>1. IInv => LeaseProtects
  <2> SUFFICES ASSUME IInv, NEW f \in LeaseFloors PROVE Admits(f) /\ \A h \in f .. tip : Present(h)
    BY DEF LeaseProtects
  <2>1. f \in Int /\ f >= 1 /\ Admits(f)
    BY PruningAssumption DEF IInv, LeaseFloors, LeasesAdmitted, TypeOK, ReorgState, Height, None
  <2>2. \A h \in f .. tip : h \in 1 .. tip /\ h >= frontier
    BY <2>1 DEF IInv, ClaimsCover, Admits, TypeOK, PassState
  <2> QED
    BY <2>1, <2>2 DEF IInv, HeadRows
<1> QED
  BY <1>1, PruningInvariance, PTL

\* The walk of the block database never reports damage on a sound store.
THEOREM NoFalseDamageTheorem == Spec => []NoFalseDamage
<1>1. IInv => NoFalseDamage
  BY SMTT(60) DEF IInv, NoFalseDamage, ReadersOk, ReaderOk
<1> QED
  BY <1>1, PruningInvariance, PTL

\* A reorganisation with its lease finds the rows of every block it disconnects.
THEOREM ReorgTheorem == Spec => []ReorgFindsRows
<1>1. IInv => ReorgFindsRows
  BY DEF IInv, ReorgFindsRows, ReorgOk
<1> QED
  BY <1>1, PruningInvariance, PTL

\* Every variable keeps its type: leases, rows, files and the state of a pass
\* and of every reader (RetentionRegistry, BlockPruner).
THEOREM PruningTypeCorrectness == Spec => []TypeOK
<1>1. IInv => TypeOK
  BY DEF IInv
<1> QED
  BY <1>1, PruningInvariance, PTL

\* A restart within the safety margin finds the rows between the restored state
\* and the durable head.
THEOREM RecoveryTheorem == Spec => []RecoveryFindsRows
<1>1. IInv => RecoveryFindsRows
  <2> SUFFICES ASSUME IInv, durable <= base + Margin PROVE RecoveryRows
    BY DEF RecoveryFindsRows
  <2>1. frontier <= base + 1 /\ base \in Nat /\ tip \in Nat /\ durable \in Nat /\ frontier \in Nat
    BY DEF IInv, RestoreOk, TypeOK
  <2>2. \A h \in base + 1 .. tip : Present(h)
    BY <2>1 DEF IInv, HeadRows
  <2>3. \A h \in base + 1 .. durable : \E row \in rows \cap undo : row.h = h /\ row.file \in files
    BY <2>1 DEF IInv, RestoredRows, RowsBacked
  <2> QED
    BY <2>2, <2>3 DEF RecoveryRows
<1> QED
  BY <1>1, PruningInvariance, PTL

\* What was pruned stays refused, over restarts too.
THEOREM PrunedTheorem == Spec => PrunedNeverReturns
<1>1. IInv /\ [Next]_vars => [pruned' >= pruned]_vars
  <2> SUFFICES ASSUME IInv, Next PROVE pruned' >= pruned
    BY DEF vars
  <2>1. pruned \in Nat /\ frontier \in Nat /\ pass.executed \in Nat /\ pruned <= frontier
    BY DEF IInv, TypeOK, PassState, ClaimsCover
  <2>2. CASE ChainStep
    BY <2>1, <2>2 DEF ChainStep, ConnectNew, ConnectKnown, PublishCheckpoint, PrepareBranches, BeginReorg,
       DisconnectBlock, EndReorg, registryVars
  <2>3. CASE PassStep
    BY <2>1, <2>3 DEF PassStep, BeginPass, WriteBatch, FailClosed, AbortPass, CommitReservation, EndPass,
       ReclaimFails, ReclaimFile, registryVars, Max2
  <2>4. ASSUME NEW r \in Reader, ReaderStep(r) PROVE pruned' = pruned
    BY <2>4 DEF ReaderStep, RequestHistory, Advance, LookUp, Release, LoadFrame, LoadUndo, Absent, registryVars
  <2>5. ASSUME NEW h \in 0 .. MaxHeight, Restart(h) PROVE pruned' = frontier
    BY <2>5 DEF Restart, SeedRegistry
  <2> QED
    BY <2>1, <2>2, <2>3, <2>4, <2>5 DEF Next
<1> QED
  BY <1>1, PruningInvariance, PTL DEF Spec, PrunedNeverReturns
=============================================================================
