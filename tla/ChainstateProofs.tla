-------------------------- MODULE ChainstateProofs --------------------------
(***************************************************************************)
(* The steps of a publication and of a boot keep the inductive invariant   *)
(* of module ChainstateInvariant, so it holds in every reachable state;    *)
(* and what it gives: what is served, what recovery finds, what a          *)
(* checkpoint holds, and that the chainstate implements DurableChain.      *)
(***************************************************************************)
EXTENDS ChainstateInvariant

(* The steps that publish a checkpoint. *)
LEMMA PublishInv == IInv /\ PublishNext => IInv'
<1> SUFFICES ASSUME IInv, PublishNext PROVE IInv'
  OBVIOUS
<1> USE DEF headVars, ckptVars, logVars, viewVars, reorgVars, stepVars
<1>0. TypeOK /\ Position /\ Stored /\ Synced
  BY DEF IInv
<1>1. headTip \in Block /\ headTip \in Ancestors[headTip]
  BY <1>0, ChainEnds DEF TypeOK
<1>2. ASSUME pc \in Publication
      PROVE  applied \in Block /\ Ancestors[applied] \subseteq rows
             /\ applied \in Ancestors[applied]
  <2>1. applied \in Ancestors[headTip]
    BY <1>0, <1>2 DEF Position, PublishPosition
  <2> QED
    BY <1>0, <1>1, <2>1, StoredBelow, ChainEnds DEF Stored
<1>3. ASSUME NEW k \in {"Ordinary", "Recovered", "Progress"}, FreezeJournal(k) PROVE IInv'
  <2>1. jTip' \in {jTip, jNext}
    BY <1>3 DEF FreezeJournal
  <2>2. applied \in Ancestors[headTip] /\ coins = Ancestors[applied]
        /\ (k # "Progress" => applied = headTip) /\ (k = "Ordinary" => staged = applied)
    <3>1. CASE k = "Ordinary"
      BY <1>0, <1>1, <1>3, <3>1 DEF FreezeJournal, PublicationDue, Position, ConnectPosition
    <3>2. CASE k = "Recovered"
      BY <1>0, <1>1, <1>3, <3>2, ChainstateAssumption
      DEF FreezeJournal, PublicationDue, Position, BootPosition
    <3>3. CASE k = "Progress"
      <4>1. applied \in Ancestors[headTip] /\ pc = "boot"
        BY <1>3, <3>3 DEF FreezeJournal, PublicationDue
      <4>2. applied # NoBlock
        BY <1>1, <4>1, AncestorIsLower, ChainstateAssumption
      <4> QED
        BY <1>0, <3>3, <4>1, <4>2 DEF Position, BootPosition
    <3> QED
      BY <3>1, <3>2, <3>3
  <2>3. TypeOK'
    BY <1>0, <1>3, <2>1 DEF FreezeJournal, TypeOK, Steps
  <2>4. Position'
    BY <1>3, <2>2
    DEF FreezeJournal, Position, ConnectPosition,
        DisconnectPosition, PublishPosition, BootPosition, Publication
  <2>5. Stored' /\ Synced'
    BY <1>0, <1>3, <2>1 DEF FreezeJournal, Stored, Synced
  <2> QED
    BY <2>3, <2>4, <2>5 DEF IInv
<1>4. ASSUME pc \in Publication, Abort PROVE IInv'
  <2>1. TypeOK'
    BY <1>0, <1>1, <1>4
    DEF Abort, TypeOK, Steps
  <2>2. Position'
    BY <1>0, <1>1, <1>4
    DEF Abort, Position, ConnectPosition, DisconnectPosition, PublishPosition, BootPosition,
        Publication
  <2>3. Stored' /\ Synced'
    BY <1>0, <1>4, StoredKept, SyncedKept DEF Abort
  <2> QED
    BY <2>1, <2>2, <2>3 DEF IInv
<1>5. CASE WriteCheckpoint
  <2>1. TypeOK'
    <3>1. FlagsOK'
      BY <1>0, <1>5, Zenon DEF WriteCheckpoint, TypeOK, FlagsOK
    <3>2. PlacesOK'
      BY <1>0, <1>2, <1>5 DEF WriteCheckpoint, Publication, TypeOK, Steps, PlacesOK
    <3> QED
      BY <3>1, <3>2, TypeSplit
  <2>2. Position'
    BY <1>0, <1>5
    DEF WriteCheckpoint, Position, ConnectPosition,
        DisconnectPosition, PublishPosition, BootPosition, Publication
  <2>3. Stored' /\ Synced'
    BY <1>0, <1>2, <1>5 DEF WriteCheckpoint, Publication, Stored, Synced
  <2> QED
    BY <2>1, <2>2, <2>3 DEF IInv
<1>6. CASE RetireRevalidation
  <2>1. TypeOK'
    BY <1>0, <1>6
    DEF RetireRevalidation, TypeOK, Steps
  <2>2. Position'
    BY <1>0, <1>6
    DEF RetireRevalidation, Position, ConnectPosition, DisconnectPosition, PublishPosition,
        BootPosition, Publication
  <2>3. Stored' /\ Synced'
    BY <1>0, <1>6, StoredKept, SyncedKept DEF RetireRevalidation
  <2> QED
    BY <2>1, <2>2, <2>3 DEF IInv
<1>7. CASE CheckpointFails
  BY <1>4, <1>7 DEF CheckpointFails, Publication
<1>8. CASE CompactJournal
  <2>1. TypeOK'
    BY <1>0, <1>2, <1>8
    DEF CompactJournal, TypeOK, Steps,
        Publication
  <2>2. Position'
    BY <1>0, <1>2, <1>8
    DEF CompactJournal, Position, ConnectPosition, DisconnectPosition, PublishPosition,
        BootPosition, Publication
  <2>3. Stored' /\ Synced'
    BY <1>0, <1>2, <1>8 DEF CompactJournal, Publication, Stored, Synced
  <2> QED
    BY <2>1, <2>2, <2>3 DEF IInv
<1>9. CASE CompactFails
  BY <1>4, <1>9 DEF CompactFails, Publication
<1>10. CASE RetireMarker
  <2>1. TypeOK'
    BY <1>0, <1>2, <1>10 DEF RetireMarker, TypeOK, Steps, Publication
  <2>2. applied # NoBlock
    BY <1>2, <1>10, ChainstateAssumption DEF RetireMarker, Publication
  <2>3. Position'
    BY <1>0, <1>2, <1>10, <2>2
    DEF RetireMarker, Position, ConnectPosition, TypeOK,
        DisconnectPosition, PublishPosition, BootPosition, Publication
  <2>4. Stored' /\ Synced'
    BY <1>0, <1>10, StoredKept, SyncedKept DEF RetireMarker
  <2> QED
    BY <2>1, <2>3, <2>4 DEF IInv
<1>11. CASE RetireFails
  BY <1>4, <1>11 DEF RetireFails, Publication
<1>12. CASE IdleFlush
  <2>1. TypeOK'
    BY <1>0, <1>12 DEF IdleFlush, TypeOK
  <2>2. Position'
    BY <1>0, <1>12
    DEF IdleFlush, Position, ConnectPosition,
        DisconnectPosition, PublishPosition, BootPosition, Publication
  <2>3. Stored' /\ Synced'
    BY <1>0, <1>12 DEF IdleFlush, Stored, Synced
  <2> QED
    BY <2>1, <2>2, <2>3 DEF IInv
<1> QED
  BY <1>3, <1>5, <1>6, <1>7, <1>8, <1>9, <1>10, <1>11, <1>12 DEF PublishNext

(* A restart restores tips that are stored. *)
LEMMA RestoredStored ==
    ASSUME TypeOK, Stored
    PROVE  /\ RestoredTip \in Block \cup {NoBlock}
           /\ RestoreCold <=> RestoredTip = NoBlock
           /\ RestoredLog.on \in BOOLEAN
           /\ RestoredLog.base \in Block /\ RestoredLog.tip \in Block
           /\ Ancestors[RestoredLog.tip] \subseteq rows
           /\ RestoredTip # NoBlock => Ancestors[RestoredTip] \subseteq rows
<1>1. Genesis \in Block /\ Ancestors[Genesis] \subseteq rows
  BY ChainEnds, StoredBelow, BlockGraphAssumption DEF TypeOK, Stored
<1>2. NoBlock \notin Block
  BY ChainstateAssumption
<1>3. CASE RestoreCold
  BY <1>1, <1>3 DEF RestoredTip, RestoredLog
<1>4. CASE ~RestoreCold /\ jOnCkpt
  BY <1>2, <1>4 DEF RestoredTip, RestoredLog, TypeOK, Stored
<1>5. CASE ~RestoreCold /\ ~jOnCkpt
  BY <1>2, <1>5 DEF RestoredTip, RestoredLog, RestoreCold, TypeOK, Stored
<1> QED
  BY <1>3, <1>4, <1>5

(* The steps of a crash and a boot. *)
LEMMA BootInv == IInv /\ BootNext => IInv'
<1> SUFFICES ASSUME IInv, BootNext PROVE IInv'
  OBVIOUS
<1> USE DEF headVars, ckptVars, logVars, viewVars, reorgVars, stepVars
<1>0. TypeOK /\ Position /\ Stored /\ Synced
  BY DEF IInv
<1>1. headTip \in Block /\ headTip \in Ancestors[headTip]
  BY <1>0, ChainEnds DEF TypeOK
<1>2. NoBlock \notin Block /\ Genesis \in Block /\ Ancestors[Genesis] = {Genesis}
  BY ChainstateAssumption, BlockGraphAssumption
<1>3. CASE Crash
  <2>1. TypeOK'
    <3>1. FlagsOK'
      BY <1>0, <1>3, Zenon DEF Crash, TypeOK, FlagsOK
    <3>2. PlacesOK'
      BY <1>0, <1>2, <1>3 DEF Crash, TypeOK, Steps, PlacesOK
    <3> QED
      BY <3>1, <3>2, TypeSplit
  <2>2. Position'
    BY <1>0, <1>2, <1>3
    DEF Crash, Position, ConnectPosition, DisconnectPosition, PublishPosition, BootPosition,
        Publication
  <2>3. Stored' /\ Synced'
    BY <1>0, <1>3 DEF Crash, Stored, Synced
  <2> QED
    BY <2>1, <2>2, <2>3 DEF IInv
<1>4. CASE MarkFullRevalidation
  <2>1. TypeOK'
    BY <1>0, <1>4
    DEF MarkFullRevalidation, TypeOK, Steps
  <2>2. Position'
    BY <1>0, <1>4
    DEF MarkFullRevalidation, Position, ConnectPosition, DisconnectPosition, PublishPosition,
        BootPosition, Publication
  <2>3. Stored' /\ Synced'
    BY <1>0, <1>4, StoredKept, SyncedKept DEF MarkFullRevalidation
  <2> QED
    BY <2>1, <2>2, <2>3 DEF IInv
<1>5. CASE Restore
  <2>1. TypeOK'
    <3>1. coins' \subseteq Block
      BY <1>0, <1>5, RestoredStored, BlockGraphAssumption DEF Restore
    <3> QED
      BY <1>0, <1>2, <1>5, <3>1, RestoredStored DEF Restore, TypeOK, Steps
  <2>2. Position'
    BY <1>0, <1>5, RestoredStored
    DEF Restore, Position, ConnectPosition,
        DisconnectPosition, PublishPosition, BootPosition, Publication
  <2>3. Stored' /\ Synced'
    BY <1>0, <1>5, RestoredStored DEF Restore, Stored, Synced
  <2> QED
    BY <2>1, <2>2, <2>3 DEF IInv
<1>6. CASE RewindOneStep
  <2>1. applied \in Block \ {Genesis}
    BY <1>0, <1>1, <1>6, ChainEnds DEF RewindOneStep, OnHeadChain, TypeOK
  <2>2. /\ Parent[applied] \in Block
        /\ Ancestors[Parent[applied]] = Ancestors[applied] \ {applied}
    BY <2>1, ParentChain
  <2>3. TypeOK'
    BY <1>0, <1>2, <1>6, <2>1, <2>2
    DEF RewindOneStep, TypeOK
  <2>4. Position'
    BY <1>0, <1>2, <1>6, <2>1, <2>2
    DEF RewindOneStep, Position, ConnectPosition, DisconnectPosition, PublishPosition,
        BootPosition, Publication
  <2>5. Stored' /\ Synced'
    BY <1>0, <1>6, StoredKept, SyncedKept DEF RewindOneStep
  <2> QED
    BY <2>3, <2>4, <2>5 DEF IInv
<1>7. ASSUME NEW b \in Block, ReplayBlock(b) PROVE IInv'
  <2>1. b \in Ancestors[headTip] /\ Ancestors[b] \subseteq rows
    BY <1>0, <1>1, <1>7, StoredBelow DEF ReplayBlock, Replayable, Stored
  <2>2. {jTip', jNext'} \subseteq Block /\ Ancestors[jTip'] \subseteq rows
        /\ Ancestors[jNext'] \subseteq rows
    <3>1. CASE UNCHANGED <<jTip, jNext>>
      BY <1>0, <3>1 DEF TypeOK, Stored
    <3>2. CASE LogAppends(b)
      BY <1>0, <2>1, <3>2, FlushStored DEF LogAppends
    <3> QED
      BY <1>7, <3>1, <3>2 DEF ReplayBlock
  <2>3. coins' = Ancestors[b]
    <3>1. CASE applied = NoBlock
      BY <1>0, <1>2, <1>7, <3>1 DEF ReplayBlock, Replayable, Position, BootPosition
    <3>2. CASE applied # NoBlock
      <4>1. b # Genesis /\ Parent[b] = applied
        BY <1>7, <3>2 DEF ReplayBlock, Replayable, Children
      <4>2. Ancestors[b] = Ancestors[applied] \cup {b}
        BY <4>1, ParentChain
      <4> QED
        BY <1>0, <1>7, <3>2, <4>2 DEF ReplayBlock, Position, BootPosition
    <3> QED
      BY <3>1, <3>2
  <2>4. TypeOK'
    <3>1. coins' \subseteq Block /\ jState' \in {"open", "gap", "invalid"}
      BY <1>0, <1>7 DEF ReplayBlock, TypeOK
    <3> QED
      BY <1>0, <1>7, <2>2, <3>1 DEF ReplayBlock, TypeOK, Steps
  <2>5. Position'
    BY <1>0, <1>2, <1>7, <2>3
    DEF ReplayBlock, Position, ConnectPosition,
        DisconnectPosition, PublishPosition, BootPosition, Publication
  <2>6. Stored' /\ Synced'
    BY <1>0, <1>7, <2>2 DEF ReplayBlock, Stored, Synced
  <2> QED
    BY <2>4, <2>5, <2>6 DEF IInv
<1>8. CASE BootRefused
  <2>1. TypeOK'
    BY <1>0, <1>8
    DEF BootRefused, TypeOK, Steps
  <2>2. Position'
    BY <1>0, <1>8
    DEF BootRefused, Position, ConnectPosition, DisconnectPosition, PublishPosition,
        BootPosition, Publication
  <2>3. Stored' /\ Synced'
    BY <1>0, <1>8, StoredKept, SyncedKept DEF BootRefused
  <2> QED
    BY <2>1, <2>2, <2>3 DEF IInv
<1>9. CASE BootDone
  <2>1. TypeOK'
    BY <1>0, <1>1, <1>2, <1>9
    DEF BootDone, TypeOK, Steps
  <2>2. Position'
    BY <1>0, <1>1, <1>2, <1>9
    DEF BootDone, Position, ConnectPosition, DisconnectPosition, PublishPosition, BootPosition,
        Publication
  <2>3. Stored' /\ Synced'
    BY <1>0, <1>9, StoredKept, SyncedKept DEF BootDone
  <2> QED
    BY <2>1, <2>2, <2>3 DEF IInv
<1> QED
  BY <1>3, <1>4, <1>5, <1>6, <1>7, <1>8, <1>9 DEF BootNext

(* A step that changes nothing keeps the invariant. *)
LEMMA StutterInv == IInv /\ UNCHANGED vars => IInv'
<1> SUFFICES ASSUME IInv, UNCHANGED vars PROVE IInv'
  OBVIOUS
<1> USE DEF vars, headVars, ckptVars, logVars, viewVars, reorgVars, stepVars
<1>1. TypeOK' /\ Position'
  BY DEF IInv, TypeOK, Position, ConnectPosition, DisconnectPosition, PublishPosition,
         BootPosition
<1>2. Stored' /\ Synced'
  BY DEF IInv, Stored, Synced
<1> QED
  BY <1>1, <1>2 DEF IInv

(* The inductive invariant holds in every reachable state. *)
THEOREM Invariance == Spec => []IInv
<1>1. IInv /\ [Next]_vars => IInv'
  BY ConnectInv, ReorgInv, DisconnectInv, PublishInv, BootInv, StutterInv DEF Next
<1> QED
  BY <1>1, InitInv, PTL DEF Spec

---------------------------------------------------------------------------
(* Every variable of the chainstate keeps its type. *)
THEOREM TypeCorrectness == Spec => []TypeOK
<1>1. IInv => TypeOK
  BY DEF IInv
<1> QED
  BY <1>1, Invariance, PTL

(* Between transitions the published tip is the durable head's and the     *)
(* coins are those of the group's last block, whatever failed and however  *)
(* often the process was killed.                                           *)
THEOREM ServedStateTheorem == Spec => []ServedStateIsCommitted
<1>1. IInv => ServedStateIsCommitted
  BY DEF IInv, Position, ConnectPosition, ServedStateIsCommitted
<1> QED
  BY <1>1, Invariance, PTL

(* Recovery finds the rows and bodies of the head's chain and of whatever  *)
(* a restart would begin with.                                             *)
THEOREM RecoverabilityTheorem == Spec => []HeadIsRecoverable
<1>1. IInv => HeadIsRecoverable
  BY RestoredStored DEF IInv, Stored, Synced, HeadIsRecoverable
<1> QED
  BY <1>1, Invariance, PTL

(* A checkpoint that becomes CURRENT holds exactly the coins of a tip on   *)
(* the durable head's chain.                                               *)
THEOREM CheckpointTheorem == Spec => CheckpointIsClean
<1>1. ASSUME IInv, [Next]_vars
      PROVE  ckptTip' # ckptTip =>
               ckptTip' \in Ancestors[headTip] /\ coins = Ancestors[ckptTip']
  <2> USE DEF vars, headVars, ckptVars, logVars, viewVars, reorgVars, stepVars
  <2>1. CASE WriteCheckpoint
    BY <1>1, <2>1 DEF WriteCheckpoint, IInv, Position, PublishPosition, Publication
  <2>2. CASE ConnectNext
    BY <2>2
    DEF ConnectNext, StageBlock, RefusedByJournal, PersistFails, SyncBodies, CommitHead,
        CommitFails, EmitRecords, PublishConnected
  <2>3. CASE ReorgNext
    BY <2>3 DEF ReorgNext, BeginReorg, ReorgStops, EndReorg, ReorgRestores, RestoreFails
  <2>4. CASE DisconnectNext
    BY <2>4
    DEF DisconnectNext, ArmDisconnect, ArmFails, UndoCoins, CompleteDisconnect, RollbackFails,
        RewindJournal, CommitDisconnect, CommitDisconnectFails, PublishDisconnected, Disarm,
        DisarmFails
  <2>5. CASE PublishNext /\ ~WriteCheckpoint
    BY <2>5
    DEF PublishNext, FreezeJournal, RetireRevalidation, CheckpointFails, Abort, CompactJournal,
        CompactFails, RetireMarker, RetireFails, IdleFlush
  <2>6. CASE BootNext
    BY <2>6
    DEF BootNext, Crash, MarkFullRevalidation, Restore, RewindOneStep, ReplayBlock, BootRefused,
        BootDone
  <2>7. CASE UNCHANGED vars
    BY <2>7
  <2> QED
    BY <1>1, <2>1, <2>2, <2>3, <2>4, <2>5, <2>6, <2>7 DEF Next
<1> QED
  BY <1>1, Invariance, PTL DEF Spec, CheckpointIsClean

---------------------------------------------------------------------------
(* The refinement: every step of the chainstate is a step of DurableChain  *)
(* or leaves the durable tip and the shown tip alone.                      *)

(* While a process serves, the shown tip is the published one. *)
LEMMA ShownWhileServing ==
    ASSUME IInv, pc \notin Publication \cup {"down", "refused", "boot"}
    PROVE  ShownTip = applied
BY DEF IInv, Position, PublishPosition, ShownTip

(* Connecting extends the durable tip with the batch, then shows its blocks. *)
LEMMA ConnectRefines == IInv /\ ConnectNext => [Promise!Next]_<<headTip, ShownTip>>
<1> SUFFICES ASSUME IInv, ConnectNext PROVE [Promise!Next]_<<headTip, ShownTip>>
  OBVIOUS
<1> USE DEF headVars, ckptVars, logVars, viewVars, reorgVars, stepVars
<1>1. CASE \/ \E b \in Block : StageBlock(b) \/ RefusedByJournal(b) \/ PersistFails(b)
           \/ SyncBodies \/ EmitRecords
  <2>1. UNCHANGED <<headTip, applied, kind>>
        /\ {pc, pc'} \cap {"down", "refused", "boot"} = {}
    BY <1>1
    DEF StageBlock, RefusedByJournal, PersistFails, SyncBodies, EmitRecords, Connectable, FailClosed
  <2> QED
    BY <2>1 DEF ShownTip
<1>2. ASSUME pc = "synced", pc' \in {"committed", "closed"}, headTip = applied, ConnectBatch,
             UNCHANGED <<applied, kind>>
      PROVE  Promise!Extend
  <2>1. ShownTip = applied /\ ShownTip' = applied
    BY <1>2 DEF IInv, Position, PublishPosition, Publication, ShownTip
  <2>2. headTip' \in {b \in Block : headTip \in Ancestors[b]}
    BY <1>2 DEF ConnectBatch, IInv, TypeOK, Position, ConnectPosition
  <2> QED
    BY <1>2, <2>1, <2>2 DEF Promise!Extend
<1>3. CASE CommitHead
  BY <1>2, <1>3 DEF CommitHead, Promise!Next
<1>4. CASE CommitFails
  <2>1. CASE UNCHANGED headVars
    BY <1>4, <2>1 DEF CommitFails, FailClosed, ShownTip
  <2>2. CASE headTip = applied /\ ConnectBatch
    BY <1>2, <1>4, <2>2 DEF CommitFails, FailClosed, Promise!Next
  <2> QED
    BY <1>4, <2>1, <2>2 DEF CommitFails
<1>5. ASSUME NEW b \in Block, PublishConnected(b) PROVE Promise!Publish
  <2>1. ShownTip = applied /\ ShownTip' = b /\ applied \in Block
    BY <1>5 DEF PublishConnected, IInv, Position, PublishPosition, ConnectPosition, Publication, ShownTip
  <2>2. staged = headTip /\ staged \in Block
    BY <1>5 DEF PublishConnected, IInv, TypeOK, Position, ConnectPosition
  <2>3. b \in Children(applied) /\ b \in Ancestors[staged]
    BY <1>5 DEF PublishConnected
  <2>4. applied # staged
    <3>1. b # Genesis /\ Parent[b] = applied
      BY <2>3 DEF Children
    <3>2. b \notin Ancestors[applied]
      BY <3>1, ParentChain
    <3> QED
      BY <2>3, <3>2
  <2> QED
    BY <1>5, <2>1, <2>2, <2>3, <2>4, ChainstateAssumption
    DEF PublishConnected, Promise!Publish, Promise!Children, Children
<1> QED
  BY <1>1, <1>3, <1>4, <1>5 DEF ConnectNext, Promise!Next

(* Disconnecting takes the durable tip back with the batch, then shows it. *)
LEMMA DisconnectRefines ==
    IInv /\ (ReorgNext \/ DisconnectNext) => [Promise!Next]_<<headTip, ShownTip>>
<1> SUFFICES ASSUME IInv, ReorgNext \/ DisconnectNext PROVE [Promise!Next]_<<headTip, ShownTip>>
  OBVIOUS
<1> USE DEF headVars, ckptVars, logVars, viewVars, reorgVars, stepVars
<1>1. CASE ReorgNext
  <2>1. UNCHANGED <<headTip, applied, kind>>
        /\ {pc, pc'} \cap {"down", "refused", "boot"} = {}
    BY <1>1
    DEF ReorgNext, BeginReorg, ReorgStops, EndReorg, ReorgRestores, RestoreFails, FailClosed
  <2> QED
    BY <2>1 DEF ShownTip
<1>2. CASE \/ ArmDisconnect \/ ArmFails \/ UndoCoins \/ CompleteDisconnect \/ RollbackFails
           \/ RewindJournal \/ Disarm \/ DisarmFails
  <2>1. UNCHANGED <<headTip, applied, kind>>
        /\ {pc, pc'} \cap {"down", "refused", "boot"} = {}
    <3>1. CASE ArmDisconnect \/ ArmFails \/ UndoCoins \/ CompleteDisconnect
      BY <3>1 DEF ArmDisconnect, ArmFails, Disconnectable, UndoCoins, CompleteDisconnect
    <3>2. CASE RollbackFails \/ RewindJournal \/ Disarm \/ DisarmFails
      BY <3>2 DEF RollbackFails, RewindJournal, Disarm, DisarmFails, FailClosed
    <3> QED
      BY <1>2, <3>1, <3>2
  <2> QED
    BY <2>1 DEF ShownTip
<1>3. ASSUME pc = "rewound", pc' \in {"uncommitted", "closed"}, DisconnectBatch,
             UNCHANGED <<applied, kind>>
      PROVE  Promise!Retreat
  <2>1. ShownTip = applied /\ ShownTip' = applied
    BY <1>3 DEF IInv, Position, PublishPosition, Publication, ShownTip
  <2> QED
    BY <1>3, <2>1 DEF DisconnectBatch, IInv, Position, DisconnectPosition, Promise!Retreat
<1>4. CASE CommitDisconnect
  BY <1>3, <1>4 DEF CommitDisconnect, Promise!Next
<1>5. CASE CommitDisconnectFails
  <2>1. CASE UNCHANGED headVars
    BY <1>5, <2>1 DEF CommitDisconnectFails, FailClosed, ShownTip
  <2>2. CASE DisconnectBatch
    BY <1>3, <1>5, <2>2 DEF CommitDisconnectFails, FailClosed, Promise!Next
  <2> QED
    BY <1>5, <2>1, <2>2 DEF CommitDisconnectFails
<1>6. CASE PublishDisconnected
  <2>1. ShownTip = applied /\ ShownTip' = Parent[applied] /\ headTip' = headTip
    BY <1>6 DEF PublishDisconnected, IInv, Position, PublishPosition, Publication, ShownTip
  <2>2. applied \in Block /\ headTip = Parent[applied] /\ Parent[applied] # applied
    BY <1>6, ParentChain DEF PublishDisconnected, IInv, Position, DisconnectPosition
  <2>3. Promise!Publish
    BY <2>1, <2>2, ChainstateAssumption DEF Promise!Publish
  <2> QED
    BY <2>3 DEF Promise!Next
<1> QED
  BY <1>1, <1>2, <1>4, <1>5, <1>6 DEF DisconnectNext

(* A publication moves neither tip; the one that ends a boot shows the tip. *)
LEMMA PublishRefines == IInv /\ PublishNext => [Promise!Next]_<<headTip, ShownTip>>
<1> SUFFICES ASSUME IInv, PublishNext PROVE [Promise!Next]_<<headTip, ShownTip>>
  OBVIOUS
<1> USE DEF headVars, ckptVars, logVars, viewVars, reorgVars, stepVars
<1>1. ASSUME NEW k \in {"Ordinary", "Recovered", "Progress"}, FreezeJournal(k)
      PROVE  UNCHANGED <<headTip, ShownTip>>
  <2>1. (pc = "idle" /\ k = "Ordinary") \/ (pc = "boot" /\ k # "Ordinary")
    BY <1>1, Zenon DEF FreezeJournal, PublicationDue
  <2>2. kind = "Ordinary" /\ kind' = k /\ pc' = "frozen" /\ UNCHANGED <<headTip, applied>>
    BY <1>1, <2>1 DEF FreezeJournal, IInv, Position, PublishPosition, Publication
  <2> QED
    BY <2>1, <2>2 DEF ShownTip
<1>2. CASE WriteCheckpoint \/ RetireRevalidation \/ CompactJournal \/ IdleFlush
  <2>1. UNCHANGED <<headTip, applied, kind>>
        /\ {pc, pc'} \cap {"down", "refused", "boot"} = {}
    BY <1>2 DEF WriteCheckpoint, RetireRevalidation, CompactJournal, IdleFlush
  <2> QED
    BY <2>1 DEF ShownTip
<1>3. CASE CheckpointFails \/ CompactFails \/ RetireFails
  BY <1>3 DEF CheckpointFails, CompactFails, RetireFails, Abort, ShownTip
<1>4. CASE RetireMarker
  <2>1. CASE kind # "Recovered"
    BY <1>4, <2>1 DEF RetireMarker, IInv, TypeOK, ShownTip
  <2>2. CASE kind = "Recovered"
    BY <1>4, <2>2
    DEF RetireMarker, IInv, Position, PublishPosition, Publication, ShownTip,
        Promise!Recover, Promise!Next
  <2> QED
    BY <2>1, <2>2
<1> QED
  BY <1>1, <1>2, <1>3, <1>4 DEF PublishNext

(* A crash hides the tip and the end of a boot shows the durable one. *)
LEMMA BootRefines == IInv /\ BootNext => [Promise!Next]_<<headTip, ShownTip>>
<1> SUFFICES ASSUME IInv, BootNext PROVE [Promise!Next]_<<headTip, ShownTip>>
  OBVIOUS
<1> USE DEF headVars, ckptVars, logVars, viewVars, reorgVars, stepVars
<1>1. CASE Crash
  BY <1>1 DEF Crash, ShownTip, Promise!Stop, Promise!Next
<1>2. CASE \/ MarkFullRevalidation \/ Restore \/ RewindOneStep
           \/ \E b \in Block : ReplayBlock(b)
           \/ BootRefused
  <2>1. headTip' = headTip /\ {pc, pc'} \subseteq {"down", "refused", "boot"}
    BY <1>2 DEF MarkFullRevalidation, Restore, RewindOneStep, ReplayBlock, BootRefused
  <2> QED
    BY <2>1 DEF ShownTip
<1>3. CASE BootDone
  BY <1>3
  DEF BootDone, IInv, Position, PublishPosition, Publication, ShownTip, Promise!Recover, Promise!Next
<1> QED
  BY <1>1, <1>2, <1>3 DEF BootNext

(* The chainstate implements DurableChain: the durable tip moves only from *)
(* the tip readers see, readers follow it block by block, and a restarted  *)
(* process shows nothing before it stands on the durable tip again.        *)
THEOREM Refinement == Spec => ImplementsPromise
<1>1. Init => Promise!Init
  BY DEF Init, ShownTip, Promise!Init
<1>2. IInv /\ [Next]_vars => [Promise!Next]_<<headTip, ShownTip>>
  <2>1. UNCHANGED vars => UNCHANGED <<headTip, ShownTip>>
    BY DEF vars, headVars, viewVars, stepVars, ShownTip
  <2> QED
    BY <2>1, ConnectRefines, DisconnectRefines, PublishRefines, BootRefines DEF Next
<1> QED
  BY <1>1, <1>2, Invariance, PTL DEF Spec, ImplementsPromise, Promise!Spec
=============================================================================
