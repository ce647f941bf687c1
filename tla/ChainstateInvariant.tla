-------------------------- MODULE ChainstateInvariant -------------------------
(***************************************************************************)
(* Proofs about module Chainstate, for every block graph, every group size *)
(* and every set of faults.                                                *)
(*                                                                         *)
(* Neither what is served nor what recovery reads is inductive by itself.  *)
(* IInv adds where every step of a transition, a publication or a boot     *)
(* stands relative to the durable head (Position), that every tip the disk *)
(* or the journal's memory names has its rows (Stored), and that a batch   *)
(* is written with no body left to sync (Synced).                          *)
(***************************************************************************)
EXTENDS Chainstate, BlockGraphProofs

Publication == {"frozen", "written", "certified", "compacted"}

(* Connecting: the head is at the published tip until the batch and at the *)
(* group's last block after it; the coins are ahead with the group.        *)
ConnectPosition ==
    /\ pc \in {"idle", "synced"} => applied = headTip
    /\ pc \in {"committed", "emitted"} => staged = headTip
    /\ pc \in {"idle", "synced", "committed", "emitted"} =>
         /\ applied \in Block
         /\ applied \in Ancestors[staged]
         /\ coins = Ancestors[staged]

(* Disconnecting: the coins leave the block first, then the head, then the *)
(* published tip.                                                          *)
DisconnectPosition ==
    /\ pc \in {"armed", "rolled", "completed", "rewound", "uncommitted"} =>
         applied \in Block \ {Genesis} /\ staged = applied
    /\ pc \in {"armed", "rolled", "completed", "rewound"} => headTip = applied
    /\ pc = "armed" => coins = Ancestors[applied]
    /\ pc \in {"rolled", "completed", "rewound", "uncommitted"} =>
         coins = Ancestors[Parent[applied]]
    /\ pc = "uncommitted" => headTip = Parent[applied]
    /\ pc = "unpublished" =>
         applied = headTip /\ staged = applied /\ coins = Ancestors[applied]

(* Publishing: coins and tip agree, on the head's chain, and at the head   *)
(* itself unless it is a progress checkpoint.                              *)
PublishPosition ==
    /\ pc \in Publication =>
         /\ applied \in Ancestors[headTip]
         /\ coins = Ancestors[applied]
         /\ kind # "Progress" => applied = headTip
         /\ kind = "Ordinary" => staged = applied
    /\ pc \notin Publication => kind = "Ordinary"

(* Booting: the coins are those of the tip, if there is one. *)
BootPosition ==
    /\ pc = "boot" => coins = IF applied = NoBlock THEN {} ELSE Ancestors[applied]
    /\ pc = "closed" => applied \in Block

Position == ConnectPosition /\ DisconnectPosition /\ PublishPosition /\ BootPosition

Stored ==
    /\ Ancestors[headTip] \subseteq rows
    /\ Ancestors[jTip] \subseteq rows
    /\ Ancestors[jNext] \subseteq rows
    /\ ckptTip # NoBlock => Ancestors[ckptTip] \subseteq rows

Synced ==
    /\ Ancestors[headTip] \cap unsynced = {}
    /\ pc = "synced" => unsynced = {}

IInv == TypeOK /\ Position /\ Stored /\ Synced

(* The two halves of TypeOK: the flags, and everything else. *)
FlagsOK == revalidate \in BOOLEAN /\ jOnCkpt \in BOOLEAN /\ rewound \in BOOLEAN

PlacesOK ==
    /\ headTip \in Block /\ rows \subseteq Block
    /\ marker \in {"none", "InFlight", "RolledBack"}
    /\ ckptTip \in Block \cup {NoBlock}
    /\ {jBase, jTip, jNext} \subseteq Block
    /\ jState \in {"open", "gap", "invalid"}
    /\ applied \in Block \cup {NoBlock} /\ staged \in Block
    /\ coins \subseteq Block /\ unsynced \subseteq Block
    /\ target \in Block \cup {NoBlock} /\ origin \in Block \cup {NoBlock}
    /\ kind \in {"Ordinary", "Recovered", "Progress"}
    /\ pc \in Steps

---------------------------------------------------------------------------
(* The flags and the places are all of TypeOK. *)
LEMMA TypeSplit == FlagsOK' /\ PlacesOK' => TypeOK'
BY DEF FlagsOK, PlacesOK, TypeOK

(* What leaves the tips and rows alone keeps them stored. *)
LEMMA StoredKept ==
    Stored /\ UNCHANGED <<headTip, rows, jTip, jNext, ckptTip>> => Stored'
BY DEF Stored

(* What writes no body and moves no head keeps the bodies synced. *)
LEMMA SyncedKept ==
    Synced /\ UNCHANGED <<headTip, unsynced>> /\ pc' # "synced" => Synced'
BY DEF Synced

(* What a block on a chain needs is among what the chain needs. *)
LEMMA StoredBelow ==
    \A b \in Block : \A a \in Ancestors[b] :
        Ancestors[b] \subseteq rows => a \in Block /\ Ancestors[a] \subseteq rows
BY AncestorsNest, AncestorIsLower

(* A journal flush leaves the durable tip stored. *)
LEMMA FlushStored ==
    ASSUME NEW b \in Block, TypeOK, Stored, Ancestors[b] \subseteq rows,
           jTip' \in {jTip} \cup Path(jTip, b)
    PROVE  jTip' \in Block /\ Ancestors[jTip'] \subseteq rows
BY StoredBelow DEF TypeOK, Stored, Path

(* An empty data directory satisfies the invariant. *)
LEMMA InitInv == Init => IInv
<1> SUFFICES ASSUME Init PROVE IInv
  OBVIOUS
<1>1. Genesis \in Block /\ Ancestors[Genesis] = {Genesis}
  BY BlockGraphAssumption
<1>2. TypeOK
  <2>1. FlagsOK
    BY Zenon DEF Init, FlagsOK
  <2>2. PlacesOK
    BY <1>1 DEF Init, PlacesOK, Steps
  <2> QED
    BY <2>1, <2>2 DEF FlagsOK, PlacesOK, TypeOK
<1>3. Position
  BY <1>1, ChainstateAssumption
  DEF Init, Position, ConnectPosition, DisconnectPosition, PublishPosition, BootPosition,
      Publication
<1>4. Stored /\ Synced
  BY <1>1 DEF Init, Stored, Synced
<1> QED
  BY <1>2, <1>3, <1>4 DEF IInv

(* The steps that connect blocks. *)
LEMMA ConnectInv == IInv /\ ConnectNext => IInv'
<1> SUFFICES ASSUME IInv, ConnectNext PROVE IInv'
  OBVIOUS
<1> USE DEF headVars, ckptVars, logVars, viewVars, reorgVars, stepVars
<1>0. TypeOK /\ Position /\ Stored /\ Synced
  BY DEF IInv
<1>1. ASSUME NEW b \in Block, StageBlock(b) PROVE IInv'
  <2>0. /\ pc = "idle" /\ pc' = "idle"
        /\ b # Genesis /\ Parent[b] = staged
        /\ staged' = b
        /\ UNCHANGED <<headVars, marker, ckptVars, jOnCkpt, jBase, jNext, jState,
                       applied, reorgVars, stepVars>>
    BY <1>1 DEF StageBlock, Connectable, Children
  <2>1. jTip' \in Block /\ Ancestors[jTip'] \subseteq rows
    BY <1>0, <1>1, FlushStored DEF StageBlock, LogFlushes, TypeOK, Stored
  <2>2. TypeOK'
    BY <1>0, <1>1, <2>0, <2>1 DEF StageBlock, TypeOK
  <2>3. Ancestors[b] = Ancestors[staged] \cup {b}
    BY <2>0, ParentChain
  <2>4. Position'
    BY <1>0, <1>1, <2>0, <2>3
    DEF StageBlock, Position, ConnectPosition, DisconnectPosition, PublishPosition,
        BootPosition, Publication
  <2>5. Stored'
    BY <1>0, <2>0, <2>1 DEF Stored
  <2>6. Synced'
    BY <1>0, <1>1, <2>0 DEF StageBlock, Synced, Stored
  <2> QED
    BY <2>2, <2>4, <2>5, <2>6 DEF IInv
<1>2. ASSUME NEW b \in Block, RefusedByJournal(b) PROVE IInv'
  <2>1. TypeOK'
    BY <1>0, <1>2
    DEF RefusedByJournal, Connectable, FailClosed, TypeOK, Steps,
        Position, ConnectPosition
  <2>2. Position'
    BY <1>0, <1>2
    DEF RefusedByJournal, Connectable, FailClosed, Position, ConnectPosition, DisconnectPosition,
        PublishPosition, BootPosition, Publication
  <2>3. Stored' /\ Synced'
    BY <1>0, <1>2, StoredKept, SyncedKept DEF RefusedByJournal, FailClosed
  <2> QED
    BY <2>1, <2>2, <2>3 DEF IInv
<1>3. ASSUME NEW b \in Block, PersistFails(b) PROVE IInv'
  <2>1. TypeOK'
    BY <1>0, <1>3
    DEF PersistFails, Connectable, FailClosed, TypeOK, Steps,
        Position, ConnectPosition
  <2>2. Position'
    BY <1>0, <1>3
    DEF PersistFails, Connectable, FailClosed, Position, ConnectPosition, DisconnectPosition,
        PublishPosition, BootPosition, Publication
  <2>3. Stored'
    BY <1>0, <1>3, StoredKept DEF PersistFails
  <2>4. Synced'
    BY <1>0, <1>3 DEF PersistFails, FailClosed, Synced, Stored
  <2> QED
    BY <2>1, <2>2, <2>3, <2>4 DEF IInv
<1>4. CASE SyncBodies
  <2>1. TypeOK'
    BY <1>0, <1>4
    DEF SyncBodies, TypeOK, Steps
  <2>2. Position'
    BY <1>0, <1>4
    DEF SyncBodies, Position, ConnectPosition, DisconnectPosition, PublishPosition, BootPosition,
        Publication
  <2>3. Stored' /\ Synced'
    BY <1>0, <1>4, StoredKept DEF SyncBodies, Synced
  <2> QED
    BY <2>1, <2>2, <2>3 DEF IInv
<1>5. ASSUME headTip = applied, ConnectBatch, UNCHANGED <<jTip, jNext, ckptTip>>
      PROVE  Stored'
  BY <1>0, <1>5 DEF ConnectBatch, Path, Stored
<1>6. CASE CommitHead
  <2>1. TypeOK'
    BY <1>0, <1>6, BlockGraphAssumption DEF CommitHead, ConnectBatch, Path, TypeOK, Steps
  <2>2. Position'
    BY <1>0, <1>6
    DEF CommitHead, ConnectBatch, Position, ConnectPosition,
        DisconnectPosition, PublishPosition, BootPosition, Publication
  <2>3. Stored'
    BY <1>5, <1>6 DEF CommitHead
  <2>4. Synced'
    BY <1>0, <1>6 DEF CommitHead, Synced
  <2> QED
    BY <2>1, <2>2, <2>3, <2>4 DEF IInv
<1>7. CASE CommitFails
  <2>1. TypeOK'
    BY <1>0, <1>7, BlockGraphAssumption
    DEF CommitFails, FailClosed, ConnectBatch, Path, TypeOK, Steps, Position, ConnectPosition
  <2>2. Position'
    BY <1>0, <1>7
    DEF CommitFails, FailClosed, Position, ConnectPosition,
        DisconnectPosition, PublishPosition, BootPosition, Publication
  <2>3. Stored'
    BY <1>0, <1>5, <1>7, StoredKept DEF CommitFails
  <2>4. Synced'
    BY <1>0, <1>7 DEF CommitFails, FailClosed, Synced
  <2> QED
    BY <2>1, <2>2, <2>3, <2>4 DEF IInv
<1>8. CASE EmitRecords
  <2>0. staged = headTip /\ staged \in Block /\ Ancestors[staged] \subseteq rows
    BY <1>0, <1>8 DEF EmitRecords, Position, ConnectPosition, TypeOK, Stored
  <2>1. ASSUME NEW c \in Ancestors[staged], LogAppends(c)
        PROVE  {jTip', jNext'} \subseteq Block /\ Ancestors[jTip'] \subseteq rows
               /\ Ancestors[jNext'] \subseteq rows
    <3>1. c \in Block /\ Ancestors[c] \subseteq rows
      BY <2>0, <2>1, StoredBelow
    <3> QED
      BY <1>0, <2>1, <3>1, FlushStored DEF LogAppends
  <2>2. \A c \in Path(applied, staged) : Parent[c] \in Ancestors[staged]
    <3> SUFFICES ASSUME NEW c \in Path(applied, staged) PROVE Parent[c] \in Ancestors[staged]
      OBVIOUS
    <3>1. c \in Block /\ c \in Ancestors[staged] /\ c # Genesis
      BY <1>0, <1>8, <2>0, ChainEnds, AncestorIsLower
      DEF Path, EmitRecords, Position, ConnectPosition
    <3> QED
      BY <2>0, <3>1, ParentChain, AncestorsNest
  <2>3. staged \in Ancestors[staged]
    BY <2>0, ChainEnds
  <2>4. {jTip', jNext'} \subseteq Block /\ Ancestors[jTip'] \subseteq rows
        /\ Ancestors[jNext'] \subseteq rows
    <3>1. CASE LogAppends(staged)
      BY <2>1, <2>3, <3>1
    <3>2. CASE \E c \in Path(applied, staged) : LogAppends(Parent[c])
      BY <2>1, <2>2, <3>2
    <3>3. CASE UNCHANGED <<jTip, jNext>>
      BY <1>0, <3>3 DEF TypeOK, Stored
    <3> QED
      BY <1>8, <3>1, <3>2, <3>3 DEF EmitRecords
  <2>5. TypeOK'
    BY <1>0, <1>8, <2>4 DEF EmitRecords, TypeOK, Steps
  <2>6. Position'
    BY <1>0, <1>8
    DEF EmitRecords, Position, ConnectPosition,
        DisconnectPosition, PublishPosition, BootPosition, Publication
  <2>7. Stored' /\ Synced'
    BY <1>0, <1>8, <2>4 DEF EmitRecords, Stored, Synced
  <2> QED
    BY <2>5, <2>6, <2>7 DEF IInv
<1>9. ASSUME NEW b \in Block, PublishConnected(b) PROVE IInv'
  <2>1. TypeOK'
    BY <1>0, <1>9 DEF PublishConnected, TypeOK, Steps
  <2>2. Position'
    BY <1>0, <1>9
    DEF PublishConnected, Position, ConnectPosition,
        DisconnectPosition, PublishPosition, BootPosition, Publication
  <2>3. Stored' /\ Synced'
    BY <1>0, <1>9, StoredKept, SyncedKept DEF PublishConnected
  <2> QED
    BY <2>1, <2>2, <2>3 DEF IInv
<1> QED
  BY <1>1, <1>2, <1>3, <1>4, <1>6, <1>7, <1>8, <1>9 DEF ConnectNext

(* The steps that begin and end a reorganisation move no tip. *)
LEMMA ReorgInv == IInv /\ ReorgNext => IInv'
<1> SUFFICES ASSUME IInv, ReorgNext PROVE IInv'
  OBVIOUS
<1> USE DEF headVars, ckptVars, logVars, viewVars, reorgVars, stepVars
<1>0. TypeOK /\ Position /\ Stored /\ Synced
  BY DEF IInv
<1>1. ASSUME pc = "idle", pc' = "idle",
             UNCHANGED <<headVars, marker, ckptVars, logVars, viewVars, stepVars>>,
             {target', origin'} \subseteq Block \cup {NoBlock}
      PROVE  IInv'
  <2>1. TypeOK'
    BY <1>0, <1>1
    DEF TypeOK
  <2>2. Position'
    BY <1>0, <1>1
    DEF Position, ConnectPosition, DisconnectPosition, PublishPosition, BootPosition, Publication
  <2>3. Stored' /\ Synced'
    BY <1>0, <1>1, StoredKept, SyncedKept
  <2> QED
    BY <2>1, <2>2, <2>3 DEF IInv
<1>2. ASSUME NEW t \in Block, BeginReorg(t) PROVE IInv'
  BY <1>0, <1>1, <1>2 DEF BeginReorg, TypeOK
<1>3. CASE ReorgStops
  BY <1>1, <1>3 DEF ReorgStops, EndReorg
<1>4. CASE ReorgRestores
  BY <1>0, <1>1, <1>4 DEF ReorgRestores, TypeOK
<1>5. CASE RestoreFails
  <2>1. TypeOK'
    BY <1>0, <1>5
    DEF RestoreFails, FailClosed, TypeOK, Steps
  <2>2. Position'
    BY <1>0, <1>5
    DEF RestoreFails, FailClosed, Position, ConnectPosition, DisconnectPosition, PublishPosition,
        BootPosition, Publication
  <2>3. Stored' /\ Synced'
    BY <1>0, <1>5, StoredKept, SyncedKept DEF RestoreFails, FailClosed
  <2> QED
    BY <2>1, <2>2, <2>3 DEF IInv
<1> QED
  BY <1>2, <1>3, <1>4, <1>5 DEF ReorgNext

(* The steps that disconnect the tip. *)
LEMMA DisconnectInv == IInv /\ DisconnectNext => IInv'
<1> SUFFICES ASSUME IInv, DisconnectNext PROVE IInv'
  OBVIOUS
<1> USE DEF headVars, ckptVars, logVars, viewVars, reorgVars, stepVars
<1>0. TypeOK /\ Position /\ Stored /\ Synced
  BY DEF IInv
<1>1. CASE ArmDisconnect
  <2>1. applied # Genesis
    BY <1>0, <1>1, ChainEnds DEF ArmDisconnect, Disconnectable, TypeOK
  <2>2. TypeOK'
    BY <1>0, <1>1, <2>1
    DEF ArmDisconnect, Disconnectable, TypeOK, Steps
  <2>3. Position'
    BY <1>0, <1>1, <2>1
    DEF ArmDisconnect, Disconnectable, Position, ConnectPosition, DisconnectPosition,
        PublishPosition, BootPosition, Publication
  <2>4. Stored' /\ Synced'
    BY <1>0, <1>1, StoredKept, SyncedKept DEF ArmDisconnect
  <2> QED
    BY <2>2, <2>3, <2>4 DEF IInv
<1>2. CASE ArmFails
  <2>1. TypeOK'
    BY <1>0, <1>2
    DEF ArmFails, Disconnectable, TypeOK
  <2>2. Position'
    BY <1>0, <1>2
    DEF ArmFails, Disconnectable, Position, ConnectPosition, DisconnectPosition, PublishPosition,
        BootPosition, Publication
  <2>3. Stored' /\ Synced'
    BY <1>0, <1>2, StoredKept, SyncedKept DEF ArmFails, Disconnectable
  <2> QED
    BY <2>1, <2>2, <2>3 DEF IInv
<1>3. CASE UndoCoins
  <2>1. Ancestors[Parent[applied]] = Ancestors[applied] \ {applied}
    BY <1>0, <1>3, ParentChain DEF UndoCoins, Position, DisconnectPosition
  <2>2. TypeOK'
    BY <1>0, <1>3, <2>1
    DEF UndoCoins, TypeOK, Steps
  <2>3. Position'
    BY <1>0, <1>3, <2>1
    DEF UndoCoins, Position, ConnectPosition, DisconnectPosition, PublishPosition, BootPosition,
        Publication
  <2>4. Stored' /\ Synced'
    BY <1>0, <1>3, StoredKept, SyncedKept DEF UndoCoins
  <2> QED
    BY <2>2, <2>3, <2>4 DEF IInv
<1>4. CASE CompleteDisconnect
  <2>1. TypeOK'
    BY <1>0, <1>4
    DEF CompleteDisconnect, TypeOK, Steps
  <2>2. Position'
    BY <1>0, <1>4
    DEF CompleteDisconnect, Position, ConnectPosition, DisconnectPosition, PublishPosition,
        BootPosition, Publication
  <2>3. Stored' /\ Synced'
    BY <1>0, <1>4, StoredKept, SyncedKept DEF CompleteDisconnect
  <2> QED
    BY <2>1, <2>2, <2>3 DEF IInv
<1>5. CASE RollbackFails
  <2>1. TypeOK'
    BY <1>0, <1>5
    DEF RollbackFails, FailClosed, TypeOK, Steps,
        Position, DisconnectPosition
  <2>2. Position'
    BY <1>0, <1>5
    DEF RollbackFails, FailClosed, Position, ConnectPosition, DisconnectPosition,
        PublishPosition, BootPosition, Publication
  <2>3. Stored' /\ Synced'
    BY <1>0, <1>5, StoredKept, SyncedKept DEF RollbackFails, FailClosed
  <2> QED
    BY <2>1, <2>2, <2>3 DEF IInv
<1>6. CASE RewindJournal
  <2>1. {jTip', jNext'} \subseteq Block /\ Ancestors[jTip'] \subseteq rows
        /\ Ancestors[jNext'] \subseteq rows
    <3>1. jNext \in Block /\ Ancestors[jNext] \subseteq rows
          /\ jTip \in Block /\ Ancestors[jTip] \subseteq rows
      BY <1>0 DEF TypeOK, Stored
    <3>2. CASE RewindLog(Parent[applied])
      BY <3>1, <3>2, StoredBelow DEF RewindLog
    <3>3. CASE InvalidateLog(Parent[applied])
      BY <3>1, <3>3 DEF InvalidateLog
    <3>4. CASE RewindLogFails(Parent[applied])
      <4>1. CASE UNCHANGED jTip
        BY <3>1, <3>4, <4>1 DEF RewindLogFails
      <4>2. CASE LogFlushes
        BY <1>0, <3>1, <3>4, <4>2, FlushStored DEF RewindLogFails, LogFlushes
      <4>3. CASE jTip' = Parent[applied] /\ Parent[applied] \in Ancestors[jNext]
        BY <3>1, <3>4, <4>3, StoredBelow DEF RewindLogFails
      <4> QED
        BY <3>4, <4>1, <4>2, <4>3 DEF RewindLogFails
    <3> QED
      BY <1>6, <3>2, <3>3, <3>4 DEF RewindJournal
  <2>2. jState' \in {"open", "gap", "invalid"}
    BY <1>0, <1>6 DEF RewindJournal, RewindLog, InvalidateLog, RewindLogFails, TypeOK
  <2>3. TypeOK'
    <3>1. FlagsOK'
      BY <1>0, <1>6, Zenon
      DEF RewindJournal, RewindLog, InvalidateLog, RewindLogFails, TypeOK, FlagsOK
    <3>2. PlacesOK'
      BY <1>0, <1>6, <2>1, <2>2 DEF RewindJournal, TypeOK, Steps, PlacesOK
    <3> QED
      BY <3>1, <3>2, TypeSplit
  <2>4. Position'
    BY <1>0, <1>6, <2>1, <2>2
    DEF RewindJournal, Position, ConnectPosition, DisconnectPosition, PublishPosition,
        BootPosition, Publication
  <2>5. Stored' /\ Synced'
    BY <1>0, <1>6, <2>1 DEF RewindJournal, Stored, Synced
  <2> QED
    BY <2>3, <2>4, <2>5 DEF IInv
<1>7. ASSUME pc = "rewound"
      PROVE  /\ Parent[applied] \in Block
             /\ Ancestors[Parent[applied]] \subseteq Ancestors[headTip]
  BY <1>0, <1>7, ParentChain DEF Position, DisconnectPosition
<1>8. CASE CommitDisconnect
  <2>1. TypeOK'
    BY <1>0, <1>7, <1>8
    DEF CommitDisconnect, DisconnectBatch, TypeOK, Steps
  <2>2. Position'
    BY <1>0, <1>7, <1>8
    DEF CommitDisconnect, DisconnectBatch, Position, ConnectPosition, DisconnectPosition,
        PublishPosition, BootPosition, Publication
  <2>3. Stored' /\ Synced'
    BY <1>0, <1>7, <1>8 DEF CommitDisconnect, DisconnectBatch, Stored, Synced
  <2> QED
    BY <2>1, <2>2, <2>3 DEF IInv
<1>9. CASE CommitDisconnectFails
  <2>1. TypeOK'
    BY <1>0, <1>7, <1>9
    DEF CommitDisconnectFails, DisconnectBatch, FailClosed, TypeOK, Steps,
        Position, DisconnectPosition
  <2>2. Position'
    BY <1>0, <1>7, <1>9
    DEF CommitDisconnectFails, DisconnectBatch, FailClosed, Position, ConnectPosition,
        DisconnectPosition, PublishPosition, BootPosition, Publication
  <2>3. Stored' /\ Synced'
    BY <1>0, <1>7, <1>9
    DEF CommitDisconnectFails, DisconnectBatch, FailClosed, Stored, Synced
  <2> QED
    BY <2>1, <2>2, <2>3 DEF IInv
<1>10. CASE PublishDisconnected
  <2>1. Parent[applied] \in Block
    BY <1>0, <1>10, ParentChain DEF PublishDisconnected, Position, DisconnectPosition
  <2>2. TypeOK'
    BY <1>0, <1>10, <2>1
    DEF PublishDisconnected, TypeOK, Steps
  <2>3. Position'
    BY <1>0, <1>10, <2>1
    DEF PublishDisconnected, Position, ConnectPosition, DisconnectPosition, PublishPosition,
        BootPosition, Publication
  <2>4. Stored' /\ Synced'
    BY <1>0, <1>10, StoredKept, SyncedKept DEF PublishDisconnected
  <2> QED
    BY <2>2, <2>3, <2>4 DEF IInv
<1>11. CASE Disarm
  <2>1. applied \in Block /\ applied \in Ancestors[applied]
    BY <1>0, <1>11, ChainEnds DEF Disarm, Position, DisconnectPosition, TypeOK
  <2>2. TypeOK'
    <3>1. FlagsOK'
      BY <1>0, <1>11, Zenon DEF Disarm, TypeOK, FlagsOK
    <3>2. PlacesOK'
      BY <1>0, <1>11, <2>1 DEF Disarm, TypeOK, Steps, PlacesOK
    <3> QED
      BY <3>1, <3>2, TypeSplit
  <2>3. Position'
    BY <1>0, <1>11, <2>1
    DEF Disarm, Position, ConnectPosition, DisconnectPosition, PublishPosition, BootPosition,
        Publication
  <2>4. Stored' /\ Synced'
    BY <1>0, <1>11, StoredKept, SyncedKept DEF Disarm
  <2> QED
    BY <2>2, <2>3, <2>4 DEF IInv
<1>12. CASE DisarmFails
  <2>1. TypeOK'
    <3>1. FlagsOK'
      BY <1>0, <1>12, Zenon DEF DisarmFails, FailClosed, TypeOK, FlagsOK
    <3>2. PlacesOK'
      BY <1>0, <1>12 DEF DisarmFails, FailClosed, TypeOK, Steps, PlacesOK,
          Position, DisconnectPosition
    <3> QED
      BY <3>1, <3>2, TypeSplit
  <2>2. Position'
    BY <1>0, <1>12
    DEF DisarmFails, FailClosed, TypeOK, Position, ConnectPosition, DisconnectPosition,
        PublishPosition, BootPosition, Publication
  <2>3. Stored' /\ Synced'
    BY <1>0, <1>12, StoredKept, SyncedKept DEF DisarmFails, FailClosed
  <2> QED
    BY <2>1, <2>2, <2>3 DEF IInv
<1> QED
  BY <1>1, <1>2, <1>3, <1>4, <1>5, <1>6, <1>8, <1>9, <1>10, <1>11, <1>12 DEF DisconnectNext
=============================================================================
