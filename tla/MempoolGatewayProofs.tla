------------------------ MODULE MempoolGatewayProofs ------------------------
(***************************************************************************)
(* The generation of the mempool gateway is a lock: for any transactions,  *)
(* blocks, submitters and threads that change the chain, it has at most    *)
(* one owner, and it is left odd by nobody but a change that closed the    *)
(* chainstate (mempool/src/gateway.rs, begin_chain_change and              *)
(* ChainChangeGuard).                                                      *)
(***************************************************************************)
EXTENDS MempoolGateway, TLAPS

(* Where a changer's counter is while it does not own the generation. *)
Outside == {"idle", "locked", "release"}

(* A changer's record has a counter, and inside the fence a verdict. *)
WellFormed(r) == /\ "pc" \in DOMAIN r
                 /\ r.pc \notin Outside => "fatal" \in DOMAIN r /\ r.fatal \in BOOLEAN

(* FenceIsOwned with what a change needs at its end: a failure it remembers *)
(* has closed the chainstate, so that the generation it leaves odd is one   *)
(* of recovery.                                                             *)
FenceInv ==
    /\ gen \in Nat
    /\ closed \in BOOLEAN
    /\ DOMAIN change = Changer
    /\ \A c \in Changer : WellFormed(change[c])
    /\ \A c \in Changer : Owns(c) /\ change[c].fatal => closed
    /\ FenceIsOwned

(* A step of one changer writes no other's record. *)
Alone(c) == /\ DOMAIN change' = Changer
            /\ \A d \in Changer \ {c} : change'[d] = change[d]

-----------------------------------------------------------------------------
\* Generations alternate.
LEMMA Parity == \A n \in Nat : Even(n) <=> ~Even(n + 1)
  BY DEF Even

\* A step that no part of the fence sees: the submissions, the orphans.
LEMMA FenceUntouched ==
  ASSUME FenceInv, UNCHANGED <<gen, closed, change>>
  PROVE  FenceInv'
  BY DEF FenceInv, FenceIsOwned, WellFormed, Owns

\* A changer that moves on its own side of the fence: it remembers a failure
\* only with the chainstate closed, and nothing opens a closed chainstate.
LEMMA SideKept ==
  ASSUME FenceInv, NEW c \in Changer, Alone(c), Owns(c)' <=> Owns(c),
         WellFormed(change'[c]), Owns(c) /\ change'[c].fatal => closed',
         closed' \in BOOLEAN, closed => closed', gen' = gen
  PROVE  FenceInv'
<1>1. \A d \in Changer : Owns(d)' <=> Owns(d)
  BY DEF Alone, Owns
<1>2. (\A d \in Changer : WellFormed(change[d]))'
  BY DEF Alone, FenceInv, WellFormed
<1>3. (\A d \in Changer : Owns(d) /\ change[d].fatal => closed)'
  BY <1>1 DEF Alone, FenceInv
<1>4. FenceIsOwned'
  BY <1>1 DEF FenceInv, FenceIsOwned
<1> QED
  BY <1>2, <1>3, <1>4 DEF Alone, FenceInv

\* An owner's step that only moves its counter, or with it the fields of the
\* walk.
LEMMA OwnerGoesOn ==
  ASSUME FenceInv, NEW c \in Changer, Owns(c), Alone(c),
         DOMAIN change'[c] = DOMAIN change[c],
         change'[c].pc \notin Outside, change'[c].fatal = change[c].fatal,
         UNCHANGED <<gen, closed>>
  PROVE  FenceInv'
<1>1. WellFormed(change[c]) /\ "fatal" \in DOMAIN change[c] /\ change[c].fatal \in BOOLEAN
  BY DEF FenceInv, WellFormed, Owns, Outside
<1>2. WellFormed(change'[c]) /\ (Owns(c)' <=> Owns(c))
  BY <1>1 DEF WellFormed, Owns, Outside
<1> QED
  BY <1>2, SideKept DEF FenceInv

LEMMA OwnerSteps ==
  ASSUME FenceInv, NEW c \in Changer, Owns(c), NEW pc, pc \notin Outside,
         To(c, pc), UNCHANGED <<gen, closed>>
  PROVE  FenceInv'
<1>1. "pc" \in DOMAIN change[c] /\ DOMAIN change = Changer
  BY DEF FenceInv, WellFormed
<1>2. /\ Alone(c) /\ DOMAIN change'[c] = DOMAIN change[c]
      /\ change'[c].pc = pc /\ change'[c].fatal = change[c].fatal
  BY <1>1 DEF To, Alone
<1> QED
  BY <1>2, OwnerGoesOn

\* A failure and the latch it closes are one step.
LEMMA OwnerFails ==
  ASSUME FenceInv, NEW c \in Changer, Owns(c), NEW pc, pc \notin Outside,
         FailClosed(c, pc), UNCHANGED gen
  PROVE  FenceInv'
<1>1. /\ "pc" \in DOMAIN change[c] /\ "fatal" \in DOMAIN change[c]
      /\ DOMAIN change = Changer
  BY DEF FenceInv, WellFormed, Owns, Outside
<1>2. /\ Alone(c) /\ DOMAIN change'[c] = DOMAIN change[c]
      /\ change'[c].pc = pc /\ change'[c].fatal = TRUE
  BY <1>1 DEF FailClosed, Alone
<1>3. WellFormed(change'[c]) /\ (Owns(c)' <=> Owns(c))
  BY <1>1, <1>2, ZenonT(30) DEF WellFormed, Owns, Outside
<1> QED
  BY <1>2, <1>3, SideKept, ZenonT(30) DEF FailClosed

\* begin_chain_change: at an even generation nobody is inside.
LEMMA ChangeBegins ==
  ASSUME FenceInv, NEW c \in Changer, MayBegin, gen' = gen + 1, Alone(c),
         WellFormed(change'[c]), change'[c].pc \notin Outside, change'[c].fatal = FALSE,
         UNCHANGED closed
  PROVE  FenceInv'
<1>1. \A d \in Changer : ~Owns(d)
  BY DEF MayBegin, FenceInv, FenceIsOwned
<1>2. \A d \in Changer : Owns(d)' <=> d = c
  BY <1>1 DEF Alone, Owns, Outside
<1>3. gen' \in Nat /\ ~Even(gen')
  BY Parity DEF MayBegin, FenceInv
<1>4. (\A d \in Changer : WellFormed(change[d]))'
  BY DEF Alone, FenceInv, WellFormed
<1>5. (\A d \in Changer : Owns(d) /\ change[d].fatal => closed)'
  BY <1>2
<1>6. FenceIsOwned'
  BY <1>2, <1>3 DEF FenceIsOwned
<1> QED
  BY <1>3, <1>4, <1>5, <1>6 DEF Alone, FenceInv

\* ChainChangeGuard: the only owner leaves, with the generation even again
\* unless it failed, and then the chainstate is closed.
LEMMA ChangeEnds ==
  ASSUME FenceInv, NEW c \in Changer, Finish(c)
  PROVE  FenceInv'
<1>1. Owns(c) /\ ~Even(gen) /\ change[c].fatal \in BOOLEAN
  BY DEF FenceInv, FenceIsOwned, WellFormed, Finish, Owns, Outside
<1>2. Alone(c) /\ change'[c] = [pc |-> "release"] /\ closed' = closed
  BY DEF FenceInv, Finish, Alone
<1>3. \A d \in Changer : ~Owns(d)'
  BY <1>1, <1>2 DEF FenceInv, FenceIsOwned, Alone, Owns
<1>4. gen' \in Nat /\ (~Even(gen') => closed)
  <2>1. CASE change[c].fatal
    BY <1>1, <2>1 DEF Finish, FenceInv
  <2>2. CASE ~change[c].fatal
    BY <1>1, <2>2, Parity DEF Finish, FenceInv
  <2> QED
    BY <2>1, <2>2
<1>5. (\A d \in Changer : WellFormed(change[d]))'
  BY <1>2 DEF Alone, FenceInv, WellFormed, Outside
<1>6. FenceIsOwned'
  BY <1>2, <1>3, <1>4 DEF FenceIsOwned
<1> QED
  BY <1>2, <1>3, <1>4, <1>5, <1>6 DEF Alone, FenceInv

-----------------------------------------------------------------------------
\* The steps that take the generation, and the one of a window refused it.
LEMMA Beginnings ==
  ASSUME FenceInv, NEW c \in Changer,
         BeginWindow(c) \/ \E k \in Kind : BeginChange(c, k)
  PROVE  FenceInv'
<1>1. CASE BeginWindow(c) /\ MayBegin
  <2>1. /\ Alone(c) /\ change'[c] = Started("walk", "window")
        /\ gen' = gen + 1 /\ UNCHANGED closed
    BY <1>1 DEF BeginWindow, FenceInv, Alone
  <2>2. WellFormed(change'[c]) /\ change'[c].pc = "walk" /\ change'[c].fatal = FALSE
    BY <2>1 DEF Started, WellFormed, Outside
  <2> QED
    BY <1>1, <2>1, <2>2, ChangeBegins, ZenonT(30) DEF Outside
<1>2. CASE BeginWindow(c) /\ ~MayBegin
  <2>1. /\ Alone(c) /\ change[c].pc = "locked" /\ change'[c] = NoChange
        /\ UNCHANGED <<gen, closed>>
    BY <1>2 DEF BeginWindow, FenceInv, Alone
  <2>2. WellFormed(change'[c]) /\ ~Owns(c) /\ ~Owns(c)'
    BY <2>1 DEF NoChange, WellFormed, Owns, Outside
  <2> QED
    BY <2>1, <2>2, SideKept DEF FenceInv
<1>3. ASSUME NEW k \in Kind, BeginChange(c, k)
      PROVE  FenceInv'
  <2>1. PICK b \in Block :
           change' = [change EXCEPT ![c] = [Started("planned", k) EXCEPT !.target = b]]
    BY <1>3, ZenonT(30) DEF BeginChange
  <2>2. MayBegin /\ gen' = gen + 1 /\ UNCHANGED closed
    BY <1>3 DEF BeginChange
  <2>3. Alone(c) /\ change'[c] = [Started("planned", k) EXCEPT !.target = b]
    BY <2>1 DEF FenceInv, Alone
  <2>4. WellFormed(change'[c]) /\ change'[c].pc = "planned" /\ change'[c].fatal = FALSE
    BY <2>3 DEF Started, WellFormed, Outside
  <2> QED
    BY <2>2, <2>3, <2>4, ChangeBegins, ZenonT(30) DEF Outside
<1> QED
  BY <1>1, <1>2, <1>3

\* The steps outside the fence: taking the transition, and returning.
LEMMA OutsideSteps ==
  ASSUME FenceInv, NEW c \in Changer, LockWindow(c) \/ Release(c)
  PROVE  FenceInv'
<1>1. /\ Alone(c) /\ change[c].pc \in Outside /\ change'[c] \in {[pc |-> "locked"], NoChange}
      /\ UNCHANGED <<gen, closed>>
  BY DEF LockWindow, Release, FenceInv, Alone, Outside
<1>2. WellFormed(change'[c]) /\ ~Owns(c) /\ ~Owns(c)'
  BY <1>1 DEF NoChange, WellFormed, Owns, Outside
<1> QED
  BY <1>1, <1>2, SideKept DEF FenceInv

\* The steps of the walk, from the plan to the effects of its last block.
LEMMA WalkSteps ==
  ASSUME FenceInv, NEW c \in Changer,
         \/ PlanBranch(c) \/ LockBranch(c) \/ CommitWindow(c) \/ DisconnectBlock(c)
         \/ ConnectBlock(c) \/ PublishTip(c) \/ RemoveForBlock(c) \/ NotifyConnect(c)
         \/ NotifyDisconnect(c) \/ EffectsDone(c) \/ StopWalk(c) \/ RestoreBranch(c)
         \/ Fatal(c)
  PROVE  FenceInv'
<1>1. "pc" \in DOMAIN change[c] /\ DOMAIN change = Changer
  BY DEF FenceInv, WellFormed
<1>2. CASE PlanBranch(c)
  <2>1. PICK pc \in {"wait", "settle"} :
           change' = [change EXCEPT ![c].pc = pc, ![c].origin = applied, ![c].seen = applied]
    BY <1>2, ZenonT(30) DEF PlanBranch
  <2>2. /\ Alone(c) /\ DOMAIN change'[c] = DOMAIN change[c]
        /\ change'[c].pc = pc /\ change'[c].fatal = change[c].fatal
    BY <1>1, <2>1 DEF Alone
  <2> QED
    BY <1>2, <2>2, OwnerGoesOn, ZenonT(30) DEF PlanBranch, Owns, Outside
<1>3. CASE LockBranch(c)
  <2>1. PICK pc \in {"settle", "walk", "planned"} : To(c, pc)
    BY <1>3 DEF LockBranch
  <2> QED
    BY <1>3, <2>1, OwnerSteps DEF LockBranch, Owns, Outside
<1>4. CASE CommitWindow(c) \/ DisconnectBlock(c) \/ ConnectBlock(c)
  <2>1. Owns(c) /\ To(c, "publish") /\ UNCHANGED <<gen, closed>>
    BY <1>4 DEF CommitWindow, DisconnectBlock, ConnectBlock, Owns
  <2> QED
    BY <2>1, OwnerSteps DEF Outside
<1>5. CASE PublishTip(c)
  <2>1. Owns(c) /\ UNCHANGED <<gen, closed>> /\ (To(c, "effects") \/ UNCHANGED change)
    BY <1>5 DEF PublishTip, Owns
  <2> QED
    BY <2>1, OwnerSteps, FenceUntouched DEF Outside
<1>6. CASE RemoveForBlock(c)
  BY <1>6, OwnerSteps DEF RemoveForBlock, Owns, Outside
<1>7. CASE NotifyConnect(c)
  <2>1. PICK b : change' = [change EXCEPT ![c].pc = "effects", ![c].seen = b,
                                          ![c].regained = @ \cup Txs[b]]
    BY <1>7, ZenonT(30) DEF NotifyConnect
  <2>2. /\ Alone(c) /\ DOMAIN change'[c] = DOMAIN change[c]
        /\ change'[c].pc = "effects" /\ change'[c].fatal = change[c].fatal
    BY <1>1, <2>1 DEF Alone
  <2>3. Owns(c) /\ UNCHANGED <<gen, closed>>
    BY <1>7 DEF NotifyConnect, Owns
  <2> QED
    BY <2>2, <2>3, OwnerGoesOn DEF Outside
<1>8. CASE NotifyDisconnect(c)
  <2>1. PICK b : change' = [change EXCEPT ![c].seen = Parent[b], ![c].undone = TRUE,
                                          ![c].dropped = @ \cup Txs[b]]
    BY <1>8, ZenonT(30) DEF NotifyDisconnect
  <2>2. change[c].pc = "effects" /\ UNCHANGED <<gen, closed>>
    BY <1>8 DEF NotifyDisconnect
  <2>3. /\ Alone(c) /\ DOMAIN change'[c] = DOMAIN change[c]
        /\ change'[c].pc = "effects" /\ change'[c].fatal = change[c].fatal
    BY <1>1, <2>1, <2>2 DEF Alone
  <2> QED
    BY <2>2, <2>3, OwnerGoesOn DEF Outside, Owns
<1>9. CASE EffectsDone(c)
  <2>1. PICK pc \in {"finish", "walk"} : To(c, pc)
    BY <1>9 DEF EffectsDone
  <2> QED
    BY <1>9, <2>1, OwnerSteps DEF EffectsDone, Owns, Outside
<1>10. CASE StopWalk(c)
  BY <1>10, OwnerSteps DEF StopWalk, Owns, Outside
<1>11. CASE RestoreBranch(c)
  <2>1. /\ Alone(c) /\ DOMAIN change'[c] = DOMAIN change[c]
        /\ change'[c].pc = "walk" /\ change'[c].fatal = change[c].fatal
    BY <1>1, <1>11 DEF RestoreBranch, Alone
  <2> QED
    BY <1>11, <2>1, OwnerGoesOn DEF RestoreBranch, Outside, Owns
<1>12. CASE Fatal(c)
  <2>1. Owns(c) /\ FailClosed(c, "effects") /\ UNCHANGED gen
    BY <1>12 DEF Fatal, Owns
  <2> QED
    BY <2>1, OwnerFails DEF Outside
<1> QED
  BY <1>2, <1>3, <1>4, <1>5, <1>6, <1>7, <1>8, <1>9, <1>10, <1>11, <1>12

\* The steps of the settlement after a walk.
LEMMA SettlementSteps ==
  ASSUME FenceInv, NEW c \in Changer,
         \/ Settle(c) \/ (\E t \in Tx : Reconsider(c, t)) \/ RemoveForReorg(c)
         \/ PlanTrim(c) \/ CommitTrim(c)
  PROVE  FenceInv'
<1>1. "pc" \in DOMAIN change[c] /\ DOMAIN change = Changer
  BY DEF FenceInv, WellFormed
<1>2. CASE Settle(c)
  <2>1. PICK pc \in {"reconsider", "sweep", "finish"} : To(c, pc)
    BY <1>2 DEF Settle
  <2> QED
    BY <1>2, <2>1, OwnerSteps DEF Settle, Owns, Outside
<1>3. ASSUME NEW t \in Tx, Reconsider(c, t)
      PROVE  FenceInv'
  <2>1. PICK u : change' = [change EXCEPT ![c].dropped = @ \ {t}, ![c].withheld = @ \cup u]
    BY <1>3, ZenonT(30) DEF Reconsider
  <2>2. change[c].pc = "reconsider" /\ UNCHANGED <<gen, closed>>
    BY <1>3 DEF Reconsider
  <2>3. /\ Alone(c) /\ DOMAIN change'[c] = DOMAIN change[c]
        /\ change'[c].pc = "reconsider" /\ change'[c].fatal = change[c].fatal
    BY <1>1, <2>1, <2>2 DEF Alone
  <2> QED
    BY <2>2, <2>3, OwnerGoesOn DEF Outside, Owns
<1>4. CASE RemoveForReorg(c)
  <2>1. PICK pc \in {"trim", "finish"} : To(c, pc)
    BY <1>4 DEF RemoveForReorg
  <2>2. Owns(c) /\ UNCHANGED <<gen, closed>>
    BY <1>4 DEF RemoveForReorg, Owns
  <2> QED
    BY <2>1, <2>2, OwnerSteps DEF Outside
<1>5. CASE PlanTrim(c)
  <2>1. PICK pc \in {"finish", "trimming"} : To(c, pc)
    BY <1>5 DEF PlanTrim
  <2> QED
    BY <1>5, <2>1, OwnerSteps DEF PlanTrim, Owns, Outside
<1>6. CASE CommitTrim(c)
  <2>1. Owns(c) /\ UNCHANGED gen
    BY <1>6 DEF CommitTrim, Owns
  <2>2. (To(c, "finish") /\ UNCHANGED closed) \/ FailClosed(c, "finish")
    BY <1>6 DEF CommitTrim
  <2> QED
    BY <2>1, <2>2, OwnerSteps, OwnerFails DEF Outside
<1> QED
  BY <1>2, <1>3, <1>4, <1>5, <1>6

\* The steps of a snapshot import.  One that meets a closed chainstate keeps
\* its generation odd as well.
LEMMA SnapshotSteps ==
  ASSUME FenceInv, NEW c \in Changer,
         CheckSnapshot(c) \/ InstallSnapshot(c) \/ SnapshotChanged(c)
  PROVE  FenceInv'
<1>1. /\ "pc" \in DOMAIN change[c] /\ DOMAIN change = Changer
      /\ change[c].pc = "wait" => "fatal" \in DOMAIN change[c]
  BY DEF FenceInv, WellFormed, Outside
<1>2. CASE CheckSnapshot(c)
  <2>1. PICK pc \in {"wait", "finish"} : To(c, pc)
    BY <1>2 DEF CheckSnapshot
  <2> QED
    BY <1>2, <2>1, OwnerSteps DEF CheckSnapshot, Owns, Outside
<1>3. CASE InstallSnapshot(c)
  <2>1. change[c].pc = "wait" /\ Owns(c) /\ UNCHANGED gen
    BY <1>3 DEF InstallSnapshot, Owns
  <2>2. \/ /\ change' = [change EXCEPT ![c].pc = "finish", ![c].fatal = closed]
           /\ UNCHANGED closed
        \/ To(c, "imported") /\ UNCHANGED closed
        \/ FailClosed(c, "finish")
    BY <1>3 DEF InstallSnapshot
  <2>3. ASSUME change' = [change EXCEPT ![c].pc = "finish", ![c].fatal = closed],
               UNCHANGED closed
        PROVE  FenceInv'
    <3>1. /\ Alone(c) /\ DOMAIN change'[c] = DOMAIN change[c]
          /\ change'[c].pc = "finish" /\ change'[c].fatal = closed
      BY <1>1, <2>1, <2>3 DEF Alone
    <3>2. WellFormed(change'[c]) /\ Owns(c)'
      BY <1>1, <2>1, <3>1 DEF WellFormed, FenceInv, Owns
    <3> QED
      BY <2>1, <2>3, <3>1, <3>2, SideKept DEF FenceInv
  <2> QED
    BY <2>1, <2>2, <2>3, OwnerSteps, OwnerFails DEF Outside
<1>4. CASE SnapshotChanged(c)
  BY <1>4, OwnerSteps DEF SnapshotChanged, Owns, Outside
<1> QED
  BY <1>2, <1>3, <1>4

\* Submissions and the orphan pool read the generation and never write it.
LEMMA SubmissionSteps ==
  ASSUME FenceInv,
         \/ \E j \in Job, t \in Tx : Submit(j, t)
         \/ \E j \in Job : JobStep(j)
         \/ \E t \in Tx : Maintain(t)
         \/ RetryPass
         \/ Prioritise
  PROVE  FenceInv'
<1>1. ASSUME NEW j \in Job, JobStep(j)
      PROVE  UNCHANGED <<gen, closed, change>>
  BY <1>1, ZenonT(30) DEF JobStep, Capture, ReadTip, ReadCoins, AlreadyConfirmed, Prepare, Commit
<1>2. ASSUME \/ \E j \in Job, t \in Tx : Submit(j, t)
             \/ \E t \in Tx : Maintain(t)
             \/ RetryPass
             \/ Prioritise
      PROVE  UNCHANGED <<gen, closed, change>>
  BY <1>2, ZenonT(30) DEF Submit, Maintain, RetryPass, TakeReady, RetryOrphan, Prioritise
<1> QED
  BY <1>1, <1>2, FenceUntouched

-----------------------------------------------------------------------------
\* The fence's invariant holds of every behaviour of the gateway, for any
\* number of submitters and of threads that change the chain.
THEOREM FenceInvariance == Spec => []FenceInv
<1>1. Init => FenceInv
  <2> SUFFICES ASSUME Init PROVE FenceInv
    OBVIOUS
  <2>1. gen = 0 /\ closed = FALSE /\ DOMAIN change = Changer
    BY DEF Init
  <2>2. \A c \in Changer : change[c] = [pc |-> "idle"]
    BY DEF Init, NoChange
  <2>3. \A c \in Changer : WellFormed(change[c]) /\ ~Owns(c)
    BY <2>2 DEF WellFormed, Outside, Owns
  <2>4. Even(gen)
    BY <2>1 DEF Even
  <2> QED
    BY <2>1, <2>3, <2>4, ZenonT(30) DEF FenceInv, FenceIsOwned
<1>2. FenceInv /\ [Next]_vars => FenceInv'
  <2> SUFFICES ASSUME FenceInv, [Next]_vars PROVE FenceInv'
    OBVIOUS
  <2>1. CASE UNCHANGED vars
    BY <2>1, FenceUntouched DEF vars
  <2>2. ASSUME NEW c \in Changer, ChangeStep(c)
        PROVE  FenceInv'
    BY <2>2, Beginnings, OutsideSteps, WalkSteps, SettlementSteps, SnapshotSteps, ChangeEnds
       DEF ChangeStep
  <2> QED
    BY <2>1, <2>2, Beginnings, OutsideSteps, SubmissionSteps DEF Next
<1> QED
  BY <1>1, <1>2, PTL DEF Spec

\* At most one thread is inside a chain change, the generation is odd while
\* it is, and only a chainstate closed for recovery keeps it odd afterwards
\* (begin_chain_change, ChainChangeGuard::finish and its drop).
THEOREM OneOwner == Spec => []FenceIsOwned
<1>1. FenceInv => FenceIsOwned
  BY DEF FenceInv
<1> QED
  BY <1>1, FenceInvariance, PTL
=============================================================================
