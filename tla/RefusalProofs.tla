--------------------------- MODULE RefusalProofs ---------------------------
(***************************************************************************)
(* A refusal that the chain has overtaken is never kept: for any chain,    *)
(* transactions, submitters and chain changes, whatever the gateway        *)
(* remembers as not final while admission is open is not final at the      *)
(* applied tip (mempool/src/gateway.rs, check_admission_state;             *)
(* mempool/src/orphan.rs, chain_changed).                                  *)
(*                                                                         *)
(* Two arguments meet.  A submission whose captured generation still       *)
(* stands judged against the tip that still stands, because the tip moves  *)
(* at an odd generation only.  And a change that moved the tip forgets the *)
(* refusals before it makes the generation even, because it carries the    *)
(* effects of every block it published.                                    *)
(***************************************************************************)
EXTENDS MempoolGatewayProofs

(* No transaction remembered as not final is final after block b. *)
Fresh(b) == \A t \in Tx : <<t, "nonfinal">> \in rejects => ~Final(t, b)

(* What a submission has captured, with the judgement it made of the locks. *)
Judged(r) ==
    /\ "pc" \in DOMAIN r
    /\ r.pc \notin {"idle", "start"} => r.gen \in Nat /\ r.gen <= gen
    /\ r.pc \in {"tip", "read", "confirmed"} =>
         /\ {"tx", "gen", "final"} \subseteq DOMAIN r
         /\ Even(gen) /\ r.gen = gen /\ ~r.final => ~Final(r.tx, applied)
    /\ r.pc = "prepared" /\ r.verdict = "nonfinal" /\ Even(gen) /\ r.gen = gen =>
         ~Final(r.tx, applied)

(* How far a change has carried the effects of the blocks it published. *)
Behind == {"publish", "effects", "notify"}

Carried(c) ==
    Owns(c) =>
        /\ "seen" \in DOMAIN change[c]
        /\ ~change[c].fatal =>
             /\ change[c].pc \in Behind => Fresh(change[c].seen)
             /\ change[c].pc \notin Behind \cup {"imported"} => Fresh(applied)
             /\ change[c].pc \notin Behind \cup {"imported", "finish"} =>
                  change[c].seen = applied

RefusalInv ==
    /\ DOMAIN job = Job
    /\ \A j \in Job : job[j].pc \in JobPc /\ Judged(job[j])
    /\ \A c \in Changer : Carried(c)
    /\ RefusalsAreCurrent

-----------------------------------------------------------------------------
\* An owner's step: admission is closed before and after it, so that only
\* what the owner itself has carried matters.
LEMMA OwnerCarries ==
  ASSUME FenceInv, FenceInv', RefusalInv, NEW c \in Changer, Owns(c), Owns(c)',
         Carried(c)', UNCHANGED <<gen, job>>
  PROVE  RefusalInv'
<1>1. ~Even(gen) /\ ~Even(gen') /\ \A d \in Changer \ {c} : ~Owns(d)'
  BY DEF FenceInv, FenceIsOwned
<1>2. (\A d \in Changer : Carried(d))'
  BY <1>1 DEF Carried
<1>3. (\A j \in Job : job[j].pc \in JobPc /\ Judged(job[j]))'
  BY <1>1 DEF RefusalInv, Judged
<1>4. RefusalsAreCurrent'
  BY <1>1 DEF RefusalsAreCurrent
<1> QED
  BY <1>2, <1>3, <1>4 DEF RefusalInv

\* A step of a changer that is not inside before or after.
LEMMA OutsiderCarries ==
  ASSUME RefusalInv, NEW c \in Changer, Alone(c), ~Owns(c)',
         UNCHANGED <<gen, job, rejects, applied>>
  PROVE  RefusalInv'
<1>1. (\A d \in Changer : Carried(d))'
  BY DEF RefusalInv, Carried, Alone, Owns, Fresh
<1>2. (\A j \in Job : job[j].pc \in JobPc /\ Judged(job[j]))'
  BY DEF RefusalInv, Judged
<1> QED
  BY <1>1, <1>2 DEF RefusalInv, RefusalsAreCurrent

\* A change begins with nothing left to carry.
LEMMA BeginningCarries ==
  ASSUME FenceInv, FenceInv', RefusalInv, NEW c \in Changer, MayBegin, gen' = gen + 1,
         Owns(c)', "seen" \in DOMAIN change'[c], change'[c].seen = applied,
         change'[c].pc \in {"walk", "planned"}, UNCHANGED <<job, rejects, applied>>
  PROVE  RefusalInv'
<1>1. Even(gen) /\ ~Even(gen') /\ \A d \in Changer \ {c} : ~Owns(d)'
  BY DEF FenceInv, FenceIsOwned, MayBegin
<1>2. Fresh(applied)'
  BY <1>1 DEF RefusalInv, RefusalsAreCurrent, Fresh
<1>3. (\A d \in Changer : Carried(d))'
  BY <1>1, <1>2 DEF Carried
<1>4. (\A j \in Job : job[j].pc \in JobPc /\ Judged(job[j]))'
  BY <1>1 DEF RefusalInv, Judged, FenceInv
<1> QED
  BY <1>1, <1>3, <1>4 DEF RefusalInv, RefusalsAreCurrent

\* A change ends: the generations captured before it are all in the past, and
\* a change that did not fail has carried everything.
LEMMA EndCarries ==
  ASSUME FenceInv, FenceInv', RefusalInv, NEW c \in Changer, Finish(c)
  PROVE  RefusalInv'
<1>1. /\ Owns(c) /\ ~Even(gen) /\ change[c].fatal \in BOOLEAN
      /\ UNCHANGED <<job, rejects, applied>>
  BY DEF FenceInv, FenceIsOwned, WellFormed, Finish, Owns, Outside, lifecycle, chainVars
<1>2. \A d \in Changer : ~Owns(d)'
  <2>1. ~Owns(c)' /\ \A d \in Changer \ {c} : change'[d] = change[d]
    BY DEF FenceInv, Finish, Owns
  <2> QED
    BY <1>1, <2>1 DEF FenceInv, FenceIsOwned, Owns
<1>3. (\A d \in Changer : Carried(d))'
  BY <1>2 DEF Carried
<1>4. CASE change[c].fatal
  <2>1. gen' = gen
    BY <1>4 DEF Finish
  <2>2. (\A j \in Job : job[j].pc \in JobPc /\ Judged(job[j]))'
    BY <1>1, <2>1 DEF RefusalInv, Judged
  <2> QED
    BY <1>1, <1>3, <2>1, <2>2 DEF RefusalInv, RefusalsAreCurrent
<1>5. CASE ~change[c].fatal
  <2>1. gen' = gen + 1 /\ gen \in Nat
    BY <1>5 DEF Finish, FenceInv
  <2>2. Fresh(applied)
    BY <1>1, <1>5 DEF RefusalInv, Carried, Behind, Finish
  <2>3. (\A j \in Job : job[j].pc \in JobPc /\ Judged(job[j]))'
    BY <1>1, <2>1 DEF RefusalInv, Judged
  <2> QED
    BY <1>1, <1>3, <2>2, <2>3 DEF RefusalInv, RefusalsAreCurrent, Fresh
<1> QED
  BY <1>1, <1>4, <1>5

-----------------------------------------------------------------------------
\* What a step that moves only an owner's counter leaves of its record.
LEMMA OnlyCounter ==
  ASSUME FenceInv, RefusalInv, NEW c \in Changer, Owns(c), NEW pc, To(c, pc)
  PROVE  /\ change'[c].pc = pc /\ change'[c].fatal = change[c].fatal
         /\ change'[c].seen = change[c].seen /\ "seen" \in DOMAIN change'[c]
<1>1. /\ DOMAIN change = Changer
      /\ {"pc", "seen", "fatal"} \subseteq DOMAIN change[c]
  BY DEF FenceInv, WellFormed, Owns, Outside, RefusalInv, Carried
<1> QED
  BY <1>1 DEF To

\* Between two blocks, or from the tip into the next: the tip stands, and so
\* do the refusals.
LEMMA AtRest ==
  ASSUME FenceInv, FenceInv', RefusalInv, NEW c \in Changer, Owns(c),
         change[c].pc \notin Behind \cup {"imported", "finish"},
         NEW pc, pc \notin Outside \cup {"imported"}, To(c, pc),
         UNCHANGED <<gen, job, rejects, applied>>
  PROVE  RefusalInv'
<1>1. /\ change'[c].pc = pc /\ change'[c].fatal = change[c].fatal
      /\ change'[c].seen = change[c].seen /\ "seen" \in DOMAIN change'[c]
  BY OnlyCounter
<1>2. Carried(c)' /\ Owns(c)'
  BY <1>1 DEF RefusalInv, Carried, Behind, Owns, Outside, Fresh
<1> QED
  BY <1>2, OwnerCarries

\* While the effects lag behind the tip it may move, and the refusals are
\* those of the last block carried.
LEMMA StaysBehind ==
  ASSUME FenceInv, FenceInv', RefusalInv, NEW c \in Changer, Owns(c),
         change[c].pc \in Behind, NEW pc \in Behind, To(c, pc),
         UNCHANGED <<gen, job, rejects>>
  PROVE  RefusalInv'
<1>1. /\ change'[c].pc = pc /\ change'[c].fatal = change[c].fatal
      /\ change'[c].seen = change[c].seen /\ "seen" \in DOMAIN change'[c]
  BY OnlyCounter
<1>2. Carried(c)' /\ Owns(c)'
  BY <1>1 DEF RefusalInv, Carried, Behind, Owns, Fresh
<1> QED
  BY <1>2, OwnerCarries

\* Refusals forgotten, or a failure remembered: nothing is left to carry.
LEMMA NothingLeft ==
  ASSUME FenceInv, FenceInv', RefusalInv, NEW c \in Changer, Owns(c), Owns(c)',
         "seen" \in DOMAIN change'[c],
         \/ change'[c].fatal
         \/ rejects' = {} /\ change'[c].pc \in {"effects", "finish"}
         \/ change'[c].pc = "imported",
         UNCHANGED <<gen, job>>
  PROVE  RefusalInv'
<1>1. rejects' = {} => \A b : Fresh(b)'
  BY DEF Fresh
<1>2. Carried(c)'
  BY <1>1 DEF Carried, Behind
<1> QED
  BY <1>2, OwnerCarries

-----------------------------------------------------------------------------
\* One step per action, first those of the walk.
LEMMA WalkCarries ==
  ASSUME FenceInv, FenceInv', RefusalInv, NEW c \in Changer,
         \/ PlanBranch(c) \/ LockBranch(c) \/ CommitWindow(c) \/ DisconnectBlock(c)
         \/ ConnectBlock(c) \/ PublishTip(c) \/ RemoveForBlock(c) \/ NotifyConnect(c)
         \/ NotifyDisconnect(c) \/ EffectsDone(c) \/ StopWalk(c) \/ RestoreBranch(c)
         \/ Fatal(c)
  PROVE  RefusalInv'
<1>1. Owns(c) => {"pc", "seen", "fatal"} \subseteq DOMAIN change[c] /\ DOMAIN change = Changer
  BY DEF FenceInv, WellFormed, Owns, Outside, RefusalInv, Carried
<1>2. CASE PlanBranch(c)
  <2>1. PICK pc \in {"wait", "settle"} :
           change' = [change EXCEPT ![c].pc = pc, ![c].origin = applied, ![c].seen = applied]
    BY <1>2, ZenonT(30) DEF PlanBranch
  <2>2. Owns(c) /\ change[c].pc = "planned" /\ UNCHANGED <<gen, job, rejects, applied>>
    BY <1>2 DEF PlanBranch, Owns, lifecycle, chainVars
  <2>3. /\ change'[c].pc = pc /\ change'[c].fatal = change[c].fatal
        /\ change'[c].seen = applied /\ "seen" \in DOMAIN change'[c]
    BY <1>1, <2>1, <2>2
  <2>4. Carried(c)' /\ Owns(c)'
    BY <2>2, <2>3 DEF RefusalInv, Carried, Behind, Owns, Fresh
  <2> QED
    BY <2>2, <2>4, OwnerCarries
<1>3. CASE LockBranch(c)
  <2>1. PICK pc \in {"settle", "walk", "planned"} : To(c, pc)
    BY <1>3, ZenonT(30) DEF LockBranch
  <2>2. Owns(c) /\ change[c].pc = "wait" /\ UNCHANGED <<gen, job, rejects, applied>>
    BY <1>3, ZenonT(30) DEF LockBranch, Owns, lifecycle, chainVars
  <2> QED
    BY <2>1, <2>2, AtRest DEF Behind, Outside
<1>4. CASE CommitWindow(c) \/ DisconnectBlock(c) \/ ConnectBlock(c)
  <2>1. /\ Owns(c) /\ change[c].pc = "walk" /\ To(c, "publish")
        /\ UNCHANGED <<gen, job, rejects, applied>>
    BY <1>4, ZenonT(30) DEF CommitWindow, DisconnectBlock, ConnectBlock, Owns, lifecycle
  <2> QED
    BY <2>1, AtRest DEF Behind, Outside
<1>5. CASE PublishTip(c)
  <2>1. Owns(c) /\ change[c].pc = "publish" /\ UNCHANGED <<gen, job, rejects>>
    BY <1>5, ZenonT(30) DEF PublishTip, Owns, lifecycle
  <2>2. CASE To(c, "effects")
    BY <2>1, <2>2, StaysBehind, ZenonT(30) DEF Behind
  <2>3. CASE UNCHANGED change
    <3>1. Carried(c)' /\ Owns(c)'
      BY <2>1, <2>3, ZenonT(30) DEF RefusalInv, Carried, Behind, Owns, Fresh
    <3> QED
      BY <2>1, <3>1, OwnerCarries, ZenonT(30)
  <2> QED
    BY <1>5, <2>2, <2>3, ZenonT(30) DEF PublishTip
<1>6. CASE RemoveForBlock(c)
  <2>1. /\ Owns(c) /\ change[c].pc = "effects" /\ To(c, "notify")
        /\ UNCHANGED <<gen, job, rejects>>
    BY <1>6, ZenonT(30) DEF RemoveForBlock, Owns, lifecycle
  <2> QED
    BY <2>1, StaysBehind DEF Behind
<1>7. CASE NotifyConnect(c)
  <2>1. PICK b : change' = [change EXCEPT ![c].pc = "effects", ![c].seen = b,
                                          ![c].regained = @ \cup Txs[b]]
    BY <1>7, ZenonT(30) DEF NotifyConnect
  <2>2. Owns(c) /\ rejects' = {} /\ UNCHANGED <<gen, job>>
    BY <1>7 DEF NotifyConnect, ChainChanged, Owns
  <2>3. change'[c].pc = "effects" /\ "seen" \in DOMAIN change'[c]
    BY <1>1, <2>1, <2>2
  <2> QED
    BY <2>2, <2>3, NothingLeft DEF Owns
<1>8. CASE NotifyDisconnect(c)
  <2>1. PICK b : change' = [change EXCEPT ![c].seen = Parent[b], ![c].undone = TRUE,
                                          ![c].dropped = @ \cup Txs[b]]
    BY <1>8, ZenonT(30) DEF NotifyDisconnect
  <2>2. Owns(c) /\ change[c].pc = "effects" /\ rejects' = {} /\ UNCHANGED <<gen, job>>
    BY <1>8 DEF NotifyDisconnect, ChainChanged, Owns
  <2>3. change'[c].pc = "effects" /\ "seen" \in DOMAIN change'[c]
    BY <1>1, <2>1, <2>2
  <2> QED
    BY <2>2, <2>3, NothingLeft DEF Owns
<1>9. CASE EffectsDone(c)
  <2>1. PICK pc \in {"finish", "walk"} : To(c, pc)
    BY <1>9 DEF EffectsDone
  <2>2. /\ Owns(c) /\ change[c].pc = "effects" /\ change[c].seen = applied
        /\ UNCHANGED <<gen, job, rejects, applied>>
    BY <1>9 DEF EffectsDone, Owns, lifecycle, chainVars
  <2>3. /\ change'[c].pc = pc /\ change'[c].fatal = change[c].fatal
        /\ change'[c].seen = change[c].seen /\ "seen" \in DOMAIN change'[c]
    BY <2>1, <2>2, OnlyCounter, ZenonT(30)
  <2>4. Carried(c)' /\ Owns(c)'
    BY <2>2, <2>3, ZenonT(30) DEF RefusalInv, Carried, Behind, Owns, Fresh
  <2> QED
    BY <2>2, <2>4, OwnerCarries
<1>10. CASE StopWalk(c)
  <2>1. /\ Owns(c) /\ change[c].pc = "walk" /\ To(c, "settle")
        /\ UNCHANGED <<gen, job, rejects, applied>>
    BY <1>10, ZenonT(30) DEF StopWalk, Owns, lifecycle, chainVars
  <2> QED
    BY <2>1, AtRest, ZenonT(30) DEF Behind, Outside
<1>11. CASE RestoreBranch(c)
  <2>1. /\ Owns(c) /\ change[c].pc = "walk" /\ UNCHANGED <<gen, job, rejects, applied>>
        /\ change' = [change EXCEPT ![c].target = change[c].origin]
    BY <1>11 DEF RestoreBranch, Owns, lifecycle, chainVars
  <2>2. /\ change'[c].pc = "walk" /\ change'[c].fatal = change[c].fatal
        /\ change'[c].seen = change[c].seen /\ "seen" \in DOMAIN change'[c]
    BY <1>1, <2>1
  <2>3. Carried(c)' /\ Owns(c)'
    BY <2>1, <2>2 DEF RefusalInv, Carried, Behind, Owns, Fresh
  <2> QED
    BY <2>1, <2>3, OwnerCarries
<1>12. CASE Fatal(c)
  <2>1. Owns(c) /\ FailClosed(c, "effects") /\ UNCHANGED <<gen, job>>
    BY <1>12 DEF Fatal, Owns
  <2>2. change'[c].pc = "effects" /\ change'[c].fatal = TRUE /\ "seen" \in DOMAIN change'[c]
    BY <1>1, <2>1 DEF FailClosed
  <2> QED
    BY <2>1, <2>2, NothingLeft DEF Owns
<1> QED
  BY <1>2, <1>3, <1>4, <1>5, <1>6, <1>7, <1>8, <1>9, <1>10, <1>11, <1>12

LEMMA SettlementCarries ==
  ASSUME FenceInv, FenceInv', RefusalInv, NEW c \in Changer,
         \/ Settle(c) \/ (\E t \in Tx : Reconsider(c, t)) \/ RemoveForReorg(c)
         \/ PlanTrim(c) \/ CommitTrim(c)
  PROVE  RefusalInv'
<1>1. Owns(c) => {"pc", "seen", "fatal"} \subseteq DOMAIN change[c] /\ DOMAIN change = Changer
  BY ZenonT(30) DEF FenceInv, WellFormed, Owns, Outside, RefusalInv, Carried
<1>2. CASE Settle(c)
  <2>1. PICK pc \in {"reconsider", "sweep", "finish"} : To(c, pc)
    BY <1>2, ZenonT(30) DEF Settle
  <2>2. Owns(c) /\ change[c].pc = "settle" /\ UNCHANGED <<gen, job, rejects, applied>>
    BY <1>2, ZenonT(30) DEF Settle, Owns, lifecycle, chainVars
  <2> QED
    BY <2>1, <2>2, AtRest, ZenonT(30) DEF Behind, Outside
<1>3. ASSUME NEW t \in Tx, Reconsider(c, t)
      PROVE  RefusalInv'
  <2>1. PICK u : change' = [change EXCEPT ![c].dropped = @ \ {t}, ![c].withheld = @ \cup u]
    BY <1>3, ZenonT(30) DEF Reconsider
  <2>2. Owns(c) /\ change[c].pc = "reconsider" /\ UNCHANGED <<gen, job, rejects, applied>>
    BY <1>3 DEF Reconsider, Owns, lifecycle, chainVars
  <2>3. /\ change'[c].pc = "reconsider" /\ change'[c].fatal = change[c].fatal
        /\ change'[c].seen = change[c].seen /\ "seen" \in DOMAIN change'[c]
    BY <1>1, <2>1, <2>2
  <2>4. Carried(c)' /\ Owns(c)'
    BY <2>2, <2>3, ZenonT(30) DEF RefusalInv, Carried, Behind, Owns, Fresh
  <2> QED
    BY <2>2, <2>4, OwnerCarries
<1>4. CASE RemoveForReorg(c)
  <2>1. PICK pc \in {"trim", "finish"} : To(c, pc)
    BY <1>4 DEF RemoveForReorg
  <2>2. /\ Owns(c) /\ change[c].pc \in {"reconsider", "sweep"}
        /\ UNCHANGED <<gen, job, rejects, applied>>
    BY <1>4 DEF RemoveForReorg, Owns, lifecycle, chainVars
  <2> QED
    BY <2>1, <2>2, AtRest, ZenonT(30) DEF Behind, Outside
<1>5. CASE PlanTrim(c)
  <2>1. PICK pc \in {"finish", "trimming"} : To(c, pc)
    BY <1>5, ZenonT(30) DEF PlanTrim
  <2>2. Owns(c) /\ change[c].pc = "trim" /\ UNCHANGED <<gen, job, rejects, applied>>
    BY <1>5 DEF PlanTrim, Owns, lifecycle, chainVars
  <2> QED
    BY <2>1, <2>2, AtRest DEF Behind, Outside
<1>6. CASE CommitTrim(c)
  <2>1. Owns(c) /\ change[c].pc = "trimming" /\ UNCHANGED <<gen, job, rejects, applied>>
    BY <1>6, ZenonT(30) DEF CommitTrim, Owns, lifecycle, chainVars
  <2>2. CASE To(c, "finish")
    BY <2>1, <2>2, AtRest DEF Behind, Outside
  <2>3. CASE FailClosed(c, "finish")
    <3>1. change'[c].pc = "finish" /\ change'[c].fatal = TRUE /\ "seen" \in DOMAIN change'[c]
      BY <1>1, <2>1, <2>3 DEF FailClosed
    <3> QED
      BY <2>1, <3>1, NothingLeft DEF Owns
  <2> QED
    BY <1>6, <2>2, <2>3 DEF CommitTrim
<1> QED
  BY <1>2, <1>3, <1>4, <1>5, <1>6

LEMMA SnapshotCarries ==
  ASSUME FenceInv, FenceInv', RefusalInv, NEW c \in Changer,
         CheckSnapshot(c) \/ InstallSnapshot(c) \/ SnapshotChanged(c)
  PROVE  RefusalInv'
<1>1. Owns(c) => {"pc", "seen", "fatal"} \subseteq DOMAIN change[c] /\ DOMAIN change = Changer
  BY DEF FenceInv, WellFormed, Owns, Outside, RefusalInv, Carried
<1>2. CASE CheckSnapshot(c)
  <2>1. PICK pc \in {"wait", "finish"} : To(c, pc)
    BY <1>2, ZenonT(30) DEF CheckSnapshot
  <2>2. Owns(c) /\ change[c].pc = "planned" /\ UNCHANGED <<gen, job, rejects, applied>>
    BY <1>2, ZenonT(30) DEF CheckSnapshot, Owns, lifecycle, chainVars
  <2> QED
    BY <2>1, <2>2, AtRest, ZenonT(30) DEF Behind, Outside
<1>3. CASE InstallSnapshot(c)
  <2>1. Owns(c) /\ change[c].pc = "wait" /\ UNCHANGED <<gen, job, rejects>>
    BY <1>3 DEF InstallSnapshot, Owns, lifecycle
  <2>2. \/ /\ change' = [change EXCEPT ![c].pc = "finish", ![c].fatal = closed]
           /\ UNCHANGED <<closed, applied>>
        \/ To(c, "imported")
        \/ FailClosed(c, "finish")
    BY <1>3, ZenonT(30) DEF InstallSnapshot, chainVars
  <2>3. ASSUME change' = [change EXCEPT ![c].pc = "finish", ![c].fatal = closed],
               UNCHANGED <<closed, applied>>
        PROVE  RefusalInv'
    <3>1. /\ change'[c].pc = "finish" /\ change'[c].fatal = closed
          /\ "seen" \in DOMAIN change'[c]
      BY <1>1, <2>1, <2>3
    <3>2. change[c].fatal => closed
      BY <2>1 DEF FenceInv
    <3>3. Carried(c)' /\ Owns(c)'
      BY <2>1, <2>3, <3>1, <3>2 DEF RefusalInv, Carried, Behind, Owns, Fresh
    <3> QED
      BY <2>1, <3>3, OwnerCarries
  <2>4. CASE To(c, "imported")
    <3>1. change'[c].pc = "imported" /\ "seen" \in DOMAIN change'[c]
      BY <2>1, <2>4, OnlyCounter
    <3> QED
      BY <2>1, <3>1, NothingLeft DEF Owns
  <2>5. CASE FailClosed(c, "finish")
    <3>1. change'[c].pc = "finish" /\ change'[c].fatal = TRUE /\ "seen" \in DOMAIN change'[c]
      BY <1>1, <2>1, <2>5 DEF FailClosed
    <3> QED
      BY <2>1, <3>1, NothingLeft DEF Owns
  <2> QED
    BY <2>2, <2>3, <2>4, <2>5
<1>4. CASE SnapshotChanged(c)
  <2>1. Owns(c) /\ To(c, "finish") /\ rejects' = {} /\ UNCHANGED <<gen, job>>
    BY <1>4 DEF SnapshotChanged, Owns
  <2>2. change'[c].pc = "finish" /\ "seen" \in DOMAIN change'[c]
    BY <2>1, OnlyCounter
  <2> QED
    BY <2>1, <2>2, NothingLeft DEF Owns
<1> QED
  BY <1>2, <1>3, <1>4

\* A change begins with the applied tip as the last block it has seen.
LEMMA FreshRecord ==
  \A pc, kind : LET r == Started(pc, kind)
               IN  r.pc = pc /\ r.seen = applied /\ "seen" \in DOMAIN r
  BY ZenonT(30) DEF Started

\* The steps that take the generation, and those outside it.
LEMMA FenceCarries ==
  ASSUME FenceInv, FenceInv', RefusalInv, NEW c \in Changer,
         \/ BeginWindow(c) \/ (\E k \in Kind : BeginChange(c, k))
         \/ LockWindow(c) \/ Release(c)
  PROVE  RefusalInv'
<1>1. CASE BeginWindow(c) /\ MayBegin
  <2>1. /\ change'[c] = Started("walk", "window") /\ gen' = gen + 1
        /\ UNCHANGED <<job, rejects, applied>>
    BY <1>1 DEF BeginWindow, FenceInv, lifecycle, chainVars
  <2>2. /\ change'[c].pc = "walk" /\ change'[c].seen = applied
        /\ "seen" \in DOMAIN change'[c]
    BY <2>1, FreshRecord
  <2> QED
    BY <1>1, <2>1, <2>2, BeginningCarries DEF Owns
<1>2. ASSUME NEW k \in Kind, BeginChange(c, k)
      PROVE  RefusalInv'
  <2>1. PICK b \in Block :
           change' = [change EXCEPT ![c] = [Started("planned", k) EXCEPT !.target = b]]
    BY <1>2, ZenonT(30) DEF BeginChange
  <2>2. MayBegin /\ gen' = gen + 1 /\ UNCHANGED <<job, rejects, applied>>
    BY <1>2 DEF BeginChange, lifecycle, chainVars
  <2>3. change'[c] = [Started("planned", k) EXCEPT !.target = b]
    BY <2>1 DEF FenceInv
  <2>4. /\ change'[c].pc = "planned" /\ change'[c].seen = applied
        /\ "seen" \in DOMAIN change'[c]
    BY <2>3 DEF Started
  <2> QED
    BY <2>2, <2>4, BeginningCarries, ZenonT(30) DEF Owns
<1>3. CASE LockWindow(c) \/ Release(c) \/ (BeginWindow(c) /\ ~MayBegin)
  <2>1. /\ Alone(c) /\ change'[c] \in {[pc |-> "locked"], NoChange}
        /\ UNCHANGED <<gen, job, rejects, applied>>
    BY <1>3, ZenonT(30) DEF LockWindow, Release, BeginWindow, FenceInv, Alone, lifecycle, chainVars
  <2>2. ~Owns(c)'
    BY <2>1 DEF NoChange, Owns
  <2> QED
    BY <2>1, <2>2, OutsiderCarries
<1> QED
  BY <1>1, <1>2, <1>3

-----------------------------------------------------------------------------
\* A step of one submission: its judgement is of the standing tip, and it
\* adds a refusal only while admission is open.
LEMMA OneJudges ==
  ASSUME FenceInv, RefusalInv, NEW j \in Job,
         DOMAIN job' = Job, \A i \in Job \ {j} : job'[i] = job[i],
         job'[j].pc \in JobPc, Judged(job'[j]), UNCHANGED <<gen, applied, change>>,
         \/ rejects' \subseteq rejects
         \/ /\ Even(gen)
            /\ \A t \in Tx : <<t, "nonfinal">> \in rejects' \ rejects => ~Final(t, applied)
  PROVE  RefusalInv'
<1>1. (\A i \in Job : job[i].pc \in JobPc /\ Judged(job[i]))'
  BY ZenonT(30) DEF RefusalInv, Judged
<1>2. Even(gen) => \A c \in Changer : ~Owns(c) /\ ~Owns(c)'
  BY ZenonT(30) DEF FenceInv, FenceIsOwned, Owns
<1>3. (\A c \in Changer : Carried(c))'
  <2>1. CASE Even(gen)
    BY <1>2, <2>1 DEF Carried
  <2>2. CASE rejects' \subseteq rejects
    BY <2>2 DEF RefusalInv, Carried, Owns, Fresh
  <2> QED
    BY <2>1, <2>2, ZenonT(30)
<1>4. RefusalsAreCurrent'
  BY DEF RefusalInv, RefusalsAreCurrent
<1> QED
  BY <1>1, <1>3, <1>4, ZenonT(30) DEF RefusalInv

\* A submission that starts again, or is over, has judged nothing.
LEMMA NothingJudged ==
  ASSUME FenceInv, RefusalInv, NEW j \in Job, Retry(j) \/ Return(j),
         UNCHANGED <<gen, applied, change>>,
         \/ rejects' \subseteq rejects
         \/ /\ Even(gen)
            /\ \A t \in Tx : <<t, "nonfinal">> \in rejects' \ rejects => ~Final(t, applied)
  PROVE  RefusalInv'
<1>1. DOMAIN job = Job
  BY DEF RefusalInv
<1>2. /\ DOMAIN job' = Job
      /\ \A i \in Job \ {j} : job'[i] = job[i]
      /\ \/ job'[j] = NoJob
         \/ job'[j] = [Begun(job[j].tx, job[j].claim) EXCEPT !.tries = job[j].tries - 1]
  BY <1>1 DEF Retry, Return
<1>3. "pc" \in DOMAIN job'[j] /\ job'[j].pc \in {"idle", "start"}
  BY <1>2 DEF NoJob, Begun
<1>4. job'[j].pc \in JobPc /\ Judged(job'[j])
  BY <1>3 DEF JobPc, Judged
<1> QED
  BY <1>2, <1>4, OneJudges

\* The locks are judged against the tip that is read, which is the applied
\* one for as long as the captured generation stands.
LEMMA JobCarries ==
  ASSUME FenceInv, RefusalInv, NEW j \in Job, JobStep(j)
  PROVE  RefusalInv'
<1>1. /\ DOMAIN job = Job /\ job[j].pc \in JobPc /\ Judged(job[j]) /\ gen \in Nat
      /\ UNCHANGED <<gen, applied, change>>
  BY DEF RefusalInv, FenceInv, JobStep, Capture, ReadTip, ReadCoins, AlreadyConfirmed,
         Prepare, Commit, chainVars
<1>2. ASSUME Retry(j)
      PROVE  RefusalInv'
  BY <1>1, <1>2, NothingJudged DEF Retry, lifecycle
<1>3. CASE Capture(j)
  <2>1. CASE Return(j) /\ UNCHANGED lifecycle
    BY <1>1, <2>1, NothingJudged DEF lifecycle
  <2>2. CASE /\ job' = [job EXCEPT ![j] =
                  [pc |-> "captured", tx |-> job[j].tx, claim |-> @.claim, tries |-> @.tries,
                   gen |-> gen, found |-> Inputs[job[j].tx] \cap pool]]
             /\ UNCHANGED lifecycle
    <3>1. /\ DOMAIN job' = Job /\ \A i \in Job \ {j} : job'[i] = job[i]
          /\ "pc" \in DOMAIN job'[j] /\ job'[j].pc = "captured" /\ job'[j].gen = gen
      BY <1>1, <2>2
    <3>2. job'[j].pc \in JobPc /\ Judged(job'[j])
      BY <1>1, <3>1 DEF JobPc, Judged
    <3> QED
      BY <1>1, <2>2, <3>1, <3>2, OneJudges, ZenonT(30) DEF lifecycle
  <2> QED
    BY <1>2, <1>3, <2>1, <2>2 DEF Capture
<1>4. CASE ReadTip(j)
  <2>1. /\ DOMAIN job' = Job /\ \A i \in Job \ {j} : job'[i] = job[i]
        /\ job'[j] = [pc |-> "tip", tx |-> job[j].tx, claim |-> job[j].claim,
                       tries |-> job[j].tries, gen |-> job[j].gen, found |-> job[j].found,
                       final |-> Final(job[j].tx, applied)]
        /\ rejects' = rejects
    BY <1>1, <1>4, ZenonT(30) DEF ReadTip, lifecycle
  <2>2. /\ {"pc", "tx", "gen", "final"} \subseteq DOMAIN job'[j]
        /\ job'[j].pc = "tip" /\ job'[j].gen = job[j].gen /\ job'[j].tx = job[j].tx
        /\ job'[j].final = Final(job[j].tx, applied)
    BY <2>1
  <2>3. job[j].gen \in Nat /\ job[j].gen <= gen
    BY <1>1, <1>4 DEF Judged, ReadTip
  <2>4. job'[j].pc \in JobPc /\ Judged(job'[j])
    BY <2>2, <2>3 DEF JobPc, Judged
  <2> QED
    BY <1>1, <2>1, <2>4, OneJudges, ZenonT(30)
<1>5. CASE ReadCoins(j)
  <2>1. PICK pc \in {"confirmed", "read"} :
           \E f : job' = [job EXCEPT ![j].pc = pc, ![j].found = f]
    BY <1>5, ZenonT(30) DEF ReadCoins
  <2>2. PICK f : job' = [job EXCEPT ![j].pc = pc, ![j].found = f]
    BY <2>1
  <2>3. /\ job[j].pc = "tip" /\ rejects' = rejects
        /\ {"pc", "tx", "gen", "final"} \subseteq DOMAIN job[j]
    BY <1>1, <1>5 DEF ReadCoins, Judged, lifecycle
  <2>4. /\ DOMAIN job' = Job /\ \A i \in Job \ {j} : job'[i] = job[i]
        /\ DOMAIN job'[j] = DOMAIN job[j] /\ job'[j].pc = pc /\ job'[j].gen = job[j].gen
        /\ job'[j].tx = job[j].tx /\ job'[j].final = job[j].final
    BY <1>1, <2>2, <2>3
  <2>5. job'[j].pc \in JobPc /\ Judged(job'[j])
    BY <1>1, <2>3, <2>4, SMTT(30) DEF JobPc, Judged
  <2> QED
    BY <1>1, <2>3, <2>4, <2>5, OneJudges
<1>6. CASE AlreadyConfirmed(j)
  <2>1. CASE Return(j) /\ UNCHANGED rejects
    BY <1>1, <2>1, NothingJudged
  <2> QED
    BY <1>2, <1>6, <2>1, ZenonT(30) DEF AlreadyConfirmed
<1>7. CASE Prepare(j)
  <2>1. ASSUME NEW v \in Verdicts(j), UNCHANGED lifecycle,
               job' = [job EXCEPT ![j] =
                  [pc |-> "prepared", tx |-> @.tx, claim |-> @.claim, tries |-> @.tries,
                   gen |-> @.gen, verdict |-> v]]
        PROVE  RefusalInv'
    <3>1. /\ DOMAIN job' = Job /\ \A i \in Job \ {j} : job'[i] = job[i]
          /\ "pc" \in DOMAIN job'[j] /\ job'[j].pc = "prepared"
          /\ job'[j].gen = job[j].gen /\ job'[j].tx = job[j].tx /\ job'[j].verdict = v
      BY <1>1, <2>1
    <3>2. v = "nonfinal" => ~job[j].final
      BY <2>1 DEF Verdicts
    <3>3. job[j].pc = "read"
      BY <1>7, ZenonT(30) DEF Prepare
    <3>4. job'[j].pc \in JobPc /\ Judged(job'[j])
      BY <1>1, <3>1, <3>2, <3>3, ZenonT(30) DEF JobPc, Judged
    <3> QED
      BY <1>1, <2>1, <3>1, <3>4, OneJudges DEF lifecycle
  <2> QED
    BY <1>2, <1>7, <2>1 DEF Prepare
<1>8. CASE Commit(j)
  <2>1. ASSUME Current(j), Return(j), job[j].verdict # "ok", Refuse(j)
        PROVE  RefusalInv'
    <3>1. rejects' \subseteq rejects \cup {<<job[j].tx, job[j].verdict>>}
      BY <2>1, ZenonT(30) DEF Refuse, lifecycle
    <3>2. job[j].verdict = "nonfinal" => ~Final(job[j].tx, applied)
      BY <1>1, <1>8, <2>1, ZenonT(30) DEF Commit, Current, Judged
    <3>3. \A t \in Tx : <<t, "nonfinal">> \in rejects' \ rejects => ~Final(t, applied)
      BY <3>1, <3>2
    <3> QED
      BY <1>1, <2>1, <3>3, NothingJudged, ZenonT(30) DEF Current
  <2>2. ASSUME Return(j), UNCHANGED rejects
        PROVE  RefusalInv'
    BY <1>1, <2>2, NothingJudged
  <2> QED
    BY <1>2, <1>8, <2>1, <2>2, ZenonT(30) DEF Commit, Accept, lifecycle
<1> QED
  BY <1>3, <1>4, <1>5, <1>6, <1>7, <1>8 DEF JobStep

\* A submission begins, an orphan goes or is claimed, a fee is changed.
LEMMA OtherCarries ==
  ASSUME FenceInv, RefusalInv,
         \/ \E j \in Job, t \in Tx : Submit(j, t)
         \/ \E t \in Tx : Maintain(t)
         \/ RetryPass
         \/ Prioritise
  PROVE  RefusalInv'
<1>1. DOMAIN job = Job /\ Ingress \in Job
  BY DEF RefusalInv, Job
<1>2. ASSUME NEW j \in Job, NEW t \in Tx, NEW held, job' = [job EXCEPT ![j] = Begun(t, held)],
             UNCHANGED <<gen, applied, change, rejects>>
      PROVE  RefusalInv'
  <2>1. /\ DOMAIN job' = Job /\ \A i \in Job \ {j} : job'[i] = job[i]
        /\ job'[j] = Begun(t, held)
    BY <1>1, <1>2, ZenonT(30)
  <2>2. job'[j].pc \in JobPc /\ Judged(job'[j])
    BY <2>1, SMTT(30) DEF Begun, JobPc, Judged
  <2> QED
    BY <1>2, <2>1, <2>2, OneJudges
<1>3. ASSUME rejects' \subseteq rejects, UNCHANGED <<gen, applied, change, job>>
      PROVE  RefusalInv'
  <2>1. job[Ingress].pc \in JobPc /\ Judged(job[Ingress])
    BY <1>1 DEF RefusalInv
  <2> QED
    BY <1>1, <1>3, <2>1, OneJudges
<1>4. ASSUME NEW j \in Job, NEW t \in Tx, Submit(j, t)
      PROVE  RefusalInv'
  BY <1>2, <1>4, ZenonT(30) DEF Submit, lifecycle, chainVars
<1>5. CASE (\E t \in Tx : Maintain(t)) \/ TakeReady \/ Prioritise
  BY <1>3, <1>5, ZenonT(30) DEF Maintain, TakeReady, Prioritise, chainVars
<1>6. ASSUME NEW t \in Tx, RetryOrphan(t)
      PROVE  RefusalInv'
  <2>1. UNCHANGED <<gen, applied, change, rejects>>
    BY <1>6 DEF RetryOrphan, lifecycle, chainVars
  <2>2. job' = [job EXCEPT ![Ingress] = Begun(t, TRUE)] \/ job' = job
    BY <1>6 DEF RetryOrphan
  <2> QED
    BY <1>1, <1>2, <1>3, <2>1, <2>2, ZenonT(30)
<1> QED
  BY <1>4, <1>5, <1>6 DEF RetryPass

-----------------------------------------------------------------------------
\* The invariant holds of every behaviour, given that of the fence.
THEOREM RefusalInvariance == Spec => []RefusalInv
<1>1. Init => RefusalInv
  <2> SUFFICES ASSUME Init PROVE RefusalInv
    OBVIOUS
  <2>1. /\ \A j \in Job : job[j] = [pc |-> "idle"]
        /\ \A c \in Changer : change[c] = [pc |-> "idle"]
        /\ DOMAIN job = Job /\ rejects = {}
    BY DEF Init, NoJob, NoChange
  <2>2. \A j \in Job : job[j].pc \in JobPc /\ Judged(job[j])
    BY <2>1 DEF JobPc, Judged
  <2>3. \A c \in Changer : Carried(c)
    BY <2>1 DEF Carried, Owns
  <2> QED
    BY <2>1, <2>2, <2>3, ZenonT(30) DEF RefusalInv, RefusalsAreCurrent
<1>2. FenceInv /\ FenceInv' /\ RefusalInv /\ [Next]_vars => RefusalInv'
  <2> SUFFICES ASSUME FenceInv, FenceInv', RefusalInv, [Next]_vars PROVE RefusalInv'
    OBVIOUS
  <2>1. CASE UNCHANGED vars
    <3>1. UNCHANGED <<gen, rejects, applied, change, job>>
      BY <2>1 DEF vars, lifecycle, chainVars
    <3> QED
      BY <3>1, ZenonT(30) DEF RefusalInv, Judged, Carried, Owns, Fresh, RefusalsAreCurrent
  <2>2. ASSUME NEW c \in Changer, ChangeStep(c)
        PROVE  RefusalInv'
    BY <2>2, FenceCarries, WalkCarries, SettlementCarries, SnapshotCarries, EndCarries
       DEF ChangeStep
  <2> QED
    BY <2>1, <2>2, FenceCarries, JobCarries, OtherCarries DEF Next
<1> QED
  BY <1>1, <1>2, FenceInvariance, PTL DEF Spec

\* While admission is open no transaction is turned away as not final that
\* the applied tip makes final: not by a submission that judged it against an
\* older tip, and not after a chain change of any kind (chain_changed,
\* snapshot_changed, clear_rejects).
THEOREM NoStaleRefusal == Spec => []RefusalsAreCurrent
<1>1. RefusalInv => RefusalsAreCurrent
  BY DEF RefusalInv
<1> QED
  BY <1>1, RefusalInvariance, PTL
=============================================================================
