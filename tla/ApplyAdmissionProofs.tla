------------------------ MODULE ApplyAdmissionProofs ------------------------
(***************************************************************************)
(* For any number of threads in any roles, and any number of hooks: the    *)
(* admission gate excludes what it is there to exclude, and a cancellation *)
(* hook runs at most once.                                                 *)
(***************************************************************************)
EXTENDS ApplyAdmission, TLAPS

(* The program counters a role can have. *)
RolePcs ==
    \A t \in GateThread :
        /\ Enters(t) => gtPc[t] \in {"start", "read", "entered", "lock", "locked", "holding",
                                     "close", "hooks", "unlock", "leave", "done"}
        /\ gtRole[t] = "install" => gtPc[t] # "locked"
        /\ gtRole[t] = "stable" => gtPc[t] \in {"lock", "holding", "unlock", "done"}
        /\ gtRole[t] = "publish" => gtPc[t] \in {"claim", "drain", "paused", "check",
                                                 "publishing", "unlock", "leave", "done"}
        /\ gtRole[t] = "close" => gtPc[t] \in {"close", "hooks", "claim", "drain", "closed",
                                               "done"}
        /\ gtRole[t] = "recover" => gtPc[t] \in {"close", "hooks", "done"}

(* The barrier, the transition mutex and the publication mutex exclude.      *)
LocksExclude ==
    \A t, u \in GateThread :
        /\ HasTransition(t) /\ HasTransition(u) => t = u
        /\ HasClaim(t) /\ HasClaim(u) => t = u
        /\ HasPublication(t) => HasClaim(t)
        /\ HasClaim(t) /\ gtPc[t] # "drain" => ~HasRead(u)

(* A failure not yet followed by the trigger has its thread on the way to    *)
(* it, the barrier and the transition mutex still held.                      *)
FailureLatches ==
    gtFailed => gtShut \/ \E t \in GateThread : Enters(t) /\ gtPc[t] = "close"

ClosedIsShut ==
    \A t \in GateThread :
        gtRole[t] = "close" /\ gtPc[t] # "close" => gtShut

GateInv ==
    GateTypeOK /\ RolePcs /\ LocksExclude /\ FailureLatches /\ ClosedIsShut /\ GateExcludes

(* Every role is one of the six. *)
LEMMA Roles ==
    ASSUME GateTypeOK, NEW t \in GateThread
    PROVE  gtRole[t] \in {"transition", "install", "stable", "publish", "close", "recover"}
  BY GateAssumption DEF GateTypeOK

(* The gate starts with every thread before its first step. *)
LEMMA GateInvInit == GateInit => GateInv
  <1> SUFFICES ASSUME GateInit PROVE GateInv
    OBVIOUS
  <1>1. gtRole \in [GateThread ->
            {"transition", "install", "stable", "publish", "close", "recover"}]
    BY GateAssumption DEF GateInit
  <1>2. \A t \in GateThread :
            gtPc[t] = IF Enters(t) THEN "start"
                      ELSE IF gtRole[t] = "stable" THEN "lock"
                      ELSE IF gtRole[t] = "publish" THEN "claim" ELSE "close"
    BY <1>1 DEF GateInit, First, Enters
  <1>3. GateTypeOK
    BY <1>1, <1>2 DEF GateInit, GateTypeOK, Enters, First
  <1>4. RolePcs /\ LocksExclude /\ ClosedIsShut /\ GateExcludes
    BY <1>1, <1>2 DEF GateInit, RolePcs, LocksExclude, ClosedIsShut, GateExcludes, Enters,
       HasTransition, HasClaim, HasPublication, HasRead, Changing
  <1>5. FailureLatches
    BY DEF GateInit, FailureLatches
  <1> QED
    BY <1>3, <1>4, <1>5 DEF GateInv

(* The step of a thread changes the program counter of that thread only, so  *)
(* every clause of the invariant is looked at for that thread and another.   *)
LEMMA ThreadStep ==
    ASSUME GateInv, NEW t \in GateThread, GateStep(t) \/ fail_closed_for_recovery(t)
    PROVE  GateInv'
  <1> USE DEF GateInv, Enters
  <1> DEFINE Locks == RolePcs' /\ LocksExclude' /\ ClosedIsShut' /\ GateExcludes'
  <1>r. \A u \in GateThread :
            gtRole[u] \in {"transition", "install", "stable", "publish", "close", "recover"}
    BY Roles
  <1>1. CASE EnterChecks(t)
    <2>1. GateTypeOK'
      BY <1>1, <1>r DEF EnterChecks, ensure_open, Go2, Quiet, GateTypeOK
    <2>2. Locks
      BY <1>1, <1>r, SMTT(60) DEF EnterChecks, ensure_open, Go2, Quiet, GateTypeOK,
         RolePcs, LocksExclude, ClosedIsShut, FailureLatches, GateExcludes,
         HasTransition, HasClaim, HasPublication, HasRead, Changing
    <2>3. FailureLatches'
      BY <1>1, <1>r DEF EnterChecks, ensure_open, Go2, Quiet, GateTypeOK, FailureLatches
    <2> QED
      BY <2>1, <2>2, <2>3
  <1>2. CASE EnterBarrier(t)
    <2>1. GateTypeOK'
      BY <1>2, <1>r DEF EnterBarrier, Nobody, Go2, Quiet, GateTypeOK
    <2>2. Locks
      BY <1>2, <1>r, SMTT(60) DEF EnterBarrier, Nobody, Go2, Quiet, GateTypeOK,
         RolePcs, LocksExclude, ClosedIsShut, FailureLatches, GateExcludes,
         HasTransition, HasClaim, HasPublication, HasRead, Changing
    <2>3. FailureLatches'
      BY <1>2, <1>r DEF EnterBarrier, Nobody, Go2, Quiet, GateTypeOK, FailureLatches
    <2> QED
      BY <2>1, <2>2, <2>3
  <1>3. CASE EnterChecksAgain(t)
    <2>1. GateTypeOK'
      BY <1>3, <1>r DEF EnterChecksAgain, ensure_open, Go2, Quiet, GateTypeOK
    <2>2. Locks
      BY <1>3, <1>r, SMTT(60) DEF EnterChecksAgain, ensure_open, Go2, Quiet, GateTypeOK,
         RolePcs, LocksExclude, ClosedIsShut, FailureLatches, GateExcludes,
         HasTransition, HasClaim, HasPublication, HasRead, Changing
    <2>3. FailureLatches'
      BY <1>3, <1>r DEF EnterChecksAgain, ensure_open, Go2, Quiet, GateTypeOK, FailureLatches
    <2> QED
      BY <2>1, <2>2, <2>3
  <1>4. CASE LockTransition(t)
    <2>1. GateTypeOK'
      BY <1>4, <1>r DEF LockTransition, Nobody, Go2, Quiet, GateTypeOK
    <2>2. Locks
      BY <1>4, <1>r, SMTT(60) DEF LockTransition, Nobody, Go2, Quiet, GateTypeOK,
         RolePcs, LocksExclude, ClosedIsShut, FailureLatches, GateExcludes,
         HasTransition, HasClaim, HasPublication, HasRead, Changing
    <2>3. FailureLatches'
      BY <1>4, <1>r DEF LockTransition, Nobody, Go2, Quiet, GateTypeOK, FailureLatches
    <2> QED
      BY <2>1, <2>2, <2>3
  <1>5. CASE begin_chain_transition(t)
    <2>1. GateTypeOK'
      BY <1>5, <1>r DEF begin_chain_transition, ensure_open, Go2, Quiet, GateTypeOK
    <2>2. Locks
      BY <1>5, <1>r, SMTT(60) DEF begin_chain_transition, ensure_open, Go2, Quiet, GateTypeOK,
         RolePcs, LocksExclude, ClosedIsShut, FailureLatches, GateExcludes,
         HasTransition, HasClaim, HasPublication, HasRead, Changing
    <2>3. FailureLatches'
      BY <1>5, <1>r DEF begin_chain_transition, ensure_open, Go2, Quiet, GateTypeOK, FailureLatches
    <2> QED
      BY <2>1, <2>2, <2>3
  <1>6. CASE Finish(t)
    <2>1. GateTypeOK'
      BY <1>6, <1>r DEF Finish, Go2, Quiet, GateTypeOK
    <2>2. Locks
      BY <1>6, <1>r, SMTT(60) DEF Finish, Go2, Quiet, GateTypeOK,
         RolePcs, LocksExclude, ClosedIsShut, FailureLatches, GateExcludes,
         HasTransition, HasClaim, HasPublication, HasRead, Changing
    <2>3. FailureLatches'
      BY <1>6, <1>r DEF Finish, Go2, Quiet, GateTypeOK, FailureLatches
    <2> QED
      BY <2>1, <2>2, <2>3
  <1>7. CASE Unlock(t)
    <2>1. GateTypeOK'
      BY <1>7, <1>r DEF Unlock, Go2, Quiet, GateTypeOK
    <2>2. Locks
      BY <1>7, <1>r, SMTT(60) DEF Unlock, Go2, Quiet, GateTypeOK,
         RolePcs, LocksExclude, ClosedIsShut, FailureLatches, GateExcludes,
         HasTransition, HasClaim, HasPublication, HasRead, Changing
    <2>3. FailureLatches'
      BY <1>7, <1>r DEF Unlock, Go2, Quiet, GateTypeOK, FailureLatches
    <2> QED
      BY <2>1, <2>2, <2>3
  <1>8. CASE Leave(t)
    <2>1. GateTypeOK'
      BY <1>8, <1>r DEF Leave, Go2, Quiet, GateTypeOK
    <2>2. Locks
      BY <1>8, <1>r, SMTT(60) DEF Leave, Go2, Quiet, GateTypeOK,
         RolePcs, LocksExclude, ClosedIsShut, FailureLatches, GateExcludes,
         HasTransition, HasClaim, HasPublication, HasRead, Changing
    <2>3. FailureLatches'
      BY <1>8, <1>r DEF Leave, Go2, Quiet, GateTypeOK, FailureLatches
    <2> QED
      BY <2>1, <2>2, <2>3
  <1>9. CASE close_permanently(t)
    <2>1. GateTypeOK'
      BY <1>9, <1>r DEF close_permanently, Nobody, Go2, AfterClose, Armed, GateTypeOK
    <2>2. Locks
      BY <1>9, <1>r, SMTT(60) DEF close_permanently, Nobody, Go2, AfterClose, Armed, GateTypeOK,
         RolePcs, LocksExclude, ClosedIsShut, FailureLatches, GateExcludes,
         HasTransition, HasClaim, HasPublication, HasRead, Changing
    <2>3. FailureLatches'
      BY <1>9, <1>r DEF close_permanently, Nobody, Go2, AfterClose, Armed, GateTypeOK, FailureLatches
    <2> QED
      BY <2>1, <2>2, <2>3
  <1>10. CASE RunHook(t)
    <2>1. GateTypeOK'
      BY <1>10, <1>r DEF RunHook, GateTypeOK
    <2>2. Locks
      BY <1>10, <1>r, SMTT(60) DEF RunHook, GateTypeOK,
         RolePcs, LocksExclude, ClosedIsShut, FailureLatches, GateExcludes,
         HasTransition, HasClaim, HasPublication, HasRead, Changing
    <2>3. FailureLatches'
      BY <1>10, <1>r DEF RunHook, GateTypeOK, FailureLatches
    <2> QED
      BY <2>1, <2>2, <2>3
  <1>11. CASE HooksDone(t)
    <2>1. GateTypeOK'
      BY <1>11, <1>r DEF HooksDone, Go2, Quiet, AfterClose, GateTypeOK
    <2>2. Locks
      BY <1>11, <1>r, SMTT(60) DEF HooksDone, Go2, Quiet, AfterClose, GateTypeOK,
         RolePcs, LocksExclude, ClosedIsShut, FailureLatches, GateExcludes,
         HasTransition, HasClaim, HasPublication, HasRead, Changing
    <2>3. FailureLatches'
      BY <1>11, <1>r DEF HooksDone, Go2, Quiet, AfterClose, GateTypeOK, FailureLatches
    <2> QED
      BY <2>1, <2>2, <2>3
  <1>12. CASE ClaimBarrier(t)
    <2>1. GateTypeOK'
      BY <1>12, <1>r DEF ClaimBarrier, Nobody, Go2, Quiet, GateTypeOK
    <2>2. Locks
      BY <1>12, <1>r, SMTT(60) DEF ClaimBarrier, Nobody, Go2, Quiet, GateTypeOK,
         RolePcs, LocksExclude, ClosedIsShut, FailureLatches, GateExcludes,
         HasTransition, HasClaim, HasPublication, HasRead, Changing
    <2>3. FailureLatches'
      BY <1>12, <1>r DEF ClaimBarrier, Nobody, Go2, Quiet, GateTypeOK, FailureLatches
    <2> QED
      BY <2>1, <2>2, <2>3
  <1>13. CASE DrainReaders(t)
    <2>1. GateTypeOK'
      BY <1>13, <1>r DEF DrainReaders, Nobody, Go2, Quiet, GateTypeOK
    <2>2. Locks
      BY <1>13, <1>r, SMTT(60) DEF DrainReaders, Nobody, Go2, Quiet, GateTypeOK,
         RolePcs, LocksExclude, ClosedIsShut, FailureLatches, GateExcludes,
         HasTransition, HasClaim, HasPublication, HasRead, Changing
    <2>3. FailureLatches'
      BY <1>13, <1>r DEF DrainReaders, Nobody, Go2, Quiet, GateTypeOK, FailureLatches
    <2> QED
      BY <2>1, <2>2, <2>3
  <1>14. CASE LockPublication(t)
    <2>1. GateTypeOK'
      BY <1>14, <1>r DEF LockPublication, Nobody, Go2, Quiet, GateTypeOK
    <2>2. Locks
      BY <1>14, <1>r, SMTT(60) DEF LockPublication, Nobody, Go2, Quiet, GateTypeOK,
         RolePcs, LocksExclude, ClosedIsShut, FailureLatches, GateExcludes,
         HasTransition, HasClaim, HasPublication, HasRead, Changing
    <2>3. FailureLatches'
      BY <1>14, <1>r DEF LockPublication, Nobody, Go2, Quiet, GateTypeOK, FailureLatches
    <2> QED
      BY <2>1, <2>2, <2>3
  <1>15. CASE publish_transaction(t)
    <2>1. GateTypeOK'
      BY <1>15, <1>r DEF publish_transaction, ensure_open, Go2, Quiet, GateTypeOK
    <2>2. Locks
      BY <1>15, <1>r, SMTT(60) DEF publish_transaction, ensure_open, Go2, Quiet, GateTypeOK,
         RolePcs, LocksExclude, ClosedIsShut, FailureLatches, GateExcludes,
         HasTransition, HasClaim, HasPublication, HasRead, Changing
    <2>3. FailureLatches'
      BY <1>15, <1>r DEF publish_transaction, ensure_open, Go2, Quiet, GateTypeOK, FailureLatches
    <2> QED
      BY <2>1, <2>2, <2>3
  <1>16. CASE Published(t)
    <2>1. GateTypeOK'
      BY <1>16, <1>r DEF Published, Go2, Quiet, GateTypeOK
    <2>2. Locks
      BY <1>16, <1>r, SMTT(60) DEF Published, Go2, Quiet, GateTypeOK,
         RolePcs, LocksExclude, ClosedIsShut, FailureLatches, GateExcludes,
         HasTransition, HasClaim, HasPublication, HasRead, Changing
    <2>3. FailureLatches'
      BY <1>16, <1>r DEF Published, Go2, Quiet, GateTypeOK, FailureLatches
    <2> QED
      BY <2>1, <2>2, <2>3
  <1>17. CASE DropAdmissionGuard(t)
    <2>1. GateTypeOK'
      BY <1>17, <1>r DEF DropAdmissionGuard, Go2, Quiet, GateTypeOK
    <2>2. Locks
      BY <1>17, <1>r, SMTT(60) DEF DropAdmissionGuard, Go2, Quiet, GateTypeOK,
         RolePcs, LocksExclude, ClosedIsShut, FailureLatches, GateExcludes,
         HasTransition, HasClaim, HasPublication, HasRead, Changing
    <2>3. FailureLatches'
      BY <1>17, <1>r DEF DropAdmissionGuard, Go2, Quiet, GateTypeOK, FailureLatches
    <2> QED
      BY <2>1, <2>2, <2>3
  <1>18. CASE fail_closed_for_recovery(t)
    <2>1. GateTypeOK'
      BY <1>18, <1>r DEF fail_closed_for_recovery, Go2, GateTypeOK
    <2>2. Locks
      BY <1>18, <1>r, SMTT(60) DEF fail_closed_for_recovery, Go2, GateTypeOK,
         RolePcs, LocksExclude, ClosedIsShut, FailureLatches, GateExcludes,
         HasTransition, HasClaim, HasPublication, HasRead, Changing
    <2>3. FailureLatches'
      BY <1>18, <1>r DEF fail_closed_for_recovery, Go2, GateTypeOK, FailureLatches
    <2> QED
      BY <2>1, <2>2, <2>3
  <1> QED
    BY <1>1, <1>2, <1>3, <1>4, <1>5, <1>6, <1>7, <1>8, <1>9, <1>10, <1>11, <1>12, <1>13, <1>14, <1>15, <1>16, <1>17, <1>18 DEF GateStep

(* A step of a hook touches no lock and not the latch. *)
LEMMA HookStepKeepsGate ==
    ASSUME GateInv, NEW h \in GateHook, HookStep(h) \/ remove_hook(h)
    PROVE  GateInv'
  <1> USE DEF GateInv
  <1>1. /\ GateTypeOK'
        /\ UNCHANGED <<gtRole, gtPc, gtShut, gtFailed>>
    BY DEF GateTypeOK, HookStep, on_cancel, register_hook, remove_hook, RunInline
  <1>2. RolePcs' /\ LocksExclude' /\ ClosedIsShut' /\ GateExcludes' /\ FailureLatches'
    BY <1>1 DEF RolePcs, LocksExclude, ClosedIsShut, FailureLatches, GateExcludes, Enters,
       HasTransition, HasClaim, HasPublication, HasRead, Changing
  <1> QED
    BY <1>1, <1>2

(* The invariant is inductive. *)
LEMMA GateInvStep == GateInv /\ [GateNext]_gateVars => GateInv'
  <1> SUFFICES ASSUME GateInv, [GateNext]_gateVars PROVE GateInv'
    OBVIOUS
  <1>1. CASE \E t \in GateThread : GateStep(t) \/ fail_closed_for_recovery(t)
    BY <1>1, ThreadStep
  <1>2. CASE \E h \in GateHook : HookStep(h) \/ remove_hook(h)
    BY <1>2, HookStepKeepsGate
  <1>3. CASE UNCHANGED gateVars
    BY <1>3 DEF gateVars, GateInv, GateTypeOK, RolePcs, LocksExclude, ClosedIsShut,
       FailureLatches, GateExcludes, Enters, HasTransition, HasClaim, HasPublication, HasRead,
       Changing
  <1> QED
    BY <1>1, <1>2, <1>3 DEF GateNext

(* Whatever the interleaving, a failure, a close and a publication exclude   *)
(* what ApplyAdmission is there to keep out.                                 *)
THEOREM GateIsExclusive == GateSpec => []GateExcludes
  <1>1. GateInv => GateExcludes
    BY DEF GateInv
  <1> QED
    BY <1>1, GateInvInit, GateInvStep, PTL DEF GateSpec
-----------------------------------------------------------------------------
(* Hooks *)

HookInv ==
    /\ ~gtShut => gtTaken = {}
    /\ \A h \in gtTaken : gtHook[h] = "taken"
    /\ \A h \in GateHook :
          gtRuns[h] = IF gtHook[h] = "inert" \/ (gtHook[h] = "taken" /\ h \notin gtTaken)
                      THEN 1 ELSE 0

(* A taken hook is run by the thread that triggered the latch, a late one by *)
(* its own thread, and no hook is both.                                      *)
LEMMA HookInvStep == GateTypeOK /\ HookInv /\ [GateNext]_gateVars => HookInv'
  <1> SUFFICES ASSUME GateTypeOK, HookInv, [GateNext]_gateVars PROVE HookInv'
    OBVIOUS
  <1> USE DEF HookInv, GateTypeOK
  <1>1. ASSUME NEW t \in GateThread, close_permanently(t) PROVE HookInv'
    BY <1>1 DEF close_permanently, Armed
  <1>2. ASSUME NEW t \in GateThread, RunHook(t) PROVE HookInv'
    BY <1>2 DEF RunHook
  <1>3. ASSUME NEW t \in GateThread, GateStep(t) \/ fail_closed_for_recovery(t),
               ~close_permanently(t), ~RunHook(t)
        PROVE  HookInv'
    <2>1. UNCHANGED <<gtShut, gtHook, gtTaken, gtRuns>>
      BY <1>3 DEF GateStep, fail_closed_for_recovery, EnterChecks, EnterBarrier,
         EnterChecksAgain, LockTransition, begin_chain_transition, Finish, Unlock, Leave,
         HooksDone, ClaimBarrier, DrainReaders, LockPublication, publish_transaction, Published,
         DropAdmissionGuard, Quiet
    <2> QED
      BY <2>1
  <1>4. ASSUME NEW h \in GateHook, HookStep(h) \/ remove_hook(h) PROVE HookInv'
    BY <1>4 DEF HookStep, on_cancel, register_hook, remove_hook, RunInline
  <1>5. CASE UNCHANGED gateVars
    BY <1>5 DEF gateVars
  <1> QED
    BY <1>1, <1>2, <1>3, <1>4, <1>5 DEF GateNext

(* The latch's promise to those who registered a hook on it.                 *)
THEOREM HooksRunAtMostOnce == GateSpec => []HooksRunOnce
  <1>1. GateInit => HookInv
    BY DEF GateInit, HookInv
  <1>2. GateInv => GateTypeOK
    BY DEF GateInv
  <1>3. HookInv /\ GateTypeOK => HooksRunOnce
    BY DEF HookInv, HooksRunOnce, GateTypeOK
  <1> QED
    BY <1>1, <1>2, <1>3, GateInvInit, GateInvStep, HookInvStep, PTL DEF GateSpec

(* Both promises of the gate, as the run of MCNode checks them for four      *)
(* threads and one hook.                                                     *)
THEOREM GateSafety == GateSpec => []GateIsSafe
  <1>1. GateExcludes /\ HooksRunOnce => GateIsSafe
    BY DEF GateIsSafe
  <1> QED
    BY <1>1, GateIsExclusive, HooksRunAtMostOnce, PTL
=============================================================================
