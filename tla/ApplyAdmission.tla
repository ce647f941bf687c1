--------------------------- MODULE ApplyAdmission ---------------------------
(***************************************************************************)
(* The gate every change of the chainstate passes (ApplyAdmission,         *)
(* crates/chainstate/src/lib.rs): a one-way latch with cancellation hooks  *)
(* (crates/chain/src/latch.rs), a read-write barrier, the publication      *)
(* mutex and the transition mutex (crates/chain/src/transition.rs).        *)
(*                                                                         *)
(* A thread makes one call, named by its role:                             *)
(*   "transition"  begin_chain_transition, the work, the guard's drop      *)
(*   "install"     install_snapshot, which does not look at the latch      *)
(*                 again once it has the transition mutex                  *)
(*   "stable"      a StableRead, which takes the transition mutex only     *)
(*   "publish"     publish_transaction                                     *)
(*   "close"       Chainstate::close, whose guard is dropped at the end    *)
(*   "recover"     fail_closed_for_recovery by a thread with no guard      *)
(*                                                                         *)
(* Who holds a lock is read off the program counters.  The critical        *)
(* section of close_permanently changes nothing but the latch, so it is    *)
(* one step.  A writer that has claimed the barrier keeps new readers out  *)
(* while it waits for the readers inside, as parking_lot's does.           *)
(***************************************************************************)
EXTENDS Naturals

CONSTANTS
    GateThread,  \* threads
    GateHook,    \* cancellation hooks some thread registers on the latch
    GateRoles    \* the assignments of roles to consider

ASSUME GateAssumption ==
    GateRoles \subseteq
        [GateThread -> {"transition", "install", "stable", "publish", "close", "recover"}]

VARIABLES
    gtRole,    \* what each thread calls
    gtPc,      \* where it is
    gtShut,    \* the latch is triggered
    gtFailed,  \* a transition met an error after which the state is not to be trusted
    gtHook,    \* the life of each hook
    gtTaken,   \* hooks the triggering thread took and has yet to run
    gtRuns     \* how often each hook ran

gateVars == <<gtRole, gtPc, gtShut, gtFailed, gtHook, gtTaken, gtRuns>>

First(role) ==
    IF role \in {"transition", "install"} THEN "start"
    ELSE IF role = "stable" THEN "lock"
    ELSE IF role = "publish" THEN "claim" ELSE "close"

GateInit ==
    /\ gtRole \in GateRoles
    /\ gtPc = [t \in GateThread |-> First(gtRole[t])]
    /\ gtShut = FALSE
    /\ gtFailed = FALSE
    /\ gtHook = [h \in GateHook |-> "new"]
    /\ gtTaken = {}
    /\ gtRuns = [h \in GateHook |-> 0]

-----------------------------------------------------------------------------
(* Locks *)

Enters(t) == gtRole[t] \in {"transition", "install"}

HasRead(t) ==
    /\ Enters(t)
    /\ gtPc[t] \in {"entered", "lock", "locked", "holding", "close", "hooks", "unlock", "leave"}

(* The barrier is claimed for writing; readers may still be inside.          *)
HasClaim(t) ==
    /\ gtRole[t] \in {"publish", "close"}
    /\ gtPc[t] \in {"drain", "paused", "check", "publishing", "unlock", "leave", "closed"}

HasTransition(t) ==
    /\ Enters(t) \/ gtRole[t] = "stable"
    /\ gtPc[t] \in {"locked", "holding", "close", "hooks", "unlock"}

(* Mutant: close keeps the publication mutex until it has the barrier. *)
HasPublicationToo(t) ==
    \/ gtRole[t] = "publish" /\ gtPc[t] \in {"check", "publishing", "unlock"}
    \/ gtRole[t] = "close" /\ gtPc[t] \in {"hooks", "claim", "drain"}

HasPublication(t) == gtRole[t] = "publish" /\ gtPc[t] \in {"check", "publishing", "unlock"}

Nobody(Has(_)) == \A t \in GateThread : ~Has(t)

Go2(t, from, to) == gtPc[t] = from /\ gtPc' = [gtPc EXCEPT ![t] = to]

Quiet == UNCHANGED <<gtRole, gtShut, gtFailed, gtHook, gtTaken, gtRuns>>

-----------------------------------------------------------------------------
(* Entering *)

ensure_open(t, from, open, shut) == Go2(t, from, IF gtShut THEN shut ELSE open)

(* enter: the latch, the barrier, and the latch again. *)
EnterChecks(t) ==
    /\ Enters(t)
    /\ ensure_open(t, "start", "read", "done")
    /\ Quiet

EnterBarrier(t) ==
    /\ Enters(t)
    /\ Nobody(HasClaim)
    /\ Go2(t, "read", "entered")
    /\ Quiet

EnterChecksAgain(t) ==
    /\ Enters(t)
    /\ ensure_open(t, "entered", "lock", "leave")
    /\ Quiet

LockTransition(t) ==
    /\ Nobody(HasTransition)
    /\ Go2(t, "lock", IF gtRole[t] = "transition" THEN "locked" ELSE "holding")
    /\ Quiet

(* Mutant: the latch is not looked at after the wait for the mutex. *)
BeginUnchecked(t) == Go2(t, "locked", "holding") /\ Quiet

begin_chain_transition(t) == ensure_open(t, "locked", "holding", "unlock") /\ Quiet

(* The work ends; its guards are dropped, the transition mutex first. *)
Finish(t) == Go2(t, "holding", "unlock") /\ Quiet

(* Or it ends in an error that poisons the chainstate. *)
fail_closed_for_recovery(t) ==
    /\ Enters(t)
    /\ Go2(t, "holding", "close")
    /\ gtFailed' = TRUE
    /\ UNCHANGED <<gtRole, gtShut, gtHook, gtTaken, gtRuns>>

Unlock(t) ==
    /\ Go2(t, "unlock", IF gtRole[t] = "stable" THEN "done" ELSE "leave")
    /\ Quiet

Leave(t) == Go2(t, "leave", "done") /\ Quiet

-----------------------------------------------------------------------------
(* Closing and publishing *)

Armed == {h \in GateHook : gtHook[h] = "armed"}

AfterClose(t) ==
    IF Enters(t) THEN "unlock" ELSE IF gtRole[t] = "close" THEN "claim" ELSE "done"

(* The latch triggers under the publication mutex; the thread that triggers  *)
(* it takes the hooks and runs them after it released the mutex.             *)
close_permanently(t) ==
    /\ Nobody(HasPublication)
    /\ Go2(t, "close", IF gtShut THEN AfterClose(t) ELSE "hooks")
    /\ gtShut' = TRUE
    /\ gtTaken' = IF gtShut THEN gtTaken ELSE Armed
    /\ gtHook' = IF gtShut THEN gtHook
                 ELSE [h \in GateHook |-> IF gtHook[h] = "armed" THEN "taken" ELSE gtHook[h]]
    /\ UNCHANGED <<gtRole, gtFailed, gtRuns>>

RunHook(t) ==
    /\ gtPc[t] = "hooks"
    /\ \E h \in gtTaken :
         /\ gtTaken' = gtTaken \ {h}
         /\ gtRuns' = [gtRuns EXCEPT ![h] = @ + 1]
    /\ UNCHANGED <<gtRole, gtPc, gtShut, gtFailed, gtHook>>

HooksDone(t) ==
    /\ gtTaken = {}
    /\ Go2(t, "hooks", AfterClose(t))
    /\ Quiet

ClaimBarrier(t) ==
    /\ Nobody(HasClaim)
    /\ Go2(t, "claim", "drain")
    /\ Quiet

DrainReaders(t) ==
    /\ Nobody(HasRead)
    /\ Go2(t, "drain", IF gtRole[t] = "close" THEN "closed" ELSE "paused")
    /\ Quiet

LockPublication(t) ==
    /\ Nobody(HasPublication)
    /\ Go2(t, "paused", "check")
    /\ Quiet

publish_transaction(t) == ensure_open(t, "check", "publishing", "unlock") /\ Quiet

Published(t) == Go2(t, "publishing", "unlock") /\ Quiet

DropAdmissionGuard(t) == Go2(t, "closed", "done") /\ Quiet

-----------------------------------------------------------------------------
(* Hooks: register_hook looks at the latch, takes the lock of the hooks and  *)
(* looks again; a hook that comes too late is run by its own thread.         *)

RunInline(h) ==
    /\ gtHook' = [gtHook EXCEPT ![h] = "inert"]
    /\ gtRuns' = [gtRuns EXCEPT ![h] = @ + 1]

on_cancel(h) ==
    /\ gtHook[h] = "new"
    /\ IF gtShut THEN RunInline(h)
       ELSE gtHook' = [gtHook EXCEPT ![h] = "locking"] /\ UNCHANGED gtRuns
    /\ UNCHANGED <<gtRole, gtPc, gtShut, gtFailed, gtTaken>>

register_hook(h) ==
    /\ gtHook[h] = "locking"
    /\ IF gtShut THEN RunInline(h)
       ELSE gtHook' = [gtHook EXCEPT ![h] = "armed"] /\ UNCHANGED gtRuns
    /\ UNCHANGED <<gtRole, gtPc, gtShut, gtFailed, gtTaken>>

(* HookGuard's drop: a hook already taken still runs. *)
remove_hook(h) ==
    /\ gtHook[h] = "armed"
    /\ gtHook' = [gtHook EXCEPT ![h] = "dropped"]
    /\ UNCHANGED <<gtRole, gtPc, gtShut, gtFailed, gtTaken, gtRuns>>

GateStep(t) ==
    \/ EnterChecks(t) \/ EnterBarrier(t) \/ EnterChecksAgain(t)
    \/ LockTransition(t) \/ begin_chain_transition(t) \/ Finish(t)
    \/ Unlock(t) \/ Leave(t)
    \/ close_permanently(t) \/ RunHook(t) \/ HooksDone(t)
    \/ ClaimBarrier(t) \/ DrainReaders(t) \/ LockPublication(t)
    \/ publish_transaction(t) \/ Published(t) \/ DropAdmissionGuard(t)

HookStep(h) == on_cancel(h) \/ register_hook(h)

GateNext ==
    \/ \E t \in GateThread : GateStep(t) \/ fail_closed_for_recovery(t)
    \/ \E h \in GateHook : HookStep(h) \/ remove_hook(h)

(* Threads run; a thread need not fail and a guard need not be dropped.      *)
GateFairness ==
    /\ \A t \in GateThread : WF_gateVars(GateStep(t))
    /\ \A h \in GateHook : WF_gateVars(HookStep(h))

GateSpec == GateInit /\ [][GateNext]_gateVars /\ GateFairness

-----------------------------------------------------------------------------
(* Threads, hooks and the latch are in one of the states the code knows.     *)
GateTypeOK ==
    /\ gtRole \in GateRoles
    /\ gtPc \in [GateThread ->
           {"start", "read", "entered", "lock", "locked", "holding", "close", "hooks", "unlock",
            "leave", "claim", "drain", "paused", "check", "publishing", "closed", "done"}]
    /\ gtShut \in BOOLEAN
    /\ gtFailed \in BOOLEAN
    /\ gtHook \in [GateHook -> {"new", "locking", "armed", "taken", "dropped", "inert"}]
    /\ gtTaken \subseteq GateHook
    /\ gtRuns \in [GateHook -> Nat]

Changing(t) == Enters(t) /\ gtPc[t] \in {"lock", "locked", "holding"}

(* From the moment a transition meets an error it cannot undo no other       *)
(* transition works on the chainstate and no checkpoint of it is published;  *)
(* no checkpoint is published with the latch triggered; and once close has   *)
(* the barrier nothing that changes the chainstate is, or again gets, inside.*)
GateExcludes ==
    \A t, u \in GateThread :
        /\ gtPc[t] = "publishing" => ~gtShut /\ ~gtFailed
        /\ gtRole[t] = "transition" /\ gtPc[t] = "holding" => ~gtFailed
        /\ HasTransition(t) /\ HasTransition(u) => t = u
        /\ gtRole[t] = "close" /\ gtPc[t] \in {"closed", "done"} => ~Changing(u)

(* A hook runs at most once, whoever triggers the latch and whenever it was  *)
(* registered, and never when its guard was dropped before the trigger.      *)
HooksRunOnce ==
    \A h \in GateHook : gtRuns[h] <= IF gtHook[h] = "dropped" THEN 0 ELSE 1

(* The gate keeps out what it must and the latch notifies once. *)
GateIsSafe == GateExcludes /\ HooksRunOnce

Settled ==
    /\ \A t \in GateThread : gtPc[t] = "done"
    /\ \A h \in GateHook : gtRuns[h] = IF gtShut /\ gtHook[h] # "dropped" THEN 1 ELSE 0

(* No wait of one thread for another is circular, and when all is quiet      *)
(* every hook that was not dropped before the latch triggered has run once.  *)
GateSettles == <>[]Settled
=============================================================================
