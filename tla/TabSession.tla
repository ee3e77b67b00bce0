----------------------------- MODULE TabSession -----------------------------
(***************************************************************************)
(* One TabSession (app/core/tab_pool_parts/session.py) and every actor     *)
(* that changes it: request workflows, command-engine commands, the leaked *)
(* worker check, the stuck-tab watchdog, force_release_all, terminate      *)
(* calls, the target scanner and the pool's cleanup.                       *)
(*                                                                         *)
(* A block under the session's RLock is one action.  A release is two      *)
(* blocks with calls into the browser between them, so is a termination,   *)
(* and a check made without the session lock is an action apart from the   *)
(* write it decides.                                                       *)
(***************************************************************************)
EXTENDS Naturals

CONSTANTS Requests,      (* request ids: workflows started by the API      *)
          Commands,      (* command task ids: acquire_for_command          *)
          Terminators,   (* concurrent terminate_by_index calls            *)
          Forcer,        (* the thread that runs force_release_all         *)
          NoTask,        (* current_task_id = None                         *)
          PreserveErrorTabs, (* TabPoolManager.preserve_error_tabs         *)
          MaxCount       (* bound: request_count the model explores        *)

Tasks     == Requests \cup Commands
Releasers == Tasks \cup {Forcer}

ASSUME SessionAssumption ==
  /\ Requests \cap Commands = {}
  /\ NoTask \notin Tasks
  /\ Forcer \notin Tasks
  /\ PreserveErrorTabs \in BOOLEAN
  /\ MaxCount \in Nat

VARIABLES
  status,         (* TabSession.status                                        *)
  owner,          (* TabSession.current_task_id                               *)
  releasing,      (* TabSession._release_in_progress                          *)
  gate,           (* TabSession._termination_in_progress                      *)
  gateTask,       (* TabSession._termination_task_id                          *)
  interrupted,    (* TabSession._termination_interrupt_done                   *)
  requestCount,   (* TabSession.request_count                                 *)
  pooled,         (* TabPoolManager._tabs still maps the session              *)
  work,           (* where each task's thread is with this tab                *)
  rel,            (* the state record of each release in flight               *)
  armed,          (* terminate calls between begin_termination and the end of
                     interrupt_for_termination                                *)
  watching,       (* the watchdog saw BUSY and has not marked the tab yet     *)
  retiring,       (* leaked-worker checks that passed and have not marked yet *)
  evicted         (* history: tasks whose tenure force_release_all ended and
                     whose thread still drives the page                       *)

session == <<status, owner, releasing, gate, gateTask, interrupted, requestCount>>
vars    == <<session, pooled, work, rel, armed, watching, retiring, evicted>>

Statuses  == {"idle", "busy", "error", "closed"}
Unusable  == {"error", "closed"}
WorkSteps == {"away", "handoff", "driving", "releasing", "failing", "giving up"}

(* What _begin_release_state remembers for _finish_release_state. *)
Release   == [live : BOOLEAN, task : Tasks \cup {NoTask}, failed : BOOLEAN]
NoRelease == [live |-> FALSE, task |-> NoTask, failed |-> FALSE]

Init ==
  /\ status = "idle"
  /\ owner = NoTask
  /\ releasing = FALSE
  /\ gate = FALSE
  /\ gateTask = NoTask
  /\ interrupted = FALSE
  /\ requestCount = 0
  /\ pooled = TRUE
  /\ work = [t \in Tasks |-> "away"]
  /\ rel = [a \in Releasers |-> NoRelease]
  /\ armed = {}
  /\ watching = FALSE
  /\ retiring = {}
  /\ evicted = {}

-----------------------------------------------------------------------------
(* Blocks under the session lock, shared by the actors below. *)

(* The watchdog holds the pool's condition from its check to its mark; the *)
(* actions that take the condition wait for it.                            *)
PoolLockFree == ~watching

(* The thread of t moves on; a thread that left the page is not evicted. *)
Moves(t, step) ==
  /\ work' = [work EXCEPT ![t] = step]
  /\ evicted' = IF step = "away" THEN evicted \ {t} ELSE evicted

(* Mutant: a refund on every release, whatever the count. *)
RefundedUnguarded(refund) == requestCount - 1

(* request_count after a release that may roll the count back. *)
Refunded(refund) ==
  IF refund /\ requestCount > 0 /\ (owner # NoTask \/ status = "busy")
  THEN requestCount - 1
  ELSE requestCount

(* Mutant: a second release is let in. *)
ReleaseUnchecked == TRUE

(* A release that finds another one in progress is skipped. *)
NoReleaseInProgress == ~releasing

(* _begin_release_state, after its ownership tests. *)
BeginRelease(a, refund) ==
  /\ NoReleaseInProgress
  /\ rel' = [rel EXCEPT ![a] = [live   |-> TRUE,
                                task   |-> owner,
                                failed |-> status \in Unusable]]
  /\ requestCount' = Refunded(refund)
  /\ releasing' = TRUE
  /\ status' = IF status \in Unusable THEN status ELSE "busy"
  /\ owner' = NoTask
  /\ UNCHANGED <<gate, gateTask, interrupted>>

(* Mutants: lift the gate before the interrupt is over; never lift it for a *)
(* terminated task.                                                         *)
GateLiftedEarly(task) == gate /\ gateTask \in {NoTask, task}
GateLiftedOwnerless(task) == gate /\ interrupted /\ gateTask = NoTask

(* Whether the end of a release of task's tenure lifts the gate. *)
GateLiftedBy(task) == gate /\ interrupted /\ gateTask \in {NoTask, task}

(* Mutant: a finished release always frees the tab. *)
StatusAfterLaundered(a) == IF status = "closed" THEN status ELSE "idle"

(* The status the end of release a leaves behind. *)
StatusAfter(a) == IF status = "busy" /\ ~rel[a].failed THEN "idle" ELSE status

(* _finish_release_state with success: no caller asks to clear the page. *)
FinishRelease(a) ==
  LET lifted == GateLiftedBy(rel[a].task) IN
  /\ status' = StatusAfter(a)
  /\ gate' = (gate /\ ~lifted)
  /\ gateTask' = IF lifted THEN NoTask ELSE gateTask
  /\ interrupted' = (interrupted /\ ~lifted)
  /\ releasing' = FALSE
  /\ rel' = [rel EXCEPT ![a] = NoRelease]
  /\ UNCHANGED <<owner, requestCount>>

(* mark_error: unconditional, it does not ask who owns the tab. *)
MarkError ==
  /\ status' = "error"
  /\ UNCHANGED <<owner, releasing, gate, gateTask, interrupted, requestCount>>

(* mark_closed *)
MarkClosed ==
  \/ status = "closed" /\ UNCHANGED session
  \/ /\ status # "closed"
     /\ status' = "closed"
     /\ owner' = NoTask
     /\ releasing' = FALSE
     /\ gate' = FALSE
     /\ gateTask' = NoTask
     /\ interrupted' = FALSE
     /\ UNCHANGED requestCount

-----------------------------------------------------------------------------
(* Taking the tab. *)

Acquirable == status = "idle" /\ ~gate

(* TabSession.acquire, called by the pool under its condition; the caller  *)
(* then waits for the tab's network monitor outside it (the handoff).      *)
Acquire(r) ==
  /\ work[r] = "away"
  /\ pooled /\ PoolLockFree
  /\ Acquirable
  /\ requestCount < MaxCount
  /\ status' = "busy"
  /\ owner' = r
  /\ requestCount' = requestCount + 1
  /\ Moves(r, "handoff")
  /\ UNCHANGED <<releasing, gate, gateTask, interrupted,
                 pooled, rel, armed, watching, retiring>>

(* TabSession.acquire_for_command: the command engine calls it on a session *)
(* reference, without the pool's condition and without a handoff.           *)
AcquireForCommand(c) ==
  /\ work[c] = "away"
  /\ Acquirable
  /\ status' = "busy"
  /\ owner' = c
  /\ Moves(c, "driving")
  /\ UNCHANGED <<releasing, gate, gateTask, interrupted, requestCount,
                 pooled, rel, armed, watching, retiring>>

StillMine(t) == pooled /\ status = "busy" /\ owner = t

(* The monitor stopped: the pool checks again that the tab is still the     *)
(* caller's and returns it, or drops it without a release.                  *)
HandoffDone(r) ==
  /\ work[r] = "handoff"
  /\ PoolLockFree
  /\ Moves(r, IF StillMine(r) THEN "driving" ELSE "away")
  /\ UNCHANGED <<session, pooled, rel, armed, watching, retiring>>

(* The monitor did not stop: the pool begins a release of the tab it still  *)
(* owns and refunds the request; otherwise it goes straight to the mark.    *)
HandoffFailed(r) ==
  /\ work[r] = "handoff"
  /\ PoolLockFree
  /\ \/ /\ StillMine(r) /\ ~releasing
        /\ BeginRelease(r, TRUE)
        /\ Moves(r, "failing")
     \/ /\ ~(StillMine(r) /\ ~releasing)
        /\ Moves(r, "giving up")
        /\ UNCHANGED <<session, rel>>
  /\ UNCHANGED <<pooled, armed, watching, retiring>>

(* Its last block: mark the tab unless somebody else has it by now. *)
HandoffGiveUp(r) ==
  /\ work[r] = "giving up"
  /\ PoolLockFree
  /\ \/ pooled /\ owner \in {NoTask, r} /\ MarkError
     \/ ~(pooled /\ owner \in {NoTask, r}) /\ UNCHANGED session
  /\ Moves(r, "away")
  /\ UNCHANGED <<pooled, rel, armed, watching, retiring>>

-----------------------------------------------------------------------------
(* Giving the tab back. *)

(* Mutant: any release frees the current owner. *)
OwnsUnchecked(t) == owner # NoTask

(* The ownership test of TabPoolManager.release and _begin_release_state. *)
Owns(t) == owner = t

(* Mutant: a cancelled command rolls the count back too. *)
MayRefundAny(t) == t \in Tasks

(* Workflows cancelled by hand and late acquires ask for a rollback; the     *)
(* command engine, whose tenures are not counted, never does.                *)
MayRefund(t) == t \in Requests

(* TabPoolManager.release with expected_task_id, under the pool's condition: *)
(* the end of a workflow or of a command, or the late release of an acquire  *)
(* whose caller was cancelled.  Only a request is ever refunded.             *)
ReleaseBegin(t) ==
  /\ work[t] = "driving"
  /\ PoolLockFree
  /\ pooled /\ Owns(t)
  /\ \/ BeginRelease(t, FALSE)
     \/ MayRefund(t) /\ BeginRelease(t, TRUE)
  /\ Moves(t, "releasing")
  /\ UNCHANGED <<pooled, armed, watching, retiring>>

(* _release_workflow_session skips an unusable tab, and the pool refuses a  *)
(* release whose owner is somebody else or already gone.                    *)
ReleaseSkipped(t) ==
  /\ work[t] = "driving"
  /\ PoolLockFree
  /\ status \in Unusable \/ ~pooled \/ ~Owns(t) \/ releasing
  /\ Moves(t, "away")
  /\ UNCHANGED <<session, pooled, rel, armed, watching, retiring>>

(* The second block of a task's release, or of a failed handoff's release. *)
ReleaseEnd(t) ==
  /\ work[t] \in {"releasing", "failing"}
  /\ FinishRelease(t)
  /\ Moves(t, IF work[t] = "failing" THEN "giving up" ELSE "away")
  /\ UNCHANGED <<pooled, armed, watching, retiring>>

(* force_release_all: every BUSY tab is released whoever owns it.  The      *)
(* cancellation it submits first is asynchronous, so the owner's thread     *)
(* still drives the page.                                                   *)
ForceBegin ==
  /\ ~rel[Forcer].live
  /\ pooled /\ PoolLockFree
  /\ status = "busy"
  /\ BeginRelease(Forcer, FALSE)
  /\ evicted' = IF owner = NoTask THEN evicted ELSE evicted \cup {owner}
  /\ UNCHANGED <<pooled, work, armed, watching, retiring>>

ForceEnd ==
  /\ rel[Forcer].live
  /\ FinishRelease(Forcer)
  /\ UNCHANGED <<pooled, work, armed, watching, retiring, evicted>>

-----------------------------------------------------------------------------
(* Terminating a task. *)

(* terminate_by_index up to begin_termination.  A refused call changes      *)
(* nothing.                                                                 *)
TerminateBegin(k) ==
  /\ k \notin armed
  /\ pooled /\ PoolLockFree
  /\ ~releasing
  /\ ~gate
  /\ gate' = TRUE
  /\ gateTask' = owner
  /\ interrupted' = FALSE
  /\ armed' = armed \cup {k}
  /\ UNCHANGED <<status, owner, releasing, requestCount,
                 pooled, work, rel, watching, retiring, evicted>>

(* Mutant: the interrupt leaves every gate to the owner's release. *)
NeverOwnerless == FALSE

(* Nobody is going to release the tab. *)
Ownerless == owner = NoTask /\ ~releasing

(* interrupt_for_termination: the page has been stopped; a tab nobody owns   *)
(* is put back at once, otherwise the owner's release lifts the gate.        *)
Interrupt(k) ==
  /\ k \in armed
  /\ armed' = armed \ {k}
  /\ \/ /\ Ownerless
        /\ gate' = FALSE /\ gateTask' = NoTask /\ interrupted' = FALSE
     \/ /\ ~Ownerless
        /\ interrupted' = TRUE
        /\ UNCHANGED <<gate, gateTask>>
  /\ UNCHANGED <<status, owner, releasing, requestCount,
                 pooled, work, rel, watching, retiring, evicted>>

-----------------------------------------------------------------------------
(* Failures. *)

(* _check_stuck_tabs reads the status without the session lock ... *)
WatchdogCheck ==
  /\ pooled /\ PoolLockFree
  /\ status = "busy"
  /\ watching' = TRUE
  /\ UNCHANGED <<session, pooled, work, rel, armed, retiring, evicted>>

(* ... and marks the tab afterwards. *)
WatchdogMark ==
  /\ watching
  /\ MarkError
  /\ watching' = FALSE
  /\ UNCHANGED <<pooled, work, rel, armed, retiring, evicted>>

(* The workflow finds its page gone: mark_error("tab_access_failed"). *)
DriverFails(t) ==
  /\ work[t] = "driving"
  /\ MarkError
  /\ UNCHANGED <<pooled, work, rel, armed, watching, retiring, evicted>>

(* retire_bound_tab_after_worker_leak: the request is over and its thread is *)
(* not.  The ownership tests are made without any lock ...                   *)
RetireCheck(r) ==
  /\ r \notin retiring
  /\ work[r] \in {"driving", "releasing"}
  /\ pooled
  /\ owner \in {NoTask, r}
  /\ retiring' = retiring \cup {r}
  /\ UNCHANGED <<session, pooled, work, rel, armed, watching, evicted>>

(* ... and the mark follows. *)
RetireMark(r) ==
  /\ r \in retiring
  /\ MarkError
  /\ retiring' = retiring \ {r}
  /\ UNCHANGED <<pooled, work, rel, armed, watching, evicted>>

(* _scan_new_tabs: the browser target is gone.  A BUSY session stays in the  *)
(* pool, closed, until the next cleanup.                                     *)
TargetVanished ==
  /\ pooled /\ PoolLockFree
  /\ MarkClosed
  /\ pooled' = (status = "busy")
  /\ UNCHANGED <<work, rel, armed, watching, retiring, evicted>>

(* The command engine meets a disconnected page. *)
PageDisconnected ==
  /\ status # "closed"
  /\ MarkClosed
  /\ UNCHANGED <<pooled, work, rel, armed, watching, retiring, evicted>>

(* _cleanup_unhealthy_tabs, the idle case being a failed health check. *)
Cleanup ==
  /\ pooled /\ PoolLockFree
  /\ \/ status \in {"closed", "idle"}
     \/ status = "error" /\ ~PreserveErrorTabs
  /\ MarkClosed
  /\ pooled' = FALSE
  /\ UNCHANGED <<work, rel, armed, watching, retiring, evicted>>

-----------------------------------------------------------------------------
TaskNext(t) ==
  \/ ReleaseBegin(t)
  \/ ReleaseSkipped(t)
  \/ ReleaseEnd(t)
  \/ DriverFails(t)

RequestNext(r) ==
  \/ Acquire(r)
  \/ HandoffDone(r)
  \/ HandoffFailed(r)
  \/ HandoffGiveUp(r)
  \/ RetireCheck(r)
  \/ RetireMark(r)

Next ==
  \/ \E t \in Tasks : TaskNext(t)
  \/ \E r \in Requests : RequestNext(r)
  \/ \E c \in Commands : AcquireForCommand(c)
  \/ ForceBegin
  \/ ForceEnd
  \/ \E k \in Terminators : TerminateBegin(k) \/ Interrupt(k)
  \/ WatchdogCheck
  \/ WatchdogMark
  \/ TargetVanished
  \/ PageDisconnected
  \/ Cleanup

(***************************************************************************)
(* Both blocks of a release and of an interrupt run in one thread without  *)
(* waiting for anybody, and the watchdog thread ticks for ever.  Nothing   *)
(* is assumed of the workflows: a thread may hang while it holds the tab.  *)
(***************************************************************************)
Fairness ==
  /\ \A t \in Tasks : WF_vars(ReleaseEnd(t))
  /\ WF_vars(ForceEnd)
  /\ \A k \in Terminators : WF_vars(Interrupt(k))
  /\ WF_vars(WatchdogCheck)
  /\ WF_vars(WatchdogMark)

Spec     == Init /\ [][Next]_vars
FairSpec == Spec /\ Fairness

-----------------------------------------------------------------------------
(* Type correctness of the session's fields and of the actors' positions. *)
TypeOK ==
  /\ status \in Statuses
  /\ owner \in Tasks \cup {NoTask}
  /\ releasing \in BOOLEAN
  /\ gate \in BOOLEAN
  /\ gateTask \in Tasks \cup {NoTask}
  /\ interrupted \in BOOLEAN
  /\ requestCount \in 0..MaxCount
  /\ pooled \in BOOLEAN
  /\ work \in [Tasks -> WorkSteps]
  /\ rel \in [Releasers -> Release]
  /\ armed \subseteq Terminators
  /\ watching \in BOOLEAN
  /\ retiring \subseteq Requests
  /\ evicted \subseteq Tasks

(***************************************************************************)
(* While a release is tearing the page down (between _begin_release_state  *)
(* and _finish_release_state) nobody owns the tab and no second release is *)
(* doing the same, whatever errors, closings and evictions come between.   *)
(***************************************************************************)
TeardownExclusive ==
  \A a \in Releasers : rel[a].live =>
    /\ owner = NoTask
    /\ \A b \in Releasers \ {a} : ~rel[b].live

(***************************************************************************)
(* Two workflow threads never drive one page, except that a thread evicted *)
(* by force_release_all may still be at it when the tab is handed on: any  *)
(* other thread that drives owns the tab, or the tab is lost.              *)
(***************************************************************************)
ExclusiveDriving ==
  \A t \in Tasks : work[t] = "driving" =>
    owner = t \/ t \in evicted \/ status \in Unusable

(***************************************************************************)
(* The inductive invariant behind both.  An idle tab has no owner and no   *)
(* release in flight; a release in flight has taken the owner away and is  *)
(* either the one _release_in_progress stands for or was overtaken by the  *)
(* loss of the tab; a thread between the two blocks of its release is the  *)
(* one whose record is live.                                               *)
(***************************************************************************)
IdleIsQuiet       == status = "idle" => owner = NoTask /\ ~releasing
ReleaseTakesOwner == releasing => owner = NoTask
ReleaseRecorded   == \A t \in Tasks : rel[t].live <=> work[t] \in {"releasing", "failing"}
ReleaseFlagged    == \A a \in Releasers : rel[a].live => releasing \/ status \in Unusable

IInv == /\ TypeOK
        /\ IdleIsQuiet
        /\ ReleaseTakesOwner
        /\ ReleaseRecorded
        /\ ReleaseFlagged
        /\ TeardownExclusive
        /\ ExclusiveDriving

(***************************************************************************)
(* request_count (which the command engine's triggers count) is rolled     *)
(* back only by the end of a tenure that was counted: a command's release, *)
(* an eviction or a late release never takes back another tenure's count.  *)
(***************************************************************************)
RefundsOwnTenure ==
  [][requestCount' < requestCount => owner \in Requests /\ owner' = NoTask]_vars

(***************************************************************************)
(* terminate_by_index may stop or refresh the page at any moment between   *)
(* begin_termination and the end of the interrupt: until then the tab is   *)
(* not handed to a task the terminate call was not about.                  *)
(***************************************************************************)
InterruptHitsOnlyItsTask == [][armed # {} => owner' \in {owner, NoTask}]_vars

(* The lease the session implements: a lost tab never comes back, a grant  *)
(* only from free, no hand-over without draining.                          *)
LeasePhase ==
  CASE status \in Unusable             -> "gone"
    [] status = "idle" /\ ~gate        -> "free"
    [] status = "busy" /\ owner # NoTask -> "held"
    [] OTHER                           -> "draining"
LeaseHolder == IF LeasePhase = "held" THEN owner ELSE NoTask

Lease == INSTANCE TabLease WITH phase <- LeasePhase, holder <- LeaseHolder

(***************************************************************************)
(* Refinement: seen through LeasePhase and LeaseHolder the session is a    *)
(* lease, so that an error the owner's late release finds is not laundered *)
(* into IDLE and a tab never passes from task to task without draining.    *)
(***************************************************************************)
ImplementsLease == Lease!LeaseSpec

(***************************************************************************)
(* The quarantine of a terminated task ends (or the tab is lost), even if  *)
(* the terminated workflow hangs.                                          *)
(***************************************************************************)
GateLifts == gate ~> (~gate \/ status \in Unusable)

(***************************************************************************)
(* No task keeps the tab for ever and no teardown leaves it neither free   *)
(* nor lost: a tab that is not free becomes free or is lost.               *)
(***************************************************************************)
TabComesBack == LeasePhase \in {"held", "draining"} ~> LeasePhase \in {"free", "gone"}
=============================================================================
