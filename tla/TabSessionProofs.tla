-------------------------- MODULE TabSessionProofs --------------------------
(* Proofs about TabSession for any sets of requests, commands and terminate *)
(* calls.                                                                   *)
EXTENDS TabSession, TLAPS

(* The records of releases in flight are well formed. *)
LEMMA ReleaseTypes ==
  /\ NoRelease \in Release
  /\ \A task \in Tasks \cup {NoTask}, failed \in BOOLEAN :
       [live |-> TRUE, task |-> task, failed |-> failed] \in Release
  BY DEF NoRelease, Release

(* The blocks every actor shares keep the session well typed. *)
LEMMA BeginReleaseTypes ==
  ASSUME TypeOK, NEW a \in Releasers, NEW refund \in BOOLEAN, BeginRelease(a, refund)
  PROVE  /\ status' \in Statuses /\ owner' \in Tasks \cup {NoTask}
         /\ releasing' \in BOOLEAN /\ gate' \in BOOLEAN /\ interrupted' \in BOOLEAN
         /\ gateTask' \in Tasks \cup {NoTask}
         /\ requestCount' \in 0..MaxCount
         /\ rel' \in [Releasers -> Release]
<1>1. [live |-> TRUE, task |-> owner, failed |-> status \in Unusable] \in Release
  <2>1. (status \in Unusable) \in BOOLEAN
    OBVIOUS
  <2>2. owner \in Tasks \cup {NoTask}
    BY DEF TypeOK
  <2>3. QED
    BY <2>1, <2>2, ReleaseTypes, Zenon
<1>2. rel' \in [Releasers -> Release]
  BY <1>1 DEF TypeOK, BeginRelease
<1>3. requestCount' \in 0..MaxCount
  BY SessionAssumption DEF SessionAssumption, TypeOK, BeginRelease, Refunded
<1>4. QED
  BY <1>2, <1>3 DEF TypeOK, BeginRelease, Statuses, Unusable

LEMMA FinishReleaseTypes ==
  ASSUME TypeOK, NEW a \in Releasers, FinishRelease(a)
  PROVE  /\ status' \in Statuses /\ owner' \in Tasks \cup {NoTask}
         /\ releasing' \in BOOLEAN /\ gate' \in BOOLEAN /\ interrupted' \in BOOLEAN
         /\ gateTask' \in Tasks \cup {NoTask}
         /\ requestCount' \in 0..MaxCount
         /\ rel' \in [Releasers -> Release]
<1>1. rel' \in [Releasers -> Release]
  BY ReleaseTypes DEF TypeOK, FinishRelease
<1>2. gate' \in BOOLEAN /\ interrupted' \in BOOLEAN
  BY DEF TypeOK, FinishRelease
<1>3. QED
  BY <1>1, <1>2 DEF TypeOK, FinishRelease, StatusAfter, Statuses

(* The initial session is well typed. *)
LEMMA InitTypes == ASSUME Init PROVE TypeOK
<1>1. rel \in [Releasers -> Release]
  BY ReleaseTypes DEF Init
<1>2. work \in [Tasks -> WorkSteps]
  BY DEF Init, WorkSteps
<1>3. requestCount \in 0..MaxCount
  BY SessionAssumption DEF SessionAssumption, Init
<1>4. QED
  BY <1>1, <1>2, <1>3 DEF Init, TypeOK, Statuses

(* Every step keeps the types. *)
LEMMA NextTypes == ASSUME TypeOK, [Next]_vars PROVE TypeOK'
<1>0. Tasks \subseteq Releasers /\ Forcer \in Releasers /\ Requests \subseteq Tasks /\ Commands \subseteq Tasks
  BY DEF Tasks, Releasers
<1> USE DEF session, Moves
<1>1. ASSUME NEW t \in Tasks, ReleaseBegin(t) PROVE TypeOK'
  BY <1>0, <1>1, BeginReleaseTypes DEF ReleaseBegin, TypeOK, WorkSteps
<1>2. ASSUME NEW t \in Tasks, ReleaseSkipped(t) PROVE TypeOK'
  BY <1>2 DEF ReleaseSkipped, TypeOK, WorkSteps
<1>3. ASSUME NEW t \in Tasks, ReleaseEnd(t) PROVE TypeOK'
  BY <1>0, <1>3, FinishReleaseTypes DEF ReleaseEnd, TypeOK, WorkSteps
<1>4. ASSUME NEW t \in Tasks, DriverFails(t) PROVE TypeOK'
  BY <1>4 DEF DriverFails, MarkError, TypeOK, Statuses
<1>5. ASSUME NEW r \in Requests, Acquire(r) PROVE TypeOK'
  <2>1. requestCount' \in 0..MaxCount
    BY <1>5, SessionAssumption DEF SessionAssumption, Acquire, TypeOK
  <2>2. QED
    BY <1>0, <1>5, <2>1 DEF Acquire, TypeOK, Statuses, WorkSteps
<1>6. ASSUME NEW r \in Requests, HandoffDone(r) PROVE TypeOK'
  BY <1>0, <1>6 DEF HandoffDone, TypeOK, WorkSteps
<1>7. ASSUME NEW r \in Requests, HandoffFailed(r) PROVE TypeOK'
  BY <1>0, <1>7, BeginReleaseTypes DEF HandoffFailed, TypeOK, WorkSteps
<1>8. ASSUME NEW r \in Requests, HandoffGiveUp(r) PROVE TypeOK'
  BY <1>0, <1>8 DEF HandoffGiveUp, MarkError, TypeOK, Statuses, WorkSteps
<1>9. ASSUME NEW r \in Requests, RetireCheck(r) \/ RetireMark(r) PROVE TypeOK'
  BY <1>9 DEF RetireCheck, RetireMark, MarkError, TypeOK, Statuses
<1>10. ASSUME NEW c \in Commands, AcquireForCommand(c) PROVE TypeOK'
  BY <1>0, <1>10 DEF AcquireForCommand, TypeOK, Statuses, WorkSteps
<1>11. CASE ForceBegin
  BY <1>0, <1>11, BeginReleaseTypes DEF ForceBegin, TypeOK
<1>12. CASE ForceEnd
  BY <1>0, <1>12, FinishReleaseTypes DEF ForceEnd, TypeOK
<1>13. ASSUME NEW k \in Terminators, TerminateBegin(k) \/ Interrupt(k) PROVE TypeOK'
  BY <1>13 DEF TerminateBegin, Interrupt, TypeOK
<1>14. CASE WatchdogCheck \/ WatchdogMark
  BY <1>14 DEF WatchdogCheck, WatchdogMark, MarkError, TypeOK, Statuses
<1>15. CASE TargetVanished \/ PageDisconnected \/ Cleanup
  BY <1>15 DEF TargetVanished, PageDisconnected, Cleanup, MarkClosed, TypeOK, Statuses
<1>16. CASE UNCHANGED vars
  BY <1>16 DEF vars, TypeOK
<1>17. QED
  BY <1>1, <1>2, <1>3, <1>4, <1>5, <1>6, <1>7, <1>8, <1>9, <1>10, <1>11, <1>12,
     <1>13, <1>14, <1>15, <1>16 DEF Next, TaskNext, RequestNext

(***************************************************************************)
(* The session's fields and the actors' positions keep their types: every  *)
(* block under the session lock maps well-typed fields to well-typed ones. *)
(***************************************************************************)
THEOREM TypeCorrect == Spec => []TypeOK
<1>1. Init => TypeOK
  BY InitTypes
<1>2. TypeOK /\ [Next]_vars => TypeOK'
  BY NextTypes
<1>3. QED
  BY <1>1, <1>2, PTL DEF Spec

-----------------------------------------------------------------------------
(* The sets the actors are drawn from. *)
LEMMA TaskSets ==
  /\ Tasks \subseteq Releasers
  /\ Forcer \in Releasers /\ Forcer \notin Tasks
  /\ Requests \subseteq Tasks
  /\ Commands \subseteq Tasks
  /\ NoTask \notin Tasks
  BY SessionAssumption DEF SessionAssumption, Tasks, Releasers

(* The part of the invariant beyond the types. *)
Coherent == /\ IdleIsQuiet
            /\ ReleaseTakesOwner
            /\ ReleaseRecorded
            /\ ReleaseFlagged
            /\ TeardownExclusive
            /\ ExclusiveDriving

(* Nothing is being torn down while the tab is idle or has an owner. *)
LEMMA NothingLive ==
  ASSUME Coherent, TypeOK, ~releasing, status \notin Unusable
  PROVE  \A a \in Releasers : ~rel[a].live
  BY DEF Coherent, ReleaseFlagged

LEMMA NothingLiveOwned ==
  ASSUME Coherent, owner # NoTask
  PROVE  \A a \in Releasers : ~rel[a].live
  BY DEF Coherent, TeardownExclusive

(* A step that leaves releases and threads alone and at most marks the tab. *)
LEMMA MarkKeeps ==
  ASSUME Coherent, UNCHANGED <<owner, releasing, rel, work, evicted>>,
         status' = status \/ status' = "error"
  PROVE  Coherent'
<1>1. IdleIsQuiet' /\ ReleaseTakesOwner' /\ ReleaseRecorded'
  BY DEF Coherent, IdleIsQuiet, ReleaseTakesOwner, ReleaseRecorded
<1>2. ReleaseFlagged' /\ TeardownExclusive' /\ ExclusiveDriving'
  BY DEF Coherent, ReleaseFlagged, TeardownExclusive, ExclusiveDriving, Unusable
<1>3. QED
  BY <1>1, <1>2 DEF Coherent

(* Losing the tab: whatever was in flight is overtaken. *)
LEMMA CloseKeeps ==
  ASSUME Coherent, TypeOK, MarkClosed, UNCHANGED <<rel, work, evicted>>
  PROVE  Coherent'
<1>1. CASE status = "closed" /\ UNCHANGED session
  BY <1>1, MarkKeeps DEF session
<1>2. CASE /\ status' = "closed"
           /\ owner' = NoTask
           /\ releasing' = FALSE
  <2>1. IdleIsQuiet' /\ ReleaseTakesOwner' /\ ReleaseRecorded'
    BY <1>2 DEF Coherent, IdleIsQuiet, ReleaseTakesOwner, ReleaseRecorded
  <2>2. ReleaseFlagged' /\ TeardownExclusive' /\ ExclusiveDriving'
    BY <1>2 DEF Coherent, ReleaseFlagged, TeardownExclusive, ExclusiveDriving, Unusable
  <2>3. QED
    BY <2>1, <2>2 DEF Coherent
<1>3. QED
  BY <1>1, <1>2 DEF MarkClosed

(* A thread steps somewhere it does not drive, its releases left alone. *)
LEMMA MoveKeeps ==
  ASSUME Coherent, TypeOK, NEW t \in Tasks, NEW step \in {"away", "giving up"},
         work[t] \notin {"releasing", "failing"}, Moves(t, step),
         UNCHANGED <<owner, releasing, rel>>, status' = status \/ status' = "error"
  PROVE  Coherent'
<1>1. work'[t] = step /\ \A u \in Tasks \ {t} : work'[u] = work[u]
  BY DEF Moves, TypeOK
<1>2. \A u \in Tasks \ {t} : u \in evicted => u \in evicted'
  BY DEF Moves
<1>3. IdleIsQuiet' /\ ReleaseTakesOwner' /\ ReleaseRecorded'
  BY <1>1 DEF Coherent, IdleIsQuiet, ReleaseTakesOwner, ReleaseRecorded
<1>4. ReleaseFlagged' /\ TeardownExclusive'
  BY DEF Coherent, ReleaseFlagged, TeardownExclusive, Unusable
<1>5. ExclusiveDriving'
  BY <1>1, <1>2 DEF Coherent, ExclusiveDriving, Unusable
<1>6. QED
  BY <1>3, <1>4, <1>5 DEF Coherent

(* A task takes the tab and its thread goes to step. *)
LEMMA TakeKeeps ==
  ASSUME Coherent, TypeOK, NEW t \in Tasks, NEW step \in {"handoff", "driving"},
         work[t] = "away", Acquirable, status' = "busy", owner' = t,
         Moves(t, step), UNCHANGED <<releasing, rel>>
  PROVE  Coherent'
<1>1. work'[t] = step /\ \A u \in Tasks \ {t} : work'[u] = work[u]
  BY DEF Moves, TypeOK
<1>2. owner = NoTask /\ ~releasing /\ status = "idle"
  BY DEF Acquirable, Coherent, IdleIsQuiet
<1>3. \A a \in Releasers : ~rel[a].live
  BY <1>2, NothingLive DEF Unusable
<1>4. IdleIsQuiet' /\ ReleaseTakesOwner'
  BY <1>2 DEF IdleIsQuiet, ReleaseTakesOwner
<1>5. ReleaseRecorded'
  BY <1>1 DEF Coherent, ReleaseRecorded
<1>6. ReleaseFlagged' /\ TeardownExclusive'
  BY <1>3 DEF ReleaseFlagged, TeardownExclusive
<1>7. ASSUME NEW u \in Tasks, work'[u] = "driving" PROVE owner' = u \/ u \in evicted'
  <2>1. CASE u = t
    BY <2>1
  <2>2. CASE u # t
    <3>1. owner # u
      BY <1>2, TaskSets
    <3>2. u \in evicted
      BY <1>1, <1>2, <1>7, <2>2, <3>1 DEF Coherent, ExclusiveDriving, Unusable
    <3>3. QED
      BY <2>2, <3>2 DEF Moves
  <2>3. QED
    BY <2>1, <2>2
<1>8. ExclusiveDriving'
  BY <1>7 DEF ExclusiveDriving
<1>9. QED
  BY <1>4, <1>5, <1>6, <1>8 DEF Coherent

(* The first block of a release by a. *)
LEMMA BeginFacts ==
  ASSUME Coherent, TypeOK, NEW a \in Releasers, NEW refund \in BOOLEAN,
         BeginRelease(a, refund), owner # NoTask \/ status \notin Unusable
  PROVE  /\ rel'[a].live
         /\ \A b \in Releasers \ {a} : rel'[b] = rel[b] /\ ~rel[b].live
         /\ IdleIsQuiet' /\ ReleaseTakesOwner' /\ ReleaseFlagged' /\ TeardownExclusive'
         /\ owner' = NoTask
         /\ status \in Unusable => status' \in Unusable
<1>1. \A b \in Releasers : ~rel[b].live
  BY NothingLive, NothingLiveOwned DEF BeginRelease, NoReleaseInProgress
<1>2. rel'[a].live /\ \A b \in Releasers \ {a} : rel'[b] = rel[b]
  BY DEF BeginRelease, TypeOK
<1>3. IdleIsQuiet' /\ ReleaseTakesOwner'
  BY DEF BeginRelease, IdleIsQuiet, ReleaseTakesOwner, Unusable
<1>4. ReleaseFlagged' /\ owner' = NoTask /\ (status \in Unusable => status' \in Unusable)
  BY DEF BeginRelease, ReleaseFlagged
<1>5. TeardownExclusive'
  BY <1>1, <1>2, <1>4 DEF TeardownExclusive
<1>6. QED
  BY <1>1, <1>2, <1>3, <1>4, <1>5

(* ... by a task whose thread leaves the page for the rest of the release. *)
LEMMA BeginKeeps ==
  ASSUME Coherent, TypeOK, NEW t \in Tasks, NEW refund \in BOOLEAN,
         BeginRelease(t, refund), owner = t,
         NEW step \in {"releasing", "failing"}, Moves(t, step)
  PROVE  Coherent'
<1>1. work'[t] = step /\ (\A u \in Tasks \ {t} : work'[u] = work[u]) /\ evicted' = evicted
  BY DEF Moves, TypeOK
<1>2. /\ rel'[t].live
      /\ \A b \in Releasers \ {t} : rel'[b] = rel[b]
      /\ IdleIsQuiet' /\ ReleaseTakesOwner' /\ ReleaseFlagged' /\ TeardownExclusive'
      /\ status \in Unusable => status' \in Unusable
  BY BeginFacts, TaskSets
<1>3. ReleaseRecorded'
  BY <1>1, <1>2, TaskSets DEF Coherent, ReleaseRecorded
<1>4. ExclusiveDriving'
  BY <1>1, <1>2 DEF Coherent, ExclusiveDriving
<1>5. QED
  BY <1>2, <1>3, <1>4 DEF Coherent

(* The second block of a release by a. *)
LEMMA FinishFacts ==
  ASSUME Coherent, TypeOK, NEW a \in Releasers, rel[a].live, FinishRelease(a)
  PROVE  /\ ~rel'[a].live
         /\ \A b \in Releasers \ {a} : rel'[b] = rel[b] /\ ~rel[b].live
         /\ IdleIsQuiet' /\ ReleaseTakesOwner' /\ ReleaseFlagged' /\ TeardownExclusive'
         /\ owner' = owner /\ owner = NoTask
         /\ status \in Unusable => status' \in Unusable
<1>1. owner = NoTask /\ \A b \in Releasers \ {a} : ~rel[b].live
  BY DEF Coherent, TeardownExclusive
<1>2. ~rel'[a].live /\ \A b \in Releasers \ {a} : rel'[b] = rel[b]
  BY DEF FinishRelease, NoRelease, TypeOK
<1>3. owner' = owner /\ releasing' = FALSE /\ (status \in Unusable => status' \in Unusable)
  BY DEF FinishRelease, StatusAfter, Unusable
<1>4. IdleIsQuiet' /\ ReleaseTakesOwner'
  BY <1>1, <1>3 DEF IdleIsQuiet, ReleaseTakesOwner
<1>5. ReleaseFlagged' /\ TeardownExclusive'
  BY <1>1, <1>2 DEF ReleaseFlagged, TeardownExclusive
<1>6. QED
  BY <1>1, <1>2, <1>3, <1>4, <1>5

(* The initial state is coherent. *)
LEMMA InitCoherent == ASSUME Init PROVE Coherent
<1>1. \A a \in Releasers : ~rel[a].live
  BY DEF Init, NoRelease
<1>2. \A t \in Tasks : work[t] = "away"
  BY DEF Init
<1>3. QED
  BY <1>1, <1>2, TaskSets DEF Init, Coherent, IdleIsQuiet, ReleaseTakesOwner, ReleaseRecorded,
     ReleaseFlagged, TeardownExclusive, ExclusiveDriving

(* One step per action. *)
LEMMA NextCoherent == ASSUME Coherent, TypeOK, [Next]_vars PROVE Coherent'
<1> USE TaskSets
<1>1. ASSUME NEW t \in Tasks, ReleaseBegin(t) PROVE Coherent'
  BY <1>1, BeginKeeps DEF ReleaseBegin, Owns
<1>2. ASSUME NEW t \in Tasks, ReleaseSkipped(t) PROVE Coherent'
  BY <1>2, MoveKeeps DEF ReleaseSkipped, session
<1>3. ASSUME NEW t \in Tasks, ReleaseEnd(t) PROVE Coherent'
  <2>1. /\ rel[t].live
        /\ FinishRelease(t)
        /\ work'[t] \in {"away", "giving up"}
        /\ \A u \in Tasks \ {t} : work'[u] = work[u] /\ (u \in evicted => u \in evicted')
    BY <1>3 DEF ReleaseEnd, Coherent, ReleaseRecorded, Moves, TypeOK
  <2>2. /\ ~rel'[t].live
        /\ \A b \in Releasers \ {t} : rel'[b] = rel[b]
        /\ IdleIsQuiet' /\ ReleaseTakesOwner' /\ ReleaseFlagged' /\ TeardownExclusive'
        /\ owner' = owner
        /\ status \in Unusable => status' \in Unusable
    BY <2>1, FinishFacts
  <2>3. ReleaseRecorded'
    BY <2>1, <2>2 DEF Coherent, ReleaseRecorded
  <2>4. ExclusiveDriving'
    BY <2>1, <2>2 DEF Coherent, ExclusiveDriving
  <2>5. QED
    BY <2>2, <2>3, <2>4 DEF Coherent
<1>4. ASSUME NEW t \in Tasks, DriverFails(t) PROVE Coherent'
  BY <1>4, MarkKeeps DEF DriverFails, MarkError
<1>5. ASSUME NEW r \in Requests, Acquire(r) PROVE Coherent'
  BY <1>5, TakeKeeps DEF Acquire
<1>6. ASSUME NEW r \in Requests, HandoffDone(r) PROVE Coherent'
  <2>1. CASE StillMine(r)
    <3>1. /\ work'[r] = "driving" /\ owner' = r
          /\ \A u \in Tasks \ {r} : work'[u] = work[u]
          /\ UNCHANGED <<session, rel, evicted>>
      BY <1>6, <2>1 DEF HandoffDone, StillMine, Moves, TypeOK, session
    <3>2. ReleaseRecorded'
      BY <1>6, <3>1 DEF HandoffDone, Coherent, ReleaseRecorded
    <3>3. ExclusiveDriving'
      BY <3>1 DEF Coherent, ExclusiveDriving, session
    <3>4. IdleIsQuiet' /\ ReleaseTakesOwner' /\ ReleaseFlagged' /\ TeardownExclusive'
      BY <3>1 DEF Coherent, IdleIsQuiet, ReleaseTakesOwner, ReleaseFlagged, TeardownExclusive, session
    <3>5. QED
      BY <3>2, <3>3, <3>4 DEF Coherent
  <2>2. CASE ~StillMine(r)
    BY <1>6, <2>2, MoveKeeps DEF HandoffDone, session
  <2>3. QED
    BY <2>1, <2>2
<1>7. ASSUME NEW r \in Requests, HandoffFailed(r) PROVE Coherent'
  <2>1. CASE StillMine(r) /\ BeginRelease(r, TRUE) /\ Moves(r, "failing")
    BY <2>1, BeginKeeps DEF StillMine
  <2>2. CASE Moves(r, "giving up") /\ UNCHANGED <<session, rel>>
    BY <1>7, <2>2, MoveKeeps DEF HandoffFailed, session
  <2>3. QED
    BY <1>7, <2>1, <2>2 DEF HandoffFailed
<1>8. ASSUME NEW r \in Requests, HandoffGiveUp(r) PROVE Coherent'
  BY <1>8, MoveKeeps DEF HandoffGiveUp, MarkError, session
<1>9. ASSUME NEW r \in Requests, RetireCheck(r) \/ RetireMark(r) PROVE Coherent'
  BY <1>9, MarkKeeps DEF RetireCheck, RetireMark, MarkError, session
<1>10. ASSUME NEW c \in Commands, AcquireForCommand(c) PROVE Coherent'
  BY <1>10, TakeKeeps DEF AcquireForCommand
<1>11. ASSUME ForceBegin PROVE Coherent'
  <2>1. BeginRelease(Forcer, FALSE) /\ status \notin Unusable /\ work' = work
    BY <1>11 DEF ForceBegin, Unusable
  <2>2. /\ \A b \in Releasers \ {Forcer} : rel'[b] = rel[b]
        /\ IdleIsQuiet' /\ ReleaseTakesOwner' /\ ReleaseFlagged' /\ TeardownExclusive'
    BY <2>1, BeginFacts
  <2>3. ReleaseRecorded'
    BY <2>1, <2>2 DEF Coherent, ReleaseRecorded
  <2>4. ASSUME NEW t \in Tasks, work'[t] = "driving" PROVE t \in evicted'
    BY <1>11, <2>1, <2>4 DEF ForceBegin, Coherent, ExclusiveDriving
  <2>5. ExclusiveDriving'
    BY <2>4 DEF ExclusiveDriving
  <2>6. QED
    BY <2>2, <2>3, <2>5 DEF Coherent
<1>12. ASSUME ForceEnd PROVE Coherent'
  <2>1. /\ \A b \in Releasers \ {Forcer} : rel'[b] = rel[b]
        /\ IdleIsQuiet' /\ ReleaseTakesOwner' /\ ReleaseFlagged' /\ TeardownExclusive'
    BY <1>12, FinishFacts DEF ForceEnd
  <2>2. ReleaseRecorded'
    BY <1>12, <2>1 DEF ForceEnd, Coherent, ReleaseRecorded
  <2>3. owner' = owner /\ (status \in Unusable => status' \in Unusable)
    BY <1>12, FinishFacts DEF ForceEnd
  <2>4. ExclusiveDriving'
    BY <1>12, <2>3 DEF ForceEnd, Coherent, ExclusiveDriving
  <2>5. QED
    BY <2>1, <2>2, <2>4 DEF Coherent
<1>13. ASSUME NEW k \in Terminators, TerminateBegin(k) \/ Interrupt(k) PROVE Coherent'
  BY <1>13, MarkKeeps DEF TerminateBegin, Interrupt
<1>14. ASSUME WatchdogCheck \/ WatchdogMark PROVE Coherent'
  BY <1>14, MarkKeeps DEF WatchdogCheck, WatchdogMark, MarkError, session
<1>15. ASSUME TargetVanished \/ PageDisconnected \/ Cleanup PROVE Coherent'
  BY <1>15, CloseKeeps DEF TargetVanished, PageDisconnected, Cleanup
<1>16. ASSUME UNCHANGED vars PROVE Coherent'
  BY <1>16, MarkKeeps DEF vars, session
<1>17. QED
  BY <1>1, <1>2, <1>3, <1>4, <1>5, <1>6, <1>7, <1>8, <1>9, <1>10, <1>11, <1>12,
     <1>13, <1>14, <1>15, <1>16 DEF Next, TaskNext, RequestNext

(***************************************************************************)
(* The inductive invariant holds in every reachable state: releases in     *)
(* flight, the release flag, the owner and the threads' positions agree.   *)
(***************************************************************************)
THEOREM Invariant == Spec => []IInv
<1>1. Init => IInv
  BY InitTypes, InitCoherent DEF IInv, Coherent
<1>2. IInv /\ [Next]_vars => IInv'
  BY NextTypes, NextCoherent DEF IInv, Coherent
<1>3. QED
  BY <1>1, <1>2, PTL DEF Spec

(***************************************************************************)
(* For any number of requests, commands and terminate calls: no teardown   *)
(* overlaps a tenure or another teardown (begin and finish of a release).  *)
(***************************************************************************)
THEOREM NoOverlappingTeardown == Spec => []TeardownExclusive
<1>1. IInv => TeardownExclusive
  BY DEF IInv
<1>2. QED
  BY <1>1, Invariant, PTL

(***************************************************************************)
(* For any number of requests, commands and terminate calls: a thread that *)
(* drives the page owns the tab, was evicted by force_release_all, or the  *)
(* tab is lost.                                                            *)
(***************************************************************************)
THEOREM OneDriver == Spec => []ExclusiveDriving
<1>1. IInv => ExclusiveDriving
  BY DEF IInv
<1>2. QED
  BY <1>1, Invariant, PTL

-----------------------------------------------------------------------------
(* Every change of the session that hands the tab to nobody and does not   *)
(* end a tenure by freeing the tab at once is a step of the lease.         *)
LEMMA LeaseSteps ==
  ASSUME TypeOK, IdleIsQuiet,
         \/ status' \in Unusable
         \/ /\ status \notin Unusable
            /\ status' \in Statuses
            /\ owner' \in {owner, NoTask}
            /\ status = "busy" /\ owner # NoTask => status' = "busy"
  PROVE  [Lease!LeaseNext]_(Lease!leaseVars)
<1>1. CASE status' \in Unusable
  <2>1. LeasePhase' = "gone" /\ LeaseHolder' = NoTask
    BY <1>1 DEF LeasePhase, LeaseHolder, Unusable
  <2>2. QED
    BY <2>1 DEF Lease!LeaseNext, Lease!Lose
<1>2. CASE /\ status \in {"idle", "busy"}
           /\ status' \in {"idle", "busy"}
           /\ owner' \in {owner, NoTask}
           /\ status = "busy" /\ owner # NoTask => status' = "busy"
  <2>1. CASE status = "idle"
    <3>1. owner = NoTask /\ owner' = NoTask
      BY <1>2, <2>1 DEF IdleIsQuiet
    <3>2. LeasePhase \in {"free", "draining"} /\ LeaseHolder = NoTask
      BY <2>1, <3>1 DEF LeasePhase, LeaseHolder, Unusable
    <3>3. LeasePhase' \in {"free", "draining"} /\ LeaseHolder' = NoTask
      BY <1>2, <3>1 DEF LeasePhase, LeaseHolder, Unusable
    <3>4. QED
      BY <3>2, <3>3 DEF Lease!LeaseNext, Lease!Drain, Lease!Settle, Lease!leaseVars
  <2>2. CASE status = "busy" /\ owner = NoTask
    <3>1. LeasePhase = "draining" /\ LeaseHolder = NoTask
      BY <2>2 DEF LeasePhase, LeaseHolder, Unusable
    <3>2. LeasePhase' \in {"free", "draining"} /\ LeaseHolder' = NoTask
      BY <1>2, <2>2 DEF LeasePhase, LeaseHolder, Unusable
    <3>3. QED
      BY <3>1, <3>2 DEF Lease!LeaseNext, Lease!Settle, Lease!leaseVars
  <2>3. CASE status = "busy" /\ owner # NoTask
    <3>1. LeasePhase = "held" /\ LeaseHolder = owner /\ status' = "busy"
      BY <1>2, <2>3 DEF LeasePhase, LeaseHolder, Unusable
    <3>2. CASE owner' = owner
      BY <2>3, <3>1, <3>2 DEF LeasePhase, LeaseHolder, Unusable, Lease!leaseVars
    <3>3. CASE owner' = NoTask
      <4>1. LeasePhase' = "draining" /\ LeaseHolder' = NoTask
        BY <3>1, <3>3 DEF LeasePhase, LeaseHolder, Unusable
      <4>2. QED
        BY <3>1, <4>1 DEF Lease!LeaseNext, Lease!Drain
    <3>4. QED
      BY <1>2, <3>2, <3>3
  <2>4. QED
    BY <1>2, <2>1, <2>2, <2>3
<1>3. QED
  BY <1>1, <1>2 DEF TypeOK, Statuses, Unusable

(* Taking an acquirable tab is a grant. *)
LEMMA GrantStep ==
  ASSUME NEW t \in Tasks, Acquirable, status' = "busy", owner' = t
  PROVE  Lease!LeaseNext
<1>1. LeasePhase = "free"
  BY DEF Acquirable, LeasePhase, Unusable
<1>2. LeasePhase' = "held" /\ LeaseHolder' = t
  BY TaskSets DEF LeasePhase, LeaseHolder, Unusable
<1>3. QED
  BY <1>1, <1>2 DEF Lease!LeaseNext, Lease!Grant

(* Every step of the session is a step of the lease or changes neither its *)
(* phase nor its holder.                                                   *)
LEMMA NextLease == ASSUME IInv, [Next]_vars PROVE [Lease!LeaseNext]_(Lease!leaseVars)
<1> USE TaskSets
<1>0. TypeOK /\ TypeOK' /\ IdleIsQuiet /\ Coherent
  BY NextTypes DEF IInv, Coherent
<1>a. status \in Statuses /\ status' \in Statuses
  BY <1>0 DEF TypeOK
<1>b. ASSUME MarkError PROVE [Lease!LeaseNext]_(Lease!leaseVars)
  BY <1>0, <1>b, LeaseSteps DEF MarkError, Unusable
<1>c. ASSUME MarkClosed PROVE [Lease!LeaseNext]_(Lease!leaseVars)
  BY <1>0, <1>c, LeaseSteps DEF MarkClosed, session, Unusable
<1>d. ASSUME UNCHANGED <<status, owner>> PROVE [Lease!LeaseNext]_(Lease!leaseVars)
  BY <1>0, <1>a, <1>d, LeaseSteps DEF Unusable
<1>e. ASSUME NEW a \in Releasers, NEW refund \in BOOLEAN, BeginRelease(a, refund)
      PROVE  [Lease!LeaseNext]_(Lease!leaseVars)
  BY <1>0, <1>a, <1>e, LeaseSteps DEF BeginRelease
<1>f. ASSUME NEW a \in Releasers, rel[a].live, FinishRelease(a)
      PROVE  [Lease!LeaseNext]_(Lease!leaseVars)
  <2>1. owner' = owner /\ owner = NoTask
    BY <1>0, <1>f, FinishFacts
  <2>2. status \in Unusable => status' \in Unusable
    BY <1>0, <1>f, FinishFacts
  <2>3. QED
    BY <1>0, <1>a, <2>1, <2>2, LeaseSteps
<1>1. ASSUME NEW t \in Tasks, TaskNext(t) PROVE [Lease!LeaseNext]_(Lease!leaseVars)
  <2>1. CASE ReleaseBegin(t)
    BY <1>e, <2>1 DEF ReleaseBegin
  <2>2. CASE ReleaseSkipped(t)
    BY <1>d, <2>2 DEF ReleaseSkipped, session
  <2>3. CASE ReleaseEnd(t)
    BY <1>0, <1>f, <2>3 DEF ReleaseEnd, Coherent, ReleaseRecorded
  <2>4. CASE DriverFails(t)
    BY <1>b, <2>4 DEF DriverFails
  <2>5. QED
    BY <1>1, <2>1, <2>2, <2>3, <2>4 DEF TaskNext
<1>2. ASSUME NEW r \in Requests, RequestNext(r) PROVE [Lease!LeaseNext]_(Lease!leaseVars)
  <2>1. CASE Acquire(r)
    BY <2>1, GrantStep DEF Acquire
  <2>2. CASE HandoffDone(r)
    BY <1>d, <2>2 DEF HandoffDone, session
  <2>3. CASE HandoffFailed(r)
    BY <1>d, <1>e, <2>3 DEF HandoffFailed, session
  <2>4. CASE HandoffGiveUp(r)
    BY <1>b, <1>d, <2>4 DEF HandoffGiveUp, session
  <2>5. CASE RetireCheck(r) \/ RetireMark(r)
    BY <1>b, <1>d, <2>5 DEF RetireCheck, RetireMark, session
  <2>6. QED
    BY <1>2, <2>1, <2>2, <2>3, <2>4, <2>5 DEF RequestNext
<1>3. ASSUME NEW c \in Commands, AcquireForCommand(c) PROVE [Lease!LeaseNext]_(Lease!leaseVars)
  BY <1>3, GrantStep DEF AcquireForCommand
<1>4. ASSUME ForceBegin \/ ForceEnd PROVE [Lease!LeaseNext]_(Lease!leaseVars)
  BY <1>4, <1>e, <1>f DEF ForceBegin, ForceEnd
<1>5. ASSUME NEW k \in Terminators, TerminateBegin(k) \/ Interrupt(k)
      PROVE  [Lease!LeaseNext]_(Lease!leaseVars)
  BY <1>5, <1>d DEF TerminateBegin, Interrupt
<1>6. ASSUME \/ WatchdogCheck \/ WatchdogMark
             \/ TargetVanished \/ PageDisconnected \/ Cleanup
      PROVE  [Lease!LeaseNext]_(Lease!leaseVars)
  BY <1>6, <1>b, <1>c, <1>d DEF WatchdogCheck, WatchdogMark, TargetVanished, PageDisconnected,
     Cleanup, session
<1>7. ASSUME UNCHANGED vars PROVE [Lease!LeaseNext]_(Lease!leaseVars)
  BY <1>7, <1>d DEF vars, session
<1>8. QED
  BY <1>1, <1>2, <1>3, <1>4, <1>5, <1>6, <1>7 DEF Next

(***************************************************************************)
(* TabSession implements TabLease: a lost tab is never handed out again, a *)
(* grant is made only of a free tab, and a tab never passes from one task  *)
(* to another without draining.                                            *)
(***************************************************************************)
THEOREM SessionImplementsLease == Spec => ImplementsLease
<1>1. Init => Lease!LeaseInit
  BY DEF Init, Lease!LeaseInit, LeasePhase, LeaseHolder, Unusable
<1>2. IInv /\ [Next]_vars => [Lease!LeaseNext]_(Lease!leaseVars)
  BY NextLease
<1>3. QED
  BY <1>1, <1>2, Invariant, PTL DEF Spec, ImplementsLease, Lease!LeaseSpec

-----------------------------------------------------------------------------
(* The count falls only in the first block of a release of a request's own  *)
(* tenure.                                                                  *)
LEMMA CountFalls ==
  ASSUME TypeOK, [Next]_vars, requestCount' < requestCount
  PROVE  owner \in Requests /\ owner' = NoTask
<1>0. requestCount \in Nat /\ ~UNCHANGED requestCount
  BY SessionAssumption DEF SessionAssumption, TypeOK
<1>1. ASSUME NEW a \in Releasers, BeginRelease(a, FALSE) PROVE FALSE
  BY <1>0, <1>1 DEF BeginRelease, Refunded
<1>2. ASSUME NEW t \in Tasks, ReleaseBegin(t) PROVE owner \in Requests /\ owner' = NoTask
  BY <1>1, <1>2, TaskSets DEF ReleaseBegin, Owns, MayRefund, BeginRelease
<1>3. ASSUME NEW r \in Requests, HandoffFailed(r) PROVE owner \in Requests /\ owner' = NoTask
  BY <1>0, <1>3 DEF HandoffFailed, StillMine, BeginRelease, session
<1>4. ASSUME NEW r \in Requests, Acquire(r) PROVE FALSE
  BY <1>0, <1>4 DEF Acquire
<1>5. ~ForceBegin
  BY <1>1, TaskSets DEF ForceBegin
<1>6. ASSUME \/ \E t \in Tasks : ReleaseSkipped(t) \/ ReleaseEnd(t) \/ DriverFails(t)
             \/ \E r \in Requests : HandoffDone(r) \/ HandoffGiveUp(r)
                                     \/ RetireCheck(r) \/ RetireMark(r)
             \/ \E c \in Commands : AcquireForCommand(c)
             \/ ForceEnd
             \/ \E k \in Terminators : TerminateBegin(k) \/ Interrupt(k)
             \/ WatchdogCheck \/ WatchdogMark
             \/ TargetVanished \/ PageDisconnected \/ Cleanup
             \/ UNCHANGED vars
      PROVE  UNCHANGED requestCount
  BY <1>6 DEF ReleaseSkipped, ReleaseEnd, DriverFails, HandoffDone, HandoffGiveUp, RetireCheck,
     RetireMark, AcquireForCommand, ForceEnd, TerminateBegin, Interrupt, WatchdogCheck,
     WatchdogMark, TargetVanished, PageDisconnected, Cleanup, FinishRelease, MarkError,
     MarkClosed, vars, session
<1>7. QED
  BY <1>0, <1>2, <1>3, <1>4, <1>5, <1>6 DEF Next, TaskNext, RequestNext

(***************************************************************************)
(* For any number of requests and commands: a rollback of request_count    *)
(* takes back the count of the tenure that ends, never another's and never *)
(* a command's, which was not counted (release with rollback).             *)
(***************************************************************************)
THEOREM RefundsAreOwn == Spec => RefundsOwnTenure
<1>1. TypeOK /\ [Next]_vars => [requestCount' < requestCount => owner \in Requests /\ owner' = NoTask]_vars
  BY CountFalls
<1>2. QED
  BY <1>1, TypeCorrect, PTL DEF Spec, RefundsOwnTenure

-----------------------------------------------------------------------------
(* As long as the tab is not lost, a terminate call that may still touch    *)
(* the page is the only one, its gate is shut, and no release lifts it.     *)
ArmedAlone == status \in Unusable \/ \A k \in armed : armed = {k} /\ gate /\ ~interrupted

LEMMA NextArmed == ASSUME ArmedAlone, TypeOK, [Next]_vars PROVE ArmedAlone'
<1>a. ASSUME UNCHANGED <<armed, gate, interrupted>>, status \in Unusable => status' \in Unusable
      PROVE  ArmedAlone'
  BY <1>a DEF ArmedAlone
<1>b. ASSUME MarkError \/ MarkClosed, UNCHANGED armed PROVE ArmedAlone'
  BY <1>b DEF MarkError, MarkClosed, ArmedAlone, Unusable, session
<1>c. ASSUME NEW a \in Releasers, NEW refund \in BOOLEAN, BeginRelease(a, refund), UNCHANGED armed
      PROVE  ArmedAlone'
  BY <1>a, <1>c DEF BeginRelease
<1>d. ASSUME NEW a \in Releasers, FinishRelease(a), UNCHANGED armed PROVE ArmedAlone'
  <2>1. status \in Unusable => status' \in Unusable
    BY <1>d DEF FinishRelease, StatusAfter, Unusable
  <2>2. ~interrupted => gate' = gate /\ interrupted' = interrupted
    BY <1>d DEF FinishRelease, GateLiftedBy, TypeOK
  <2>3. QED
    BY <1>d, <2>1, <2>2 DEF ArmedAlone
<1>e. ASSUME UNCHANGED <<armed, session>> PROVE ArmedAlone'
  BY <1>a, <1>e DEF session
<1>1. ASSUME NEW t \in Tasks, TaskNext(t) PROVE ArmedAlone'
  BY <1>b, <1>c, <1>d, <1>e, <1>1, TaskSets
     DEF TaskNext, ReleaseBegin, ReleaseSkipped, ReleaseEnd, DriverFails
<1>2. ASSUME NEW r \in Requests, RequestNext(r) PROVE ArmedAlone'
  <2>1. CASE Acquire(r)
    BY <1>a, <2>1 DEF Acquire, Acquirable, Unusable
  <2>2. CASE HandoffDone(r) \/ HandoffFailed(r)
    BY <1>c, <1>e, <2>2, TaskSets DEF HandoffDone, HandoffFailed
  <2>3. CASE HandoffGiveUp(r) \/ RetireCheck(r) \/ RetireMark(r)
    BY <1>b, <1>e, <2>3 DEF HandoffGiveUp, RetireCheck, RetireMark
  <2>4. QED
    BY <1>2, <2>1, <2>2, <2>3 DEF RequestNext
<1>3. ASSUME NEW c \in Commands, AcquireForCommand(c) PROVE ArmedAlone'
  BY <1>a, <1>3 DEF AcquireForCommand, Acquirable, Unusable
<1>4. CASE ForceBegin \/ ForceEnd
  BY <1>c, <1>d, <1>4, TaskSets DEF ForceBegin, ForceEnd
<1>5. ASSUME NEW k \in Terminators, TerminateBegin(k) PROVE ArmedAlone'
  BY <1>5 DEF TerminateBegin, ArmedAlone
<1>6. ASSUME NEW k \in Terminators, Interrupt(k) PROVE ArmedAlone'
  <2>1. status \in Unusable \/ armed' = {}
    BY <1>6 DEF Interrupt, ArmedAlone
  <2>2. QED
    BY <1>6, <2>1 DEF Interrupt, ArmedAlone
<1>7. CASE WatchdogCheck \/ WatchdogMark \/ TargetVanished \/ PageDisconnected \/ Cleanup
  BY <1>b, <1>e, <1>7 DEF WatchdogCheck, WatchdogMark, TargetVanished, PageDisconnected, Cleanup
<1>8. CASE UNCHANGED vars
  BY <1>e, <1>8 DEF vars
<1>9. QED
  BY <1>1, <1>2, <1>3, <1>4, <1>5, <1>6, <1>7, <1>8 DEF Next

(* Only an acquire gives the tab an owner.                                  *)
LEMMA OwnerComes ==
  ASSUME [Next]_vars, owner' \notin {owner, NoTask}
  PROVE  status \notin Unusable /\ ~gate /\ UNCHANGED armed
<1>1. ASSUME NEW r \in Requests, Acquire(r) PROVE status \notin Unusable /\ ~gate
  BY <1>1 DEF Acquire, Acquirable, Unusable
<1>2. ASSUME NEW c \in Commands, AcquireForCommand(c) PROVE status \notin Unusable /\ ~gate
  BY <1>2 DEF AcquireForCommand, Acquirable, Unusable
<1>3. ASSUME \/ \E t \in Tasks : TaskNext(t)
             \/ \E r \in Requests : HandoffDone(r) \/ HandoffFailed(r) \/ HandoffGiveUp(r)
                                     \/ RetireCheck(r) \/ RetireMark(r)
             \/ ForceBegin \/ ForceEnd
             \/ \E k \in Terminators : TerminateBegin(k) \/ Interrupt(k)
             \/ WatchdogCheck \/ WatchdogMark
             \/ TargetVanished \/ PageDisconnected \/ Cleanup
             \/ UNCHANGED vars
      PROVE  owner' \in {owner, NoTask}
  BY <1>3 DEF TaskNext, ReleaseBegin, ReleaseSkipped, ReleaseEnd, DriverFails, HandoffDone,
     HandoffFailed, HandoffGiveUp, RetireCheck, RetireMark, ForceBegin, ForceEnd, TerminateBegin,
     Interrupt, WatchdogCheck, WatchdogMark, TargetVanished, PageDisconnected, Cleanup,
     BeginRelease, FinishRelease, MarkError, MarkClosed, vars, session
<1>4. (\E r \in Requests : Acquire(r)) \/ \E c \in Commands : AcquireForCommand(c)
  BY <1>3 DEF Next, RequestNext
<1>5. QED
  BY <1>1, <1>2, <1>4 DEF Acquire, AcquireForCommand

(***************************************************************************)
(* For any number of terminate calls: from begin_termination to the end of *)
(* its interrupt, while the page may be stopped or refreshed, the tab is   *)
(* not handed to another task.                                             *)
(***************************************************************************)
THEOREM InterruptsHitTheirTask == Spec => InterruptHitsOnlyItsTask
<1>1. Init => ArmedAlone
  BY DEF Init, ArmedAlone
<1>2. TypeOK /\ ArmedAlone /\ [Next]_vars => ArmedAlone'
  BY NextArmed
<1>3. TypeOK /\ ArmedAlone /\ [Next]_vars => [armed # {} => owner' \in {owner, NoTask}]_vars
  BY OwnerComes DEF ArmedAlone
<1>4. QED
  BY <1>1, <1>2, <1>3, TypeCorrect, PTL DEF Spec, InterruptHitsOnlyItsTask
=============================================================================
