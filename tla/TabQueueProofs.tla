--------------------------- MODULE TabQueueProofs ---------------------------
(***************************************************************************)
(* Proofs about TabQueue for any number of calls, tabs and keys.           *)
(***************************************************************************)
EXTENDS TabQueue, TLAPS

(* Every call but a new one has a key, and a line where its key has one. *)
Queued ==
  \A t \in Tasks :
    task[t] # "new" => key[t] \in Keys /\ (InLine(t) => mine[t] \in Lines)

(* A tab that is held is in use or gone. *)
Held ==
  \A t \in Tasks : task[t] \in Holding => got[t] \in Tabs /\ status[got[t]] # "idle"

(* Stops and starts of monitors exclude each other. *)
Exclusive == \A t \in Tasks : task[t] = "stopping" => starting = {}

IInv ==
  /\ TypeOK
  /\ Queued
  /\ OneLinePerKey
  /\ Held
  /\ OneHolder
  /\ Exclusive
  /\ MonitorGivesWay

LEMMA InitInv == Init => IInv
BY QueueAssumption
   DEF Init, IInv, TypeOK, Queued, OneLinePerKey, Held, OneHolder, Exclusive,
       MonitorGivesWay, Steps, Holding, Lines, LinedKeys, Keys, InLine

(* Leaving a line, for a call that does not wait after that, keeps the      *)
(* others in theirs.                                                        *)
LEMMA UnregisterType ==
  ASSUME TypeOK, NEW t \in Tasks, mine[t] \in Lines, key[t] \in LinedKeys, Unregister(t)
  PROVE  /\ queue' \in [Lines -> SUBSET Tasks]
         /\ line' \in [LinedKeys -> Lines \cup {None}]
         /\ UNCHANGED <<mine, token, counter>>
BY DEF TypeOK, Unregister, Forgets

LEMMA UnregisterKeeps ==
  ASSUME TypeOK, OneLinePerKey, QueueAssumption,
         NEW t \in Tasks, mine[t] \in Lines, key[t] \in LinedKeys, Unregister(t),
         NEW u \in Tasks, u # t, task[u] = "waiting", InLine(u)
  PROVE  mine[u] = line'[key[u]] /\ u \in queue'[mine[u]]
<1>1. mine[u] = line[key[u]] /\ u \in queue[mine[u]] /\ key[u] \in LinedKeys
  BY DEF OneLinePerKey, InLine
<1>2. mine[u] \in Lines \cup {None}
  BY DEF TypeOK
<1>3. u \in queue'[mine[u]]
  BY <1>1, <1>2 DEF TypeOK, Unregister
<1>4. CASE key[u] = key[t] /\ Forgets(t, queue[mine[t]] \ {t})
  <2>1. mine[u] = mine[t]
    BY <1>1, <1>4 DEF Forgets
  <2> QED
    BY <1>1, <1>4, <2>1 DEF Forgets
<1>5. CASE ~(key[u] = key[t] /\ Forgets(t, queue[mine[t]] \ {t}))
  BY <1>1, <1>3, <1>5 DEF TypeOK, Unregister
<1> QED
  BY <1>4, <1>5

(* A call that stops waiting, and leaves its line if it stands in one,      *)
(* keeps OneLinePerKey.                                                     *)
LEMMA LeaveKeepsLines ==
  ASSUME IInv, QueueAssumption, NEW t \in Tasks, key' = key,
         key[t] \in Keys, InLine(t) => mine[t] \in Lines,
         IF InLine(t) THEN Unregister(t) ELSE UNCHANGED lines,
         \A u \in Tasks \ {t} : task'[u] = task[u],
         InLine(t) => task'[t] # "waiting"
  PROVE  /\ OneLinePerKey'
         /\ queue' \in [Lines -> SUBSET Tasks]
         /\ line' \in [LinedKeys -> Lines \cup {None}]
         /\ UNCHANGED <<mine, token, counter>>
<1>1. CASE InLine(t)
  <2>1. key[t] \in LinedKeys /\ mine[t] \in Lines /\ Unregister(t)
    BY <1>1 DEF InLine
  <2>2. /\ queue' \in [Lines -> SUBSET Tasks]
        /\ line' \in [LinedKeys -> Lines \cup {None}]
        /\ UNCHANGED <<mine, token, counter>>
    BY <2>1, UnregisterType DEF IInv
  <2>3. ASSUME NEW u \in Tasks, task'[u] = "waiting", InLine(u)'
        PROVE  mine'[u] = line'[key'[u]] /\ u \in queue'[mine'[u]]
    <3>1. u # t /\ task[u] = "waiting" /\ InLine(u)
      BY <1>1, <2>3 DEF InLine
    <3> QED
      BY <2>1, <2>2, <3>1, UnregisterKeeps DEF IInv
  <2> QED
    BY <2>2, <2>3 DEF OneLinePerKey
<1>2. CASE ~InLine(t)
  BY <1>2 DEF IInv, OneLinePerKey, InLine, lines, TypeOK
<1> QED
  BY <1>1, <1>2

(* A grant keeps everything but the lines. *)
LEMMA GrantKeeps ==
  ASSUME IInv, QueueAssumption, NEW t \in Tasks, NEW ss \in SUBSET Tabs,
         task[t] = "waiting", Grant(t, ss),
         IF InLine(t) THEN Unregister(t) ELSE UNCHANGED lines
  PROVE  IInv'
<1>1. PICK s \in ss :
        /\ status[s] = "idle"
        /\ status' = [status EXCEPT ![s] = "busy"]
        /\ monitor' = [monitor EXCEPT ![s] = IF @ = "on" THEN "stopping" ELSE @]
        /\ task' = [task EXCEPT ![t] = "taken"]
        /\ got' = [got EXCEPT ![t] = s]
        /\ UNCHANGED <<key, starting>>
  BY DEF Grant, Free
<1>2. s \in Tabs
  OBVIOUS
<1>3. key[t] \in Keys /\ (InLine(t) => mine[t] \in Lines)
  BY DEF IInv, Queued
<1>4. /\ OneLinePerKey'
      /\ queue' \in [Lines -> SUBSET Tasks]
      /\ line' \in [LinedKeys -> Lines \cup {None}]
      /\ UNCHANGED <<mine, token, counter>>
  <2>1. key' = key /\ (\A u \in Tasks \ {t} : task'[u] = task[u]) /\ task'[t] # "waiting"
    BY <1>1 DEF IInv, TypeOK
  <2> QED
    BY <1>3, <2>1, LeaveKeepsLines
<1>5. TypeOK'
  BY <1>1, <1>2, <1>4 DEF IInv, TypeOK, Steps
<1>6. Queued'
  BY <1>1, <1>4 DEF IInv, TypeOK, Queued, InLine
<1>7. Held'
  BY <1>1, <1>2 DEF IInv, TypeOK, Held, Holding
<1>8. OneHolder'
  BY <1>1, <1>2 DEF IInv, TypeOK, Held, Holding, OneHolder
<1>9. Exclusive' /\ MonitorGivesWay'
  BY <1>1, <1>2 DEF IInv, TypeOK, Held, Holding, Exclusive, MonitorGivesWay
<1> QED
  BY <1>4, <1>5, <1>6, <1>7, <1>8, <1>9 DEF IInv

(* A call takes its place in a line. *)
LEMMA JoinKeeps ==
  ASSUME IInv, QueueAssumption, NEW t \in Tasks, NEW k \in Keys, Join(t, k)
  PROVE  IInv'
<1>1. k \in LinedKeys /\ k # None
  BY DEF Join, QueueAssumption
<1> DEFINE l == IF line[k] = None THEN t ELSE line[k]
<1>2. l \in Lines
  BY <1>1 DEF IInv, TypeOK, Lines
<1>3. /\ task[t] = "new"
      /\ task' = [task EXCEPT ![t] = "waiting"]
      /\ key' = [key EXCEPT ![t] = k]
      /\ mine' = [mine EXCEPT ![t] = l]
      /\ token' = [token EXCEPT ![t] = counter + 1]
      /\ counter' = counter + 1
      /\ line' = [line EXCEPT ![k] = l]
      /\ queue' = [queue EXCEPT ![l] = @ \cup {t}]
      /\ UNCHANGED <<got, status, monitor, starting>>
  BY DEF Join
<1> HIDE DEF l
<1>4. TypeOK'
  BY <1>1, <1>2, <1>3 DEF IInv, TypeOK, Steps
<1>5. Queued'
  BY <1>1, <1>2, <1>3 DEF IInv, TypeOK, Queued, InLine
<1>6. OneLinePerKey'
  <2>1. ASSUME NEW u \in Tasks, task'[u] = "waiting", InLine(u)'
        PROVE  mine'[u] = line'[key'[u]] /\ u \in queue'[mine'[u]]
    <3>1. CASE u = t
      BY <1>1, <1>2, <1>3, <3>1 DEF IInv, TypeOK
    <3>2. CASE u # t
      <4>1. task[u] = "waiting" /\ InLine(u)
        BY <1>3, <2>1, <3>2 DEF IInv, TypeOK, InLine
      <4>2. mine[u] = line[key[u]] /\ u \in queue[mine[u]] /\ mine[u] \in Lines
        BY <4>1 DEF IInv, OneLinePerKey, Queued
      <4>3. key[u] = k => l = line[k]
        BY <4>2 DEF l, QueueAssumption, Lines
      <4> QED
        BY <1>1, <1>2, <1>3, <3>2, <4>1, <4>2, <4>3 DEF IInv, TypeOK, InLine
    <3> QED
      BY <3>1, <3>2
  <2> QED
    BY <2>1 DEF OneLinePerKey
<1>7. Held' /\ OneHolder' /\ Exclusive' /\ MonitorGivesWay'
  BY <1>3 DEF IInv, TypeOK, Held, OneHolder, Exclusive, MonitorGivesWay, Holding
<1> QED
  BY <1>4, <1>5, <1>6, <1>7 DEF IInv

(* The handoff ends, one way or the other. *)
LEMMA HandOverKeeps ==
  ASSUME IInv, QueueAssumption, NEW t \in Tasks, HandOver(t) \/ HandOverFails(t)
  PROVE  IInv'
<1>1. /\ task[t] = "stopping" /\ UnregisterAgain(t)
      /\ UNCHANGED <<key, monitor, starting>>
  BY DEF HandOver, HandOverFails
<1>2. /\ key[t] \in Keys /\ (InLine(t) => mine[t] \in Lines)
      /\ got[t] \in Tabs /\ status[got[t]] # "idle" /\ starting = {}
  BY <1>1 DEF IInv, Queued, Held, Holding, Exclusive
<1>3. \/ /\ task' = [task EXCEPT ![t] = "driving"] /\ UNCHANGED <<got, status>>
         /\ monitor[got[t]] = "off"
      \/ /\ task' = [task EXCEPT ![t] = IF InLine(t) THEN "over" ELSE "waiting"]
         /\ got' = [got EXCEPT ![t] = None]
         /\ status' = status \/ status' = [status EXCEPT ![got[t]] = "gone"]
  BY DEF HandOver, HandOverFails, Lost
<1>4. (\A u \in Tasks \ {t} : task'[u] = task[u]) /\ (InLine(t) => task'[t] # "waiting")
  BY <1>3 DEF IInv, TypeOK
<1>5. /\ OneLinePerKey'
      /\ queue' \in [Lines -> SUBSET Tasks]
      /\ line' \in [LinedKeys -> Lines \cup {None}]
      /\ UNCHANGED <<mine, token, counter>>
  BY <1>1, <1>2, <1>4, LeaveKeepsLines DEF UnregisterAgain
<1>6. TypeOK'
  BY <1>1, <1>2, <1>3, <1>5 DEF IInv, TypeOK, Steps
<1>7. Queued'
  BY <1>1, <1>3, <1>5 DEF IInv, TypeOK, Queued, InLine
<1>8. Held' /\ OneHolder'
  BY <1>1, <1>2, <1>3 DEF IInv, TypeOK, Held, Holding, OneHolder
<1>9. Exclusive' /\ MonitorGivesWay'
  BY <1>1, <1>2, <1>3 DEF IInv, TypeOK, Exclusive, MonitorGivesWay
<1> QED
  BY <1>5, <1>6, <1>7, <1>8, <1>9 DEF IInv

(* Stops, releases and quits leave keys and lines alone. *)
LEMMA PlainKeeps ==
  ASSUME IInv, QueueAssumption, NEW t \in Tasks,
         StopMonitor(t) \/ ReleaseBegin(t) \/ ReleaseEnd(t) \/ Quit(t)
  PROVE  IInv'
<1>1. UNCHANGED <<key, lines>>
  BY DEF StopMonitor, ReleaseBegin, ReleaseEnd, Quit
<1>2. task[t] \in Holding /\ got[t] \in Tabs /\ status[got[t]] # "idle" /\ key[t] \in Keys
  BY DEF IInv, Queued, Held, Holding, StopMonitor, ReleaseBegin, ReleaseEnd, Quit
<1>3. (\A u \in Tasks \ {t} : task'[u] = task[u]) /\ task'[t] # "waiting" /\ task'[t] \in Steps
  BY DEF IInv, TypeOK, Steps, StopMonitor, ReleaseBegin, ReleaseEnd, Quit
<1>4. TypeOK'
  BY <1>1, <1>2 DEF IInv, TypeOK, Steps, StopMonitor, ReleaseBegin, ReleaseEnd, Quit, lines
<1>5. Queued' /\ OneLinePerKey'
  BY <1>1, <1>2, <1>3 DEF IInv, Queued, OneLinePerKey, InLine, lines, Holding
<1>6. Held' /\ OneHolder'
  BY <1>2 DEF IInv, TypeOK, Held, OneHolder, Holding, StopMonitor, ReleaseBegin, ReleaseEnd, Quit
<1>7. Exclusive' /\ MonitorGivesWay'
  BY <1>2 DEF IInv, TypeOK, Held, OneHolder, Holding, Exclusive, MonitorGivesWay,
              TransitionFree, StopMonitor, ReleaseBegin, ReleaseEnd, Quit
<1> QED
  BY <1>4, <1>5, <1>6, <1>7 DEF IInv

(* What happens to a tab on its own. *)
LEMMA TabKeeps ==
  ASSUME IInv, NEW s \in Tabs, Tab(s)
  PROVE  IInv'
<1>1. UNCHANGED <<call, lines>>
  BY DEF Tab, TabGone, StartBegin, StartEnd, Suspend, MonitorEnds
<1>2. TypeOK'
  BY <1>1 DEF IInv, TypeOK, call, lines, Tab, TabGone, StartBegin, StartEnd, Suspend, MonitorEnds
<1>3. Queued' /\ OneLinePerKey'
  BY <1>1 DEF IInv, Queued, OneLinePerKey, InLine, call, lines
<1>4. Held' /\ OneHolder'
  BY <1>1 DEF IInv, TypeOK, Held, OneHolder, call, Tab, TabGone, StartBegin, StartEnd, Suspend, MonitorEnds
<1>5. Exclusive'
  BY <1>1 DEF IInv, TypeOK, Exclusive, TransitionFree, call, Tab, TabGone, StartBegin, StartEnd,
              Suspend, MonitorEnds
<1>6. MonitorGivesWay'
  BY <1>1 DEF IInv, TypeOK, Held, Holding, MonitorGivesWay, MayListen, call, Tab, TabGone, StartBegin,
              StartEnd, Suspend, MonitorEnds
<1> QED
  BY <1>2, <1>3, <1>4, <1>5, <1>6 DEF IInv

(* The invariant is inductive. *)
LEMMA NextInv == IInv /\ [Next]_vars => IInv'
<1> SUFFICES ASSUME IInv, [Next]_vars PROVE IInv'
  OBVIOUS
<1> USE QueueAssumption
<1>1. ASSUME NEW t \in Tasks, NEW k \in Keys, Join(t, k) PROVE IInv'
  BY <1>1, JoinKeeps
<1>2. ASSUME NEW t \in Tasks, NEW k \in Keys, AskRaw(t, k) PROVE IInv'
  BY <1>2 DEF AskRaw, lines, IInv, TypeOK, Queued, OneLinePerKey, Held, OneHolder, Exclusive,
              MonitorGivesWay, Steps, Holding, InLine, QueueAssumption
<1>3. ASSUME NEW t \in Tasks,
             Acquire(t) \/ AcquireByExactUrl(t) \/ AcquireByRouteDomain(t)
               \/ AcquireByRouteGroup(t) \/ AcquireByIndex(t) \/ AcquireByRawTabId(t)
      PROVE  IInv'
  <2>1. /\ task[t] = "waiting" /\ key[t] \in Keys
        /\ Grant(t, Selects[AnyKey]) \/ Grant(t, Matching(t))
    BY <1>3 DEF Acquire, AcquireByExactUrl, AcquireByRouteDomain, AcquireByRouteGroup,
                AcquireByIndex, AcquireByRawTabId, FromLine, IInv, Queued
  <2>2. IF InLine(t) THEN Unregister(t) ELSE UNCHANGED lines
    BY <1>3 DEF Acquire, AcquireByExactUrl, AcquireByRouteDomain, AcquireByRouteGroup,
                AcquireByIndex, AcquireByRawTabId, FromLine, InLine, QueueAssumption
  <2>3. Selects[AnyKey] \in SUBSET Tabs /\ Matching(t) \in SUBSET Tabs
    BY <2>1 DEF QueueAssumption, Matching, Keys, LinedKeys
  <2> QED
    BY <2>1, <2>2, <2>3, GrantKeeps
<1>4. ASSUME NEW t \in Tasks, GiveUp(t) PROVE IInv'
  <2>1. /\ task[t] = "waiting" /\ key[t] \in Keys /\ (InLine(t) => mine[t] \in Lines)
        /\ task' = [task EXCEPT ![t] = "left"]
        /\ UNCHANGED <<key, got, status, monitor, starting>>
        /\ IF InLine(t) THEN Unregister(t) ELSE UNCHANGED lines
    BY <1>4 DEF GiveUp, IInv, Queued
  <2>2. (\A u \in Tasks \ {t} : task'[u] = task[u]) /\ task'[t] # "waiting"
    BY <2>1 DEF IInv, TypeOK
  <2>3. /\ OneLinePerKey'
        /\ queue' \in [Lines -> SUBSET Tasks]
        /\ line' \in [LinedKeys -> Lines \cup {None}]
        /\ UNCHANGED <<mine, token, counter>>
    BY <2>1, <2>2, LeaveKeepsLines
  <2> QED
    BY <2>1, <2>3 DEF IInv, TypeOK, Queued, Held, OneHolder, Exclusive, MonitorGivesWay, Steps,
                      Holding, InLine
<1>5. ASSUME NEW t \in Tasks, StopMonitor(t) \/ ReleaseBegin(t) \/ ReleaseEnd(t) \/ Quit(t) PROVE IInv'
  BY <1>5, PlainKeeps
<1>6. ASSUME NEW t \in Tasks, HandOver(t) \/ HandOverFails(t) PROVE IInv'
  BY <1>6, HandOverKeeps
<1>7. ASSUME NEW s \in Tabs, Tab(s) PROVE IInv'
  BY <1>7, TabKeeps
<1>8. ASSUME UNCHANGED vars PROVE IInv'
  BY <1>8 DEF vars, call, lines, IInv, TypeOK, Queued, OneLinePerKey, Held, OneHolder, Exclusive,
              MonitorGivesWay, InLine
<1> QED
  BY <1>1, <1>2, <1>3, <1>4, <1>5, <1>6, <1>7, <1>8 DEF Next, Call

THEOREM Invariant == Spec => []IInv
BY InitInv, NextInv, PTL DEF Spec

(* The variables keep their types. *)
THEOREM Types == Spec => []TypeOK
BY Invariant, PTL DEF IInv

(* Whoever waits for a key stands in the line that the map knows for it:    *)
(* two unregistrations of one call (before the handoff and in the finally   *)
(* block) never tear a line apart.                                          *)
THEOREM OneLine == Spec => []OneLinePerKey
BY Invariant, PTL DEF IInv

(* The pool's monitor is off and stays off while a request drives the tab. *)
THEOREM MonitorStaysOff == Spec => []MonitorGivesWay
BY Invariant, PTL DEF IInv

(* No tab is held by two requests. *)
THEOREM TabHeldOnce == Spec => []OneHolder
BY Invariant, PTL DEF IInv

-----------------------------------------------------------------------------
(* The refinement: the lines implement FairLine. *)

Stands == [t \in Tasks |-> IF task[t] = "waiting" /\ InLine(t) THEN key[t] ELSE None]
Served == {t \in Tasks : InLine(t) /\ task[t] \in Holding \cup {"over"}}

LEMMA PromiseInit == Init => Promise!Init
BY QueueAssumption DEF Init, Promise!Init, InLine, Keys, QueueAssumption

(* A step that moves no call in or out of a line is a stutter. *)
LEMMA Stutter ==
  ASSUME Stands' = Stands, Served' = Served, token' = token, counter' = counter
  PROVE  [Promise!Next]_(Promise!vars)
BY DEF Promise!vars, Stands, Served

(* The head of a line is the first of those who wait for its key. *)
LEMMA HeadIsFirst ==
  ASSUME IInv, NEW t \in Tasks, task[t] = "waiting", InLine(t), MyTurn(t)
  PROVE  Promise!First(t)
<1>1. ASSUME NEW u \in Tasks, Stands[u] = Stands[t] PROVE token[t] <= token[u]
  <2>1. Stands[t] = key[t] /\ key[t] \in LinedKeys
    BY DEF Stands, InLine
  <2>2. task[u] = "waiting" /\ InLine(u) /\ key[u] = key[t]
    BY <1>1, <2>1, QueueAssumption DEF Stands, QueueAssumption, Keys
  <2>3. u \in queue[mine[t]]
    BY <2>2 DEF IInv, OneLinePerKey
  <2> QED
    BY <2>3 DEF MyTurn
<1> QED
  BY <1>1 DEF Promise!First, Stands

(* A call gets a tab: the head of its line is served. *)
LEMMA GrantServes ==
  ASSUME IInv, NEW t \in Tasks, NEW ss \in SUBSET Tabs, task[t] = "waiting", Grant(t, ss),
         IF InLine(t) THEN MyTurn(t) /\ Unregister(t) ELSE UNCHANGED lines
  PROVE  [Promise!Next]_(Promise!vars)
<1>1. /\ task' = [task EXCEPT ![t] = "taken"]
      /\ key' = key /\ token' = token /\ counter' = counter
  BY DEF Grant, Unregister, lines
<1>2. CASE InLine(t)
  <2>1. Stands[t] # None /\ Promise!First(t)
    BY <1>2, HeadIsFirst, QueueAssumption DEF Stands, InLine, QueueAssumption, Keys
  <2>2. Stands' = [Stands EXCEPT ![t] = None]
    BY <1>1 DEF Stands, InLine, IInv, TypeOK
  <2>3. Served' = Served \cup {t}
    BY <1>1, <1>2 DEF Served, InLine, IInv, TypeOK, Holding
  <2>4. Promise!Serve(t)
    BY <1>1, <2>1, <2>2, <2>3 DEF Promise!Serve, Stands, Served
  <2> QED
    BY <2>4 DEF Promise!Next
<1>3. CASE ~InLine(t)
  <2>1. Stands' = Stands /\ Served' = Served
    BY <1>1, <1>3 DEF Stands, Served, InLine, IInv, TypeOK
  <2> QED
    BY <1>1, <2>1, Stutter
<1> QED
  BY <1>2, <1>3

(* Every step is one of FairLine or a stutter. *)
LEMMA StepRefines == IInv /\ [Next]_vars => [Promise!Next]_(Promise!vars)
<1> SUFFICES ASSUME IInv, [Next]_vars PROVE [Promise!Next]_(Promise!vars)
  OBVIOUS
<1> USE QueueAssumption
<1>1. ASSUME NEW t \in Tasks, NEW k \in Keys, Join(t, k) PROVE [Promise!Next]_(Promise!vars)
  <2>1. /\ task[t] = "new" /\ k \in LinedKeys
        /\ task' = [task EXCEPT ![t] = "waiting"] /\ key' = [key EXCEPT ![t] = k]
        /\ token' = [token EXCEPT ![t] = counter + 1] /\ counter' = counter + 1
    BY <1>1 DEF Join
  <2>2. Stands[t] = None /\ Stands' = [Stands EXCEPT ![t] = k]
    BY <2>1 DEF Stands, InLine, IInv, TypeOK
  <2>3. Served' = Served
    BY <2>1 DEF Served, InLine, IInv, TypeOK, Holding
  <2>4. Promise!Join(t, k)
    BY <2>1, <2>2, <2>3 DEF Promise!Join, Stands, Served
  <2> QED
    BY <2>1, <2>4 DEF Promise!Next
<1>2. ASSUME NEW t \in Tasks, NEW k \in Keys, AskRaw(t, k) PROVE [Promise!Next]_(Promise!vars)
  <2>1. /\ task[t] = "new" /\ k \notin LinedKeys
        /\ task' = [task EXCEPT ![t] = "waiting"] /\ key' = [key EXCEPT ![t] = k]
        /\ token' = token /\ counter' = counter
    BY <1>2 DEF AskRaw, lines, QueueAssumption
  <2>2. Stands' = Stands /\ Served' = Served
    BY <2>1 DEF Stands, Served, InLine, IInv, TypeOK, Holding
  <2> QED
    BY <2>1, <2>2, Stutter
<1>3. ASSUME NEW t \in Tasks,
             Acquire(t) \/ AcquireByExactUrl(t) \/ AcquireByRouteDomain(t)
               \/ AcquireByRouteGroup(t) \/ AcquireByIndex(t) \/ AcquireByRawTabId(t)
      PROVE  [Promise!Next]_(Promise!vars)
  <2>1. /\ task[t] = "waiting" /\ key[t] \in Keys
        /\ Grant(t, Selects[AnyKey]) \/ Grant(t, Matching(t))
    BY <1>3 DEF Acquire, AcquireByExactUrl, AcquireByRouteDomain, AcquireByRouteGroup,
                AcquireByIndex, AcquireByRawTabId, FromLine, IInv, Queued
  <2>2. IF InLine(t) THEN MyTurn(t) /\ Unregister(t) ELSE UNCHANGED lines
    BY <1>3 DEF Acquire, AcquireByExactUrl, AcquireByRouteDomain, AcquireByRouteGroup,
                AcquireByIndex, AcquireByRawTabId, FromLine, InLine, QueueAssumption
  <2>3. Selects[AnyKey] \in SUBSET Tabs /\ Matching(t) \in SUBSET Tabs
    BY <2>1 DEF QueueAssumption, Matching, Keys, LinedKeys
  <2> QED
    BY <2>1, <2>2, <2>3, GrantServes
<1>4. ASSUME NEW t \in Tasks, GiveUp(t) PROVE [Promise!Next]_(Promise!vars)
  <2>1. /\ task[t] = "waiting" /\ task' = [task EXCEPT ![t] = "left"]
        /\ key' = key /\ token' = token /\ counter' = counter
    BY <1>4 DEF GiveUp, Unregister, lines
  <2>2. Served' = Served
    BY <2>1 DEF Served, InLine, IInv, TypeOK, Holding
  <2>3. Stands' = [Stands EXCEPT ![t] = None]
    BY <2>1 DEF Stands, InLine, IInv, TypeOK
  <2>4. CASE InLine(t)
    <3>1. Stands[t] # None
      BY <2>1, <2>4 DEF Stands, InLine, QueueAssumption, Keys
    <3>2. Promise!Leave(t)
      BY <2>1, <2>2, <2>3, <3>1 DEF Promise!Leave, Stands, Served
    <3> QED
      BY <3>2 DEF Promise!Next
  <2>5. CASE ~InLine(t)
    <3>1. Stands' = Stands
      BY <2>3, <2>5 DEF Stands
    <3> QED
      BY <2>1, <2>2, <3>1, Stutter
  <2> QED
    BY <2>4, <2>5
<1>5. ASSUME NEW t \in Tasks,
             \/ StopMonitor(t) \/ ReleaseBegin(t) \/ ReleaseEnd(t) \/ Quit(t)
             \/ HandOver(t) \/ HandOverFails(t)
      PROVE  [Promise!Next]_(Promise!vars)
  <2>1. /\ task[t] \in Holding
        /\ key' = key /\ token' = token /\ counter' = counter
        /\ \/ \E step \in Holding \cup {"over"} : task' = [task EXCEPT ![t] = step]
           \/ task' = [task EXCEPT ![t] = IF InLine(t) THEN "over" ELSE "waiting"]
    BY <1>5 DEF StopMonitor, ReleaseBegin, ReleaseEnd, Quit, HandOver, HandOverFails, Lost,
                UnregisterAgain, Unregister, lines, Holding
  <2>2. Stands' = Stands /\ Served' = Served
    BY <2>1 DEF Stands, Served, InLine, IInv, TypeOK, Holding
  <2> QED
    BY <2>1, <2>2, Stutter
<1>6. ASSUME UNCHANGED <<call, lines>> PROVE [Promise!Next]_(Promise!vars)
  <2>1. Stands' = Stands /\ Served' = Served /\ token' = token /\ counter' = counter
    BY <1>6 DEF call, lines, Stands, Served, InLine
  <2> QED
    BY <2>1, Stutter
<1>7. ASSUME NEW s \in Tabs, Tab(s) PROVE UNCHANGED <<call, lines>>
  BY <1>7 DEF Tab, TabGone, StartBegin, StartEnd, Suspend, MonitorEnds
<1> QED
  BY <1>1, <1>2, <1>3, <1>4, <1>5, <1>6, <1>7 DEF Next, Call, vars

(* First come, first served: the calls of acquire implement FairLine. *)
THEOREM Fair == Spec => FirstComeFirstServed
<1>1. Init => Promise!Init
  BY PromiseInit
<1>2. Spec => []IInv
  BY Invariant
<1>3. IInv /\ [Next]_vars => [Promise!Next]_(Promise!vars)
  BY StepRefines
<1> QED
  BY <1>1, <1>2, <1>3, PTL DEF Spec, FirstComeFirstServed, Promise!Spec
=============================================================================
