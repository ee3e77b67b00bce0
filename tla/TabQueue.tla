------------------------------ MODULE TabQueue ------------------------------
(***************************************************************************)
(* Waiting for a tab and getting it: the acquire_* functions of            *)
(* app/core/tab_pool_parts/manager.py with their lines of waiters, the     *)
(* handoff, in which the pool's condition is dropped while the tab's       *)
(* network monitor (network.py) stops, and the release, after which the    *)
(* monitor is started again.                                               *)
(*                                                                         *)
(* A block under the condition is one action.  A line is a deque: tokens   *)
(* are numbered and appended in that order, so it is the set of its tasks  *)
(* ordered by token.  Lines are objects: the map from keys to lines        *)
(* forgets a line that became empty, while its last task still knows it.   *)
(***************************************************************************)
EXTENDS Naturals

CONSTANTS Tasks,    (* calls of acquire_*; each is one request               *)
          Tabs,     (* the sessions of the pool                              *)
          AnyKey,   (* what acquire waits for                                *)
          UrlKeys, DomainKeys, GroupKeys, IndexKeys,
                    (* what the other lines wait for                         *)
          RawKeys,  (* raw target ids: acquire_by_raw_tab_id has no line     *)
          Selects,  (* the tabs each key may be served with                  *)
          Generic,  (* _acquire_waiters, the line that is never forgotten    *)
          None

LinedKeys == {AnyKey} \cup UrlKeys \cup DomainKeys \cup GroupKeys \cup IndexKeys
Keys      == LinedKeys \cup RawKeys
Lines     == Tasks \cup {Generic}  (* a line is named after who created it *)

ASSUME QueueAssumption ==
  /\ Selects \in [Keys -> SUBSET Tabs]
  /\ LinedKeys \cap RawKeys = {}
  /\ AnyKey \notin UrlKeys \cup DomainKeys \cup GroupKeys \cup IndexKeys
  /\ Generic \notin Tasks
  /\ None \notin Tasks \cup Tabs \cup Keys \cup {Generic}

VARIABLES
  task,     (* where each call is                                            *)
  key,      (* what it waits for                                             *)
  got,      (* the tab it was given                                          *)
  mine,     (* the line it stands in                                         *)
  token,    (* its number in the line                                        *)
  counter,  (* _waiter_counter                                               *)
  line,     (* _route_waiters, _group_waiters, _index_waiters: key -> line   *)
  queue,    (* who stands in each line                                       *)
  status,   (* TabSession.status; a tab that left the pool is gone           *)
  monitor,  (* the network monitor of each tab                               *)
  starting  (* tabs whose monitor is being started                           *)

call  == <<task, key, got>>
lines == <<mine, token, counter, line, queue>>
vars  == <<call, lines, status, monitor, starting>>

Steps   == {"new", "waiting", "taken", "stopping", "driving", "releasing", "over", "left"}
Holding == {"taken", "stopping", "driving", "releasing"}

Init ==
  /\ task = [t \in Tasks |-> "new"]
  /\ key = [t \in Tasks |-> None]
  /\ got = [t \in Tasks |-> None]
  /\ mine = [t \in Tasks |-> None]
  /\ token = [t \in Tasks |-> 0]
  /\ counter = 0
  /\ line = [k \in LinedKeys |-> IF k = AnyKey THEN Generic ELSE None]
  /\ queue = [l \in Lines |-> {}]
  /\ status = [s \in Tabs |-> "idle"]
  /\ monitor = [s \in Tabs |-> "off"]
  /\ starting = {}

-----------------------------------------------------------------------------
(* Lines. *)

(* setdefault(key, deque()) and append *)
Join(t, k) ==
  LET l == IF line[k] = None THEN t ELSE line[k] IN
  /\ task[t] = "new"
  /\ k \in LinedKeys
  /\ task' = [task EXCEPT ![t] = "waiting"]
  /\ key' = [key EXCEPT ![t] = k]
  /\ mine' = [mine EXCEPT ![t] = l]
  /\ token' = [token EXCEPT ![t] = counter + 1]
  /\ counter' = counter + 1
  /\ line' = [line EXCEPT ![k] = l]
  /\ queue' = [queue EXCEPT ![l] = @ \cup {t}]
  /\ UNCHANGED <<got, status, monitor, starting>>

(* acquire_by_raw_tab_id starts to wait. *)
AskRaw(t, k) ==
  /\ task[t] = "new"
  /\ k \in RawKeys
  /\ task' = [task EXCEPT ![t] = "waiting"]
  /\ key' = [key EXCEPT ![t] = k]
  /\ UNCHANGED <<got, lines, status, monitor, starting>>

(* Mutant: every waiter thinks it is its turn. *)
AlwaysMyTurn(t) == TRUE

(* _is_waiter_turn *)
MyTurn(t) == \A u \in queue[mine[t]] : token[t] <= token[u]

(* Mutant: a line that is empty is forgotten, whichever the map knows now. *)
ForgetsBlindly(t, rest) == rest = {} /\ key[t] # AnyKey

(* The identity test of _unregister_waiter: only the line itself is         *)
(* forgotten, not one that took its place.                                  *)
Forgets(t, rest) == rest = {} /\ key[t] # AnyKey /\ line[key[t]] = mine[t]

(* _unregister_waiter *)
Unregister(t) ==
  LET rest == queue[mine[t]] \ {t} IN
  /\ queue' = [queue EXCEPT ![mine[t]] = rest]
  /\ line' = IF Forgets(t, rest) THEN [line EXCEPT ![key[t]] = None] ELSE line
  /\ UNCHANGED <<mine, token, counter>>

InLine(t) == key[t] \in LinedKeys

-----------------------------------------------------------------------------
(* A round of the loop that finds a tab. *)

(* Mutant: a tab that is in use is taken as well. *)
FreeIfPresent(s) == status[s] # "gone"

Free(s) == status[s] = "idle"

(* _try_acquire_session_for_request on the tabs of ss *)
Grant(t, ss) ==
  \E s \in ss :
    /\ Free(s)
    /\ status' = [status EXCEPT ![s] = "busy"]
    /\ monitor' = [monitor EXCEPT ![s] = IF @ = "on" THEN "stopping" ELSE @]
    /\ task' = [task EXCEPT ![t] = "taken"]
    /\ got' = [got EXCEPT ![t] = s]
    /\ UNCHANGED <<key, starting>>

(* The head of a line takes a tab and leaves the line before the handoff. *)
FromLine(t) == task[t] = "waiting" /\ InLine(t) /\ MyTurn(t) /\ Unregister(t)

Acquire(t) == key[t] = AnyKey /\ FromLine(t) /\ Grant(t, Selects[AnyKey])

(* A live match of the address, whoever holds it. *)
Matching(t) == {s \in Selects[key[t]] : status[s] # "gone"}

AcquireByExactUrl(t)    == key[t] \in UrlKeys    /\ FromLine(t) /\ Grant(t, Matching(t))
AcquireByRouteDomain(t) == key[t] \in DomainKeys /\ FromLine(t) /\ Grant(t, Matching(t))
AcquireByRouteGroup(t)  == key[t] \in GroupKeys  /\ FromLine(t) /\ Grant(t, Matching(t))
AcquireByIndex(t)       == key[t] \in IndexKeys  /\ FromLine(t) /\ Grant(t, Matching(t))

AcquireByRawTabId(t) ==
  /\ task[t] = "waiting"
  /\ key[t] \in RawKeys
  /\ Grant(t, Matching(t))
  /\ UNCHANGED lines

(* No tab: the deadline, a cancelled request, a shutdown, no such tab, a    *)
(* deleted group.                                                           *)
GiveUp(t) ==
  /\ task[t] = "waiting"
  /\ task' = [task EXCEPT ![t] = "left"]
  /\ IF InLine(t) THEN Unregister(t) ELSE UNCHANGED lines
  /\ UNCHANGED <<key, got, status, monitor, starting>>

-----------------------------------------------------------------------------
(* The handoff. *)

(* _global_monitor_transition_lock is free. *)
TransitionFree == starting = {} /\ \A t \in Tasks : task[t] # "stopping"

(* _stop_global_monitor_for_session(wait=True), outside the condition *)
StopMonitor(t) ==
  /\ task[t] = "taken"
  /\ TransitionFree
  /\ task' = [task EXCEPT ![t] = "stopping"]
  /\ monitor' = [monitor EXCEPT ![got[t]] = IF @ = "on" THEN "stopping" ELSE @]
  /\ UNCHANGED <<key, got, lines, status, starting>>

(* The finally block of the acquire unregisters once more. *)
UnregisterAgain(t) == IF InLine(t) THEN Unregister(t) ELSE UNCHANGED lines

(* The tab left the pool in the meantime: the caller gets nothing.  Only    *)
(* acquire_by_raw_tab_id tries again.                                       *)
Lost(t) ==
  /\ task' = [task EXCEPT ![t] = IF InLine(t) THEN "over" ELSE "waiting"]
  /\ got' = [got EXCEPT ![t] = None]

(* The monitor's thread ended: _complete_acquired_session_for_return takes  *)
(* the condition again and looks whether the tab is still there.            *)
HandOver(t) ==
  LET s == got[t] IN
  /\ task[t] = "stopping"
  /\ monitor[s] = "off"
  /\ \/ /\ status[s] = "busy"
        /\ task' = [task EXCEPT ![t] = "driving"]
        /\ UNCHANGED got
     \/ status[s] = "gone" /\ Lost(t)
  /\ UnregisterAgain(t)
  /\ UNCHANGED <<key, status, monitor, starting>>

(* It did not end in time: the tab is given back marked as failed. *)
HandOverFails(t) ==
  LET s == got[t] IN
  /\ task[t] = "stopping"
  /\ monitor[s] # "off"
  /\ status' = [status EXCEPT ![s] = "gone"]
  /\ Lost(t)
  /\ UnregisterAgain(t)
  /\ UNCHANGED <<key, monitor, starting>>

(* release: its two blocks *)
ReleaseBegin(t) ==
  /\ task[t] = "driving"
  /\ status[got[t]] = "busy"
  /\ task' = [task EXCEPT ![t] = "releasing"]
  /\ UNCHANGED <<key, got, lines, status, monitor, starting>>

ReleaseEnd(t) ==
  /\ task[t] = "releasing"
  /\ status' = [status EXCEPT ![got[t]] = IF @ = "busy" THEN "idle" ELSE @]
  /\ task' = [task EXCEPT ![t] = "over"]
  /\ got' = [got EXCEPT ![t] = None]
  /\ UNCHANGED <<key, lines, monitor, starting>>

(* The worker notices that its tab is gone. *)
Quit(t) ==
  /\ task[t] = "driving"
  /\ status[got[t]] = "gone"
  /\ task' = [task EXCEPT ![t] = "over"]
  /\ got' = [got EXCEPT ![t] = None]
  /\ UNCHANGED <<key, lines, status, monitor, starting>>

(* A tab is closed, or fails and is cleaned up (see TabPool). *)
TabGone(s) ==
  /\ status[s] # "gone"
  /\ status' = [status EXCEPT ![s] = "gone"]
  /\ monitor' = [monitor EXCEPT ![s] = IF @ = "on" THEN "stopping" ELSE @]
  /\ UNCHANGED <<call, lines, starting>>

-----------------------------------------------------------------------------
(* Monitors. *)

(* Mutant: a monitor may be started whoever has the tab. *)
ListenAnyway(s) == status[s] # "gone"

(* Only an idle tab is listened to. *)
MayListen(s) == status[s] = "idle"

(* _start_global_monitor_for_session, which scans, releases, rebinds and    *)
(* resume calls ask for: the test, under the transition lock ...            *)
StartBegin(s) ==
  /\ TransitionFree
  /\ MayListen(s)
  /\ monitor[s] # "on"
  /\ starting' = {s}
  /\ UNCHANGED <<call, lines, status, monitor>>

(* ... and start_for_session, which gives up on a worker that does not end. *)
StartEnd(s) ==
  /\ s \in starting
  /\ starting' = starting \ {s}
  /\ monitor' = [monitor EXCEPT ![s] = IF @ = "off" THEN "on" ELSE @]
  /\ UNCHANGED <<call, lines, status>>

(* suspend_global_network_monitor asks without waiting. *)
Suspend(s) ==
  /\ TransitionFree
  /\ monitor[s] = "on"
  /\ monitor' = [monitor EXCEPT ![s] = "stopping"]
  /\ UNCHANGED <<call, lines, status, starting>>

(* _worker_loop ends: it was told to, or it failed. *)
MonitorEnds(s) ==
  /\ monitor[s] # "off"
  /\ monitor' = [monitor EXCEPT ![s] = "off"]
  /\ UNCHANGED <<call, lines, status, starting>>

Call(t) ==
  \/ \E k \in Keys : Join(t, k) \/ AskRaw(t, k)
  \/ Acquire(t) \/ AcquireByExactUrl(t) \/ AcquireByRouteDomain(t)
  \/ AcquireByRouteGroup(t) \/ AcquireByIndex(t) \/ AcquireByRawTabId(t)
  \/ GiveUp(t)
  \/ StopMonitor(t) \/ HandOver(t) \/ HandOverFails(t)
  \/ ReleaseBegin(t) \/ ReleaseEnd(t) \/ Quit(t)

Tab(s) == TabGone(s) \/ StartBegin(s) \/ StartEnd(s) \/ Suspend(s) \/ MonitorEnds(s)

Next == (\E t \in Tasks : Call(t)) \/ (\E s \in Tabs : Tab(s))

Spec == Init /\ [][Next]_vars

-----------------------------------------------------------------------------
(* Properties. *)

(* Every variable has its type. *)
TypeOK ==
  /\ task \in [Tasks -> Steps]
  /\ key \in [Tasks -> Keys \cup {None}]
  /\ got \in [Tasks -> Tabs \cup {None}]
  /\ mine \in [Tasks -> Lines \cup {None}]
  /\ token \in [Tasks -> Nat]
  /\ counter \in Nat
  /\ line \in [LinedKeys -> Lines \cup {None}]
  /\ queue \in [Lines -> SUBSET Tasks]
  /\ status \in [Tabs -> {"idle", "busy", "gone"}]
  /\ monitor \in [Tabs -> {"off", "on", "stopping"}]
  /\ starting \subseteq Tabs

(* Tasks that wait for the same key stand in one line, the one the map      *)
(* knows, although a line is forgotten and created again while its last     *)
(* task is still in its handoff (see _unregister_waiter).                  *)
OneLinePerKey ==
  \A t \in Tasks :
    task[t] = "waiting" /\ InLine(t) => mine[t] = line[key[t]] /\ t \in queue[mine[t]]

(* While a request drives a tab, the pool's monitor neither listens to it   *)
(* nor is about to: two listeners on one page would take each other's       *)
(* responses (_start_global_monitor_for_session tests the status first and  *)
(* starts the monitor later, without the condition).                        *)
MonitorGivesWay ==
  \A t \in Tasks :
    task[t] \in {"driving", "releasing"} => monitor[got[t]] = "off" /\ got[t] \notin starting

(* A tab is held by one request at a time, through handoff and release. *)
OneHolder ==
  \A t, u \in Tasks :
    task[t] \in Holding /\ task[u] \in Holding /\ got[t] = got[u] => t = u

(* The lines seen as FairLine sees them. *)
Promise == INSTANCE FairLine WITH
  Keys    <- LinedKeys,
  Nowhere <- None,
  stands  <- [t \in Tasks |-> IF task[t] = "waiting" /\ InLine(t) THEN key[t] ELSE None],
  ticket  <- token,
  drawn   <- counter,
  served  <- {t \in Tasks : InLine(t) /\ task[t] \in Holding \cup {"over"}}

(* Per key, first come is first served: the calls of acquire, with lines    *)
(* that come and go, implement the one line per key of FairLine (see        *)
(* _is_waiter_turn and _unregister_waiter).                                 *)
FirstComeFirstServed == Promise!Spec
=============================================================================
