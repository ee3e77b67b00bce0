------------------------------ MODULE TabPool ------------------------------
(***************************************************************************)
(* The pool of tabs (app/core/tab_pool_parts/manager.py) with its scans of *)
(* the browser's targets, the quarantine of failed tabs, the service that  *)
(* recovers them (recovery.py) and the create_* calls that open a tab of   *)
(* their own.                                                              *)
(*                                                                         *)
(* A block under the pool's condition is one action; the condition is      *)
(* dropped while a scan asks the browser, while a new tab is opened, while *)
(* an acquired tab waits for its monitor and while a tab is closed.  The   *)
(* blocks of one tab's release are TabSession's subject, the lines of      *)
(* waiting requests and the monitors TabQueue's.                           *)
(***************************************************************************)
EXTENDS Naturals, Sequences, SequencesExt, FiniteSets

CONSTANTS Targets,      (* raw ids of page targets                           *)
          Tasks,        (* requests; each acquires one tab                   *)
          Scanners,     (* threads that scan: acquires, queries, create_*    *)
          None,         (* no task, no session, no target                    *)
          MaxSessions,  (* bound: sessions that are ever wrapped             *)
          MaxTabs,      (* TabPoolManager.max_tabs                           *)
          MaxAttempts,  (* TAB_RECOVERY_MAX_ATTEMPTS                         *)
          MaxDetours    (* bound: how often a page goes to an address the pool
                           skips                                             *)

Sessions == 1..MaxSessions

ASSUME PoolAssumption ==
  /\ None \notin Tasks \cup Targets \cup Scanners \cup Nat
  /\ Tasks \cap Nat = {}
  /\ IsFiniteSet(Targets)
  /\ {MaxSessions, MaxTabs, MaxAttempts, MaxDetours} \subseteq Nat

VARIABLES
  target,     (* the browser's side: what each target is                     *)
  detours,    (* history: how often the page of a target went to an address
                 the pool skips                                              *)
  pool,       (* what the pool's condition protects                          *)
  task,       (* where the thread of each request is, and with which tab     *)
  scan,       (* scans and create_* calls in flight                          *)
  recovery,   (* the recovery's queue; its one thread works on the head      *)
  attempts,   (* TabRecoveryService._attempts                                *)
  presumed,   (* history: tasks whose worker the recovery took for gone      *)
  exposed     (* history: targets that two threads pooled at once            *)

vars == <<target, detours, pool, task, scan, recovery, attempts, presumed, exposed>>

Open == {r \in Targets : target[r] \in {"usable", "unusable"}}

(* url: what the session remembers of its page's address (last_known_url). *)
NoSession == [raw |-> None, status |-> "unborn", owner |-> None, url |-> "none"]
NoEntry   == [by |-> None, task |-> None, permanent |-> FALSE]
(* seen: the targets of the answer; fit: those whose page is usable.        *)
NoScan    == [at |-> "away", since |-> 0, seen |-> {}, fit |-> {}, raw |-> None]

Init ==
  /\ target = [r \in Targets |-> "unopened"]
  /\ detours = [r \in Targets |-> 0]
  /\ pool = [wrapped    |-> 0,                                   (* _tab_counter *)
             session    |-> [s \in Sessions |-> NoSession],
             tabs       |-> {},                                  (* _tabs *)
             mapped     |-> [r \in Targets |-> None],            (* raw -> index -> session *)
             quarantine |-> [r \in Targets |-> NoEntry],         (* _quarantined_raw_ids *)
             failed     |-> <<>>]                                (* entries on their way to the recovery *)
  /\ task = [t \in Tasks |-> [at |-> "new", tab |-> None]]
  /\ scan = [x \in Scanners |-> NoScan]
  /\ recovery = <<>>
  /\ attempts = [r \in Targets |-> 0]
  /\ presumed = {}
  /\ exposed = {}

-----------------------------------------------------------------------------
(* What a scan and the clean-up do to the pool: operators from the pool     *)
(* before to the pool after.                                                *)

Live(p, r) == p.mapped[r] \in p.tabs

(* _wrap_tab for the targets of q in turn: a new session for each; a target *)
(* that is mapped already is remapped.                                      *)
Wrap(p, q) ==
  LET new == (p.wrapped + 1)..(p.wrapped + Len(q)) IN
  [p EXCEPT !.wrapped = p.wrapped + Len(q),
            !.session = [s \in Sessions |->
                           IF s \in new THEN [raw |-> q[s - p.wrapped], status |-> "idle",
                                             owner |-> None, url |-> "usable"]
                           ELSE p.session[s]],
            !.tabs    = p.tabs \cup new,
            !.mapped  = [r \in Targets |->
                           IF r \in ToSet(q) THEN p.wrapped + (CHOOSE i \in DOMAIN q : q[i] = r)
                           ELSE p.mapped[r]]]

(* Barred targets whose tab is closed need no entry any more. *)
Prunable(p, seen) == {r \in Targets \ seen : p.quarantine[r].permanent}

Pruned(p, seen) ==
  [p EXCEPT !.quarantine =
     [r \in Targets |-> IF r \in Prunable(p, seen) THEN NoEntry ELSE @[r]]]

(* A session whose mapping was lost gets it back, unless the target belongs *)
(* to another live session.                                                 *)
Repaired(p, seen) ==
  LET stray(r) == {s \in p.tabs : p.session[s].raw = r} IN
  [p EXCEPT !.mapped =
     [r \in Targets |-> IF r \in seen /\ ~Live(p, r) /\ stray(r) # {}
                        THEN CHOOSE s \in stray(r) : \A u \in stray(r) : s <= u
                        ELSE p.mapped[r]]]

(* The sessions of the snapshot's targets remember the address it has of    *)
(* their page, whatever they have seen of it since.                         *)
Remembered(p, seen, fit) ==
  LET told(s) == /\ s \in p.tabs
                 /\ p.session[s].raw \in seen
                 /\ p.mapped[p.session[s].raw] = s
  IN
  [p EXCEPT !.session =
     [s \in Sessions |->
        IF told(s) THEN [p.session[s] EXCEPT !.url = IF p.session[s].raw \in fit THEN "usable" ELSE "unusable"]
        ELSE p.session[s]]]

(* Mutant: a session that joined after the snapshot is judged by it.        *)
VanishedUnguarded(p, seen, since) ==
  {s \in p.tabs : p.mapped[p.session[s].raw] # s \/ p.session[s].raw \notin seen}

(* Sessions without a target in the snapshot; one that joined the pool      *)
(* after the snapshot was begun is left to the next scan.                   *)
Vanished(p, seen, since) ==
  {s \in p.tabs : /\ p.mapped[p.session[s].raw] # s \/ p.session[s].raw \notin seen
                  /\ s <= since}

(* mark_closed; the address of a closed session is not read again. *)
Closed(ss, gone) ==
  [s \in Sessions |-> IF s \in gone THEN [ss[s] EXCEPT !.status = "closed", !.owner = None, !.url = "none"]
                      ELSE ss[s]]

(* Mutant: the target of a closed session still leads to it. *)
UnmappedNever(p, gone) == p.mapped

Unmapped(p, gone) ==
  [r \in Targets |-> IF p.mapped[r] \in gone THEN None ELSE p.mapped[r]]

(* A session whose target is gone is closed; a busy one stays until the     *)
(* clean-up, which the scan calls next.                                     *)
Dropped(p, gone) ==
  [p EXCEPT !.session = Closed(p.session, gone),
            !.tabs    = {s \in p.tabs : s \in gone => p.session[s].status = "busy"},
            !.mapped  = Unmapped(p, gone)]

(* An idle session is judged by the address it remembers (is_healthy). *)
Unfit(p) ==
  {s \in p.tabs : \/ p.session[s].status \in {"closed", "error"}
                  \/ p.session[s].status = "idle" /\ p.session[s].url = "unusable"}

(* Mutant: a failed tab goes back without a quarantine. *)
QuarantinedNever(p) == {}

(* Targets of sessions in ERROR: their old worker may still drive the page. *)
Quarantined(p) ==
  {r \in Targets : /\ p.mapped[r] \in Unfit(p)
                   /\ p.session[p.mapped[r]].status = "error"}

(* Mutant: a tab that failed without a task needs no recovery. *)
EntriesWithTask(p, barred) ==
  {[raw |-> r, by |-> p.mapped[r], task |-> p.session[p.mapped[r]].owner] :
     r \in {b \in barred : p.session[p.mapped[b]].owner # None}}

(* TabQuarantineEntry: what is submitted to the recovery. *)
Entries(p, barred) ==
  {[raw |-> r, by |-> p.mapped[r], task |-> p.session[p.mapped[r]].owner] : r \in barred}

(* _cleanup_unhealthy_tabs *)
Cleaned(p) ==
  LET barred == Quarantined(p)
      entry(r) == [by |-> p.mapped[r], task |-> p.session[p.mapped[r]].owner, permanent |-> FALSE]
  IN
  [p EXCEPT !.session    = Closed(p.session, Unfit(p)),
            !.tabs       = @ \ Unfit(p),
            !.mapped     = Unmapped(p, Unfit(p)),
            !.quarantine = [r \in Targets |-> IF r \in barred THEN entry(r) ELSE @[r]],
            !.failed     = @ \o SetToSeq(Entries(p, barred))]

(* Mutant: a quarantined target is pooled again. *)
AddableAlways(p, fit) == {r \in fit : ~Live(p, r)}

(* Usable targets of the snapshot that the scan may pool. *)
Addable(p, fit) == {r \in fit : ~Live(p, r) /\ p.quarantine[r] = NoEntry}

(* The targets of q are wrapped until the pool is full. *)
Extended(p, q) ==
  LET fits(n) == Cardinality(p.tabs) + n <= MaxTabs /\ p.wrapped + n <= MaxSessions
  IN  Wrap(p, SubSeq(q, 1, Max({n \in 0..Len(q) : n = 0 \/ fits(n)})))

-----------------------------------------------------------------------------
(* The browser. *)

(* A tab opens at its address, or empty. *)
Opens(r) ==
  /\ target[r] = "unopened"
  /\ \/ target' = [target EXCEPT ![r] = "usable"] /\ UNCHANGED detours
     \/ /\ detours[r] < MaxDetours
        /\ target' = [target EXCEPT ![r] = "unusable"]
        /\ detours' = [detours EXCEPT ![r] = @ + 1]

(* A user, or a page, opens a tab; create_* opens its own (OpenCreated). *)
OpenTarget(r) ==
  /\ Opens(r)
  /\ UNCHANGED <<pool, task, scan, recovery, attempts, presumed, exposed>>

CloseTarget(r) ==
  /\ r \in Open
  /\ target' = [target EXCEPT ![r] = "closed"]
  /\ UNCHANGED <<detours, pool, task, scan, recovery, attempts, presumed, exposed>>

(* The page goes to an address the pool skips (_should_skip_pool_url), or   *)
(* comes back from one.                                                     *)
ChangePage(r) ==
  /\ \/ /\ target[r] = "usable" /\ detours[r] < MaxDetours
        /\ target' = [target EXCEPT ![r] = "unusable"]
        /\ detours' = [detours EXCEPT ![r] = @ + 1]
     \/ /\ target[r] = "unusable"
        /\ target' = [target EXCEPT ![r] = "usable"]
        /\ UNCHANGED detours
  /\ UNCHANGED <<pool, task, scan, recovery, attempts, presumed, exposed>>

-----------------------------------------------------------------------------
(* Scans. *)

(* _scan_new_tabs notes the time and drops the condition ... *)
ScanBegin(x) ==
  /\ scan[x].at = "away"
  /\ scan' = [scan EXCEPT ![x] = [NoScan EXCEPT !.at = "asking", !.since = pool.wrapped]]
  /\ UNCHANGED <<target, detours, pool, task, recovery, attempts, presumed, exposed>>

(* ... the browser answers, one scan at a time (_scan_snapshot_lock) ... *)
ScanLook(x) ==
  /\ scan[x].at = "asking"
  /\ scan' = [scan EXCEPT ![x].at = "knowing", ![x].seen = Open,
                          ![x].fit = {r \in Open : target[r] = "usable"}]
  /\ UNCHANGED <<target, detours, pool, task, recovery, attempts, presumed, exposed>>

(* ... and the answer is applied to what the pool has become meanwhile.     *)
(* A scan of create_*_site_tab goes on to open a tab if there is room.      *)
ScanApply(x, creates) ==
  LET seen == scan[x].seen
      held == Remembered(Repaired(Pruned(pool, seen), seen), seen, scan[x].fit)
      kept == Cleaned(Dropped(held, Vanished(held, seen, scan[x].since)))
  IN
  /\ scan[x].at = "knowing"
  /\ \E q \in SetToSeqs(Addable(kept, scan[x].fit)) :
       LET p == Cleaned(Extended(kept, q)) IN
       /\ pool' = p
       /\ scan' = [scan EXCEPT ![x] =
                     IF creates /\ Cardinality(p.tabs) < MaxTabs
                     THEN [NoScan EXCEPT !.at = "opening"] ELSE NoScan]
  /\ exposed' = exposed \cup (Prunable(pool, seen) \cap Open)
  /\ UNCHANGED <<target, detours, task, recovery, attempts, presumed>>

(* _create_shared_tab, _create_isolated_tab: outside the condition. *)
OpenCreated(x, r) ==
  /\ scan[x].at = "opening"
  /\ Opens(r)
  /\ scan' = [scan EXCEPT ![x].at = "wrapping", ![x].raw = r]
  /\ UNCHANGED <<pool, task, recovery, attempts, presumed, exposed>>

OpenFails(x) ==
  /\ scan[x].at = "opening"
  /\ scan' = [scan EXCEPT ![x] = NoScan]
  /\ UNCHANGED <<target, detours, pool, task, recovery, attempts, presumed, exposed>>

(* The new tab is wrapped whether or not a scan was faster. *)
WrapCreated(x) ==
  LET r == scan[x].raw IN
  /\ scan[x].at = "wrapping"
  /\ pool.wrapped < MaxSessions
  /\ pool' = Wrap(pool, <<r>>)
  /\ exposed' = IF \E s \in Sessions : pool.session[s].raw = r THEN exposed \cup {r} ELSE exposed
  /\ scan' = [scan EXCEPT ![x] = NoScan]
  /\ UNCHANGED <<target, detours, task, recovery, attempts, presumed>>

(* The clean-up alone: the watchdog's tick, and every round of an acquire.  *)
CleanUp ==
  /\ Unfit(pool) # {}
  /\ pool' = Cleaned(pool)
  /\ UNCHANGED <<target, detours, task, scan, recovery, attempts, presumed, exposed>>

(* _refresh_route_snapshots_for_sessions: a query reads the address of a    *)
(* page that is not busy.                                                   *)
ReadAddress(s) ==
  /\ s \in pool.tabs
  /\ pool.session[s].status # "busy"
  /\ pool.session[s].raw \in Open
  /\ pool' = [pool EXCEPT !.session[s].url = target[pool.session[s].raw]]
  /\ UNCHANGED <<target, detours, task, scan, recovery, attempts, presumed, exposed>>

-----------------------------------------------------------------------------
(* Requests. *)

SetSession(s, status, owner) ==
  pool' = [pool EXCEPT !.session[s].status = status, !.session[s].owner = owner]

Moves(t, step, s) == task' = [task EXCEPT ![t] = [at |-> step, tab |-> s]]

(* A round of an acquire that finds an idle tab, its clean-up done. *)
Take(t, s) ==
  /\ task[t].at = "new"
  /\ Unfit(pool) = {}
  /\ s \in pool.tabs
  /\ pool.session[s].status = "idle"
  /\ SetSession(s, "busy", t)
  /\ Moves(t, "taken", s)
  /\ UNCHANGED <<target, detours, scan, recovery, attempts, presumed, exposed>>

Holds(t) ==
  /\ task[t].tab \in pool.tabs
  /\ pool.session[task[t].tab].status = "busy"
  /\ pool.session[task[t].tab].owner = t

(* The condition was dropped for the monitor; the tab must still be held.   *)
HandOver(t) ==
  /\ task[t].at = "taken"
  /\ IF Holds(t) THEN Moves(t, "driving", task[t].tab) ELSE Moves(t, "over", None)
  /\ UNCHANGED <<target, detours, pool, scan, recovery, attempts, presumed, exposed>>

(* The monitor did not stop: the tab is released and marked, unless it      *)
(* changed hands (the blocks of this are in TabSession).                    *)
HandOverFails(t) ==
  /\ task[t].at = "taken"
  /\ Moves(t, "over", None)
  /\ \/ Holds(t) /\ SetSession(task[t].tab, "error", None)
     \/ ~Holds(t) /\ UNCHANGED pool
  /\ UNCHANGED <<target, detours, scan, recovery, attempts, presumed, exposed>>

(* release: the owner goes, the tab stays busy for the page's clean-up. *)
ReleaseBegin(t) ==
  /\ task[t].at = "driving"
  /\ Holds(t)
  /\ SetSession(task[t].tab, "busy", None)
  /\ Moves(t, "releasing", task[t].tab)
  /\ UNCHANGED <<target, detours, scan, recovery, attempts, presumed, exposed>>

ReleaseEnd(t) ==
  LET s == task[t].tab IN
  /\ task[t].at = "releasing"
  /\ IF pool.session[s].status = "busy" THEN SetSession(s, "idle", None) ELSE UNCHANGED pool
  /\ Moves(t, "over", None)
  /\ UNCHANGED <<target, detours, scan, recovery, attempts, presumed, exposed>>

(* A worker whose tab is not its own any more leaves it alone; it may take  *)
(* its time to notice.                                                      *)
Leave(t) ==
  /\ task[t].at = "driving"
  /\ ~Holds(t)
  /\ Moves(t, "over", None)
  /\ UNCHANGED <<target, detours, pool, scan, recovery, attempts, presumed, exposed>>

(* mark_error by the watchdog, the leaked-worker check or a failed release. *)
TabFails(s) ==
  /\ s \in pool.tabs
  /\ pool.session[s].status = "busy"
  /\ SetSession(s, "error", pool.session[s].owner)
  /\ UNCHANGED <<target, detours, task, scan, recovery, attempts, presumed, exposed>>

-----------------------------------------------------------------------------
(* Recovery. *)

(* _submit_recovery, by the maintenance executor. *)
Submit ==
  /\ pool.failed # <<>>
  /\ recovery' = Append(recovery, [entry |-> Head(pool.failed), at |-> "waiting"])
  /\ pool' = [pool EXCEPT !.failed = Tail(@)]
  /\ UNCHANGED <<target, detours, task, scan, attempts, presumed, exposed>>

Job(step) == recovery # <<>> /\ Head(recovery).at = step
Case      == Head(recovery).entry
Advance(step) == recovery' = [recovery EXCEPT ![1].at = step]

(* _is_worker_exited: without a task at once; nothing records the thread of *)
(* a request (worker_thread), so otherwise when the grace has run out.      *)
WorkerGone ==
  /\ Job("waiting")
  /\ Advance("judging")
  /\ presumed' = IF Case.task = None THEN presumed ELSE presumed \cup {Case.task}
  /\ UNCHANGED <<target, detours, pool, task, scan, attempts, exposed>>

(* The switch is off, or the page was refreshed and has an address: the     *)
(* entry goes and the next scan pools the target again.  Without an         *)
(* attempt counted (the switch) or with one (the refresh).                  *)
Readmit(refreshed) ==
  /\ Job("judging")
  /\ attempts[Case.raw] < MaxAttempts
  /\ attempts' = IF refreshed THEN [attempts EXCEPT ![Case.raw] = @ + 1] ELSE attempts
  /\ pool' = [pool EXCEPT !.quarantine[Case.raw] = NoEntry]
  /\ recovery' = Tail(recovery)
  /\ UNCHANGED <<target, detours, task, scan, presumed, exposed>>

(* The worker never exited, the attempts are used up, the verdict or the    *)
(* refresh was bad: the entry becomes permanent ...                         *)
Bar ==
  /\ Job("waiting") \/ Job("judging")
  /\ IF pool.quarantine[Case.raw] = NoEntry
     THEN recovery' = Tail(recovery) /\ UNCHANGED pool
     ELSE /\ pool' = [pool EXCEPT !.quarantine[Case.raw].permanent = TRUE]
          /\ recovery' = [recovery EXCEPT ![1].at = "closing", ![1].entry.by = pool.quarantine[Case.raw].by]
  /\ UNCHANGED <<target, detours, task, scan, attempts, presumed, exposed>>

(* ... and the tab is closed outside the condition; the entry goes if it    *)
(* worked and is still the one.                                             *)
CloseBarred(works) ==
  LET r == Case.raw IN
  /\ Job("closing")
  /\ target' = IF works /\ r \in Open THEN [target EXCEPT ![r] = "closed"] ELSE target
  /\ pool' = IF works /\ pool.quarantine[r].by = Case.by
             THEN [pool EXCEPT !.quarantine[r] = NoEntry] ELSE pool
  /\ recovery' = Tail(recovery)
  /\ UNCHANGED <<detours, task, scan, attempts, presumed, exposed>>

Scan(x) == \/ ScanBegin(x) \/ ScanLook(x)
           \/ \E creates \in BOOLEAN : ScanApply(x, creates)
           \/ \E r \in Targets : OpenCreated(x, r)
           \/ OpenFails(x) \/ WrapCreated(x)
Request(t) == \/ \E s \in Sessions : Take(t, s)
              \/ HandOver(t) \/ HandOverFails(t)
              \/ ReleaseBegin(t) \/ ReleaseEnd(t) \/ Leave(t)
Recover    == \/ Submit \/ WorkerGone \/ Bar
              \/ \E b \in BOOLEAN : Readmit(b) \/ CloseBarred(b)

Next == \/ \E r \in Targets : OpenTarget(r) \/ CloseTarget(r) \/ ChangePage(r)
        \/ \E x \in Scanners : Scan(x)
        \/ CleanUp
        \/ \E t \in Tasks : Request(t)
        \/ \E s \in Sessions : TabFails(s) \/ ReadAddress(s)
        \/ Recover

Spec == Init /\ [][Next]_vars
-----------------------------------------------------------------------------
(* Properties. *)

(* Every variable has its type, and the map from targets leads to the       *)
(* pooled session of the target.                                            *)
TypeOK ==
  /\ target \in [Targets -> {"unopened", "usable", "unusable", "closed"}]
  /\ detours \in [Targets -> 0..MaxDetours]
  /\ pool.wrapped \in 0..MaxSessions
  /\ pool.tabs \subseteq 1..pool.wrapped
  /\ \A r \in Targets :
       pool.mapped[r] # None =>
         pool.mapped[r] \in pool.tabs /\ pool.session[pool.mapped[r]].raw = r
  /\ presumed \subseteq Tasks
  /\ exposed \subseteq Targets

(* A quarantined target is not in the pool: no scan, whatever it asked the  *)
(* browser before the quarantine, pools it again (_scan_new_tabs).  Not so  *)
(* when create_*_site_tab wrapped a target that a scan had pooled, or when  *)
(* a scan took a barred target for closed because it opened after the       *)
(* scan's question.                                                         *)
QuarantinedIsOut ==
  \A r \in Targets \ exposed :
    pool.quarantine[r] # NoEntry => \A s \in pool.tabs : pool.session[s].raw # r

Page(t) == pool.session[task[t].tab].raw

(* Two workers drive one page only if the recovery took the first for gone  *)
(* when its time was up, however often the page left the pool and came back *)
(* under a new session while the first was still at it.                     *)
OneDriver ==
  \A t, u \in Tasks :
    /\ t # u
    /\ task[t].at = "driving" /\ task[u].at = "driving"
    /\ Page(t) = Page(u) /\ Page(t) \in Open
    => Page(t) \in exposed \/ presumed \cap {t, u} # {}

(* No target stays out of the pool unattended: as long as its entry is not  *)
(* permanent the entry is on its way to the recovery or in its queue        *)
(* (_cleanup_unhealthy_tabs, _submit_recovery).                             *)
QuarantineIsWorkedOn ==
  LET about(e, r) == e.raw = r /\ e.by = pool.quarantine[r].by IN
  \A r \in Targets \ exposed :
    pool.quarantine[r] # NoEntry /\ ~pool.quarantine[r].permanent =>
      \/ \E i \in DOMAIN pool.failed : about(pool.failed[i], r)
      \/ \E i \in DOMAIN recovery : about(recovery[i].entry, r)

(* A session whose target is open leaves the pool only when it failed or    *)
(* was closed, or when it is idle and its page is known to have been, once, *)
(* at an address the pool skips.  A page that was at one may lose its       *)
(* session to an old answer, which overwrites the address the session       *)
(* remembers, even of a session that joined the pool after the question;    *)
(* no answer, however old, costs any other page its session                 *)
(* (_scan_new_tabs, _cleanup_unhealthy_tabs).                               *)
ScanSparesLive ==
  [][\A s \in pool.tabs \ pool'.tabs :
       LET r == pool.session[s].raw IN
       \/ r \notin Open
       \/ r \in exposed
       \/ pool.session[s].status \in {"closed", "error"}
       \/ pool.session[s].status = "idle" /\ detours[r] > 0]_vars

(* What the comments say of the recovery: an open page leaves quarantine    *)
(* only when the worker that drove it has ended (_is_worker_exited).        *)
ReadmittedAfterExit ==
  [][\A r \in Targets :
       pool.quarantine[r] # NoEntry /\ pool'.quarantine[r] = NoEntry /\ r \in Open =>
         \A t \in Tasks : ~(task[t].at = "driving" /\ task'[t].at = "driving" /\ Page(t) = r)]_vars
=============================================================================
