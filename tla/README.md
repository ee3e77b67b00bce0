# Formal models of codex-web-bridge

The bridge lets a Codex client talk to ChatGPT through a browser: the client
calls `POST /v1/responses`, the bridge types the prompt into a ChatGPT tab and
streams the answer back. Almost everything that is hard about it comes from one
fact: **one page is shared** by requests, commands, monitors, watchdogs and
administrators, on threads and on an event loop, and the page itself has a will
of its own. This directory models that sharing in TLA+, checks the models with
TLC and proves invariants of eight of them with TLAPS.

    module             models                                  config
    TabLease           what a pooled tab promises (abstract)
    TabSession         one tab and everybody who changes it
    MCTabSession       TLC instance                            MCTabSession
    TabSessionProofs   theorems about TabSession
    FairLine           what a line of waiters promises (abstract)
    TabQueue           waiting for a tab, handoff, monitors
    MCTabQueue         TLC instance                            MCTabQueue
    TabQueueProofs     theorems about TabQueue
    TabPool            scans, quarantine, recovery, creation of tabs
    MCTabPool          TLC instance                            MCTabPool, TabPoolScan,
                                                              TabPoolLate, TabPoolReadmit
    TabPoolProofs      theorems about TabPool
    RequestManager     the life of requests, their history
    MCRequestManager   TLC instance                            MCRequestManager, RequestManagerTwo,
                                                              RequestManagerLate, RequestManagerMedia
    RequestManagerProofs  theorems about RequestManager
    SaveWorker         the threads that save the history
    MCSaveWorker       TLC instance                            MCSaveWorker
    SaveWorkerProofs   theorems about SaveWorker
    PromptSend         fill, guard, send, confirmation, retry
    MCPromptSend       TLC instance                            MCPromptSend, PromptSendSkipped,
                                                              PromptSendStale
    PromptSendProofs   theorems about PromptSend
    CodexTurn          Codex turns on the shared ChatGPT page
    MCCodexTurn        TLC instance                            MCCodexTurn, CodexTurnExact,
                                                              CodexTurnHint, CodexTurnRequestScoped,
                                                              CodexTurnBound, CodexTurnShared
    CodexTurnProofs    theorems about CodexTurn
    CommandQueue       triggers, dispatch, interrupts, flush of commands
    MCCommandQueue     TLC instance                            MCCommandQueue
    CommandQueueProofs theorems about CommandQueue

`tlc -config X.cfg M` checks a configuration, `tlapm M.tla` a proof module.
`PROJECT.json` lists the components, the runs, one mutant per property (a
plausible bug that the property catches), the source lines of every definition,
the findings, the hazards and the theorems.

## 1. Inventory

The path of a request through the standalone bridge:

    api/standalone_routes.py        installs the patches (compaction, hardening, stream)
      -> api/codex_responses_v2.py  prepares the turn, owns the stream
        -> codex_chatgpt_executor   one tracked request per turn
          -> request_manager        context, cancellation, history
          -> request_lifecycle      worker thread, hard timeout, leak
            -> browser/workflow.py  on the worker thread
              -> tab_pool           acquire, handoff, release
              -> the ChatGPT page   New Chat, fill, send, wait

| component | state it keeps | operations | what makes it hard | what makes it correct |
|---|---|---|---|---|
| tab session (`tab_pool_parts/session.py`) | status, owner, release flag, termination gate | acquire, two-block release, forced release, terminate, mark_error, mark_closed | every operation is a block under the session's lock, the sequences of blocks are not | one owner, one teardown at a time, a lost tab stays lost |
| tab pool manager (`tab_pool_parts/manager.py`) | sessions, waiter queues, quarantine, monitors | acquire by several keys, handoff, release, watchdog, scan, clean-up, shutdown | the condition is dropped during the handoff; scans work on snapshots | FIFO per key, no monitor on a tab that was handed out, quarantine ends |
| request manager (`services/request_manager.py`) | contexts, history rows, totals | create, start, finish, cancel, late response, sweep, clean-up | four writers of one history row; look and mark in two blocks | outcomes are final, live requests are tracked, one row that agrees |
| request life cycle (`services/request_lifecycle.py`) | worker thread per request | run, poll, hard timeout, join, retire | a thread cannot be killed | the request ends although its worker hangs; the worker is told |
| executor (`services/codex_chatgpt_executor.py`) | one coroutine per request | execute, finally | cancellation at every await | every exit finishes the request |
| Codex turns (`api/codex_responses_v2.py`) | stream per turn | prepare, start, complete, fail, leave | the preparation navigates the page before the worker owns it | ChatGPT reads the client's transcript |
| conversation affinity (`services/codex_web_session_affinity.py`) | response bindings, lineages, reuse hint | bind, resolve, expire, restore, hint | bound to what the page shows, not to what was sent | a binding tells the truth |
| responses state (`api/codex_runtime.py`, `services/codex_responses_state.py`) | snapshots in memory and SQLite | store, load, expire, recover | restart and expiry between two reads | a continuation has its whole history or fails |
| turn hardening (`services/codex_v2_runtime_hardening.py`) | tables of call ids and satisfied tools | degraded continuation, fencing | reaches around the modules it wraps | no answer is credited to the wrong call |
| rate limit guard (`services/chatgpt_web_rate_limit_guard.py`) | hits, blocked-until | record, wait, refuse a resend | several waiters, one deadline | no blind resend |
| cancel storm guard, save threads (`request_manager.py`) | recent cancellations; two coalescing savers | record, back off; schedule, save | thread hand-over, file replacement | the last state reaches the disk |
| remote compaction, stream compatibility | envelopes, usage totals | encode, rewrite; add, heartbeat | generations, chains of responses | durable state survives compaction |
| command engine, event bridge | consumed events, runners, queues of the running workflow | trigger, dispatch, interrupt, defer, flush, give back | five kinds of threads pass one pair on | no event lost, none run twice |
| monitors, workflow executors, extractors, parsers | page observation | wait, read | when is an answer complete | nothing cut off |
| configuration, arena, utilities, tools, schemas | files, processes | load, start, stop | mostly input and output | |

How they interact: calls from the event loop into the pool run on an executor;
the pool calls the session under its condition; the workflow reads the reuse
hint that the stream sets; the leaked-worker check, the watchdog and
force_release_all mark sessions they do not own; the stream reads the path of
the page after its worker has let go of the tab.

The behaviours worth a model, with the line where each bites, are the hazards
of `PROJECT.json`.

## 2. What is modelled

### TabLease and TabSession

A tab is free, held, draining or gone (`TabLease`). `TabSession` is the code:
each block under the session's RLock is one action, so `_begin_release_state`
and `_finish_release_state` are `BeginRelease` and `FinishRelease`, with
everybody else's steps between them. A test made without the lock is an action
apart from the write it decides (`WatchdogCheck`/`WatchdogMark`,
`RetireCheck`/`RetireMark`), and the pool's condition, which the watchdog holds
across its two steps, is the guard `PoolLockFree`. `work[t]` is where the thread
of a task is: `handoff` is the stretch after `acquire` in which the pool has
dropped its condition to stop the tab's monitor; `giving up` is the last block
of a failed handoff. `evicted` is a history variable: the tasks whose tenure
`force_release_all` ended while their thread still drives.

Read off the model: the leaked-worker check logs that it spares a tab with
another task (`request_lifecycle.py:359`), but its test and its mark are not under
one lock, so the mark can land on the tab of the next request (line 370), which
loses it.

The pool may hold other tabs, but no action of one tab reads the state of
another, so one tab is enough for everything stated here; the lines before a tab
are `TabQueue`, the tabs of one page under several sessions `TabPool`. The three
modules cut the pool along what its condition protects at a time: in `TabQueue`
and `TabPool` the blocks of one release are two actions whose inner states only
`TabSession` tells apart.

### FairLine and TabQueue

`FairLine` is the promise: of those who wait for a key the first is served, or
leaves. `TabQueue` is the code of the five `acquire_*` functions that wait in a
line and of `acquire_by_raw_tab_id`, which does not. A line is an object with an
identity (`Lines`, named after the task that created it): `_unregister_waiter`
runs twice for one request, the second time after the handoff dropped the
condition, and a map from keys to lines may by then know another line for the
same key. `mine[t]` is the line object a task still holds, `line[k]` the one the
map knows, `queue[l]` who is in it, ordered by `token`.

The handoff is `StopMonitor` (the stop waits for a start in progress), then
`HandOver` or `HandOverFails`; `Lost` is what
`_complete_acquired_session_for_return` finds wrong when it has the condition
again. A monitor is started in two steps (`StartBegin`, `StartEnd`): the status
of the tab is read before the listener is on. Left out: which free tab is
preferred, and the clock that decides when a call gives up (it may at any time).

### TabPool

One action per block under the condition; a scan drops it while it asks the
browser (`ScanBegin`, `ScanLook`, `ScanApply`), and so do the creation of a tab,
the handoff and the closing of a barred tab.

| state | code |
|---|---|
| `target` | the browser: targets that are open, at an address the pool takes (`usable`) or not, or closed |
| `pool.session`, `pool.tabs`, `pool.mapped` | sessions, `_tabs`, `_raw_id_to_persistent` and `_persistent_to_session_id` in one |
| `pool.quarantine`, `pool.failed` | `_quarantined_raw_ids`, entries a clean-up collected and has not submitted |
| `recovery`, `attempts` | the queue of `TabRecoveryService`, whose one thread works on the head, and its `_attempts` |
| `session[s].url` | the address the session last saw of its page, by which `is_healthy` judges it |
| `scan` | scans and `create_*_site_tab` calls in flight, with the answer they hold: open targets and what addresses they had |
| `detours` | history: how often a page went to an address the pool skips |
| `presumed` | history: tasks the recovery took for gone because their time was up |
| `exposed` | history: targets two threads pooled at once |

What a scan does under the condition is one operator from the pool before to the
pool after: `Pruned`, `Repaired`, `Remembered`, `Dropped`, `Cleaned`, `Extended`,
in the order of `_scan_new_tabs`. `Remembered` is its loop over the targets it
knows: it writes the address of the answer into the session of such a target,
without asking when the session was created or what it has seen since
(`manager.py:2100`), and the clean-up (`Unfit`) and `Addable` judge by the
remembered address and by that of the answer, not by where the page is. A
session learns its page's address by itself when a query refreshes what it
remembers (`ReadAddress`). Three things the model shows of the code and the
properties except: a page that was at an address the pool skips and came back may
lose its session to an old answer, even a session that was created after the
question, which the comments at `manager.py:2009` and `:2137` would spare
(`detours`), `create_isolated_site_tab` and `create_shared_site_tab` wrap a target
that a scan, between the opening and the wrap, has wrapped already
(`exposed`), and the exit of a worker is presumed when the grace is over
(`presumed`), because nothing sets the `worker_thread` it looks for.

Left out: sessions of isolated contexts that are bound to another target,
`preserve_error_tabs`, `force_release_all` and terminate (`TabSession`), numbers
and names of tabs, the navigation of a refresh (it works or it fails).

### RequestManager

A request is a `RequestContext` (`status`, `flag`), the coroutine that serves it
(`handler`: accepted, running, answering, cleaning, finishing, recording, over),
its worker thread and its history. The clean-up of old requests (`scan`) holds
the manager's lock but looks at a request and marks it in two blocks of the
request's lock, so a queued request can start in between. History is written
under `_history_append_lock` in five blocks (claim, build, compact, store, done)
by four writers: the end of the request, a cancel call, the clean-up and a late
response. `Compact` writes the response copied at the claim back into the monitor
and lets the media items go (`_compact_context_monitor_after_history_append`).
`Capture`, which the lock of the writers does not exclude, may come before it:
`latest` and `overtaken` are history variables that tell the response captured
last, and whether it came between the copy and the write-back. It is then
overwritten, and the row that is written next shows the old one: the late
response the docstring of `capture_external_response` promises is lost.
A row that is written again after the media items were let go is judged without
them, so that a request that was shown completed may turn into a failure.

Left out: the reasons of a cancellation (the fast return after a worker stop
has no caller), switching the monitor off, the order of rows by time (the victim
of trimming is left open), prompt tokens and the number of requests (they are
counted at the same place as the response tokens), the rounds of tool calling
(they share one request and one worker slot), rows that come back after they
were trimmed (`TotalsExact` speaks of requests whose rows were not trimmed), and
writing to disk (`SaveWorker`).

### SaveWorker

Whoever stores a row asks for a save; the flag, the slot for the thread and the
two loops are translated one by one. `is_alive` is false for a thread that was
created but not started, so two save threads can run, and one that ends empties
the slot whoever is in it; the save lock makes the saves exclusive, but its
failure handler runs outside it (`RemoveTemp`). Rows are numbered, and of a list
of rows only the newest is kept, for a save writes all of them. `forgiven` is a
history variable: the newest row a failed save had copied or a restart lost.

Left out: trimming, the switches that turn the history or its file off, a
history file that cannot be read at a start (the history then starts empty, and
the next save replaces the file), and the statistics, which are saved by a copy
of this code.

### PromptSend

A workflow is reduced to its steps fill, send and wait. Before fill and send the
rate limit guard waits for the cooldown all tabs, and other processes, share in
a file; then the executor waits until the page looks idle, fills or clicks, and
decides from what the page shows whether the prompt was sent.

| state | code |
|---|---|
| `sender[t]` | the step, where in it the executor is, `_last_fill_text_sha256` (`noted`), `_last_send_dispatched_since_fill`, the deadline of its wait |
| `sender[t].listening`, `.heard` | the network listener of the tab, and whether it holds, or sees running, a stream that is not the sender's |
| `page[t]` | what the tab shows: surface (open, rate limit, another blocker), composer (empty, the prompt, another text), what generates (nothing, an old answer, something stray, its own), and how many messages ChatGPT took |
| `limit` | `chatgpt-rate-limit.json`: cooldown left, hits, age of the last hit, in ticks |
| `interrupt`, `cancelled` | a command pending in the workflow runtime, the request's cancel flag |
| `excuse` | history: what the executor cannot know (a newer cooldown, an address it could not read, somebody else's hand on the page, a click that raised after it worked, a retry past the guard) |

What a page does on a click is external: nothing, or it takes the message and
shows that now or later. The kinds of send differ in the retry: a stealth send
without images reports a failure, one with images clicks again without the guard,
the others retry through `guard_before_retry`, which refuses.

A send is confirmed by what the page shows or by what the listener reports
(`Reports`). The listener is started by the send step before its guard, or after
a command, and is not emptied before the click: `mark_send_attempt` notes how
many streams run, and `poll_send_activity` takes any packet that fits the
pattern, so a stream of an old turn that the listener saw (`OldStreamHeard`)
confirms a click that got lost (`heard`). Which streams a browser
reports is external; one that was over before the listener was started is not
among them. A report may fail to come, for the poll swallows its errors and an
old stream that still runs is in the baseline.

Read off the model: a command that interrupts the guard of the fill step skips
the fill, and the send step then sends whatever the composer holds
(`workflow.py:2346`); the same line lets an interrupted send step fall through
to the wait (`prompt_send_skipped`).

Left out: the New Chat step (`CodexTurn`), the Arena interrupt, input lengths,
two processes that write the state file at once, and a text that the page shows
with other white space: it passes for filled, and the clean-up, whose hash is of
the exact text, does not take it back.

### CodexTurn

A turn is one exchange: what the client adds and what ChatGPT answers. A
transcript is the sequence of exchanges it consists of; messages are not
modelled, so `history_prefix_count` counts exchanges. A prompt typed into an
empty page opens the conversation named after its turn.

| state | code |
|---|---|
| `turn[t].at` | where `_stream_codex_v2_attempt` is; preparation is synchronous, so it is one action |
| `turn[t].worker` | the workflow thread: queued for the tab, driving, opening a chat, composing, sent |
| `memory`, `disk` | `_responses_state_by_id`, the SQLite snapshots |
| `bindings`, `lineages` | `_BINDINGS`, `_HISTORY_BINDINGS` (least recently used first) |
| `hint` | the reuse hint on the tab, in all three places it is kept; `left` when the call that was to clear it did not find the tab |
| `tab`, `page` | who holds the tab, which conversation it shows |
| `named`, `content` | the ChatGPT side: conversations whose path is shown, what was typed into each |

A client continues a response either by id and new items or with the whole
transcript. `PrepareReuse`, `PrepareLineage` and `PrepareFresh` are the branches
of `_prepare_codex_web_turn_with_history_affinity`; `PrepareDegraded` and
`PrepareFails` are the guard around it. `Complete` is atomic, because the
hardening buffers the stream, and nothing in it waits. `Abort` is the
cancellation of the generator (the hint is cleared, then the task awaited),
`Leave`/`Left` is the keepalive that finds the client gone (the task is awaited,
then the hint cleared). `set_codex_workflow_reuse_hint` returns silently when it
does not find the tab, so `HintSet` and `HintCleared` are sets of outcomes: under
the disturbances "unset_hint" and "uncleared_hint" it may stay as it was. What else can go wrong
is named in the constant
`Disturbances`, so that a run says under which circumstances it shows what it
shows.

Left out: the match of model and reasoning effort (turns of one instance agree),
`store = false`, instructions and compaction, the id sent along with a replayable
transcript (it behaves like the transcript alone), the strict retry for a
required tool (a further turn that continues the failed one), and the loss of
the tab.

### CommandQueue

An event that a network trigger matches is *consumed* for its command
(`_consume_network_signature`), and the pair of command and event is from then on
passed from hand to hand until the command is run or the event is given back
(`_rollback_trigger_consumption`). The module models one tab, its events and the
threads that pass pairs on; each locked block and each single statement is an
action.

| state | code |
|---|---|
| `recent`, `consumed` | `_network_events`, the `net_sigs` history of `_trigger_states` |
| `meta` | `_pending_async_trigger_meta`, one slot per command |
| `hand[t]` | a check (`check_triggers`, `check_workflow_triggers_now`, `_run_periodic_checks`) or a listener (`handle_network_event`): where it is, the pair, the commands it has still to offer the event to, the runtime it took hold of |
| `stage[c]`, `event[c]` | the one runner a command has on a tab (`_executing`) and what it runs for |
| `tab` | who has the tab: a runner or a workflow |
| `stage[w]`, `pending`, `deferred`, `aborted`, `seen` | a workflow, its runtime, and the list as its end has read it |
| `current`, `reason` | the top of `_workflow_runtime_stack`, `_workflow_stop_reason` |
| `post`, `bag` | `_pending_post_workflow_commands`, and what a flush or the end of a workflow has in its hands |
| `ran`, `again`, `lost`, `undone` | history |

`Trigger` and `Take` are two steps, for `_should_trigger` leaves what it consumed
in a slot and the dispatch takes it from there. `Aim` and `Append` are two, for
the runtime is looked up without the lock; `Append` and `Raise` are two, for the
stop reason is set after it. `Collect` and `Merge` are the end of a workflow, which
reads the list and writes it without the lock a flush holds. A timer flushes the
list after a workflow (`Flush` of a workflow), a runner does at its own end.

What the model shows of the code, and the properties except by name: a second
check overwrites the slot of the first (`command_engine.py:309`); a command
queued while the workflow ends goes into a runtime that was read already
(`Late`); an aborted workflow drops its deferred commands unless a command
aborted it, and then the interrupts that still wait; a workflow that has nothing
to keep empties the list (`command_engine_runtime.py:193`), with what an earlier
one left there; and two threads may give one event back twice
(`command_engine.py:2691`), or write back a list that a flush has emptied, after
which a pair can run again (`undone`).

Left out: priorities and their counters, the history limit of consumed events,
triggers on request counts, pages and results, disabled commands, nested
runtimes (a workflow run by a command), shutdown, and follow-up commands. Of
those: a follow-up of an event-triggered command that was dispatched outside a
workflow is deferred into a dictionary nobody reads
(`command_engine_runtime.py:446`), although the log says it waits for the
workflow.

## 3. Runs

| run | instance | shows |
|---|---|---|
| `session` | 2 requests, 1 command, 2 terminate calls | teardown and driving are exclusive, a refund takes back its own count, an interrupt hits only the task it was meant for, the session implements the lease, the tab comes back, the gate lifts |
| `request_one` | 1 request, every disturbance | outcome final, leaked worker told, one history row that agrees, totals exact, the request ends |
| `request_two` | 2 requests, room for 1, history of 1 row | live requests are never dropped |
| `save_worker` | 3 callers, 3 threads, 1 failed save, 1 restart | the file never goes back nor holds half a save, every row lands in it |
| `tab_queue` | 3 calls, 2 tabs, a key of each kind | one line per key, first come first served (refinement of `FairLine`), one holder, no monitor on a tab that was handed out |
| `tab_pool` | 1 target that may leave its address once, 2 sessions, 2 requests, 2 scanning threads | quarantined pages stay out and are worked on, one driver per page, no scan drops a live tab on an old answer but for an idle one whose page was, once, at an address the pool skips |
| `tab_pool_readmit` | 1 scanner | *violated*: a page is readmitted while its old worker drives it |
| `prompt_send` | 1 workflow in 5 situations, 3 events | sent once, confirmed only if sent or on a stream of an old turn, nothing left in the composer, nothing sent into a known cooldown, every workflow ends |
| `prompt_send_skipped` | 2 workflows, 1 event | *violated*: an interrupted send step is followed by the wait for an answer |
| `codex_turns` | 3 turns one at a time, every disturbance but a late goodbye and a hint that is not set | nothing of the transcript is missing, bindings are honest, the hint is there only with a turn it was set for, or when its clearing did not reach the tab |
| `codex_exact` | 3 turns, 1 restart, no disturbance | ChatGPT reads exactly the transcript |
| `command_queue` | 2 commands, 2 events, 2 checks, 1 listener, 2 workflows, in 5 settings | no consumed event gets lost but where the engine is known to drop it, no command runs twice for one event, every consumed event is settled |

The violated properties are what a comment or a docstring of the code says; `PROJECT.json` quotes them under "findings".

**Bounds.** Two requests and a command are enough for a holder, a successor and
a holder that is not counted; two terminate calls for one that is refused. The
request count is cut at 2, where a wrong refund is visible. One request meets all
of its own enders and writers at once, a second one is needed only for the room
in the manager and in the history, both of size 1, and there the disturbances
that the first run covers are off. Tokens are 0 or 1: an answer with and without
text. Three turns make the shortest chain in which a lineage, its parent and a
fork differ. `codex_turns` has no restart: forgetting what a restart forgets,
entry by entry and at any time, is in it; the restart itself, which also ends
turns, is in `codex_exact`. Turns are interchangeable, hence the symmetry of
the safety runs; the runs with liveness properties use none.

`codex_turns` and `codex_exact` are of turns one at a time, whose clients wait for
the end of the last: that is what can be promised, for nothing in the code keeps
two turns from the one page. Of turns that overlap neither `NothingMissing` nor
`BindingHonest` holds: with `MaxActive = 2` and no disturbance TLC refutes both in a
second, for a turn prepares the page while another drives it, and the path a
response is bound to is read when another turn may have moved the page. A client
that does not wait (the disturbance "late_goodbye") can lose its reuse hint to the
finally block of the turn before, and a tab that is not found when the hint is to
be set ("unset_hint") leaves the worker without it; `NothingMissing` does not hold
under either. A tab that is not found when the hint is to be cleared
("uncleared_hint") leaves the hint behind: no later turn is harmed, since each
wants it, but the workflow of an ordinary request is kept in the conversation the
tab shows. `HintScoped` is proved with all of them. A conversation whose
path is not shown, or one that holds an abandoned prompt, is not as empty or
exact as the docstrings have it either: `NothingMissing` holds there,
`ExactContext` does not, and is checked without disturbances.

`tab_queue` has three calls, because it takes a request in its handoff, one that
created the line anew and one that joins it to go wrong; 0.7 million states.
`tab_pool` needs one target only (sessions of different targets share nothing
but `max_tabs`), two sessions for a page that is quarantined, readmitted and fails
again, two scanners for an old answer and a new one, and for two threads that pool
one target. `MaxDetours` is how often a page may go to an address the pool skips:
once is what a scan needs to write an old address into a session whose page has
come back; 0.9 million states.
`prompt_send` has the backoff <<1, 2>>, so that a second hit is told from the
first, and two retries; three events are enough for a rate limit, a command and a
cancellation in one send. What a second tab can do to a first one is to extend
the cooldown, which `RecordElsewhere` does at any time; 0.8 million states.
One of the situations is a tab whose earlier turn still runs.
`save_worker` has as many threads as callers, so none is ever missing.
`command_queue` has five settings instead of one large one: a command that may
interrupt and hears two events from a listener and a check; one that may and one
that has to wait; one that may, under two checks; one that has to wait, with two
workflows, the second of which ends with nothing to keep; two that may, one of
which aborts. Two events are needed for a slot that is overwritten, two commands
for a runner whose flush submits another, two checks for an event that is
consumed again between two rollbacks; 0.1 million states.
No run checks the types of `TabQueue`, `SaveWorker`, `PromptSend` and
`CommandQueue`: they are theorems.

`CHECK_DEADLOCK FALSE`: a lost tab, requests that are all over, turns that are
all answered, saved rows, workflows that have ended and events
that are dealt with are the end of what the
models explore.

**Fairness.** `TabSession`: a thread that began a release or an interrupt ends
it (both blocks run in one thread without waiting for anybody), and the watchdog
thread ticks for ever. Nothing is assumed of the workflows: they may hang.
`RequestManager`: the coroutine, the clean-up and a writer that began go on,
because the waits of the code are bounded (poll, hard timeout, join with a
limit; the hard timeout is assumed to be enabled, as it is by default). The
history lock is taken in the end (strong fairness of `Claim`): late responses of
one request do not come for ever. Nothing is assumed of the worker, the client
or other threads.
`SaveWorker`: a caller that stored a row asks for its save and starts the thread
it created, and save threads go on; none of these steps waits for anything but
the two locks, which are held for bounded work. Nothing forces rows, failures or
restarts. `PromptSend`: time passes and the thread of a workflow runs on, since
each of its waits polls with a deadline; nothing is assumed of the pages.
`CommandQueue`: a thread that has begun a dispatch goes on, a runner gets the tab
or gives up (`acquire_timeout_sec` bounds its wait), a workflow that has begun
ends, as the hard timeout of its request makes it, and the timer fires. Events
need not come and checks need not be made.
`CodexTurn`, `TabQueue` and `TabPool` state safety only: whether a waiter is
served depends on workflows that may hang, and a call may give up at any time.

## 4. Theorems

TLAPS proves, for all values of the constants the named assumptions allow
(`SessionAssumption`, `RequestAssumption`, `QueueAssumption`,
`PoolAssumption`, `SaveAssumption`, `SendAssumption`, `TurnAssumption`,
`SettingAssumption`, `NameAssumption`):

* `TabSessionProofs`: type correctness, `TeardownExclusive`, `ExclusiveDriving`,
  `RefundsOwnTenure`, `InterruptHitsOnlyItsTask` and the step simulation behind
  `ImplementsLease`. None of them but the first is inductive.
  `IInv` adds that an idle tab has no owner and no release in flight
  (`IdleIsQuiet`), that a release has taken the owner away
  (`ReleaseTakesOwner`), that the record of a release is live exactly while its
  thread is between the two blocks (`ReleaseRecorded`), and that a live record is
  the one the flag stands for unless the tab was lost meanwhile
  (`ReleaseFlagged`): this last one is what makes `mark_closed`, which resets the
  flag under a running release, harmless. The interrupt needs a fact of its own,
  `ArmedAlone`: while a terminate call may still touch the page, it is the only
  one, its gate is shut and no release lifts it.
* `RequestManagerProofs`: `TypeOK`, `LiveIsTracked`, `LeakedWorkerIsStopped`,
  `HistoryOnce`, `HistoryAgrees`, `TotalsExact`, `OutcomeFinal`. `IInv` says
  where the coroutine can be for each status (`PlaceFits`), that whatever ended a
  request behind the coroutine's back has set the flag (`FlagFits`), that the
  clean-up dooms only what has ended (`ScanFits`), that history is written only
  of what has ended (`JobsFit`), by one writer at a time (`OneWriter`), who knows
  whether a row exists (`WriterKnows`). `HistoryInv` says when a row may be
  trusted (`RowFits`): once the coroutine is recording or has reported, and no
  writer is still to claim the row, the one that claimed it holds the response
  the monitor's context held, what it has built is the last outcome, and with no
  writer left the row is both. `LatestFits` adds that the context holds the last
  response, unless one was captured between a writer's copy and its write-back
  (`overtaken`), which `HistoryAgrees` excepts.
  `TotalsExact` is proved under `RoomForAll`, no more requests than
  `MaxRecords`: a row that was trimmed stays in the totals, so that they are the
  sum over the rows only of a history with room for all.
* `CodexTurnProofs`: `HintScoped` and `TypeOK`, for every set of turns, number of
  clients and restarts, and every disturbance; `NothingMissing` and
  `BindingHonest` under `OneAtATime`: the clients run one turn at a time and wait
  for the end of the last (`MaxActive <= 1`, no "late_goodbye"), and the
  tab is found when the hint is to be set (no "unset_hint"), while forks, lost answers, late names, flapping
  pages, lost snapshots, expiry and restarts may come in any number. Nothing in
  the code enforces the first, and without it both are refuted (section 3). What
  is left to go wrong, and is excluded, is the doing of one turn after another:
  lineages that match a shorter prefix, forks that type into a bound conversation,
  paths that are shown late, and the fallback to the path that was reused.
  `HintScoped` is inductive together with the shape of the turn records: of the
  many ways a stream can end, each asks for the hint to be cleared, or had not
  asked for it; a clearing that does not reach the tab leaves it "left". `Sound`
  adds what is kept of a response. The invariant of the other two is `Whole`:
  what is to be answered is what is known of the transcript, or, degraded, the
  new items alone (`Faithful`); one turn is active (`Alone`); and at
  every stage of that turn (`ReadyFor`, `OnCourse`, `Told`) and in every bound
  conversation (`Honest`) what is known is covered by what was typed and what is
  about to be (`Covered`). A property of the end of a turn cannot be proved from
  the end alone: that the delta typed by the worker fits the conversation it
  meets was settled when the event loop prepared the page.
  `ExactContext` is proved under `Undisturbed`, one turn at a time and nothing but
  restarts and expiry, the setting of its run. `Exactly` joins `Whole` with the
  order of things. Transcripts are made of turns in one order: of two with an
  exchange in common, one continues the other (`Ancestry`). A conversation holds
  the transcript of one turn, its tip (`Tips`). When a turn is prepared, the tip
  of the conversation that is reused must be the turn it continues: for a binding
  because nobody else may have continued that turn (`ParentTip`); for a lineage
  because the tip of a known lineage's conversation is known as well
  (`TipListed`), comes later in the list (`LineOrder`) and would have matched
  first (`LineageTip`). That is where the order of eviction matters: age removes
  the lineage that was bound first, the number of entries the one used least
  recently, and neither is a tip while what it continues is still there.
* `TabPoolProofs`: `TypeOK`, `QuarantinedIsOut`, `OneDriver`,
  `QuarantineIsWorkedOn` and the action property `ScanSparesLive`, for any number
  of targets, sessions, tasks and scanners. The invariant is
  `World /\ PoolInv(pool, exposed) /\ Asked(pool)`. Most actions change the pool
  in several blocks, so `PoolInv` is stated of a pool and a set of targets that
  are about to be readmitted, and each block has a lemma. Its parts: a target
  has one pooled session (`Structured`, `Unique`), a quarantined one none
  (`Out`); entries name sessions that are over (`Origin`: session numbers never
  come back, so an old entry is not taken for a later one); what waits for the
  recovery says what the quarantine says, and whatever is not permanent waits
  (`Filed`, `Worked`); a job that is judged has no worker any more (`Judged`);
  two tasks are never on one tab (`Apart`), and a task that still drives a page
  has its session in the pool or its name on the entry (`Driven`). `Driven` and
  `Out` give `OneDriver`. `ScanSparesLive` needs two facts more: `Asked` says what
  a scan still knows after it let go of the lock, `Recalls` that a page
  which is at an address the pool skips, or is taken to be by a session or by a
  scan's answer, however old, has been at one (`detours`).
* `TabQueueProofs`: `TypeOK`, `OneLinePerKey`, `MonitorGivesWay`, `OneHolder`,
  and that the queue implements `FairLine`. `IInv` joins them with three facts:
  every call but a new one has a key and, where its key has one, a line
  (`Queued`); a tab that is held is not idle (`Held`); and stops and starts of
  monitors exclude each other (`Exclusive`). The heart is
  `LeaveKeepsLines`: whoever leaves, first or second time, forgets a line only if
  it is the one the map knows and nobody is left in it.
* `SaveWorkerProofs`: `TypeOK` and `FileKeepsRows`. `IInv` says that who writes
  holds the save lock and the other way round (`LockInv`), that a copy is no
  older than the file and no newer than memory (`CopyInv`), that a save finds its
  own temporary file or none (`TmpInv`), and that a thread about to be started
  was created for one caller (`StartInv`).
* `PromptSendProofs`: `TypeOK`, `SentOnce`, `ConfirmedIsSent`,
  `ComposerReturned`, `CooldownIsSeen`, for any number of tabs, retries and
  events. The invariant speaks of one tab at a time: where it stands fits what
  it clicked (`Placed`), one click makes at most one message (`Counted`), what a
  page shows, and what the network listener has seen, has a cause (`Caused`), who
  knows of the cooldown waits for all of
  it (`Told`), an ended workflow has taken its prompt back (`Returned`). The one
  thing tabs share is the cooldown; `RecordedExtends` says that no hit shortens
  it. That needs a backoff that does not decrease, which `SendAssumption` asks
  of `Backoff` and `_BACKOFF_SECONDS` has.

* `CommandQueueProofs`: type correctness, `EventAccounted` and `RunsOnce`, for any
  number of commands, events, threads and workflows. The places a pair can be in
  (`Keepers`) are one set: hands, slots, runners, bags, the list, the queues of
  runtimes; for each action a lemma says which pairs it moves from where to where
  (`AppendMoves`, `FlushMoves`, ...). The invariant has two parts. `Accounted`
  says that a consumed pair is in some place, was run, or is in a list an ending
  workflow has read, and `BagsEmptied` that nothing is in a bag but meanwhile.
  `Apart` says that a pair that was not given back behind its keeper's back is in
  at most one place, is consumed while it is in one, and is in none once it was
  run: that is why nobody can run it a second time.

The proofs have one step per action of `Next`; the blocks several actors share
(`BeginRelease`, `FinishRelease`, `RequestCancel`, `MarkFailed`) have lemmas.

Only model-checked: liveness (`GateLifts`, `TabComesBack`, `RequestEnds`,
`RowsLand`, `SendEnds`, `EventSettles`), since TLAPS does not reason about
ENABLED and fairness here. Every safety invariant of a passing run is a
theorem. How many of a list of targets a scan wraps
(`Extended`) is not computed one by one, which would be an induction over data:
it is the longest beginning of the list that fits. The violated properties are
counterexamples, not theorems.

## 5. Plan

The core (session, requests, turns), the pool around the session, the saves, the
send and the commands are done. What is left, in this order:

1. Call id fencing and the table of satisfied tools across eviction, with the
   strict retries that read it.
2. Results of commands: the triggers on them, follow-up commands and nested
   runtimes.

## 6. Not modelled

Text (classification, parsing, formatting, prompts), selectors and input
devices, site configuration, media, the arena features, the acceptance scripts
and the HTTP layer: they hold little state that interleaves, or are input and
output. The components of `PROJECT.json` say which is which. The cancel storm
guard, the detection of a complete answer and the memory guard are thresholds on
clock readings and samples: one thread, one lock, and nothing that interleaves.
Compaction and the usage totals rewrite one stream as a function of it.
