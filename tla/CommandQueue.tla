---------------------------- MODULE CommandQueue ----------------------------
(***************************************************************************)
(* The events one tab reports and the commands they trigger.               *)
(*                                                                         *)
(* A command consumes an event once, and whoever consumed it hands the     *)
(* pair on: to a runner of its own that waits for the tab, to the running  *)
(* workflow as an interrupt, or to the list of what is done after the      *)
(* workflow.  A hand-over that fails gives the event back.  The periodic   *)
(* check, the checks after a release and the network listeners are threads *)
(* of their own; so are the runners, the workflow, and the timer that      *)
(* empties the list.  Only single statements and locked blocks are atomic. *)
(***************************************************************************)
EXTENDS FiniteSets

CONSTANTS
    Commands,       \* the commands with a network trigger
    Events,         \* what the listeners report, each once
    Checkers,       \* threads that evaluate the triggers
    Listeners,      \* threads that report events
    Workflows,      \* the workflows of the tab, each begins once
    Settings,       \* how the commands may be set up, and who is about
    NoEvent,        \* a dispatch that has lost its event
    Nobody

Threads == Checkers \cup Listeners

\* hears: the events a trigger matches; urgent: the commands allowed during a
\* workflow; aborting: those that end it; reported: the events that came in
\* before the commands were switched on.
Setting == [hears : [Commands -> SUBSET Events], urgent : SUBSET Commands,
            aborting : SUBSET Commands, reported : SUBSET Events,
            threads : SUBSET Threads, workflows : SUBSET Workflows]

ASSUME SettingAssumption == Settings \subseteq Setting
ASSUME NameAssumption    == /\ NoEvent \notin Events
                            /\ Nobody \notin Commands \cup Workflows
                            /\ Commands \cap Workflows = {}
                            /\ Checkers \cap Listeners = {}

VARIABLES
    setting,    \* the setting of this behaviour
    recent,     \* the events reported so far
    consumed,   \* command -> the events its trigger has used up
    meta,       \* command -> the event a check has left for its dispatch
    hand,       \* thread -> what it is about to do, with which pair
    stage,      \* runner or workflow -> where it stands
    event,      \* command -> the event its runner runs for
    bag,        \* runner or workflow -> the pairs it is passing on
    tab,        \* who has the tab
    current,    \* the workflow whose runtime is on the stack
    pending,    \* workflow -> the interrupts that wait in its runtime
    deferred,   \* workflow -> the commands its runtime puts off
    aborted,    \* workflow -> whether it ends as an aborted one
    seen,       \* workflow -> the list as its end has read it
    reason,     \* why the workflow was last asked to stop
    post,       \* the pairs to dispatch after the workflow
    ran,        \* the pairs that were run
    again,      \* those that were run once more
    lost,       \* pairs whose event nobody gave back
    undone      \* pairs that were given back by one who no longer had them

vars == <<setting, recent, consumed, meta, hand, stage, event, bag, tab, current, pending,
          deferred, aborted, seen, reason, post, ran, again, lost, undone>>
triggers == <<setting, recent, consumed, meta>>
runtime  == <<current, pending, deferred, aborted, seen, reason>>
tally    == <<ran, again>>
ghosts   == <<lost, undone>>

Item     == [cmd : Commands, event : Events \cup {NoEvent}]
Pair(c, e) == [cmd |-> c, event |-> e]
Hand     == [at : {"idle", "match", "take", "takeForWorkflow", "route", "aim", "append",
                   "raise", "submit", "refused", "undo", "twice"},
             item : [cmd : Commands \cup {Nobody}, event : Events \cup {NoEvent}],
             todo : SUBSET Commands, to : Workflows \cup {Nobody}]
Doing(at, i, todo, to) == [at |-> at, item |-> i, todo |-> todo, to |-> to]
Idle     == Doing("idle", Pair(Nobody, NoEvent), {}, Nobody)

TypeOK ==
    /\ setting \in Settings
    /\ recent \in SUBSET Events
    /\ consumed \in [Commands -> SUBSET Events]
    /\ meta \in [Commands -> Events \cup {NoEvent}]
    /\ hand \in [Threads -> Hand]
    /\ stage \in [Commands \cup Workflows ->
                   {"none", "waiting", "running", "serving", "paused", "stopped",
                    "collecting", "merging", "release", "flush", "flushing",
                    "ending", "over"}]
    /\ event \in [Commands -> Events \cup {NoEvent}]
    /\ bag \in [Commands \cup Workflows -> SUBSET Item]
    /\ tab \in Commands \cup Workflows \cup {Nobody}
    /\ current \in Workflows \cup {Nobody}
    /\ pending \in [Workflows -> SUBSET Item]
    /\ deferred \in [Workflows -> SUBSET Item]
    /\ aborted \in [Workflows -> BOOLEAN]
    /\ seen \in [Workflows -> SUBSET Item]
    /\ reason \in {"none", "interrupt", "abort"}
    /\ post \in SUBSET Item /\ ran \in SUBSET Item /\ again \in SUBSET Item
    /\ lost \in SUBSET Item /\ undone \in SUBSET Item

Init ==
    /\ setting \in Settings
    /\ recent = setting.reported
    /\ consumed = [c \in Commands |-> {}]
    /\ meta = [c \in Commands |-> NoEvent]
    /\ hand = [t \in Threads |-> Idle]
    /\ stage = [x \in Commands \cup Workflows |-> "none"]
    /\ event = [c \in Commands |-> NoEvent]
    /\ bag = [x \in Commands \cup Workflows |-> {}]
    /\ tab = Nobody /\ current = Nobody
    /\ pending = [w \in Workflows |-> {}]
    /\ deferred = [w \in Workflows |-> {}]
    /\ aborted = [w \in Workflows |-> FALSE]
    /\ seen = [w \in Workflows |-> {}]
    /\ reason = "none"
    /\ post = {} /\ ran = {} /\ again = {} /\ lost = {} /\ undone = {}

-----------------------------------------------------------------------------
(* Triggers.                                                               *)

\* A command has one runner at a time.
Executing(c) == stage[c] # "none"

\* The thread holds nothing any more; a listener turns to its next command.
Done(t) == hand' = [hand EXCEPT ![t] =
                      IF hand[t].todo = {} THEN Idle
                      ELSE Doing("match", Pair(Nobody, hand[t].item.event), hand[t].todo, Nobody)]
Goes(t, at, to) == hand' = [hand EXCEPT ![t] = Doing(at, hand[t].item, hand[t].todo, to)]

\* The trigger of a pair forgets it has used its event up.
GiveBack(i) == consumed' = [consumed EXCEPT ![i.cmd] = @ \ {i.event}]

\* A network event is recorded; every command is then offered it in turn.
Arrive(t, e) ==
    /\ t \in setting.threads /\ hand[t].at = "idle" /\ e \notin recent
    /\ recent' = recent \cup {e}
    /\ \E c \in Commands : e \in setting.hears[c]
    /\ hand' = [hand EXCEPT ![t] =
                  Doing("match", Pair(Nobody, e), {c \in Commands : e \in setting.hears[c]}, Nobody)]
    /\ UNCHANGED <<setting, consumed, meta, stage, event, bag, tab, runtime, post, tally, ghosts>>

\* A check may have been quicker with this event.
Match(t, c) ==
    LET e    == hand[t].item.event
        rest == hand[t].todo \ {c}
    IN /\ hand[t].at = "match" /\ c \in hand[t].todo
       /\ \/ /\ e \in consumed[c]
             /\ hand' = [hand EXCEPT ![t] = IF rest = {} THEN Idle
                                            ELSE Doing("match", hand[t].item, rest, Nobody)]
             /\ UNCHANGED consumed
          \/ /\ e \notin consumed[c]
             /\ hand' = [hand EXCEPT ![t] = Doing("route", Pair(c, e), rest, Nobody)]
             /\ consumed' = [consumed EXCEPT ![c] = @ \cup {e}]
       /\ UNCHANGED <<setting, recent, meta, stage, event, bag, tab, runtime, post, tally, ghosts>>

\* A listener asks whether a workflow is active.
Route(t) ==
    /\ hand[t].at = "route"
    /\ Goes(t, IF current = Nobody THEN "submit" ELSE "aim", Nobody)
    /\ UNCHANGED <<triggers, stage, event, bag, tab, runtime, post, tally, ghosts>>

\* A check consumes an event and leaves it in the place the command has for
\* the dispatch.  Where it will be dispatched to was decided before.
Trigger(t, c, e, at) ==
    /\ t \in setting.threads /\ hand[t].at = "idle" /\ ~Executing(c)
    /\ e \in (recent \cap setting.hears[c]) \ consumed[c]
    /\ at = "takeForWorkflow" => current # Nobody
    /\ consumed' = [consumed EXCEPT ![c] = @ \cup {e}]
    /\ meta' = [meta EXCEPT ![c] = e]
    /\ lost' = IF meta[c] = NoEvent THEN lost ELSE lost \cup {Pair(c, meta[c])}
    /\ hand' = [hand EXCEPT ![t] = Doing(at, Pair(c, NoEvent), {}, Nobody)]
    /\ UNCHANGED <<setting, recent, stage, event, bag, tab, runtime, post, tally, undone>>

\* The dispatch finds what the last check has left, or nothing.
Take(t) ==
    LET c == hand[t].item.cmd
    IN /\ hand[t].at \in {"take", "takeForWorkflow"}
       /\ hand' = [hand EXCEPT ![t] = Doing(IF hand[t].at = "take" THEN "submit" ELSE "aim",
                                            Pair(c, meta[c]), {}, Nobody)]
       /\ meta' = [meta EXCEPT ![c] = NoEvent]
       /\ UNCHANGED <<setting, recent, consumed, stage, event, bag, tab, runtime, post,
                      tally, ghosts>>

-----------------------------------------------------------------------------
(* Dispatch.                                                               *)

\* The thread takes hold of the runtime it will write to.
Aim(t) ==
    /\ hand[t].at = "aim"
    /\ Goes(t, IF current = Nobody THEN "undo" ELSE "append", current)
    /\ UNCHANGED <<triggers, stage, event, bag, tab, runtime, post, tally, ghosts>>

\* An urgent command waits for the next pause, once; any other for the end.
Append(t) ==
    LET i == hand[t].item
        w == hand[t].to
    IN /\ hand[t].at = "append"
       /\ IF i.cmd \notin setting.urgent
            THEN /\ deferred' = [deferred EXCEPT ![w] = @ \cup {i}]
                 /\ Done(t) /\ UNCHANGED pending
            ELSE /\ pending' = [pending EXCEPT ![w] = @ \cup {i}]
                 /\ Goes(t, IF i \in pending[w] THEN "undo" ELSE "raise", Nobody)
                 /\ UNCHANGED deferred
       /\ UNCHANGED <<triggers, stage, event, bag, tab, current, aborted, seen, reason,
                      post, tally, ghosts>>

\* The workflow is asked to pause, outside of the lock.
Raise(t) ==
    /\ hand[t].at = "raise" /\ Done(t)
    /\ reason' = "interrupt"
    /\ UNCHANGED <<triggers, stage, event, bag, tab, current, pending, deferred, aborted,
                   seen, post, tally, ghosts>>

\* The command gets a runner, unless one of it is about.
Submit(t) ==
    LET i == hand[t].item
    IN /\ hand[t].at = "submit"
       /\ IF Executing(i.cmd)
            THEN Goes(t, "refused", Nobody) /\ UNCHANGED <<stage, event>>
            ELSE /\ stage' = [stage EXCEPT ![i.cmd] = "waiting"]
                 /\ event' = [event EXCEPT ![i.cmd] = i.event]
                 /\ Done(t)
       /\ UNCHANGED <<triggers, bag, tab, runtime, post, tally, ghosts>>

\* The refused dispatch gives the event back itself; a listener does so once more.
Refused(t) ==
    /\ hand[t].at = "refused"
    /\ GiveBack(hand[t].item)
    /\ IF t \in Listeners THEN Goes(t, "twice", Nobody) ELSE Done(t)
    /\ UNCHANGED <<setting, recent, meta, stage, event, bag, tab, runtime, post, tally, ghosts>>

\* The dispatch has failed: the event is given back.
Undo(t) ==
    LET i == hand[t].item
    IN /\ hand[t].at \in {"undo", "twice"}
       /\ GiveBack(i) /\ Done(t)
       /\ undone' = IF hand[t].at = "twice" /\ i.event \in consumed[i.cmd]
                      THEN undone \cup {i} ELSE undone
       /\ UNCHANGED <<setting, recent, meta, stage, event, bag, tab, runtime, post, tally, lost>>

-----------------------------------------------------------------------------
(* Runners and the list of what is done after a workflow.                  *)

\* A pair is run, in the thread of its runner or of the workflow.
Counted(i) == /\ ran' = ran \cup {i}
              /\ again' = IF i \in ran THEN again \cup {i} ELSE again

\* The runner gets the tab and runs its command there.
Run(c) ==
    /\ stage[c] = "waiting" /\ tab = Nobody
    /\ tab' = c
    /\ stage' = [stage EXCEPT ![c] = "running"]
    /\ Counted(Pair(c, event[c]))
    /\ UNCHANGED <<triggers, hand, event, bag, runtime, post, ghosts>>

\* Mutant: the event of a command that did not get the tab stays consumed.
TimeOutSilent(c) ==
    /\ stage[c] = "waiting"
    /\ stage' = [stage EXCEPT ![c] = "ending"]
    /\ UNCHANGED <<triggers, hand, event, bag, tab, runtime, post, tally, ghosts>>

\* acquire_timeout_sec is over, or the tab is gone.
TimeOut(c) ==
    /\ stage[c] = "waiting"
    /\ GiveBack(Pair(c, event[c]))
    /\ stage' = [stage EXCEPT ![c] = "ending"]
    /\ UNCHANGED <<setting, recent, meta, hand, event, bag, tab, runtime, post, tally, ghosts>>

\* Mutant: nothing is scheduled after a workflow.
ReleaseOnly(x) ==
    /\ tab = x
    /\ stage[x] = IF x \in Commands THEN "running" ELSE "release"
    /\ tab' = Nobody
    /\ stage' = [stage EXCEPT ![x] = IF x \in Commands THEN "flush" ELSE "over"]
    /\ UNCHANGED <<triggers, hand, event, bag, runtime, post, tally, ghosts>>

\* The tab is free again; the list of the tab is flushed next.
Release(x) ==
    /\ tab = x
    /\ stage[x] = IF x \in Commands THEN "running" ELSE "release"
    /\ tab' = Nobody
    /\ stage' = [stage EXCEPT ![x] = "flush"]
    /\ UNCHANGED <<triggers, hand, event, bag, runtime, post, tally, ghosts>>

\* Mutant: the list is dispatched and kept.
FlushCopy(x) ==
    /\ stage[x] = "flush"
    /\ bag' = [bag EXCEPT ![x] = post]
    /\ stage' = [stage EXCEPT ![x] = "flushing"]
    /\ UNCHANGED <<triggers, hand, event, tab, runtime, post, tally, ghosts>>

\* The runner, or the timer set after a workflow, takes the whole list ...
Flush(x) ==
    /\ stage[x] = "flush"
    /\ bag' = [bag EXCEPT ![x] = post] /\ post' = {}
    /\ stage' = [stage EXCEPT ![x] = "flushing"]
    /\ UNCHANGED <<triggers, hand, event, tab, runtime, tally, ghosts>>

\* ... and submits one pair after the other.
Resubmit(x, i) ==
    /\ stage[x] = "flushing" /\ i \in bag[x]
    /\ bag' = [bag EXCEPT ![x] = @ \ {i}]
    /\ IF Executing(i.cmd)
         THEN GiveBack(i) /\ UNCHANGED <<stage, event>>
         ELSE /\ stage' = [stage EXCEPT ![i.cmd] = "waiting"]
              /\ event' = [event EXCEPT ![i.cmd] = i.event]
              /\ UNCHANGED consumed
    /\ UNCHANGED <<setting, recent, meta, hand, tab, runtime, post, tally, ghosts>>

\* The thread of the runner has its own end; the timer has done its work.
Flushed(x) ==
    /\ stage[x] = "flushing" /\ bag[x] = {}
    /\ stage' = [stage EXCEPT ![x] = IF x \in Commands THEN "ending" ELSE "over"]
    /\ UNCHANGED <<triggers, hand, event, bag, tab, runtime, post, tally, ghosts>>

\* The command may be triggered again.
End(c) ==
    /\ stage[c] = "ending"
    /\ stage' = [stage EXCEPT ![c] = "none"]
    /\ event' = [event EXCEPT ![c] = NoEvent]
    /\ UNCHANGED <<triggers, hand, bag, tab, runtime, post, tally, ghosts>>

-----------------------------------------------------------------------------
(* The workflow.                                                           *)

\* A workflow gets the tab, and its runtime is put on the stack.
Begin(w) ==
    /\ w \in setting.workflows /\ stage[w] = "none" /\ tab = Nobody
    /\ tab' = w /\ current' = w
    /\ stage' = [stage EXCEPT ![w] = "running"]
    /\ reason' = "none"
    /\ UNCHANGED <<triggers, hand, event, bag, pending, deferred, aborted, seen, post,
                   tally, ghosts>>

\* Between two steps the workflow runs the commands that wait, in its own thread.
Serve(w, i) ==
    /\ stage[w] \in {"running", "paused"} /\ i \in pending[w]
    /\ pending' = [pending EXCEPT ![w] = @ \ {i}]
    /\ stage' = [stage EXCEPT ![w] = IF i.cmd \in setting.aborting THEN "serving" ELSE "paused"]
    /\ Counted(i)
    /\ UNCHANGED <<triggers, hand, event, bag, tab, current, deferred, aborted, seen, reason,
                   post, ghosts>>

\* The command has ended the workflow; whatever else waits is thrown away.
Abort(w) ==
    /\ stage[w] = "serving"
    /\ stage' = [stage EXCEPT ![w] = "stopped"]
    /\ pending' = [pending EXCEPT ![w] = {}]
    /\ lost' = lost \cup pending[w]
    /\ reason' = "abort"
    /\ UNCHANGED <<triggers, hand, event, bag, tab, current, deferred, aborted, seen, post,
                   tally, undone>>

\* Nothing waits any more: the workflow goes on.
Resume(w) ==
    /\ stage[w] = "paused" /\ pending[w] = {}
    /\ stage' = [stage EXCEPT ![w] = "running"]
    /\ reason' = "none"
    /\ UNCHANGED <<triggers, hand, event, bag, tab, current, pending, deferred, aborted, seen,
                   post, tally, ghosts>>

\* The workflow ends, stopped from outside or not, and its runtime leaves the stack.
Finish(w, stop) ==
    /\ stage[w] \in {"running", "stopped"}
    /\ aborted' = [aborted EXCEPT ![w] = stage[w] = "stopped" \/ (stop /\ reason # "interrupt")]
    /\ current' = Nobody
    /\ stage' = [stage EXCEPT ![w] = "collecting"]
    /\ UNCHANGED <<triggers, hand, event, bag, tab, pending, deferred, seen, reason, post,
                   tally, ghosts>>

\* What the runtime holds is kept, or not, and the list of the tab is read.
Collect(w) ==
    LET wait == IF ~aborted[w] \/ reason # "none" THEN pending[w] ELSE {}
        keep == IF ~aborted[w] \/ reason = "abort" THEN deferred[w] \cup wait ELSE {}
    IN /\ stage[w] = "collecting"
       /\ bag' = [bag EXCEPT ![w] = keep]
       /\ seen' = [seen EXCEPT ![w] = IF keep = {} THEN {} ELSE post]
       /\ lost' = lost \cup ((pending[w] \cup deferred[w]) \ keep)
       /\ pending' = [pending EXCEPT ![w] = {}]
       /\ deferred' = [deferred EXCEPT ![w] = {}]
       /\ stage' = [stage EXCEPT ![w] = "merging"]
       /\ UNCHANGED <<triggers, hand, event, tab, current, aborted, reason, post, tally, undone>>

\* The list is written; with nothing to keep it is emptied.
Merge(w) ==
    /\ stage[w] = "merging"
    /\ post' = seen[w] \cup bag[w]
    /\ lost' = lost \cup (post \ post')
    /\ undone' = undone \cup (seen[w] \ post)
    /\ bag' = [bag EXCEPT ![w] = {}]
    /\ seen' = [seen EXCEPT ![w] = {}]
    /\ stage' = [stage EXCEPT ![w] = "release"]
    /\ UNCHANGED <<triggers, hand, event, tab, current, pending, deferred, aborted, reason, tally>>

-----------------------------------------------------------------------------
Check(t)  == \/ \E c \in Commands, e \in Events, at \in {"take", "takeForWorkflow"} :
                    Trigger(t, c, e, at)
             \/ Take(t)
Listen(t) == \/ \E e \in Events : Arrive(t, e)
             \/ \E c \in Commands : Match(t, c)
             \/ Route(t)
Dispatch(t) == Aim(t) \/ Append(t) \/ Raise(t) \/ Submit(t) \/ Refused(t) \/ Undo(t)
Pass(x)   == Release(x) \/ Flush(x) \/ Flushed(x) \/ \E i \in Item : Resubmit(x, i)
Runner(c) == Run(c) \/ TimeOut(c) \/ End(c) \/ Pass(c)
Close(w)  == Collect(w) \/ Merge(w) \/ Pass(w)
Workflow(w) == \/ Begin(w) \/ Abort(w) \/ Resume(w) \/ Close(w)
               \/ \E i \in Item : Serve(w, i)
               \/ \E stop \in BOOLEAN : Finish(w, stop)

Next == \/ \E t \in Checkers : Check(t)
        \/ \E t \in Listeners : Listen(t)
        \/ \E t \in Threads : Dispatch(t)
        \/ \E c \in Commands : Runner(c)
        \/ \E w \in Workflows : Workflow(w)

\* A thread that has begun goes on, a runner gets the tab or gives up, and a
\* workflow that has begun ends; events need not come, nor checks be made.
Fairness ==
    /\ \A t \in Checkers : WF_vars(Take(t))
    /\ \A t \in Listeners : WF_vars((\E c \in Commands : Match(t, c)) \/ Route(t))
    /\ \A t \in Threads : WF_vars(Dispatch(t))
    /\ \A c \in Commands : WF_vars(Runner(c))
    /\ \A w \in Workflows : WF_vars(Workflow(w) /\ stage[w] # "none")

Spec == Init /\ [][Next]_vars /\ Fairness

-----------------------------------------------------------------------------
\* The pairs somebody still has to act on.
Holding == {"route", "aim", "append", "submit", "refused", "undo"}
Carried == {hand[t].item : t \in {u \in Threads : hand[u].at \in Holding}}
Noted   == {Pair(c, meta[c]) : c \in Commands}
Waiting == {Pair(c, event[c]) : c \in {d \in Commands : stage[d] = "waiting"}}
Passed  == UNION {bag[x] : x \in Commands \cup Workflows}
Open(w) == stage[w] \in {"running", "serving", "paused", "stopped", "collecting"}
InRuntimes(ws) == UNION {pending[w] \cup deferred[w] : w \in ws}
InFlight == Carried \cup Noted \cup Waiting \cup Passed \cup post
            \cup (UNION {seen[w] : w \in Workflows})
            \cup InRuntimes({w \in Workflows : Open(w)})

\* Put into a runtime whose end had already read it.
Late == InRuntimes({w \in Workflows : ~Open(w)})

\* A trigger that has used an event up never fires for it again, so the pair
\* must be somewhere: with a thread, a runner, a runtime or a list that will
\* still act on it, or run.  The rest is what the engine is known to drop:
\* `lost' (a second check overwrites _pending_async_trigger_meta, an aborted
\* workflow drops its queues, an end with nothing to keep empties the list of
\* the tab) and `Late'.  No refusal, timeout, flush or merge loses another.
EventAccounted ==
    \A c \in Commands : \A e \in consumed[c] :
        Pair(c, e) \in InFlight \cup ran \cup lost \cup Late

\* A command runs once for an event, however the threads that could dispatch
\* it, the workflow and the flush overlap.  The exceptions are the pairs in
\* `undone' (the second rollback of handle_network_event comes when another
\* check has consumed the event again; finish_workflow_runtime writes back a
\* list that a flush has emptied meanwhile) and dispatches without an event.
RunsOnce == again \subseteq undone \cup {i \in Item : i.event = NoEvent}

\* An event that was consumed is given back, or its command is run, or it is
\* among those the engine drops: nothing waits in a queue for ever, whichever
\* way the workflow ends and although commands wait for the tab only so long.
EventSettles ==
    \A c \in Commands, e \in Events :
        e \in consumed[c] ~> (e \notin consumed[c] \/ Pair(c, e) \in ran \cup lost \cup Late)
=============================================================================
