------------------------ MODULE CommandQueueProofs ------------------------
(***************************************************************************)
(* Type correctness, EventAccounted and RunsOnce of CommandQueue, for any  *)
(* number of commands, events, threads and workflows, however set up.      *)
(***************************************************************************)
EXTENDS CommandQueue, TLAPS

\* A thread that has a dispatch in hand has it for one of the commands.
\* A listener that has commands to go has an event to offer them.
Full(h) == /\ h.at \notin {"idle", "match"} => h.item \in Item
           /\ h.todo # {} => h.item.event \in Events
HandsFull == \A t \in Threads : Full(hand[t])

\* An append names the runtime it goes to.
AppendsAimed == \A t \in Threads : hand[t].at = "append" => hand[t].to \in Workflows

Typed == TypeOK /\ HandsFull /\ AppendsAimed

LEMMA DoingType ==
  ASSUME NEW a \in {"idle", "match", "take", "takeForWorkflow", "route", "aim", "append",
                    "raise", "submit", "refused", "undo", "twice"},
         NEW i \in [cmd : Commands \cup {Nobody}, event : Events \cup {NoEvent}],
         NEW todo \in SUBSET Commands, NEW to \in Workflows \cup {Nobody}
  PROVE  Doing(a, i, todo, to) \in Hand
  BY DEF Doing, Hand

LEMMA IdleType == Idle \in Hand /\ Idle.at = "idle" /\ Full(Idle)
  BY DEF Idle, Doing, Hand, Pair, Full

LEMMA InitTyped == Init => Typed
<1> SUFFICES ASSUME Init PROVE Typed
  OBVIOUS
<1>1. TypeOK
  BY IdleType, SettingAssumption DEF Init, TypeOK, Setting
<1>2. HandsFull /\ AppendsAimed
  BY IdleType DEF Init, HandsFull, AppendsAimed
<1> QED
  BY <1>1, <1>2 DEF Typed

HandTyped == hand \in [Threads -> Hand] /\ HandsFull /\ AppendsAimed

LEMMA SetTyped ==
  ASSUME Typed, NEW t \in Threads, NEW h \in Hand, hand' = [hand EXCEPT ![t] = h],
         Full(h), h.at = "append" => h.to \in Workflows
  PROVE  HandTyped'
  BY DEF Typed, TypeOK, HandTyped, HandsFull, AppendsAimed

LEMMA DoneTyped ==
  ASSUME Typed, NEW t \in Threads, Done(t), hand[t].item.event \in Events \cup {NoEvent}
  PROVE  HandTyped'
<1> DEFINE h == IF hand[t].todo = {} THEN Idle
                ELSE Doing("match", Pair(Nobody, hand[t].item.event), hand[t].todo, Nobody)
<1>1. hand' = [hand EXCEPT ![t] = h]
  BY DEF Done
<1>2. hand[t] \in Hand
  BY DEF Typed, TypeOK
<1>3. h \in Hand /\ h.at \in {"idle", "match"} /\ Full(h)
  BY <1>2, IdleType DEF Doing, Pair, Hand, Full, Typed, HandsFull
<1> QED
  BY <1>1, <1>3, SetTyped

LEMMA GoesTyped ==
  ASSUME Typed, NEW t \in Threads, NEW to \in Workflows \cup {Nobody},
         NEW a \in {"submit", "aim", "append", "raise", "refused", "undo", "twice"},
         Goes(t, a, to), a = "append" => to \in Workflows,
         hand[t].at \notin {"idle", "match"}
  PROVE  HandTyped'
<1> DEFINE h == Doing(a, hand[t].item, hand[t].todo, to)
<1>1. hand' = [hand EXCEPT ![t] = h]
  BY DEF Goes
<1>2. hand[t] \in Hand /\ hand[t].item \in Item /\ Full(hand[t])
  BY DEF Typed, TypeOK, HandsFull, Full
<1>3. h \in Hand /\ Full(h) /\ (h.at = "append" => h.to \in Workflows)
  BY <1>2 DEF Doing, Hand, Full
<1> QED
  BY <1>1, <1>3, SetTyped

LEMMA HandFacts ==
  ASSUME Typed, NEW t \in Threads
  PROVE  /\ hand[t] \in Hand
         /\ hand[t].item.event \in Events \cup {NoEvent}
         /\ hand[t].at \notin {"idle", "match"} =>
                hand[t].item \in Item /\ hand[t].item.cmd \in Commands
         /\ hand[t].at = "append" => hand[t].to \in Workflows
         /\ Full(hand[t])
<1>1. hand[t] \in Hand
  BY DEF Typed, TypeOK
<1> QED
  BY <1>1 DEF Hand, Item, Typed, HandsFull, AppendsAimed, Full

LEMMA ArriveTyped ==
  ASSUME Typed, NEW t \in Threads, NEW e \in Events, Arrive(t, e)
  PROVE  Typed'
<1> DEFINE h == Doing("match", Pair(Nobody, e), {d \in Commands : e \in setting.hears[d]}, Nobody)
<1>a. hand' = [hand EXCEPT ![t] = h]
  BY DEF Arrive
<1>b. hand[t] \in Hand
  BY HandFacts
<1>c. h \in Hand /\ Full(h) /\ h.at # "append"
  BY <1>b, IdleType, HandFacts, SettingAssumption DEF Full, Arrive, Doing, Pair, Hand, Item,
     Typed, TypeOK, Setting
<1>1. HandTyped'
  BY <1>a, <1>c, SetTyped
<1>2. TypeOK'
  BY <1>1, HandFacts, SettingAssumption DEF Arrive, Typed, TypeOK, runtime, triggers, tally,
     ghosts, HandTyped, Item, Pair, GiveBack, Setting, Full
<1>3. HandsFull' /\ AppendsAimed'
  BY <1>1 DEF HandTyped
<1> QED
  BY <1>2, <1>3 DEF Typed

LEMMA MatchTyped ==
  ASSUME Typed, NEW t \in Threads, NEW c \in Commands, Match(t, c)
  PROVE  Typed'
<1> DEFINE rest == hand[t].todo \ {c}
           skip == IF rest = {} THEN Idle ELSE Doing("match", hand[t].item, rest, Nobody)
           take == Doing("route", Pair(c, hand[t].item.event), rest, Nobody)
<1>a. hand' = [hand EXCEPT ![t] = skip] \/ hand' = [hand EXCEPT ![t] = take]
  BY DEF Match
<1>b. hand[t] \in Hand
  BY HandFacts
<1>c. skip \in Hand /\ skip.at \in {"idle", "match"} /\ Full(skip)
  BY <1>b, IdleType, HandFacts DEF Doing, Hand, Full
<1>d. take \in Hand /\ Full(take) /\ take.at = "route"
  BY <1>b, HandFacts DEF Doing, Pair, Hand, Item, Full, Match
<1>1. HandTyped'
  BY <1>a, <1>c, <1>d, SetTyped
<1>e. consumed' \in [Commands -> SUBSET Events]
  BY HandFacts DEF Match, Full, Typed, TypeOK
<1>2. TypeOK'
  BY <1>1, HandFacts, <1>e, SettingAssumption DEF Match, Typed, TypeOK, runtime, triggers,
     tally, ghosts, HandTyped, Item, Pair, Setting, Full
<1>3. HandsFull' /\ AppendsAimed'
  BY <1>1 DEF HandTyped
<1> QED
  BY <1>2, <1>3 DEF Typed

LEMMA RouteTyped ==
  ASSUME Typed, NEW t \in Threads, Route(t)
  PROVE  Typed'
<1>1. HandTyped'
  BY HandFacts, GoesTyped, DoneTyped DEF Route, Typed, TypeOK
<1>2. TypeOK'
  BY <1>1, HandFacts, SettingAssumption DEF Route, Typed, TypeOK, runtime, triggers, tally,
     ghosts, HandTyped, Item, Pair, GiveBack, Setting, Full
<1>3. HandsFull' /\ AppendsAimed'
  BY <1>1 DEF HandTyped
<1> QED
  BY <1>2, <1>3 DEF Typed

LEMMA TriggerTyped ==
  ASSUME Typed, NEW t \in Threads, NEW c \in Commands, NEW e \in Events,
         NEW at \in {"take", "takeForWorkflow"}, Trigger(t, c, e, at)
  PROVE  Typed'
<1> DEFINE h == Doing(at, Pair(c, NoEvent), {}, Nobody)
<1>a. hand' = [hand EXCEPT ![t] = h]
  BY DEF Trigger
<1>b. hand[t] \in Hand
  BY HandFacts
<1>c. h \in Hand /\ Full(h) /\ h.at # "append"
  BY <1>b, IdleType, HandFacts, SettingAssumption DEF Full, Trigger, Doing, Pair, Hand, Item,
     Typed, TypeOK, Setting
<1>1. HandTyped'
  BY <1>a, <1>c, SetTyped
<1>2. TypeOK'
  BY <1>1, HandFacts, SettingAssumption DEF Trigger, Typed, TypeOK, runtime, triggers, tally,
     ghosts, HandTyped, Item, Pair, GiveBack, Setting, Full
<1>3. HandsFull' /\ AppendsAimed'
  BY <1>1 DEF HandTyped
<1> QED
  BY <1>2, <1>3 DEF Typed

LEMMA TakeTyped ==
  ASSUME Typed, NEW t \in Threads, Take(t)
  PROVE  Typed'
<1> DEFINE h == Doing(IF hand[t].at = "take" THEN "submit" ELSE "aim",
                      Pair(hand[t].item.cmd, meta[hand[t].item.cmd]), {}, Nobody)
<1>a. hand' = [hand EXCEPT ![t] = h]
  BY DEF Take
<1>b. hand[t] \in Hand
  BY HandFacts
<1>c. h \in Hand /\ Full(h) /\ h.at # "append"
  BY <1>b, IdleType, HandFacts, SettingAssumption DEF Full, Take, Doing, Pair, Hand, Item,
     Typed, TypeOK, Setting
<1>1. HandTyped'
  BY <1>a, <1>c, SetTyped
<1>2. TypeOK'
  BY <1>1, HandFacts, SettingAssumption DEF Take, Typed, TypeOK, runtime, triggers, tally,
     ghosts, HandTyped, Item, Pair, GiveBack, Setting, Full
<1>3. HandsFull' /\ AppendsAimed'
  BY <1>1 DEF HandTyped
<1> QED
  BY <1>2, <1>3 DEF Typed

LEMMA AimTyped ==
  ASSUME Typed, NEW t \in Threads, Aim(t)
  PROVE  Typed'
<1>1. HandTyped'
  BY HandFacts, GoesTyped, DoneTyped DEF Aim, Typed, TypeOK
<1>2. TypeOK'
  BY <1>1, HandFacts, SettingAssumption DEF Aim, Typed, TypeOK, runtime, triggers, tally,
     ghosts, HandTyped, Item, Pair, GiveBack, Setting, Full
<1>3. HandsFull' /\ AppendsAimed'
  BY <1>1 DEF HandTyped
<1> QED
  BY <1>2, <1>3 DEF Typed

LEMMA AppendTyped ==
  ASSUME Typed, NEW t \in Threads, Append(t)
  PROVE  Typed'
<1>1. HandTyped'
  BY HandFacts, GoesTyped, DoneTyped DEF Append, Typed, TypeOK
<1>e. /\ pending' \in [Workflows -> SUBSET Item] /\ deferred' \in [Workflows -> SUBSET Item]
      /\ UNCHANGED <<setting, recent, consumed, meta, stage, event, bag, tab, current, aborted,
                     seen, reason, post, ran, again, lost, undone>>
  BY HandFacts DEF Append, Typed, TypeOK, triggers, tally, ghosts
<1>2. TypeOK'
  BY <1>1, HandFacts, <1>e, SettingAssumption DEF Append, Typed, TypeOK, runtime, triggers,
     tally, ghosts, HandTyped, Item, Pair, GiveBack, Setting, Full
<1>3. HandsFull' /\ AppendsAimed'
  BY <1>1 DEF HandTyped
<1> QED
  BY <1>2, <1>3 DEF Typed

LEMMA RaiseTyped ==
  ASSUME Typed, NEW t \in Threads, Raise(t)
  PROVE  Typed'
<1>1. HandTyped'
  BY HandFacts, GoesTyped, DoneTyped DEF Raise, Typed, TypeOK
<1>2. TypeOK'
  BY <1>1, HandFacts, SettingAssumption DEF Raise, Typed, TypeOK, runtime, triggers, tally,
     ghosts, HandTyped, Item, Pair, GiveBack, Setting, Full
<1>3. HandsFull' /\ AppendsAimed'
  BY <1>1 DEF HandTyped
<1> QED
  BY <1>2, <1>3 DEF Typed

LEMMA SubmitTyped ==
  ASSUME Typed, NEW t \in Threads, Submit(t)
  PROVE  Typed'
<1>1. HandTyped'
  BY HandFacts, GoesTyped, DoneTyped DEF Submit, Typed, TypeOK
<1>2. TypeOK'
  BY <1>1, HandFacts, SettingAssumption DEF Submit, Typed, TypeOK, runtime, triggers, tally,
     ghosts, HandTyped, Item, Pair, GiveBack, Setting, Full
<1>3. HandsFull' /\ AppendsAimed'
  BY <1>1 DEF HandTyped
<1> QED
  BY <1>2, <1>3 DEF Typed

LEMMA RefusedTyped ==
  ASSUME Typed, NEW t \in Threads, Refused(t)
  PROVE  Typed'
<1>1. HandTyped'
  BY HandFacts, GoesTyped, DoneTyped DEF Refused, Typed, TypeOK
<1>e. consumed' \in [Commands -> SUBSET Events]
  BY HandFacts DEF Refused, GiveBack, Typed, TypeOK
<1>2. TypeOK'
  BY <1>1, HandFacts, <1>e, SettingAssumption DEF Refused, Typed, TypeOK, runtime, triggers,
     tally, ghosts, HandTyped, Item, Pair, Setting, Full
<1>3. HandsFull' /\ AppendsAimed'
  BY <1>1 DEF HandTyped
<1> QED
  BY <1>2, <1>3 DEF Typed

LEMMA UndoTyped ==
  ASSUME Typed, NEW t \in Threads, Undo(t)
  PROVE  Typed'
<1>1. HandTyped'
  BY HandFacts, GoesTyped, DoneTyped DEF Undo, Typed, TypeOK
<1>e. consumed' \in [Commands -> SUBSET Events]
  BY HandFacts DEF Undo, GiveBack, Typed, TypeOK
<1>2. TypeOK'
  BY <1>1, HandFacts, <1>e, SettingAssumption DEF Undo, Typed, TypeOK, runtime, triggers,
     tally, ghosts, HandTyped, Item, Pair, GiveBack, Setting, Full
<1>3. HandsFull' /\ AppendsAimed'
  BY <1>1 DEF HandTyped
<1> QED
  BY <1>2, <1>3 DEF Typed

LEMMA RunTyped ==
  ASSUME Typed, NEW c \in Commands, Run(c)
  PROVE  Typed'
<1>2. TypeOK'
  BY DEF Run, Typed, TypeOK, runtime, triggers, tally, ghosts, Item, Pair, GiveBack, Counted
<1>3. HandsFull' /\ AppendsAimed'
  BY DEF Typed, HandsFull, AppendsAimed, Run, triggers
<1> QED
  BY <1>2, <1>3 DEF Typed

LEMMA TimeOutTyped ==
  ASSUME Typed, NEW c \in Commands, TimeOut(c)
  PROVE  Typed'
<1>2. TypeOK'
  BY DEF TimeOut, Typed, TypeOK, runtime, triggers, tally, ghosts, Item, Pair, GiveBack, Counted
<1>3. HandsFull' /\ AppendsAimed'
  BY DEF Typed, HandsFull, AppendsAimed, TimeOut, triggers
<1> QED
  BY <1>2, <1>3 DEF Typed

LEMMA ReleaseTyped ==
  ASSUME Typed, NEW x \in Commands \cup Workflows, Release(x)
  PROVE  Typed'
<1>2. TypeOK'
  BY DEF Release, Typed, TypeOK, runtime, triggers, tally, ghosts, Item, Pair, GiveBack, Counted
<1>3. HandsFull' /\ AppendsAimed'
  BY DEF Typed, HandsFull, AppendsAimed, Release, triggers
<1> QED
  BY <1>2, <1>3 DEF Typed

LEMMA FlushTyped ==
  ASSUME Typed, NEW x \in Commands \cup Workflows, Flush(x)
  PROVE  Typed'
<1>2. TypeOK'
  BY DEF Flush, Typed, TypeOK, runtime, triggers, tally, ghosts, Item, Pair, GiveBack, Counted
<1>3. HandsFull' /\ AppendsAimed'
  BY DEF Typed, HandsFull, AppendsAimed, Flush, triggers
<1> QED
  BY <1>2, <1>3 DEF Typed

LEMMA ResubmitTyped ==
  ASSUME Typed, NEW x \in Commands \cup Workflows, NEW i \in Item, Resubmit(x, i)
  PROVE  Typed'
<1>1. CASE Executing(i.cmd)
  <2>1. TypeOK'
    BY <1>1 DEF Resubmit, Typed, TypeOK, runtime, tally, ghosts, GiveBack
  <2> QED
    BY <2>1 DEF Resubmit, Typed, HandsFull, AppendsAimed
<1>2. CASE ~Executing(i.cmd)
  <2>1. i.cmd \in Commands /\ i.event \in Events \cup {NoEvent}
    BY DEF Item
  <2>2. TypeOK'
    BY <1>2, <2>1 DEF Resubmit, Typed, TypeOK, runtime, tally, ghosts
  <2> QED
    BY <1>2, <2>2 DEF Resubmit, Typed, HandsFull, AppendsAimed
<1> QED
  BY <1>1, <1>2

LEMMA FlushedTyped ==
  ASSUME Typed, NEW x \in Commands \cup Workflows, Flushed(x)
  PROVE  Typed'
<1>2. TypeOK'
  BY DEF Flushed, Typed, TypeOK, runtime, triggers, tally, ghosts, Item, Pair, GiveBack, Counted
<1>3. HandsFull' /\ AppendsAimed'
  BY DEF Typed, HandsFull, AppendsAimed, Flushed, triggers
<1> QED
  BY <1>2, <1>3 DEF Typed

LEMMA EndTyped ==
  ASSUME Typed, NEW c \in Commands, End(c)
  PROVE  Typed'
<1>2. TypeOK'
  BY DEF End, Typed, TypeOK, runtime, triggers, tally, ghosts, Item, Pair, GiveBack, Counted
<1>3. HandsFull' /\ AppendsAimed'
  BY DEF Typed, HandsFull, AppendsAimed, End, triggers
<1> QED
  BY <1>2, <1>3 DEF Typed

LEMMA BeginTyped ==
  ASSUME Typed, NEW w \in Workflows, Begin(w)
  PROVE  Typed'
<1>2. TypeOK'
  BY DEF Begin, Typed, TypeOK, runtime, triggers, tally, ghosts, Item, Pair, GiveBack, Counted
<1>3. HandsFull' /\ AppendsAimed'
  BY DEF Typed, HandsFull, AppendsAimed, Begin, triggers
<1> QED
  BY <1>2, <1>3 DEF Typed

LEMMA ServeTyped ==
  ASSUME Typed, NEW w \in Workflows, NEW i \in Item, Serve(w, i)
  PROVE  Typed'
<1>2. TypeOK'
  BY DEF Serve, Typed, TypeOK, runtime, triggers, tally, ghosts, Item, Pair, GiveBack, Counted
<1>3. HandsFull' /\ AppendsAimed'
  BY DEF Typed, HandsFull, AppendsAimed, Serve, triggers
<1> QED
  BY <1>2, <1>3 DEF Typed

LEMMA AbortTyped ==
  ASSUME Typed, NEW w \in Workflows, Abort(w)
  PROVE  Typed'
<1>2. TypeOK'
  BY DEF Abort, Typed, TypeOK, runtime, triggers, tally, ghosts, Item, Pair, GiveBack, Counted
<1>3. HandsFull' /\ AppendsAimed'
  BY DEF Typed, HandsFull, AppendsAimed, Abort, triggers
<1> QED
  BY <1>2, <1>3 DEF Typed

LEMMA ResumeTyped ==
  ASSUME Typed, NEW w \in Workflows, Resume(w)
  PROVE  Typed'
<1>2. TypeOK'
  BY DEF Resume, Typed, TypeOK, runtime, triggers, tally, ghosts, Item, Pair, GiveBack, Counted
<1>3. HandsFull' /\ AppendsAimed'
  BY DEF Typed, HandsFull, AppendsAimed, Resume, triggers
<1> QED
  BY <1>2, <1>3 DEF Typed

LEMMA FinishTyped ==
  ASSUME Typed, NEW w \in Workflows, NEW stop \in BOOLEAN, Finish(w, stop)
  PROVE  Typed'
<1>2. TypeOK'
  BY DEF Finish, Typed, TypeOK, runtime, triggers, tally, ghosts, Item, Pair, GiveBack, Counted
<1>3. HandsFull' /\ AppendsAimed'
  BY DEF Typed, HandsFull, AppendsAimed, Finish, triggers
<1> QED
  BY <1>2, <1>3 DEF Typed

LEMMA CollectTyped ==
  ASSUME Typed, NEW w \in Workflows, Collect(w)
  PROVE  Typed'
<1>2. TypeOK'
  BY DEF Collect, Typed, TypeOK, runtime, triggers, tally, ghosts, Item, Pair, GiveBack, Counted
<1>3. HandsFull' /\ AppendsAimed'
  BY DEF Typed, HandsFull, AppendsAimed, Collect, triggers
<1> QED
  BY <1>2, <1>3 DEF Typed

LEMMA MergeTyped ==
  ASSUME Typed, NEW w \in Workflows, Merge(w)
  PROVE  Typed'
<1>2. TypeOK'
  BY DEF Merge, Typed, TypeOK, runtime, triggers, tally, ghosts, Item, Pair, GiveBack, Counted
<1>3. HandsFull' /\ AppendsAimed'
  BY DEF Typed, HandsFull, AppendsAimed, Merge, triggers
<1> QED
  BY <1>2, <1>3 DEF Typed

LEMMA NextTyped == Typed /\ [Next]_vars => Typed'
<1> SUFFICES ASSUME Typed, [Next]_vars PROVE Typed'
  OBVIOUS
<1>0. CASE UNCHANGED vars
  BY <1>0 DEF vars, Typed, TypeOK, HandsFull, AppendsAimed
<1>1. ASSUME NEW t \in Checkers, Check(t) PROVE Typed'
  BY <1>1, TriggerTyped, TakeTyped DEF Check, Threads
<1>2. ASSUME NEW t \in Listeners, Listen(t) PROVE Typed'
  BY <1>2, ArriveTyped, MatchTyped, RouteTyped DEF Listen, Threads
<1>3. ASSUME NEW t \in Threads, Dispatch(t) PROVE Typed'
  BY <1>3, AimTyped, AppendTyped, RaiseTyped, SubmitTyped, RefusedTyped, UndoTyped DEF Dispatch
<1>4. ASSUME NEW x \in Commands \cup Workflows, Pass(x) PROVE Typed'
  BY <1>4, ReleaseTyped, FlushTyped, FlushedTyped, ResubmitTyped DEF Pass
<1>5. ASSUME NEW c \in Commands, Runner(c) PROVE Typed'
  BY <1>5, <1>4, RunTyped, TimeOutTyped, EndTyped DEF Runner
<1>6. ASSUME NEW w \in Workflows, Workflow(w) PROVE Typed'
  BY <1>6, <1>4, BeginTyped, AbortTyped, ResumeTyped, CollectTyped, MergeTyped, ServeTyped,
     FinishTyped DEF Workflow, Close
<1> QED
  BY <1>0, <1>1, <1>2, <1>3, <1>5, <1>6 DEF Next

\* Every variable keeps its type, a thread with a dispatch in hand has it for
\* a command, and an append names the runtime it goes to.
THEOREM TypeCorrect == Spec => []TypeOK
<1>1. Spec => []Typed
  BY InitTyped, NextTyped, PTL DEF Spec
<1>2. Typed => TypeOK
  BY DEF Typed
<1> QED
  BY <1>1, <1>2, PTL

-----------------------------------------------------------------------------
(* Where a pair may be.                                                    *)

Keepers == [kind : {"hand"}, of : Threads]
           \cup [kind : {"meta", "wait"}, of : Commands]
           \cup [kind : {"bag"}, of : Commands \cup Workflows]
           \cup [kind : {"post"}, of : {Nobody}]
           \cup [kind : {"pend", "defer"}, of : Workflows]

Has(k, i) == \/ k.kind = "hand" /\ hand[k.of].at \in Holding /\ hand[k.of].item = i
             \/ k.kind = "meta" /\ k.of = i.cmd /\ meta[k.of] = i.event
             \/ k.kind = "wait" /\ k.of = i.cmd /\ stage[k.of] = "waiting" /\ event[k.of] = i.event
             \/ k.kind = "bag" /\ i \in bag[k.of]
             \/ k.kind = "post" /\ i \in post
             \/ k.kind = "pend" /\ i \in pending[k.of]
             \/ k.kind = "defer" /\ i \in deferred[k.of]

\* What is passed on is in a bag only meanwhile.
BagsEmptied ==
    /\ \A x \in Commands \cup Workflows : stage[x] \notin {"flushing", "merging"} => bag[x] = {}
    /\ \A w \in Workflows : stage[w] # "merging" => seen[w] = {}

Kept(i) == \/ \E k \in Keepers : Has(k, i)
           \/ \E w \in Workflows : i \in seen[w]
           \/ i \in ran \cup lost

Accounted == \A i \in Item : i.event \in consumed[i.cmd] => Kept(i)

LEMMA AccountedSame == ASSUME TypeOK PROVE Accounted => EventAccounted
<1> SUFFICES ASSUME Accounted, NEW c \in Commands, NEW e \in consumed[c]
             PROVE  Pair(c, e) \in InFlight \cup ran \cup lost \cup Late
  BY DEF EventAccounted
<1> DEFINE i == Pair(c, e)
<1>1. i \in Item /\ i.cmd = c /\ i.event = e
  BY DEF TypeOK, Item, Pair
<1>2. Kept(i)
  BY <1>1 DEF Accounted
<1>3. ASSUME NEW w \in Workflows, i \in seen[w] PROVE i \in InFlight
  BY <1>3 DEF InFlight
<1>4. ASSUME NEW k \in Keepers, Has(k, i) PROVE i \in InFlight \cup Late
  <2>1. CASE k.kind = "hand"
    BY <1>4, <2>1 DEF Keepers, Has, InFlight, Carried
  <2>2. CASE k.kind = "meta"
    BY <1>1, <1>4, <2>2 DEF Keepers, Has, InFlight, Noted
  <2>3. CASE k.kind = "wait"
    BY <1>1, <1>4, <2>3 DEF Keepers, Has, InFlight, Waiting
  <2>4. CASE k.kind = "bag"
    BY <1>4, <2>4 DEF Keepers, Has, InFlight, Passed
  <2>5. CASE k.kind = "post"
    BY <1>4, <2>5 DEF Keepers, Has, InFlight
  <2>6. CASE k.kind \in {"pend", "defer"}
    <3>1. k.of \in Workflows /\ i \in pending[k.of] \cup deferred[k.of]
      BY <1>4, <2>6 DEF Keepers, Has
    <3>2. CASE Open(k.of)
      BY <3>1, <3>2 DEF InFlight, InRuntimes
    <3>3. CASE ~Open(k.of)
      BY <3>1, <3>3 DEF Late, InRuntimes
    <3> QED
      BY <3>2, <3>3
  <2> QED
    BY <2>1, <2>2, <2>3, <2>4, <2>5, <2>6 DEF Keepers
<1> QED
  BY <1>2, <1>3, <1>4 DEF Kept

LEMMA KeeperKinds ==
  ASSUME NEW k \in Keepers
  PROVE  \/ k.kind = "hand" /\ k.of \in Threads
         \/ k.kind \in {"meta", "wait"} /\ k.of \in Commands
         \/ k.kind = "bag" /\ k.of \in Commands \cup Workflows
         \/ k.kind = "post" /\ k.of = Nobody
         \/ k.kind \in {"pend", "defer"} /\ k.of \in Workflows
  BY DEF Keepers

Is(k, kind, of) == k.kind = kind /\ k.of = of

LEMMA ArriveMoves ==
  ASSUME Typed, BagsEmptied, NEW t \in Threads, NEW e \in Events, Arrive(t, e),
         NEW k \in Keepers, NEW i \in Item
  PROVE  Has(k, i)' <=> Has(k, i)
  BY KeeperKinds, HandFacts, IdleType DEF Has, Is, Holding, Arrive, Typed, TypeOK, BagsEmptied,
     triggers, runtime, tally, ghosts, Done, Goes, Doing, Pair, Item, Executing

LEMMA RouteMoves ==
  ASSUME Typed, BagsEmptied, NEW t \in Threads, Route(t),
         NEW k \in Keepers, NEW i \in Item
  PROVE  Has(k, i)' <=> Has(k, i)
  BY KeeperKinds, HandFacts, IdleType DEF Has, Is, Holding, Route, Typed, TypeOK, BagsEmptied,
     triggers, runtime, tally, ghosts, Done, Goes, Doing, Pair, Item, Executing

LEMMA TriggerMoves ==
  ASSUME Typed, BagsEmptied, NEW t \in Threads, NEW c \in Commands, NEW e \in Events,
         NEW at \in {"take", "takeForWorkflow"}, Trigger(t, c, e, at),
         NEW k \in Keepers, NEW i \in Item,
         i.event \in Events
  PROVE  Has(k, i)' <=> \/ Has(k, i) /\ ~Is(k, "meta", c)
                        \/ Is(k, "meta", c) /\ i = Pair(c, e)
  BY KeeperKinds, HandFacts, IdleType DEF Has, Is, Holding, Trigger, Typed, TypeOK, BagsEmptied,
     triggers, runtime, tally, ghosts, Done, Goes, Doing, Pair, Item, Executing

LEMMA RunMoves ==
  ASSUME Typed, BagsEmptied, NEW c \in Commands, Run(c),
         NEW k \in Keepers, NEW i \in Item
  PROVE  Has(k, i)' <=> Has(k, i) /\ ~Is(k, "wait", c)
  BY KeeperKinds, HandFacts, IdleType DEF Has, Is, Holding, Run, Typed, TypeOK, BagsEmptied,
     triggers, runtime, tally, ghosts, Done, Goes, Doing, Pair, Item, Executing

LEMMA TimeOutMoves ==
  ASSUME Typed, BagsEmptied, NEW c \in Commands, TimeOut(c),
         NEW k \in Keepers, NEW i \in Item
  PROVE  Has(k, i)' <=> Has(k, i) /\ ~Is(k, "wait", c)
  BY KeeperKinds, HandFacts, IdleType DEF Has, Is, Holding, TimeOut, Typed, TypeOK, BagsEmptied,
     triggers, runtime, tally, ghosts, Done, Goes, Doing, Pair, Item, Executing

LEMMA ReleaseMoves ==
  ASSUME Typed, BagsEmptied, NEW x \in Commands \cup Workflows, Release(x),
         NEW k \in Keepers, NEW i \in Item
  PROVE  Has(k, i)' <=> Has(k, i)
  BY KeeperKinds, HandFacts, IdleType DEF Has, Is, Holding, Release, Typed, TypeOK, BagsEmptied,
     triggers, runtime, tally, ghosts, Done, Goes, Doing, Pair, Item, Executing

LEMMA FlushMoves ==
  ASSUME Typed, BagsEmptied, NEW x \in Commands \cup Workflows, Flush(x),
         NEW k \in Keepers, NEW i \in Item
  PROVE  Has(k, i)' <=> \/ Has(k, i) /\ ~Is(k, "post", Nobody)
                        \/ Is(k, "bag", x) /\ i \in post
  BY KeeperKinds, HandFacts, IdleType DEF Has, Is, Holding, Flush, Typed, TypeOK, BagsEmptied,
     triggers, runtime, tally, ghosts, Done, Goes, Doing, Pair, Item, Executing

LEMMA FlushedMoves ==
  ASSUME Typed, BagsEmptied, NEW x \in Commands \cup Workflows, Flushed(x),
         NEW k \in Keepers, NEW i \in Item
  PROVE  Has(k, i)' <=> Has(k, i)
  BY KeeperKinds, HandFacts, IdleType DEF Has, Is, Holding, Flushed, Typed, TypeOK, BagsEmptied,
     triggers, runtime, tally, ghosts, Done, Goes, Doing, Pair, Item, Executing

LEMMA EndMoves ==
  ASSUME Typed, BagsEmptied, NEW c \in Commands, End(c),
         NEW k \in Keepers, NEW i \in Item
  PROVE  Has(k, i)' <=> Has(k, i)
  BY KeeperKinds, HandFacts, IdleType DEF Has, Is, Holding, End, Typed, TypeOK, BagsEmptied,
     triggers, runtime, tally, ghosts, Done, Goes, Doing, Pair, Item, Executing

LEMMA BeginMoves ==
  ASSUME Typed, BagsEmptied, NEW w \in Workflows, Begin(w),
         NEW k \in Keepers, NEW i \in Item
  PROVE  Has(k, i)' <=> Has(k, i)
  BY KeeperKinds, HandFacts, IdleType DEF Has, Is, Holding, Begin, Typed, TypeOK, BagsEmptied,
     triggers, runtime, tally, ghosts, Done, Goes, Doing, Pair, Item, Executing

LEMMA ServeMoves ==
  ASSUME Typed, BagsEmptied, NEW w \in Workflows, NEW j \in Item, Serve(w, j),
         NEW k \in Keepers, NEW i \in Item
  PROVE  Has(k, i)' <=> Has(k, i) /\ ~(Is(k, "pend", w) /\ i = j)
  BY KeeperKinds, HandFacts, IdleType DEF Has, Is, Holding, Serve, Typed, TypeOK, BagsEmptied,
     triggers, runtime, tally, ghosts, Done, Goes, Doing, Pair, Item, Executing

LEMMA AbortMoves ==
  ASSUME Typed, BagsEmptied, NEW w \in Workflows, Abort(w),
         NEW k \in Keepers, NEW i \in Item
  PROVE  Has(k, i)' <=> Has(k, i) /\ ~Is(k, "pend", w)
  BY KeeperKinds, HandFacts, IdleType DEF Has, Is, Holding, Abort, Typed, TypeOK, BagsEmptied,
     triggers, runtime, tally, ghosts, Done, Goes, Doing, Pair, Item, Executing

LEMMA ResumeMoves ==
  ASSUME Typed, BagsEmptied, NEW w \in Workflows, Resume(w),
         NEW k \in Keepers, NEW i \in Item
  PROVE  Has(k, i)' <=> Has(k, i)
  BY KeeperKinds, HandFacts, IdleType DEF Has, Is, Holding, Resume, Typed, TypeOK, BagsEmptied,
     triggers, runtime, tally, ghosts, Done, Goes, Doing, Pair, Item, Executing

LEMMA FinishMoves ==
  ASSUME Typed, BagsEmptied, NEW w \in Workflows, NEW stop \in BOOLEAN, Finish(w, stop),
         NEW k \in Keepers, NEW i \in Item
  PROVE  Has(k, i)' <=> Has(k, i)
  BY KeeperKinds, HandFacts, IdleType DEF Has, Is, Holding, Finish, Typed, TypeOK, BagsEmptied,
     triggers, runtime, tally, ghosts, Done, Goes, Doing, Pair, Item, Executing

LEMMA MatchMoves ==
  ASSUME Typed, BagsEmptied, NEW t \in Threads, NEW c \in Commands, Match(t, c),
         NEW k \in Keepers, NEW i \in Item
  PROVE  Has(k, i)' <=> \/ Has(k, i)
                        \/ /\ Is(k, "hand", t) /\ i = Pair(c, hand[t].item.event)
                           /\ i.event \notin consumed[c]
  BY KeeperKinds, HandFacts, IdleType DEF Has, Is, Holding, Match, Typed, TypeOK, BagsEmptied,
     triggers, runtime, tally, ghosts, Done, Goes, Doing, Pair, Item, Executing

LEMMA TakeMoves ==
  ASSUME Typed, BagsEmptied, NEW t \in Threads, Take(t),
         NEW k \in Keepers, NEW i \in Item,
         i.event \in Events
  PROVE  Has(k, i)' <=> \/ Has(k, i) /\ ~Is(k, "meta", hand[t].item.cmd)
                        \/ /\ Is(k, "hand", t)
                           /\ i = Pair(hand[t].item.cmd, meta[hand[t].item.cmd])
  BY KeeperKinds, HandFacts, IdleType, NameAssumption DEF Has, Is, Holding, Take, Typed,
     TypeOK, BagsEmptied,
     triggers, runtime, tally, ghosts, Done, Goes, Doing, Pair, Item, Executing

LEMMA AimMoves ==
  ASSUME Typed, BagsEmptied, NEW t \in Threads, Aim(t),
         NEW k \in Keepers, NEW i \in Item
  PROVE  Has(k, i)' <=> Has(k, i)
  BY KeeperKinds, HandFacts, IdleType DEF Has, Is, Holding, Aim, Typed, TypeOK, BagsEmptied,
     triggers, runtime, tally, ghosts, Done, Goes, Doing, Pair, Item, Executing

LEMMA AppendMoves ==
  ASSUME Typed, BagsEmptied, NEW t \in Threads, Append(t),
         NEW k \in Keepers, NEW i \in Item
  PROVE  Has(k, i)' <=> \/ Has(k, i) /\ (~Is(k, "hand", t) \/ hand'[t].at = "undo")
                        \/ /\ i = hand[t].item
                           /\ Is(k, IF i.cmd \in setting.urgent THEN "pend" ELSE "defer", hand[t].to)
  BY KeeperKinds, HandFacts, IdleType DEF Has, Is, Holding, Append, Typed, TypeOK, BagsEmptied,
     triggers, runtime, tally, ghosts, Done, Goes, Doing, Pair, Item, Executing

LEMMA RaiseMoves ==
  ASSUME Typed, BagsEmptied, NEW t \in Threads, Raise(t),
         NEW k \in Keepers, NEW i \in Item
  PROVE  Has(k, i)' <=> Has(k, i)
  BY KeeperKinds, HandFacts, IdleType DEF Has, Is, Holding, Raise, Typed, TypeOK, BagsEmptied,
     triggers, runtime, tally, ghosts, Done, Goes, Doing, Pair, Item, Executing

LEMMA SubmitMoves ==
  ASSUME Typed, BagsEmptied, NEW t \in Threads, Submit(t),
         NEW k \in Keepers, NEW i \in Item
  PROVE  Has(k, i)' <=> \/ Has(k, i) /\ (~Is(k, "hand", t) \/ hand'[t].at = "refused")
                        \/ /\ i = hand[t].item /\ hand'[t].at # "refused"
                           /\ Is(k, "wait", i.cmd)
  BY KeeperKinds, HandFacts, IdleType DEF Has, Is, Holding, Submit, Typed, TypeOK, BagsEmptied,
     triggers, runtime, tally, ghosts, Done, Goes, Doing, Pair, Item, Executing

LEMMA RefusedMoves ==
  ASSUME Typed, BagsEmptied, NEW t \in Threads, Refused(t),
         NEW k \in Keepers, NEW i \in Item
  PROVE  Has(k, i)' <=> Has(k, i) /\ ~Is(k, "hand", t)
  BY KeeperKinds, HandFacts, IdleType DEF Has, Is, Holding, Refused, Typed, TypeOK, BagsEmptied,
     triggers, runtime, tally, ghosts, Done, Goes, Doing, Pair, Item, Executing

LEMMA UndoMoves ==
  ASSUME Typed, BagsEmptied, NEW t \in Threads, Undo(t),
         NEW k \in Keepers, NEW i \in Item
  PROVE  Has(k, i)' <=> Has(k, i) /\ ~Is(k, "hand", t)
  BY KeeperKinds, HandFacts, IdleType DEF Has, Is, Holding, Undo, Typed, TypeOK, BagsEmptied,
     triggers, runtime, tally, ghosts, Done, Goes, Doing, Pair, Item, Executing

LEMMA ResubmitMoves ==
  ASSUME Typed, BagsEmptied, NEW x \in Commands \cup Workflows, NEW j \in Item, Resubmit(x, j),
         NEW k \in Keepers, NEW i \in Item
  PROVE  Has(k, i)' <=> \/ Has(k, i) /\ ~(Is(k, "bag", x) /\ i = j)
                        \/ i = j /\ ~Executing(j.cmd) /\ Is(k, "wait", j.cmd)
  BY KeeperKinds, HandFacts, IdleType DEF Has, Is, Holding, Resubmit, Typed, TypeOK,
     BagsEmptied,
     triggers, runtime, tally, ghosts, Done, Goes, Doing, Pair, Item, Executing

LEMMA CollectMoves ==
  ASSUME Typed, BagsEmptied, NEW w \in Workflows, Collect(w),
         NEW k \in Keepers, NEW i \in Item
  PROVE  Has(k, i)' <=> \/ Has(k, i) /\ ~Is(k, "pend", w) /\ ~Is(k, "defer", w)
                        \/ Is(k, "bag", w) /\ i \in bag'[w]
  BY KeeperKinds, HandFacts, IdleType DEF Has, Is, Holding, Collect, Typed, TypeOK, BagsEmptied,
     triggers, runtime, tally, ghosts, Done, Goes, Doing, Pair, Item, Executing

LEMMA MergeMoves ==
  ASSUME Typed, BagsEmptied, NEW w \in Workflows, Merge(w),
         NEW k \in Keepers, NEW i \in Item
  PROVE  Has(k, i)' <=> \/ Has(k, i) /\ ~Is(k, "bag", w) /\ ~Is(k, "post", Nobody)
                        \/ Is(k, "post", Nobody) /\ i \in seen[w] \cup bag[w]
  BY KeeperKinds, HandFacts, IdleType DEF Has, Is, Holding, Merge, Typed, TypeOK, BagsEmptied,
     triggers, runtime, tally, ghosts, Done, Goes, Doing, Pair, Item, Executing

-----------------------------------------------------------------------------
(* The invariant.                                                          *)

\* A pair is in one place at a time, and only while its event is consumed and
\* its command not run; once that is run it stays so, and is run no more.
Single(i) ==
    /\ \A k, l \in Keepers : Has(k, i) /\ Has(l, i) => Is(k, l.kind, l.of)
    /\ \A k \in Keepers : Has(k, i) => i.event \in consumed[i.cmd] /\ i \notin ran
    /\ i \in ran => i.event \in consumed[i.cmd]
    /\ i \notin again

Apart == \A i \in Item : i.event \in Events => i \in undone \/ Single(i)

IInv == Typed /\ BagsEmptied /\ Accounted /\ Apart

LEMMA ItemParts ==
  ASSUME NEW i \in Item
  PROVE  /\ i.cmd \in Commands /\ i.event \in Events \cup {NoEvent}
         /\ i = Pair(i.cmd, i.event)
  BY DEF Item, Pair

LEMMA PairParts ==
  ASSUME NEW c, NEW e
  PROVE  Pair(c, e).cmd = c /\ Pair(c, e).event = e
  BY DEF Pair

LEMMA KeepersIn ==
  /\ \A t \in Threads : [kind |-> "hand", of |-> t] \in Keepers
  /\ \A c \in Commands : /\ [kind |-> "meta", of |-> c] \in Keepers
                         /\ [kind |-> "wait", of |-> c] \in Keepers
  /\ \A x \in Commands \cup Workflows : [kind |-> "bag", of |-> x] \in Keepers
  /\ [kind |-> "post", of |-> Nobody] \in Keepers
  /\ \A w \in Workflows : /\ [kind |-> "pend", of |-> w] \in Keepers
                          /\ [kind |-> "defer", of |-> w] \in Keepers
  BY DEF Keepers

LEMMA AccountedStep ==
  ASSUME Accounted,
         \A i \in Item : i.event \in consumed'[i.cmd] => i.event \in consumed[i.cmd] \/ Kept(i)',
         \A i \in Item, k \in Keepers :
             i.event \in consumed'[i.cmd] /\ Has(k, i) => Kept(i)',
         \A i \in Item, w \in Workflows : i \in seen[w] => Kept(i)',
         ran \cup lost \subseteq ran' \cup lost'
  PROVE  Accounted'
  BY DEF Accounted, Kept

\* A pair that is in none but its old places.
LEMMA SingleKeeps ==
  ASSUME NEW i \in Item, Single(i),
         \A k \in Keepers : Has(k, i)' => Has(k, i),
         i.event \in consumed[i.cmd] =>
             i.event \in consumed'[i.cmd] \/ (i \notin ran /\ \A k \in Keepers : ~Has(k, i)'),
         i \in ran' => i \in ran, i \notin again'
  PROVE  Single(i)'
  BY DEF Single

\* A pair that goes from one place to another.
LEMMA SingleMoves ==
  ASSUME NEW i \in Item, Single(i), NEW a \in Keepers, Has(a, i), NEW kind, NEW of,
         \A k \in Keepers : Has(k, i)' => Is(k, kind, of),
         UNCHANGED <<consumed, ran, again>>
  PROVE  Single(i)'
  BY DEF Single, Is

\* A pair whose event is consumed for it.
LEMMA SingleEnters ==
  ASSUME NEW i \in Item, Single(i), i.event \notin consumed[i.cmd], i.event \in consumed'[i.cmd],
         NEW kind, NEW of,
         \A k \in Keepers : Has(k, i)' => Has(k, i) \/ Is(k, kind, of),
         UNCHANGED <<ran, again>>
  PROVE  Single(i)'
  BY DEF Single, Is

\* A pair that leaves its place and is run.
LEMMA SingleRuns ==
  ASSUME NEW i \in Item, Single(i), NEW a \in Keepers, Has(a, i),
         \A k \in Keepers : Has(k, i)' => Has(k, i) /\ ~Is(k, a.kind, a.of),
         UNCHANGED consumed, Counted(i)
  PROVE  Single(i)'
<1>1. i \notin ran /\ i.event \in consumed[i.cmd] /\ i \notin again
  BY DEF Single
<1>2. \A k \in Keepers : ~Has(k, i)'
  BY DEF Single
<1> QED
  BY <1>1, <1>2 DEF Single, Counted

LEMMA Still ==
  ASSUME Accounted, Apart, UNCHANGED <<consumed, seen, ran, again, lost, undone>>,
         \A k \in Keepers, i \in Item : Has(k, i)' <=> Has(k, i)
  PROVE  Accounted' /\ Apart'
<1>1. Accounted'
  BY DEF Accounted, Kept
<1>2. Apart'
  <2> SUFFICES ASSUME NEW i \in Item, i.event \in Events, i \notin undone', Single(i)
               PROVE  Single(i)'
    BY DEF Apart
  <2> QED
    BY SingleKeeps DEF Single
<1> QED
  BY <1>1, <1>2

LEMMA ArriveKept ==
  ASSUME IInv, NEW t \in Threads, NEW e \in Events, Arrive(t, e)
  PROVE  BagsEmptied' /\ Accounted' /\ Apart'
<1>1. BagsEmptied'
  BY DEF IInv, Typed, TypeOK, BagsEmptied, Arrive, triggers, runtime
<1>2. Accounted' /\ Apart'
  BY ArriveMoves, Still DEF IInv, Arrive, triggers, runtime, tally, ghosts
<1> QED
  BY <1>1, <1>2

LEMMA RouteKept ==
  ASSUME IInv, NEW t \in Threads, Route(t)
  PROVE  BagsEmptied' /\ Accounted' /\ Apart'
<1>1. BagsEmptied'
  BY DEF IInv, Typed, TypeOK, BagsEmptied, Route, triggers, runtime
<1>2. Accounted' /\ Apart'
  BY RouteMoves, Still DEF IInv, Route, triggers, runtime, tally, ghosts
<1> QED
  BY <1>1, <1>2

LEMMA AimKept ==
  ASSUME IInv, NEW t \in Threads, Aim(t)
  PROVE  BagsEmptied' /\ Accounted' /\ Apart'
<1>1. BagsEmptied'
  BY DEF IInv, Typed, TypeOK, BagsEmptied, Aim, triggers, runtime
<1>2. Accounted' /\ Apart'
  BY AimMoves, Still DEF IInv, Aim, triggers, runtime, tally, ghosts
<1> QED
  BY <1>1, <1>2

LEMMA RaiseKept ==
  ASSUME IInv, NEW t \in Threads, Raise(t)
  PROVE  BagsEmptied' /\ Accounted' /\ Apart'
<1>1. BagsEmptied'
  BY DEF IInv, Typed, TypeOK, BagsEmptied, Raise, triggers, runtime
<1>2. Accounted' /\ Apart'
  BY RaiseMoves, Still DEF IInv, Raise, triggers, runtime, tally, ghosts
<1> QED
  BY <1>1, <1>2

LEMMA ReleaseKept ==
  ASSUME IInv, NEW x \in Commands \cup Workflows, Release(x)
  PROVE  BagsEmptied' /\ Accounted' /\ Apart'
<1>1. BagsEmptied'
  BY DEF IInv, Typed, TypeOK, BagsEmptied, Release, triggers, runtime
<1>2. Accounted' /\ Apart'
  BY ReleaseMoves, Still DEF IInv, Release, triggers, runtime, tally, ghosts
<1> QED
  BY <1>1, <1>2

LEMMA FlushedKept ==
  ASSUME IInv, NEW x \in Commands \cup Workflows, Flushed(x)
  PROVE  BagsEmptied' /\ Accounted' /\ Apart'
<1>1. BagsEmptied'
  BY DEF IInv, Typed, TypeOK, BagsEmptied, Flushed, triggers, runtime
<1>2. Accounted' /\ Apart'
  BY FlushedMoves, Still DEF IInv, Flushed, triggers, runtime, tally, ghosts
<1> QED
  BY <1>1, <1>2

LEMMA EndKept ==
  ASSUME IInv, NEW c \in Commands, End(c)
  PROVE  BagsEmptied' /\ Accounted' /\ Apart'
<1>1. BagsEmptied'
  BY DEF IInv, Typed, TypeOK, BagsEmptied, End, triggers, runtime
<1>2. Accounted' /\ Apart'
  BY EndMoves, Still DEF IInv, End, triggers, runtime, tally, ghosts
<1> QED
  BY <1>1, <1>2

LEMMA BeginKept ==
  ASSUME IInv, NEW w \in Workflows, Begin(w)
  PROVE  BagsEmptied' /\ Accounted' /\ Apart'
<1>1. BagsEmptied'
  BY DEF IInv, Typed, TypeOK, BagsEmptied, Begin, triggers, runtime
<1>2. Accounted' /\ Apart'
  BY BeginMoves, Still DEF IInv, Begin, triggers, runtime, tally, ghosts
<1> QED
  BY <1>1, <1>2

LEMMA ResumeKept ==
  ASSUME IInv, NEW w \in Workflows, Resume(w)
  PROVE  BagsEmptied' /\ Accounted' /\ Apart'
<1>1. BagsEmptied'
  BY DEF IInv, Typed, TypeOK, BagsEmptied, Resume, triggers, runtime
<1>2. Accounted' /\ Apart'
  BY ResumeMoves, Still DEF IInv, Resume, triggers, runtime, tally, ghosts
<1> QED
  BY <1>1, <1>2

LEMMA FinishKept ==
  ASSUME IInv, NEW w \in Workflows, NEW stop \in BOOLEAN, Finish(w, stop)
  PROVE  BagsEmptied' /\ Accounted' /\ Apart'
<1>1. BagsEmptied'
  BY DEF IInv, Typed, TypeOK, BagsEmptied, Finish, triggers, runtime
<1>2. Accounted' /\ Apart'
  BY FinishMoves, Still DEF IInv, Finish, triggers, runtime, tally, ghosts
<1> QED
  BY <1>1, <1>2

LEMMA KeptStays ==
  ASSUME NEW i \in Item, Kept(i), \A k \in Keepers : Has(k, i) => Kept(i)',
         \A w \in Workflows : i \in seen[w] => Kept(i)',
         ran \cup lost \subseteq ran' \cup lost'
  PROVE  Kept(i)'
  BY DEF Kept

LEMMA KeptThere ==
  ASSUME NEW i \in Item, NEW k \in Keepers, Has(k, i)'
  PROVE  Kept(i)'
  BY DEF Kept

LEMMA NoneOther ==
  ASSUME NEW i \in Item, Single(i), NEW a \in Keepers, Has(a, i),
         \A k \in Keepers : Has(k, i)' => Has(k, i) /\ ~Is(k, a.kind, a.of)
  PROVE  i \notin ran /\ \A k \in Keepers : ~Has(k, i)'
  BY DEF Single

LEMMA MatchKept ==
  ASSUME IInv, NEW t \in Threads, NEW c \in Commands, Match(t, c)
  PROVE  BagsEmptied' /\ Accounted' /\ Apart'
<1>1. BagsEmptied'
  BY DEF IInv, Typed, TypeOK, BagsEmptied, Match, triggers, runtime
<1>2. Accounted'
  <2> DEFINE k == [kind |-> "hand", of |-> t]
  <2>1. CASE hand[t].item.event \in consumed[c]
    <3>1. \A l \in Keepers, i \in Item : Has(l, i) => Has(l, i)'
      BY MatchMoves DEF IInv
    <3> QED
      BY <2>1, <3>1 DEF Match, IInv, Accounted, Kept, runtime, tally, ghosts
  <2>2. CASE hand[t].item.event \notin consumed[c]
    <3>1. k \in Keepers /\ Is(k, "hand", t)
      BY KeepersIn DEF Is
    <3>2. PICK j \in Item : j = Pair(c, hand[t].item.event)
      BY HandFacts DEF Match, IInv, Full, Pair, Item
    <3>3. Has(k, j)'
      BY <2>2, <3>1, <3>2, MatchMoves, PairParts DEF IInv
    <3>4. \A l \in Keepers, i \in Item : Has(l, i) => Has(l, i)'
      BY MatchMoves DEF IInv
    <3>5. \A i \in Item : i.event \in consumed'[i.cmd] => i.event \in consumed[i.cmd] \/ i = j
      BY <2>2, <3>2, ItemParts, PairParts DEF Match, IInv, Typed, TypeOK
    <3>6. UNCHANGED <<ran, lost, seen>>
      BY DEF Match, runtime, tally, ghosts
    <3>7. Kept(j)'
      BY <3>1, <3>3 DEF Kept
    <3>8. ASSUME NEW i \in Item, Kept(i) PROVE Kept(i)'
      BY <3>4, <3>6, <3>8 DEF Kept
    <3> QED
      BY <3>5, <3>7, <3>8 DEF IInv, Accounted
  <2> QED
    BY <2>1, <2>2
<1>3. Apart'
  <2> SUFFICES ASSUME NEW i \in Item, i.event \in Events, i \notin undone', Single(i)
               PROVE  Single(i)'
    BY DEF IInv, Apart, Match, ghosts
  <2>1. UNCHANGED <<ran, again>>
    BY DEF Match, tally
  <2>2. \A k \in Keepers : Has(k, i)' => Has(k, i) \/ Is(k, "hand", t)
    BY MatchMoves DEF IInv
  <2>3. i.event \in consumed[i.cmd] => i.event \in consumed'[i.cmd]
    BY ItemParts DEF Match, IInv, Typed, TypeOK
  <2>4. CASE i.cmd = c /\ i.event = hand[t].item.event /\ i.event \notin consumed[c]
    <3>1. i.event \in consumed'[i.cmd]
      BY <2>4 DEF Match, IInv, Typed, TypeOK
    <3> QED
      BY <2>1, <2>2, <2>4, <3>1, SingleEnters
  <2>5. CASE ~(i.cmd = c /\ i.event = hand[t].item.event /\ i.event \notin consumed[c])
    <3>1. \A k \in Keepers : Has(k, i)' => Has(k, i)
      BY <2>5, MatchMoves, PairParts DEF IInv
    <3> QED
      BY <2>1, <2>3, <3>1, SingleKeeps DEF Single
  <2> QED
    BY <2>4, <2>5
<1> QED
  BY <1>1, <1>2, <1>3

LEMMA TriggerKept ==
  ASSUME IInv, NEW t \in Threads, NEW c \in Commands, NEW e \in Events,
         NEW at \in {"take", "takeForWorkflow"}, Trigger(t, c, e, at)
  PROVE  BagsEmptied' /\ Accounted' /\ Apart'
<1>1. BagsEmptied'
  BY DEF IInv, Typed, TypeOK, BagsEmptied, Trigger, triggers, runtime
<1>2. Accounted'
  <2> DEFINE j == Pair(c, e)
             k == [kind |-> "meta", of |-> c]
  <2>1. k \in Keepers /\ Is(k, "meta", c) /\ j \in Item
    BY KeepersIn DEF Is, Pair, Item
  <2>2. Has(k, j)'
    BY <2>1, TriggerMoves, PairParts DEF IInv
  <2>3. \A i \in Item : i.event \in consumed'[i.cmd] => i.event \in Events
                        /\ (i.event \in consumed[i.cmd] \/ i = j)
    BY ItemParts, PairParts DEF Trigger, IInv, Typed, TypeOK
  <2>4. ASSUME NEW i \in Item, NEW l \in Keepers, Has(l, i), i.event \in Events
        PROVE  Has(l, i)' \/ i \in lost'
    <3>1. CASE ~Is(l, "meta", c)
      BY <2>4, <3>1, TriggerMoves DEF IInv
    <3>2. CASE Is(l, "meta", c)
      <4>1. i.cmd = c /\ meta[c] = i.event
        BY <2>4, <3>2 DEF Has, Is
      <4> QED
        BY <2>4, <4>1, ItemParts, NameAssumption DEF Trigger
    <3> QED
      BY <3>1, <3>2
  <2>5. /\ lost \subseteq lost' /\ UNCHANGED <<ran, seen>>
    BY DEF Trigger, runtime, tally
  <2> QED
    BY <2>1, <2>2, <2>3, <2>4, <2>5 DEF IInv, Accounted, Kept
<1>3. Apart'
  <2> SUFFICES ASSUME NEW i \in Item, i.event \in Events, i \notin undone', Single(i)
               PROVE  Single(i)'
    BY DEF IInv, Apart, Trigger
  <2>1. UNCHANGED <<ran, again>>
    BY DEF Trigger, tally
  <2>2. \A k \in Keepers : Has(k, i)' => \/ Has(k, i) /\ ~Is(k, "meta", c)
                                         \/ Is(k, "meta", c) /\ i = Pair(c, e)
    BY TriggerMoves DEF IInv
  <2>3. i.event \in consumed[i.cmd] => i.event \in consumed'[i.cmd]
    BY ItemParts DEF Trigger, IInv, Typed, TypeOK
  <2>4. CASE i = Pair(c, e)
    <3>1. i.event \notin consumed[i.cmd] /\ i.event \in consumed'[i.cmd]
      BY <2>4, PairParts DEF Trigger, IInv, Typed, TypeOK
    <3> QED
      BY <2>1, <2>2, <3>1, SingleEnters
  <2>5. CASE i # Pair(c, e)
    BY <2>1, <2>2, <2>3, <2>5, SingleKeeps DEF Single
  <2> QED
    BY <2>4, <2>5
<1> QED
  BY <1>1, <1>2, <1>3

LEMMA TakeKept ==
  ASSUME IInv, NEW t \in Threads, Take(t)
  PROVE  BagsEmptied' /\ Accounted' /\ Apart'
<1>1. BagsEmptied'
  BY DEF IInv, Typed, TypeOK, BagsEmptied, Take, triggers, runtime
<1>2. Accounted'
  <2> DEFINE d == hand[t].item.cmd
             j == Pair(d, meta[d])
             k == [kind |-> "hand", of |-> t]
  <2>1. k \in Keepers /\ Is(k, "hand", t) /\ d \in Commands
    BY KeepersIn, HandFacts DEF Is, Take, IInv
  <2>2. j \in Item
    BY <2>1 DEF Pair, Item, IInv, Typed, TypeOK
  <2>3. ASSUME NEW i \in Item, NEW l \in Keepers, Has(l, i), i.event \in Events
        PROVE  Has(l, i)' \/ Has(k, i)'
    <3>1. CASE ~Is(l, "meta", d)
      BY <2>3, <3>1, TakeMoves DEF IInv
    <3>2. CASE Is(l, "meta", d)
      <4>1. i = j
        BY <2>3, <3>2, ItemParts DEF Has, Is
      <4> QED
        BY <2>1, <2>3, <4>1, TakeMoves DEF IInv
    <3> QED
      BY <3>1, <3>2
  <2>4. UNCHANGED <<consumed, lost, ran, seen>>
    BY DEF Take, runtime, tally, ghosts
  <2>5. \A i \in Item : i.event \in consumed[i.cmd] => i.event \in Events
    BY ItemParts DEF IInv, Typed, TypeOK
  <2> QED
    BY <2>1, <2>3, <2>4, <2>5 DEF IInv, Accounted, Kept
<1>3. Apart'
  <2> SUFFICES ASSUME NEW i \in Item, i.event \in Events, i \notin undone', Single(i)
               PROVE  Single(i)'
    BY DEF IInv, Apart, Take, ghosts
  <2> DEFINE d == hand[t].item.cmd
             a == [kind |-> "meta", of |-> d]
  <2>1. UNCHANGED <<consumed, ran, again>>
    BY DEF Take, tally
  <2>2. \A k \in Keepers : Has(k, i)' <=> \/ Has(k, i) /\ ~Is(k, "meta", d)
                                          \/ Is(k, "hand", t) /\ i = Pair(d, meta[d])
    BY TakeMoves DEF IInv
  <2>3. CASE i = Pair(d, meta[d])
    <3>1. a \in Keepers /\ a.kind = "meta" /\ a.of = d
      BY KeepersIn, HandFacts DEF Take, IInv
    <3>2. Has(a, i)
      BY <2>3, <3>1, PairParts DEF Has
    <3>3. \A k \in Keepers : Has(k, i)' => Is(k, "hand", t)
      BY <2>2, <3>1, <3>2 DEF Single, Is
    <3> QED
      BY <2>1, <3>1, <3>2, <3>3, SingleMoves
  <2>4. CASE i # Pair(d, meta[d])
    BY <2>1, <2>2, <2>4, SingleKeeps DEF Single
  <2> QED
    BY <2>3, <2>4
<1> QED
  BY <1>1, <1>2, <1>3

LEMMA AppendKept ==
  ASSUME IInv, NEW t \in Threads, Append(t)
  PROVE  BagsEmptied' /\ Accounted' /\ Apart'
<1>1. BagsEmptied'
  BY DEF IInv, Typed, TypeOK, BagsEmptied, Append, triggers, runtime
<1>2. Accounted'
  <2>0. PICK j \in Item : j = hand[t].item
    BY HandFacts DEF Append, IInv
  <2>1. PICK l \in Keepers : Is(l, IF j.cmd \in setting.urgent THEN "pend" ELSE "defer",
                                hand[t].to)
    BY KeepersIn, HandFacts DEF Is, Append, IInv
  <2>2. Has(l, j)'
    BY <2>0, <2>1, AppendMoves DEF IInv
  <2>3. ASSUME NEW i \in Item, NEW k \in Keepers, Has(k, i) PROVE Kept(i)'
    <3>1. CASE ~Is(k, "hand", t)
      BY <2>3, <3>1, AppendMoves, KeptThere DEF IInv
    <3>2. CASE Is(k, "hand", t)
      <4>1. i = j
        BY <2>0, <2>3, <3>2 DEF Is, Has
      <4> QED
        BY <2>2, <4>1, KeptThere
    <3> QED
      BY <3>1, <3>2
  <2>4. UNCHANGED <<consumed, seen, ran, lost>>
    BY DEF Append, triggers, tally, ghosts
  <2>5. ASSUME NEW i \in Item, NEW w \in Workflows, i \in seen[w] PROVE Kept(i)'
    BY <2>4, <2>5 DEF Kept
  <2> QED
    BY <2>3, <2>4, <2>5, KeptStays DEF IInv, Accounted
<1>3. Apart'
  <2> SUFFICES ASSUME NEW i \in Item, i.event \in Events, i \notin undone', Single(i)
               PROVE  Single(i)'
    BY DEF IInv, Apart, Append, ghosts
  <2> DEFINE j == hand[t].item
             to == IF j.cmd \in setting.urgent THEN "pend" ELSE "defer"
             a == [kind |-> "hand", of |-> t]
             l == [kind |-> to, of |-> hand[t].to]
  <2>1. UNCHANGED <<consumed, ran, again>>
    BY DEF Append, triggers, tally
  <2>2. a \in Keepers /\ Is(a, "hand", t) /\ l \in Keepers
    BY KeepersIn, HandFacts DEF Is, Append, IInv
  <2>3. Has(a, j)
    BY <2>2 DEF Has, Append, Holding
  <2>4. \A k \in Keepers : Has(k, i)' <=> \/ Has(k, i) /\ (~Is(k, "hand", t) \/ hand'[t].at = "undo")
                                          \/ i = j /\ Is(k, to, hand[t].to)
    BY AppendMoves DEF IInv
  <2>5. CASE i # j
    BY <2>1, <2>4, <2>5, SingleKeeps DEF Single
  <2>6. CASE i = j /\ hand'[t].at # "undo"
    <3>1. \A k \in Keepers : Has(k, i)' => Is(k, to, hand[t].to)
      BY <2>2, <2>3, <2>4, <2>6 DEF Single, Is
    <3> QED
      BY <2>1, <2>2, <2>3, <2>6, <3>1, SingleMoves
  <2>7. CASE i = j /\ hand'[t].at = "undo"
    <3>1. j.cmd \in setting.urgent /\ j \in pending[hand[t].to]
      BY <2>7, HandFacts, IdleType DEF Append, IInv, Typed, TypeOK, Goes, Done, Doing, Idle
    <3>2. \A k \in Keepers : Is(k, to, hand[t].to) => Has(k, j)
      BY <3>1 DEF Is, Has
    <3>3. \A k \in Keepers : Has(k, i)' => Has(k, i)
      BY <2>4, <2>7, <3>2
    <3> QED
      BY <2>1, <3>3, SingleKeeps DEF Single
  <2> QED
    BY <2>5, <2>6, <2>7
<1> QED
  BY <1>1, <1>2, <1>3

LEMMA SubmitKept ==
  ASSUME IInv, NEW t \in Threads, Submit(t)
  PROVE  BagsEmptied' /\ Accounted' /\ Apart'
<1>1. BagsEmptied'
  BY HandFacts DEF IInv, Typed, TypeOK, BagsEmptied, Submit, Executing, triggers, runtime
<1>2. Accounted'
  <2>0. PICK j \in Item : j = hand[t].item /\ j.cmd \in Commands
    BY HandFacts DEF Submit, IInv
  <2>1. PICK l \in Keepers : Is(l, "wait", j.cmd)
    BY <2>0, KeepersIn DEF Is
  <2>2. ASSUME NEW i \in Item, NEW k \in Keepers, Has(k, i) PROVE Kept(i)'
    <3>1. CASE ~Is(k, "hand", t) \/ hand'[t].at = "refused"
      BY <2>2, <3>1, SubmitMoves, KeptThere DEF IInv
    <3>2. CASE Is(k, "hand", t) /\ hand'[t].at # "refused"
      <4>1. i = j
        BY <2>0, <2>2, <3>2 DEF Is, Has
      <4>2. Has(l, j)'
        BY <2>0, <2>1, <3>2, SubmitMoves DEF IInv
      <4> QED
        BY <4>1, <4>2, KeptThere
    <3> QED
      BY <3>1, <3>2
  <2>4. UNCHANGED <<consumed, seen, ran, lost>>
    BY DEF Submit, triggers, runtime, tally, ghosts
  <2>5. ASSUME NEW i \in Item, NEW w \in Workflows, i \in seen[w] PROVE Kept(i)'
    BY <2>4, <2>5 DEF Kept
  <2> QED
    BY <2>2, <2>4, <2>5, KeptStays DEF IInv, Accounted
<1>3. Apart'
  <2> SUFFICES ASSUME NEW i \in Item, i.event \in Events, i \notin undone', Single(i)
               PROVE  Single(i)'
    BY DEF IInv, Apart, Submit, ghosts
  <2> DEFINE j == hand[t].item
             a == [kind |-> "hand", of |-> t]
  <2>1. UNCHANGED <<consumed, ran, again>>
    BY DEF Submit, triggers, tally
  <2>2. a \in Keepers /\ Is(a, "hand", t)
    BY KeepersIn DEF Is
  <2>3. Has(a, j)
    BY <2>2 DEF Has, Submit, Holding
  <2>4. \A k \in Keepers : Has(k, i)' <=> \/ Has(k, i) /\ (~Is(k, "hand", t) \/ hand'[t].at = "refused")
                                          \/ i = j /\ hand'[t].at # "refused" /\ Is(k, "wait", i.cmd)
    BY SubmitMoves DEF IInv
  <2>5. CASE i # j \/ hand'[t].at = "refused"
    BY <2>1, <2>4, <2>5, SingleKeeps DEF Single
  <2>6. CASE i = j /\ hand'[t].at # "refused"
    <3>1. \A k \in Keepers : Has(k, i)' => Is(k, "wait", i.cmd)
      BY <2>2, <2>3, <2>4, <2>6 DEF Single, Is
    <3> QED
      BY <2>1, <2>2, <2>3, <2>6, <3>1, SingleMoves
  <2> QED
    BY <2>5, <2>6
<1> QED
  BY <1>1, <1>2, <1>3

LEMMA RefusedKept ==
  ASSUME IInv, NEW t \in Threads, Refused(t)
  PROVE  BagsEmptied' /\ Accounted' /\ Apart'
<1>1. BagsEmptied'
  BY DEF IInv, Typed, TypeOK, BagsEmptied, Refused, triggers, runtime
<1>2. Accounted'
  <2>0. PICK j \in Item : j = hand[t].item
    BY HandFacts DEF Refused, IInv
  <2>1. ASSUME NEW i \in Item, i.event \in consumed'[i.cmd]
        PROVE  i # j /\ i.event \in consumed[i.cmd]
    BY <2>0, <2>1, ItemParts, PairParts DEF Refused, GiveBack, IInv, Typed, TypeOK
  <2>2. ASSUME NEW i \in Item, i # j, NEW k \in Keepers, Has(k, i) PROVE Kept(i)'
    <3>1. ~(Is(k, "hand", t))
      BY <2>0, <2>2, ItemParts, PairParts DEF Has, Is
    <3> QED
      BY <2>2, <3>1, RefusedMoves, KeptThere DEF IInv
  <2>3. UNCHANGED <<seen, ran, lost>>
    BY DEF Refused, runtime, tally, ghosts
  <2>4. ASSUME NEW i \in Item, NEW w \in Workflows, i \in seen[w] PROVE Kept(i)'
    BY <2>3, <2>4 DEF Kept
  <2> QED
    BY <2>1, <2>2, <2>3, <2>4, KeptStays DEF IInv, Accounted
<1>3. Apart'
  <2> SUFFICES ASSUME NEW i \in Item, i.event \in Events, i \notin undone', Single(i)
               PROVE  Single(i)'
    BY DEF IInv, Apart, Refused, ghosts
  <2>0. PICK j \in Item : j = hand[t].item
    BY HandFacts DEF Refused, IInv
  <2> DEFINE a == [kind |-> "hand", of |-> t]
  <2>1. UNCHANGED <<ran, again>>
    BY DEF Refused, tally
  <2>2. a \in Keepers /\ a.kind = "hand" /\ a.of = t
    BY KeepersIn
  <2>3. \A k \in Keepers : Has(k, i)' <=> Has(k, i) /\ ~(Is(k, "hand", t))
    BY RefusedMoves DEF IInv
  <2>4. CASE i # j
    <3>1. i.event \in consumed[i.cmd] => i.event \in consumed'[i.cmd]
      BY <2>0, <2>4, ItemParts, PairParts DEF Refused, GiveBack, IInv, Typed, TypeOK
    <3> QED
      BY <2>1, <2>3, <3>1, SingleKeeps DEF Single
  <2>5. CASE i = j
    <3>1. Has(a, i)
      BY <2>0, <2>2, <2>5, ItemParts, PairParts DEF Has, Refused, Holding
    <3>2. i \notin ran /\ \A k \in Keepers : ~Has(k, i)'
      BY <2>2, <2>3, <3>1, NoneOther DEF Is
    <3> QED
      BY <2>1, <2>3, <3>2, SingleKeeps DEF Single
  <2> QED
    BY <2>4, <2>5
<1> QED
  BY <1>1, <1>2, <1>3

LEMMA UndoKept ==
  ASSUME IInv, NEW t \in Threads, Undo(t)
  PROVE  BagsEmptied' /\ Accounted' /\ Apart'
<1>1. BagsEmptied'
  BY DEF IInv, Typed, TypeOK, BagsEmptied, Undo, triggers, runtime
<1>2. Accounted'
  <2>0. PICK j \in Item : j = hand[t].item
    BY HandFacts DEF Undo, IInv
  <2>1. ASSUME NEW i \in Item, i.event \in consumed'[i.cmd]
        PROVE  i # j /\ i.event \in consumed[i.cmd]
    BY <2>0, <2>1, ItemParts, PairParts DEF Undo, GiveBack, IInv, Typed, TypeOK
  <2>2. ASSUME NEW i \in Item, i # j, NEW k \in Keepers, Has(k, i) PROVE Kept(i)'
    <3>1. ~(Is(k, "hand", t))
      BY <2>0, <2>2, ItemParts, PairParts DEF Has, Is
    <3> QED
      BY <2>2, <3>1, UndoMoves, KeptThere DEF IInv
  <2>3. UNCHANGED <<seen, ran, lost>>
    BY DEF Undo, runtime, tally, ghosts
  <2>4. ASSUME NEW i \in Item, NEW w \in Workflows, i \in seen[w] PROVE Kept(i)'
    BY <2>3, <2>4 DEF Kept
  <2> QED
    BY <2>1, <2>2, <2>3, <2>4, KeptStays DEF IInv, Accounted
<1>3. Apart'
  <2> SUFFICES ASSUME NEW i \in Item, i.event \in Events, i \notin undone', Single(i)
               PROVE  Single(i)'
    BY DEF IInv, Apart, Undo, ghosts
  <2>0. PICK j \in Item : j = hand[t].item
    BY HandFacts DEF Undo, IInv
  <2> DEFINE a == [kind |-> "hand", of |-> t]
  <2>1. UNCHANGED <<ran, again>>
    BY DEF Undo, tally
  <2>2. a \in Keepers /\ a.kind = "hand" /\ a.of = t
    BY KeepersIn
  <2>3. \A k \in Keepers : Has(k, i)' <=> Has(k, i) /\ ~(Is(k, "hand", t))
    BY UndoMoves DEF IInv
  <2>4. CASE i # j
    <3>1. i.event \in consumed[i.cmd] => i.event \in consumed'[i.cmd]
      BY <2>0, <2>4, ItemParts, PairParts DEF Undo, GiveBack, IInv, Typed, TypeOK
    <3> QED
      BY <2>1, <2>3, <3>1, SingleKeeps DEF Single
  <2>5. CASE i = j /\ hand[t].at = "undo"
    <3>1. Has(a, i)
      BY <2>0, <2>2, <2>5, ItemParts, PairParts DEF Has, Undo, Holding
    <3>2. i \notin ran /\ \A k \in Keepers : ~Has(k, i)'
      BY <2>2, <2>3, <3>1, NoneOther DEF Is
    <3> QED
      BY <2>1, <2>3, <3>2, SingleKeeps DEF Single
  <2>6. CASE i = j /\ ~(hand[t].at = "undo")
    <3>1. i.event \notin consumed[i.cmd]
      BY <2>0, <2>6 DEF Undo
    <3> QED
      BY <2>1, <2>3, <3>1, SingleKeeps DEF Single
  <2> QED
    BY <2>4, <2>5, <2>6
<1> QED
  BY <1>1, <1>2, <1>3

LEMMA BagsStay ==
  ASSUME BagsEmptied, TypeOK, NEW x \in Commands \cup Workflows, NEW s,
         stage' = [stage EXCEPT ![x] = s], stage[x] \notin {"flushing", "merging"},
         UNCHANGED <<bag, seen>>
  PROVE  BagsEmptied'
  BY DEF BagsEmptied, TypeOK

LEMMA TimeOutKept ==
  ASSUME IInv, NEW c \in Commands, TimeOut(c)
  PROVE  BagsEmptied' /\ Accounted' /\ Apart'
<1>1. BagsEmptied'
  BY BagsStay DEF IInv, Typed, TimeOut, GiveBack, runtime
<1>2. Accounted'
  <2>0. PICK j \in Item : j = Pair(c, event[c])
    BY DEF Pair, Item, IInv, Typed, TypeOK
  <2>1. ASSUME NEW i \in Item, i.event \in consumed'[i.cmd]
        PROVE  i # j /\ i.event \in consumed[i.cmd]
    BY <2>0, <2>1, ItemParts, PairParts DEF TimeOut, GiveBack, IInv, Typed, TypeOK
  <2>2. ASSUME NEW i \in Item, i # j, NEW k \in Keepers, Has(k, i) PROVE Kept(i)'
    <3>1. ~(Is(k, "wait", c))
      BY <2>0, <2>2, ItemParts, PairParts DEF Has, Is
    <3> QED
      BY <2>2, <3>1, TimeOutMoves, KeptThere DEF IInv
  <2>3. UNCHANGED <<seen, ran, lost>>
    BY DEF TimeOut, runtime, tally, ghosts
  <2>4. ASSUME NEW i \in Item, NEW w \in Workflows, i \in seen[w] PROVE Kept(i)'
    BY <2>3, <2>4 DEF Kept
  <2> QED
    BY <2>1, <2>2, <2>3, <2>4, KeptStays DEF IInv, Accounted
<1>3. Apart'
  <2> SUFFICES ASSUME NEW i \in Item, i.event \in Events, i \notin undone', Single(i)
               PROVE  Single(i)'
    BY DEF IInv, Apart, TimeOut, ghosts
  <2>0. PICK j \in Item : j = Pair(c, event[c])
    BY DEF Pair, Item, IInv, Typed, TypeOK
  <2> DEFINE a == [kind |-> "wait", of |-> c]
  <2>1. UNCHANGED <<ran, again>>
    BY DEF TimeOut, tally
  <2>2. a \in Keepers /\ a.kind = "wait" /\ a.of = c
    BY KeepersIn
  <2>3. \A k \in Keepers : Has(k, i)' <=> Has(k, i) /\ ~(Is(k, "wait", c))
    BY TimeOutMoves DEF IInv
  <2>4. CASE i # j
    <3>1. i.event \in consumed[i.cmd] => i.event \in consumed'[i.cmd]
      BY <2>0, <2>4, ItemParts, PairParts DEF TimeOut, GiveBack, IInv, Typed, TypeOK
    <3> QED
      BY <2>1, <2>3, <3>1, SingleKeeps DEF Single
  <2>5. CASE i = j
    <3>1. Has(a, i)
      BY <2>0, <2>2, <2>5, ItemParts, PairParts DEF Has, TimeOut, Holding
    <3>2. i \notin ran /\ \A k \in Keepers : ~Has(k, i)'
      BY <2>2, <2>3, <3>1, NoneOther DEF Is
    <3> QED
      BY <2>1, <2>3, <3>2, SingleKeeps DEF Single
  <2> QED
    BY <2>4, <2>5
<1> QED
  BY <1>1, <1>2, <1>3

LEMMA RunKept ==
  ASSUME IInv, NEW c \in Commands, Run(c)
  PROVE  BagsEmptied' /\ Accounted' /\ Apart'
<1>1. BagsEmptied'
  BY BagsStay DEF IInv, Typed, Run, runtime
<1>2. Accounted'
  <2>0. PICK j \in Item : j = Pair(c, event[c])
    BY DEF Pair, Item, IInv, Typed, TypeOK
  <2>1. UNCHANGED <<consumed, seen, lost>> /\ ran' = ran \cup {j}
    BY <2>0 DEF Run, Counted, triggers, runtime, ghosts
  <2>2. ASSUME NEW i \in Item, NEW k \in Keepers, Has(k, i) PROVE Kept(i)'
    <3>1. CASE i = j
      BY <2>1, <3>1 DEF Kept
    <3>2. CASE i # j
      <4>1. ~(Is(k, "wait", c))
        BY <2>0, <2>2, <3>2, ItemParts, PairParts DEF Has, Is
      <4> QED
        BY <2>2, <4>1, RunMoves, KeptThere DEF IInv
    <3> QED
      BY <3>1, <3>2
  <2>3. ASSUME NEW i \in Item, NEW w \in Workflows, i \in seen[w] PROVE Kept(i)'
    BY <2>1, <2>3 DEF Kept
  <2> QED
    BY <2>1, <2>2, <2>3, KeptStays DEF IInv, Accounted
<1>3. Apart'
  <2> SUFFICES ASSUME NEW i \in Item, i.event \in Events, i \notin undone', Single(i)
               PROVE  Single(i)'
    BY DEF IInv, Apart, Run, ghosts
  <2>0. PICK j \in Item : j = Pair(c, event[c])
    BY DEF Pair, Item, IInv, Typed, TypeOK
  <2> DEFINE a == [kind |-> "wait", of |-> c]
  <2>1. UNCHANGED consumed /\ Counted(j)
    BY <2>0 DEF Run, triggers
  <2>2. a \in Keepers /\ a.kind = "wait" /\ a.of = c
    BY KeepersIn
  <2>3. \A k \in Keepers : Has(k, i)' <=> Has(k, i) /\ ~(Is(k, "wait", c))
    BY RunMoves DEF IInv
  <2>4. CASE i # j
    BY <2>1, <2>3, <2>4, SingleKeeps DEF Single, Counted
  <2>5. CASE i = j
    <3>1. Has(a, i)
      BY <2>0, <2>2, <2>5, ItemParts, PairParts DEF Has, Run
    <3>2. \A k \in Keepers : Has(k, i)' => Has(k, i) /\ ~Is(k, a.kind, a.of)
      BY <2>0, <2>2, <2>3, <2>5
    <3> QED
      BY <2>1, <2>2, <2>5, <3>1, <3>2, SingleRuns
  <2> QED
    BY <2>4, <2>5
<1> QED
  BY <1>1, <1>2, <1>3

LEMMA ServeKept ==
  ASSUME IInv, NEW w \in Workflows, NEW j \in Item, Serve(w, j)
  PROVE  BagsEmptied' /\ Accounted' /\ Apart'
<1>1. BagsEmptied'
  BY BagsStay DEF IInv, Typed, Serve, runtime
<1>2. Accounted'
  <2>1. UNCHANGED <<consumed, seen, lost>> /\ ran' = ran \cup {j}
    BY DEF Serve, Counted, triggers, runtime, ghosts
  <2>2. ASSUME NEW i \in Item, NEW k \in Keepers, Has(k, i) PROVE Kept(i)'
    <3>1. CASE i = j
      BY <2>1, <3>1 DEF Kept
    <3>2. CASE i # j
      <4>1. ~(Is(k, "pend", w) /\ i = j)
        BY <2>2, <3>2, ItemParts, PairParts DEF Has, Is
      <4> QED
        BY <2>2, <4>1, ServeMoves, KeptThere DEF IInv
    <3> QED
      BY <3>1, <3>2
  <2>3. ASSUME NEW i \in Item, NEW v \in Workflows, i \in seen[v] PROVE Kept(i)'
    BY <2>1, <2>3 DEF Kept
  <2> QED
    BY <2>1, <2>2, <2>3, KeptStays DEF IInv, Accounted
<1>3. Apart'
  <2> SUFFICES ASSUME NEW i \in Item, i.event \in Events, i \notin undone', Single(i)
               PROVE  Single(i)'
    BY DEF IInv, Apart, Serve, ghosts
  <2> DEFINE a == [kind |-> "pend", of |-> w]
  <2>1. UNCHANGED consumed /\ Counted(j)
    BY DEF Serve, triggers
  <2>2. a \in Keepers /\ a.kind = "pend" /\ a.of = w
    BY KeepersIn
  <2>3. \A k \in Keepers : Has(k, i)' <=> Has(k, i) /\ ~(Is(k, "pend", w) /\ i = j)
    BY ServeMoves DEF IInv
  <2>4. CASE i # j
    BY <2>1, <2>3, <2>4, SingleKeeps DEF Single, Counted
  <2>5. CASE i = j
    <3>1. Has(a, i)
      BY <2>2, <2>5, ItemParts, PairParts DEF Has, Serve
    <3>2. \A k \in Keepers : Has(k, i)' => Has(k, i) /\ ~Is(k, a.kind, a.of)
      BY <2>2, <2>3, <2>5
    <3> QED
      BY <2>1, <2>2, <2>5, <3>1, <3>2, SingleRuns
  <2> QED
    BY <2>4, <2>5
<1> QED
  BY <1>1, <1>2, <1>3

LEMMA FlushKept ==
  ASSUME IInv, NEW x \in Commands \cup Workflows, Flush(x)
  PROVE  BagsEmptied' /\ Accounted' /\ Apart'
<1>1. BagsEmptied'
  BY DEF IInv, Typed, TypeOK, BagsEmptied, Flush, triggers, runtime
<1>2. Accounted'
  <2>0. PICK l \in Keepers : Is(l, "bag", x)
    BY KeepersIn DEF Is
  <2>1. UNCHANGED <<consumed, seen, ran, lost>>
    BY DEF Flush, triggers, runtime, tally, ghosts
  <2>2. ASSUME NEW i \in Item, NEW k \in Keepers, Has(k, i) PROVE Kept(i)'
    <3>1. CASE ~Is(k, "post", Nobody)
      BY <2>2, <3>1, FlushMoves, KeptThere DEF IInv
    <3>2. CASE Is(k, "post", Nobody)
      <4>1. i \in post
        BY <2>2, <3>2 DEF Has, Is
      <4>2. Has(l, i)'
        BY <2>0, <4>1, FlushMoves DEF IInv
      <4> QED
        BY <4>2, KeptThere
    <3> QED
      BY <3>1, <3>2
  <2>3. ASSUME NEW i \in Item, NEW w \in Workflows, i \in seen[w] PROVE Kept(i)'
    BY <2>1, <2>3 DEF Kept
  <2> QED
    BY <2>1, <2>2, <2>3, KeptStays DEF IInv, Accounted
<1>3. Apart'
  <2> SUFFICES ASSUME NEW i \in Item, i.event \in Events, i \notin undone', Single(i)
               PROVE  Single(i)'
    BY DEF IInv, Apart, Flush, ghosts
  <2> DEFINE a == [kind |-> "post", of |-> Nobody]
  <2>1. UNCHANGED <<consumed, ran, again>>
    BY DEF Flush, triggers, tally
  <2>2. a \in Keepers /\ Is(a, "post", Nobody)
    BY KeepersIn DEF Is
  <2>3. \A k \in Keepers : Has(k, i)' <=> \/ Has(k, i) /\ ~Is(k, "post", Nobody)
                                          \/ Is(k, "bag", x) /\ i \in post
    BY FlushMoves DEF IInv
  <2>4. CASE i \notin post
    BY <2>1, <2>3, <2>4, SingleKeeps DEF Single
  <2>5. CASE i \in post
    <3>1. Has(a, i)
      BY <2>5 DEF Has
    <3>2. \A k \in Keepers : Has(k, i)' => Is(k, "bag", x)
      BY <2>2, <2>3, <3>1 DEF Single, Is
    <3> QED
      BY <2>1, <2>2, <3>1, <3>2, SingleMoves
  <2> QED
    BY <2>4, <2>5
<1> QED
  BY <1>1, <1>2, <1>3

LEMMA AbortKept ==
  ASSUME IInv, NEW w \in Workflows, Abort(w)
  PROVE  BagsEmptied' /\ Accounted' /\ Apart'
<1>1. BagsEmptied'
  BY BagsStay DEF IInv, Typed, Abort
<1>2. Accounted'
  <2>1. UNCHANGED <<consumed, seen, ran>> /\ lost' = lost \cup pending[w]
    BY DEF Abort, triggers, tally
  <2>2. ASSUME NEW i \in Item, NEW k \in Keepers, Has(k, i) PROVE Kept(i)'
    <3>1. CASE ~Is(k, "pend", w)
      BY <2>2, <3>1, AbortMoves, KeptThere DEF IInv
    <3>2. CASE Is(k, "pend", w)
      BY <2>1, <2>2, <3>2 DEF Has, Is, Kept
    <3> QED
      BY <3>1, <3>2
  <2>3. ASSUME NEW i \in Item, NEW v \in Workflows, i \in seen[v] PROVE Kept(i)'
    BY <2>1, <2>3 DEF Kept
  <2> QED
    BY <2>1, <2>2, <2>3, KeptStays DEF IInv, Accounted
<1>3. Apart'
  <2> SUFFICES ASSUME NEW i \in Item, i.event \in Events, i \notin undone', Single(i)
               PROVE  Single(i)'
    BY DEF IInv, Apart, Abort
  <2>1. UNCHANGED <<consumed, ran, again>>
    BY DEF Abort, triggers, tally
  <2>2. \A k \in Keepers : Has(k, i)' => Has(k, i)
    BY AbortMoves DEF IInv
  <2> QED
    BY <2>1, <2>2, SingleKeeps DEF Single
<1> QED
  BY <1>1, <1>2, <1>3

LEMMA CollectKept ==
  ASSUME IInv, NEW w \in Workflows, Collect(w)
  PROVE  BagsEmptied' /\ Accounted' /\ Apart'
<1>1. BagsEmptied'
  BY DEF IInv, Typed, TypeOK, BagsEmptied, Collect, triggers, runtime
<1>2. Accounted'
  <2> DEFINE l == [kind |-> "bag", of |-> w]
  <2>0. l \in Keepers /\ Is(l, "bag", w)
    BY KeepersIn DEF Is
  <2>1. /\ UNCHANGED <<consumed, ran>>
        /\ lost' = lost \cup ((pending[w] \cup deferred[w]) \ bag'[w])
    BY DEF Collect, triggers, tally, IInv, Typed, TypeOK
  <2>2. ASSUME NEW i \in Item, NEW k \in Keepers, Has(k, i) PROVE Kept(i)'
    <3>1. CASE ~Is(k, "pend", w) /\ ~Is(k, "defer", w)
      BY <2>2, <3>1, CollectMoves, KeptThere DEF IInv
    <3>2. CASE Is(k, "pend", w) \/ Is(k, "defer", w)
      <4>1. i \in pending[w] \cup deferred[w]
        BY <2>2, <3>2 DEF Has, Is
      <4>2. CASE i \in bag'[w]
        BY <2>0, <4>2, CollectMoves, KeptThere DEF IInv
      <4>3. CASE i \notin bag'[w]
        BY <2>1, <4>1, <4>3 DEF Kept
      <4> QED
        BY <4>2, <4>3
    <3> QED
      BY <3>1, <3>2
  <2>3. ASSUME NEW i \in Item, NEW v \in Workflows, i \in seen[v] PROVE Kept(i)'
    <3>1. v # w
      BY <2>3 DEF Collect, IInv, BagsEmptied
    <3>2. i \in seen'[v]
      BY <2>3, <3>1 DEF Collect, IInv, Typed, TypeOK
    <3> QED
      BY <3>2 DEF Kept
  <2> QED
    BY <2>1, <2>2, <2>3, KeptStays DEF IInv, Accounted
<1>3. Apart'
  <2> SUFFICES ASSUME NEW i \in Item, i.event \in Events, i \notin undone', Single(i)
               PROVE  Single(i)'
    BY DEF IInv, Apart, Collect
  <2>1. UNCHANGED <<consumed, ran, again>>
    BY DEF Collect, triggers, tally
  <2>2. \A k \in Keepers : Has(k, i)' <=> \/ Has(k, i) /\ ~Is(k, "pend", w) /\ ~Is(k, "defer", w)
                                          \/ Is(k, "bag", w) /\ i \in bag'[w]
    BY CollectMoves DEF IInv
  <2>3. CASE i \notin bag'[w]
    BY <2>1, <2>2, <2>3, SingleKeeps DEF Single
  <2>4. CASE i \in bag'[w]
    <3>1. i \in pending[w] \cup deferred[w]
      BY <2>4 DEF Collect, IInv, Typed, TypeOK
    <3>2. PICK a \in Keepers : Has(a, i) /\ (Is(a, "pend", w) \/ Is(a, "defer", w))
      BY <3>1, KeepersIn DEF Has, Is
    <3>3. \A k \in Keepers : Has(k, i)' => Is(k, "bag", w)
      BY <2>2, <3>2 DEF Single, Is
    <3> QED
      BY <2>1, <3>2, <3>3, SingleMoves
  <2> QED
    BY <2>3, <2>4
<1> QED
  BY <1>1, <1>2, <1>3

LEMMA MergeKept ==
  ASSUME IInv, NEW w \in Workflows, Merge(w)
  PROVE  BagsEmptied' /\ Accounted' /\ Apart'
<1>1. BagsEmptied'
  BY DEF IInv, Typed, TypeOK, BagsEmptied, Merge, triggers, runtime
<1>2. Accounted'
  <2>0. PICK l \in Keepers : Is(l, "post", Nobody)
    BY KeepersIn DEF Is
  <2>1. UNCHANGED <<consumed, ran>> /\ lost \subseteq lost' /\ post \subseteq post' \cup lost'
    BY DEF Merge, triggers, tally
  <2>2. ASSUME NEW i \in Item, i \in seen[w] \cup bag[w] PROVE Kept(i)'
    BY <2>0, <2>2, MergeMoves, KeptThere DEF IInv
  <2>3. ASSUME NEW i \in Item, NEW k \in Keepers, Has(k, i) PROVE Kept(i)'
    <3>1. CASE ~Is(k, "bag", w) /\ ~Is(k, "post", Nobody)
      BY <2>3, <3>1, MergeMoves, KeptThere DEF IInv
    <3>2. CASE Is(k, "bag", w)
      BY <2>2, <2>3, <3>2 DEF Has, Is
    <3>3. CASE Is(k, "post", Nobody)
      <4>1. i \in post
        BY <2>3, <3>3 DEF Has, Is
      <4>2. i \in seen[w] \cup bag[w] \/ i \in lost'
        BY <4>1 DEF Merge
      <4> QED
        BY <2>2, <4>2 DEF Kept
    <3> QED
      BY <3>1, <3>2, <3>3
  <2>4. ASSUME NEW i \in Item, NEW v \in Workflows, i \in seen[v] PROVE Kept(i)'
    <3>1. CASE v = w
      BY <2>2, <2>4, <3>1
    <3>2. CASE v # w
      <4>1. i \in seen'[v]
        BY <2>4, <3>2 DEF Merge, IInv, Typed, TypeOK
      <4> QED
        BY <4>1 DEF Kept
    <3> QED
      BY <3>1, <3>2
  <2> QED
    BY <2>1, <2>3, <2>4, KeptStays DEF IInv, Accounted
<1>3. Apart'
  <2> SUFFICES ASSUME NEW i \in Item, i.event \in Events, i \notin undone', Single(i)
               PROVE  Single(i)'
    BY DEF IInv, Apart, Merge
  <2> DEFINE a == [kind |-> "bag", of |-> w]
             b == [kind |-> "post", of |-> Nobody]
  <2>1. UNCHANGED <<consumed, ran, again>>
    BY DEF Merge, triggers, tally
  <2>2. a \in Keepers /\ Is(a, "bag", w) /\ b \in Keepers /\ Is(b, "post", Nobody)
    BY KeepersIn DEF Is
  <2>3. \A k \in Keepers : Has(k, i)' <=> \/ Has(k, i) /\ ~Is(k, "bag", w) /\ ~Is(k, "post", Nobody)
                                          \/ Is(k, "post", Nobody) /\ i \in seen[w] \cup bag[w]
    BY MergeMoves DEF IInv
  <2>4. CASE i \in bag[w]
    <3>1. Has(a, i)
      BY <2>4 DEF Has
    <3>2. \A k \in Keepers : Has(k, i)' => Is(k, "post", Nobody)
      BY <2>2, <2>3, <3>1 DEF Single, Is
    <3> QED
      BY <2>1, <2>2, <3>1, <3>2, SingleMoves
  <2>5. CASE i \notin bag[w]
    <3>1. i \in seen[w] => i \in post
      BY DEF Merge
    <3>2. \A k \in Keepers : Is(k, "post", Nobody) /\ i \in seen[w] => Has(k, i)
      BY <3>1 DEF Is, Has
    <3>3. \A k \in Keepers : Has(k, i)' => Has(k, i)
      BY <2>3, <2>5, <3>2
    <3> QED
      BY <2>1, <3>3, SingleKeeps DEF Single
  <2> QED
    BY <2>4, <2>5
<1> QED
  BY <1>1, <1>2, <1>3

LEMMA ResubmitKept ==
  ASSUME IInv, NEW x \in Commands \cup Workflows, NEW j \in Item, Resubmit(x, j)
  PROVE  BagsEmptied' /\ Accounted' /\ Apart'
<1>1. BagsEmptied'
  <2>1. CASE Executing(j.cmd)
    BY <2>1 DEF IInv, Typed, TypeOK, BagsEmptied, Resubmit, runtime
  <2>2. CASE ~Executing(j.cmd)
    <3>1. /\ j.cmd \in Commands /\ stage[j.cmd] = "none"
          /\ stage' = [stage EXCEPT ![j.cmd] = "waiting"]
      BY <2>2, ItemParts DEF Resubmit, Executing
    <3>2. bag' = [bag EXCEPT ![x] = @ \ {j}] /\ seen' = seen /\ stage[x] = "flushing"
      BY DEF Resubmit, runtime
    <3> QED
      BY <3>1, <3>2 DEF IInv, Typed, TypeOK, BagsEmptied
  <2> QED
    BY <2>1, <2>2
<1>2. Accounted'
  <2> DEFINE a == [kind |-> "bag", of |-> x]
             b == [kind |-> "wait", of |-> j.cmd]
  <2>0. /\ a \in Keepers /\ Is(a, "bag", x) /\ b \in Keepers /\ Is(b, "wait", j.cmd)
        /\ Has(a, j)
    BY KeepersIn, ItemParts DEF Is, Has, Resubmit
  <2>1. UNCHANGED <<seen, ran, lost>>
    BY DEF Resubmit, runtime, tally, ghosts
  <2>2. ASSUME NEW i \in Item, i.event \in consumed'[i.cmd]
        PROVE  i.event \in consumed[i.cmd] /\ (i = j => ~Executing(j.cmd))
    BY <2>2, ItemParts DEF Resubmit, GiveBack, IInv, Typed, TypeOK
  <2>3. ASSUME NEW i \in Item, i = j => ~Executing(j.cmd), NEW k \in Keepers, Has(k, i)
        PROVE  Kept(i)'
    <3>1. CASE ~(Is(k, "bag", x) /\ i = j)
      BY <2>3, <3>1, ResubmitMoves, KeptThere DEF IInv
    <3>2. CASE Is(k, "bag", x) /\ i = j
      BY <2>0, <2>3, <3>2, ResubmitMoves, KeptThere DEF IInv
    <3> QED
      BY <3>1, <3>2
  <2>4. ASSUME NEW i \in Item, NEW w \in Workflows, i \in seen[w] PROVE Kept(i)'
    BY <2>1, <2>4 DEF Kept
  <2> QED
    BY <2>1, <2>2, <2>3, <2>4, KeptStays DEF IInv, Accounted
<1>3. Apart'
  <2> SUFFICES ASSUME NEW i \in Item, i.event \in Events, i \notin undone', Single(i)
               PROVE  Single(i)'
    BY DEF IInv, Apart, Resubmit, ghosts
  <2> DEFINE a == [kind |-> "bag", of |-> x]
             b == [kind |-> "wait", of |-> j.cmd]
  <2>0. /\ a \in Keepers /\ Is(a, "bag", x) /\ b \in Keepers /\ Is(b, "wait", j.cmd)
        /\ Has(a, j)
    BY KeepersIn, ItemParts DEF Is, Has, Resubmit
  <2>1. UNCHANGED <<ran, again>>
    BY DEF Resubmit, tally
  <2>2. \A k \in Keepers : Has(k, i)' <=> \/ Has(k, i) /\ ~(Is(k, "bag", x) /\ i = j)
                                          \/ i = j /\ ~Executing(j.cmd) /\ Is(k, "wait", j.cmd)
    BY ResubmitMoves DEF IInv
  <2>3. CASE i # j
    <3>1. i.event \in consumed[i.cmd] => i.event \in consumed'[i.cmd]
      BY <2>3, ItemParts DEF Resubmit, GiveBack, IInv, Typed, TypeOK
    <3> QED
      BY <2>1, <2>2, <2>3, <3>1, SingleKeeps DEF Single
  <2>4. CASE i = j /\ Executing(j.cmd)
    <3>1. i \notin ran /\ \A k \in Keepers : ~Has(k, i)'
      BY <2>0, <2>2, <2>4, NoneOther DEF Is
    <3> QED
      BY <2>1, <2>2, <3>1, SingleKeeps DEF Single
  <2>5. CASE i = j /\ ~Executing(j.cmd)
    <3>1. consumed' = consumed
      BY <2>5 DEF Resubmit
    <3>2. \A k \in Keepers : Has(k, i)' => Is(k, "wait", j.cmd)
      BY <2>0, <2>2, <2>5 DEF Single, Is
    <3> QED
      BY <2>0, <2>1, <2>5, <3>1, <3>2, SingleMoves
  <2> QED
    BY <2>3, <2>4, <2>5
<1> QED
  BY <1>1, <1>2, <1>3

-----------------------------------------------------------------------------
(* The theorems.                                                           *)

LEMMA InitInv == Init => IInv
<1> SUFFICES ASSUME Init PROVE IInv
  OBVIOUS
<1>1. BagsEmptied /\ Accounted
  BY ItemParts DEF Init, BagsEmptied, Accounted
<1>2. ASSUME NEW i \in Item, i.event \in Events PROVE Single(i)
  <2>1. \A k \in Keepers : ~Has(k, i)
    BY <1>2, KeeperKinds, ItemParts, NameAssumption, IdleType DEF Init, Has, Holding
  <2> QED
    BY <2>1, ItemParts DEF Init, Single
<1> QED
  BY <1>1, <1>2, InitTyped DEF IInv, Apart

LEMMA StutterKept == IInv /\ UNCHANGED vars => BagsEmptied' /\ Accounted' /\ Apart'
<1> SUFFICES ASSUME IInv, UNCHANGED vars PROVE BagsEmptied' /\ Accounted' /\ Apart'
  OBVIOUS
<1>1. BagsEmptied'
  BY DEF IInv, BagsEmptied, vars
<1>2. \A k \in Keepers, i \in Item : Has(k, i)' <=> Has(k, i)
  BY DEF Has, vars
<1> QED
  BY <1>1, <1>2, Still DEF IInv, vars

LEMMA NextInv == IInv /\ [Next]_vars => IInv'
<1> SUFFICES ASSUME IInv, [Next]_vars PROVE BagsEmptied' /\ Accounted' /\ Apart'
  BY NextTyped DEF IInv
<1> DEFINE G == BagsEmptied' /\ Accounted' /\ Apart'
<1>0. CASE UNCHANGED vars
  BY <1>0, StutterKept
<1>1. ASSUME NEW t \in Checkers, Check(t) PROVE G
  BY <1>1, TriggerKept, TakeKept DEF Check, Threads
<1>2. ASSUME NEW t \in Listeners, Listen(t) PROVE G
  BY <1>2, ArriveKept, MatchKept, RouteKept DEF Listen, Threads
<1>3. ASSUME NEW t \in Threads, Dispatch(t) PROVE G
  BY <1>3, AimKept, AppendKept, RaiseKept, SubmitKept, RefusedKept, UndoKept DEF Dispatch
<1>4. ASSUME NEW x \in Commands \cup Workflows, Pass(x) PROVE G
  BY <1>4, ReleaseKept, FlushKept, FlushedKept, ResubmitKept DEF Pass
<1>5. ASSUME NEW c \in Commands, Runner(c) PROVE G
  BY <1>5, <1>4, RunKept, TimeOutKept, EndKept DEF Runner
<1>6. ASSUME NEW w \in Workflows, Workflow(w) PROVE G
  BY <1>6, <1>4, BeginKept, AbortKept, ResumeKept, CollectKept, MergeKept, ServeKept,
     FinishKept DEF Workflow, Close
<1> QED
  BY <1>0, <1>1, <1>2, <1>3, <1>5, <1>6 DEF Next

\* No refusal, timeout, flush or merge loses a pair whose event is used up:
\* it is with somebody who will act on it, or run, or among the drops that
\* the invariant names.
THEOREM NothingDropped == Spec => []EventAccounted
<1>1. Spec => []IInv
  BY InitInv, NextInv, PTL DEF Spec
<1>2. IInv => EventAccounted
  BY AccountedSame DEF IInv, Typed
<1> QED
  BY <1>1, <1>2, PTL

\* A pair is never in two places at once, so however threads, workflow and
\* flush overlap, a command runs once for an event, the named exceptions apart.
THEOREM RunOnce == Spec => []RunsOnce
<1>1. Spec => []IInv
  BY InitInv, NextInv, PTL DEF Spec
<1>2. IInv => RunsOnce
  <2> SUFFICES ASSUME IInv, NEW i \in again, i.event # NoEvent PROVE i \in undone
    BY DEF RunsOnce, IInv, Typed, TypeOK
  <2>1. i \in Item /\ i.event \in Events
    BY ItemParts DEF IInv, Typed, TypeOK
  <2> QED
    BY <2>1 DEF IInv, Apart, Single
<1> QED
  BY <1>1, <1>2, PTL
=============================================================================
