----------------------------- MODULE PromptSend -----------------------------
(***************************************************************************)
(* How a workflow brings a prompt to a ChatGPT tab: it fills the composer, *)
(* clicks send and waits for the answer (app/core/browser/workflow.py and  *)
(* the executor under app/core/workflow).  Before the fill, before the     *)
(* click and before a retry the rate-limit guard looks at the page and at  *)
(* a cooldown that all tabs share; a command may interrupt the workflow    *)
(* between any two steps, a client may cancel it.                          *)
(*                                                                         *)
(* Every sender has a page of its own, and a network listener that tells   *)
(* whether a stream was seen after the click.  What the monitors make of   *)
(* the answer, and how a text is typed, are left out.                      *)
(***************************************************************************)
EXTENDS Naturals, Sequences, FiniteSets

CONSTANTS Senders,    (* workflows, each on its own ChatGPT tab               *)
          Starts,     (* kinds of senders and their pages to start from       *)
          Backoff,    (* _BACKOFF_SECONDS, in ticks                           *)
          Window,     (* ticks after which a hit is forgotten (600 s)         *)
          MaxRetries, (* max_retry_count, or the clicks that fit its deadline *)
          MaxEvents   (* bound: interrupts, cancellations, changes of a page, *)
                      (* faults of the browser                                *)

Kinds == [stealth : BOOLEAN, images : BOOLEAN]

(* What a tab shows when a workflow gets it: nothing was sent of its prompt. *)
FirstPages ==
  [surface   : {"open", "limited"},         (* or blocked: login, quota       *)
   composer  : {"empty", "other"},          (* or own: the prompt             *)
   indicator : {"none", "old", "stray"},    (* or own: its answer             *)
   taken     : {0}]                         (* messages taken from the sender *)

ASSUME SendAssumption ==
  /\ Starts \subseteq Kinds \X FirstPages
  /\ Backoff \in Seq(Nat) /\ Backoff # <<>>
  /\ \A i, j \in DOMAIN Backoff : i <= j => Backoff[i] <= Backoff[j]
  /\ {Window, MaxRetries, MaxEvents} \subseteq Nat

VARIABLES
  kind,       (* stealth mode?  does the request carry images?              *)
  sender,     (* where each workflow is, and what its executor remembers    *)
  page,       (* what each tab shows                                        *)
  limit,      (* the guard's shared state: cooldown left, hits, age of hit  *)
  interrupt,  (* is a command pending in the workflow's runtime?            *)
  cancelled,  (* was the request cancelled?                                 *)
  events,     (* how many events of the bound have happened                 *)
  excuse      (* history: what each sender was not told, see the properties *)

vars == <<kind, sender, page, limit, interrupt, cancelled, events, excuse>>

Min2(a, b) == IF a < b THEN a ELSE b
Max2(a, b) == IF a > b THEN a ELSE b

Longest == Backoff[Len(Backoff)]

Init ==
  /\ \E start \in [Senders -> Starts] :
       /\ kind = [t \in Senders |-> start[t][1]]
       /\ page = [t \in Senders |-> start[t][2]]
  /\ sender = [t \in Senders |->
       [step |-> "fill", at |-> "begin",
        timer |-> 0,           (* ticks to the deadline of the cooldown wait  *)
        again |-> FALSE,       (* in the guard's second round?                *)
        before |-> FALSE,      (* was there a text before the click?          *)
        noted |-> FALSE,       (* _last_fill_text_sha256 is the prompt's      *)
        dispatched |-> FALSE,  (* _last_send_dispatched_since_fill            *)
        retries |-> 0,
        listening |-> FALSE,   (* does its network listener run?              *)
        heard |-> FALSE,       (* the listener holds a stream of an old turn  *)
        confirmed |-> FALSE]]  (* history: the send was taken for successful  *)
  /\ limit = [left |-> 0, hits |-> 0, age |-> Window + 1]
  /\ interrupt = [t \in Senders |-> FALSE]
  /\ cancelled = [t \in Senders |-> FALSE]
  /\ events = 0
  /\ excuse = [t \in Senders |-> IF page[t].indicator = "stray" THEN {"shown"} ELSE {}]

(* An event or a fault of the bound.                                        *)
Event == events < MaxEvents /\ events' = events + 1

(* _combined_stop_checker: what _check_cancelled tells the executor.        *)
Stopped(t) == cancelled[t] \/ interrupt[t]

-----------------------------------------------------------------------------
(* How a step ends.  s and p are the sender and its page at the end.        *)

(* Mutant: a workflow that was stopped leaves the composer as it is.        *)
ClearedUnlessStopped(t, s, p) ==
  IF ~Stopped(t) /\ ~s.dispatched /\ s.noted /\ ~kind[t].images /\ p.composer = "own"
  THEN [p EXCEPT !.composer = "empty"]
  ELSE p

(* _clear_owned_unsent_composer, at the end of a workflow: only a prompt    *)
(* that was noted, is not sent, has no images and is still what one reads.  *)
Cleared(t, s, p) ==
  IF ~s.dispatched /\ s.noted /\ ~kind[t].images /\ p.composer = "own"
  THEN [p EXCEPT !.composer = "empty"]
  ELSE p

WorkflowEnds(t, s, p) ==
  /\ sender' = [sender EXCEPT ![t] = [s EXCEPT !.at = "over"]]
  /\ page' = [page EXCEPT ![t] = Cleared(t, s, p)]

AtStep(t, s, p, step) ==
  /\ sender' = [sender EXCEPT ![t] = [s EXCEPT !.step = step, !.at = "begin"]]
  /\ page' = [page EXCEPT ![t] = p]

(* execute_step returned: a pending command is handled before the next step *)
(* (a step that listens is repeated), a cancelled workflow ends.            *)
StepReturns(t, s, p) ==
  \/ /\ interrupt[t]
     /\ AtStep(t, s, p, IF s.step = "fill" THEN "send" ELSE "wait")
  \/ /\ ~interrupt[t]
     /\ cancelled[t] \/ s.step = "wait"
     /\ WorkflowEnds(t, s, p)
  \/ /\ ~Stopped(t)
     /\ s.step # "wait"
     /\ AtStep(t, s, p, IF s.step = "fill" THEN "send" ELSE "wait")

(* A WorkflowError: suppressed when the executor was stopped, else it ends  *)
(* the workflow.                                                            *)
StepRaises(t, s, p) ==
  IF Stopped(t) THEN StepReturns(t, s, p) ELSE WorkflowEnds(t, s, p)

Goes(t, s, p) ==
  /\ sender' = [sender EXCEPT ![t] = s]
  /\ page' = [page EXCEPT ![t] = p]

-----------------------------------------------------------------------------
(* The top of the workflow's loop.                                          *)

(* handle_pending_workflow_interrupts runs the command.  It may abort the   *)
(* workflow; else the listener is started, or kept with what it holds, and  *)
(* if the page generates the workflow goes on to the step that listens.     *)
HandleInterrupt(t) ==
  /\ sender[t].at = "begin"
  /\ interrupt[t]
  /\ interrupt' = [interrupt EXCEPT ![t] = FALSE]
  /\ \/ WorkflowEnds(t, sender[t], page[t])
     \/ AtStep(t, [sender[t] EXCEPT !.listening = TRUE], page[t],
               IF page[t].indicator = "none" THEN sender[t].step ELSE "wait")
  /\ UNCHANGED <<kind, limit, cancelled, events, excuse>>

NoticeCancel(t) ==
  /\ sender[t].at = "begin"
  /\ ~interrupt[t] /\ cancelled[t]
  /\ WorkflowEnds(t, sender[t], page[t])
  /\ UNCHANGED <<kind, limit, interrupt, cancelled, events, excuse>>

Listen(t) ==
  /\ sender[t].at = "begin"
  /\ ~Stopped(t)
  /\ sender[t].step = "wait"
  /\ Goes(t, [sender[t] EXCEPT !.at = "waiting"], page[t])
  /\ UNCHANGED <<kind, limit, interrupt, cancelled, events, excuse>>

(* Mutant: the cooldown of the last hit alone, without the back-off.        *)
RemainingOfHit == IF limit.age < Backoff[1] THEN Backoff[1] - limit.age ELSE 0

(* rate_limit_status *)
Remaining == limit.left

(* The fill or the send step starts with the guard, which does nothing on a *)
(* tab whose address it cannot read.  The send step has started the network *)
(* listener and read the length of the composer's text before.              *)
EnterGuard(t) ==
  LET s == [sender[t] EXCEPT !.again = FALSE, !.before = page[t].composer # "empty",
                             !.listening = @ \/ sender[t].step = "send"] IN
  /\ sender[t].at = "begin"
  /\ ~Stopped(t)
  /\ sender[t].step # "wait"
  /\ \/ /\ Goes(t, [s EXCEPT !.at = "cooling", !.timer = Remaining], page[t])
        /\ excuse' = [excuse EXCEPT ![t] = @ \ {"newer", "unread"}]
        /\ UNCHANGED events
     \/ /\ Event
        /\ Goes(t, [s EXCEPT !.at = "idling"], page[t])
        /\ excuse' = [excuse EXCEPT ![t] = @ \cup {"unread"}]
  /\ UNCHANGED <<kind, limit, interrupt, cancelled>>

-----------------------------------------------------------------------------
(* The guard.                                                               *)

(* _record_rate_limit: one more hit within the window backs off longer, and *)
(* no hit shortens a cooldown.                                              *)
Recorded ==
  LET hits == IF limit.age > Window THEN 1 ELSE Min2(limit.hits + 1, Len(Backoff)) IN
  [left |-> Max2(limit.left, Backoff[hits]), hits |-> hits, age |-> 0]

(* Those that looked at the cooldown before do not learn of the new one.    *)
Untold(t) ==
  [u \in Senders |-> IF u = t THEN excuse[u] \ {"newer"} ELSE excuse[u] \cup {"newer"}]

(* _wait_existing_cooldown: until the deadline computed at its start.  Then *)
(* a look at the page: the first time one more cooldown is waited for when  *)
(* it shows the rate limit (its dialog is dismissed, which may help) and    *)
(* any other blocker ends the turn; the second time only the rate limit     *)
(* does.                                                                    *)
Guard(t) ==
  LET s == sender[t] IN
  /\ s.at = "cooling"
  /\ \/ Stopped(t) /\ StepReturns(t, s, page[t]) /\ UNCHANGED <<limit, excuse>>
     \/ /\ ~Stopped(t) /\ s.timer = 0
        /\ page[t].surface = "limited" /\ ~s.again
        /\ limit' = Recorded
        /\ excuse' = Untold(t)
        /\ \E surface \in {"open", "limited"} :
             Goes(t, [s EXCEPT !.again = TRUE, !.timer = Recorded.left],
                  [page[t] EXCEPT !.surface = surface])
     \/ /\ ~Stopped(t) /\ s.timer = 0
        /\ page[t].surface = IF s.again THEN "limited" ELSE "blocked"
        /\ WorkflowEnds(t, s, page[t])
        /\ UNCHANGED <<limit, excuse>>
     \/ /\ ~Stopped(t) /\ s.timer = 0
        /\ page[t].surface \in IF s.again THEN {"open", "blocked"} ELSE {"open"}
        /\ Goes(t, [s EXCEPT !.at = "idling"], page[t])
        /\ UNCHANGED <<limit, excuse>>
  /\ UNCHANGED <<kind, interrupt, cancelled, events>>

-----------------------------------------------------------------------------
(* Idle wait, fill and click.                                               *)

(* _chatgpt_composer_send_ready: a send button that is ready lets the       *)
(* sender ignore an indicator elsewhere on the page.                        *)
LooksIdle(p) ==
  \/ p.indicator = "none"
  \/ (p.indicator = "stray" /\ p.composer # "empty")

(* Mutant: the wait has no timeout.                                         *)
IdleOverUntimed(t) ==
  /\ sender[t].at = "idling"
  /\ \/ /\ LooksIdle(page[t])
        /\ Goes(t, [sender[t] EXCEPT !.at = "acting"], page[t])
     \/ /\ ~LooksIdle(page[t]) /\ Stopped(t)
        /\ StepRaises(t, sender[t], page[t])
  /\ UNCHANGED <<kind, limit, interrupt, cancelled, events, excuse>>

(* _wait_for_send_idle_before_action; the wait has a timeout.               *)
IdleOver(t) ==
  /\ sender[t].at = "idling"
  /\ \/ /\ LooksIdle(page[t])
        /\ Goes(t, [sender[t] EXCEPT !.at = "acting"], page[t])
     \/ /\ ~LooksIdle(page[t])
        /\ StepRaises(t, sender[t], page[t])
  /\ UNCHANGED <<kind, limit, interrupt, cancelled, events, excuse>>

(* _execute_fill: the fill is noted after the images were pasted; a fill    *)
(* that fails may leave its text behind.                                    *)
Fill(t) ==
  /\ sender[t].at = "acting" /\ sender[t].step = "fill"
  /\ \/ Stopped(t) /\ StepReturns(t, sender[t], page[t]) /\ UNCHANGED events
     \/ /\ ~Stopped(t)
        /\ StepReturns(t, [sender[t] EXCEPT !.noted = TRUE, !.dispatched = FALSE],
                       [page[t] EXCEPT !.composer = "own"])
        /\ UNCHANGED events
     \/ /\ ~Stopped(t)
        /\ Event
        /\ \E text \in {page[t].composer, "own"} :
             StepRaises(t, sender[t], [page[t] EXCEPT !.composer = text])
  /\ UNCHANGED <<kind, limit, interrupt, cancelled, excuse>>

(* What a click or an Enter may do to a page: get lost, or send what the    *)
(* composer holds; the page may show that later.                            *)
Pressed(p) ==
  {p} \cup
  IF p.composer = "empty" \/ p.indicator = "old" THEN {}
  ELSE {[p EXCEPT !.taken = @ + 1, !.composer = text, !.indicator = shown] :
          text \in {"empty", p.composer}, shown \in {"own", p.indicator}}

(* The first click.  A button that is a stop button is not clicked; a click *)
(* that raises is followed by an Enter.                                     *)
Click(t) ==
  LET sent == [sender[t] EXCEPT !.dispatched = TRUE, !.at = "observing", !.retries = 0] IN
  /\ sender[t].at = "acting" /\ sender[t].step = "send"
  /\ \/ /\ Stopped(t) \/ page[t].indicator = "old"
        /\ StepRaises(t, sender[t], page[t])
        /\ UNCHANGED <<events, excuse>>
     \/ /\ ~Stopped(t) /\ page[t].indicator # "old"
        /\ \E p \in Pressed(page[t]) : Goes(t, sent, p)
        /\ UNCHANGED <<events, excuse>>
     \/ /\ ~Stopped(t) /\ page[t].indicator # "old"
        /\ Event
        /\ \E p \in Pressed(page[t]) : \E q \in Pressed(p) : Goes(t, sent, q)
        /\ excuse' = [excuse EXCEPT ![t] = @ \cup {"raised"}]
  /\ UNCHANGED <<kind, limit, interrupt, cancelled>>

-----------------------------------------------------------------------------
(* Confirmation and retry.                                                  *)

(* Mutant: a composer that was empty all along passes for a sent one.       *)
LooksSentEmpty(s, p, reported) ==
  reported \/ p.composer = "empty" \/ p.indicator # "none"

(* What confirms a send: a stream the listener reports, the text that was   *)
(* there is gone (_is_send_success), or something on the page generates     *)
(* (_is_send_post_click_confirmed).                                         *)
LooksSent(s, p, reported) ==
  \/ reported
  \/ s.before /\ p.composer = "empty"
  \/ p.indicator # "none"

(* poll_send_activity: more streams run than when mark_send_attempt counted *)
(* them before the click, or the packet of one has come.  That call takes   *)
(* no packet out of the listener, so a stream of an old turn is reported as *)
(* well, at the latest when it is over.  The poll may fail or be too early. *)
Reports(s, p) == IF s.heard \/ p.taken > 0 THEN BOOLEAN ELSE {FALSE}

SeemsSent(s, p) == \E reported \in Reports(s, p) : LooksSent(s, p, reported)
SeemsUnsent(s, p) == \E reported \in Reports(s, p) : ~LooksSent(s, p, reported)

(* _observe_send_without_retry and what follows it.  A send with images may *)
(* be left unconfirmed, a stealth send without images is an error.          *)
Observe(t) ==
  LET s == sender[t] IN
  /\ s.at = "observing"
  /\ \/ Stopped(t) /\ StepReturns(t, s, page[t])
     \/ /\ SeemsSent(s, page[t])
        /\ StepReturns(t, [s EXCEPT !.confirmed = TRUE], page[t])
     \/ /\ ~Stopped(t) /\ SeemsUnsent(s, page[t])
        /\ kind[t] = [stealth |-> TRUE, images |-> FALSE]
        /\ StepRaises(t, s, page[t])
     \/ /\ ~Stopped(t) /\ SeemsUnsent(s, page[t])
        /\ kind[t] # [stealth |-> TRUE, images |-> FALSE]
        /\ s.retries < MaxRetries
        /\ Goes(t, [s EXCEPT !.at = "retrying"], page[t])
     \/ /\ ~Stopped(t) /\ SeemsUnsent(s, page[t])
        /\ kind[t] = [stealth |-> FALSE, images |-> TRUE] \/ s.retries = MaxRetries
        /\ StepReturns(t, s, page[t])
  /\ UNCHANGED <<kind, limit, interrupt, cancelled, events, excuse>>

(* The wait before a retry, with a last look at the page and the listener.  *)
RetryNotNeeded(t) ==
  /\ sender[t].at = "retrying"
  /\ \/ Stopped(t) /\ StepReturns(t, sender[t], page[t])
     \/ /\ SeemsSent(sender[t], page[t])
        /\ StepReturns(t, [sender[t] EXCEPT !.confirmed = TRUE], page[t])
  /\ UNCHANGED <<kind, limit, interrupt, cancelled, events, excuse>>

(* guard_before_retry: a send that may have been taken is never repeated.   *)
SuppressRetry(t) ==
  /\ sender[t].at = "retrying"
  /\ ~Stopped(t) /\ SeemsUnsent(sender[t], page[t])
  /\ ~kind[t].stealth
  /\ StepRaises(t, sender[t], page[t])
  /\ IF page[t].surface = "limited"
     THEN limit' = Recorded /\ excuse' = Untold(t)
     ELSE UNCHANGED <<limit, excuse>>
  /\ UNCHANGED <<kind, interrupt, cancelled, events>>

(* Mutant: the retry clicks without asking the guard.                       *)
ClickAgainUnguarded(t) ==
  /\ sender[t].at = "retrying"
  /\ ~Stopped(t) /\ SeemsUnsent(sender[t], page[t])
  /\ \E p \in Pressed(page[t]) :
       Goes(t, [sender[t] EXCEPT !.at = "observing", !.retries = @ + 1], p)
  /\ UNCHANGED <<kind, limit, interrupt, cancelled, events, excuse>>

(* The stealth path with images clicks again without the guard; elsewhere   *)
(* the guard does nothing when it cannot read the tab's address.            *)
ClickAgain(t) ==
  /\ sender[t].at = "retrying"
  /\ ~Stopped(t) /\ SeemsUnsent(sender[t], page[t])
  /\ \E p \in Pressed(page[t]) :
       Goes(t, [sender[t] EXCEPT !.at = "observing", !.retries = @ + 1], p)
  /\ IF kind[t].stealth
     THEN UNCHANGED <<events, excuse>>
     ELSE Event /\ excuse' = [excuse EXCEPT ![t] = @ \cup {"resent"}]
  /\ UNCHANGED <<kind, limit, interrupt, cancelled>>

(* STREAM_WAIT ends with the answer, with a timeout of its own or when the  *)
(* executor is stopped.                                                     *)
Waited(t) ==
  /\ sender[t].at = "waiting"
  /\ StepReturns(t, sender[t], page[t])
  /\ UNCHANGED <<kind, limit, interrupt, cancelled, events, excuse>>

-----------------------------------------------------------------------------
(* Commands, clients, pages and time.                                       *)

(* _queue_workflow_interrupt, on the runtime of a workflow that is active.  *)
QueueInterrupt(t) ==
  /\ sender[t].at # "over" /\ ~interrupt[t]
  /\ Event
  /\ interrupt' = [interrupt EXCEPT ![t] = TRUE]
  /\ UNCHANGED <<kind, sender, page, limit, cancelled, excuse>>

Cancel(t) ==
  /\ sender[t].at # "over" /\ ~cancelled[t]
  /\ Event
  /\ cancelled' = [cancelled EXCEPT ![t] = TRUE]
  /\ UNCHANGED <<kind, sender, page, limit, interrupt, excuse>>

(* The page gets or loses a blocker, somebody edits the composer, or an     *)
(* indicator that is not the prompt's shows.                                *)
PageChanges(t) ==
  /\ sender[t].at # "over"
  /\ Event
  /\ \/ /\ \E surface \in {"open", "limited", "blocked"} \ {page[t].surface} :
             page' = [page EXCEPT ![t].surface = surface]
        /\ UNCHANGED excuse
     \/ /\ \E text \in {"empty", "other"} \ {page[t].composer} :
             page' = [page EXCEPT ![t].composer = text]
        /\ excuse' = [excuse EXCEPT ![t] = @ \cup {"touched"}]
     \/ /\ page[t].indicator = "none"
        /\ \E shown \in {"old", "stray"} : page' = [page EXCEPT ![t].indicator = shown]
        /\ excuse' = [excuse EXCEPT ![t] = @ \cup {"shown"}]
  /\ UNCHANGED <<kind, sender, limit, interrupt, cancelled>>

(* The page catches up with a send, or an indicator goes out.               *)
PageSettles(t) ==
  /\ sender[t].at # "over"
  /\ \/ /\ page[t].taken > 0 /\ page[t].composer = "own"
        /\ page' = [page EXCEPT ![t].composer = "empty", ![t].indicator = "own"]
     \/ /\ page[t].indicator # "none"
        /\ page' = [page EXCEPT ![t].indicator = "none"]
  /\ UNCHANGED <<kind, sender, limit, interrupt, cancelled, events, excuse>>

(* The listener sees a stream that is not the sender's: an answer of an old *)
(* turn is continued by another stream, or one that ran comes to its end.   *)
OldStreamHeard(t) ==
  /\ sender[t].at # "over" /\ sender[t].step # "wait"
  /\ sender[t].listening /\ ~sender[t].heard
  /\ Event
  /\ sender' = [sender EXCEPT ![t].heard = TRUE]
  /\ UNCHANGED <<kind, page, limit, interrupt, cancelled, excuse>>

(* Another process records a rate limit in the state file of both.          *)
RecordElsewhere ==
  /\ Event
  /\ limit' = Recorded
  /\ excuse' = [t \in Senders |-> excuse[t] \cup {"newer"}]
  /\ UNCHANGED <<kind, sender, page, interrupt, cancelled>>

Tick ==
  /\ limit.left > 0 \/ limit.age <= Window \/ \E t \in Senders : sender[t].timer > 0
  /\ limit' = [limit EXCEPT !.left = IF @ = 0 THEN 0 ELSE @ - 1,
                            !.age = Min2(@ + 1, Window + 1)]
  /\ sender' = [t \in Senders |->
       [sender[t] EXCEPT !.timer = IF @ = 0 THEN 0 ELSE @ - 1]]
  /\ UNCHANGED <<kind, page, interrupt, cancelled, events, excuse>>

WorkflowStep(t) ==
  \/ HandleInterrupt(t) \/ NoticeCancel(t) \/ Listen(t) \/ EnterGuard(t)
  \/ Guard(t) \/ IdleOver(t) \/ Fill(t) \/ Click(t)
  \/ Observe(t) \/ RetryNotNeeded(t) \/ SuppressRetry(t) \/ ClickAgain(t)
  \/ Waited(t)

Next ==
  \/ \E t \in Senders : \/ WorkflowStep(t)
                        \/ QueueInterrupt(t) \/ Cancel(t)
                        \/ PageChanges(t) \/ PageSettles(t) \/ OldStreamHeard(t)
  \/ RecordElsewhere
  \/ Tick

(* Time passes and every workflow's thread runs on; nothing is assumed of   *)
(* the pages, the commands and the clients.                                 *)
Fairness == WF_vars(Tick) /\ \A t \in Senders : WF_vars(WorkflowStep(t))

Spec == Init /\ [][Next]_vars /\ Fairness

-----------------------------------------------------------------------------
(* Properties.                                                              *)

Sender ==
  [step : {"fill", "send", "wait"},
   at : {"begin", "cooling", "idling", "acting", "observing", "retrying",
         "waiting", "over"},
   timer : 0..Longest, again : BOOLEAN, before : BOOLEAN, noted : BOOLEAN,
   dispatched : BOOLEAN, retries : 0..MaxRetries,
   listening : BOOLEAN, heard : BOOLEAN, confirmed : BOOLEAN]

Page ==
  [surface : {"open", "limited", "blocked"}, composer : {"empty", "own", "other"},
   indicator : {"none", "old", "stray", "own"}, taken : 0..(MaxRetries + 2)]

Excuses == {"newer", "unread", "touched", "shown", "raised", "resent"}

(* The types; a deadline is never further than the longest backoff.         *)
TypeOK ==
  /\ kind \in [Senders -> Kinds]
  /\ sender \in [Senders -> Sender]
  /\ page \in [Senders -> Page]
  /\ limit \in [left : 0..Longest, hits : 0..Len(Backoff), age : 0..(Window + 1)]
  /\ interrupt \in [Senders -> BOOLEAN]
  /\ cancelled \in [Senders -> BOOLEAN]
  /\ events \in 0..MaxEvents
  /\ excuse \in [Senders -> SUBSET Excuses]

(* ChatGPT takes at most one message of a turn, whatever the page shows of  *)
(* the send and whenever the workflow is interrupted (guard_before_retry,   *)
(* "never blindly resend"): except on the stealth path with images, when a  *)
(* click raised and an Enter followed it, and when the retry's guard could  *)
(* not read the tab's address.                                              *)
SentOnce ==
  \A t \in Senders :
    \/ page[t].taken <= 1
    \/ kind[t] = [stealth |-> TRUE, images |-> TRUE]
    \/ excuse[t] \cap {"raised", "resent"} # {}

(* A send that is taken for successful did send what the composer held: a   *)
(* composer that was empty all along, or an indicator the idle wait saw,    *)
(* never confirms it.  The code cannot tell when somebody else empties the  *)
(* composer, when an indicator of somebody else shows after the idle wait,  *)
(* or when the listener saw a stream of an old turn before the send was     *)
(* taken for successful: its baseline leaves the packets it holds (mark_    *)
(* send_attempt), and any that fits the pattern confirms.                   *)
ConfirmedIsSent ==
  \A t \in Senders :
    sender[t].confirmed =>
      \/ page[t].taken > 0
      \/ sender[t].heard
      \/ excuse[t] \cap {"touched", "shown"} # {}

(* A workflow that ends without sending leaves nothing of its prompt in the *)
(* composer that the next turn of this tab will find, unless the prompt has *)
(* images or its fill failed: whatever ends the workflow, a cancellation, a *)
(* command, a blocked send or the guard.                                    *)
ComposerReturned ==
  \A t \in Senders :
    (/\ sender[t].at = "over"
     /\ sender[t].noted /\ ~sender[t].dispatched
     /\ ~kind[t].images) => page[t].composer # "own"

(* No prompt is sent while the shared cooldown runs, unless another tab     *)
(* started it after this one had looked, or the guard was skipped because   *)
(* it could not read the tab's address.                                     *)
CooldownIsSeen ==
  [][\A t \in Senders :
       (~sender[t].dispatched /\ sender'[t].dispatched /\ limit.left > 0)
         => excuse[t] \cap {"newer", "unread"} # {}]_vars

(* Every workflow ends, however long other tabs extend the cooldown and     *)
(* whatever the page keeps showing: each of its waits has a deadline.       *)
SendEnds == \A t \in Senders : <>(sender[t].at = "over")

(* "A prompt that was filled but never dispatched must not fall through to  *)
(* later stream-monitor steps" (app/core/browser/workflow.py:160): the step *)
(* that waits for an answer only runs for a prompt that was sent.           *)
WaitsForSent ==
  \A t \in Senders :
    sender[t].at = "waiting" /\ sender[t].noted => sender[t].dispatched
=============================================================================
