--------------------------- MODULE RequestManager ---------------------------
(***************************************************************************)
(* The life of API requests: the RequestContext of each one, the           *)
(* RequestManager that tracks them (app/services/request_manager.py), the  *)
(* coroutine that serves one (execute_chatgpt_nonstream) with its worker   *)
(* thread (request_lifecycle.py), and the request history.                 *)
(*                                                                         *)
(* A block under RequestContext._lock is one action.  The clean-up of old  *)
(* requests holds the manager's lock but looks at a request and marks it   *)
(* in two blocks of the request's lock.  Writing history holds a lock of   *)
(* the request (_history_append_lock) over five blocks; a response may be  *)
(* captured between any two of them.                                       *)
(***************************************************************************)
EXTENDS Integers, Sequences, FiniteSets

CONSTANTS Requests,    (* request ids                                        *)
          Sweeper,     (* the zombie sweep thread                            *)
          Nobody,      (* no request, no thread                              *)
          Disturbed,   (* those that other threads cancel or report about    *)
          MaxTracked,  (* RequestManager._max_history                        *)
          MaxRecords,  (* REQUEST_MONITOR_MAX_RECORDS                        *)
          MaxTokens    (* bound: tokens of a response                        *)

ASSUME RequestAssumption ==
  /\ Sweeper \notin Requests
  /\ Nobody \notin Requests \cup {Sweeper}
  /\ Disturbed \subseteq Requests
  /\ MaxTracked \in Nat
  /\ MaxRecords \in Nat
  /\ MaxTokens \in Nat

VARIABLES
  status,    (* RequestContext.status, "new" before create_request          *)
  flag,      (* RequestContext._cancel_flag                                 *)
  tokens,    (* monitor["response_tokens"]                                  *)
  media,     (* monitor["media_items"] is not empty                         *)
  latest,    (* history variable: the tokens of the response captured last  *)
  overtaken, (* history variable: it was captured while a writer of history *)
             (* had read the response before and not written it back yet    *)
  recorded,  (* monitor["_history_recorded"]                                *)
  tracked,   (* RequestManager._requests                                    *)
  scan,      (* the _cleanup_old_requests in progress, under _requests_lock *)
  handler,   (* where the coroutine that serves the request is              *)
  worker,    (* its worker thread                                           *)
  job,       (* where each call that writes the request's history is        *)
  draft,     (* what the call that holds _history_append_lock has read      *)
  rows,      (* the request's rows of RequestManager._monitor_history       *)
  counted,   (* what the request has added to total_output_tokens           *)
  reported   (* the cancel storm guard was told how the request ended       *)

context == <<status, flag>>
responses == <<tokens, media, latest, overtaken>>
monitor == <<responses, recorded>>
serving == <<handler, worker, reported>>
history == <<job, draft, rows, counted>>
vars    == <<context, monitor, tracked, scan, serving, history>>

Live     == {"queued", "running"}
Ended    == {"completed", "cancelled", "failed"}
Statuses == Live \cup Ended \cup {"new"}
Places   == {"none", "accepted", "running", "answering", "cleaning",
             "finishing", "recording", "over"}

(* Who writes the history of a request: its own end, a cancel_request, the *)
(* clean-up that dropped it, a response captured late.                     *)
Writers  == {"finish", "cancel", "sweep", "late"}
JobSteps == {"none", "deciding", "waiting", "claimed", "built", "compacted", "stored"}
Row      == [status : Ended, tokens : 0..MaxTokens]
Draft    == [again : BOOLEAN, status : Ended, tokens : 0..MaxTokens, media : BOOLEAN]
NoDraft  == [again |-> FALSE, status |-> "failed", tokens |-> 0, media |-> FALSE]
NoScan   == [by |-> Nobody, todo |-> {}, marking |-> Nobody, doomed |-> {}]

Init ==
  /\ status   = [r \in Requests |-> "new"]
  /\ flag     = [r \in Requests |-> FALSE]
  /\ tokens   = [r \in Requests |-> 0]
  /\ media    = [r \in Requests |-> FALSE]
  /\ latest   = [r \in Requests |-> 0]
  /\ overtaken = [r \in Requests |-> FALSE]
  /\ recorded = [r \in Requests |-> FALSE]
  /\ tracked  = {}
  /\ scan     = NoScan
  /\ handler  = [r \in Requests |-> "none"]
  /\ worker   = [r \in Requests |-> "none"]
  /\ job      = [r \in Requests |-> [w \in Writers |-> "none"]]
  /\ draft    = [r \in Requests |-> NoDraft]
  /\ rows     = [r \in Requests |-> <<>>]
  /\ counted  = [r \in Requests |-> 0]
  /\ reported = [r \in Requests |-> FALSE]

-----------------------------------------------------------------------------
(* Blocks of RequestContext. *)

(* request_cancel: the first cancellation of a live request wins. *)
RequestCancel(r) ==
  \/ (status[r] \in Ended \/ flag[r]) /\ UNCHANGED context
  \/ /\ ~(status[r] \in Ended \/ flag[r])
     /\ status' = [status EXCEPT ![r] = "cancelled"]
     /\ flag' = [flag EXCEPT ![r] = TRUE]

(* Mutants: a failure that does not stop the worker; one that overwrites. *)
FlagOfFailureMissed(r) == flag[r]
MayFailAny(r) == TRUE

(* _cancel_flag after a failure. *)
FlagOfFailure(r) == TRUE

(* A request that has ended keeps its outcome. *)
MayFail(r) == status[r] \notin Ended

(* mark_failed *)
MarkFailed(r) ==
  \/ ~MayFail(r) /\ UNCHANGED context
  \/ /\ MayFail(r)
     /\ status' = [status EXCEPT ![r] = "failed"]
     /\ flag' = [flag EXCEPT ![r] = FlagOfFailure(r)]

(* mark_running: a request stopped while it was queued never runs. *)
StatusWhenStarted(r) == IF flag[r] THEN "cancelled" ELSE "running"

(* The status finish_request leaves. *)
StatusWhenFinished(r) ==
  IF status[r] \in {"completed", "failed"} THEN status[r]
  ELSE IF flag[r] \/ status[r] = "cancelled" THEN "cancelled" ELSE "failed"

At(r, place) == handler' = [handler EXCEPT ![r] = place]
Writes(r, w, step) == job' = [job EXCEPT ![r][w] = step]

(* RequestManager._requests_lock *)
ManagerFree == scan.by = Nobody

(* The response in the monitor is replaced by one of n tokens. *)
Capture(r, n) ==
  /\ tokens' = [tokens EXCEPT ![r] = n]
  /\ latest' = [latest EXCEPT ![r] = n]
  /\ overtaken' = [overtaken EXCEPT ![r] = \E w \in Writers : job[r][w] \in {"claimed", "built"}]

-----------------------------------------------------------------------------
(* Tracking: create_request, the clean-up it runs and the zombie sweep.     *)

StartScan(by) == scan' = [NoScan EXCEPT !.by = by, !.todo = tracked']

Create(r) ==
  /\ handler[r] = "none" /\ ManagerFree
  /\ status' = [status EXCEPT ![r] = "queued"]
  /\ tracked' = tracked \cup {r}
  /\ StartScan(r)
  /\ At(r, "accepted")
  /\ UNCHANGED <<flag, monitor, worker, reported, history>>

Sweep ==
  /\ ManagerFree /\ tracked # {}
  /\ UNCHANGED tracked
  /\ StartScan(Sweeper)
  /\ UNCHANGED <<context, monitor, serving, history>>

(* Mutant: any old request makes room. *)
MayDropAny(r) == Cardinality(tracked) - Cardinality(scan.doomed) > MaxTracked

(* Only what has ended makes room for what is new. *)
MayDrop(r) == /\ status[r] \in Ended
              /\ Cardinality(tracked) - Cardinality(scan.doomed) > MaxTracked

(* _cleanup_old_requests looks at one request: it is dropped to make room, *)
(* found without activity for the zombie TTL, or kept.                     *)
ScanLook(r) ==
  /\ r \in scan.todo /\ scan.marking = Nobody
  /\ \/ /\ MayDrop(r)
        /\ scan' = [scan EXCEPT !.todo = @ \ {r}, !.doomed = @ \cup {r}]
     \/ /\ status[r] \in Live /\ r # scan.by
        /\ scan' = [scan EXCEPT !.todo = @ \ {r}, !.marking = r]
     \/ /\ ~MayDrop(r)
        /\ scan' = [scan EXCEPT !.todo = @ \ {r}]
  /\ UNCHANGED <<context, monitor, tracked, serving, history>>

(* ... and fails the one it found, whatever it has become meanwhile. *)
ScanMark(r) ==
  /\ scan.marking = r
  /\ MarkFailed(r)
  /\ scan' = [scan EXCEPT !.marking = Nobody, !.doomed = @ \cup {r}]
  /\ UNCHANGED <<monitor, tracked, serving, history>>

(* The dropped ones leave the manager; their history is written outside    *)
(* the manager's lock.                                                     *)
ScanEnd ==
  /\ scan.by # Nobody /\ scan.todo = {} /\ scan.marking = Nobody
  /\ tracked' = tracked \ scan.doomed
  /\ job' = [r \in Requests |->
               IF r \in scan.doomed THEN [job[r] EXCEPT !["sweep"] = "waiting"] ELSE job[r]]
  /\ scan' = NoScan
  /\ UNCHANGED <<context, monitor, serving, draft, rows, counted>>

-----------------------------------------------------------------------------
(* Serving: execute_chatgpt_nonstream and its worker thread.                *)

(* start_request *)
Start(r) ==
  /\ handler[r] = "accepted" /\ scan.by # r
  /\ status' = [status EXCEPT ![r] = StatusWhenStarted(r)]
  /\ At(r, "running")
  /\ UNCHANGED <<flag, monitor, tracked, scan, worker, reported, history>>

(* run_tracked_blocking_call starts the thread of a round. *)
Spawn(r) ==
  /\ handler[r] = "running" /\ worker[r] # "alive"
  /\ worker' = [worker EXCEPT ![r] = "alive"]
  /\ UNCHANGED <<context, monitor, tracked, scan, handler, reported, history>>

WorkerReturns(r) ==
  /\ worker[r] = "alive"
  /\ worker' = [worker EXCEPT ![r] = "gone"]
  /\ UNCHANGED <<context, monitor, tracked, scan, handler, reported, history>>

(* The last round has answered and nobody asked to stop ... *)
Answered(r) ==
  /\ handler[r] = "running" /\ worker[r] = "gone"
  /\ ~flag[r]
  /\ At(r, "answering")
  /\ UNCHANGED <<context, monitor, tracked, scan, worker, reported, history>>

(* ... capture_response_payload and mark_completed. *)
Complete(r) ==
  /\ handler[r] = "answering"
  /\ \E n \in 0..MaxTokens : Capture(r, n)
  /\ \E found \in BOOLEAN : media' = [media EXCEPT ![r] = @ \/ found]
  /\ status' = [status EXCEPT ![r] = IF @ = "running" THEN "completed" ELSE @]
  /\ At(r, "cleaning")
  /\ UNCHANGED <<flag, recorded, tracked, scan, worker, reported, history>>

(* The poll sees the cancel flag (or the last check before the answer does). *)
ObserveStop(r) ==
  /\ handler[r] = "running" /\ worker[r] # "none"
  /\ flag[r]
  /\ MarkFailed(r)
  /\ At(r, "cleaning")
  /\ UNCHANGED <<monitor, tracked, scan, worker, reported, history>>

(* mark_request_hard_timeout *)
HardTimeout(r) ==
  /\ handler[r] = "running" /\ worker[r] # "none"
  /\ RequestCancel(r)
  /\ At(r, "cleaning")
  /\ UNCHANGED <<monitor, tracked, scan, worker, reported, history>>

(* A round, or what precedes it, raised. *)
Fail(r) ==
  /\ handler[r] \in {"accepted", "running"} /\ worker[r] # "alive" /\ scan.by # r
  /\ MarkFailed(r)
  /\ At(r, "cleaning")
  /\ UNCHANGED <<monitor, tracked, scan, worker, reported, history>>

(* asyncio cancels the coroutine while it waits. *)
CoroutineCancelled(r) ==
  /\ handler[r] \in {"accepted", "running"} /\ scan.by # r
  /\ RequestCancel(r)
  /\ At(r, "cleaning")
  /\ UNCHANGED <<monitor, tracked, scan, worker, reported, history>>

(* watch_client_disconnect, a task of the same event loop: it runs while   *)
(* the coroutine waits.                                                    *)
ClientGone(r) ==
  /\ handler[r] = "running"
  /\ status[r] \notin Ended
  /\ RequestCancel(r)
  /\ UNCHANGED <<monitor, tracked, scan, serving, history>>

(* Mutant: the thread is joined without a limit. *)
CleanUpWaits(r) ==
  /\ handler[r] = "cleaning" /\ worker[r] # "alive"
  /\ At(r, "finishing")
  /\ UNCHANGED <<context, monitor, tracked, scan, worker, reported, history>>

(* cleanup_worker_thread_after_request: the thread is gone, or it is asked *)
(* to stop, joined for a while and its tab retired.                        *)
CleanUp(r) ==
  /\ handler[r] = "cleaning"
  /\ \/ worker[r] # "alive" /\ UNCHANGED context
     \/ worker[r] = "alive" /\ RequestCancel(r)
  /\ At(r, "finishing")
  /\ UNCHANGED <<monitor, tracked, scan, worker, reported, history>>

(* A second cancellation of the coroutine reaches the wait for the thread: *)
(* the rest of the finally block is skipped.                               *)
CancelledAgain(r) ==
  /\ handler[r] = "cleaning" /\ worker[r] = "alive"
  /\ RequestCancel(r)
  /\ At(r, "over")
  /\ UNCHANGED <<monitor, tracked, scan, worker, reported, history>>

(* finish_request, called with success = (status is COMPLETED). *)
Finish(r) ==
  /\ handler[r] = "finishing"
  /\ status' = [status EXCEPT ![r] = StatusWhenFinished(r)]
  /\ At(r, "recording")
  /\ Writes(r, "finish", "waiting")
  /\ UNCHANGED <<flag, monitor, tracked, scan, worker, reported, draft, rows, counted>>

(* Its last block: the cancel storm guard learns how the request ended. *)
Report(r) ==
  /\ handler[r] = "recording" /\ job[r]["finish"] = "none"
  /\ reported' = [reported EXCEPT ![r] = TRUE]
  /\ At(r, "over")
  /\ UNCHANGED <<context, monitor, tracked, scan, worker, history>>

-----------------------------------------------------------------------------
(* Calls from other threads.                                                *)

(* cancel_request finds the request live ... *)
CancelBegin(r) ==
  /\ r \in tracked \cap Disturbed /\ ManagerFree
  /\ status[r] \in Live
  /\ job[r]["cancel"] = "none"
  /\ Writes(r, "cancel", "deciding")
  /\ UNCHANGED <<context, monitor, tracked, scan, serving, draft, rows, counted>>

(* ... cancels it if it still is, and writes its history. *)
CancelDo(r) ==
  /\ job[r]["cancel"] = "deciding"
  /\ RequestCancel(r)
  /\ Writes(r, "cancel", "waiting")
  /\ UNCHANGED <<monitor, tracked, scan, serving, draft, rows, counted>>

(* Mutant: a late response writes the history of a request that still runs. *)
WritesAlways(r) == r \in Requests

(* A late response writes history only once the request has ended. *)
WritesLate(r) == status[r] \in Ended

(* capture_external_response: a listener reports text of its own, or only  *)
(* metadata; the row of a request that has ended is written again.         *)
LateResponse(r) ==
  /\ r \in tracked \cap Disturbed /\ ManagerFree
  /\ job[r]["late"] = "none"
  /\ \/ \E n \in 1..MaxTokens : Capture(r, n)
     \/ UNCHANGED <<tokens, latest, overtaken>>
  /\ \/ WritesLate(r) /\ Writes(r, "late", "waiting")
     \/ ~WritesLate(r) /\ UNCHANGED job
  /\ UNCHANGED <<context, media, recorded, tracked, scan, serving, draft, rows, counted>>

-----------------------------------------------------------------------------
(* Writing history: _append_monitor_history.                                *)

Holding == {"claimed", "built", "compacted", "stored"}

(* Mutant: two calls write the request's history at once. *)
NoAppendLock(r) == TRUE

(* _history_append_lock of the request. *)
AppendLockFree(r) == \A w \in Writers : job[r][w] \notin Holding

(* The call learns whether the request is in the history already, and      *)
(* copies the monitor.                                                     *)
Claim(r, w) ==
  /\ job[r][w] = "waiting" /\ AppendLockFree(r)
  /\ recorded' = [recorded EXCEPT ![r] = TRUE]
  /\ draft' = [draft EXCEPT ![r] = [again |-> recorded[r], status |-> NoDraft.status,
                                     tokens |-> tokens[r], media |-> media[r]]]
  /\ Writes(r, w, "claimed")
  /\ UNCHANGED <<context, responses, tracked, scan, serving, rows, counted>>

(* The record's outcome: a completed request that has neither text nor     *)
(* media failed.                                                           *)
Outcome(s, n, found) == IF s = "completed" /\ n = 0 /\ ~found THEN "failed" ELSE s

Build(r, w) ==
  /\ job[r][w] = "claimed"
  /\ draft' = [draft EXCEPT ![r].status = Outcome(status[r], draft[r].tokens, draft[r].media)]
  /\ Writes(r, w, "built")
  /\ UNCHANGED <<context, monitor, tracked, scan, serving, rows, counted>>

(* _compact_context_monitor_after_history_append: the response as it was   *)
(* copied is written back, whatever has been captured since, and the       *)
(* payloads are let go, the media items among them.                        *)
Compact(r, w) ==
  /\ job[r][w] = "built"
  /\ tokens' = [tokens EXCEPT ![r] = draft[r].tokens]
  /\ media' = [media EXCEPT ![r] = FALSE]
  /\ Writes(r, w, "compacted")
  /\ UNCHANGED <<context, latest, overtaken, recorded, tracked, scan, serving, draft, rows, counted>>

(* Mutant: a record that exists is left as it is. *)
KeptRows(r) == IF rows[r] = <<>> THEN <<[status |-> draft[r].status, tokens |-> draft[r].tokens]>>
               ELSE rows[r]

(* The rows of r with the draft in: a record already there is replaced. *)
NewRows(r) ==
  LET row == [status |-> draft[r].status, tokens |-> draft[r].tokens] IN
  IF draft[r].again /\ rows[r] # <<>>
  THEN [rows[r] EXCEPT ![Len(rows[r])] = row]
  ELSE Append(rows[r], row)

(* Mutant: writing a record again counts its tokens again. *)
CountedTwice(r) == counted[r] + draft[r].tokens

(* What r has added to the totals once the draft replaces the row before. *)
NewCount(r) ==
  IF draft[r].again /\ rows[r] # <<>>
  THEN (counted[r] + draft[r].tokens) - rows[r][Len(rows[r])].tokens
  ELSE counted[r] + draft[r].tokens

(* _trim_monitor_history_unlocked keeps the newest MaxRecords rows; which  *)
(* are the oldest (by finishing time) is left open.                        *)
TooMany(all) == Cardinality({r \in Requests : all[r] # <<>>}) > MaxRecords

Store(r, w) ==
  LET all == [rows EXCEPT ![r] = NewRows(r)] IN
  /\ job[r][w] = "compacted"
  /\ \/ ~TooMany(all) /\ rows' = all
     \/ /\ TooMany(all)
        /\ \E old \in Requests : /\ all[old] # <<>>
                                 /\ rows' = [all EXCEPT ![old] = Tail(@)]
  /\ counted' = [counted EXCEPT ![r] = NewCount(r)]
  /\ Writes(r, w, "stored")
  /\ UNCHANGED <<context, monitor, tracked, scan, serving, draft>>

(* The call lets go of the lock. *)
Wrote(r, w) ==
  /\ job[r][w] = "stored"
  /\ Writes(r, w, "none")
  /\ draft' = [draft EXCEPT ![r] = NoDraft]
  /\ UNCHANGED <<context, monitor, tracked, scan, serving, rows, counted>>

-----------------------------------------------------------------------------
Manage(r) == Create(r) \/ ScanLook(r) \/ ScanMark(r)

Serve(r) ==
  \/ Start(r) \/ Spawn(r) \/ WorkerReturns(r)
  \/ Answered(r) \/ Complete(r)
  \/ ObserveStop(r) \/ HardTimeout(r) \/ Fail(r)
  \/ CoroutineCancelled(r) \/ ClientGone(r)
  \/ CleanUp(r) \/ CancelledAgain(r)
  \/ Finish(r) \/ Report(r)

Disturb(r) == CancelBegin(r) \/ CancelDo(r) \/ LateResponse(r)

Record(r, w) == Claim(r, w) \/ Build(r, w) \/ Compact(r, w) \/ Store(r, w) \/ Wrote(r, w)

Next ==
  \/ Sweep \/ ScanEnd
  \/ \E r \in Requests :
       \/ Manage(r) \/ Serve(r) \/ Disturb(r)
       \/ \E w \in Writers : Record(r, w)

Spec == Init /\ [][Next]_vars

(***************************************************************************)
(* The coroutine's own steps, the clean-up and the writers run on without  *)
(* waiting for the worker: polls and joins have time limits, and the hard  *)
(* timeout is enabled.  A free history lock is taken in the end, as late   *)
(* responses do not come for ever.  Nothing is assumed of the worker.      *)
(***************************************************************************)
Fairness ==
  /\ WF_vars(ScanEnd)
  /\ \A r \in Requests :
       /\ WF_vars(ScanLook(r)) /\ WF_vars(ScanMark(r))
       /\ WF_vars(Start(r)) /\ WF_vars(Spawn(r)) /\ WF_vars(Complete(r))
       /\ WF_vars(HardTimeout(r)) /\ WF_vars(CleanUp(r))
       /\ WF_vars(Finish(r)) /\ WF_vars(Report(r))
       /\ \A w \in Writers : SF_vars(Claim(r, w)) /\ WF_vars(Record(r, w))

FairSpec == Spec /\ Fairness

-----------------------------------------------------------------------------
(* Type correctness of the contexts, the manager and the threads; a row is *)
(* only ever written of a request that has ended.                          *)
TypeOK ==
  /\ status \in [Requests -> Statuses]
  /\ flag \in [Requests -> BOOLEAN]
  /\ tokens \in [Requests -> 0..MaxTokens]
  /\ media \in [Requests -> BOOLEAN]
  /\ latest \in [Requests -> 0..MaxTokens]
  /\ overtaken \in [Requests -> BOOLEAN]
  /\ recorded \in [Requests -> BOOLEAN]
  /\ tracked \subseteq Requests
  /\ scan \in [by : Requests \cup {Sweeper, Nobody}, todo : SUBSET Requests,
               marking : Requests \cup {Nobody}, doomed : SUBSET Requests]
  /\ handler \in [Requests -> Places]
  /\ worker \in [Requests -> {"none", "alive", "gone"}]
  /\ job \in [Requests -> [Writers -> JobSteps]]
  /\ draft \in [Requests -> Draft]
  /\ rows \in [Requests -> Seq(Row)]
  /\ counted \in [Requests -> Int]
  /\ reported \in [Requests -> BOOLEAN]

(***************************************************************************)
(* A request that may still run can be found by cancel_request: the sweep  *)
(* and the clean-up for room drop only what has ended for good, although   *)
(* they look and mark in two blocks and a queued request may start between *)
(* them.                                                                   *)
(***************************************************************************)
LiveIsTracked == \A r \in Requests : status[r] \in Live => r \in tracked

(***************************************************************************)
(* The inductive invariant: the coroutine's place fits the status and the  *)
(* cancel flag, the clean-up dooms only what has ended, history is written *)
(* only of what has ended, by one writer at a time that knows whether a    *)
(* row is there already.                                                   *)
(***************************************************************************)
Leaving == {"cleaning", "finishing", "recording", "over"}
Working == {"accepted", "running", "answering"}

PlaceFits ==
  \A r \in Requests :
    /\ handler[r] = "none" <=> status[r] = "new"
    /\ handler[r] = "accepted" => status[r] \notin {"running", "completed"}
    /\ handler[r] \in {"running", "answering"} => status[r] # "queued"
    /\ handler[r] \in Leaving => status[r] \in Ended
    /\ handler[r] = "answering" => worker[r] # "alive"

FlagFits ==
  \A r \in Requests :
    /\ status[r] \in Live \cup {"new"} => ~flag[r]
    /\ handler[r] \in Working /\ status[r] \in Ended => flag[r]
    /\ handler[r] \in Leaving /\ worker[r] = "alive" => flag[r]

ScanFits ==
  /\ \A r \in Requests : status[r] \in Live => r \in tracked
  /\ \A r \in scan.doomed : status[r] \in Ended
  /\ scan.marking \in Requests => status[scan.marking] # "new"

JobsFit ==
  \A r \in Requests, w \in Writers :
    /\ job[r][w] = "deciding" => status[r] # "new"
    /\ job[r][w] \notin {"none", "deciding"} => status[r] \in Ended

OneWriter ==
  \A r \in Requests, v, w \in Writers :
    job[r][v] \in Holding /\ job[r][w] \in Holding => v = w

WriterKnows ==
  \A r \in Requests :
    /\ ~recorded[r] => rows[r] = <<>> /\ AppendLockFree(r)
    /\ \A w \in Writers : job[r][w] \in {"claimed", "built", "compacted"} /\ ~draft[r].again
                          => rows[r] = <<>>
    /\ Len(rows[r]) <= 1

IInv == /\ TypeOK
        /\ PlaceFits
        /\ FlagFits
        /\ ScanFits
        /\ JobsFit
        /\ OneWriter
        /\ WriterKnows

(***************************************************************************)
(* How a request ended is not rewritten by a late failure, cancellation,   *)
(* sweep or finish.  The one exception is a request swept in the queue:    *)
(* its late start turns "failed" into "cancelled", never into "running".   *)
(***************************************************************************)
OutcomeFinal ==
  [][\A r \in Requests : status[r] \in Ended =>
       \/ status'[r] = status[r]
       \/ status[r] = "failed" /\ status'[r] = "cancelled" /\ handler[r] = "accepted"]_vars

(***************************************************************************)
(* A worker thread that outlives the coroutine it works for has been told  *)
(* to stop, on every path out of the coroutine.                            *)
(***************************************************************************)
LeakedWorkerIsStopped ==
  \A r \in Requests : handler[r] \in {"finishing", "recording", "over"} /\ worker[r] = "alive"
                        => flag[r]

(***************************************************************************)
(* The history never shows a request twice, however its end, a cancel, the *)
(* sweep and a late response interleave.                                   *)
(***************************************************************************)
HistoryOnce == \A r \in Requests : Len(rows[r]) <= 1

(***************************************************************************)
(* When the writers of a finished request are done, the row the history    *)
(* keeps shows how the request ended, with the tokens of its last response *)
(* unless that one was captured between the copy and the write-back of a   *)
(* writer, which overwrites it with the one before: then the row and the   *)
(* monitor still agree.  A completed request without text may be shown as  *)
(* failed, as its media items are let go once a row shows them.            *)
(***************************************************************************)
Shown(r) == {status[r], Outcome(status[r], tokens[r], FALSE)}

AtRest(r) == reported[r] /\ \A w \in Writers : job[r][w] = "none"

HistoryAgrees ==
  \A r \in Requests : AtRest(r) /\ rows[r] # <<>> =>
    /\ \E s \in Shown(r) : rows[r] = <<[status |-> s, tokens |-> tokens[r]]>>
    /\ overtaken[r] \/ tokens[r] = latest[r]

(***************************************************************************)
(* While nothing has been trimmed, the token totals are the sum over the   *)
(* rows: rewriting a row adds the difference only.                         *)
(***************************************************************************)
TotalsExact ==
  \A r \in Requests : counted[r] = IF rows[r] = <<>> THEN 0 ELSE rows[r][Len(rows[r])].tokens

(***************************************************************************)
(* A request that was accepted is answered and finished, even when its     *)
(* worker hangs.                                                           *)
(***************************************************************************)
RequestEnds == \A r \in Requests : handler[r] = "accepted" ~> handler[r] = "over"
=============================================================================
