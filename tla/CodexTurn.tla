----------------------------- MODULE CodexTurn -----------------------------
(***************************************************************************)
(* Codex turns on the shared ChatGPT page: app/api/codex_responses_v2.py   *)
(* with the guards codex_v2_runtime_hardening.py wraps around it, the      *)
(* conversation bindings of codex_web_session_affinity.py and the recovery *)
(* of a continuation in codex_responses.py.                                *)
(*                                                                         *)
(* A turn is one exchange: what the client adds and what ChatGPT answers.  *)
(* A transcript is the sequence of exchanges it consists of.  A prompt     *)
(* typed into an empty page opens the conversation named after its turn.   *)
(*                                                                         *)
(* Code between two suspensions of the event loop is one action; the       *)
(* worker thread that drives the page, and the page, interleave with it.   *)
(***************************************************************************)
EXTENDS Naturals, Sequences, SequencesExt, FiniteSets

CONSTANTS Turns,        (* streamed calls of POST /v1/responses with tools  *)
          NoTurn,       (* no previous response, no conversation, no driver *)
          MaxActive,    (* turns the clients keep open at a time            *)
          MaxRestarts,  (* bound: restarts of the bridge                    *)
          Disturbances  (* what else may go wrong                           *)

(* "fork"          a client continues a response that was continued before   *)
(* "lost_answer"   a turn ends unanswered although its worker has the page   *)
(* "late_goodbye"  a client calls again before the bridge is done with the   *)
(*                 turn it left, and before that turn's worker is off the    *)
(*                 page                                                      *)
(* "late_name"     the page shows a conversation before, or (a temporary     *)
(*                 chat) without ever, showing its path                      *)
(* "flapping_page" a conversation cannot be restored, nor a fresh composer   *)
(*                 prepared, but a moment later it can                       *)
(* "disk_lost"     a snapshot is not in the database: persistence is off,    *)
(*                 the record is too large, the write failed, it was pruned  *)
(* "unset_hint"    when the hint is to be set the browser is not connected,  *)
(*                 or not exactly one ChatGPT tab is there                   *)
(* "uncleared_hint" the same when it is to be cleared                        *)
PossibleDisturbances ==
  {"fork", "lost_answer", "late_goodbye", "late_name", "flapping_page", "disk_lost",
   "unset_hint", "uncleared_hint"}

ASSUME TurnAssumption ==
  /\ NoTurn \notin Turns
  /\ IsFiniteSet(Turns)
  /\ MaxActive \in Nat
  /\ MaxRestarts \in Nat
  /\ Disturbances \subseteq PossibleDisturbances

VARIABLES
  turn,      (* the handler, the worker and the request bodies of each turn *)
  memory,    (* _responses_state_by_id: the transcript kept for a response  *)
  disk,      (* codex_responses_state: the same transcript in SQLite        *)
  bindings,  (* _BINDINGS: responses whose conversation is known            *)
  lineages,  (* _HISTORY_BINDINGS: transcripts whose conversation is known,
                named by their last turn, least recently used first         *)
  hint,      (* the reuse hint on the ChatGPT tab: "left" when it is still
                set although a call that was to clear it did not reach the tab *)
  tab,       (* the turn whose worker holds the tab                         *)
  page,      (* the conversation the tab shows, NoTurn for an empty page    *)
  named,     (* conversations whose path the page shows                     *)
  content,   (* the exchanges typed into each conversation                  *)
  restarts

affinity == <<bindings, lineages>>
vars     == <<turn, memory, disk, affinity, hint, tab, page, named, content, restarts>>

OnThePage    == {"driving", "opening", "composing", "sent", "stopping"}
HandlerSteps == {"unborn", "called", "prepared", "running", "leaving", "done", "ended"}
WorkerSteps  == {"none", "queued", "answered", "failed"} \cup OnThePage
HintStates   == {"clear", "set", "left"}

Unborn == [at       |-> "unborn",
           worker   |-> "none",
           parent   |-> NoTurn,    (* the turn it continues                       *)
           how      |-> "history", (* "id": previous_response_id and the new items,
                                      "history": the whole transcript             *)
           history  |-> <<>>,      (* the client's transcript, this turn included *)
           messages |-> <<>>,      (* state_chat_body.messages                    *)
           path     |-> NoTurn,    (* reused_path                                 *)
           skip     |-> 0,         (* history_prefix_count                        *)
           sends    |-> <<>>,      (* browser_body.messages                       *)
           found    |-> <<>>,      (* history: what its prompt was typed into     *)
           bound    |-> NoTurn,    (* the conversation it was bound to            *)
           boundAt  |-> 0]         (* and the order in which it was               *)

Init ==
  /\ turn = [t \in Turns |-> Unborn]
  /\ memory = [t \in Turns |-> <<>>]
  /\ disk = [t \in Turns |-> <<>>]
  /\ bindings = {}
  /\ lineages = <<>>
  /\ hint = "clear"
  /\ tab = NoTurn
  /\ page = NoTurn
  /\ named = {}
  /\ content = [c \in Turns |-> <<>>]
  /\ restarts = 0

At(step)  == {t \in Turns : turn[t].at = step}
Served    == At("called") \cup At("prepared") \cup At("running")

(* The path the page shows: a conversation without one passes for an empty page. *)
ShownPath == IF page \in named THEN page ELSE NoTurn

-----------------------------------------------------------------------------
(* The client. *)

(* A second continuation of p, unless the first came to nothing, is a fork. *)
MayContinue(p) ==
  /\ turn[p].at = "done"
  /\ \/ "fork" \in Disturbances
     \/ \A u \in Turns : turn[u].parent = p => turn[u].at \in {"leaving", "ended"}

(* The streams of turns that were left or cancelled await their workers. *)
DoneWithLeavers ==
  \A u \in Turns : turn[u].at \in {"leaving", "ended"} => turn[u].at = "ended" /\ turn[u].worker = "none"

Begins(t, p, how) ==
  turn' = [turn EXCEPT ![t] =
            [Unborn EXCEPT !.at = "called", !.parent = p, !.how = how,
               !.history = Append(IF p = NoTurn THEN <<>> ELSE turn[p].history, t)]]

Call(t) ==
  /\ turn[t].at = "unborn"
  /\ Cardinality(Served) < MaxActive
  /\ DoneWithLeavers \/ "late_goodbye" \in Disturbances
  /\ \/ Begins(t, NoTurn, "history")
     \/ \E p \in Turns, how \in {"id", "history"} : MayContinue(p) /\ Begins(t, p, how)
  /\ UNCHANGED <<memory, disk, affinity, hint, tab, page, named, content, restarts>>

-----------------------------------------------------------------------------
(* Preparation of a turn: one uninterrupted stretch of the event loop.      *)

(* The conversation its previous response is bound to. *)
Binding(t) ==
  IF turn[t].how = "id" /\ turn[t].parent \in bindings
  THEN turn[turn[t].parent].bound
  ELSE NoTurn

(* Mutant: any shorter transcript passes for a prefix. *)
ExtendsAny(t, u) == Len(turn[u].messages) < Len(turn[t].history)

(* The transcript of t strictly extends the one bound under u. *)
Extends(t, u) == IsStrictPrefix(turn[u].messages, turn[t].history)

(* The most recently used lineage that the transcript of t extends. *)
LineageAt(t) ==
  IF turn[t].how = "history" THEN SelectLastInSeq(lineages, LAMBDA u : Extends(t, u)) ELSE 0

Lineage(t) == IF LineageAt(t) > 0 THEN lineages[LineageAt(t)] ELSE NoTurn

(* A lineage that matched becomes the most recently used one. *)
UseLineage(t) ==
  /\ lineages' = IF LineageAt(t) = 0 THEN lineages
                 ELSE Append(RemoveAt(lineages, LineageAt(t)), Lineage(t))
  /\ UNCHANGED bindings

(* Mutant: a continuation nobody has a snapshot of is taken as it is. *)
HydratesAlways(t) == TRUE

(* Otherwise 404: neither memory nor the database knows the previous response. *)
Hydrates(t) ==
  turn[t].how = "id" => memory[turn[t].parent] # <<>> \/ disk[turn[t].parent] # <<>>

(* What _hydrate_codex_continuation replaces the input by; <<>> leaves the  *)
(* previous response to be read from memory when the stream starts.         *)
Hydrated(t) ==
  IF turn[t].how = "history" THEN turn[t].history
  ELSE IF memory[turn[t].parent] # <<>> THEN <<>>
  ELSE Append(disk[turn[t].parent], t)

Prepared(t, messages, path, skip) ==
  turn' = [turn EXCEPT ![t].at = "prepared", ![t].messages = messages,
                       ![t].path = path, ![t].skip = skip]

(* The conversation of the previous response is shown and verified. *)
PrepareReuse(t) ==
  /\ turn[t].at = "called"
  /\ Binding(t) # NoTurn
  /\ Hydrates(t)
  /\ page' = Binding(t)
  /\ Prepared(t, Hydrated(t), page', 0)
  /\ UNCHANGED <<memory, disk, affinity, hint, tab, named, content, restarts>>

(* The conversation of a transcript that this one extends is shown. *)
PrepareLineage(t) ==
  /\ turn[t].at = "called"
  /\ Lineage(t) # NoTurn
  /\ page' = turn[Lineage(t)].bound
  /\ Prepared(t, Hydrated(t), page', Len(turn[Lineage(t)].messages))
  /\ UseLineage(t)
  /\ UNCHANGED <<memory, disk, hint, tab, named, content, restarts>>

(* The pages an attempt to restore a conversation may leave behind. *)
AfterRestore(t) == {page} \cup ({Binding(t)} \ {NoTurn})
                         \cup (IF Lineage(t) = NoTurn THEN {} ELSE {turn[Lineage(t)].bound})

(* Mutant: the new-chat control is never clicked. *)
NewChatSkipped(shown) == shown

(* prepare_chatgpt_fresh_composer leaves a page it takes for empty. *)
NewChat(shown) == IF shown \in named THEN NoTurn ELSE shown

(* Nothing to restore, or it failed: a fresh composer. *)
PrepareFresh(t) ==
  /\ turn[t].at = "called"
  /\ Hydrates(t)
  /\ \E shown \in AfterRestore(t) : page' = NewChat(shown)
  /\ Prepared(t, Hydrated(t), NoTurn, 0)
  /\ UseLineage(t)
  /\ UNCHANGED <<memory, disk, hint, tab, named, content, restarts>>

(* Preparation raised (404, or no fresh composer), but the binding can be   *)
(* restored: the turn goes on with its new items alone.                     *)
PrepareDegraded(t) ==
  /\ turn[t].at = "called"
  /\ ~Hydrates(t) \/ "flapping_page" \in Disturbances
  /\ Binding(t) # NoTurn
  /\ page' = Binding(t)
  /\ Prepared(t, <<t>>, page', 0)
  /\ UNCHANGED <<memory, disk, affinity, hint, tab, named, content, restarts>>

(* Preparation raised: response.failed. *)
PrepareFails(t) ==
  /\ turn[t].at = "called"
  /\ \E shown \in AfterRestore(t) : page' \in {shown, NewChat(shown)}
  /\ turn' = [turn EXCEPT ![t].at = "ended"]
  /\ UseLineage(t)
  /\ UNCHANGED <<memory, disk, hint, tab, named, content, restarts>>

Prepare(t) == \/ PrepareReuse(t)
              \/ PrepareLineage(t)
              \/ PrepareFresh(t)
              \/ PrepareDegraded(t)
              \/ PrepareFails(t)

-----------------------------------------------------------------------------
(* The stream of a turn.                                                    *)

(* state_chat_body.messages, with the previous response read from memory. *)
StateMessages(t) ==
  IF turn[t].messages = <<>> THEN Append(memory[turn[t].parent], t) ELSE turn[t].messages

(* What is typed: the new items into the conversation of the previous       *)
(* response, the suffix after a matched prefix, or everything.              *)
BrowserMessages(t) ==
  IF turn[t].path = NoTurn THEN StateMessages(t)
  ELSE IF turn[t].skip > 0
       THEN SubSeq(StateMessages(t), turn[t].skip + 1, Len(StateMessages(t)))
       ELSE <<t>>

(* The previous response left memory after it was found there. *)
StateLost(t) == turn[t].messages = <<>> /\ memory[turn[t].parent] = <<>>

(* set_codex_workflow_reuse_hint gives up silently when it does not find    *)
(* the tab.                                                                 *)
HintSet == {"set"} \cup IF "unset_hint" \in Disturbances THEN {hint} ELSE {}

(* Mutant: the finally block forgets the hint. *)
HintKept == {hint}

HintCleared ==
  {"clear"} \cup IF "uncleared_hint" \in Disturbances /\ hint # "clear" THEN {"left"} ELSE {}

Start(t) ==
  /\ turn[t].at = "prepared"
  /\ ~StateLost(t)
  /\ turn' = [turn EXCEPT ![t].at = "running", ![t].worker = "queued",
                          ![t].messages = StateMessages(t),
                          ![t].sends = BrowserMessages(t)]
  /\ hint' \in HintSet
  /\ UNCHANGED <<memory, disk, affinity, tab, page, named, content, restarts>>

StartFails(t) ==
  /\ turn[t].at = "prepared"
  /\ StateLost(t)
  /\ turn' = [turn EXCEPT ![t].at = "ended"]
  /\ UNCHANGED <<memory, disk, affinity, hint, tab, page, named, content, restarts>>

(* Mutant: the transcript kept for a response lacks what it continues. *)
SnapshotOfTurn(t) == <<t>>

(* The transcript kept for a response. *)
Snapshot(t) == turn[t].messages

(* The path the response is bound to. *)
BoundPath(t) ==
  IF ShownPath # NoTurn THEN ShownPath ELSE turn[t].path

(* The answer is complete: snapshots, bindings, terminal event. *)
Complete(t) ==
  /\ turn[t].at = "running"
  /\ turn[t].worker = "answered"
  /\ hint' \in HintCleared
  /\ memory' = [memory EXCEPT ![t] = Snapshot(t)]
  /\ \/ disk' = [disk EXCEPT ![t] = Snapshot(t)]
     \/ "disk_lost" \in Disturbances /\ UNCHANGED disk
  /\ turn' = [turn EXCEPT ![t].at = "done", ![t].worker = "none",
                          ![t].bound = BoundPath(t),
                          ![t].boundAt = Cardinality(At("done")) + 1]
  /\ IF BoundPath(t) = NoTurn THEN UNCHANGED affinity
     ELSE /\ bindings' = bindings \cup {t}
          /\ lineages' = Append(lineages, t)
  /\ UNCHANGED <<tab, page, named, content, restarts>>

(* The workflow failed, or its answer holds no output: response.failed. *)
Fail(t) ==
  /\ turn[t].at = "running"
  /\ \/ turn[t].worker = "failed"
     \/ turn[t].worker = "answered" /\ "lost_answer" \in Disturbances
  /\ hint' \in HintCleared
  /\ turn' = [turn EXCEPT ![t].at = "ended", ![t].worker = "none"]
  /\ UNCHANGED <<memory, disk, affinity, tab, page, named, content, restarts>>

Gone(t, step) ==
  turn' = [turn EXCEPT ![t].at = step,
                       ![t].worker = IF @ \in OnThePage THEN @ ELSE "none"]

(* The stream is cancelled: the hint is cleared, then the task cancelled; a *)
(* worker that has the page is told to stop and does so later.              *)
Abort(t) ==
  /\ turn[t].at \in {"prepared", "running"}
  /\ turn[t].worker \in {"none", "queued"} \/ "lost_answer" \in Disturbances
  /\ Gone(t, "ended")
  /\ hint' \in IF turn[t].at = "running" THEN HintCleared ELSE {hint}
  /\ UNCHANGED <<memory, disk, affinity, tab, page, named, content, restarts>>

(* A keepalive finds the client gone: the task is cancelled and waited for. *)
Leave(t) ==
  /\ turn[t].at = "running"
  /\ turn[t].worker = "queued" \/ "lost_answer" \in Disturbances
  /\ Gone(t, "leaving")
  /\ UNCHANGED <<memory, disk, affinity, hint, tab, page, named, content, restarts>>

Left(t) ==
  /\ turn[t].at = "leaving"
  /\ turn' = [turn EXCEPT ![t].at = "ended"]
  /\ hint' \in HintCleared
  /\ UNCHANGED <<memory, disk, affinity, tab, page, named, content, restarts>>

-----------------------------------------------------------------------------
(* The worker: the ChatGPT workflow on the tab.                             *)

Works(t, step) == turn' = [turn EXCEPT ![t].worker = step]

TakeTab(t) ==
  /\ turn[t].worker = "queued"
  /\ tab = NoTurn
  /\ tab' = t
  /\ Works(t, "driving")
  /\ UNCHANGED <<memory, disk, affinity, hint, page, named, content, restarts>>

(* should_start_new_conversation: not on a tab that carries the hint. *)
ReadHint(t) ==
  /\ turn[t].worker = "driving"
  /\ Works(t, IF hint = "clear" THEN "opening" ELSE "composing")
  /\ UNCHANGED <<memory, disk, affinity, hint, tab, page, named, content, restarts>>

(* A cancelled worker finishes the step it is in and stops before the next. *)
Then(t, step) == IF turn[t].at = "running" THEN step ELSE "stopping"

(* CLICK new_chat_btn, optional. *)
OpenChat(t) ==
  /\ turn[t].worker = "opening"
  /\ page' \in {page, NoTurn}
  /\ Works(t, Then(t, "composing"))
  /\ UNCHANGED <<memory, disk, affinity, hint, tab, named, content, restarts>>

(* FILL_INPUT and CLICK send_btn: the prompt goes where the page is. *)
Send(t) ==
  LET c == IF page = NoTurn THEN t ELSE page IN
  /\ turn[t].worker = "composing"
  /\ content' = [content EXCEPT ![c] = @ \o turn[t].sends]
  /\ page' = c
  /\ named' \in {named \cup {c}} \cup IF "late_name" \in Disturbances THEN {named} ELSE {}
  /\ turn' = [turn EXCEPT ![t].worker = Then(t, "sent"), ![t].found = content[c]]
  /\ UNCHANGED <<memory, disk, affinity, hint, tab, restarts>>

(* STREAM_WAIT ends with the answer; the worker releases the tab. *)
Answer(t) ==
  /\ turn[t].worker = "sent"
  /\ tab' = NoTurn
  /\ Works(t, IF turn[t].at = "running" THEN "answered" ELSE "none")
  /\ UNCHANGED <<memory, disk, affinity, hint, page, named, content, restarts>>

(* The workflow fails, gives up waiting for the tab, or sees that it was    *)
(* cancelled.                                                               *)
WorkerStops(t) ==
  /\ turn[t].worker \in {"queued"} \cup OnThePage
  /\ turn[t].worker = "sent" => "lost_answer" \in Disturbances
  /\ tab' = IF tab = t THEN NoTurn ELSE tab
  /\ Works(t, IF turn[t].at = "running" THEN "failed" ELSE "none")
  /\ UNCHANGED <<memory, disk, affinity, hint, page, named, content, restarts>>

-----------------------------------------------------------------------------
(* What time and the environment do.                                        *)

(* The page shows the path of the conversation it is on. *)
ShowPath ==
  /\ page \notin named \cup {NoTurn}
  /\ named' = named \cup {page}
  /\ UNCHANGED <<turn, memory, disk, affinity, hint, tab, page, content, restarts>>

(* Age, or the number of entries, removes the transcript of a response. *)
ForgetResponse(t) ==
  /\ memory[t] # <<>>
  /\ memory' = [memory EXCEPT ![t] = <<>>]
  /\ UNCHANGED <<turn, disk, affinity, hint, tab, page, named, content, restarts>>

ForgetBinding(t) ==
  /\ t \in bindings
  /\ bindings' = bindings \ {t}
  /\ UNCHANGED <<turn, memory, disk, lineages, hint, tab, page, named, content, restarts>>

(* Age removes the lineage that was bound first, the number of entries the  *)
(* one that was used least recently.                                        *)
ForgetLineage(t) ==
  \E i \in DOMAIN lineages :
    /\ lineages[i] = t
    /\ i = 1 \/ \A u \in ToSet(lineages) : turn[t].boundAt <= turn[u].boundAt
    /\ lineages' = RemoveAt(lineages, i)
    /\ UNCHANGED <<turn, memory, disk, bindings, hint, tab, page, named, content, restarts>>

PruneSnapshot(t) ==
  /\ "disk_lost" \in Disturbances
  /\ disk[t] # <<>>
  /\ disk' = [disk EXCEPT ![t] = <<>>]
  /\ UNCHANGED <<turn, memory, affinity, hint, tab, page, named, content, restarts>>

(* The bridge restarts: what the process kept is gone, the browser stays.   *)
Restart ==
  /\ restarts < MaxRestarts
  /\ \/ "lost_answer" \in Disturbances
     \/ \A t \in Turns : turn[t].worker \in {"none", "queued"}
  /\ turn' = [t \in Turns |->
                IF t \in Served \cup At("leaving") THEN [turn[t] EXCEPT !.at = "ended", !.worker = "none"]
                ELSE [turn[t] EXCEPT !.worker = "none"]]
  /\ memory' = [t \in Turns |-> <<>>]
  /\ bindings' = {}
  /\ lineages' = <<>>
  /\ hint' = "clear"
  /\ tab' = NoTurn
  /\ restarts' = restarts + 1
  /\ UNCHANGED <<disk, page, named, content>>

Handler(t) == Call(t) \/ Prepare(t) \/ Start(t) \/ StartFails(t)
              \/ Complete(t) \/ Fail(t) \/ Abort(t) \/ Leave(t) \/ Left(t)
Worker(t)  == TakeTab(t) \/ ReadHint(t) \/ OpenChat(t) \/ Send(t) \/ Answer(t) \/ WorkerStops(t)
Forget(t)  == ForgetResponse(t) \/ ForgetBinding(t) \/ ForgetLineage(t) \/ PruneSnapshot(t)

Next == \/ \E t \in Turns : Handler(t) \/ Worker(t) \/ Forget(t)
        \/ ShowPath
        \/ Restart

Spec == Init /\ [][Next]_vars

-----------------------------------------------------------------------------
(* Properties.                                                              *)

(* The prompt of t was sent and its client is still to get the answer. *)
Sent(t) ==
  \/ turn[t].at = "done"
  \/ turn[t].at = "running" /\ turn[t].worker \in {"sent", "answered"}

(* What ChatGPT reads when it answers t. *)
Context(t) == turn[t].found \o turn[t].sends

(* Continued by id from a snapshot that lacks exchanges itself.              *)
FromTruncated(t) ==
  /\ turn[t].how = "id"
  /\ turn[turn[t].parent].messages # turn[turn[t].parent].history

(* Every variable has its type; what is kept of a response, in memory and   *)
(* on disk, is the transcript its turn ran with (_store_responses_state,    *)
(* _persist_codex_history), and only completed responses are bound.         *)
TypeOK ==
  /\ \A t \in Turns :
       /\ turn[t].at \in HandlerSteps
       /\ turn[t].worker \in WorkerSteps
       /\ {turn[t].parent, turn[t].path, turn[t].bound} \subseteq Turns \cup {NoTurn}
       /\ turn[t].how \in {"id", "history"}
       /\ turn[t].skip \in 0..Len(turn[t].history)
       /\ turn[t].history \in Seq(Turns)
       /\ turn[t].sends \in Seq(Turns)
       /\ memory[t] \in {<<>>, turn[t].messages}
       /\ disk[t] \in {<<>>, turn[t].messages}
       /\ content[t] \in Seq(Turns)
  /\ bindings \cup ToSet(lineages) \subseteq At("done")
  /\ hint \in HintStates
  /\ {tab, page} \subseteq Turns \cup {NoTurn}
  /\ named \subseteq Turns
  /\ restarts \in 0..MaxRestarts

(* No exchange of the client's transcript is missing from what ChatGPT      *)
(* reads, whether the turn reuses a conversation with a delta or opens one  *)
(* with the reconstructed history, and whatever was forgotten, restarted or *)
(* navigated away before (the docstring of codex_responses_v2.py).          *)
NothingMissing ==
  \A t \in Turns :
    Sent(t) /\ ~FromTruncated(t) => ToSet(turn[t].history) \subseteq ToSet(Context(t))

(* Of turns one at a time, a response, and its transcript, stay bound to a  *)
(* conversation that holds every exchange they consist of: through forks    *)
(* and later turns that type into it, lineages matched by a shorter prefix, *)
(* degraded turns, new chats in pages that show no path yet, and the        *)
(* fallback to the reused path when the page shows none (_stream_codex_v2_  *)
(* attempt).  Turns that overlap are not promised this: the path is read    *)
(* from the shared page, which another turn may have moved meanwhile.       *)
BindingHonest ==
  \A t \in bindings \cup ToSet(lineages) :
    ~FromTruncated(t) => ToSet(turn[t].history) \subseteq ToSet(content[turn[t].bound])

(* Without disturbances, but with restarts and with expiry of everything    *)
(* that is kept, ChatGPT reads the client's transcript once, in order, and  *)
(* nothing else: affinity and its fallbacks are invisible.                  *)
ExactContext ==
  \A t \in Turns : Sent(t) /\ ~FromTruncated(t) => Context(t) = turn[t].history

(* The hint set by set_codex_workflow_reuse_hint(True) does not outlive the *)
(* turns it was set for, whichever way their streams end, unless the call   *)
(* that was to clear it did not reach the tab: it would keep the workflow   *)
(* of any later request in the conversation the tab happens to show.  The   *)
(* hint a failed call leaves behind is the value "left".                    *)
HintScoped == hint = "set" => At("running") \cup At("leaving") # {}
=============================================================================
