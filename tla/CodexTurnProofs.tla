--------------------------- MODULE CodexTurnProofs ---------------------------
(***************************************************************************)
(* What is proved of CodexTurn for every set of turns, every number of     *)
(* clients and restarts: the types and the scope of the hint whatever is   *)
(* disturbed; for turns that run one at a time, that nothing of a          *)
(* transcript is missing from what ChatGPT reads; and, undisturbed, that   *)
(* what it reads is the transcript.                                        *)
(***************************************************************************)
EXTENDS CodexTurn, FiniteSetTheorems, WellFoundedInduction, SequenceTheorems, TLAPS

-----------------------------------------------------------------------------
(* The hint. *)

(* Every turn has a record with the two fields the argument is about. *)
TurnShape ==
  /\ DOMAIN turn = Turns
  /\ \A t \in Turns : {"at", "worker"} \subseteq DOMAIN turn[t]
  /\ hint \in HintStates

(* A turn the hint is set for. *)
Hinted == At("running") \cup At("leaving")

HintInv == TurnShape /\ HintScoped

LEMMA UnbornShape == {"at", "worker"} \subseteq DOMAIN Unborn
<1>1. "at" \in DOMAIN Unborn
  BY DEF Unborn
<1>2. "worker" \in DOMAIN Unborn
  BY DEF Unborn
<1> QED BY <1>1, <1>2

LEMMA HintInit == Init => HintInv
BY UnbornShape DEF Init, HintInv, TurnShape, HintScoped, HintStates

(* A step that leaves the hint and every hinted turn's handler alone, or    *)
(* calls for the hint to be cleared, keeps the hint scoped.                 *)
LEMMA ScopeKept ==
  ASSUME HintScoped,
         \/ hint' # "set"
         \/ /\ hint' = hint
            /\ \A t \in Turns : turn[t].at \in {"running", "leaving"}
                                   => turn'[t].at \in {"running", "leaving"}
  PROVE  HintScoped'
BY DEF HintScoped, At

LEMMA HandlerKeepsHintScoped ==
  ASSUME HintInv, NEW t \in Turns, Handler(t)
  PROVE  HintInv'
<1> USE DEF HintInv, TurnShape
<1>1. CASE Call(t)
  <2>1. PICK p, how : Begins(t, p, how)
    BY <1>1 DEF Call
  <2>2. TurnShape' /\ hint' = hint
    BY <1>1, <2>1, UnbornShape DEF Call, Begins
  <2>3. turn[t].at = "unborn" /\ \A u \in Turns \ {t} : turn'[u] = turn[u]
    BY <1>1, <2>1 DEF Call, Begins
  <2> QED BY <2>2, <2>3, ScopeKept
<1>2. CASE Prepare(t)
  <2>1. TurnShape'
    BY <1>2 DEF Prepare, PrepareReuse, PrepareLineage, PrepareFresh, PrepareDegraded,
                PrepareFails, Prepared
  <2>2. /\ hint' = hint
        /\ turn[t].at = "called"
        /\ \A u \in Turns \ {t} : turn'[u] = turn[u]
    BY <1>2 DEF Prepare, PrepareReuse, PrepareLineage, PrepareFresh, PrepareDegraded,
                PrepareFails, Prepared
  <2> QED BY <2>1, <2>2, ScopeKept
<1>3. CASE Start(t)
  <2>1. TurnShape' /\ turn'[t].at = "running"
    BY <1>3 DEF Start, HintSet, HintStates
  <2> QED BY <2>1 DEF HintScoped, At
<1>4. CASE StartFails(t)
  BY <1>4, ScopeKept DEF StartFails
<1>5. CASE Complete(t)
  BY <1>5, ScopeKept DEF Complete, HintCleared, HintStates
<1>6. CASE Fail(t)
  BY <1>6, ScopeKept DEF Fail, HintCleared, HintStates
<1>7. CASE Abort(t)
  <2>1. TurnShape' /\ \A u \in Turns \ {t} : turn'[u] = turn[u]
    BY <1>7 DEF Abort, Gone, HintCleared, HintStates
  <2>2. CASE turn[t].at = "running"
    BY <1>7, <2>1, <2>2, ScopeKept DEF Abort, HintCleared
  <2>3. CASE turn[t].at = "prepared"
    BY <1>7, <2>1, <2>3, ScopeKept DEF Abort
  <2> QED BY <1>7, <2>2, <2>3 DEF Abort
<1>8. CASE Leave(t)
  BY <1>8, ScopeKept DEF Leave, Gone
<1>9. CASE Left(t)
  BY <1>9, ScopeKept DEF Left, HintCleared, HintStates
<1> QED
  BY <1>1, <1>2, <1>3, <1>4, <1>5, <1>6, <1>7, <1>8, <1>9 DEF Handler

LEMMA WorkerKeepsHintScoped ==
  ASSUME HintInv, NEW t \in Turns, Worker(t)
  PROVE  HintInv'
<1>1. PICK step : turn' = [turn EXCEPT ![t].worker = step] \/ Send(t)
  BY DEF Worker, TakeTab, ReadHint, OpenChat, Answer, WorkerStops, Works
<1>2. /\ hint' = hint
      /\ TurnShape'
      /\ \A u \in Turns : turn'[u].at = turn[u].at
  <2>1. hint' = hint
    BY DEF Worker, TakeTab, ReadHint, OpenChat, Send, Answer, WorkerStops
  <2>2. CASE turn' = [turn EXCEPT ![t].worker = step]
    BY <2>1, <2>2 DEF HintInv, TurnShape
  <2>3. CASE Send(t)
    BY <2>1, <2>3 DEF Send, HintInv, TurnShape
  <2> QED BY <1>1, <2>2, <2>3
<1> QED BY <1>2, ScopeKept DEF HintInv

LEMMA EnvironmentKeepsHintScoped ==
  ASSUME HintInv, (\E t \in Turns : Forget(t)) \/ ShowPath \/ Restart \/ UNCHANGED vars
  PROVE  HintInv'
<1> USE DEF HintInv, TurnShape
<1>1. CASE (\E t \in Turns : Forget(t)) \/ ShowPath \/ UNCHANGED vars
  <2>1. UNCHANGED <<turn, hint>>
    BY <1>1 DEF Forget, ForgetResponse, ForgetBinding, ForgetLineage, PruneSnapshot,
                ShowPath, vars
  <2> QED BY <2>1, ScopeKept
<1>2. CASE Restart
  <2>1. hint' # "set" /\ TurnShape'
    BY <1>2 DEF Restart, HintStates
  <2> QED BY <2>1, ScopeKept
<1> QED BY <1>1, <1>2

(* Whatever ends a stream (completion, failure, cancellation, a client that *)
(* left, a restart), the finally block of the stream asks for the hint to   *)
(* be cleared before the stream is over, and no interleaving of any number  *)
(* of streams sets it again: a hint without a stream is one whose clearing  *)
(* did not reach the tab.                                                   *)
THEOREM HintIsScoped == Spec => []HintScoped
<1>1. HintInv /\ [Next]_vars => HintInv'
  BY HandlerKeepsHintScoped, WorkerKeepsHintScoped, EnvironmentKeepsHintScoped DEF Next
<1>2. HintInv => HintScoped
  BY DEF HintInv
<1> QED BY HintInit, <1>1, <1>2, PTL DEF Spec

-----------------------------------------------------------------------------
(* What the actions do to the records of the turns. *)

(* A turn or nothing: what parent, path, bound, tab and page hold. *)
Here == Turns \cup {NoTurn}

(* The record of a turn, with the types Unborn gives its fields. *)
TurnRecord ==
  [at : HandlerSteps, worker : WorkerSteps, parent : Here, how : {"id", "history"},
   history : Seq(Turns), messages : Seq(Turns), path : Here, skip : Nat,
   sends : Seq(Turns), found : Seq(Turns), bound : Here, boundAt : Nat]

(* The types of the variables, as sets of functions and sequences. *)
TypeInv ==
  /\ turn \in [Turns -> TurnRecord]
  /\ memory \in [Turns -> Seq(Turns)]
  /\ disk \in [Turns -> Seq(Turns)]
  /\ bindings \subseteq Turns
  /\ lineages \in Seq(Turns)
  /\ hint \in HintStates
  /\ tab \in Here
  /\ page \in Here
  /\ named \subseteq Turns
  /\ content \in [Turns -> Seq(Turns)]
  /\ restarts \in 0..MaxRestarts

(* A step of t leaves the records of the other turns alone. *)
Others(t) == \A u \in Turns : u # t => turn'[u] = turn[u]

(* The fields of a turn by who writes them: the client that calls, the      *)
(* preparation, the start of the stream, and the worker and the completion. *)
Birth(u)  == <<turn[u].parent, turn[u].how, turn[u].history>>
Prompt(u) == <<turn[u].messages, turn[u].path, turn[u].skip>>
Sending(u) == turn[u].sends
Outcome(u) == <<turn[u].found, turn[u].bound, turn[u].boundAt>>

(* What each step does to the record of its turn, field by field. *)
LEMMA BeginsEffect ==
  ASSUME turn \in [Turns -> TurnRecord], NEW t \in Turns, NEW p \in Here, NEW how \in {"id", "history"},
         Begins(t, p, how)
  PROVE  /\ turn' \in [Turns -> TurnRecord] /\ Others(t)
         /\ turn'[t].at = "called" /\ turn'[t].worker = "none"
         /\ turn'[t].parent = p /\ turn'[t].how = how
         /\ turn'[t].history = Append(IF p = NoTurn THEN <<>> ELSE turn[p].history, t)
         /\ turn'[t].messages = <<>> /\ turn'[t].path = NoTurn /\ turn'[t].skip = 0
<1> DEFINE h == Append(IF p = NoTurn THEN <<>> ELSE turn[p].history, t)
<1>1. h \in Seq(Turns)
  <2>1. CASE p = NoTurn
    BY <2>1
  <2>2. CASE p # NoTurn
    <3>1. turn[p].history \in Seq(Turns)
      BY <2>2 DEF Here, TurnRecord
    <3>2. QED
      BY <2>2, <3>1
  <2>3. QED
    BY <2>1, <2>2
<1> HIDE DEF h
<1> DEFINE x == [Unborn EXCEPT !.at = "called", !.parent = p, !.how = how, !.history = h]
<1>2. turn' = [turn EXCEPT ![t] = x]
  BY DEF Begins, h
<1>3. /\ x \in TurnRecord
      /\ x.at = "called" /\ x.worker = "none" /\ x.parent = p /\ x.how = how /\ x.history = h
      /\ x.messages = <<>> /\ x.path = NoTurn /\ x.skip = 0
  <2>1. /\ Unborn \in TurnRecord /\ Unborn.worker = "none"
        /\ Unborn.messages = <<>> /\ Unborn.path = NoTurn /\ Unborn.skip = 0
    BY DEF Unborn, TurnRecord, HandlerSteps, WorkerSteps, Here
  <2>2. QED
    BY <1>1, <2>1 DEF TurnRecord, HandlerSteps
<1> HIDE DEF x
<1>4. QED
  BY <1>2, <1>3 DEF Others, h

LEMMA PreparedEffect ==
  ASSUME turn \in [Turns -> TurnRecord], NEW t \in Turns, NEW messages \in Seq(Turns), NEW path \in Here, NEW skip \in Nat,
         Prepared(t, messages, path, skip)
  PROVE  /\ turn' \in [Turns -> TurnRecord] /\ Others(t)
         /\ turn'[t].at = "prepared" /\ turn'[t].worker = turn[t].worker
         /\ Birth(t)' = Birth(t) /\ Sending(t)' = Sending(t) /\ Outcome(t)' = Outcome(t)
         /\ Prompt(t)' = <<messages, path, skip>>
<1> DEFINE x == [turn[t] EXCEPT !.at = "prepared", !.messages = messages, !.path = path, !.skip = skip]
<1>1. turn' = [turn EXCEPT ![t] = x]
  BY DEF Prepared
<1>2. /\ x \in TurnRecord
      /\ x.at = "prepared" /\ x.messages = messages /\ x.path = path /\ x.skip = skip
      /\ x.worker = turn[t].worker
      /\ x.parent = turn[t].parent /\ x.how = turn[t].how /\ x.history = turn[t].history
      /\ x.sends = turn[t].sends /\ x.found = turn[t].found
      /\ x.bound = turn[t].bound /\ x.boundAt = turn[t].boundAt
  BY DEF TurnRecord, HandlerSteps
<1> HIDE DEF x
<1>3. turn'[t] = x /\ Others(t) /\ turn' \in [Turns -> TurnRecord]
  BY <1>1, <1>2 DEF Others
<1>4. QED
  BY <1>2, <1>3 DEF Birth, Sending, Outcome, Prompt

LEMMA StartEffect ==
  ASSUME turn \in [Turns -> TurnRecord], NEW t \in Turns, Start(t), StateMessages(t) \in Seq(Turns), BrowserMessages(t) \in Seq(Turns)
  PROVE  /\ turn' \in [Turns -> TurnRecord] /\ Others(t)
         /\ turn'[t].at = "running" /\ turn'[t].worker = "queued"
         /\ Birth(t)' = Birth(t) /\ Outcome(t)' = Outcome(t)
         /\ Prompt(t)' = <<StateMessages(t), turn[t].path, turn[t].skip>>
         /\ Sending(t)' = BrowserMessages(t)
<1> DEFINE x == [turn[t] EXCEPT !.at = "running", !.worker = "queued", !.messages = StateMessages(t), !.sends = BrowserMessages(t)]
<1>1. turn' = [turn EXCEPT ![t] = x]
  BY DEF Start
<1>2. /\ x \in TurnRecord
      /\ x.at = "running"
      /\ x.worker = "queued"
      /\ x.parent = turn[t].parent
      /\ x.how = turn[t].how
      /\ x.history = turn[t].history
      /\ x.messages = StateMessages(t)
      /\ x.path = turn[t].path
      /\ x.skip = turn[t].skip
      /\ x.sends = BrowserMessages(t)
      /\ x.found = turn[t].found
      /\ x.bound = turn[t].bound
      /\ x.boundAt = turn[t].boundAt
  BY DEF TurnRecord, HandlerSteps, WorkerSteps
<1> HIDE DEF x
<1>3. turn'[t] = x /\ Others(t) /\ turn' \in [Turns -> TurnRecord]
  BY <1>1, <1>2 DEF Others
<1>4. QED
  BY <1>2, <1>3 DEF Birth, Sending, Outcome, Prompt

LEMMA CompleteEffect ==
  ASSUME TypeInv, NEW t \in Turns, Complete(t)
  PROVE  /\ turn' \in [Turns -> TurnRecord] /\ Others(t)
         /\ turn'[t].at = "done" /\ turn'[t].worker = "none"
         /\ Birth(t)' = Birth(t) /\ Prompt(t)' = Prompt(t) /\ Sending(t)' = Sending(t)
         /\ turn'[t].found = turn[t].found /\ turn'[t].bound = BoundPath(t)
<1> DEFINE n == Cardinality(At("done")) + 1
<1>1. n \in Nat
  BY TurnAssumption, FS_Subset, FS_CardinalityType DEF At, TurnAssumption
<1>2. BoundPath(t) \in Here
  BY DEF BoundPath, ShownPath, TypeInv, TurnRecord, Here
<1> DEFINE x == [turn[t] EXCEPT !.at = "done", !.worker = "none", !.bound = BoundPath(t), !.boundAt = n]
<1>3. turn' = [turn EXCEPT ![t] = x]
  BY DEF Complete
<1> HIDE DEF n
<1>4. /\ x \in TurnRecord
      /\ x.at = "done"
      /\ x.worker = "none"
      /\ x.parent = turn[t].parent
      /\ x.how = turn[t].how
      /\ x.history = turn[t].history
      /\ x.messages = turn[t].messages
      /\ x.path = turn[t].path
      /\ x.skip = turn[t].skip
      /\ x.sends = turn[t].sends
      /\ x.found = turn[t].found
      /\ x.bound = BoundPath(t)
      /\ x.boundAt = n
  BY <1>1, <1>2 DEF TypeInv, TurnRecord, HandlerSteps, WorkerSteps
<1> HIDE DEF x
<1>5. turn'[t] = x /\ Others(t) /\ turn' \in [Turns -> TurnRecord]
  BY <1>3, <1>4 DEF Others, TypeInv
<1>6. QED
  BY <1>4, <1>5 DEF Birth, Sending, Prompt

(* Only the steps of the handler and the worker move. *)
Moved(t, at, worker) ==
  /\ turn' \in [Turns -> TurnRecord] /\ Others(t)
  /\ turn'[t].at = at /\ turn'[t].worker = worker
  /\ Birth(t)' = Birth(t) /\ Prompt(t)' = Prompt(t) /\ Sending(t)' = Sending(t) /\ Outcome(t)' = Outcome(t)

LEMMA AtEffect ==
  ASSUME turn \in [Turns -> TurnRecord], NEW t \in Turns, NEW step \in HandlerSteps,
         turn' = [turn EXCEPT ![t].at = step]
  PROVE  Moved(t, step, turn[t].worker)
  BY DEF Moved, TurnRecord, Others, Birth, Sending, Outcome, Prompt

LEMMA WorksEffect ==
  ASSUME turn \in [Turns -> TurnRecord], NEW t \in Turns, NEW step \in WorkerSteps, Works(t, step)
  PROVE  Moved(t, turn[t].at, step)
  BY DEF Moved, Works, TurnRecord, Others, Birth, Sending, Outcome, Prompt

LEMMA BothEffect ==
  ASSUME turn \in [Turns -> TurnRecord], NEW t \in Turns, NEW step \in HandlerSteps, NEW work \in WorkerSteps,
         turn' = [turn EXCEPT ![t].at = step, ![t].worker = work]
  PROVE  Moved(t, step, work)
<1> DEFINE x == [turn[t] EXCEPT !.at = step, !.worker = work]
<1>1. turn' = [turn EXCEPT ![t] = x]
  OBVIOUS
<1>2. /\ x \in TurnRecord
      /\ x.at = step
      /\ x.worker = work
      /\ x.parent = turn[t].parent
      /\ x.how = turn[t].how
      /\ x.history = turn[t].history
      /\ x.messages = turn[t].messages
      /\ x.path = turn[t].path
      /\ x.skip = turn[t].skip
      /\ x.sends = turn[t].sends
      /\ x.found = turn[t].found
      /\ x.bound = turn[t].bound
      /\ x.boundAt = turn[t].boundAt
  BY DEF TurnRecord
<1> HIDE DEF x
<1>3. turn'[t] = x /\ Others(t) /\ turn' \in [Turns -> TurnRecord]
  BY <1>1, <1>2 DEF Others
<1>4. QED
  BY <1>2, <1>3 DEF Moved, Birth, Sending, Outcome, Prompt

LEMMA SendEffect ==
  ASSUME TypeInv, NEW t \in Turns, Send(t)
  PROVE  LET c == IF page = NoTurn THEN t ELSE page IN
         /\ turn' \in [Turns -> TurnRecord] /\ Others(t)
         /\ turn'[t].at = turn[t].at /\ turn'[t].worker = Then(t, "sent")
         /\ Birth(t)' = Birth(t) /\ Prompt(t)' = Prompt(t) /\ Sending(t)' = Sending(t)
         /\ turn'[t].found = content[c] /\ turn'[t].bound = turn[t].bound
<1> DEFINE c == IF page = NoTurn THEN t ELSE page
<1>0. content[c] \in Seq(Turns)
  BY DEF TypeInv, Here
<1> DEFINE x == [turn[t] EXCEPT !.worker = Then(t, "sent"), !.found = content[c]]
<1>1. turn' = [turn EXCEPT ![t] = x]
  BY DEF Send
<1> HIDE DEF c
<1>2. /\ x \in TurnRecord
      /\ x.at = turn[t].at
      /\ x.worker = Then(t, "sent")
      /\ x.parent = turn[t].parent
      /\ x.how = turn[t].how
      /\ x.history = turn[t].history
      /\ x.messages = turn[t].messages
      /\ x.path = turn[t].path
      /\ x.skip = turn[t].skip
      /\ x.sends = turn[t].sends
      /\ x.found = content[c]
      /\ x.bound = turn[t].bound
      /\ x.boundAt = turn[t].boundAt
  BY <1>0 DEF TypeInv, TurnRecord, WorkerSteps, OnThePage, Then
<1> HIDE DEF x
<1>3. turn'[t] = x /\ Others(t) /\ turn' \in [Turns -> TurnRecord]
  BY <1>1, <1>2 DEF Others, TypeInv
<1>4. QED
  BY <1>2, <1>3 DEF Birth, Sending, Prompt, c

LEMMA RestartEffect ==
  ASSUME TypeInv, Restart
  PROVE  /\ turn' \in [Turns -> TurnRecord]
         /\ \A u \in Turns :
              /\ turn'[u].worker = "none"
              /\ turn'[u].at = IF turn[u].at \in {"called", "prepared", "running", "leaving"} THEN "ended" ELSE turn[u].at
              /\ Birth(u)' = Birth(u) /\ Prompt(u)' = Prompt(u) /\ Sending(u)' = Sending(u) /\ Outcome(u)' = Outcome(u)
<1> DEFINE cut(u) == turn[u].at \in {"called", "prepared", "running", "leaving"}
<1> DEFINE x(u) == IF cut(u) THEN [turn[u] EXCEPT !.at = "ended", !.worker = "none"]
                   ELSE [turn[u] EXCEPT !.worker = "none"]
<1>1. turn' = [u \in Turns |-> x(u)]
  <2>1. \A u \in Turns : u \in Served \cup At("leaving") <=> cut(u)
    BY DEF Served, At
  <2>2. QED
    BY <2>1 DEF Restart
<1>2. ASSUME NEW u \in Turns
      PROVE
        /\ x(u) \in TurnRecord
        /\ x(u).worker = "none"
        /\ x(u).at = IF cut(u) THEN "ended" ELSE turn[u].at
        /\ x(u).parent = turn[u].parent
        /\ x(u).how = turn[u].how
        /\ x(u).history = turn[u].history
        /\ x(u).messages = turn[u].messages
        /\ x(u).path = turn[u].path
        /\ x(u).skip = turn[u].skip
        /\ x(u).sends = turn[u].sends
        /\ x(u).found = turn[u].found
        /\ x(u).bound = turn[u].bound
        /\ x(u).boundAt = turn[u].boundAt
  <2>0. turn[u] \in TurnRecord
    BY DEF TypeInv
  <2>1. CASE cut(u)
    BY <2>0, <2>1 DEF TurnRecord, HandlerSteps, WorkerSteps
  <2>2. CASE ~cut(u)
    BY <2>0, <2>2 DEF TurnRecord, HandlerSteps, WorkerSteps
  <2>3. QED
    BY <2>1, <2>2
<1> HIDE DEF x
<1>3. turn' \in [Turns -> TurnRecord] /\ \A u \in Turns : turn'[u] = x(u)
  BY <1>1, <1>2
<1>4. QED
  BY <1>2, <1>3 DEF Birth, Prompt, Sending, Outcome

-----------------------------------------------------------------------------
(* Sequences, and the lineages a transcript matches. *)

(* The largest index of a nonempty set of indices is one of them. *)
LEMMA MaxOfIndices ==
  ASSUME NEW n \in Nat, NEW I \in SUBSET (1..n), I # {}
  PROVE  Max(I) \in I /\ \A j \in I : j <= Max(I)
<1> DEFINE T == {n - i : i \in I}
<1>1. T \subseteq Nat /\ T # {}
  OBVIOUS
<1>2. PICK x \in T : \A y \in T : ~(<<y, x>> \in OpToRel(<, Nat))
  BY <1>1, NatLessThanWellFounded, WFMin
<1>3. \A y \in T : ~(y < x)
  BY <1>1, <1>2 DEF OpToRel
<1>4. PICK m \in I : x = n - m
  OBVIOUS
<1>5. ASSUME NEW j \in I PROVE j <= m
  <2>1. n - j \in T /\ ~(n - j < n - m)
    BY <1>3, <1>4
  <2>2. QED
    BY <2>1
<1>6. \E k \in I : \A j \in I : k >= j
  BY <1>5
<1>7. QED
  BY <1>6 DEF Max

(* What the elements of a sequence built from others are. *)
LEMMA ToSetAppend ==
  ASSUME NEW S, NEW s \in Seq(S), NEW e \in S
  PROVE  ToSet(Append(s, e)) = ToSet(s) \cup {e}
<1>1. /\ Len(Append(s, e)) = Len(s) + 1
      /\ \A i \in 1..Len(s) : Append(s, e)[i] = s[i]
      /\ Append(s, e)[Len(s) + 1] = e
  OBVIOUS
<1>2. DOMAIN s = 1..Len(s) /\ DOMAIN Append(s, e) = 1..(Len(s) + 1)
  BY <1>1
<1>3. ToSet(s) \cup {e} \subseteq ToSet(Append(s, e))
  BY <1>1, <1>2 DEF ToSet
<1>4. ToSet(Append(s, e)) \subseteq ToSet(s) \cup {e}
  BY <1>1, <1>2 DEF ToSet
<1>5. QED
  BY <1>3, <1>4

LEMMA ToSetType ==
  ASSUME NEW S, NEW s \in Seq(S)
  PROVE  ToSet(s) \subseteq S
  BY DEF ToSet

LEMMA ToSetConcat ==
  ASSUME NEW S, NEW s \in Seq(S), NEW u \in Seq(S)
  PROVE  ToSet(s \o u) = ToSet(s) \cup ToSet(u)
<1>0. Len(s) \in Nat /\ Len(u) \in Nat
  OBVIOUS
<1>1. /\ Len(s \o u) = Len(s) + Len(u)
      /\ \A i \in 1..Len(s) : (s \o u)[i] = s[i]
      /\ \A i \in 1..Len(u) : (s \o u)[Len(s) + i] = u[i]
  OBVIOUS
<1>2. DOMAIN s = 1..Len(s) /\ DOMAIN u = 1..Len(u) /\ DOMAIN (s \o u) = 1..(Len(s) + Len(u))
  BY <1>1
<1>3. ToSet(s) \subseteq ToSet(s \o u)
  BY <1>0, <1>1, <1>2 DEF ToSet
<1>4. ToSet(u) \subseteq ToSet(s \o u)
  <2>1. ASSUME NEW i \in 1..Len(u) PROVE u[i] \in ToSet(s \o u)
    BY <1>0, <1>1, <1>2 DEF ToSet
  <2>2. QED
    BY <1>2, <2>1 DEF ToSet
<1>5. ToSet(s \o u) \subseteq ToSet(s) \cup ToSet(u)
  <2>1. ASSUME NEW i \in 1..(Len(s) + Len(u)) PROVE (s \o u)[i] \in ToSet(s) \cup ToSet(u)
    <3>1. CASE i <= Len(s)
      BY <1>0, <1>1, <1>2, <3>1 DEF ToSet
    <3>2. CASE i > Len(s)
      <4>1. i - Len(s) \in 1..Len(u) /\ i = Len(s) + (i - Len(s))
        BY <1>0, <3>2
      <4>2. (s \o u)[i] = u[i - Len(s)]
        BY <1>1, <4>1
      <4>3. QED
        BY <1>2, <4>1, <4>2 DEF ToSet
    <3>3. QED
      BY <1>0, <3>1, <3>2
  <2>2. QED
    BY <1>2, <2>1 DEF ToSet
<1>6. QED
  BY <1>3, <1>4, <1>5

(* RemoveAt drops one element, and keeps the order of the others. *)
LEMMA RemoveAtFacts ==
  ASSUME NEW S, NEW s \in Seq(S), NEW i \in 1..Len(s)
  PROVE  /\ RemoveAt(s, i) \in Seq(S)
         /\ Len(RemoveAt(s, i)) = Len(s) - 1
         /\ \A j \in 1..(Len(s) - 1) : RemoveAt(s, i)[j] = IF j < i THEN s[j] ELSE s[j + 1]
         /\ ToSet(RemoveAt(s, i)) \subseteq ToSet(s)
<1> DEFINE a == SubSeq(s, 1, i - 1)
<1> DEFINE b == SubSeq(s, i + 1, Len(s))
<1>0. Len(s) \in Nat /\ i \in Nat /\ 1 <= i /\ i <= Len(s)
  OBVIOUS
<1>1. a \in Seq(S) /\ Len(a) = i - 1 /\ \A j \in 1..(i - 1) : a[j] = s[j]
  BY <1>0, SubSeqProperties
<1>2. b \in Seq(S) /\ Len(b) = Len(s) - i /\ \A j \in 1..(Len(s) - i) : b[j] = s[i + j]
  BY <1>0, SubSeqProperties
<1>3. RemoveAt(s, i) = a \o b
  BY DEF RemoveAt
<1> HIDE DEF a, b
<1>4. /\ a \o b \in Seq(S) /\ Len(a \o b) = Len(s) - 1
      /\ \A j \in 1..(i - 1) : (a \o b)[j] = a[j]
      /\ \A j \in 1..(Len(s) - i) : (a \o b)[i - 1 + j] = b[j]
  BY <1>0, <1>1, <1>2
<1>5. ASSUME NEW j \in 1..(Len(s) - 1) PROVE (a \o b)[j] = IF j < i THEN s[j] ELSE s[j + 1]
  <2>1. CASE j < i
    <3>1. j \in 1..(i - 1)
      BY <1>0, <2>1
    <3>2. (a \o b)[j] = a[j] /\ a[j] = s[j]
      BY <1>1, <1>4, <3>1
    <3>3. QED
      BY <2>1, <3>2
  <2>2. CASE ~(j < i)
    <3> DEFINE k == j - i + 1
    <3>1. k \in 1..(Len(s) - i) /\ j = i - 1 + k /\ i + k = j + 1
      BY <1>0, <2>2
    <3> HIDE DEF k
    <3>2. (a \o b)[i - 1 + k] = b[k]
      BY <1>4, <3>1
    <3>3. b[k] = s[i + k]
      BY <1>2, <3>1
    <3>4. QED
      BY <2>2, <3>1, <3>2, <3>3
  <2>3. QED
    BY <2>1, <2>2
<1>6. ToSet(a \o b) \subseteq ToSet(s)
  <2>1. DOMAIN (a \o b) = 1..(Len(s) - 1) /\ DOMAIN s = 1..Len(s)
    BY <1>4
  <2>2. ASSUME NEW j \in 1..(Len(s) - 1) PROVE (a \o b)[j] \in ToSet(s)
    <3>1. j \in 1..Len(s) /\ j + 1 \in 1..Len(s)
      BY <1>0
    <3>2. s[j] \in ToSet(s) /\ s[j + 1] \in ToSet(s)
      BY <2>1, <3>1 DEF ToSet
    <3>3. QED
      BY <1>5, <3>2
  <2>3. QED
    BY <2>1, <2>2 DEF ToSet
<1>7. QED
  BY <1>3, <1>4, <1>5, <1>6

(* The lineage a transcript matches is the last it extends. *)
LEMMA LineageFacts ==
  ASSUME lineages \in Seq(Turns), NEW t \in Turns
  PROVE  /\ Lineage(t) # NoTurn =>
              /\ turn[t].how = "history"
              /\ LineageAt(t) \in 1..Len(lineages)
              /\ Lineage(t) = lineages[LineageAt(t)] /\ Lineage(t) \in ToSet(lineages)
              /\ Extends(t, Lineage(t))
              /\ \A j \in 1..Len(lineages) : j > LineageAt(t) => ~Extends(t, lineages[j])
         /\ Lineage(t) = NoTurn => LineageAt(t) = 0
<1> DEFINE I == {i \in 1..Len(lineages) : Extends(t, lineages[i])}
<1>1. LineageAt(t) = IF turn[t].how = "history" /\ I # {} THEN Max(I) ELSE 0
  BY DEF LineageAt, SelectLastInSeq
<1>2. I # {} => Max(I) \in I /\ \A j \in I : j <= Max(I)
  <2>1. Len(lineages) \in Nat /\ I \in SUBSET (1..Len(lineages))
    OBVIOUS
  <2> HIDE DEF I
  <2>2. QED
    BY <2>1, MaxOfIndices
<1>3. DOMAIN lineages = 1..Len(lineages) /\ Len(lineages) \in Nat
  OBVIOUS
<1>4. CASE turn[t].how = "history" /\ I # {}
  <2>1. LineageAt(t) \in I /\ \A j \in I : j <= LineageAt(t)
    BY <1>1, <1>2, <1>4
  <2>2. LineageAt(t) \in 1..Len(lineages) /\ LineageAt(t) > 0
    BY <1>3, <2>1
  <2>3. Lineage(t) = lineages[LineageAt(t)]
    BY <2>2 DEF Lineage
  <2>4. Lineage(t) \in Turns /\ NoTurn \notin Turns
    BY <2>2, <2>3, TurnAssumption DEF TurnAssumption
  <2>5. ASSUME NEW j \in 1..Len(lineages), j > LineageAt(t) PROVE ~Extends(t, lineages[j])
    <3>1. j \in I => j <= LineageAt(t)
      BY <2>1
    <3>2. QED
      BY <1>3, <2>2, <2>5, <3>1
  <2>6. QED
    BY <1>3, <1>4, <2>1, <2>2, <2>3, <2>4, <2>5 DEF ToSet
<1>5. CASE ~(turn[t].how = "history" /\ I # {})
  BY <1>1, <1>5 DEF Lineage
<1>6. QED
  BY <1>4, <1>5

LEMMA UseLineageFacts ==
  ASSUME lineages \in Seq(Turns), NEW t \in Turns, UseLineage(t)
  PROVE  lineages' \in Seq(Turns) /\ ToSet(lineages') \subseteq ToSet(lineages)
<1>1. CASE Lineage(t) = NoTurn
  BY <1>1, LineageFacts DEF UseLineage
<1>2. CASE Lineage(t) # NoTurn
  <2> DEFINE rest == RemoveAt(lineages, LineageAt(t))
  <2>1. LineageAt(t) \in 1..Len(lineages) /\ Lineage(t) \in ToSet(lineages) /\ Lineage(t) \in Turns
    BY <1>2, LineageFacts
  <2>2. rest \in Seq(Turns) /\ ToSet(rest) \subseteq ToSet(lineages)
    BY <2>1, RemoveAtFacts
  <2>3. lineages' = Append(rest, Lineage(t))
    BY <2>1 DEF UseLineage
  <2> HIDE DEF rest
  <2>4. QED
    BY <2>1, <2>2, <2>3, ToSetAppend
<1>3. QED
  BY <1>1, <1>2

-----------------------------------------------------------------------------
(* Types. *)

(* A continuation by id continues a turn; what is skipped is part of the    *)
(* transcript; only a continuation by id leaves its messages to the start   *)
(* of the stream.                                                           *)
Fit(u) ==
  /\ turn[u].how = "id" => turn[u].parent \in Turns
  /\ turn[u].skip <= Len(turn[u].history)
  /\ turn[u].at # "unborn" => turn[u].history # <<>>
  /\ turn[u].at = "prepared" /\ turn[u].messages = <<>> => turn[u].how = "id"

(* What is kept of a response, in memory, on disk or as a binding, is of a  *)
(* completed turn.                                                          *)
Stored ==
  /\ \A u \in Turns : Fit(u)
  /\ \A u \in Turns : memory[u] # <<>> => turn[u].at = "done" /\ memory[u] = turn[u].messages
  /\ \A u \in Turns : disk[u] # <<>> => turn[u].at = "done" /\ disk[u] = turn[u].messages
  /\ \A u \in bindings \cup ToSet(lineages) : turn[u].at = "done"

(* The inductive invariant behind TypeOK. *)
Sound == TypeInv /\ Stored

(* The type of every field of a turn. *)
LEMMA Fields ==
  ASSUME turn \in [Turns -> TurnRecord], NEW t \in Turns
  PROVE  /\ turn[t].at \in HandlerSteps /\ turn[t].worker \in WorkerSteps
         /\ turn[t].parent \in Here /\ turn[t].how \in {"id", "history"}
         /\ turn[t].history \in Seq(Turns) /\ turn[t].messages \in Seq(Turns)
         /\ turn[t].path \in Here /\ turn[t].skip \in Nat
         /\ turn[t].sends \in Seq(Turns) /\ turn[t].found \in Seq(Turns)
         /\ turn[t].bound \in Here /\ turn[t].boundAt \in Nat
  BY DEF TurnRecord

LEMMA ParentFacts ==
  ASSUME Sound, NEW t \in Turns, turn[t].how = "id"
  PROVE  /\ turn[t].parent \in Turns /\ memory[turn[t].parent] \in Seq(Turns)
         /\ disk[turn[t].parent] \in Seq(Turns)
  BY DEF Sound, Stored, Fit, TypeInv

(* What is kept stays right while completed turns keep their messages. *)
LEMMA StoredKept ==
  ASSUME Stored, lineages \in Seq(Turns), bindings \subseteq Turns, NEW t \in Turns, Others(t),
         turn[t].at = "done" => turn'[t].at = "done" /\ turn'[t].messages = turn[t].messages,
         Fit(t)',
         UNCHANGED <<memory, disk>>,
         bindings' \subseteq bindings, ToSet(lineages') \subseteq ToSet(lineages)
  PROVE  Stored'
<1>1. ASSUME NEW u \in Turns
      PROVE  /\ Fit(u)'
             /\ turn[u].at = "done" => turn'[u].at = "done" /\ turn'[u].messages = turn[u].messages
  BY DEF Stored, Fit, Others
<1>2. \A u \in bindings \cup ToSet(lineages) : u \in Turns
  BY DEF ToSet
<1>3. QED
  BY <1>1, <1>2 DEF Stored

(* What the calls of set_codex_workflow_reuse_hint leave of the hint. *)
LEMMA HintMoves ==
  ASSUME hint \in HintStates
  PROVE  HintSet \subseteq HintStates /\ HintCleared \subseteq {"clear", "left"}
                                     /\ HintCleared \subseteq HintStates
  BY DEF HintSet, HintCleared, HintStates

(* A step of one handler or worker that touches neither its transcript nor what is kept. *)
LEMMA SoundMoved ==
  ASSUME Sound, NEW t \in Turns, NEW at, NEW worker, Moved(t, at, worker),
         turn[t].at = "done" => at = "done", at \in {"unborn", "prepared"} => at = turn[t].at,
         turn[t].at = "unborn" => at = "unborn",
         UNCHANGED <<memory, disk, bindings, named, content, restarts>>,
         lineages' \in Seq(Turns), ToSet(lineages') \subseteq ToSet(lineages),
         hint' \in HintStates, tab' \in Here, page' \in Here
  PROVE  Sound'
<1>1. TypeInv'
  BY DEF Sound, TypeInv, Moved
<1>2. /\ turn'[t].messages = turn[t].messages /\ turn'[t].skip = turn[t].skip
      /\ turn'[t].history = turn[t].history /\ turn'[t].at = at
      /\ turn'[t].how = turn[t].how /\ turn'[t].parent = turn[t].parent
  BY DEF Moved, Birth, Prompt
<1>3. Fit(t)'
  BY <1>2 DEF Sound, Stored, Fit
<1>5. Stored'
  BY <1>2, <1>3, StoredKept DEF Sound, TypeInv, Moved
<1>4. QED
  BY <1>1, <1>5 DEF Sound
(* Each step keeps Sound. *)
LEMMA SoundCall ==
  ASSUME Sound, NEW t \in Turns, Call(t)
  PROVE  Sound'
<1>1. PICK p \in Here, how \in {"id", "history"} : Begins(t, p, how) /\ (how = "id" => p \in Turns)
  BY DEF Call, Here
<1>2. /\ turn' \in [Turns -> TurnRecord] /\ Others(t)
      /\ turn'[t].skip = 0 /\ turn'[t].history \in Seq(Turns) /\ turn'[t].history # <<>> /\ turn'[t].at = "called"
      /\ turn'[t].how = how /\ turn'[t].parent = p
  <2>1. turn \in [Turns -> TurnRecord]
    BY DEF Sound, TypeInv
  <2>2. /\ turn' \in [Turns -> TurnRecord] /\ Others(t)
        /\ turn'[t].skip = 0 /\ turn'[t].how = how /\ turn'[t].parent = p /\ turn'[t].at = "called"
        /\ turn'[t].history = Append(IF p = NoTurn THEN <<>> ELSE turn[p].history, t)
    BY <1>1, <2>1, BeginsEffect
  <2>3. turn'[t].history \in Seq(Turns) /\ turn'[t].history # <<>>
    <3>1. (IF p = NoTurn THEN <<>> ELSE turn[p].history) \in Seq(Turns)
      BY <2>1, Fields DEF Here
    <3>2. QED
      BY <2>2, <3>1
  <2>4. QED
    BY <2>2, <2>3
<1>0. turn[t].at = "unborn" /\ UNCHANGED <<memory, disk, bindings, lineages, hint, tab, page, named, content, restarts>>
  BY DEF Call, affinity
<1>3. TypeInv'
  BY <1>0, <1>2 DEF Sound, TypeInv
<1>4. Stored'
  <2>1. Fit(t)'
    BY <1>1, <1>2 DEF Fit
  <2>2. Stored /\ lineages \in Seq(Turns) /\ bindings \subseteq Turns
    BY DEF Sound, TypeInv
  <2>3. QED
    BY <1>0, <1>1, <1>2, <2>1, <2>2, StoredKept
<1>5. QED
  BY <1>3, <1>4 DEF Sound

(* What a turn is prepared with are exchanges. *)
LEMMA PreparedSound ==
  ASSUME Sound, NEW t \in Turns, NEW messages \in Seq(Turns), NEW path \in Here, NEW skip \in Nat,
         Prepared(t, messages, path, skip), turn[t].at = "called", skip <= Len(turn[t].history),
         messages = <<>> => turn[t].how = "id",
         UNCHANGED <<memory, disk, bindings, hint, tab, named, content, restarts>>,
         lineages' \in Seq(Turns), ToSet(lineages') \subseteq ToSet(lineages), page' \in Here
  PROVE  Sound'
<1>0. turn \in [Turns -> TurnRecord]
  BY DEF Sound, TypeInv
<1>6. /\ turn' \in [Turns -> TurnRecord] /\ Others(t)
      /\ turn'[t].at = "prepared"
      /\ Birth(t)' = Birth(t) /\ Prompt(t)' = <<messages, path, skip>>
  BY <1>0, PreparedEffect
<1>1. /\ turn' \in [Turns -> TurnRecord] /\ Others(t)
      /\ turn'[t].history = turn[t].history /\ turn'[t].skip = skip
      /\ turn'[t].how = turn[t].how /\ turn'[t].parent = turn[t].parent
      /\ turn'[t].messages = messages
  BY <1>6 DEF Birth, Prompt
<1>2. TypeInv'
  BY <1>1 DEF Sound, TypeInv
<1>5. Fit(t)'
  BY <1>1 DEF Sound, Stored, Fit
<1>3. Stored'
  BY <1>1, <1>5, StoredKept DEF Sound, TypeInv
<1>4. QED
  BY <1>2, <1>3 DEF Sound

LEMMA HydratedType ==
  ASSUME Sound, NEW t \in Turns
  PROVE  /\ Hydrated(t) \in Seq(Turns) /\ <<t>> \in Seq(Turns) /\ <<t>> # <<>>
         /\ turn[t].at = "called" /\ Hydrated(t) = <<>> => turn[t].how = "id"
<1>1. turn[t].history \in Seq(Turns) /\ (turn[t].at = "called" => turn[t].history # <<>>)
  BY Fields DEF Sound, TypeInv, Stored, Fit
<1>2. QED
  BY <1>1, ParentFacts, Fields DEF Hydrated, Sound, TypeInv

LEMMA BindingType ==
  ASSUME Sound, NEW t \in Turns
  PROVE  Binding(t) \in Here
  BY ParentFacts, Fields DEF Binding, Sound, TypeInv, Here

LEMMA LineageType ==
  ASSUME Sound, NEW t \in Turns, Lineage(t) # NoTurn
  PROVE  /\ Lineage(t) \in Turns
         /\ turn[Lineage(t)].bound \in Here
         /\ Len(turn[Lineage(t)].messages) \in Nat
         /\ Len(turn[Lineage(t)].messages) <= Len(turn[t].history)
<1>0. lineages \in Seq(Turns)
  BY DEF Sound, TypeInv
<1>1. Lineage(t) \in Turns /\ Extends(t, Lineage(t))
  BY <1>0, LineageFacts
<1>2. QED
  BY <1>1, Fields DEF Sound, TypeInv, Extends, IsStrictPrefix, IsPrefix

LEMMA AfterRestoreType ==
  ASSUME Sound, NEW t \in Turns, NEW shown \in AfterRestore(t)
  PROVE  shown \in Here /\ NewChat(shown) \in Here
  BY BindingType, LineageType DEF AfterRestore, NewChat, Sound, TypeInv, Here

LEMMA SoundPrepare ==
  ASSUME Sound, NEW t \in Turns, Prepare(t)
  PROVE  Sound'
<1>7. turn[t].at = "called" /\ turn \in [Turns -> TurnRecord] /\ lineages \in Seq(Turns)
  BY DEF Sound, TypeInv, Prepare, PrepareReuse, PrepareLineage, PrepareFresh, PrepareDegraded, PrepareFails
<1>0. /\ turn[t].at = "called" /\ turn[t].history \in Seq(Turns) /\ Hydrated(t) \in Seq(Turns)
      /\ <<t>> \in Seq(Turns) /\ <<t>> # <<>> /\ (Hydrated(t) = <<>> => turn[t].how = "id") /\ Binding(t) \in Here /\ NoTurn \in Here
      /\ 0 \in Nat /\ 0 <= Len(turn[t].history) /\ lineages \in Seq(Turns)
  <2>1. turn[t].history \in Seq(Turns)
    BY <1>7, Fields
  <2>2. QED
    BY <1>7, <2>1, HydratedType, BindingType DEF Here
<1>1. CASE PrepareReuse(t)
  BY <1>0, <1>1, PreparedSound DEF PrepareReuse, affinity
<1>2. CASE PrepareLineage(t)
  <2>1. UseLineage(t) /\ Lineage(t) # NoTurn
    BY <1>2 DEF PrepareLineage
  <2>2. lineages' \in Seq(Turns) /\ ToSet(lineages') \subseteq ToSet(lineages) /\ UNCHANGED bindings
    BY <1>0, <2>1, UseLineageFacts DEF UseLineage
  <2>3. page' \in Here
    BY <1>2, <2>1, LineageType DEF PrepareLineage
  <2>4. QED
    BY <1>0, <1>2, <2>1, <2>2, <2>3, LineageType, PreparedSound DEF PrepareLineage
<1>3. CASE PrepareFresh(t)
  <2>1. lineages' \in Seq(Turns) /\ ToSet(lineages') \subseteq ToSet(lineages) /\ UNCHANGED bindings
    BY <1>0, <1>3, UseLineageFacts DEF UseLineage, PrepareFresh
  <2>2. page' \in Here
    BY <1>3, AfterRestoreType DEF PrepareFresh
  <2>3. QED
    BY <1>0, <1>3, <2>1, <2>2, PreparedSound DEF PrepareFresh
<1>4. CASE PrepareDegraded(t)
  BY <1>0, <1>4, PreparedSound DEF PrepareDegraded, affinity
<1>5. CASE PrepareFails(t)
  <2>1. lineages' \in Seq(Turns) /\ ToSet(lineages') \subseteq ToSet(lineages) /\ UNCHANGED bindings
    BY <1>0, <1>5, UseLineageFacts DEF UseLineage, PrepareFails
  <2>2. page' \in Here
    BY <1>5, AfterRestoreType DEF PrepareFails
  <2>3. Moved(t, "ended", turn[t].worker)
    BY <1>5, AtEffect DEF PrepareFails, Sound, TypeInv, HandlerSteps
  <2>4. QED
    BY <1>0, <1>5, <2>1, <2>2, <2>3, SoundMoved DEF PrepareFails, Sound, TypeInv
<1>6. QED
  BY <1>1, <1>2, <1>3, <1>4, <1>5 DEF Prepare

LEMMA MessagesType ==
  ASSUME Sound, NEW t \in Turns, turn[t].at = "prepared", ~StateLost(t)
  PROVE  StateMessages(t) \in Seq(Turns) /\ BrowserMessages(t) \in Seq(Turns)
<1>0. turn[t].messages \in Seq(Turns) /\ turn[t].skip \in Nat
  BY Fields DEF Sound, TypeInv
<1>1. StateMessages(t) \in Seq(Turns)
  <2>1. CASE turn[t].messages = <<>>
    <3>1. turn[t].how = "id"
      BY <2>1 DEF Sound, Stored, Fit
    <3>2. memory[turn[t].parent] \in Seq(Turns)
      BY <3>1, ParentFacts
    <3>3. QED
      BY <2>1, <3>2 DEF StateMessages
  <2>2. QED
    BY <1>0, <2>1 DEF StateMessages
<1> DEFINE s == StateMessages(t)
<1>3. BrowserMessages(t) = IF turn[t].path = NoTurn THEN s
                           ELSE IF turn[t].skip > 0 THEN SubSeq(s, turn[t].skip + 1, Len(s)) ELSE <<t>>
  BY DEF BrowserMessages
<1>4. s \in Seq(Turns)
  BY <1>1
<1> HIDE DEF s
<1>5. Len(s) \in Nat /\ turn[t].skip + 1 \in Nat /\ turn[t].skip + 1 >= 1
  BY <1>0, <1>4
<1>6. SubSeq(s, turn[t].skip + 1, Len(s)) \in Seq(Turns)
  BY <1>4, <1>5, SubSeqProperties
<1>7. <<t>> \in Seq(Turns)
  OBVIOUS
<1>8. QED
  BY <1>1, <1>3, <1>4, <1>6, <1>7

LEMMA SoundStart ==
  ASSUME Sound, NEW t \in Turns, Start(t)
  PROVE  Sound'
<1>0. turn \in [Turns -> TurnRecord] /\ turn[t].at = "prepared" /\ ~StateLost(t)
  BY DEF Start, Sound, TypeInv
<1>1. /\ turn' \in [Turns -> TurnRecord] /\ Others(t)
      /\ turn'[t].at = "running"
      /\ Birth(t)' = Birth(t)
      /\ Prompt(t)' = <<StateMessages(t), turn[t].path, turn[t].skip>>
  BY <1>0, MessagesType, StartEffect
<1>2. /\ turn'[t].history = turn[t].history /\ turn'[t].skip = turn[t].skip
      /\ turn'[t].how = turn[t].how /\ turn'[t].parent = turn[t].parent
  BY <1>1 DEF Birth, Prompt
<1>3. UNCHANGED <<memory, disk, bindings, lineages, tab, page, named, content, restarts>> /\ hint' \in HintStates
  BY HintMoves DEF Start, affinity, Sound, TypeInv
<1>4. TypeInv'
  BY <1>1, <1>3 DEF Sound, TypeInv
<1>5. Fit(t)'
  BY <1>0, <1>1, <1>2 DEF Sound, Stored, Fit
<1>6. Stored'
  BY <1>0, <1>1, <1>3, <1>5, StoredKept DEF Sound, TypeInv
<1>7. QED
  BY <1>4, <1>6 DEF Sound

LEMMA SoundComplete ==
  ASSUME Sound, NEW t \in Turns, Complete(t)
  PROVE  Sound'
<1>0. /\ turn \in [Turns -> TurnRecord] /\ turn[t].at = "running" /\ TypeInv /\ lineages \in Seq(Turns)
      /\ memory \in [Turns -> Seq(Turns)] /\ disk \in [Turns -> Seq(Turns)] /\ bindings \subseteq Turns
  BY DEF Complete, Sound, TypeInv
<1>1. /\ turn' \in [Turns -> TurnRecord] /\ Others(t)
      /\ turn'[t].at = "done"
      /\ Birth(t)' = Birth(t) /\ Prompt(t)' = Prompt(t)
  BY <1>0, CompleteEffect
<1>2. /\ turn'[t].history = turn[t].history /\ turn'[t].skip = turn[t].skip
      /\ turn'[t].how = turn[t].how /\ turn'[t].parent = turn[t].parent
      /\ turn'[t].messages = turn[t].messages /\ turn[t].messages \in Seq(Turns)
  BY <1>0, <1>1, Fields DEF Birth, Prompt
<1>3. /\ hint' \in HintStates
      /\ memory' = [memory EXCEPT ![t] = turn[t].messages]
      /\ disk' = [disk EXCEPT ![t] = turn[t].messages] \/ disk' = disk
      /\ UNCHANGED <<tab, page, named, content, restarts>>
      /\ bindings' \subseteq bindings \cup {t}
      /\ lineages' = lineages \/ lineages' = Append(lineages, t)
  BY HintMoves DEF Complete, Snapshot, affinity, Sound, TypeInv
<1>4. /\ memory' \in [Turns -> Seq(Turns)] /\ disk' \in [Turns -> Seq(Turns)] /\ bindings' \subseteq Turns
      /\ memory'[t] = turn[t].messages /\ disk'[t] \in {disk[t], turn[t].messages}
      /\ \A u \in Turns : u # t => memory'[u] = memory[u] /\ disk'[u] = disk[u]
  <2>1. /\ memory' \in [Turns -> Seq(Turns)] /\ memory'[t] = turn[t].messages
        /\ \A u \in Turns : u # t => memory'[u] = memory[u]
    <3>1. /\ memory \in [Turns -> Seq(Turns)] /\ turn[t].messages \in Seq(Turns)
          /\ memory' = [memory EXCEPT ![t] = turn[t].messages]
      BY <1>0, <1>2, <1>3
    <3>2. QED
      BY <3>1
  <2>2. /\ disk' \in [Turns -> Seq(Turns)] /\ disk'[t] \in {disk[t], turn[t].messages}
        /\ \A u \in Turns : u # t => disk'[u] = disk[u]
    <3>1. /\ disk \in [Turns -> Seq(Turns)] /\ turn[t].messages \in Seq(Turns)
          /\ disk' = [disk EXCEPT ![t] = turn[t].messages] \/ disk' = disk
      BY <1>0, <1>2, <1>3
    <3>2. QED
      BY <3>1
  <2>3. bindings' \subseteq Turns
    BY <1>0, <1>3
  <2>4. QED
    BY <2>1, <2>2, <2>3
<1>5. lineages' \in Seq(Turns) /\ ToSet(lineages') \subseteq ToSet(lineages) \cup {t}
  <2>1. CASE lineages' = lineages
    BY <1>0, <2>1
  <2>2. CASE lineages' = Append(lineages, t)
    <3>1. lineages \in Seq(Turns) /\ Append(lineages, t) \in Seq(Turns)
      BY <1>0
    <3>2. ToSet(Append(lineages, t)) = ToSet(lineages) \cup {t}
      BY <3>1, ToSetAppend
    <3>3. QED
      BY <2>2, <3>1, <3>2
  <2>3. QED
    BY <1>3, <2>1, <2>2
<1>6. TypeInv'
  BY <1>1, <1>3, <1>4, <1>5 DEF Sound, TypeInv
<1>7. ASSUME NEW u \in Turns PROVE Fit(u)'
  BY <1>0, <1>1, <1>2 DEF Sound, Stored, Fit, Others
<1>8. ASSUME NEW u \in Turns
      PROVE  /\ memory'[u] # <<>> => turn'[u].at = "done" /\ memory'[u] = turn'[u].messages
             /\ disk'[u] # <<>> => turn'[u].at = "done" /\ disk'[u] = turn'[u].messages
  <2>0. /\ memory[u] # <<>> => turn[u].at = "done" /\ memory[u] = turn[u].messages
        /\ disk[u] # <<>> => turn[u].at = "done" /\ disk[u] = turn[u].messages
    BY DEF Sound, Stored
  <2>1. CASE u = t
    BY <1>1, <1>2, <1>4, <2>0, <2>1
  <2>2. CASE u # t
    <3>1. turn'[u] = turn[u] /\ memory'[u] = memory[u] /\ disk'[u] = disk[u]
      BY <1>1, <1>4, <2>2 DEF Others
    <3>2. QED
      BY <2>0, <3>1
  <2>3. QED
    BY <2>1, <2>2
<1>9. ASSUME NEW u \in bindings' \cup ToSet(lineages') PROVE turn'[u].at = "done"
  <2>1. u \in bindings \cup ToSet(lineages) \cup {t} /\ u \in Turns
    BY <1>3, <1>4, <1>5, ToSetType
  <2>2. QED
    BY <1>1, <2>1 DEF Sound, Stored, Others
<1>10. Stored'
  BY <1>7, <1>8, <1>9 DEF Stored
<1>11. QED
  BY <1>6, <1>10 DEF Sound

(* What a handler that stops, or a worker, does to its own turn. *)
LEMMA GoneEffect ==
  ASSUME turn \in [Turns -> TurnRecord], NEW t \in Turns, NEW step \in HandlerSteps, Gone(t, step)
  PROVE  Moved(t, step, IF turn[t].worker \in OnThePage THEN turn[t].worker ELSE "none")
<1> DEFINE work == IF turn[t].worker \in OnThePage THEN turn[t].worker ELSE "none"
<1>1. work \in WorkerSteps
  BY Fields DEF WorkerSteps
<1>2. turn' = [turn EXCEPT ![t].at = step, ![t].worker = work]
  BY DEF Gone
<1> HIDE DEF work
<1>3. Moved(t, step, work)
  BY <1>1, <1>2, BothEffect
<1>4. QED
  BY <1>3 DEF work

(* The ways the stream of a turn ends without an answer. *)
Leaves(t) == StartFails(t) \/ Fail(t) \/ Abort(t) \/ Leave(t) \/ Left(t)

LEMMA LeavesEffect ==
  ASSUME turn \in [Turns -> TurnRecord], hint \in HintStates, NEW t \in Turns, Leaves(t)
  PROVE  /\ turn[t].at \in {"prepared", "running", "leaving"}
         /\ \E at \in {"leaving", "ended"}, worker \in WorkerSteps :
              /\ Moved(t, at, worker)
              /\ worker \in {turn[t].worker, "none"}
         /\ hint' \in HintStates
         /\ UNCHANGED <<memory, disk, affinity, tab, page, named, content, restarts>>
<1>0. turn[t].worker \in WorkerSteps /\ "none" \in WorkerSteps /\ {"leaving", "ended"} \subseteq HandlerSteps
  BY Fields DEF WorkerSteps, HandlerSteps
<1>1. CASE StartFails(t)
  <2>1. Moved(t, "ended", turn[t].worker)
    BY <1>0, <1>1, AtEffect DEF StartFails
  <2>2. QED
    BY <1>0, <1>1, <2>1 DEF StartFails
<1>2. CASE Fail(t)
  <2>1. Moved(t, "ended", "none")
    BY <1>0, <1>2, BothEffect DEF Fail
  <2>2. QED
    BY <1>0, <1>2, <2>1, HintMoves DEF Fail
<1>3. CASE Abort(t)
  <2>1. Moved(t, "ended", IF turn[t].worker \in OnThePage THEN turn[t].worker ELSE "none")
    BY <1>0, <1>3, GoneEffect DEF Abort
  <2>2. QED
    BY <1>0, <1>3, <2>1, HintMoves DEF Abort
<1>4. CASE Leave(t)
  <2>1. Moved(t, "leaving", IF turn[t].worker \in OnThePage THEN turn[t].worker ELSE "none")
    BY <1>0, <1>4, GoneEffect DEF Leave
  <2>2. QED
    BY <1>0, <1>4, <2>1 DEF Leave
<1>5. CASE Left(t)
  <2>1. Moved(t, "ended", turn[t].worker)
    BY <1>0, <1>5, AtEffect DEF Left
  <2>2. QED
    BY <1>0, <1>5, <2>1, HintMoves DEF Left
<1>6. QED
  BY <1>1, <1>2, <1>3, <1>4, <1>5 DEF Leaves

LEMMA SoundLeaves ==
  ASSUME Sound, NEW t \in Turns, Leaves(t)
  PROVE  Sound'
<1>0. turn \in [Turns -> TurnRecord] /\ hint \in HintStates /\ lineages \in Seq(Turns) /\ tab \in Here /\ page \in Here
  BY DEF Sound, TypeInv
<1>1. PICK at \in {"leaving", "ended"}, worker \in WorkerSteps : Moved(t, at, worker)
  BY <1>0, LeavesEffect
<1>2. /\ turn[t].at \in {"prepared", "running", "leaving"} /\ hint' \in HintStates
      /\ UNCHANGED <<memory, disk, bindings, lineages, tab, page, named, content, restarts>>
  BY <1>0, LeavesEffect DEF affinity
<1>3. QED
  BY <1>0, <1>1, <1>2, SoundMoved

(* What a worker's steps other than the sending of its prompt do. *)
Drives(t) == TakeTab(t) \/ ReadHint(t) \/ OpenChat(t) \/ Answer(t) \/ WorkerStops(t)

LEMMA DrivesEffect ==
  ASSUME Sound, NEW t \in Turns, Drives(t)
  PROVE  /\ turn[t].worker # "none"
         /\ \E worker \in WorkerSteps : Moved(t, turn[t].at, worker)
         /\ tab' \in Here /\ page' \in Here
         /\ UNCHANGED <<memory, disk, affinity, hint, named, content, restarts>>
<1>0. turn \in [Turns -> TurnRecord] /\ tab \in Here /\ page \in Here /\ NoTurn \in Here /\ t \in Here
  BY DEF Sound, TypeInv, Here
<1>1. {"none", "queued", "answered", "failed", "driving", "opening", "composing", "sent", "stopping"} \subseteq WorkerSteps
  BY DEF WorkerSteps, OnThePage
<1>2. CASE TakeTab(t)
  BY <1>0, <1>1, <1>2, WorksEffect DEF TakeTab
<1>3. CASE ReadHint(t)
  BY <1>0, <1>1, <1>3, WorksEffect DEF ReadHint
<1>4. CASE OpenChat(t)
  BY <1>0, <1>1, <1>4, WorksEffect DEF OpenChat, Then
<1>5. CASE Answer(t)
  BY <1>0, <1>1, <1>5, WorksEffect DEF Answer
<1>6. CASE WorkerStops(t)
  BY <1>0, <1>1, <1>6, WorksEffect DEF WorkerStops, OnThePage
<1>7. QED
  BY <1>2, <1>3, <1>4, <1>5, <1>6 DEF Drives

LEMMA SoundDrives ==
  ASSUME Sound, NEW t \in Turns, Drives(t)
  PROVE  Sound'
<1>0. hint \in HintStates /\ lineages \in Seq(Turns)
  BY DEF Sound, TypeInv
<1>1. PICK worker \in WorkerSteps : Moved(t, turn[t].at, worker)
  BY DrivesEffect
<1>2. /\ tab' \in Here /\ page' \in Here
      /\ UNCHANGED <<memory, disk, bindings, lineages, hint, named, content, restarts>>
  BY DrivesEffect DEF affinity
<1>3. QED
  BY <1>0, <1>1, <1>2, SoundMoved

LEMMA SendFacts ==
  ASSUME Sound, NEW t \in Turns, Send(t)
  PROVE  LET c == IF page = NoTurn THEN t ELSE page IN
         /\ c \in Turns /\ page' = c
         /\ content' \in [Turns -> Seq(Turns)]
         /\ content'[c] = content[c] \o turn[t].sends
         /\ \A d \in Turns : d # c => content'[d] = content[d]
         /\ named' \subseteq named \cup {c}
         /\ UNCHANGED <<memory, disk, bindings, lineages, hint, tab, restarts>>
<1> DEFINE c == IF page = NoTurn THEN t ELSE page
<1>1. c \in Turns /\ turn \in [Turns -> TurnRecord] /\ content \in [Turns -> Seq(Turns)]
  BY DEF Sound, TypeInv, Here
<1>2. /\ page' = c /\ content' = [content EXCEPT ![c] = @ \o turn[t].sends]
      /\ named' \in {named \cup {c}, named}
      /\ UNCHANGED <<memory, disk, bindings, lineages, hint, tab, restarts>>
  BY DEF Send, affinity
<1> HIDE DEF c
<1>3. content[c] \o turn[t].sends \in Seq(Turns)
  BY <1>1, Fields
<1>4. QED
  BY <1>1, <1>2, <1>3 DEF c

LEMMA SoundSend ==
  ASSUME Sound, NEW t \in Turns, Send(t)
  PROVE  Sound'
<1>1. /\ turn' \in [Turns -> TurnRecord] /\ Others(t)
      /\ turn'[t].at = turn[t].at
      /\ Birth(t)' = Birth(t) /\ Prompt(t)' = Prompt(t)
  BY SendEffect DEF Sound
<1>2. /\ turn'[t].history = turn[t].history /\ turn'[t].skip = turn[t].skip
      /\ turn'[t].how = turn[t].how /\ turn'[t].parent = turn[t].parent
      /\ turn'[t].messages = turn[t].messages
  BY <1>1 DEF Birth, Prompt
<1>3. /\ page' \in Turns /\ content' \in [Turns -> Seq(Turns)] /\ named' \subseteq Turns
      /\ UNCHANGED <<memory, disk, bindings, lineages, hint, tab, restarts>>
  BY SendFacts DEF Sound, TypeInv
<1>4. TypeInv'
  BY <1>1, <1>3 DEF Sound, TypeInv, Here
<1>5. Fit(t)'
  BY <1>1, <1>2 DEF Sound, Stored, Fit
<1>6. Stored'
  BY <1>1, <1>2, <1>3, <1>5, StoredKept DEF Sound, TypeInv
<1>7. QED
  BY <1>4, <1>6 DEF Sound

LEMMA ForgetFacts ==
  ASSUME Sound, NEW t \in Turns, Forget(t)
  PROVE  /\ UNCHANGED <<turn, hint, tab, page, named, content, restarts>>
         /\ memory' \in [Turns -> Seq(Turns)] /\ \A u \in Turns : memory'[u] \in {memory[u], <<>>}
         /\ disk' \in [Turns -> Seq(Turns)] /\ \A u \in Turns : disk'[u] \in {disk[u], <<>>}
         /\ bindings' \subseteq bindings
         /\ lineages' \in Seq(Turns) /\ ToSet(lineages') \subseteq ToSet(lineages)
<1>0. lineages \in Seq(Turns) /\ memory \in [Turns -> Seq(Turns)] /\ disk \in [Turns -> Seq(Turns)] /\ <<>> \in Seq(Turns)
  BY DEF Sound, TypeInv
<1>1. CASE ForgetResponse(t)
  BY <1>0, <1>1 DEF ForgetResponse, affinity
<1>2. CASE ForgetBinding(t)
  BY <1>0, <1>2 DEF ForgetBinding
<1>3. CASE ForgetLineage(t)
  <2>1. PICK i \in DOMAIN lineages : lineages' = RemoveAt(lineages, i)
    BY <1>3 DEF ForgetLineage
  <2>2. i \in 1..Len(lineages)
    BY <1>0
  <2>3. lineages' \in Seq(Turns) /\ ToSet(lineages') \subseteq ToSet(lineages)
    BY <1>0, <2>1, <2>2, RemoveAtFacts
  <2>4. QED
    BY <1>0, <1>3, <2>3 DEF ForgetLineage
<1>4. CASE PruneSnapshot(t)
  BY <1>0, <1>4 DEF PruneSnapshot, affinity
<1>5. QED
  BY <1>1, <1>2, <1>3, <1>4 DEF Forget

LEMMA SoundForget ==
  ASSUME Sound, NEW t \in Turns, Forget(t)
  PROVE  Sound'
<1>1. TypeInv'
  BY ForgetFacts DEF Sound, TypeInv
<1>2. Stored'
  BY ForgetFacts DEF Sound, Stored, Fit
<1>3. QED
  BY <1>1, <1>2 DEF Sound

LEMMA SoundShowPath ==
  ASSUME Sound, ShowPath
  PROVE  Sound'
<1>1. TypeInv'
  BY DEF ShowPath, affinity, Sound, TypeInv, Here
<1>2. Stored'
  BY DEF ShowPath, affinity, Sound, Stored, Fit
<1>3. QED
  BY <1>1, <1>2 DEF Sound

LEMMA SoundRestart ==
  ASSUME Sound, Restart
  PROVE  Sound'
<1>0. /\ memory' = [u \in Turns |-> <<>>] /\ bindings' = {} /\ lineages' = <<>> /\ hint' = "clear" /\ tab' = NoTurn
      /\ restarts < MaxRestarts /\ restarts' = restarts + 1 /\ UNCHANGED <<disk, page, named, content>>
  BY DEF Restart
<1>1. /\ turn' \in [Turns -> TurnRecord]
      /\ \A u \in Turns :
           /\ turn'[u].at = IF turn[u].at \in {"called", "prepared", "running", "leaving"} THEN "ended" ELSE turn[u].at
           /\ Birth(u)' = Birth(u) /\ Prompt(u)' = Prompt(u)
  BY RestartEffect DEF Sound
<1>2. ASSUME NEW u \in Turns
      PROVE  /\ turn'[u].history = turn[u].history /\ turn'[u].skip = turn[u].skip
             /\ turn'[u].how = turn[u].how /\ turn'[u].parent = turn[u].parent
             /\ turn'[u].messages = turn[u].messages
             /\ turn'[u].at = IF turn[u].at \in {"called", "prepared", "running", "leaving"} THEN "ended" ELSE turn[u].at
  BY <1>1 DEF Birth, Prompt
<1>3. memory' \in [Turns -> Seq(Turns)] /\ lineages' \in Seq(Turns) /\ ToSet(lineages') = {}
  <2>1. memory' \in [Turns -> Seq(Turns)] /\ lineages' \in Seq(Turns)
    BY <1>0
  <2>2. ToSet(<<>>) = {}
    BY DEF ToSet
  <2>3. QED
    BY <1>0, <2>1, <2>2
<1>4. TypeInv'
  <2>1. restarts' \in 0..MaxRestarts
    BY <1>0, TurnAssumption DEF Sound, TypeInv, TurnAssumption
  <2>2. bindings' \subseteq Turns /\ hint' \in HintStates /\ tab' \in Here
    BY <1>0 DEF Here, HintStates
  <2>3. QED
    BY <1>0, <1>1, <1>3, <2>1, <2>2 DEF Sound, TypeInv
<1>5. ASSUME NEW u \in Turns PROVE Fit(u)'
  BY <1>2 DEF Sound, Stored, Fit
<1>6. ASSUME NEW u \in Turns PROVE disk'[u] # <<>> => turn'[u].at = "done" /\ disk'[u] = turn'[u].messages
  BY <1>0, <1>2 DEF Sound, Stored
<1>7. Stored'
  BY <1>0, <1>3, <1>5, <1>6 DEF Stored
<1>8. QED
  BY <1>4, <1>7 DEF Sound

LEMMA SoundInit == Init => Sound
<1> SUFFICES ASSUME Init PROVE Sound
  OBVIOUS
<1>1. Unborn \in TurnRecord
  BY DEF Unborn, TurnRecord, HandlerSteps, WorkerSteps, Here
<1>2. turn \in [Turns -> TurnRecord] /\ \A u \in Turns : turn[u] = Unborn
  BY <1>1 DEF Init
<1>3. TypeInv
  <2>1. restarts \in 0..MaxRestarts
    BY TurnAssumption DEF Init, TurnAssumption
  <2>2. <<>> \in Seq(Turns) /\ lineages \in Seq(Turns)
    BY DEF Init
  <2>3. /\ memory \in [Turns -> Seq(Turns)] /\ disk \in [Turns -> Seq(Turns)]
        /\ content \in [Turns -> Seq(Turns)]
    BY <2>2 DEF Init
  <2>4. QED
    BY <1>2, <2>1, <2>2, <2>3 DEF Init, TypeInv, Here, HintStates
<1>4. ASSUME NEW u \in Turns PROVE Fit(u)
  BY <1>2 DEF Fit, Unborn
<1>5. ToSet(lineages) = {} /\ bindings = {}
  BY DEF Init, ToSet
<1>6. Stored
  BY <1>4, <1>5 DEF Init, Stored
<1>7. QED
  BY <1>3, <1>6 DEF Sound

LEMMA SoundNext == Sound /\ [Next]_vars => Sound'
<1> SUFFICES ASSUME Sound, [Next]_vars PROVE Sound'
  OBVIOUS
<1>1. ASSUME NEW t \in Turns, Handler(t) PROVE Sound'
  BY <1>1, SoundCall, SoundPrepare, SoundStart, SoundComplete, SoundLeaves DEF Handler, Leaves
<1>2. ASSUME NEW t \in Turns, Worker(t) PROVE Sound'
  BY <1>2, SoundDrives, SoundSend DEF Worker, Drives
<1>3. ASSUME NEW t \in Turns, Forget(t) PROVE Sound'
  BY <1>3, SoundForget
<1>4. CASE ShowPath
  BY <1>4, SoundShowPath
<1>5. CASE Restart
  BY <1>5, SoundRestart
<1>6. CASE UNCHANGED vars
  BY <1>6 DEF vars, affinity, Sound, TypeInv, Stored, Fit
<1>7. QED
  BY <1>1, <1>2, <1>3, <1>4, <1>5, <1>6 DEF Next

LEMMA SoundIsTyped == Sound => TypeOK
<1> SUFFICES ASSUME Sound PROVE TypeOK
  OBVIOUS
<1>1. turn \in [Turns -> TurnRecord]
  BY DEF Sound, TypeInv
<1>2. ASSUME NEW t \in Turns
      PROVE  /\ turn[t].at \in HandlerSteps
             /\ turn[t].worker \in WorkerSteps
             /\ {turn[t].parent, turn[t].path, turn[t].bound} \subseteq Turns \cup {NoTurn}
             /\ turn[t].how \in {"id", "history"}
             /\ turn[t].skip \in 0..Len(turn[t].history)
             /\ turn[t].history \in Seq(Turns)
             /\ turn[t].sends \in Seq(Turns)
             /\ memory[t] \in {<<>>, turn[t].messages}
             /\ disk[t] \in {<<>>, turn[t].messages}
             /\ content[t] \in Seq(Turns)
  <2>1. turn[t].skip \in Nat /\ Len(turn[t].history) \in Nat /\ turn[t].skip <= Len(turn[t].history)
    BY <1>1, Fields DEF Sound, Stored, Fit
  <2>2. content[t] \in Seq(Turns) /\ memory[t] \in {<<>>, turn[t].messages} /\ disk[t] \in {<<>>, turn[t].messages}
    BY DEF Sound, TypeInv, Stored
  <2>3. QED
    BY <1>1, <2>1, <2>2, Fields DEF Here
<1>3. bindings \cup ToSet(lineages) \subseteq At("done")
  <2>1. bindings \subseteq Turns /\ ToSet(lineages) \subseteq Turns
    BY ToSetType DEF Sound, TypeInv
  <2>2. QED
    BY <2>1 DEF Sound, Stored, At
<1>4. hint \in HintStates /\ {tab, page} \subseteq Turns \cup {NoTurn} /\ named \subseteq Turns /\ restarts \in 0..MaxRestarts
  BY DEF Sound, TypeInv, Here
<1>5. QED
  BY <1>2, <1>3, <1>4 DEF TypeOK

(* The types hold for every number of turns, clients and restarts and every *)
(* disturbance; what the bridge keeps of a response, in memory and on disk, *)
(* is the transcript its turn ran with, and only completed responses are    *)
(* bound.                                                                   *)
THEOREM TypeCorrect == Spec => []TypeOK
<1>1. Spec => []Sound
  BY SoundInit, SoundNext, PTL DEF Spec
<1>2. QED
  BY <1>1, SoundIsTyped, PTL

-----------------------------------------------------------------------------
(* What a turn is made of. *)

(* The transcript a continuation of p begins with. *)
Before(p) == IF p = NoTurn THEN <<>> ELSE turn[p].history

(* The exchanges the bridge knows a turn to consist of: by id, what the     *)
(* previous response ran with and the new items.                            *)
Known(t) ==
  IF turn[t].how = "id" THEN Append(turn[turn[t].parent].messages, t) ELSE turn[t].history

(* A turn that went on with its new items alone (PrepareDegraded). *)
Degraded(t) == turn[t].how = "id" /\ turn[t].messages = <<t>> /\ turn[t].path # NoTurn

(* A turn continues a completed turn, and its transcript that turn's. *)
Lineal(t) ==
  turn[t].at # "unborn" =>
    /\ turn[t].parent # NoTurn => turn[turn[t].parent].at = "done"
    /\ turn[t].history = Append(Before(turn[t].parent), t)

(* What is to be answered is what is known, or left to the start of the     *)
(* stream, or the new items alone.                                          *)
Worded(t) ==
  /\ turn[t].at \in {"running", "leaving", "done"} => turn[t].messages = Known(t) \/ Degraded(t)
  /\ turn[t].at = "prepared" => \/ turn[t].messages = Known(t) \/ Degraded(t)
                                \/ turn[t].how = "id" /\ turn[t].messages = <<>>

(* No worker runs before the stream starts, nor after the turn is answered. *)
Idle(t) == turn[t].at \in {"unborn", "called", "prepared", "done"} => turn[t].worker = "none"

(* Sound, with what a turn's messages are made of. *)
Faithful ==
  /\ Sound
  /\ \A u \in Turns : Lineal(u) /\ Worded(u) /\ Idle(u)
  /\ \A u \in bindings \cup ToSet(lineages) : turn[u].bound \in Turns

(* What a turn is made of stays while another turn, or its own handler, moves. *)
LEMMA BirthKept ==
  ASSUME Faithful, NEW t \in Turns, turn[t].at # "done", Others(t),
         NEW u \in Turns, Birth(u)' = Birth(u), turn[u].at # "unborn"
  PROVE  /\ Known(u)' = Known(u)
         /\ Lineal(u)'
<1>1. turn'[u].parent = turn[u].parent /\ turn'[u].how = turn[u].how /\ turn'[u].history = turn[u].history
  BY DEF Birth
<1>2. turn[u].parent \in Here /\ (turn[u].how = "id" => turn[u].parent \in Turns)
  BY Fields DEF Faithful, Sound, TypeInv, Stored, Fit
<1>3. Lineal(u) /\ (turn[u].parent # NoTurn => turn[turn[u].parent].at = "done")
  BY DEF Faithful, Lineal
<1>4. turn[u].parent # NoTurn => turn[u].parent \in Turns /\ turn'[turn[u].parent] = turn[turn[u].parent]
  BY <1>2, <1>3 DEF Others, Here
<1>5. NoTurn \notin Turns
  BY TurnAssumption DEF TurnAssumption
<1>6. Known(u)' = Known(u)
  BY <1>1, <1>2, <1>4, <1>5 DEF Known
<1>7. Before(turn[u].parent)' = Before(turn[u].parent)
  BY <1>1, <1>4 DEF Before
<1>8. Lineal(u)'
  BY <1>1, <1>3, <1>4, <1>7 DEF Lineal
<1>9. QED
  BY <1>6, <1>8

(* A step of t, not yet done, leaves the other turns as they were. *)
LEMMA FaithfulKept ==
  ASSUME Faithful, Sound', NEW t \in Turns, turn[t].at # "done", Others(t),
         Lineal(t)', Worded(t)', Idle(t)',
         \A u \in bindings' \cup ToSet(lineages') :
           u \in bindings \cup ToSet(lineages) \/ (u = t /\ turn'[t].bound \in Turns)
  PROVE  Faithful'
<1>1. ASSUME NEW u \in Turns, u # t PROVE Lineal(u)' /\ Worded(u)' /\ Idle(u)'
  <2>1. turn'[u] = turn[u] /\ Lineal(u) /\ Worded(u) /\ Idle(u)
    BY <1>1 DEF Others, Faithful
  <2>2. Birth(u)' = Birth(u)
    BY <2>1 DEF Birth
  <2>3. CASE turn[u].at = "unborn"
    BY <2>1, <2>3 DEF Lineal, Worded, Idle
  <2>4. CASE turn[u].at # "unborn"
    <3>1. Known(u)' = Known(u) /\ Lineal(u)'
      BY <2>2, <2>4, BirthKept
    <3>2. Worded(u)' /\ Idle(u)'
      BY <2>1, <3>1 DEF Worded, Idle, Degraded
    <3>3. QED
      BY <3>1, <3>2
  <2>5. QED
    BY <2>3, <2>4
<1>2. ASSUME NEW u \in bindings' \cup ToSet(lineages') PROVE turn'[u].bound \in Turns
  <2>1. CASE u \in bindings \cup ToSet(lineages)
    <3>1. turn[u].bound \in Turns /\ turn[u].at = "done" /\ u \in Turns
      BY <2>1, ToSetType DEF Faithful, Sound, Stored, TypeInv
    <3>2. turn'[u] = turn[u]
      BY <3>1 DEF Others
    <3>3. QED
      BY <3>1, <3>2
  <2>2. QED
    BY <1>2, <2>1
<1>3. QED
  BY <1>1, <1>2 DEF Faithful

(* The kinds of step of a turn that say nothing new. *)
LEMMA FaithfulMoved ==
  ASSUME Faithful, Sound', NEW t \in Turns, turn[t].at \notin {"unborn", "done"}, Others(t),
         Birth(t)' = Birth(t), Prompt(t)' = Prompt(t),
         \/ turn'[t].at = turn[t].at /\ Idle(t)'
         \/ turn'[t].at = "ended"
         \/ turn[t].at = "running" /\ turn'[t].at = "leaving",
         bindings' \subseteq bindings, ToSet(lineages') \subseteq ToSet(lineages)
  PROVE  Faithful'
<1>1. Known(t)' = Known(t) /\ Lineal(t)' /\ Worded(t)
  BY BirthKept DEF Faithful
<1>2. turn'[t].messages = turn[t].messages /\ turn'[t].path = turn[t].path /\ turn'[t].how = turn[t].how
  BY DEF Birth, Prompt
<1>3. Worded(t)' /\ Idle(t)'
  BY <1>1, <1>2 DEF Worded, Degraded, Idle
<1>4. QED
  BY <1>1, <1>3, FaithfulKept

LEMMA FaithfulCall ==
  ASSUME Faithful, NEW t \in Turns, Call(t)
  PROVE  Faithful' /\ turn'[t].at = "called" /\ turn'[t].worker = "none" /\ Others(t)
<1>0. turn[t].at = "unborn" /\ UNCHANGED <<bindings, lineages>> /\ turn \in [Turns -> TurnRecord] /\ Sound
  BY DEF Call, affinity, Faithful, Sound, TypeInv
<1>1. PICK p \in Here, how \in {"id", "history"} :
        Begins(t, p, how) /\ (p # NoTurn => turn[p].at = "done")
  BY DEF Call, MayContinue, Here
<1>2. /\ Others(t) /\ turn'[t].at = "called" /\ turn'[t].worker = "none"
      /\ turn'[t].parent = p /\ turn'[t].how = how
      /\ turn'[t].history = Append(IF p = NoTurn THEN <<>> ELSE turn[p].history, t)
  BY <1>0, <1>1, BeginsEffect
<1>3. p # NoTurn => turn'[p] = turn[p] /\ turn[p].at = "done"
  BY <1>0, <1>1, <1>2 DEF Others, Here
<1>4. Lineal(t)'
  BY <1>2, <1>3 DEF Lineal, Before
<1>5. Worded(t)' /\ Idle(t)'
  BY <1>2 DEF Worded, Idle
<1>6. Sound'
  BY <1>0, SoundCall
<1>7. QED
  BY <1>0, <1>2, <1>4, <1>5, <1>6, FaithfulKept

(* What the preparation of a turn leaves to be sent is what is known of it. *)
LEMMA HydratedFacts ==
  ASSUME Faithful, NEW t \in Turns, turn[t].at = "called", Hydrates(t)
  PROVE  Hydrated(t) = Known(t) \/ (turn[t].how = "id" /\ Hydrated(t) = <<>>)
<1>1. CASE turn[t].how = "id"
  <2>1. turn[t].parent \in Turns
    BY <1>1 DEF Faithful, Sound, Stored, Fit
  <2>2. \A p \in Turns : disk[p] # <<>> => disk[p] = turn[p].messages
    BY DEF Faithful, Sound, Stored
  <2>3. CASE memory[turn[t].parent] # <<>>
    BY <1>1, <2>3 DEF Hydrated
  <2>4. CASE memory[turn[t].parent] = <<>>
    <3>1. disk[turn[t].parent] = turn[turn[t].parent].messages
      BY <1>1, <2>1, <2>2, <2>4 DEF Hydrates
    <3>2. Hydrated(t) = Append(disk[turn[t].parent], t)
      BY <1>1, <2>4 DEF Hydrated
    <3>3. QED
      BY <1>1, <3>1, <3>2 DEF Known
  <2>5. QED
    BY <2>3, <2>4
<1>2. CASE turn[t].how # "id"
  <2>0. turn \in [Turns -> TurnRecord]
    BY DEF Faithful, Sound, TypeInv
  <2>1. turn[t].how = "history"
    BY <1>2, <2>0, Fields
  <2>2. QED
    BY <2>1 DEF Hydrated, Known
<1>3. QED
  BY <1>1, <1>2

(* The preparations that do not raise. *)
Readies(t) == PrepareReuse(t) \/ PrepareLineage(t) \/ PrepareFresh(t) \/ PrepareDegraded(t)

LEMMA LineageHydrates ==
  ASSUME Faithful, NEW t \in Turns, Lineage(t) # NoTurn
  PROVE  Hydrates(t) /\ turn[t].how = "history"
<1>1. lineages \in Seq(Turns)
  BY DEF Faithful, Sound, TypeInv
<1>2. turn[t].how = "history"
  BY <1>1, LineageFacts
<1>3. QED
  BY <1>2 DEF Hydrates

LEMMA BindingFacts ==
  ASSUME Faithful, NEW t \in Turns, Binding(t) # NoTurn
  PROVE  /\ turn[t].how = "id" /\ turn[t].parent \in Turns /\ turn[t].parent \in bindings
         /\ Binding(t) = turn[turn[t].parent].bound /\ Binding(t) \in Turns
  BY DEF Binding, Faithful, Sound, TypeInv

LEMMA ReadiesEffect ==
  ASSUME Faithful, NEW t \in Turns, Readies(t)
  PROVE  /\ turn[t].at = "called" /\ Others(t)
         /\ turn'[t].at = "prepared" /\ turn'[t].worker = turn[t].worker
         /\ Birth(t)' = Birth(t)
         /\ UNCHANGED <<memory, disk, bindings, content>>
         /\ ToSet(lineages') \subseteq ToSet(lineages)
         /\ \/ PrepareReuse(t) /\ Prompt(t)' = <<Hydrated(t), Binding(t), 0>>
            \/ PrepareLineage(t) /\ Prompt(t)' = <<Hydrated(t), turn[Lineage(t)].bound, Len(turn[Lineage(t)].messages)>>
            \/ PrepareFresh(t) /\ Prompt(t)' = <<Hydrated(t), NoTurn, 0>>
            \/ PrepareDegraded(t) /\ Prompt(t)' = <<<<t>>, Binding(t), 0>>
<1>0. /\ turn \in [Turns -> TurnRecord] /\ lineages \in Seq(Turns) /\ Sound /\ turn[t].at = "called"
      /\ UNCHANGED <<memory, disk, bindings, content>>
  BY DEF Faithful, Sound, TypeInv, Readies, PrepareReuse, PrepareLineage, PrepareFresh, PrepareDegraded, affinity, UseLineage
<1>1. Hydrated(t) \in Seq(Turns) /\ <<t>> \in Seq(Turns) /\ Binding(t) \in Here /\ NoTurn \in Here /\ 0 \in Nat
  BY <1>0, HydratedType, BindingType DEF Here
<1>2. CASE PrepareReuse(t)
  <2>1. Prepared(t, Hydrated(t), Binding(t), 0) /\ lineages' = lineages
    BY <1>2 DEF PrepareReuse, affinity
  <2>2. QED
    BY <1>0, <1>1, <1>2, <2>1, PreparedEffect
<1>3. CASE PrepareLineage(t)
  <2>1. /\ Prepared(t, Hydrated(t), turn[Lineage(t)].bound, Len(turn[Lineage(t)].messages))
        /\ UseLineage(t) /\ Lineage(t) # NoTurn
    BY <1>3 DEF PrepareLineage
  <2>2. turn[Lineage(t)].bound \in Here /\ Len(turn[Lineage(t)].messages) \in Nat
    BY <1>0, <2>1, LineageType
  <2>3. ToSet(lineages') \subseteq ToSet(lineages)
    BY <1>0, <2>1, UseLineageFacts
  <2>4. QED
    BY <1>0, <1>1, <1>3, <2>1, <2>2, <2>3, PreparedEffect
<1>4. CASE PrepareFresh(t)
  <2>1. Prepared(t, Hydrated(t), NoTurn, 0) /\ UseLineage(t)
    BY <1>4 DEF PrepareFresh
  <2>2. ToSet(lineages') \subseteq ToSet(lineages)
    BY <1>0, <2>1, UseLineageFacts
  <2>3. QED
    BY <1>0, <1>1, <1>4, <2>1, <2>2, PreparedEffect
<1>5. CASE PrepareDegraded(t)
  <2>1. Prepared(t, <<t>>, Binding(t), 0) /\ lineages' = lineages
    BY <1>5 DEF PrepareDegraded, affinity
  <2>2. QED
    BY <1>0, <1>1, <1>5, <2>1, PreparedEffect
<1>6. QED
  BY <1>2, <1>3, <1>4, <1>5 DEF Readies

LEMMA FaithfulReadies ==
  ASSUME Faithful, NEW t \in Turns, Readies(t)
  PROVE  Faithful'
<1>1. /\ turn[t].at = "called" /\ Others(t) /\ turn'[t].at = "prepared" /\ turn'[t].worker = turn[t].worker
      /\ Birth(t)' = Birth(t)
      /\ bindings' = bindings /\ ToSet(lineages') \subseteq ToSet(lineages)
  BY ReadiesEffect
<1>2. Known(t)' = Known(t) /\ Lineal(t)'
  BY <1>1, BirthKept
<1>3. turn'[t].how = turn[t].how
  BY <1>1 DEF Birth
<1>4. Worded(t)'
  <2>1. ASSUME Hydrates(t), turn'[t].messages = Hydrated(t) PROVE Worded(t)'
    BY <1>1, <1>2, <1>3, <2>1, HydratedFacts DEF Worded
  <2>2. CASE PrepareReuse(t) /\ Prompt(t)' = <<Hydrated(t), Binding(t), 0>>
    BY <2>1, <2>2 DEF Prompt, PrepareReuse
  <2>3. CASE PrepareLineage(t) /\ Prompt(t)' = <<Hydrated(t), turn[Lineage(t)].bound, Len(turn[Lineage(t)].messages)>>
    <3>1. Hydrates(t)
      BY <2>3, LineageHydrates DEF PrepareLineage
    <3>2. QED
      BY <2>1, <2>3, <3>1 DEF Prompt
  <2>4. CASE PrepareFresh(t) /\ Prompt(t)' = <<Hydrated(t), NoTurn, 0>>
    BY <2>1, <2>4 DEF Prompt, PrepareFresh
  <2>5. CASE PrepareDegraded(t) /\ Prompt(t)' = <<<<t>>, Binding(t), 0>>
    <3>1. turn[t].how = "id" /\ Binding(t) # NoTurn
      BY <2>5, BindingFacts DEF PrepareDegraded
    <3>2. turn'[t].messages = <<t>> /\ turn'[t].path = Binding(t)
      BY <2>5 DEF Prompt
    <3>3. QED
      BY <1>1, <1>3, <3>1, <3>2 DEF Worded, Degraded
  <2>6. QED
    BY <2>2, <2>3, <2>4, <2>5, ReadiesEffect
<1>5. Idle(t)'
  BY <1>1 DEF Idle, Faithful
<1>6. Sound'
  BY SoundPrepare DEF Faithful, Readies, Prepare
<1>7. QED
  BY <1>1, <1>2, <1>4, <1>5, <1>6, FaithfulKept

(* What a turn starts with is what is known of it. *)
LEMMA StateMessagesFacts ==
  ASSUME Faithful, NEW t \in Turns, turn[t].at = "prepared", ~StateLost(t)
  PROVE  StateMessages(t) = Known(t) \/ (Degraded(t) /\ StateMessages(t) = <<t>>)
<1>1. CASE turn[t].messages = <<>> /\ turn[t].how = "id"
  <2>1. turn[t].parent \in Turns
    BY <1>1 DEF Faithful, Sound, Stored, Fit
  <2>2. \A p \in Turns : memory[p] # <<>> => memory[p] = turn[p].messages
    BY DEF Faithful, Sound, Stored
  <2>3. memory[turn[t].parent] = turn[turn[t].parent].messages
    BY <1>1, <2>1, <2>2 DEF StateLost
  <2>4. StateMessages(t) = Append(memory[turn[t].parent], t)
    BY <1>1 DEF StateMessages
  <2>5. QED
    BY <1>1, <2>3, <2>4 DEF Known
<1>2. CASE ~(turn[t].messages = <<>> /\ turn[t].how = "id")
  <2>1. turn[t].messages # <<>>
    BY <1>2 DEF Faithful, Sound, Stored, Fit
  <2>2. StateMessages(t) = turn[t].messages
    BY <2>1 DEF StateMessages
  <2>3. turn[t].messages = Known(t) \/ Degraded(t)
    BY <1>2 DEF Faithful, Worded
  <2>4. QED
    BY <2>2, <2>3 DEF Degraded
<1>3. QED
  BY <1>1, <1>2

LEMMA StartFacts ==
  ASSUME Faithful, NEW t \in Turns, Start(t)
  PROVE  /\ turn[t].at = "prepared" /\ ~StateLost(t) /\ Others(t)
         /\ turn'[t].at = "running" /\ turn'[t].worker = "queued"
         /\ Birth(t)' = Birth(t)
         /\ Prompt(t)' = <<StateMessages(t), turn[t].path, turn[t].skip>>
         /\ turn'[t].sends = BrowserMessages(t)
         /\ hint' \in HintSet
         /\ UNCHANGED <<bindings, lineages, page, content>>
<1>0. /\ turn \in [Turns -> TurnRecord] /\ turn[t].at = "prepared" /\ ~StateLost(t) /\ Sound
      /\ hint' \in HintSet /\ UNCHANGED <<bindings, lineages, page, content>>
  BY DEF Start, Faithful, Sound, TypeInv, affinity
<1>1. StateMessages(t) \in Seq(Turns) /\ BrowserMessages(t) \in Seq(Turns)
  BY <1>0, MessagesType
<1>2. QED
  BY <1>0, <1>1, StartEffect DEF Sending

LEMMA FaithfulStart ==
  ASSUME Faithful, NEW t \in Turns, Start(t)
  PROVE  Faithful'
<1>1. /\ turn[t].at = "prepared" /\ ~StateLost(t) /\ Others(t)
      /\ turn'[t].at = "running" /\ turn'[t].worker = "queued"
      /\ Birth(t)' = Birth(t)
      /\ Prompt(t)' = <<StateMessages(t), turn[t].path, turn[t].skip>>
      /\ UNCHANGED <<bindings, lineages>>
  BY StartFacts
<1>2. Known(t)' = Known(t) /\ Lineal(t)'
  BY <1>1, BirthKept
<1>3. turn'[t].messages = StateMessages(t) /\ turn'[t].path = turn[t].path /\ turn'[t].how = turn[t].how
  BY <1>1 DEF Birth, Prompt
<1>4. StateMessages(t) = Known(t) \/ (Degraded(t) /\ StateMessages(t) = <<t>>)
  BY <1>1, StateMessagesFacts
<1>5. Worded(t)' /\ Idle(t)'
  BY <1>1, <1>2, <1>3, <1>4 DEF Worded, Idle, Degraded
<1>6. Sound'
  BY SoundStart DEF Faithful
<1>7. QED
  BY <1>1, <1>2, <1>5, <1>6, FaithfulKept

LEMMA CompleteFacts ==
  ASSUME Faithful, NEW t \in Turns, Complete(t)
  PROVE  /\ turn[t].at = "running" /\ turn[t].worker = "answered" /\ Others(t)
         /\ turn'[t].at = "done" /\ turn'[t].worker = "none"
         /\ Birth(t)' = Birth(t) /\ Prompt(t)' = Prompt(t) /\ turn'[t].sends = turn[t].sends
         /\ turn'[t].found = turn[t].found /\ turn'[t].bound = BoundPath(t)
         /\ UNCHANGED <<page, content>>
         /\ \A u \in bindings' \cup ToSet(lineages') :
              u \in bindings \cup ToSet(lineages) \/ (u = t /\ BoundPath(t) \in Turns)
<1>0. /\ TypeInv /\ turn[t].at = "running" /\ turn[t].worker = "answered" /\ UNCHANGED <<page, content>>
      /\ lineages \in Seq(Turns) /\ BoundPath(t) \in Here
  BY DEF Complete, Faithful, Sound, TypeInv, TurnRecord, BoundPath, ShownPath, Here
<1>1. /\ Others(t) /\ turn'[t].at = "done" /\ turn'[t].worker = "none"
      /\ Birth(t)' = Birth(t) /\ Prompt(t)' = Prompt(t) /\ Sending(t)' = Sending(t)
      /\ turn'[t].found = turn[t].found /\ turn'[t].bound = BoundPath(t)
  BY <1>0, CompleteEffect
<1>2. CASE BoundPath(t) = NoTurn
  <2>1. UNCHANGED <<bindings, lineages>>
    BY <1>2 DEF Complete, affinity
  <2>2. QED
    BY <1>0, <1>1, <2>1 DEF Sending
<1>3. CASE BoundPath(t) # NoTurn
  <2>1. bindings' = bindings \cup {t} /\ lineages' = Append(lineages, t)
    BY <1>3 DEF Complete
  <2>2. ToSet(lineages') = ToSet(lineages) \cup {t}
    BY <1>0, <2>1, ToSetAppend
  <2>3. BoundPath(t) \in Turns
    BY <1>0, <1>3 DEF Here
  <2>4. QED
    BY <1>0, <1>1, <2>1, <2>2, <2>3 DEF Sending
<1>4. QED
  BY <1>2, <1>3

LEMMA FaithfulComplete ==
  ASSUME Faithful, NEW t \in Turns, Complete(t)
  PROVE  Faithful'
<1>1. /\ turn[t].at = "running" /\ Others(t)
      /\ turn'[t].at = "done" /\ turn'[t].worker = "none"
      /\ Birth(t)' = Birth(t) /\ Prompt(t)' = Prompt(t)
      /\ turn'[t].bound = BoundPath(t)
      /\ \A u \in bindings' \cup ToSet(lineages') :
           u \in bindings \cup ToSet(lineages) \/ (u = t /\ BoundPath(t) \in Turns)
  BY CompleteFacts
<1>2. Known(t)' = Known(t) /\ Lineal(t)'
  BY <1>1, BirthKept
<1>3. turn'[t].messages = turn[t].messages /\ turn'[t].path = turn[t].path /\ turn'[t].how = turn[t].how
  BY <1>1 DEF Birth, Prompt
<1>4. Worded(t)' /\ Idle(t)'
  BY <1>1, <1>2, <1>3 DEF Faithful, Worded, Idle, Degraded
<1>5. Sound'
  BY SoundComplete DEF Faithful
<1>6. QED
  BY <1>1, <1>2, <1>4, <1>5, FaithfulKept

(* A turn that ends, or whose client left. *)
Quits(t) == PrepareFails(t) \/ Leaves(t)

LEMMA QuitsFacts ==
  ASSUME Faithful, NEW t \in Turns, Quits(t)
  PROVE  /\ turn[t].at \in {"called", "prepared", "running", "leaving"} /\ Others(t)
         /\ turn'[t].at = "ended" \/ (turn[t].at = "running" /\ turn'[t].at = "leaving")
         /\ Birth(t)' = Birth(t) /\ Prompt(t)' = Prompt(t)
         /\ UNCHANGED <<bindings, content>> /\ ToSet(lineages') \subseteq ToSet(lineages)
<1>0. turn \in [Turns -> TurnRecord] /\ hint \in HintStates /\ lineages \in Seq(Turns)
  BY DEF Faithful, Sound, TypeInv
<1>1. CASE PrepareFails(t)
  <2>1. Moved(t, "ended", turn[t].worker)
    BY <1>0, <1>1, AtEffect DEF PrepareFails, HandlerSteps
  <2>2. UseLineage(t) /\ turn[t].at = "called" /\ UNCHANGED <<bindings, content>>
    BY <1>1 DEF PrepareFails, UseLineage
  <2>3. ToSet(lineages') \subseteq ToSet(lineages)
    BY <1>0, <2>2, UseLineageFacts
  <2>4. QED
    BY <2>1, <2>2, <2>3 DEF Moved
<1>2. CASE Leaves(t)
  <2>1. /\ turn[t].at \in {"prepared", "running", "leaving"}
        /\ UNCHANGED <<bindings, lineages, content>>
        /\ \E at \in {"leaving", "ended"}, worker \in WorkerSteps : Moved(t, at, worker)
    BY <1>0, <1>2, LeavesEffect DEF affinity
  <2>2. turn'[t].at = "leaving" => turn[t].at = "running"
    <3>1. ASSUME turn'[t].at = "leaving", ~Leave(t) PROVE FALSE
      <4>1. turn' = [turn EXCEPT ![t].at = "ended"] \/ (turn' = [turn EXCEPT ![t].at = "ended", ![t].worker = "none"]) \/ Gone(t, "ended")
        BY <1>2, <3>1 DEF Leaves, StartFails, Fail, Abort, Left
      <4>2. turn'[t].at = "ended"
        BY <1>0, <4>1, AtEffect, BothEffect, GoneEffect DEF Moved, HandlerSteps, WorkerSteps
      <4>3. QED
        BY <3>1, <4>2
    <3>2. QED
      BY <3>1 DEF Leave
  <2>3. QED
    BY <2>1, <2>2 DEF Moved
<1>3. QED
  BY <1>1, <1>2 DEF Quits

LEMMA FaithfulQuits ==
  ASSUME Faithful, NEW t \in Turns, Quits(t)
  PROVE  Faithful'
<1>1. Sound'
  BY SoundPrepare, SoundLeaves DEF Faithful, Quits, Prepare
<1>2. QED
  BY <1>1, QuitsFacts, FaithfulMoved

LEMMA FaithfulDrives ==
  ASSUME Faithful, NEW t \in Turns, Drives(t)
  PROVE  Faithful'
<1>1. Sound /\ Sound'
  BY SoundDrives DEF Faithful
<1>2. /\ turn[t].worker # "none" /\ \E worker \in WorkerSteps : Moved(t, turn[t].at, worker)
      /\ UNCHANGED <<bindings, lineages>>
  BY <1>1, DrivesEffect DEF affinity
<1>3. turn[t].at \notin {"unborn", "called", "prepared", "done"}
  BY <1>2 DEF Faithful, Idle
<1>4. /\ Others(t) /\ Birth(t)' = Birth(t) /\ Prompt(t)' = Prompt(t) /\ turn'[t].at = turn[t].at /\ Idle(t)'
  BY <1>2, <1>3 DEF Moved, Idle
<1>5. QED
  BY <1>1, <1>2, <1>3, <1>4, FaithfulMoved

LEMMA FaithfulSend ==
  ASSUME Faithful, NEW t \in Turns, Send(t)
  PROVE  Faithful'
<1>1. Sound /\ Sound' /\ TypeInv /\ turn[t].worker = "composing" /\ UNCHANGED <<bindings, lineages>>
  BY SoundSend DEF Faithful, Sound, Send, affinity
<1>2. Others(t) /\ turn'[t].at = turn[t].at /\ Birth(t)' = Birth(t) /\ Prompt(t)' = Prompt(t)
  BY <1>1, SendEffect
<1>3. turn[t].at \notin {"unborn", "called", "prepared", "done"}
  BY <1>1 DEF Faithful, Idle
<1>4. Idle(t)'
  BY <1>2, <1>3 DEF Idle
<1>5. QED
  BY <1>1, <1>2, <1>3, <1>4, FaithfulMoved

LEMMA FaithfulForget ==
  ASSUME Faithful, NEW t \in Turns, Forget(t)
  PROVE  Faithful'
<1>1. Sound /\ Sound'
  BY SoundForget DEF Faithful
<1>2. turn' = turn /\ bindings' \subseteq bindings /\ ToSet(lineages') \subseteq ToSet(lineages)
  BY <1>1, ForgetFacts
<1>3. QED
  BY <1>1, <1>2 DEF Faithful, Lineal, Worded, Idle, Known, Degraded, Before

LEMMA FaithfulRestart ==
  ASSUME Faithful, Restart
  PROVE  Faithful'
<1>1. Sound' /\ TypeInv /\ turn \in [Turns -> TurnRecord]
  BY SoundRestart DEF Faithful, Sound, TypeInv
<1>2. \A u \in Turns :
        /\ turn'[u].worker = "none"
        /\ turn'[u].at = IF turn[u].at \in {"called", "prepared", "running", "leaving"} THEN "ended" ELSE turn[u].at
        /\ Birth(u)' = Birth(u) /\ Prompt(u)' = Prompt(u)
  BY <1>1, RestartEffect
<1>3. ASSUME NEW u \in Turns
      PROVE  /\ turn'[u].history = turn[u].history /\ turn'[u].path = turn[u].path
             /\ turn'[u].how = turn[u].how /\ turn'[u].parent = turn[u].parent
             /\ turn'[u].messages = turn[u].messages
             /\ turn'[u].worker = "none"
             /\ turn'[u].at = IF turn[u].at \in {"called", "prepared", "running", "leaving"} THEN "ended" ELSE turn[u].at
  BY <1>2 DEF Birth, Prompt
<1>4. ASSUME NEW u \in Turns PROVE Lineal(u)' /\ Worded(u)' /\ Idle(u)'
  <2>0. Lineal(u) /\ Worded(u) /\ turn[u].parent \in Here
    BY <1>1, Fields DEF Faithful
  <2>1. Lineal(u)'
    <3>1. turn[u].parent # NoTurn =>
            /\ turn'[turn[u].parent].history = turn[turn[u].parent].history
            /\ turn[turn[u].parent].at = "done" => turn'[turn[u].parent].at = "done"
      BY <1>3, <2>0 DEF Here
    <3>2. QED
      BY <1>3, <2>0, <3>1 DEF Lineal, Before
  <2>2. Known(u)' = Known(u)
    <3>1. turn[u].how = "id" => turn[u].parent \in Turns
      BY DEF Faithful, Sound, Stored, Fit
    <3>2. turn[u].how = "id" => turn'[turn[u].parent].messages = turn[turn[u].parent].messages
      BY <1>3, <3>1
    <3>3. QED
      BY <1>3, <3>2 DEF Known
  <2>3. Worded(u)' /\ Idle(u)'
    BY <1>3, <2>0, <2>2 DEF Worded, Idle, Degraded
  <2>4. QED
    BY <2>1, <2>3
<1>5. bindings' \cup ToSet(lineages') = {}
  <2>1. bindings' = {} /\ lineages' = <<>>
    BY DEF Restart
  <2>2. ToSet(<<>>) = {}
    BY DEF ToSet
  <2>3. QED
    BY <2>1, <2>2
<1>6. QED
  BY <1>1, <1>4, <1>5 DEF Faithful

LEMMA FaithfulInit == Init => Faithful
<1> SUFFICES ASSUME Init PROVE Faithful
  OBVIOUS
<1>1. \A u \in Turns : turn[u] = Unborn
  BY DEF Init
<1>2. \A u \in Turns : Lineal(u) /\ Worded(u) /\ Idle(u)
  BY <1>1 DEF Lineal, Worded, Idle, Unborn
<1>3. bindings \cup ToSet(lineages) = {}
  BY DEF Init, ToSet
<1>4. QED
  BY <1>2, <1>3, SoundInit DEF Faithful

LEMMA FaithfulNext == Faithful /\ [Next]_vars => Faithful'
<1> SUFFICES ASSUME Faithful, [Next]_vars PROVE Faithful'
  OBVIOUS
<1>1. ASSUME NEW t \in Turns, Handler(t) PROVE Faithful'
  BY <1>1, FaithfulCall, FaithfulReadies, FaithfulStart, FaithfulComplete, FaithfulQuits
     DEF Handler, Prepare, Readies, Quits, Leaves
<1>2. ASSUME NEW t \in Turns, Worker(t) PROVE Faithful'
  BY <1>2, FaithfulDrives, FaithfulSend DEF Worker, Drives
<1>3. ASSUME NEW t \in Turns, Forget(t) PROVE Faithful'
  BY <1>3, FaithfulForget
<1>4. CASE ShowPath
  <2>1. Sound' /\ UNCHANGED <<turn, bindings, lineages>>
    BY <1>4, SoundShowPath DEF Faithful, ShowPath, affinity
  <2>2. QED
    BY <2>1 DEF Faithful, Lineal, Worded, Idle, Known, Degraded, Before
<1>5. CASE Restart
  BY <1>5, FaithfulRestart
<1>6. CASE UNCHANGED vars
  <2>1. Sound' /\ UNCHANGED <<turn, bindings, lineages>>
    BY <1>6, SoundNext DEF Faithful, vars, affinity
  <2>2. QED
    BY <2>1 DEF Faithful, Lineal, Worded, Idle, Known, Degraded, Before
<1>7. QED
  BY <1>1, <1>2, <1>3, <1>4, <1>5, <1>6 DEF Next

-----------------------------------------------------------------------------
(* Nothing is missing. *)

(* The clients run one turn at a time: the next is called once the bridge   *)
(* and the worker are done with the last; and the tab is there when the     *)
(* hint is to be set. Everything else may go wrong.                         *)
OneAtATime == MaxActive <= 1 /\ {"late_goodbye", "unset_hint"} \cap Disturbances = {}

(* The exchanges typed into a conversation. *)
There(c) == IF c = NoTurn THEN {} ELSE ToSet(content[c])

(* A turn with a handler or a worker at work. *)
Active(u) == turn[u].at \in {"called", "prepared", "running", "leaving"} \/ turn[u].worker # "none"

(* One turn is active at a time. *)
Alone == \A u, v \in Turns : Active(u) /\ Active(v) => u = v

(* What a prepared turn will type, with what its conversation holds, is all *)
(* that is known of the turn; the page shows that conversation.             *)
ReadyFor(t) ==
  turn[t].at = "prepared" =>
    /\ turn[t].path \in {NoTurn, page}
    /\ ~StateLost(t) => ToSet(Known(t)) \subseteq ToSet(BrowserMessages(t)) \cup There(turn[t].path)

(* While the worker of a running turn is on its way the hint is set, so     *)
(* that the prompt will go to the page that was prepared; once it is there, *)
(* the context holds all that is known of the turn.                         *)
OnCourse(t) ==
  turn[t].at = "running" =>
    /\ hint # "clear"
    /\ turn[t].path \in {NoTurn, page}
    /\ turn[t].worker \in {"queued", "driving", "composing", "sent", "answered", "failed"}
    /\ turn[t].worker \in {"queued", "driving", "composing"} =>
         ToSet(Known(t)) \subseteq ToSet(turn[t].sends) \cup There(turn[t].path)
    /\ turn[t].worker \in {"sent", "answered"} =>
         /\ page \in Turns /\ content[page] = Context(t)
         /\ ToSet(Known(t)) \subseteq ToSet(Context(t))

(* A completed turn was answered from all that is known of it. *)
Told(t) == turn[t].at = "done" => ToSet(Known(t)) \subseteq ToSet(Context(t))

(* The conversation a turn is bound to holds all that is known of it. *)
Honest(t) == ToSet(Known(t)) \subseteq There(turn[t].bound)

(* The transcript is covered at every stage of a turn and by every binding. *)
Covered ==
  /\ \A u \in Turns : ReadyFor(u) /\ OnCourse(u) /\ Told(u)
  /\ \A u \in bindings \cup ToSet(lineages) : Honest(u)

(* The inductive invariant behind NothingMissing and BindingHonest. *)
Whole == Faithful /\ Alone /\ Covered

LEMMA WholeTypes ==
  ASSUME Faithful
  PROVE  /\ Sound /\ TypeInv /\ turn \in [Turns -> TurnRecord] /\ lineages \in Seq(Turns) /\ bindings \subseteq Turns
         /\ content \in [Turns -> Seq(Turns)] /\ page \in Here /\ NoTurn \notin Turns
         /\ bindings \cup ToSet(lineages) \subseteq Turns
  BY TurnAssumption, ToSetType DEF Faithful, Sound, TypeInv, TurnAssumption

(* What is bound was completed, to a conversation. *)
LEMMA BoundFacts ==
  ASSUME Faithful, NEW u \in bindings \cup ToSet(lineages)
  PROVE  u \in Turns /\ turn[u].at = "done" /\ turn[u].bound \in Turns
<1>1. u \in Turns
  BY WholeTypes
<1>2. QED
  BY <1>1 DEF Faithful, Sound, Stored

(* What a completed turn ran with is known of it, and is not empty. *)
LEMMA MessagesKnown ==
  ASSUME Faithful, NEW u \in Turns, turn[u].at = "done"
  PROVE  ToSet(turn[u].messages) \subseteq ToSet(Known(u)) /\ Len(turn[u].messages) > 0
<1>0. /\ turn[u].messages \in Seq(Turns) /\ turn[u].history \in Seq(Turns)
      /\ turn[u].parent \in Here /\ turn[u].how \in {"id", "history"}
  BY WholeTypes, Fields
<1>1. turn[u].messages = Known(u) \/ Degraded(u)
  BY DEF Faithful, Worded
<1>2. \E s \in Seq(Turns) : Known(u) = Append(s, u)
  <2>1. CASE turn[u].how = "id"
    <3>1. turn[u].parent \in Turns
      BY <2>1 DEF Faithful, Sound, Stored, Fit
    <3>2. turn[turn[u].parent].messages \in Seq(Turns)
      BY <3>1, WholeTypes, Fields
    <3>3. QED
      BY <2>1, <3>2 DEF Known
  <2>2. CASE turn[u].how # "id"
    <3>1. turn[u].history = Append(Before(turn[u].parent), u)
      BY DEF Faithful, Lineal
    <3>2. Before(turn[u].parent) \in Seq(Turns)
      <4>1. turn[u].parent # NoTurn => turn[turn[u].parent].history \in Seq(Turns)
        BY <1>0, WholeTypes, Fields DEF Here
      <4>2. QED
        BY <4>1 DEF Before
    <3>3. QED
      BY <2>2, <3>1, <3>2 DEF Known
  <2>3. QED
    BY <2>1, <2>2
<1>3. PICK s \in Seq(Turns) : Known(u) = Append(s, u)
  BY <1>2
<1>4. ToSet(Known(u)) = ToSet(s) \cup {u} /\ Len(Known(u)) > 0
  BY <1>3, ToSetAppend
<1>5. ToSet(<<u>>) = {u} /\ Len(<<u>>) > 0
  BY DEF ToSet
<1>6. QED
  BY <1>1, <1>4, <1>5 DEF Degraded

(* Whoever acts on a turn's behalf finds no other turn active. *)
LEMMA ActorIsAlone ==
  ASSUME OneAtATime, Faithful, Alone, NEW t \in Turns, Handler(t) \/ Worker(t)
  PROVE  \A u \in Turns : u # t => ~Active(u)
<1>1. CASE Call(t)
  <2>1. Cardinality(Served) < 1
    <3>1. Cardinality(Served) < MaxActive /\ MaxActive \in Nat
      BY <1>1, TurnAssumption DEF Call, TurnAssumption
    <3>2. IsFiniteSet(Served)
      BY TurnAssumption, FS_Subset DEF TurnAssumption, Served, At
    <3>3. QED
      BY <3>1, <3>2, FS_CardinalityType DEF OneAtATime
  <2>2. Served = {}
    <3>1. IsFiniteSet(Served)
      BY TurnAssumption, FS_Subset DEF TurnAssumption, Served, At
    <3>2. Cardinality(Served) = 0
      BY <2>1, <3>1, FS_CardinalityType
    <3>3. QED
      BY <3>1, <3>2, FS_EmptySet
  <2>3. DoneWithLeavers
    BY <1>1 DEF Call, OneAtATime
  <2>4. ASSUME NEW u \in Turns PROVE ~Active(u)
    <3>1. turn[u].at \notin {"called", "prepared", "running"}
      BY <2>2 DEF Served, At
    <3>2. turn[u].at \in HandlerSteps /\ Idle(u)
      BY WholeTypes, Fields DEF Faithful
    <3>3. turn[u].at \in {"leaving", "ended"} => turn[u].at = "ended" /\ turn[u].worker = "none"
      BY <2>3 DEF DoneWithLeavers
    <3>4. QED
      BY <3>1, <3>2, <3>3 DEF Active, Idle, HandlerSteps
  <2>5. QED
    BY <2>4
<1>2. CASE ~Call(t)
  <2>1. Active(t)
    <3>1. CASE Handler(t)
      <4>1. turn[t].at \in {"called", "prepared", "running", "leaving"}
        BY <1>2, <3>1 DEF Handler, Prepare, PrepareReuse, PrepareLineage, PrepareFresh, PrepareDegraded,
                          PrepareFails, Start, StartFails, Complete, Fail, Abort, Leave, Left
      <4>2. QED
        BY <4>1 DEF Active
    <3>2. CASE Worker(t)
      <4>1. turn[t].worker # "none"
        BY <3>2 DEF Worker, TakeTab, ReadHint, OpenChat, Send, Answer, WorkerStops, OnThePage
      <4>2. QED
        BY <4>1 DEF Active
    <3>3. QED
      BY <3>1, <3>2
  <2>2. QED
    BY <2>1 DEF Alone
<1>3. QED
  BY <1>1, <1>2

(* While t acts alone, the other turns keep what covers them. *)
LEMMA WholeKept ==
  ASSUME Whole, Faithful', NEW t \in Turns, turn[t].at # "done", Others(t),
         \A u \in Turns : u # t => ~Active(u),
         \A c \in Turns : ToSet(content[c]) \subseteq ToSet(content'[c]),
         ReadyFor(t)', OnCourse(t)', Told(t)',
         \A u \in bindings' \cup ToSet(lineages') :
           u \in bindings \cup ToSet(lineages) \/ (u = t /\ Honest(t)')
  PROVE  Whole'
<1>0. Faithful
  BY DEF Whole
<1>1. \A u \in Turns : u # t => turn'[u] = turn[u]
  BY DEF Others
<1>2. \A u \in Turns : u # t => ~Active(u)'
  BY <1>1 DEF Active
<1>3. Alone'
  BY <1>2 DEF Alone
<1>4. ASSUME NEW u \in Turns, u # t PROVE ReadyFor(u)' /\ OnCourse(u)' /\ Told(u)'
  <2>1. turn'[u] = turn[u] /\ turn[u].at \notin {"prepared", "running"}
    BY <1>1, <1>4 DEF Active
  <2>2. ReadyFor(u)' /\ OnCourse(u)'
    BY <2>1 DEF ReadyFor, OnCourse
  <2>3. ASSUME turn[u].at = "done" PROVE ToSet(Known(u)') \subseteq ToSet(Context(u)')
    <3>1. Known(u)' = Known(u)
      BY <1>0, <2>1, <2>3, BirthKept DEF Birth
    <3>2. Context(u)' = Context(u)
      BY <2>1 DEF Context
    <3>3. ToSet(Known(u)) \subseteq ToSet(Context(u))
      BY <2>3 DEF Whole, Covered, Told
    <3>4. QED
      BY <3>1, <3>2, <3>3
  <2>4. Told(u)'
    BY <2>1, <2>3 DEF Told
  <2>5. QED
    BY <2>2, <2>4
<1>5. ASSUME NEW u \in bindings' \cup ToSet(lineages') PROVE Honest(u)'
  <2>1. CASE u \in bindings \cup ToSet(lineages)
    <3>1. u \in Turns /\ turn[u].at = "done" /\ turn[u].bound \in Turns /\ Honest(u)
      BY <1>0, <2>1, BoundFacts DEF Whole, Covered
    <3>2. turn'[u] = turn[u]
      BY <1>1, <3>1
    <3>3. Known(u)' = Known(u)
      BY <1>0, <3>1, <3>2, BirthKept DEF Birth
    <3>4. There(turn[u].bound) \subseteq ToSet(content'[turn[u].bound])
      BY <3>1 DEF There
    <3>5. There(turn[u].bound)' = ToSet(content'[turn[u].bound])
      BY <1>0, <3>1, <3>2, WholeTypes DEF There
    <3>6. QED
      BY <3>1, <3>3, <3>4, <3>5 DEF Honest
  <2>2. QED
    BY <1>5, <2>1
<1>6. Covered'
  BY <1>4, <1>5 DEF Covered
<1>7. QED
  BY <1>3, <1>6 DEF Whole

LEMMA SameContent ==
  ASSUME content' = content
  PROVE  /\ \A c \in Turns : ToSet(content[c]) \subseteq ToSet(content'[c])
         /\ \A c : There(c)' = There(c)
  BY DEF There

LEMMA WholeCall ==
  ASSUME OneAtATime, Whole, NEW t \in Turns, Call(t)
  PROVE  Whole'
<1>1. Faithful' /\ turn'[t].at = "called" /\ Others(t) /\ turn[t].at = "unborn"
      /\ UNCHANGED <<bindings, lineages, content>>
  BY FaithfulCall DEF Whole, Call, affinity
<1>2. \A u \in Turns : u # t => ~Active(u)
  BY ActorIsAlone DEF Whole, Handler
<1>3. ReadyFor(t)' /\ OnCourse(t)' /\ Told(t)'
  BY <1>1 DEF ReadyFor, OnCourse, Told
<1>4. QED
  BY <1>1, <1>2, <1>3, SameContent, WholeKept

(* What the conversation of the previous response lacks is the new turn. *)
LEMMA BindingCovers ==
  ASSUME Whole, NEW t \in Turns, turn[t].at = "called", Binding(t) # NoTurn
  PROVE  /\ Binding(t) \in Turns
         /\ ToSet(Known(t)) \subseteq {t} \cup There(Binding(t))
<1>0. Faithful
  BY DEF Whole
<1> DEFINE p == turn[t].parent
<1>1. turn[t].how = "id" /\ p \in Turns /\ p \in bindings /\ Binding(t) = turn[p].bound /\ Binding(t) \in Turns
  BY <1>0, BindingFacts
<1>2. turn[p].at = "done" /\ Honest(p)
  BY <1>0, <1>1, BoundFacts DEF Whole, Covered
<1>3. ToSet(turn[p].messages) \subseteq There(turn[p].bound)
  BY <1>0, <1>1, <1>2, MessagesKnown DEF Honest
<1>4. turn[p].messages \in Seq(Turns)
  BY <1>0, <1>1, WholeTypes, Fields
<1>5. Known(t) = Append(turn[p].messages, t)
  BY <1>1 DEF Known
<1> HIDE DEF p
<1>6. ToSet(Known(t)) = ToSet(turn[p].messages) \cup {t}
  BY <1>4, <1>5, ToSetAppend
<1>7. QED
  BY <1>1, <1>3, <1>6

(* What the conversation of a matched lineage lacks is the rest of the transcript. *)
LEMMA LineageCovers ==
  ASSUME Whole, NEW t \in Turns, turn[t].at = "called", Lineage(t) # NoTurn
  PROVE  /\ turn[Lineage(t)].bound \in Turns
         /\ Len(turn[Lineage(t)].messages) > 0
         /\ turn[t].history # <<>>
         /\ Known(t) = turn[t].history /\ Hydrated(t) = turn[t].history
         /\ ToSet(Known(t)) \subseteq
              ToSet(SubSeq(turn[t].history, Len(turn[Lineage(t)].messages) + 1, Len(turn[t].history)))
              \cup There(turn[Lineage(t)].bound)
<1>0. Faithful /\ lineages \in Seq(Turns)
  BY WholeTypes DEF Whole
<1>1. /\ turn[t].how = "history" /\ Lineage(t) \in ToSet(lineages) /\ Extends(t, Lineage(t))
  BY <1>0, LineageFacts
<1> DEFINE u == Lineage(t)
<1> DEFINE m == turn[u].messages
<1> DEFINE h == turn[t].history
<1>2. u \in Turns /\ turn[u].at = "done" /\ turn[u].bound \in Turns /\ Honest(u)
  BY <1>0, <1>1, BoundFacts DEF Whole, Covered
<1>3. ToSet(m) \subseteq There(turn[u].bound) /\ Len(m) > 0
  BY <1>0, <1>2, MessagesKnown DEF Honest
<1>4. Known(t) = h /\ Hydrated(t) = h /\ h # <<>>
  BY <1>0, <1>1 DEF Known, Hydrated, Faithful, Sound, Stored, Fit
<1>5. m \in Seq(Turns) /\ h \in Seq(Turns)
  BY <1>0, <1>2, WholeTypes, Fields
<1>6. Len(m) <= Len(h) /\ SubSeq(m, 1, Len(m)) = SubSeq(h, 1, Len(m))
  BY <1>1 DEF Extends, IsStrictPrefix, IsPrefix
<1> DEFINE n == Len(m)
<1> HIDE DEF u, m, h
<1>7. n \in Nat /\ Len(h) \in Nat /\ n <= Len(h)
  BY <1>5, <1>6
<1> DEFINE r == SubSeq(h, n + 1, Len(h))
<1>8. Len(r) = Len(h) - n /\ r \in Seq(Turns) /\ \A i \in 1..(Len(h) - n) : r[i] = h[n + i]
  BY <1>5, <1>7, SubSeqProperties
<1>9. \A i \in 1..n : m[i] = h[i]
  BY <1>5, <1>6, <1>7, SubSeqProperties
<1>10. ASSUME NEW i \in 1..Len(h) PROVE h[i] \in ToSet(m) \cup ToSet(r)
  <2>1. CASE i <= n
    <3>1. i \in DOMAIN m /\ h[i] = m[i]
      BY <1>5, <1>7, <1>9, <2>1
    <3>2. QED
      BY <3>1 DEF ToSet
  <2>2. CASE i > n
    <3>1. i - n \in 1..(Len(h) - n) /\ n + (i - n) = i
      BY <1>7, <2>2
    <3>2. i - n \in DOMAIN r /\ h[i] = r[i - n]
      BY <1>8, <3>1
    <3>3. QED
      BY <3>2 DEF ToSet
  <2>3. QED
    BY <1>7, <2>1, <2>2
<1>11. ToSet(h) \subseteq ToSet(m) \cup ToSet(r)
  <2>1. DOMAIN h = 1..Len(h)
    BY <1>5
  <2>2. ASSUME NEW e \in ToSet(h) PROVE e \in ToSet(m) \cup ToSet(r)
    BY <1>10, <2>1 DEF ToSet
  <2>3. QED
    BY <2>2
<1>12. ToSet(Known(t)) \subseteq ToSet(r) \cup There(turn[u].bound)
  BY <1>3, <1>4, <1>11
<1>13. QED
  BY <1>2, <1>3, <1>4, <1>12 DEF u, m, h

LEMMA ReadiesCover ==
  ASSUME Whole, NEW t \in Turns, Readies(t)
  PROVE  ReadyFor(t)'
<1>0. Faithful
  BY DEF Whole
<1>1. /\ turn[t].at = "called" /\ Others(t) /\ turn'[t].at = "prepared"
      /\ Birth(t)' = Birth(t) /\ UNCHANGED <<memory, disk, bindings, content>>
  BY <1>0, ReadiesEffect
<1>2. Known(t)' = Known(t) /\ \A c : There(c)' = There(c)
  BY <1>0, <1>1, BirthKept, SameContent
<1>3. turn'[t].how = turn[t].how /\ turn'[t].parent = turn[t].parent /\ NoTurn \notin Turns
  BY <1>0, <1>1, WholeTypes DEF Birth
<1>4. ASSUME Binding(t) # NoTurn, turn'[t].path = Binding(t), turn'[t].skip = 0, page' = Binding(t)
      PROVE  ReadyFor(t)'
  <2>1. BrowserMessages(t)' = <<t>>
    BY <1>3, <1>4, BindingFacts, <1>0 DEF BrowserMessages
  <2>2. ToSet(<<t>>) = {t}
    BY DEF ToSet
  <2>3. ToSet(Known(t)) \subseteq {t} \cup There(Binding(t))
    BY <1>1, <1>4, BindingCovers
  <2>4. ToSet(Known(t)') \subseteq ToSet(BrowserMessages(t)') \cup There(turn[t].path)'
    BY <1>2, <1>4, <2>1, <2>2, <2>3
  <2>5. QED
    BY <1>4, <2>4 DEF ReadyFor
<1>5. CASE PrepareReuse(t) /\ Prompt(t)' = <<Hydrated(t), Binding(t), 0>>
  BY <1>4, <1>5 DEF PrepareReuse, Prompt
<1>6. CASE PrepareDegraded(t) /\ Prompt(t)' = <<<<t>>, Binding(t), 0>>
  BY <1>4, <1>6 DEF PrepareDegraded, Prompt
<1>7. CASE PrepareLineage(t) /\ Prompt(t)' = <<Hydrated(t), turn[Lineage(t)].bound, Len(turn[Lineage(t)].messages)>>
  <2>1. /\ Lineage(t) # NoTurn /\ page' = turn[Lineage(t)].bound
        /\ turn'[t].messages = Hydrated(t) /\ turn'[t].path = turn[Lineage(t)].bound
        /\ turn'[t].skip = Len(turn[Lineage(t)].messages)
    BY <1>7 DEF PrepareLineage, Prompt
  <2>2. /\ turn[Lineage(t)].bound \in Turns
        /\ Len(turn[Lineage(t)].messages) > 0
        /\ turn[t].history # <<>> /\ Hydrated(t) = turn[t].history
        /\ ToSet(Known(t)) \subseteq
              ToSet(SubSeq(turn[t].history, Len(turn[Lineage(t)].messages) + 1, Len(turn[t].history)))
              \cup There(turn[Lineage(t)].bound)
    BY <1>1, <2>1, LineageCovers
  <2>3. BrowserMessages(t)' = SubSeq(turn[t].history, Len(turn[Lineage(t)].messages) + 1, Len(turn[t].history))
    BY <1>3, <2>1, <2>2 DEF BrowserMessages, StateMessages
  <2>4. QED
    BY <1>2, <2>1, <2>2, <2>3 DEF ReadyFor
<1>8. CASE PrepareFresh(t) /\ Prompt(t)' = <<Hydrated(t), NoTurn, 0>>
  <2>1. turn'[t].messages = Hydrated(t) /\ turn'[t].path = NoTurn /\ Hydrates(t)
    BY <1>8 DEF PrepareFresh, Prompt
  <2>2. BrowserMessages(t)' = StateMessages(t)'
    BY <2>1 DEF BrowserMessages
  <2>3. ASSUME ~StateLost(t)' PROVE StateMessages(t)' = Known(t)
    <3>1. CASE turn'[t].messages = <<>>
      <4>1. turn[t].how = "id" \/ <<>> = Known(t)
        BY <1>0, <1>1, <2>1, <3>1, HydratedFacts
      <4>2. Known(t) # <<>>
        <5>1. CASE turn[t].how = "id"
          <6>1. turn[turn[t].parent].messages \in Seq(Turns)
            BY <1>0, <5>1, WholeTypes, Fields DEF Faithful, Sound, Stored, Fit
          <6>2. QED
            BY <5>1, <6>1 DEF Known
        <5>2. CASE turn[t].how # "id"
          BY <1>0, <1>1, <5>2 DEF Known, Faithful, Sound, Stored, Fit
        <5>3. QED
          BY <5>1, <5>2
      <4>3. turn[t].parent \in Turns /\ \A p \in Turns : memory[p] # <<>> => memory[p] = turn[p].messages
        BY <1>0, <4>1, <4>2 DEF Faithful, Sound, Stored, Fit
      <4>4. memory[turn[t].parent] # <<>> /\ StateMessages(t)' = Append(memory[turn[t].parent], t)
        BY <1>1, <1>3, <2>3, <3>1 DEF StateLost, StateMessages
      <4>5. QED
        BY <4>1, <4>2, <4>3, <4>4 DEF Known
    <3>2. CASE turn'[t].messages # <<>>
      <4>1. StateMessages(t)' = Hydrated(t)
        BY <2>1, <3>2 DEF StateMessages
      <4>2. QED
        BY <1>0, <1>1, <2>1, <3>2, <4>1, HydratedFacts
    <3>3. QED
      BY <3>1, <3>2
  <2>4. QED
    BY <1>2, <2>1, <2>2, <2>3 DEF ReadyFor
<1>9. QED
  BY <1>0, <1>5, <1>6, <1>7, <1>8, ReadiesEffect

LEMMA WholeReadies ==
  ASSUME OneAtATime, Whole, NEW t \in Turns, Readies(t)
  PROVE  Whole'
<1>0. Faithful /\ Faithful'
  BY FaithfulReadies DEF Whole
<1>1. /\ turn[t].at = "called" /\ Others(t) /\ turn'[t].at = "prepared" /\ content' = content
      /\ bindings' = bindings /\ ToSet(lineages') \subseteq ToSet(lineages)
  BY <1>0, ReadiesEffect
<1>2. \A u \in Turns : u # t => ~Active(u)
  BY ActorIsAlone DEF Whole, Handler, Prepare, Readies
<1>3. ReadyFor(t)' /\ OnCourse(t)' /\ Told(t)'
  BY <1>1, ReadiesCover DEF OnCourse, Told
<1>4. QED
  BY <1>0, <1>1, <1>2, <1>3, SameContent, WholeKept

LEMMA WholeStart ==
  ASSUME OneAtATime, Whole, NEW t \in Turns, Start(t)
  PROVE  Whole'
<1>0. Faithful /\ Faithful'
  BY FaithfulStart DEF Whole
<1>1. /\ turn[t].at = "prepared" /\ ~StateLost(t) /\ Others(t)
      /\ turn'[t].at = "running" /\ turn'[t].worker = "queued"
      /\ Birth(t)' = Birth(t)
      /\ Prompt(t)' = <<StateMessages(t), turn[t].path, turn[t].skip>>
      /\ turn'[t].sends = BrowserMessages(t)
      /\ hint' = "set"
      /\ UNCHANGED <<bindings, lineages, page, content>>
  BY <1>0, StartFacts DEF HintSet, OneAtATime
<1>2. \A u \in Turns : u # t => ~Active(u)
  BY ActorIsAlone DEF Whole, Handler
<1>3. Known(t)' = Known(t) /\ \A c : There(c)' = There(c)
  BY <1>0, <1>1, BirthKept, SameContent
<1>4. /\ turn[t].path \in {NoTurn, page}
      /\ ToSet(Known(t)) \subseteq ToSet(BrowserMessages(t)) \cup There(turn[t].path)
  BY <1>1 DEF Whole, Covered, ReadyFor
<1>5. turn'[t].path = turn[t].path
  BY <1>1 DEF Prompt
<1>6. ReadyFor(t)' /\ Told(t)'
  BY <1>1 DEF ReadyFor, Told
<1>7. OnCourse(t)'
  BY <1>1, <1>3, <1>4, <1>5 DEF OnCourse
<1>8. QED
  BY <1>0, <1>1, <1>2, <1>6, <1>7, SameContent, WholeKept

LEMMA WholeComplete ==
  ASSUME OneAtATime, Whole, NEW t \in Turns, Complete(t)
  PROVE  Whole'
<1>0. Faithful /\ Faithful' /\ NoTurn \notin Turns
  BY FaithfulComplete, WholeTypes DEF Whole
<1>1. /\ turn[t].at = "running" /\ turn[t].worker = "answered" /\ Others(t)
      /\ turn'[t].at = "done"
      /\ Birth(t)' = Birth(t) /\ turn'[t].sends = turn[t].sends
      /\ turn'[t].found = turn[t].found /\ turn'[t].bound = BoundPath(t)
      /\ UNCHANGED <<page, content>>
      /\ \A u \in bindings' \cup ToSet(lineages') :
           u \in bindings \cup ToSet(lineages) \/ (u = t /\ BoundPath(t) \in Turns)
  BY <1>0, CompleteFacts
<1>2. \A u \in Turns : u # t => ~Active(u)
  BY ActorIsAlone DEF Whole, Handler
<1>3. Known(t)' = Known(t) /\ Context(t)' = Context(t) /\ \A c : There(c)' = There(c)
  BY <1>0, <1>1, BirthKept, SameContent DEF Context
<1>4. /\ page \in Turns /\ content[page] = Context(t) /\ ToSet(Known(t)) \subseteq ToSet(Context(t))
      /\ turn[t].path \in {NoTurn, page}
  BY <1>1 DEF Whole, Covered, OnCourse
<1>5. ReadyFor(t)' /\ OnCourse(t)' /\ Told(t)'
  BY <1>1, <1>3, <1>4 DEF ReadyFor, OnCourse, Told
<1>6. ASSUME BoundPath(t) \in Turns PROVE Honest(t)'
  <2>1. BoundPath(t) = page
    BY <1>0, <1>4, <1>6 DEF BoundPath, ShownPath
  <2>2. There(page) = ToSet(Context(t))
    BY <1>0, <1>4 DEF There
  <2>3. QED
    BY <1>1, <1>3, <1>4, <2>1, <2>2 DEF Honest
<1>7. QED
  BY <1>0, <1>1, <1>2, <1>5, <1>6, SameContent, WholeKept

LEMMA WholeQuits ==
  ASSUME OneAtATime, Whole, NEW t \in Turns, Quits(t)
  PROVE  Whole'
<1>0. Faithful /\ Faithful'
  BY FaithfulQuits DEF Whole
<1>1. /\ turn[t].at # "done" /\ Others(t) /\ turn'[t].at \in {"ended", "leaving"}
      /\ UNCHANGED <<bindings, content>> /\ ToSet(lineages') \subseteq ToSet(lineages)
  BY <1>0, QuitsFacts
<1>2. \A u \in Turns : u # t => ~Active(u)
  BY ActorIsAlone DEF Whole, Handler, Prepare, Quits, Leaves
<1>3. ReadyFor(t)' /\ OnCourse(t)' /\ Told(t)'
  BY <1>1 DEF ReadyFor, OnCourse, Told
<1>4. QED
  BY <1>0, <1>1, <1>2, <1>3, SameContent, WholeKept

LEMMA WholeDrives ==
  ASSUME OneAtATime, Whole, NEW t \in Turns, Drives(t)
  PROVE  Whole'
<1>0. Faithful /\ Faithful' /\ Sound /\ turn \in [Turns -> TurnRecord]
  BY FaithfulDrives, WholeTypes DEF Whole
<1>1. /\ turn[t].worker # "none" /\ \E worker \in WorkerSteps : Moved(t, turn[t].at, worker)
      /\ UNCHANGED <<bindings, lineages, hint, content>>
  BY <1>0, DrivesEffect DEF affinity
<1>2. turn[t].at \notin {"unborn", "called", "prepared", "done"}
  BY <1>0, <1>1 DEF Faithful, Idle
<1>3. /\ Others(t) /\ turn'[t].at = turn[t].at /\ Birth(t)' = Birth(t) /\ Prompt(t)' = Prompt(t)
      /\ Sending(t)' = Sending(t) /\ Outcome(t)' = Outcome(t)
  BY <1>1 DEF Moved
<1>4. \A u \in Turns : u # t => ~Active(u)
  BY ActorIsAlone DEF Whole, Worker, Drives
<1>5. ReadyFor(t)' /\ Told(t)'
  BY <1>2, <1>3 DEF ReadyFor, Told
<1>6. OnCourse(t)'
  <2>1. SUFFICES ASSUME turn[t].at = "running" PROVE OnCourse(t)'
    BY <1>3 DEF OnCourse
  <2>2. /\ Known(t)' = Known(t) /\ Context(t)' = Context(t) /\ turn'[t].path = turn[t].path
        /\ turn'[t].sends = turn[t].sends
    BY <1>0, <1>2, <1>3, BirthKept DEF Context, Prompt, Sending, Outcome
  <2>3. \A c : There(c)' = There(c)
    BY <1>1, SameContent
  <2>4. OnCourse(t)
    BY DEF Whole, Covered
  <2>5. /\ page' = page /\ hint' = hint /\ content' = content
        /\ turn'[t].worker \in {"driving", "composing", "answered", "failed"}
        /\ turn'[t].worker \in {"driving", "composing"} => turn[t].worker \in {"queued", "driving"}
        /\ turn'[t].worker = "answered" => turn[t].worker = "sent"
    <3>0. {"driving", "composing", "opening", "answered", "failed", "none"} \subseteq WorkerSteps
      BY DEF WorkerSteps, OnThePage
    <3>1. CASE TakeTab(t)
      <4>1. turn'[t].worker = "driving"
        BY <1>0, <3>0, <3>1, WorksEffect DEF TakeTab, Moved
      <4>2. QED
        BY <1>1, <3>1, <4>1 DEF TakeTab
    <3>2. CASE ReadHint(t)
      <4>1. turn'[t].worker = "composing"
        BY <1>0, <2>1, <2>4, <3>0, <3>2, WorksEffect DEF ReadHint, Moved, OnCourse
      <4>2. QED
        BY <1>1, <3>2, <4>1 DEF ReadHint
    <3>3. CASE OpenChat(t)
      BY <2>1, <2>4, <3>3 DEF OpenChat, OnCourse
    <3>4. CASE Answer(t)
      <4>1. turn'[t].worker = "answered"
        BY <1>0, <2>1, <3>0, <3>4, WorksEffect DEF Answer, Moved
      <4>2. QED
        BY <1>1, <3>4, <4>1 DEF Answer
    <3>5. CASE WorkerStops(t)
      <4>1. turn'[t].worker = "failed"
        BY <1>0, <2>1, <3>0, <3>5, WorksEffect DEF WorkerStops, Moved
      <4>2. QED
        BY <1>1, <3>5, <4>1 DEF WorkerStops
    <3>6. QED
      BY <3>1, <3>2, <3>3, <3>4, <3>5 DEF Drives
  <2>6. QED
    BY <1>3, <2>1, <2>2, <2>3, <2>4, <2>5 DEF OnCourse
<1>7. QED
  BY <1>0, <1>1, <1>2, <1>3, <1>4, <1>5, <1>6, SameContent, WholeKept

LEMMA WholeSend ==
  ASSUME OneAtATime, Whole, NEW t \in Turns, Send(t)
  PROVE  Whole'
<1>0. /\ Faithful /\ Faithful' /\ TypeInv /\ Sound /\ turn \in [Turns -> TurnRecord] /\ NoTurn \notin Turns
      /\ content \in [Turns -> Seq(Turns)]
  BY FaithfulSend, WholeTypes DEF Whole
<1> DEFINE c == IF page = NoTurn THEN t ELSE page
<1>1. /\ Others(t) /\ turn'[t].at = turn[t].at /\ turn'[t].worker = Then(t, "sent")
      /\ Birth(t)' = Birth(t) /\ Prompt(t)' = Prompt(t) /\ Sending(t)' = Sending(t)
      /\ turn'[t].found = content[c]
  BY <1>0, SendEffect
<1>2. /\ c \in Turns /\ page' = c
      /\ content' \in [Turns -> Seq(Turns)]
      /\ content'[c] = content[c] \o turn[t].sends
      /\ \A d \in Turns : d # c => content'[d] = content[d]
      /\ UNCHANGED <<bindings, lineages, hint>>
  BY <1>0, SendFacts
<1>3. turn[t].worker = "composing" /\ turn[t].at \notin {"unborn", "called", "prepared", "done"}
  BY <1>0 DEF Send, Faithful, Idle
<1>4. \A u \in Turns : u # t => ~Active(u)
  BY ActorIsAlone DEF Whole, Worker
<1>5. c = page \/ page = NoTurn
  OBVIOUS
<1>6. turn[t].sends \in Seq(Turns)
  BY <1>0, Fields
<1> HIDE DEF c
<1>7. ToSet(content'[c]) = ToSet(content[c]) \cup ToSet(turn[t].sends)
  BY <1>0, <1>2, <1>6, ToSetConcat
<1>8. \A d \in Turns : ToSet(content[d]) \subseteq ToSet(content'[d])
  BY <1>2, <1>7
<1>9. ReadyFor(t)' /\ Told(t)'
  BY <1>1, <1>3 DEF ReadyFor, Told
<1>10. OnCourse(t)'
  <2>1. SUFFICES ASSUME turn[t].at = "running" PROVE OnCourse(t)'
    BY <1>1 DEF OnCourse
  <2>2. /\ Known(t)' = Known(t) /\ turn'[t].path = turn[t].path /\ turn'[t].sends = turn[t].sends
    BY <1>0, <1>1, <1>3, BirthKept DEF Prompt, Sending
  <2>3. /\ hint # "clear" /\ turn[t].path \in {NoTurn, page}
        /\ ToSet(Known(t)) \subseteq ToSet(turn[t].sends) \cup There(turn[t].path)
    BY <1>3, <2>1 DEF Whole, Covered, OnCourse
  <2>4. There(turn[t].path) \subseteq ToSet(content[c])
    BY <1>2, <1>5, <2>3 DEF There
  <2>5. Context(t)' = content'[page']
    BY <1>1, <1>2, <2>2 DEF Context
  <2>6. ToSet(Known(t)) \subseteq ToSet(content'[c])
    BY <1>7, <2>3, <2>4
  <2>7. turn'[t].worker = "sent"
    BY <1>1, <2>1 DEF Then
  <2>8. turn'[t].path \in {NoTurn, page'}
    BY <1>2, <1>5, <2>2, <2>3
  <2>9. QED
    BY <1>2, <2>2, <2>3, <2>5, <2>6, <2>7, <2>8 DEF OnCourse
<1>11. QED
  BY <1>0, <1>1, <1>2, <1>3, <1>4, <1>8, <1>9, <1>10, WholeKept

(* Steps that leave the turns, the page and what was typed as they were. *)
LEMMA WholeStill ==
  ASSUME Whole, Faithful', UNCHANGED <<turn, hint, page, content>>,
         \A u \in Turns : memory'[u] \in {memory[u], <<>>},
         bindings' \subseteq bindings, ToSet(lineages') \subseteq ToSet(lineages)
  PROVE  Whole'
<1>0. Faithful
  BY DEF Whole
<1>1. Alone'
  BY DEF Whole, Alone, Active
<1>2. \A u \in Turns : Known(u)' = Known(u) /\ Context(u)' = Context(u)
  BY DEF Known, Context
<1>3. \A c : There(c)' = There(c)
  BY DEF There
<1>4. ASSUME NEW u \in Turns PROVE ReadyFor(u)' /\ OnCourse(u)' /\ Told(u)'
  <2>1. ReadyFor(u) /\ OnCourse(u) /\ Told(u)
    BY DEF Whole, Covered
  <2>2. OnCourse(u)' /\ Told(u)'
    BY <1>2, <1>3, <2>1 DEF OnCourse, Told
  <2>3. ASSUME turn[u].at = "prepared", ~StateLost(u)'
        PROVE  ~StateLost(u) /\ BrowserMessages(u)' = BrowserMessages(u)
    <3>1. CASE turn[u].messages = <<>>
      <4>1. turn[u].parent \in Turns
        BY <1>0, <2>3, <3>1 DEF Faithful, Sound, Stored, Fit
      <4>2. memory'[turn[u].parent] # <<>>
        BY <2>3, <3>1 DEF StateLost
      <4>3. memory'[turn[u].parent] = memory[turn[u].parent]
        BY <4>1, <4>2
      <4>4. StateMessages(u)' = StateMessages(u)
        BY <4>3 DEF StateMessages
      <4>5. QED
        BY <4>2, <4>3, <4>4 DEF BrowserMessages, StateLost
    <3>2. CASE turn[u].messages # <<>>
      BY <3>2 DEF StateLost, BrowserMessages, StateMessages
    <3>3. QED
      BY <3>1, <3>2
  <2>4. ReadyFor(u)'
    BY <1>2, <1>3, <2>1, <2>3 DEF ReadyFor
  <2>5. QED
    BY <2>2, <2>4
<1>5. ASSUME NEW u \in bindings' \cup ToSet(lineages') PROVE Honest(u)'
  <2>1. u \in bindings \cup ToSet(lineages) /\ u \in Turns
    BY <1>0, WholeTypes
  <2>2. QED
    BY <1>2, <1>3, <2>1 DEF Honest, Whole, Covered
<1>6. QED
  BY <1>1, <1>4, <1>5 DEF Whole, Covered

LEMMA WholeForget ==
  ASSUME Whole, NEW t \in Turns, Forget(t)
  PROVE  Whole'
<1>1. Sound /\ Faithful'
  BY FaithfulForget DEF Whole, Faithful
<1>2. QED
  BY <1>1, ForgetFacts, WholeStill

LEMMA WholeRestart ==
  ASSUME Whole, Restart
  PROVE  Whole'
<1>0. Faithful /\ Faithful' /\ TypeInv /\ turn \in [Turns -> TurnRecord]
  BY FaithfulRestart, WholeTypes DEF Whole
<1>1. \A u \in Turns :
        /\ turn'[u].worker = "none"
        /\ turn'[u].at = IF turn[u].at \in {"called", "prepared", "running", "leaving"} THEN "ended" ELSE turn[u].at
        /\ Birth(u)' = Birth(u) /\ Prompt(u)' = Prompt(u) /\ Sending(u)' = Sending(u) /\ Outcome(u)' = Outcome(u)
  BY <1>0, RestartEffect
<1>2. \A u \in Turns : ~Active(u)'
  BY <1>1 DEF Active
<1>3. ASSUME NEW u \in Turns PROVE ReadyFor(u)' /\ OnCourse(u)' /\ Told(u)'
  <2>1. turn'[u].at \notin {"prepared", "running"} /\ (turn'[u].at = "done" => turn[u].at = "done")
    BY <1>1
  <2>2. ReadyFor(u)' /\ OnCourse(u)'
    BY <2>1 DEF ReadyFor, OnCourse
  <2>3. Context(u)' = Context(u)
    BY <1>1 DEF Context, Sending, Outcome
  <2>4. Known(u)' = Known(u)
    <3>1. turn[u].how = "id" => turn[u].parent \in Turns
      BY <1>0 DEF Faithful, Sound, Stored, Fit
    <3>2. \A v \in Turns : turn'[v].messages = turn[v].messages
      BY <1>1 DEF Prompt
    <3>3. turn'[u].how = turn[u].how /\ turn'[u].parent = turn[u].parent /\ turn'[u].history = turn[u].history
      BY <1>1 DEF Birth
    <3>4. QED
      BY <3>1, <3>2, <3>3 DEF Known
  <2>5. Told(u)'
    BY <2>1, <2>3, <2>4 DEF Told, Whole, Covered
  <2>6. QED
    BY <2>2, <2>5
<1>4. bindings' \cup ToSet(lineages') = {}
  <2>1. bindings' = {} /\ lineages' = <<>>
    BY DEF Restart
  <2>2. ToSet(<<>>) = {}
    BY DEF ToSet
  <2>3. QED
    BY <2>1, <2>2
<1>5. QED
  BY <1>0, <1>2, <1>3, <1>4 DEF Whole, Alone, Covered

LEMMA WholeInit == Init => Whole
<1> SUFFICES ASSUME Init PROVE Whole
  OBVIOUS
<1>1. \A u \in Turns : turn[u].at = "unborn" /\ turn[u].worker = "none"
  BY DEF Init, Unborn
<1>2. bindings \cup ToSet(lineages) = {}
  BY DEF Init, ToSet
<1>3. QED
  BY <1>1, <1>2, FaithfulInit DEF Whole, Alone, Active, Covered, ReadyFor, OnCourse, Told

LEMMA WholeNext ==
  ASSUME OneAtATime, Whole, [Next]_vars
  PROVE  Whole'
<1>0. Faithful'
  BY FaithfulNext DEF Whole
<1>1. ASSUME NEW t \in Turns, Handler(t) PROVE Whole'
  BY <1>1, WholeCall, WholeReadies, WholeStart, WholeComplete, WholeQuits
     DEF Handler, Prepare, Readies, Quits, Leaves
<1>2. ASSUME NEW t \in Turns, Worker(t) PROVE Whole'
  BY <1>2, WholeDrives, WholeSend DEF Worker, Drives
<1>3. ASSUME NEW t \in Turns, Forget(t) PROVE Whole'
  BY <1>3, WholeForget
<1>4. CASE ShowPath
  BY <1>0, <1>4, WholeStill DEF ShowPath, affinity
<1>5. CASE Restart
  BY <1>5, WholeRestart
<1>6. CASE UNCHANGED vars
  BY <1>0, <1>6, WholeStill DEF vars, affinity
<1>7. QED
  BY <1>1, <1>2, <1>3, <1>4, <1>5, <1>6 DEF Next

(* What is known of a turn not continued from a truncated snapshot is its transcript. *)
LEMMA KnownIsHistory ==
  ASSUME Faithful, NEW t \in Turns, turn[t].at # "unborn", ~FromTruncated(t)
  PROVE  Known(t) = turn[t].history
<1>1. CASE turn[t].how = "id"
  <2>1. turn[t].parent \in Turns /\ NoTurn \notin Turns
    BY <1>1, WholeTypes DEF Faithful, Sound, Stored, Fit
  <2>2. turn[t].history = Append(turn[turn[t].parent].history, t)
    BY <2>1 DEF Faithful, Lineal, Before
  <2>3. QED
    BY <1>1, <2>2 DEF FromTruncated, Known
<1>2. CASE turn[t].how # "id"
  BY <1>2 DEF Known
<1>3. QED
  BY <1>1, <1>2

LEMMA WholeIsTold == Whole => NothingMissing /\ BindingHonest
<1> SUFFICES ASSUME Whole PROVE NothingMissing /\ BindingHonest
  OBVIOUS
<1>0. Faithful
  BY DEF Whole
<1>1. ASSUME NEW t \in Turns, Sent(t), ~FromTruncated(t)
      PROVE  ToSet(turn[t].history) \subseteq ToSet(Context(t))
  <2>1. turn[t].at # "unborn" /\ ToSet(Known(t)) \subseteq ToSet(Context(t))
    BY <1>1 DEF Sent, Whole, Covered, OnCourse, Told
  <2>2. QED
    BY <1>0, <1>1, <2>1, KnownIsHistory
<1>2. ASSUME NEW t \in bindings \cup ToSet(lineages), ~FromTruncated(t)
      PROVE  ToSet(turn[t].history) \subseteq ToSet(content[turn[t].bound])
  <2>1. t \in Turns /\ turn[t].at = "done" /\ turn[t].bound \in Turns /\ Honest(t) /\ NoTurn \notin Turns
    BY <1>0, BoundFacts, WholeTypes DEF Whole, Covered
  <2>2. Known(t) = turn[t].history
    BY <1>0, <1>2, <2>1, KnownIsHistory
  <2>3. QED
    BY <2>1, <2>2 DEF Honest, There
<1>3. QED
  BY <1>1, <1>2 DEF NothingMissing, BindingHonest

(* For any number of turns, restarts and expiries, with lost answers, late  *)
(* names, flapping pages and snapshots that are not on disk, as long as     *)
(* turns run one at a time: no exchange of the client's transcript is       *)
(* missing from what ChatGPT reads.                                         *)
THEOREM NothingIsMissing == ASSUME OneAtATime PROVE Spec => []NothingMissing
<1>1. Whole /\ [Next]_vars => Whole'
  BY WholeNext
<1>2. QED
  BY <1>1, WholeInit, WholeIsTold, PTL DEF Spec

(* Under the same assumption, so that the page a binding is read from is    *)
(* the one the turn left: through forks, deltas typed into conversations    *)
(* that went on, lineages, degraded turns, late names and the fallback to   *)
(* the reused path, a response, and its transcript, stay bound to a         *)
(* conversation that holds every exchange they consist of.                  *)
THEOREM BindingsAreHonest == ASSUME OneAtATime PROVE Spec => []BindingHonest
<1>1. Whole /\ [Next]_vars => Whole'
  BY WholeNext
<1>2. QED
  BY <1>1, WholeInit, WholeIsTold, PTL DEF Spec

-----------------------------------------------------------------------------
(* Prefixes. *)

(* Prefixes, element by element. *)
LEMMA PrefixByIndex ==
  ASSUME NEW S, NEW s \in Seq(S), NEW w \in Seq(S)
  PROVE  IsPrefix(s, w) <=> Len(s) <= Len(w) /\ \A i \in 1..Len(s) : s[i] = w[i]
<1>0. Len(s) \in Nat /\ Len(w) \in Nat
  OBVIOUS
<1>1. CASE Len(s) <= Len(w)
  <2> DEFINE a == SubSeq(s, 1, Len(s))
  <2> DEFINE b == SubSeq(w, 1, Len(s))
  <2>1. a \in Seq(S) /\ Len(a) = Len(s) /\ \A i \in 1..Len(s) : a[i] = s[i]
    BY <1>0, SubSeqProperties
  <2>2. b \in Seq(S) /\ Len(b) = Len(s) /\ \A i \in 1..Len(s) : b[i] = w[i]
    <3>1. \A i \in 1..Len(s) : w[i] \in S
      BY <1>0, <1>1
    <3>2. QED
      BY <1>0, <3>1, SubSeqProperties
  <2>3. IsPrefix(s, w) <=> a = b
    BY <1>1 DEF IsPrefix
  <2> HIDE DEF a, b
  <2>4. (\A i \in 1..Len(s) : s[i] = w[i]) => a = b
    BY <2>1, <2>2, SeqEqual
  <2>5. QED
    BY <1>1, <2>1, <2>2, <2>3, <2>4
<1>2. CASE ~(Len(s) <= Len(w))
  BY <1>2 DEF IsPrefix
<1>3. QED
  BY <1>1, <1>2

(* What a prefix is a prefix of, and when it is the whole. *)
LEMMA PrefixFacts ==
  ASSUME NEW S, NEW s \in Seq(S), NEW w \in Seq(S), IsPrefix(s, w)
  PROVE  /\ \A x \in Seq(S) : IsPrefix(w, x) => IsPrefix(s, x)
         /\ \A x \in Seq(S) : IsPrefix(s, w \o x)
         /\ \A e \in S : IsPrefix(s, Append(w, e))
         /\ Len(s) = Len(w) => s = w
         /\ ToSet(s) \subseteq ToSet(w)
<1>0. Len(s) \in Nat /\ Len(w) \in Nat /\ Len(s) <= Len(w) /\ \A i \in 1..Len(s) : s[i] = w[i]
  BY PrefixByIndex
<1>1. ASSUME NEW x \in Seq(S), IsPrefix(w, x) PROVE IsPrefix(s, x)
  <2>1. Len(x) \in Nat /\ Len(w) <= Len(x) /\ \A i \in 1..Len(w) : w[i] = x[i]
    BY <1>1, PrefixByIndex
  <2>2. Len(s) <= Len(x) /\ \A i \in 1..Len(s) : s[i] = x[i]
    BY <1>0, <2>1
  <2>3. QED
    BY <2>2, PrefixByIndex
<1>2. ASSUME NEW x \in Seq(S) PROVE IsPrefix(s, w \o x)
  <2>1. w \o x \in Seq(S) /\ Len(w \o x) = Len(w) + Len(x) /\ Len(x) \in Nat
    BY ConcatProperties
  <2>2. \A i \in 1..Len(w) : (w \o x)[i] = w[i]
    BY <1>0, <2>1, ConcatProperties
  <2>3. Len(s) <= Len(w \o x) /\ \A i \in 1..Len(s) : s[i] = (w \o x)[i]
    BY <1>0, <2>1, <2>2
  <2>4. QED
    BY <2>1, <2>3, PrefixByIndex
<1>3. ASSUME NEW e \in S PROVE IsPrefix(s, Append(w, e))
  <2>1. Append(w, e) \in Seq(S) /\ Len(Append(w, e)) = Len(w) + 1 /\ \A i \in 1..Len(w) : Append(w, e)[i] = w[i]
    BY AppendProperties
  <2>2. Len(s) <= Len(Append(w, e)) /\ \A i \in 1..Len(s) : s[i] = Append(w, e)[i]
    BY <1>0, <2>1
  <2>3. QED
    BY <2>1, <2>2, PrefixByIndex
<1>4. Len(s) = Len(w) => s = w
  BY <1>0, SeqEqual
<1>5. ToSet(s) \subseteq ToSet(w)
  <2>1. DOMAIN s = 1..Len(s) /\ DOMAIN w = 1..Len(w)
    OBVIOUS
  <2>2. ASSUME NEW i \in 1..Len(s) PROVE s[i] \in ToSet(w)
    <3>1. i \in DOMAIN w /\ s[i] = w[i]
      BY <1>0, <2>1
    <3>2. QED
      BY <3>1 DEF ToSet
  <2>3. QED
    BY <2>1, <2>2 DEF ToSet
<1>6. QED
  BY <1>1, <1>2, <1>3, <1>4, <1>5

(* Both ways a prefix: the same. *)
LEMMA PrefixBothWays ==
  ASSUME NEW S, NEW s \in Seq(S), NEW w \in Seq(S), IsPrefix(s, w), IsPrefix(w, s)
  PROVE  s = w
<1>1. Len(s) \in Nat /\ Len(w) \in Nat /\ Len(s) <= Len(w) /\ Len(w) <= Len(s)
  BY DEF IsPrefix
<1>2. QED
  BY <1>1, PrefixFacts

(* Nothing lies between a sequence and its extension by one. *)
LEMMA PrefixOfAppend ==
  ASSUME NEW S, NEW s \in Seq(S), NEW e \in S, NEW w \in Seq(S),
         IsPrefix(s, w), IsPrefix(w, Append(s, e))
  PROVE  w = s \/ w = Append(s, e)
<1>1. Append(s, e) \in Seq(S) /\ Len(Append(s, e)) = Len(s) + 1 /\ Len(s) \in Nat /\ Len(w) \in Nat
  BY AppendProperties
<1>2. Len(s) <= Len(w) /\ Len(w) <= Len(s) + 1
  BY <1>1 DEF IsPrefix
<1>3. CASE Len(w) = Len(s)
  BY <1>3, PrefixFacts
<1>4. CASE Len(w) = Len(s) + 1
  BY <1>1, <1>4, PrefixFacts
<1>5. QED
  BY <1>1, <1>2, <1>3, <1>4

-----------------------------------------------------------------------------
(* Ancestry. *)

(* One turn at a time, and nothing but restarts and expiry goes wrong. *)
Undisturbed == MaxActive <= 1 /\ Disturbances = {}

(* The transcript of the client that calls. *)
History(t) == turn[t].history
(* A turn that is still to be answered, or was. *)
Alive(t)   == turn[t].at \in {"called", "prepared", "running", "done"}

(* The transcript of a turn is made of completed turns, each of which has   *)
(* the beginning of it that ends with it.                                   *)
ChainOf(t) ==
  turn[t].at # "unborn" =>
    \A i \in 1..Len(History(t)) :
      /\ History(History(t)[i]) = SubSeq(History(t), 1, i)
      /\ History(t)[i] # t => turn[History(t)[i]].at = "done"

(* Of two transcripts with an exchange in common one continues the other. *)
Related(t, v) ==
  (\E a \in Turns : a \in ToSet(History(t)) /\ a \in ToSet(History(v)))
    => IsPrefix(History(t), History(v)) \/ IsPrefix(History(v), History(t))

(* Without forks, transcripts are made of turns in one order, whichever     *)
(* turns are looked at.                                                     *)
Ancestry ==
  /\ \A t \in Turns : ChainOf(t)
  /\ \A t, v \in Turns : Alive(t) /\ Alive(v) => Related(t, v)

(* A transcript ends with the exchange of its turn. *)
LEMMA HistoryFacts ==
  ASSUME Faithful, NEW t \in Turns, turn[t].at # "unborn"
  PROVE  /\ History(t) \in Seq(Turns) /\ Len(History(t)) \in Nat /\ Len(History(t)) >= 1
         /\ History(t)[Len(History(t))] = t
         /\ t \in ToSet(History(t))
         /\ Before(turn[t].parent) \in Seq(Turns)
         /\ History(t) = Append(Before(turn[t].parent), t)
<1>0. History(t) = Append(Before(turn[t].parent), t)
  BY DEF Faithful, Lineal, History
<1>1. Before(turn[t].parent) \in Seq(Turns)
  <2>1. turn[t].parent \in Here
    BY WholeTypes, Fields
  <2>2. turn[t].parent # NoTurn => turn[turn[t].parent].history \in Seq(Turns)
    BY <2>1, WholeTypes, Fields DEF Here
  <2>3. QED
    BY <2>2 DEF Before
<1> DEFINE b == Before(turn[t].parent)
<1> HIDE DEF b
<1>2. b \in Seq(Turns) /\ History(t) = Append(b, t)
  BY <1>0, <1>1 DEF b
<1>3. /\ History(t) \in Seq(Turns) /\ Len(History(t)) = Len(b) + 1 /\ Len(b) \in Nat
      /\ History(t)[Len(b) + 1] = t
  BY <1>2, AppendProperties
<1>4. ToSet(History(t)) = ToSet(b) \cup {t}
  BY <1>2, ToSetAppend
<1>5. QED
  BY <1>0, <1>1, <1>3, <1>4

(* The transcripts of two turns are the same only if the turns are. *)
LEMMA HistoryNames ==
  ASSUME Faithful, NEW t \in Turns, NEW v \in Turns, turn[t].at # "unborn", turn[v].at # "unborn",
         History(t) = History(v)
  PROVE  t = v
  BY HistoryFacts

(* A turn whose transcript begins with that of another: the other is its ancestor. *)
LEMMA Ancestor ==
  ASSUME Faithful, Ancestry, NEW t \in Turns, NEW v \in Turns, turn[t].at # "unborn", turn[v].at # "unborn",
         IsPrefix(History(t), History(v))
  PROVE  /\ t \in ToSet(History(v))
         /\ t = v \/ turn[t].at = "done"
<1>1. /\ History(t) \in Seq(Turns) /\ History(v) \in Seq(Turns)
      /\ Len(History(t)) \in 1..Len(History(v)) /\ History(v)[Len(History(t))] = t
      /\ t \in ToSet(History(t))
  <2>1. History(t) \in Seq(Turns) /\ Len(History(t)) \in Nat /\ Len(History(t)) >= 1
        /\ History(t)[Len(History(t))] = t /\ t \in ToSet(History(t))
        /\ History(v) \in Seq(Turns)
    BY HistoryFacts
  <2>2. Len(History(t)) <= Len(History(v)) /\ \A i \in 1..Len(History(t)) : History(t)[i] = History(v)[i]
    BY <2>1, PrefixByIndex
  <2>3. QED
    BY <2>1, <2>2
<1>2. t # v => turn[t].at = "done"
  BY <1>1 DEF Ancestry, ChainOf
<1>3. QED
  BY <1>1, <1>2, PrefixFacts

(* The ancestors of a turn have the beginnings of its transcript. *)
LEMMA AncestorPrefix ==
  ASSUME Faithful, Ancestry, NEW v \in Turns, turn[v].at # "unborn", NEW a \in ToSet(History(v))
  PROVE  /\ a \in Turns
         /\ a = v \/ turn[a].at = "done"
         /\ IsPrefix(History(a), History(v))
<1>0. History(v) \in Seq(Turns) /\ Len(History(v)) \in Nat
  BY HistoryFacts
<1>1. PICK i \in 1..Len(History(v)) : a = History(v)[i]
  BY <1>0 DEF ToSet
<1>2. a \in Turns /\ (a = v \/ turn[a].at = "done") /\ History(a) = SubSeq(History(v), 1, i)
  BY <1>0, <1>1 DEF Ancestry, ChainOf
<1>3. Len(History(a)) = i /\ History(a) \in Seq(Turns) /\ \A j \in 1..i : History(a)[j] = History(v)[j]
  BY <1>0, <1>1, <1>2, SubSeqProperties
<1>4. IsPrefix(History(a), History(v))
  BY <1>0, <1>1, <1>3, PrefixByIndex
<1>5. QED
  BY <1>2, <1>4

(* A step that adds nobody to the living keeps the ancestry. *)
LEMMA AncestryKept ==
  ASSUME Ancestry,
         \A u \in Turns : /\ History(u)' = History(u)
                          /\ turn[u].at = "done" => turn'[u].at = "done"
                          /\ turn'[u].at # "unborn" => turn[u].at # "unborn"
                          /\ Alive(u)' => Alive(u),
         \A u \in Turns : turn[u].at # "unborn" => History(u) \in Seq(Turns)
  PROVE  Ancestry'
<1>1. ASSUME NEW t \in Turns PROVE ChainOf(t)'
  <2>1. ChainOf(t)
    BY DEF Ancestry
  <2>2. SUFFICES ASSUME turn[t].at # "unborn", NEW i \in 1..Len(History(t))
                 PROVE  /\ History(History(t)[i])' = SubSeq(History(t), 1, i)
                        /\ History(t)[i] # t => turn'[History(t)[i]].at = "done"
    BY DEF ChainOf
  <2>3. History(t)[i] \in Turns
    BY <2>2
  <2>4. QED
    BY <2>1, <2>2, <2>3 DEF ChainOf
<1>2. ASSUME NEW t \in Turns, NEW v \in Turns, Alive(t)', Alive(v)' PROVE Related(t, v)'
  BY <1>2 DEF Ancestry, Related
<1>3. QED
  BY <1>1, <1>2 DEF Ancestry

(* Without forks, a completed turn that is continued has no other living continuation. *)
LEMMA OnlyContinuation ==
  ASSUME Faithful, Ancestry, NEW p \in Turns, turn[p].at = "done", NEW v \in Turns, Alive(v),
         IsPrefix(History(p), History(v)), p # v
  PROVE  \E q \in Turns : turn[q].parent = p /\ Alive(q)
<1>0. turn[v].at # "unborn"
  BY DEF Alive
<1>1. /\ History(p) \in Seq(Turns) /\ History(v) \in Seq(Turns)
      /\ Len(History(p)) \in Nat /\ Len(History(v)) \in Nat /\ Len(History(p)) >= 1
      /\ History(p)[Len(History(p))] = p
  BY <1>0, HistoryFacts
<1> DEFINE n == Len(History(p))
<1>2. n <= Len(History(v)) /\ \A i \in 1..n : History(p)[i] = History(v)[i]
  BY <1>1, PrefixByIndex
<1>3. n # Len(History(v))
  BY <1>0, <1>1, HistoryNames, PrefixFacts
<1>4. n + 1 \in 1..Len(History(v)) /\ n \in Nat
  BY <1>1, <1>2, <1>3
<1> DEFINE q == History(v)[n + 1]
<1>5. q \in Turns
  BY <1>1, <1>4
<1>6. History(q) = SubSeq(History(v), 1, n + 1) /\ (q # v => turn[q].at = "done")
  BY <1>0, <1>4 DEF Ancestry, ChainOf
<1>7. Alive(q) /\ turn[q].at # "unborn"
  BY <1>0, <1>6 DEF Alive
<1> DEFINE r == turn[q].parent
<1> DEFINE b == Before(r)
<1>8. b \in Seq(Turns) /\ History(q) = Append(b, q)
  BY <1>5, <1>7, HistoryFacts
<1> HIDE DEF b, n
<1>9. Len(b) = n /\ \A i \in 1..n : b[i] = History(p)[i]
  <2>1. Len(History(q)) = n + 1 /\ \A i \in 1..(n + 1) : History(q)[i] = History(v)[i]
    BY <1>1, <1>4, <1>6, SubSeqProperties
  <2>2. Len(Append(b, q)) = Len(b) + 1 /\ Len(b) \in Nat /\ \A i \in 1..Len(b) : Append(b, q)[i] = b[i]
    BY <1>5, <1>8, AppendProperties
  <2>3. Len(b) = n
    BY <1>4, <1>8, <2>1, <2>2
  <2>4. QED
    BY <1>2, <1>4, <1>8, <2>1, <2>2, <2>3
<1>10. b = History(p)
  BY <1>1, <1>8, <1>9, SeqEqual DEF n
<1>11. r # NoTurn /\ b = History(r)
  BY <1>1, <1>10 DEF b, Before, History
<1>12. r \in Turns /\ turn[r].at # "unborn"
  <2>1. r \in Here
    BY <1>5, WholeTypes, Fields
  <2>2. turn[r].at = "done"
    BY <1>5, <1>7, <1>11 DEF Faithful, Lineal
  <2>3. QED
    BY <1>11, <2>1, <2>2 DEF Here
<1>13. r = p
  BY <1>10, <1>11, <1>12, HistoryNames
<1>14. QED
  BY <1>5, <1>7, <1>13

(* What comes later does not change a beginning. *)
LEMMA SubSeqOfAppend ==
  ASSUME NEW S, NEW s \in Seq(S), NEW e \in S, NEW i \in 1..Len(s)
  PROVE  SubSeq(s, 1, i) = SubSeq(Append(s, e), 1, i)
<1>1. Append(s, e) \in Seq(S) /\ Len(Append(s, e)) = Len(s) + 1 /\ Len(s) \in Nat
      /\ \A j \in 1..Len(s) : Append(s, e)[j] = s[j]
  BY AppendProperties
<1> DEFINE w == Append(s, e)
<1> HIDE DEF w
<1>2. w \in Seq(S) /\ \A j \in 1..i : w[j] = s[j] /\ w[j] \in S /\ s[j] \in S
  BY <1>1 DEF w
<1>3. /\ SubSeq(s, 1, i) \in Seq(S) /\ Len(SubSeq(s, 1, i)) = i
      /\ \A j \in 1..i : SubSeq(s, 1, i)[j] = s[j]
  BY <1>1, <1>2, SubSeqProperties
<1>4. /\ SubSeq(w, 1, i) \in Seq(S) /\ Len(SubSeq(w, 1, i)) = i
      /\ \A j \in 1..i : SubSeq(w, 1, i)[j] = w[j]
  BY <1>1, <1>2, SubSeqProperties DEF w
<1>5. SubSeq(s, 1, i) = SubSeq(w, 1, i)
  BY <1>2, <1>3, <1>4, SeqEqual
<1>6. QED
  BY <1>5 DEF w

(* A client that calls continues a turn nobody else continues. *)
LEMMA AncestryCall ==
  ASSUME Undisturbed, Faithful, Faithful', Ancestry, NEW t \in Turns, Call(t)
  PROVE  Ancestry'
<1>0. turn \in [Turns -> TurnRecord] /\ turn[t].at = "unborn" /\ NoTurn \notin Turns
  BY WholeTypes DEF Call
<1>1. PICK p \in Here, how \in {"id", "history"} : Begins(t, p, how) /\ (p # NoTurn => MayContinue(p))
  BY DEF Call, Here
<1>2. /\ Others(t) /\ turn'[t].at = "called"
      /\ History(t)' = Append(IF p = NoTurn THEN <<>> ELSE History(p), t)
  BY <1>0, <1>1, BeginsEffect DEF History
<1>3. \A u \in Turns : u # t => History(u)' = History(u) /\ turn'[u] = turn[u] /\ Alive(u)' = Alive(u)
  BY <1>2 DEF Others, History, Alive
<1>4. p # NoTurn => /\ p \in Turns /\ p # t /\ turn[p].at = "done" /\ Alive(p)
                    /\ \A u \in Turns : turn[u].parent = p => ~Alive(u)
  BY <1>0, <1>1 DEF MayContinue, Undisturbed, Alive, Here
<1>5. \A u \in Turns : turn[u].at # "unborn" => t \notin ToSet(History(u))
  <2>1. ASSUME NEW u \in Turns, turn[u].at # "unborn", t \in ToSet(History(u)) PROVE FALSE
    <3>1. t = u \/ turn[t].at = "done"
      BY <2>1, AncestorPrefix
    <3>2. QED
      BY <1>0, <2>1, <3>1
  <2>2. QED
    BY <2>1
<1> DEFINE b == IF p = NoTurn THEN <<>> ELSE History(p)
<1>6. b \in Seq(Turns)
  BY <1>4, HistoryFacts
<1>7. \A e \in Turns : e \in ToSet(b) => p # NoTurn /\ e \in ToSet(History(p)) /\ e # t
  <2>1. ToSet(<<>>) = {}
    BY DEF ToSet
  <2>2. QED
    BY <1>4, <1>5, <2>1
<1>8. p # NoTurn => b = History(p)
  OBVIOUS
<1> DEFINE h == Append(b, t)
<1>9. turn'[t].history = h
  BY <1>2 DEF History
<1>10. /\ Len(h) = Len(b) + 1 /\ Len(b) \in Nat /\ h \in Seq(Turns)
       /\ \A i \in 1..Len(b) : h[i] = b[i]
       /\ h[Len(b) + 1] = t
       /\ ToSet(h) = ToSet(b) \cup {t}
  <2> HIDE DEF b
  <2>1. QED
    BY <1>6, AppendProperties, ToSetAppend
<1> HIDE DEF b, h
<1>11. ChainOf(t)'
  <2>1. ASSUME NEW i \in 1..Len(h)
        PROVE  turn'[h[i]].history = SubSeq(h, 1, i) /\ (h[i] # t => turn'[h[i]].at = "done")
    <3>1. CASE i = Len(b) + 1
      <4>1. h[i] = t
        BY <1>10, <3>1
      <4>2. SubSeq(h, 1, Len(h)) = h
        BY <1>10, SubSeqFull
      <4>3. QED
        BY <1>9, <1>10, <3>1, <4>1, <4>2
    <3>2. CASE i # Len(b) + 1
      <4>1. i \in 1..Len(b)
        BY <1>10, <3>2
      <4>2. b[i] \in ToSet(b) /\ b[i] \in Turns
        BY <1>6, <4>1 DEF ToSet
      <4>3. p # NoTurn /\ b = History(p) /\ b[i] # t
        BY <1>7, <1>8, <4>2
      <4>4. /\ History(b[i]) = SubSeq(b, 1, i)
            /\ b[i] # p => turn[b[i]].at = "done"
        BY <1>4, <4>1, <4>3 DEF Ancestry, ChainOf
      <4>5. turn[b[i]].at = "done"
        BY <1>4, <4>3, <4>4
      <4>6. h[i] = b[i]
        BY <1>10, <4>1
      <4>7. turn'[b[i]].history = SubSeq(b, 1, i) /\ turn'[b[i]].at = "done"
        BY <1>3, <4>2, <4>3, <4>4, <4>5 DEF History
      <4>8. SubSeq(b, 1, i) = SubSeq(h, 1, i)
        BY <1>6, <1>10, <4>1, SubSeqOfAppend DEF h
      <4>9. QED
        BY <4>6, <4>7, <4>8
    <3>3. QED
      BY <3>1, <3>2
  <2>2. QED
    BY <1>9, <2>1 DEF ChainOf, History
<1>12. ASSUME NEW u \in Turns, u # t PROVE ChainOf(u)'
  <2>0. turn'[u] = turn[u]
    BY <1>3, <1>12
  <2>1. ASSUME turn[u].at # "unborn", NEW i \in 1..Len(History(u)), NEW e \in Turns, e = History(u)[i]
        PROVE  turn'[e].history = SubSeq(History(u), 1, i) /\ (e # u => turn'[e].at = "done")
    <3>1. History(u) \in Seq(Turns)
      BY <2>1, HistoryFacts
    <3>2. e \in ToSet(History(u))
      BY <2>1, <3>1 DEF ToSet
    <3>3. e # t
      BY <1>5, <2>1, <3>2
    <3>4. History(e) = SubSeq(History(u), 1, i) /\ (e # u => turn[e].at = "done")
      BY <2>1 DEF Ancestry, ChainOf
    <3>5. turn'[e] = turn[e]
      BY <1>3, <3>3
    <3>6. QED
      BY <3>4, <3>5 DEF History
  <2>2. ASSUME turn[u].at # "unborn", NEW i \in 1..Len(History(u))
        PROVE  History(u)[i] \in Turns
    <3>1. History(u) \in Seq(Turns)
      BY <2>2, HistoryFacts
    <3>2. QED
      BY <2>2, <3>1
  <2>3. QED
    BY <2>0, <2>1, <2>2 DEF ChainOf, History
<1>13. ASSUME NEW v \in Turns, v # t, Alive(v), NEW a \in Turns, a \in ToSet(h), a \in ToSet(History(v))
       PROVE  IsPrefix(History(v), h)
  <2>0. turn[v].at # "unborn" /\ History(v) \in Seq(Turns)
    BY <1>13, HistoryFacts DEF Alive
  <2>1. a # t
    BY <1>5, <1>13, <2>0
  <2>2. p # NoTurn /\ a \in ToSet(History(p)) /\ b = History(p)
    BY <1>7, <1>8, <1>10, <1>13, <2>1
  <2>3. IsPrefix(History(p), History(v)) \/ IsPrefix(History(v), History(p))
    BY <1>4, <1>13, <2>2 DEF Ancestry, Related
  <2>4. IsPrefix(History(v), History(p))
    <3>1. CASE IsPrefix(History(p), History(v)) /\ p # v
      BY <1>4, <1>13, <2>2, <3>1, OnlyContinuation
    <3>2. CASE p = v
      BY <2>3, <3>2
    <3>3. QED
      BY <2>3, <3>1, <3>2
  <2>5. QED
    BY <1>6, <2>0, <2>2, <2>4, PrefixFacts DEF h
<1>14. ASSUME NEW u \in Turns, NEW v \in Turns, Alive(u)', Alive(v)' PROVE Related(u, v)'
  <2>0. /\ \A w \in Turns : w # t => turn'[w].history = turn[w].history
        /\ turn'[t].history = h
    BY <1>3, <1>9 DEF History
  <2>1. CASE u # t /\ v # t
    <3>1. Alive(u) /\ Alive(v)
      BY <1>3, <1>14, <2>1
    <3>2. Related(u, v)
      BY <3>1 DEF Ancestry
    <3>3. QED
      BY <2>0, <2>1, <3>2 DEF Related, History
  <2>2. CASE u = t /\ v # t
    <3>1. Alive(v)
      BY <1>3, <1>14, <2>2
    <3>2. QED
      BY <1>13, <2>0, <2>2, <3>1 DEF Related, History
  <2>3. CASE u # t /\ v = t
    <3>1. Alive(u)
      BY <1>3, <1>14, <2>3
    <3>2. QED
      BY <1>13, <2>0, <2>3, <3>1 DEF Related, History
  <2>4. CASE u = t /\ v = t
    <3>1. IsPrefix(h, h)
      BY <1>10, PrefixByIndex
    <3>2. QED
      BY <2>0, <2>4, <3>1 DEF Related, History
  <2>5. QED
    BY <2>1, <2>2, <2>3, <2>4
<1>15. QED
  BY <1>11, <1>12, <1>14 DEF Ancestry

(* What ChatGPT would read of the page. *)
Text(c) == IF c = NoTurn THEN <<>> ELSE content[c]

(* The page of a prepared turn, with what will be typed, makes its          *)
(* transcript.                                                              *)
PureReady(t) ==
  turn[t].at = "prepared" =>
    /\ turn[t].path = page
    /\ turn[t].messages = History(t) \/ (turn[t].messages = <<>> /\ turn[t].how = "id")
    /\ ~StateLost(t) => Text(page) \o BrowserMessages(t) = History(t)

(* So it does while the worker is on its way, and the context once it was   *)
(* there.                                                                   *)
PureCourse(t) ==
  turn[t].at = "running" =>
    /\ turn[t].messages = History(t)
    /\ turn[t].worker \in {"queued", "driving", "composing"} => Text(page) \o turn[t].sends = History(t)
    /\ turn[t].worker \in {"sent", "answered"} => Context(t) = History(t)

(* A completed turn was answered from its transcript, which is what the     *)
(* snapshot on disk holds and how its conversation begins; its ancestors    *)
(* were bound before.                                                       *)
PureTold(t) ==
  turn[t].at = "done" =>
    /\ turn[t].messages = History(t) /\ disk[t] = History(t) /\ Context(t) = History(t)
    /\ turn[t].bound \in named /\ IsPrefix(History(t), content[turn[t].bound])
    /\ turn[t].boundAt <= Cardinality(At("done"))
    /\ \A a \in ToSet(History(t)) : a # t => turn[a].boundAt < turn[t].boundAt

(* A turn that was given up has no worker. *)
Quiet(t) == turn[t].at \in {"leaving", "ended"} => turn[t].worker = "none"

(* What is exact about a turn at every stage. *)
Pure(t) == PureReady(t) /\ PureCourse(t) /\ PureTold(t) /\ Quiet(t)

(* The page is empty or shows its path, and a conversation with a path is   *)
(* not empty.                                                               *)
PageNamed ==
  /\ page \in named \cup {NoTurn}
  /\ \A c \in named : content[c] # <<>>

(* A conversation holds the transcript of some turn that was sent, its tip. *)
Tips == \A c \in Turns : content[c] # <<>> => Sent(c) /\ \E p \in Turns : Sent(p) /\ content[c] = History(p)

(* A lineage is never older, in order of use, than one it continues. *)
LineOrder ==
  \A i, j \in 1..Len(lineages) : i < j => ~IsStrictPrefix(History(lineages[j]), History(lineages[i]))

(* While a lineage is known, so is the tip of its conversation. *)
TipListed ==
  \A u \in ToSet(lineages), p \in Turns :
    turn[p].at = "done" /\ content[turn[u].bound] = History(p) => p \in ToSet(lineages)

(* The inductive invariant behind ExactContext, with Whole. *)
Exactly ==
  /\ Ancestry
  /\ \A t \in Turns : Pure(t)
  /\ PageNamed /\ Tips /\ LineOrder /\ TipListed

(* A turn that was sent was called. *)
LEMMA SentFacts ==
  ASSUME NEW q \in Turns, Sent(q)
  PROVE  Alive(q) /\ turn[q].at # "unborn"
  BY DEF Sent, Alive

(* What a completed turn leaves behind. *)
LEMMA ToldFacts ==
  ASSUME Faithful, Exactly, NEW u \in Turns, turn[u].at = "done"
  PROVE  /\ History(u) \in Seq(Turns) /\ Len(History(u)) >= 1
         /\ turn[u].messages = History(u) /\ disk[u] = History(u)
         /\ turn[u].bound \in Turns /\ turn[u].bound \in named
         /\ Sent(u) /\ Alive(u)
         /\ \E q \in Turns : Sent(q) /\ content[turn[u].bound] = History(q) /\ IsPrefix(History(u), History(q))
<1>1. History(u) \in Seq(Turns) /\ Len(History(u)) >= 1
  BY HistoryFacts
<1>2. /\ turn[u].messages = History(u) /\ disk[u] = History(u)
      /\ turn[u].bound \in named /\ IsPrefix(History(u), content[turn[u].bound])
  BY DEF Exactly, Pure, PureTold
<1>3. turn[u].bound \in Turns
  BY <1>2 DEF Faithful, Sound, TypeInv
<1>4. content[turn[u].bound] # <<>>
  BY <1>2 DEF Exactly, PageNamed
<1>5. \E q \in Turns : Sent(q) /\ content[turn[u].bound] = History(q)
  BY <1>3, <1>4 DEF Exactly, Tips
<1>6. QED
  BY <1>1, <1>2, <1>3, <1>5 DEF Sent, Alive

(* Of whoever was sent beyond an ancestor of a turn that is still to be sent, *)
(* the turn is a descendant.                                                *)
LEMMA SentBefore ==
  ASSUME Faithful, Ancestry, NEW t \in Turns, Alive(t), ~Sent(t),
         NEW a \in Turns, a \in ToSet(History(t)), turn[a].at = "done",
         NEW q \in Turns, Sent(q), IsPrefix(History(a), History(q))
  PROVE  q # t /\ IsPrefix(History(q), History(t)) /\ IsStrictPrefix(History(q), History(t))
<1>1. turn[t].at \notin {"unborn", "done"} /\ q # t
  BY DEF Alive, Sent
<1>2. Alive(q) /\ turn[q].at # "unborn"
  BY SentFacts
<1>3. a \in ToSet(History(q))
  BY <1>2, Ancestor
<1>4. IsPrefix(History(t), History(q)) \/ IsPrefix(History(q), History(t))
  BY <1>2, <1>3 DEF Ancestry, Related
<1>5. ~IsPrefix(History(t), History(q))
  BY <1>1, <1>2, Ancestor
<1>6. History(q) # History(t)
  BY <1>1, <1>2, HistoryNames
<1>7. QED
  BY <1>1, <1>4, <1>5, <1>6 DEF IsStrictPrefix

(* The conversation a response is bound to ends with it while its           *)
(* continuation is on the way.                                              *)
LEMMA ParentTip ==
  ASSUME Faithful, Exactly, NEW t \in Turns, Alive(t), ~Sent(t), turn[t].parent # NoTurn
  PROVE  /\ turn[t].parent \in Turns /\ turn[turn[t].parent].at = "done"
         /\ History(t) = Append(History(turn[t].parent), t)
         /\ turn[turn[t].parent].bound \in Turns
         /\ content[turn[turn[t].parent].bound] = History(turn[t].parent)
<1> DEFINE p == turn[t].parent
<1>1. turn[t].at # "unborn" /\ p \in Turns
  BY WholeTypes, Fields DEF Alive, Here
<1>2. turn[p].at = "done" /\ History(t) = Append(History(p), t)
  BY <1>1 DEF Faithful, Lineal, Before, History
<1> HIDE DEF p
<1>3. History(p) \in Seq(Turns) /\ turn[p].bound \in Turns /\ p \in ToSet(History(p))
  BY <1>1, <1>2, ToldFacts, HistoryFacts
<1>4. PICK q \in Turns : Sent(q) /\ content[turn[p].bound] = History(q) /\ IsPrefix(History(p), History(q))
  BY <1>1, <1>2, ToldFacts
<1>5. p \in ToSet(History(t))
  BY <1>2, <1>3, ToSetAppend
<1>6. Ancestry
  BY DEF Exactly
<1>7. q # t /\ IsPrefix(History(q), History(t))
  BY <1>1, <1>2, <1>4, <1>5, <1>6, SentBefore
<1>8. turn[q].at # "unborn" /\ History(q) \in Seq(Turns)
  BY <1>4, SentFacts, HistoryFacts
<1>9. History(q) = History(p) \/ History(q) = History(t)
  BY <1>2, <1>3, <1>4, <1>7, <1>8, PrefixOfAppend
<1>10. History(q) # History(t)
  BY <1>1, <1>7, <1>8, HistoryNames
<1>11. QED
  BY <1>1, <1>2, <1>3, <1>4, <1>9, <1>10 DEF p

(* A lineage that extends the one that matched would have matched. *)
LEMMA NoLongerLineage ==
  ASSUME Faithful, Exactly, NEW t \in Turns, Alive(t), ~Sent(t), Lineage(t) # NoTurn,
         NEW w \in Turns, w \in ToSet(lineages), IsPrefix(History(Lineage(t)), History(w))
  PROVE  w = Lineage(t)
<1> DEFINE u == Lineage(t)
<1> DEFINE k == LineageAt(t)
<1>0. lineages \in Seq(Turns) /\ turn[t].at # "unborn"
  BY WholeTypes DEF Alive
<1>1. /\ k \in 1..Len(lineages) /\ u = lineages[k] /\ u \in ToSet(lineages)
      /\ Extends(t, u)
      /\ \A j \in 1..Len(lineages) : j > k => ~Extends(t, lineages[j])
  BY <1>0, LineageFacts
<1> HIDE DEF u, k
<1>2. u \in Turns /\ turn[u].at = "done" /\ turn[w].at = "done"
  BY <1>1, BoundFacts
<1>3. /\ History(u) \in Seq(Turns) /\ History(w) \in Seq(Turns) /\ History(t) \in Seq(Turns)
      /\ turn[u].messages = History(u) /\ turn[w].messages = History(w) /\ Sent(w)
      /\ u \in ToSet(History(u))
  BY <1>0, <1>2, ToldFacts, HistoryFacts
<1>4. IsPrefix(History(u), History(t))
  BY <1>1, <1>3 DEF Extends, IsStrictPrefix, History
<1>5. u \in ToSet(History(t))
  BY <1>3, <1>4, PrefixFacts
<1>6. IsPrefix(History(u), History(w))
  BY DEF u
<1>7. IsStrictPrefix(History(w), History(t))
  BY <1>2, <1>3, <1>5, <1>6, SentBefore DEF Exactly
<1>8. Extends(t, w)
  BY <1>3, <1>7 DEF Extends, History
<1>9. PICK j \in 1..Len(lineages) : w = lineages[j]
  BY <1>0 DEF ToSet
<1>10. ~(j > k)
  BY <1>1, <1>8, <1>9
<1>11. CASE j < k
  <2>1. ~IsStrictPrefix(History(u), History(w))
    BY <1>1, <1>9, <1>11 DEF Exactly, LineOrder
  <2>2. History(u) = History(w)
    BY <1>6, <2>1 DEF IsStrictPrefix
  <2>3. QED
    BY <1>2, <2>2, HistoryNames DEF u
<1>12. CASE j = k
  BY <1>1, <1>9, <1>12 DEF u
<1>13. QED
  BY <1>1, <1>9, <1>10, <1>11, <1>12

(* The conversation of the lineage that matches ends with it. *)
LEMMA LineageTip ==
  ASSUME Faithful, Exactly, Alone, NEW t \in Turns, turn[t].at = "called", Lineage(t) # NoTurn
  PROVE  /\ Lineage(t) \in Turns /\ turn[Lineage(t)].at = "done"
         /\ turn[Lineage(t)].bound \in Turns
         /\ content[turn[Lineage(t)].bound] = History(Lineage(t))
         /\ IsStrictPrefix(History(Lineage(t)), History(t))
<1> DEFINE u == Lineage(t)
<1>0. lineages \in Seq(Turns) /\ Alive(t) /\ ~Sent(t) /\ turn[t].at # "unborn"
  BY WholeTypes DEF Alive, Sent
<1>1. u \in ToSet(lineages) /\ Extends(t, u)
  BY <1>0, LineageFacts
<1>2. \A w \in Turns : w \in ToSet(lineages) /\ IsPrefix(History(u), History(w)) => w = u
  BY <1>0, NoLongerLineage
<1> HIDE DEF u
<1>3. u \in Turns /\ turn[u].at = "done"
  BY <1>1, BoundFacts
<1>4. /\ turn[u].messages = History(u) /\ turn[u].bound \in Turns
      /\ u \in ToSet(History(u)) /\ History(u) \in Seq(Turns) /\ History(t) \in Seq(Turns)
  BY <1>0, <1>3, ToldFacts, HistoryFacts
<1>5. IsStrictPrefix(History(u), History(t)) /\ IsPrefix(History(u), History(t))
  BY <1>1, <1>4 DEF Extends, IsStrictPrefix, History
<1>6. PICK q \in Turns : Sent(q) /\ content[turn[u].bound] = History(q) /\ IsPrefix(History(u), History(q))
  BY <1>3, ToldFacts
<1>7. u \in ToSet(History(t))
  BY <1>4, <1>5, PrefixFacts
<1>8. q # t
  BY <1>0, <1>6
<1>9. turn[q].at = "done"
  <2>1. Active(t)
    BY DEF Active
  <2>2. ~Active(q)
    BY <1>8, <2>1 DEF Alone
  <2>3. QED
    BY <1>6, <2>2 DEF Sent, Active
<1>10. q \in ToSet(lineages)
  BY <1>1, <1>6, <1>9 DEF Exactly, TipListed
<1>11. q = u
  BY <1>2, <1>6, <1>10
<1>12. QED
  BY <1>3, <1>4, <1>5, <1>6, <1>11 DEF u

(* Using a lineage moves it to the end. *)
LEMMA UseLineageOrder ==
  ASSUME lineages \in Seq(Turns), NEW t \in Turns, UseLineage(t), Lineage(t) # NoTurn
  PROVE  LET k == LineageAt(t)
             n == Len(lineages) IN
         /\ k \in 1..n /\ n \in Nat /\ lineages' \in Seq(Turns) /\ Len(lineages') = n
         /\ \A j \in 1..(n - 1) : lineages'[j] = IF j < k THEN lineages[j] ELSE lineages[j + 1]
         /\ lineages'[n] = lineages[k] /\ lineages[k] = Lineage(t)
         /\ ToSet(lineages') = ToSet(lineages)
<1> DEFINE k == LineageAt(t)
<1> DEFINE n == Len(lineages)
<1>1. k \in 1..n /\ Lineage(t) = lineages[k] /\ n \in Nat
  BY LineageFacts
<1> DEFINE r == RemoveAt(lineages, k)
<1>2. lineages' = Append(r, lineages[k])
  BY <1>1 DEF UseLineage
<1>3. /\ r \in Seq(Turns) /\ Len(r) = n - 1
      /\ \A j \in 1..(n - 1) : r[j] = IF j < k THEN lineages[j] ELSE lineages[j + 1]
      /\ ToSet(r) \subseteq ToSet(lineages)
  BY <1>1, RemoveAtFacts
<1>4. lineages[k] \in Turns
  BY <1>1
<1> HIDE DEF r, k, n
<1>5. /\ lineages' \in Seq(Turns) /\ Len(lineages') = n /\ lineages'[n] = lineages[k]
      /\ \A j \in 1..(n - 1) : lineages'[j] = r[j]
  BY <1>1, <1>2, <1>3, <1>4, AppendProperties
<1>6. ToSet(lineages') = ToSet(r) \cup {lineages[k]}
  BY <1>2, <1>3, <1>4, ToSetAppend
<1>7. ToSet(lineages') = ToSet(lineages)
  <2>1. DOMAIN lineages = 1..n /\ DOMAIN r = 1..(n - 1)
    BY <1>3 DEF n
  <2>2. lineages[k] \in ToSet(lineages)
    BY <1>1, <2>1 DEF ToSet
  <2>3. ASSUME NEW j \in 1..n PROVE lineages[j] \in ToSet(lineages')
    <3>1. CASE j = k
      BY <1>6, <3>1
    <3>2. CASE j < k
      <4>1. j \in 1..(n - 1) /\ r[j] = lineages[j]
        BY <1>1, <1>3, <3>2
      <4>2. QED
        BY <1>6, <2>1, <4>1 DEF ToSet
    <3>3. CASE j > k
      <4>1. j - 1 \in 1..(n - 1) /\ ~(j - 1 < k) /\ (j - 1) + 1 = j
        BY <1>1, <3>3
      <4>2. r[j - 1] = lineages[j]
        BY <1>3, <4>1
      <4>3. QED
        BY <1>6, <2>1, <4>1, <4>2 DEF ToSet
    <3>4. QED
      BY <1>1, <3>1, <3>2, <3>3
  <2>4. ToSet(lineages) \subseteq ToSet(lineages')
    BY <2>1, <2>3 DEF ToSet
  <2>5. QED
    BY <1>3, <1>6, <2>2, <2>4
<1>8. QED
  BY <1>1, <1>3, <1>5, <1>7 DEF k, n

(* Completed turns keep their transcripts. *)
HistoriesKept == \A u \in Turns : turn[u].at = "done" => turn'[u].history = turn[u].history

(* Moving the lineage that matched to the end keeps the order: nobody in    *)
(* the list continues it.                                                   *)
LEMMA LineOrderUsed ==
  ASSUME Faithful, Exactly, NEW t \in Turns, Alive(t), ~Sent(t), UseLineage(t), HistoriesKept
  PROVE  LineOrder' /\ ToSet(lineages') = ToSet(lineages)
<1>0. lineages \in Seq(Turns)
  BY WholeTypes
<1>1. \A u \in ToSet(lineages) : u \in Turns /\ turn'[u].history = turn[u].history
  BY BoundFacts DEF HistoriesKept
<1> DEFINE n == Len(lineages)
<1>2. \A i, j \in 1..n : i < j => ~IsStrictPrefix(turn[lineages[j]].history, turn[lineages[i]].history)
  BY DEF Exactly, LineOrder, History
<1>3. \A i \in 1..n : lineages[i] \in ToSet(lineages)
  BY <1>0 DEF ToSet
<1>4. CASE Lineage(t) = NoTurn
  <2>1. lineages' = lineages
    BY <1>0, <1>4, LineageFacts DEF UseLineage
  <2>2. QED
    BY <1>1, <1>2, <1>3, <2>1 DEF LineOrder, History
<1>5. CASE Lineage(t) # NoTurn
  <2> DEFINE k == LineageAt(t)
  <2>1. /\ k \in 1..n /\ n \in Nat /\ Len(lineages') = n
        /\ \A j \in 1..(n - 1) : lineages'[j] = IF j < k THEN lineages[j] ELSE lineages[j + 1]
        /\ lineages'[n] = lineages[k] /\ lineages[k] = Lineage(t)
        /\ ToSet(lineages') = ToSet(lineages)
    BY <1>0, <1>5, UseLineageOrder
  <2> HIDE DEF k, n
  <2>2. ASSUME NEW i \in 1..n, NEW j \in 1..n, i < j
        PROVE  ~IsStrictPrefix(turn'[lineages'[j]].history, turn'[lineages'[i]].history)
    <3>1. PICK a \in 1..n : lineages'[i] = lineages[a] /\ (IF i < k THEN a = i ELSE a = i + 1) /\ a # k
      <4>1. i \in 1..(n - 1)
        BY <2>1, <2>2
      <4>2. CASE i < k
        BY <2>1, <4>1, <4>2
      <4>3. CASE ~(i < k)
        <5>1. i + 1 \in 1..n /\ i + 1 # k
          BY <2>1, <4>1, <4>3
        <5>2. QED
          BY <2>1, <4>1, <4>3, <5>1
      <4>4. QED
        BY <4>2, <4>3
    <3>2. CASE j = n
      <4>1. lineages'[j] = lineages[k] /\ lineages[k] = Lineage(t)
        BY <2>1, <3>2
      <4>2. lineages[a] \in Turns /\ lineages[a] \in ToSet(lineages) /\ lineages[k] \in ToSet(lineages)
        BY <1>1, <1>3, <2>1 DEF n
      <4>3. IsPrefix(turn[lineages[k]].history, turn[lineages[a]].history) => lineages[a] = lineages[k]
        BY <1>5, <4>1, <4>2, NoLongerLineage DEF History
      <4>4. ~IsStrictPrefix(turn[lineages[k]].history, turn[lineages[a]].history)
        BY <4>3 DEF IsStrictPrefix
      <4>5. QED
        BY <1>1, <3>1, <4>1, <4>2, <4>4
    <3>3. CASE j # n
      <4>1. j \in 1..(n - 1)
        BY <2>1, <3>3
      <4>2. PICK b \in 1..n : lineages'[j] = lineages[b] /\ (IF j < k THEN b = j ELSE b = j + 1)
        BY <2>1, <4>1
      <4>3. a < b
        BY <2>1, <2>2, <3>1, <4>2
      <4>4. ~IsStrictPrefix(turn[lineages[b]].history, turn[lineages[a]].history)
        BY <1>2, <4>3 DEF n
      <4>5. lineages[a] \in ToSet(lineages) /\ lineages[b] \in ToSet(lineages)
        BY <1>3 DEF n
      <4>6. QED
        BY <1>1, <3>1, <4>2, <4>4, <4>5
    <3>4. QED
      BY <3>2, <3>3
  <2>3. QED
    BY <2>1, <2>2 DEF LineOrder, History
<1>6. QED
  BY <1>4, <1>5

-----------------------------------------------------------------------------
(* What a step leaves exact. *)

(* Conversations only grow. *)
Grown == \A c \in Turns : IsPrefix(content[c], content'[c])

(* A sequence is a prefix of itself. *)
LEMMA PrefixSelf ==
  ASSUME NEW S, NEW s \in Seq(S)
  PROVE  IsPrefix(s, s)
  BY PrefixByIndex

(* Completed turns stay completed, so that their number does not decrease. *)
LEMMA DoneCount ==
  ASSUME \A u \in Turns : turn[u].at = "done" => turn'[u].at = "done"
  PROVE  /\ Cardinality(At("done")) \in Nat /\ Cardinality(At("done")') \in Nat
         /\ Cardinality(At("done")) <= Cardinality(At("done")')
<1>1. IsFiniteSet(At("done")) /\ IsFiniteSet(At("done")') /\ At("done") \subseteq At("done")'
  BY TurnAssumption, FS_Subset DEF TurnAssumption, At
<1>2. QED
  BY <1>1, FS_CardinalityType, FS_Subset

(* A completed turn was told exactly, whatever another turn does. *)
LEMMA ToldKept ==
  ASSUME Faithful, Faithful', Exactly, NEW t \in Turns, turn[t].at # "done", Others(t), Grown,
         \A u \in Turns : u # t => disk'[u] = disk[u], named \subseteq named',
         NEW v \in Turns, v # t
  PROVE  PureTold(v)'
<1>1. SUFFICES ASSUME turn[v].at = "done" PROVE PureTold(v)'
  BY DEF PureTold, Others
<1>2. turn'[v] = turn[v] /\ disk'[v] = disk[v]
  BY DEF Others
<1>3. /\ turn[v].messages = History(v) /\ disk[v] = History(v) /\ Context(v) = History(v)
      /\ turn[v].bound \in named /\ IsPrefix(History(v), content[turn[v].bound])
      /\ turn[v].boundAt <= Cardinality(At("done"))
      /\ \A a \in ToSet(History(v)) : a # v => turn[a].boundAt < turn[v].boundAt
  BY <1>1 DEF Exactly, Pure, PureTold
<1>4. turn[v].bound \in Turns /\ History(v) \in Seq(Turns)
  BY <1>1, ToldFacts
<1>5. IsPrefix(History(v), content'[turn[v].bound])
  <2>1. content \in [Turns -> Seq(Turns)] /\ content' \in [Turns -> Seq(Turns)]
    BY DEF Faithful, Sound, TypeInv
  <2>2. QED
    BY <1>3, <1>4, <2>1, PrefixFacts DEF Grown
<1>6. turn[v].boundAt <= Cardinality(At("done")')
  <2>1. \A u \in Turns : turn[u].at = "done" => turn'[u].at = "done"
    BY DEF Others
  <2>2. turn[v].boundAt \in Nat
    BY WholeTypes, Fields
  <2>3. QED
    BY <1>3, <2>1, <2>2, DoneCount
<1>7. ASSUME NEW a \in ToSet(History(v)), a # v PROVE turn'[a] = turn[a]
  <2>1. a \in Turns /\ turn[a].at = "done"
    BY <1>1, <1>7, AncestorPrefix DEF Exactly
  <2>2. QED
    BY <2>1 DEF Others
<1>8. QED
  BY <1>2, <1>3, <1>5, <1>6, <1>7 DEF PureTold, History, Context

(* Of the turns that are not at work, nothing but what they were told counts. *)
LEMMA OthersPure ==
  ASSUME Faithful, Faithful', Exactly, NEW t \in Turns, turn[t].at # "done", Others(t), Grown,
         \A u \in Turns : u # t => ~Active(u),
         \A u \in Turns : u # t => disk'[u] = disk[u], named \subseteq named'
  PROVE  \A v \in Turns : v # t => Pure(v)'
<1>1. SUFFICES ASSUME NEW v \in Turns, v # t PROVE Pure(v)'
  OBVIOUS
<1>2. turn'[v] = turn[v] /\ turn[v].at \notin {"prepared", "running"}
  BY <1>1 DEF Others, Active
<1>3. Quiet(v)'
  BY <1>2 DEF Exactly, Pure, Quiet
<1>4. PureTold(v)'
  BY <1>1, ToldKept
<1>5. QED
  BY <1>2, <1>3, <1>4 DEF Pure, PureReady, PureCourse

(* Whoever was sent stays sent. *)
LEMMA SentKept ==
  ASSUME Faithful, NEW t \in Turns, turn[t].at # "done", Others(t), Sent(t) => Sent(t)',
         turn[t].at # "unborn" => turn'[t].history = turn[t].history
  PROVE  \A q \in Turns : Sent(q) => Sent(q)' /\ turn'[q].history = turn[q].history
<1>1. SUFFICES ASSUME NEW q \in Turns, Sent(q) PROVE Sent(q)' /\ turn'[q].history = turn[q].history
  OBVIOUS
<1>2. CASE q = t
  <2>1. turn[t].at # "unborn"
    BY <1>1, <1>2, SentFacts
  <2>2. QED
    BY <1>1, <1>2, <2>1
<1>3. CASE q # t
  <2>1. turn'[q] = turn[q]
    BY <1>3 DEF Others
  <2>2. QED
    BY <1>1, <2>1 DEF Sent
<1>4. QED
  BY <1>2, <1>3

(* Tips stay while nothing is typed. *)
LEMMA TipsKept ==
  ASSUME Tips, content' = content,
         \A q \in Turns : Sent(q) => Sent(q)' /\ turn'[q].history = turn[q].history
  PROVE  Tips'
<1>1. SUFFICES ASSUME NEW c \in Turns, content[c] # <<>>
               PROVE  Sent(c)' /\ \E p \in Turns : Sent(p)' /\ content[c] = turn'[p].history
  BY DEF Tips, History
<1>2. Sent(c) /\ \E p \in Turns : Sent(p) /\ content[c] = History(p)
  BY <1>1 DEF Tips
<1>3. QED
  BY <1>2 DEF History

(* A step of a turn that neither types nor completes. *)
LEMMA ExactlyKept ==
  ASSUME Faithful, Faithful', Exactly, NEW t \in Turns, turn[t].at # "done", turn'[t].at # "done", Others(t),
         \A u \in Turns : u # t => ~Active(u),
         Ancestry', PureReady(t)', PureCourse(t)', Quiet(t)',
         Sent(t) => Sent(t)', turn[t].at # "unborn" => turn'[t].history = turn[t].history,
         UNCHANGED <<disk, content, named>>, page' \in named \cup {NoTurn},
         LineOrder', ToSet(lineages') = ToSet(lineages)
  PROVE  Exactly'
<1>1. Grown
  <2>1. content \in [Turns -> Seq(Turns)]
    BY WholeTypes
  <2>2. QED
    BY <2>1, PrefixSelf DEF Grown
<1>2. \A v \in Turns : Pure(v)'
  <2>1. Pure(t)'
    BY DEF Pure, PureTold
  <2>2. \A v \in Turns : v # t => Pure(v)'
    BY <1>1, OthersPure
  <2>3. QED
    BY <2>1, <2>2
<1>3. PageNamed'
  BY DEF Exactly, PageNamed
<1>4. Tips'
  BY SentKept, TipsKept DEF Exactly
<1>5. TipListed'
  <2>1. SUFFICES ASSUME NEW u \in ToSet(lineages), NEW p \in Turns,
                        turn'[p].at = "done", content[turn'[u].bound] = turn'[p].history
                 PROVE  p \in ToSet(lineages)
    BY DEF TipListed, History
  <2>2. u \in Turns /\ turn[u].at = "done"
    BY BoundFacts
  <2>3. turn'[u] = turn[u] /\ turn'[p] = turn[p]
    BY <2>1, <2>2 DEF Others
  <2>4. QED
    BY <2>1, <2>3 DEF Exactly, TipListed, History
<1>6. QED
  BY <1>2, <1>3, <1>4, <1>5 DEF Exactly

(* A step of a turn that has not completed changes no completed turn. *)
LEMMA HistoriesKeptByOthers ==
  ASSUME NEW t \in Turns, turn[t].at # "done", Others(t)
  PROVE  HistoriesKept
  BY DEF HistoriesKept, Others

(* The order stays while the list does. *)
LEMMA LineOrderKept ==
  ASSUME Faithful, Exactly, HistoriesKept, lineages' = lineages
  PROVE  LineOrder'
<1>1. \A i \in 1..Len(lineages) : turn'[lineages[i]].history = turn[lineages[i]].history
  <2>1. ASSUME NEW i \in 1..Len(lineages) PROVE lineages[i] \in ToSet(lineages)
    BY <2>1, WholeTypes DEF ToSet
  <2>2. QED
    BY <2>1, BoundFacts DEF HistoriesKept
<1>2. QED
  BY <1>1 DEF Exactly, LineOrder, History

(* The ancestry survives a step of a turn that is not called by it. *)
LEMMA AncestryMoved ==
  ASSUME Faithful, Ancestry, NEW t \in Turns, Others(t), turn[t].at \notin {"unborn", "done"},
         Birth(t)' = Birth(t), turn'[t].at # "unborn", Alive(t)' => Alive(t)
  PROVE  Ancestry'
<1>1. ASSUME NEW u \in Turns
      PROVE  /\ History(u)' = History(u)
             /\ turn[u].at = "done" => turn'[u].at = "done"
             /\ turn'[u].at # "unborn" => turn[u].at # "unborn"
             /\ Alive(u)' => Alive(u)
  <2>1. CASE u = t
    BY <2>1 DEF History, Birth
  <2>2. CASE u # t
    BY <2>2 DEF Others, History, Alive
  <2>3. QED
    BY <2>1, <2>2
<1>2. \A u \in Turns : turn[u].at # "unborn" => History(u) \in Seq(Turns)
  BY HistoryFacts
<1>3. QED
  BY <1>1, <1>2, AncestryKept

(* A prefix and the rest make the whole. *)
LEMMA PrefixRest ==
  ASSUME NEW S, NEW s \in Seq(S), NEW w \in Seq(S), IsPrefix(s, w)
  PROVE  s \o SubSeq(w, Len(s) + 1, Len(w)) = w
<1>1. Len(s) \in Nat /\ Len(w) \in Nat /\ Len(s) <= Len(w) /\ \A i \in 1..Len(s) : s[i] = w[i]
  BY PrefixByIndex
<1> DEFINE r == SubSeq(w, Len(s) + 1, Len(w))
<1>2. /\ r \in Seq(S) /\ Len(r) = Len(w) - Len(s)
      /\ \A i \in 1..(Len(w) - Len(s)) : r[i] = w[Len(s) + i]
  <2>1. \A i \in (Len(s) + 1)..Len(w) : w[i] \in S
    BY <1>1
  <2>2. r \in Seq(S)
    BY <1>1, <2>1, SubSeqProperties
  <2>3. Len(r) = Len(w) - Len(s)
    BY <1>1, <2>1, SubSeqProperties
  <2>4. \A i \in 1..(Len(w) - Len(s)) : r[i] = w[Len(s) + i]
    BY <1>1, <2>1, SubSeqProperties
  <2>5. QED
    BY <2>2, <2>3, <2>4
<1> HIDE DEF r
<1>3. /\ s \o r \in Seq(S) /\ Len(s \o r) = Len(s) + Len(r)
      /\ \A i \in 1..Len(s \o r) : (s \o r)[i] = IF i <= Len(s) THEN s[i] ELSE r[i - Len(s)]
  BY <1>2, ConcatProperties
<1>4. \A i \in 1..Len(w) : (s \o r)[i] = w[i]
  <2>1. ASSUME NEW i \in 1..Len(w) PROVE (s \o r)[i] = w[i]
    <3>1. Len(s \o r) = Len(w)
      BY <1>1, <1>2, <1>3
    <3>2. CASE i <= Len(s)
      BY <1>1, <1>3, <2>1, <3>1, <3>2
    <3>3. CASE ~(i <= Len(s))
      <4>1. i - Len(s) \in 1..(Len(w) - Len(s)) /\ Len(s) + (i - Len(s)) = i
        BY <1>1, <2>1, <3>3
      <4>2. r[i - Len(s)] = w[i]
        BY <1>2, <4>1
      <4>3. QED
        BY <1>3, <2>1, <3>1, <3>3, <4>2
    <3>4. QED
      BY <3>2, <3>3
  <2>2. QED
    BY <2>1
<1> DEFINE x == s \o r
<1>5. x \in Seq(S) /\ Len(x) = Len(w) /\ \A i \in 1..Len(w) : x[i] = w[i]
  BY <1>1, <1>2, <1>3, <1>4
<1> HIDE DEF x
<1>6. x = w
  BY <1>5, SeqEqual
<1>7. QED
  BY <1>6 DEF r, x

(* One exchange, or nothing, joined to a sequence. *)
LEMMA ConcatEnds ==
  ASSUME NEW S, NEW s \in Seq(S), NEW e \in S
  PROVE  s \o <<e>> = Append(s, e) /\ <<>> \o s = s
<1>1. <<e>> \in Seq(S) /\ Len(<<e>>) = 1 /\ <<e>>[1] = e
  OBVIOUS
<1>2. s \o <<e>> = Append(s, e)
  OBVIOUS
<1>3. <<>> \o s = s
  OBVIOUS
<1>4. QED
  BY <1>2, <1>3

(* What a turn will run with is the transcript. *)
LEMMA MessagesExactly ==
  ASSUME Faithful, Exactly, NEW t \in Turns, Alive(t), ~Sent(t), NEW m,
         m = History(t) \/ (m = <<>> /\ turn[t].how = "id"),
         ~(m = <<>> /\ memory[turn[t].parent] = <<>>)
  PROVE  (IF m = <<>> THEN Append(memory[turn[t].parent], t) ELSE m) = History(t)
<1>1. CASE m = <<>> /\ turn[t].how = "id"
  <2> DEFINE p == turn[t].parent
  <2>1. p \in Turns /\ p # NoTurn
    BY <1>1, WholeTypes DEF Faithful, Sound, Stored, Fit
  <2>2. turn[p].at = "done" /\ History(t) = Append(History(p), t)
    BY <2>1, ParentTip
  <2> HIDE DEF p
  <2>3. memory[p] = turn[p].messages
    BY <1>1, <2>1 DEF p, Faithful, Sound, Stored
  <2>4. turn[p].messages = History(p)
    BY <2>1, <2>2, ToldFacts
  <2>5. QED
    BY <1>1, <2>2, <2>3, <2>4 DEF p
<1>2. CASE m = History(t)
  <2>1. History(t) # <<>>
    <3>1. Len(History(t)) >= 1
      BY HistoryFacts DEF Alive
    <3>2. QED
      BY <3>1
  <2>2. QED
    BY <1>2, <2>1
<1>3. QED
  BY <1>1, <1>2

(* The previous response can be found, as it is on disk. *)
LEMMA HydratedExactly ==
  ASSUME Faithful, Exactly, NEW t \in Turns, turn[t].at = "called"
  PROVE  /\ Hydrates(t)
         /\ Hydrated(t) = History(t) \/ (Hydrated(t) = <<>> /\ turn[t].how = "id")
<1>0. Alive(t) /\ ~Sent(t) /\ turn[t].how \in {"id", "history"}
  BY WholeTypes, Fields DEF Alive, Sent
<1>1. CASE turn[t].how = "history"
  BY <1>1 DEF Hydrates, Hydrated, History
<1>2. CASE turn[t].how = "id"
  <2> DEFINE p == turn[t].parent
  <2>1. p \in Turns /\ p # NoTurn
    BY <1>2, WholeTypes DEF Faithful, Sound, Stored, Fit
  <2>2. turn[p].at = "done" /\ History(t) = Append(History(p), t)
    BY <1>0, <2>1, ParentTip
  <2> HIDE DEF p
  <2>3. disk[p] = History(p) /\ Len(History(p)) >= 1
    BY <2>1, <2>2, ToldFacts
  <2>4. disk[p] # <<>>
    BY <2>3
  <2>5. QED
    BY <1>2, <2>2, <2>3, <2>4 DEF p, Hydrates, Hydrated
<1>3. QED
  BY <1>0, <1>1, <1>2

(* A call is exact: it prepares nothing and types nothing. *)
LEMMA ExactCall ==
  ASSUME Undisturbed, Faithful, Exactly, NEW t \in Turns, Call(t), \A u \in Turns : u # t => ~Active(u)
  PROVE  Exactly'
<1>1. Faithful' /\ turn'[t].at = "called" /\ turn'[t].worker = "none" /\ Others(t)
  BY FaithfulCall
<1>2. /\ turn[t].at = "unborn"
      /\ UNCHANGED <<memory, disk, bindings, lineages, hint, tab, page, named, content, restarts>>
  BY DEF Call, affinity
<1>3. Ancestry'
  BY <1>1, AncestryCall DEF Exactly
<1>4. PureReady(t)' /\ PureCourse(t)' /\ Quiet(t)' /\ ~Sent(t)
  BY <1>1, <1>2 DEF PureReady, PureCourse, Quiet, Sent
<1>5. LineOrder'
  BY <1>1, <1>2, HistoriesKeptByOthers, LineOrderKept
<1>6. page' \in named \cup {NoTurn}
  BY <1>2 DEF Exactly, PageNamed
<1>7. QED
  BY <1>1, <1>2, <1>3, <1>4, <1>5, <1>6, ExactlyKept

(* A turn that has been prepared on a page that, with what is typed, makes  *)
(* its transcript.                                                          *)
LEMMA ExactReady ==
  ASSUME Faithful, Faithful', Exactly, NEW t \in Turns, turn[t].at = "called", Others(t),
         \A u \in Turns : u # t => ~Active(u),
         turn'[t].at = "prepared", turn'[t].worker = turn[t].worker, Birth(t)' = Birth(t),
         NEW path \in Here, NEW skip \in Nat, Prompt(t)' = <<Hydrated(t), path, skip>>,
         page' = path, path \in named \cup {NoTurn},
         UNCHANGED <<memory, disk, bindings, content, named>>,
         LineOrder', ToSet(lineages') = ToSet(lineages),
         LET text == IF path = NoTurn THEN <<>> ELSE content[path] IN
         text \o (IF path = NoTurn THEN History(t)
                  ELSE IF skip > 0 THEN SubSeq(History(t), skip + 1, Len(History(t))) ELSE <<t>>) = History(t)
  PROVE  Exactly'
<1> DEFINE m == Hydrated(t)
<1>1. Alive(t) /\ ~Sent(t) /\ ~Sent(t)' /\ Alive(t)'
  BY DEF Alive, Sent
<1>2. /\ turn'[t].messages = m /\ turn'[t].path = path /\ turn'[t].skip = skip
      /\ turn'[t].parent = turn[t].parent /\ turn'[t].how = turn[t].how /\ turn'[t].history = turn[t].history
  BY DEF Prompt, Birth
<1>3. m = History(t) \/ (m = <<>> /\ turn[t].how = "id")
  BY HydratedExactly
<1> HIDE DEF m
<1>4. StateLost(t)' <=> (m = <<>> /\ memory[turn[t].parent] = <<>>)
  BY <1>2 DEF StateLost
<1>5. StateMessages(t)' = IF m = <<>> THEN Append(memory[turn[t].parent], t) ELSE m
  BY <1>2 DEF StateMessages
<1>6. ~StateLost(t)' => StateMessages(t)' = History(t)
  BY <1>1, <1>3, <1>4, <1>5, MessagesExactly
<1>7. ~StateLost(t)' => BrowserMessages(t)' =
         IF path = NoTurn THEN History(t)
         ELSE IF skip > 0 THEN SubSeq(History(t), skip + 1, Len(History(t))) ELSE <<t>>
  BY <1>2, <1>6 DEF BrowserMessages
<1>8. Text(page)' = IF path = NoTurn THEN <<>> ELSE content[path]
  BY DEF Text
<1>9. PureReady(t)'
  <2>1. ~StateLost(t)' => Text(page)' \o BrowserMessages(t)' = History(t)
    BY <1>7, <1>8
  <2>2. History(t)' = History(t)
    BY <1>2 DEF History
  <2>3. QED
    BY <1>2, <1>3, <2>1, <2>2 DEF PureReady
<1>10. PureCourse(t)' /\ Quiet(t)'
  BY DEF PureCourse, Quiet
<1>11. Ancestry'
  BY <1>1, AncestryMoved DEF Exactly
<1>12. QED
  BY <1>1, <1>2, <1>9, <1>10, <1>11, ExactlyKept

(* The conversation of the previous response ends with that response, so    *)
(* that the new items complete it.                                          *)
LEMMA ExactReuse ==
  ASSUME Faithful, Faithful', Exactly, NEW t \in Turns, \A u \in Turns : u # t => ~Active(u), PrepareReuse(t)
  PROVE  Exactly'
<1>1. /\ turn[t].at = "called" /\ Others(t)
      /\ turn'[t].at = "prepared" /\ turn'[t].worker = turn[t].worker /\ Birth(t)' = Birth(t)
      /\ Prompt(t)' = <<Hydrated(t), Binding(t), 0>>
  <2>1. turn \in [Turns -> TurnRecord] /\ Hydrated(t) \in Seq(Turns) /\ Binding(t) \in Here /\ 0 \in Nat
    BY WholeTypes, HydratedType, BindingType
  <2>2. Prepared(t, Hydrated(t), Binding(t), 0) /\ turn[t].at = "called"
    BY DEF PrepareReuse
  <2>3. QED
    BY <2>1, <2>2, PreparedEffect
<1>2. /\ page' = Binding(t) /\ Binding(t) # NoTurn
      /\ UNCHANGED <<memory, disk, bindings, content, named>> /\ lineages' = lineages
  BY DEF PrepareReuse, affinity
<1>3. /\ turn[t].parent \in Turns /\ turn[t].parent \in bindings
      /\ Binding(t) = turn[turn[t].parent].bound /\ Binding(t) \in Turns
  BY <1>2, BindingFacts
<1>4. /\ turn[turn[t].parent].at = "done" /\ History(t) = Append(History(turn[t].parent), t)
      /\ content[Binding(t)] = History(turn[t].parent)
  <2>1. Alive(t) /\ ~Sent(t) /\ turn[t].parent # NoTurn
    BY <1>1, <1>3, WholeTypes DEF Alive, Sent
  <2>2. QED
    BY <1>3, <2>1, ParentTip
<1>5. Binding(t) \in named /\ History(turn[t].parent) \in Seq(Turns)
  BY <1>3, <1>4, ToldFacts
<1>6. content[Binding(t)] \o <<t>> = History(t)
  BY <1>4, <1>5, ConcatEnds
<1>7. LineOrder'
  BY <1>1, <1>2, HistoriesKeptByOthers, LineOrderKept
<1>8. Binding(t) \in Here /\ 0 \in Nat /\ ~(0 > 0)
  BY <1>3 DEF Here
<1>9. QED
  BY <1>1, <1>2, <1>5, <1>6, <1>7, <1>8, ExactReady

(* The lineage that matches is the tip of its conversation, so that the     *)
(* rest of the transcript completes it.                                     *)
LEMMA ExactLineage ==
  ASSUME Faithful, Faithful', Exactly, Alone, NEW t \in Turns, \A u \in Turns : u # t => ~Active(u), PrepareLineage(t)
  PROVE  Exactly'
<1> DEFINE u == Lineage(t)
<1>0. /\ turn[t].at = "called" /\ u # NoTurn /\ UseLineage(t) /\ page' = turn[u].bound
      /\ UNCHANGED <<memory, disk, content, named>> /\ bindings' = bindings
      /\ Prepared(t, Hydrated(t), turn[u].bound, Len(turn[u].messages))
  BY DEF PrepareLineage, UseLineage
<1>1. /\ u \in Turns /\ turn[u].at = "done" /\ turn[u].bound \in Turns
      /\ content[turn[u].bound] = History(u) /\ IsStrictPrefix(History(u), History(t))
  BY <1>0, LineageTip
<1>2. /\ History(u) \in Seq(Turns) /\ Len(History(u)) >= 1 /\ turn[u].messages = History(u)
      /\ turn[u].bound \in named
  BY <1>1, ToldFacts
<1> HIDE DEF u
<1>3. turn \in [Turns -> TurnRecord] /\ Hydrated(t) \in Seq(Turns) /\ turn[u].bound \in Here /\ Len(turn[u].messages) \in Nat
  BY <1>1, <1>2, WholeTypes, HydratedType DEF Here
<1>4. /\ Others(t) /\ turn'[t].at = "prepared" /\ turn'[t].worker = turn[t].worker /\ Birth(t)' = Birth(t)
      /\ Prompt(t)' = <<Hydrated(t), turn[u].bound, Len(turn[u].messages)>>
  BY <1>0, <1>3, PreparedEffect
<1>5. LineOrder' /\ ToSet(lineages') = ToSet(lineages)
  <2>1. Alive(t) /\ ~Sent(t)
    BY <1>0 DEF Alive, Sent
  <2>2. HistoriesKept
    BY <1>0, <1>4, HistoriesKeptByOthers
  <2>3. QED
    BY <1>0, <2>1, <2>2, LineOrderUsed
<1>6. History(u) \o SubSeq(History(t), Len(History(u)) + 1, Len(History(t))) = History(t)
  <2>1. History(t) \in Seq(Turns)
    BY <1>0, HistoryFacts
  <2>2. QED
    BY <1>1, <1>2, <2>1, PrefixRest DEF IsStrictPrefix
<1>7. turn[u].bound # NoTurn /\ Len(turn[u].messages) > 0 /\ Len(turn[u].messages) = Len(History(u))
  BY <1>1, <1>2, <1>3, WholeTypes
<1>8. QED
  BY <1>0, <1>1, <1>2, <1>3, <1>4, <1>5, <1>6, <1>7, ExactReady

(* The pages a preparation may leave behind show their paths. *)
LEMMA RestoreNamed ==
  ASSUME Faithful, Exactly, NEW t \in Turns, NEW shown \in AfterRestore(t)
  PROVE  shown \in named \cup {NoTurn} /\ NewChat(shown) = NoTurn
<1>1. page \in named \cup {NoTurn}
  BY DEF Exactly, PageNamed
<1>2. Binding(t) # NoTurn => Binding(t) \in named
  <2>1. SUFFICES ASSUME Binding(t) # NoTurn PROVE Binding(t) \in named
    OBVIOUS
  <2>2. turn[t].parent \in bindings /\ Binding(t) = turn[turn[t].parent].bound
    BY <2>1, BindingFacts
  <2>3. QED
    BY <2>2, BoundFacts, ToldFacts
<1>3. Lineage(t) # NoTurn => turn[Lineage(t)].bound \in named
  <2>1. Lineage(t) # NoTurn => Lineage(t) \in ToSet(lineages)
    BY WholeTypes, LineageFacts
  <2>2. QED
    BY <2>1, BoundFacts, ToldFacts
<1>4. shown \in named \cup {NoTurn}
  BY <1>1, <1>2, <1>3 DEF AfterRestore
<1>5. QED
  BY <1>4 DEF NewChat

(* On an empty page everything is typed. *)
LEMMA ExactFresh ==
  ASSUME Faithful, Faithful', Exactly, NEW t \in Turns, \A u \in Turns : u # t => ~Active(u), PrepareFresh(t)
  PROVE  Exactly'
<1>1. /\ turn[t].at = "called" /\ UseLineage(t) /\ UNCHANGED <<memory, disk, content, named>> /\ bindings' = bindings
      /\ Prepared(t, Hydrated(t), NoTurn, 0)
  BY DEF PrepareFresh, UseLineage
<1>2. page' = NoTurn
  BY RestoreNamed DEF PrepareFresh
<1>3. turn \in [Turns -> TurnRecord] /\ Hydrated(t) \in Seq(Turns) /\ NoTurn \in Here /\ 0 \in Nat
  BY WholeTypes, HydratedType DEF Here
<1>4. /\ Others(t) /\ turn'[t].at = "prepared" /\ turn'[t].worker = turn[t].worker /\ Birth(t)' = Birth(t)
      /\ Prompt(t)' = <<Hydrated(t), NoTurn, 0>>
  BY <1>1, <1>3, PreparedEffect
<1>5. LineOrder' /\ ToSet(lineages') = ToSet(lineages)
  <2>1. Alive(t) /\ ~Sent(t)
    BY <1>1 DEF Alive, Sent
  <2>2. HistoriesKept
    BY <1>1, <1>4, HistoriesKeptByOthers
  <2>3. QED
    BY <1>1, <2>1, <2>2, LineOrderUsed
<1>6. <<>> \o History(t) = History(t)
  BY <1>1, HistoryFacts, ConcatEnds
<1>7. QED
  BY <1>1, <1>2, <1>3, <1>4, <1>5, <1>6, ExactReady

(* A turn that is not prepared leaves the page empty or on a conversation   *)
(* with a path.                                                             *)
LEMMA ExactPrepareFails ==
  ASSUME Faithful, Faithful', Exactly, NEW t \in Turns, \A u \in Turns : u # t => ~Active(u), PrepareFails(t)
  PROVE  Exactly'
<1>1. /\ turn[t].at = "called" /\ UseLineage(t) /\ UNCHANGED <<memory, disk, content, named>> /\ bindings' = bindings
      /\ turn' = [turn EXCEPT ![t].at = "ended"]
  BY DEF PrepareFails, UseLineage
<1>2. page' \in named \cup {NoTurn}
  BY RestoreNamed DEF PrepareFails
<1>3. Moved(t, "ended", turn[t].worker)
  BY <1>1, WholeTypes, AtEffect DEF HandlerSteps
<1>4. Others(t) /\ turn'[t].at = "ended" /\ turn'[t].worker = "none" /\ Birth(t)' = Birth(t)
  BY <1>1, <1>3 DEF Moved, Faithful, Idle
<1>5. LineOrder' /\ ToSet(lineages') = ToSet(lineages)
  <2>1. Alive(t) /\ ~Sent(t)
    BY <1>1 DEF Alive, Sent
  <2>2. HistoriesKept
    BY <1>1, <1>4, HistoriesKeptByOthers
  <2>3. QED
    BY <1>1, <2>1, <2>2, LineOrderUsed
<1>6. PureReady(t)' /\ PureCourse(t)' /\ Quiet(t)' /\ ~Sent(t) /\ ~Alive(t)' /\ turn'[t].history = turn[t].history
  BY <1>1, <1>4 DEF PureReady, PureCourse, Quiet, Sent, Alive, Birth
<1>7. Ancestry'
  BY <1>1, <1>4, <1>6, AncestryMoved DEF Exactly
<1>8. QED
  BY <1>1, <1>2, <1>4, <1>5, <1>6, <1>7, ExactlyKept

(* The start of the stream fixes what is typed. *)
LEMMA ExactStart ==
  ASSUME Faithful, Faithful', Exactly, NEW t \in Turns, \A u \in Turns : u # t => ~Active(u), Start(t)
  PROVE  Exactly'
<1>1. /\ turn[t].at = "prepared" /\ ~StateLost(t) /\ Others(t)
      /\ turn'[t].at = "running" /\ turn'[t].worker = "queued"
      /\ Birth(t)' = Birth(t)
      /\ turn'[t].messages = StateMessages(t) /\ turn'[t].sends = BrowserMessages(t)
  BY StartFacts DEF Prompt
<1>2. UNCHANGED <<disk, lineages, page, content, named>>
  BY DEF Start, affinity
<1>3. Alive(t) /\ ~Sent(t) /\ Alive(t)' /\ turn'[t].history = turn[t].history
  BY <1>1 DEF Alive, Sent, Birth
<1>4. /\ turn[t].messages = History(t) \/ (turn[t].messages = <<>> /\ turn[t].how = "id")
      /\ Text(page) \o BrowserMessages(t) = History(t)
  BY <1>1 DEF Exactly, Pure, PureReady
<1>5. StateMessages(t) = History(t)
  BY <1>1, <1>3, <1>4, MessagesExactly DEF StateMessages, StateLost
<1>6. PureCourse(t)'
  BY <1>1, <1>2, <1>3, <1>4, <1>5 DEF PureCourse, Text, History
<1>7. PureReady(t)' /\ Quiet(t)'
  BY <1>1 DEF PureReady, Quiet
<1>8. LineOrder'
  BY <1>1, <1>2, HistoriesKeptByOthers, LineOrderKept
<1>9. Ancestry'
  BY <1>1, <1>3, AncestryMoved DEF Exactly
<1>10. page' \in named \cup {NoTurn}
  BY <1>2 DEF Exactly, PageNamed
<1>11. QED
  BY <1>1, <1>2, <1>3, <1>6, <1>7, <1>8, <1>9, <1>10, ExactlyKept

(* Undisturbed, a stream ends unanswered only if its prompt was not sent, and *)
(* leaves no worker behind.                                                 *)
LEMMA LeavesUnsent ==
  ASSUME Undisturbed, Faithful, Exactly, NEW t \in Turns, Leaves(t)
  PROVE  ~Sent(t) /\ turn'[t].worker = "none" /\ turn'[t].at \in {"leaving", "ended"}
<1>0. turn \in [Turns -> TurnRecord] /\ "lost_answer" \notin Disturbances
  BY WholeTypes DEF Undisturbed
<1>1. CASE StartFails(t)
  <2>1. turn[t].at = "prepared" /\ turn[t].worker = "none" /\ Moved(t, "ended", turn[t].worker)
    BY <1>0, <1>1, AtEffect DEF StartFails, Faithful, Idle, HandlerSteps
  <2>2. QED
    BY <2>1 DEF Sent, Moved
<1>2. CASE Fail(t)
  <2>1. turn[t].at = "running" /\ turn[t].worker = "failed" /\ Moved(t, "ended", "none")
    BY <1>0, <1>2, BothEffect DEF Fail, HandlerSteps, WorkerSteps
  <2>2. QED
    BY <2>1 DEF Sent, Moved
<1>3. CASE Abort(t)
  <2>1. /\ turn[t].at \in {"prepared", "running"} /\ turn[t].worker \in {"none", "queued"}
        /\ Moved(t, "ended", IF turn[t].worker \in OnThePage THEN turn[t].worker ELSE "none")
    BY <1>0, <1>3, GoneEffect DEF Abort, HandlerSteps
  <2>2. QED
    BY <2>1 DEF Sent, Moved, OnThePage
<1>4. CASE Leave(t)
  <2>1. /\ turn[t].at = "running" /\ turn[t].worker = "queued"
        /\ Moved(t, "leaving", IF turn[t].worker \in OnThePage THEN turn[t].worker ELSE "none")
    BY <1>0, <1>4, GoneEffect DEF Leave, HandlerSteps
  <2>2. QED
    BY <2>1 DEF Sent, Moved, OnThePage
<1>5. CASE Left(t)
  <2>1. turn[t].at = "leaving" /\ turn[t].worker = "none" /\ Moved(t, "ended", turn[t].worker)
    BY <1>0, <1>5, AtEffect DEF Left, Exactly, Pure, Quiet, HandlerSteps
  <2>2. QED
    BY <2>1 DEF Sent, Moved
<1>6. QED
  BY <1>1, <1>2, <1>3, <1>4, <1>5 DEF Leaves

(* A stream that ends without an answer typed nothing. *)
LEMMA ExactLeaves ==
  ASSUME Undisturbed, Faithful, Faithful', Exactly, NEW t \in Turns, \A u \in Turns : u # t => ~Active(u), Leaves(t)
  PROVE  Exactly'
<1>1. /\ turn[t].at \in {"prepared", "running", "leaving"}
      /\ Others(t) /\ Birth(t)' = Birth(t)
      /\ UNCHANGED <<memory, disk, affinity, tab, page, named, content, restarts>>
  <2>1. turn \in [Turns -> TurnRecord] /\ hint \in HintStates
    BY WholeTypes DEF Faithful, Sound, TypeInv
  <2>2. QED
    BY <2>1, LeavesEffect DEF Moved
<1>2. ~Sent(t) /\ turn'[t].worker = "none" /\ turn'[t].at \in {"leaving", "ended"}
  BY LeavesUnsent
<1>3. PureReady(t)' /\ PureCourse(t)' /\ Quiet(t)' /\ ~Alive(t)' /\ turn'[t].history = turn[t].history
  BY <1>1, <1>2 DEF PureReady, PureCourse, Quiet, Alive, Birth
<1>4. Ancestry'
  BY <1>1, <1>2, <1>3, AncestryMoved DEF Exactly
<1>5. LineOrder' /\ lineages' = lineages
  BY <1>1, HistoriesKeptByOthers, LineOrderKept DEF affinity
<1>6. page' \in named \cup {NoTurn}
  BY <1>1 DEF Exactly, PageNamed
<1>7. QED
  BY <1>1, <1>2, <1>3, <1>4, <1>5, <1>6, ExactlyKept

(* A worker works for a running turn, whose hint is set. *)
LEMMA WorkerRuns ==
  ASSUME Whole, Exactly, NEW t \in Turns, turn[t].worker # "none"
  PROVE  /\ turn[t].at = "running" /\ hint # "clear"
         /\ turn[t].worker \in {"queued", "driving", "composing", "sent", "answered", "failed"}
<1>1. turn[t].at \in HandlerSteps
  BY WholeTypes, Fields DEF Whole
<1>2. turn[t].at = "running"
  BY <1>1 DEF Whole, Faithful, Idle, Exactly, Pure, Quiet, HandlerSteps
<1>3. QED
  BY <1>2 DEF Whole, Covered, OnCourse

(* The worker finds the hint and stays on the page. *)
LEMMA ExactDrives ==
  ASSUME Undisturbed, Whole, Whole', Exactly, NEW t \in Turns, \A u \in Turns : u # t => ~Active(u), Drives(t)
  PROVE  Exactly'
<1>0. Faithful /\ Faithful' /\ turn \in [Turns -> TurnRecord]
  BY WholeTypes DEF Whole
<1>1. /\ turn[t].worker # "none"
      /\ \E worker \in WorkerSteps : Moved(t, turn[t].at, worker)
      /\ UNCHANGED <<memory, disk, affinity, hint, named, content, restarts>>
  BY <1>0, DrivesEffect DEF Faithful
<1>2. /\ turn[t].at = "running" /\ hint # "clear"
      /\ turn[t].worker \in {"queued", "driving", "composing", "sent", "answered", "failed"}
  BY <1>1, WorkerRuns
<1>3. /\ page' = page
      /\ \/ turn[t].worker \in {"queued", "driving"} /\ turn'[t].worker \in {"driving", "composing"}
         \/ turn[t].worker = "sent" /\ turn'[t].worker = "answered"
         \/ turn[t].worker # "sent" /\ turn[t].worker # "answered" /\ turn'[t].worker = "failed"
  <2>1. CASE TakeTab(t)
    BY <1>0, <2>1, WorksEffect DEF TakeTab, Moved, WorkerSteps, OnThePage
  <2>2. CASE ReadHint(t)
    BY <1>0, <1>2, <2>2, WorksEffect DEF ReadHint, Moved, WorkerSteps, OnThePage
  <2>3. CASE OpenChat(t)
    BY <1>2, <2>3 DEF OpenChat
  <2>4. CASE Answer(t)
    BY <1>0, <1>2, <2>4, WorksEffect DEF Answer, Moved, WorkerSteps, OnThePage
  <2>5. CASE WorkerStops(t)
    BY <1>0, <1>2, <2>5, WorksEffect DEF WorkerStops, Moved, WorkerSteps, OnThePage, Undisturbed
  <2>6. QED
    BY <2>1, <2>2, <2>3, <2>4, <2>5 DEF Drives
<1>4. /\ Others(t) /\ turn'[t].at = "running" /\ Birth(t)' = Birth(t) /\ turn'[t].history = turn[t].history
      /\ turn'[t].messages = turn[t].messages /\ turn'[t].sends = turn[t].sends /\ turn'[t].found = turn[t].found
  BY <1>1, <1>2 DEF Moved, Birth, Prompt, Sending, Outcome
<1>5. PureCourse(t)
  BY DEF Exactly, Pure
<1>6. PureCourse(t)'
  BY <1>1, <1>2, <1>3, <1>4, <1>5 DEF PureCourse, Text, History, Context
<1>7. PureReady(t)' /\ Quiet(t)' /\ (Alive(t)' => Alive(t)) /\ (Sent(t) => Sent(t)')
  BY <1>2, <1>3, <1>4 DEF PureReady, Quiet, Alive, Sent
<1>8. Ancestry'
  BY <1>0, <1>2, <1>4, <1>7, AncestryMoved DEF Exactly
<1>9. LineOrder' /\ lineages' = lineages
  BY <1>0, <1>1, <1>2, <1>4, HistoriesKeptByOthers, LineOrderKept DEF affinity
<1>10. page' \in named \cup {NoTurn}
  BY <1>3 DEF Exactly, PageNamed
<1>11. QED
  BY <1>0, <1>1, <1>2, <1>4, <1>6, <1>7, <1>8, <1>9, <1>10, ExactlyKept

(* Sending: the conversation on the page, with what is typed, is the        *)
(* transcript.                                                              *)
LEMMA SendsExactly ==
  ASSUME Undisturbed, Whole, Exactly, NEW t \in Turns, Send(t)
  PROVE  \E c \in Turns :
           /\ turn[t].at = "running" /\ turn[t].worker = "composing" /\ ~Sent(t)
           /\ Others(t) /\ turn'[t].at = "running" /\ turn'[t].worker = "sent"
           /\ Birth(t)' = Birth(t) /\ turn'[t].history = turn[t].history
           /\ turn'[t].messages = History(t) /\ Context(t)' = History(t)
           /\ page' = c /\ named' = named \cup {c} /\ c \in named \cup {t}
           /\ content'[c] = History(t) /\ \A d \in Turns : d # c => content'[d] = content[d]
           /\ IsPrefix(content[c], content'[c])
           /\ UNCHANGED <<memory, disk, lineages>>
<1> DEFINE c == IF page = NoTurn THEN t ELSE page
<1>0. Faithful /\ Sound /\ TypeInv
  BY WholeTypes DEF Whole
<1>1. /\ c \in Turns /\ page' = c /\ content'[c] = content[c] \o turn[t].sends
      /\ \A d \in Turns : d # c => content'[d] = content[d]
      /\ UNCHANGED <<memory, disk, lineages>>
  BY <1>0, SendFacts
<1>2. /\ Others(t) /\ turn'[t].at = turn[t].at /\ turn'[t].worker = Then(t, "sent")
      /\ Birth(t)' = Birth(t) /\ Prompt(t)' = Prompt(t) /\ Sending(t)' = Sending(t)
      /\ turn'[t].found = content[c]
  BY <1>0, SendEffect
<1>3. named' = named \cup {c}
  BY DEF Send, Undisturbed
<1>4. c \in named \cup {t} /\ (page # NoTurn => c = page) /\ (page = NoTurn => c = t)
  BY DEF Exactly, PageNamed
<1>5. content[c] = Text(page) \/ (page = NoTurn /\ c = t)
  BY DEF Text
<1> HIDE DEF c
<1>6. turn[t].worker = "composing" /\ turn[t].at = "running" /\ ~Sent(t)
  <2>1. turn[t].worker = "composing"
    BY DEF Send
  <2>2. QED
    BY <2>1, WorkerRuns DEF Sent
<1>7. turn[t].messages = History(t) /\ Text(page) \o turn[t].sends = History(t)
  BY <1>6 DEF Exactly, Pure, PureCourse
<1>8. content[c] = Text(page)
  <2>1. CASE page = NoTurn /\ c = t
    <3>1. content[t] = <<>>
      BY <1>6 DEF Exactly, Tips
    <3>2. QED
      BY <2>1, <3>1 DEF Text
  <2>2. QED
    BY <1>5, <2>1
<1>9. content'[c] = History(t)
  BY <1>1, <1>7, <1>8
<1>10. turn'[t].worker = "sent" /\ turn'[t].messages = History(t) /\ turn'[t].sends = turn[t].sends
       /\ turn'[t].history = turn[t].history
  BY <1>2, <1>6, <1>7 DEF Then, Prompt, Sending, Birth
<1>11. Context(t)' = History(t)
  BY <1>2, <1>7, <1>8, <1>10 DEF Context
<1>12. IsPrefix(content[c], content'[c])
  <2>1. content[c] \in Seq(Turns) /\ turn[t].sends \in Seq(Turns)
    BY <1>0, <1>1, Fields DEF TypeInv
  <2>2. IsPrefix(content[c], content[c])
    BY <2>1, PrefixSelf
  <2>3. QED
    BY <1>1, <2>1, <2>2, PrefixFacts
<1>13. QED
  BY <1>1, <1>2, <1>3, <1>4, <1>6, <1>9, <1>10, <1>11, <1>12

(* The prompt completes the conversation, which grows. *)
LEMMA ExactSend ==
  ASSUME Undisturbed, Whole, Whole', Exactly, NEW t \in Turns, \A u \in Turns : u # t => ~Active(u), Send(t)
  PROVE  Exactly'
<1>0. /\ Faithful /\ Faithful' /\ content \in [Turns -> Seq(Turns)] /\ named \subseteq Turns
  BY WholeTypes DEF Whole, Faithful, Sound, TypeInv
<1>1. PICK c \in Turns :
        /\ turn[t].at = "running" /\ turn[t].worker = "composing" /\ ~Sent(t)
        /\ Others(t) /\ turn'[t].at = "running" /\ turn'[t].worker = "sent"
        /\ Birth(t)' = Birth(t) /\ turn'[t].history = turn[t].history
        /\ turn'[t].messages = History(t) /\ Context(t)' = History(t)
        /\ page' = c /\ named' = named \cup {c} /\ c \in named \cup {t}
        /\ content'[c] = History(t) /\ \A d \in Turns : d # c => content'[d] = content[d]
        /\ IsPrefix(content[c], content'[c])
        /\ UNCHANGED <<memory, disk, lineages>>
  BY SendsExactly
<1>2. Grown
  <2>1. ASSUME NEW d \in Turns PROVE IsPrefix(content[d], content'[d])
    <3>1. content[d] \in Seq(Turns)
      BY <1>0
    <3>2. QED
      BY <1>1, <3>1, PrefixSelf
  <2>2. QED
    BY <2>1 DEF Grown
<1>3. Ancestry'
  <2>1. Alive(t)
    BY <1>1 DEF Alive
  <2>2. QED
    BY <1>0, <1>1, <2>1, AncestryMoved DEF Exactly
<1>4. \A v \in Turns : Pure(v)'
  <2>1. Pure(t)'
    BY <1>1 DEF Pure, PureReady, PureCourse, PureTold, Quiet, History
  <2>2. \A v \in Turns : v # t => Pure(v)'
    BY <1>0, <1>1, <1>2, OthersPure
  <2>3. QED
    BY <2>1, <2>2
<1>5. History(t) # <<>>
  <2>1. Len(History(t)) >= 1
    BY <1>0, <1>1, HistoryFacts
  <2>2. QED
    BY <2>1
<1>6. PageNamed'
  <2>1. ASSUME NEW d \in named' PROVE content'[d] # <<>>
    <3>1. CASE d = c
      BY <1>1, <1>5, <3>1
    <3>2. CASE d # c
      <4>1. d \in named /\ d \in Turns
        BY <1>0, <1>1, <2>1, <3>2
      <4>2. QED
        BY <1>1, <3>2, <4>1 DEF Exactly, PageNamed
    <3>3. QED
      BY <3>1, <3>2
  <2>2. QED
    BY <1>1, <2>1 DEF PageNamed
<1>7. \A q \in Turns : Sent(q) => Sent(q)' /\ turn'[q].history = turn[q].history
  BY <1>0, <1>1, SentKept
<1>8. Tips'
  <2>1. Sent(t)'
    BY <1>1 DEF Sent
  <2>2. Sent(c)'
    <3>1. CASE c \in named
      <4>1. content[c] # <<>>
        BY <3>1 DEF Exactly, PageNamed
      <4>2. Sent(c)
        BY <4>1 DEF Exactly, Tips
      <4>3. QED
        BY <1>7, <4>2
    <3>2. QED
      BY <1>1, <2>1, <3>1
  <2>3. ASSUME NEW d \in Turns, content'[d] # <<>>
        PROVE  Sent(d)' /\ \E p \in Turns : Sent(p)' /\ content'[d] = turn'[p].history
    <3>1. CASE d = c
      BY <1>1, <2>1, <2>2, <3>1 DEF History
    <3>2. CASE d # c
      <4>1. content'[d] = content[d]
        BY <1>1, <3>2
      <4>2. Sent(d) /\ \E p \in Turns : Sent(p) /\ content[d] = History(p)
        BY <2>3, <4>1 DEF Exactly, Tips
      <4>3. QED
        BY <1>7, <4>1, <4>2 DEF History
    <3>3. QED
      BY <3>1, <3>2
  <2>4. QED
    BY <2>3 DEF Tips, History
<1>9. LineOrder'
  BY <1>0, <1>1, HistoriesKeptByOthers, LineOrderKept
<1>10. TipListed'
  <2>1. SUFFICES ASSUME NEW u \in ToSet(lineages), NEW p \in Turns,
                        turn'[p].at = "done", content'[turn'[u].bound] = turn'[p].history
                 PROVE  p \in ToSet(lineages)
    BY <1>1 DEF TipListed, History
  <2>2. u \in Turns /\ turn[u].at = "done" /\ turn[u].bound \in Turns
    BY <1>0, BoundFacts
  <2>3. turn'[u] = turn[u] /\ p # t
    BY <1>1, <2>1, <2>2 DEF Others
  <2>4. turn'[p] = turn[p]
    BY <1>1, <2>3 DEF Others
  <2>5. turn[u].bound # c
    <3>1. SUFFICES ASSUME turn[u].bound = c PROVE FALSE
      OBVIOUS
    <3>2. History(t) = History(p)
      BY <1>1, <2>1, <2>3, <2>4, <3>1 DEF History
    <3>3. turn[t].at # "unborn" /\ turn[p].at # "unborn"
      BY <1>1, <2>1, <2>4
    <3>4. QED
      BY <1>0, <2>3, <3>2, <3>3, HistoryNames
  <2>6. QED
    BY <1>1, <2>1, <2>2, <2>3, <2>4, <2>5 DEF Exactly, TipListed, History
<1>11. QED
  BY <1>3, <1>4, <1>6, <1>8, <1>9, <1>10 DEF Exactly

(* A turn that completes was told its transcript and is bound to the page, *)
(* which shows just that.                                                   *)
LEMMA CompletesExactly ==
  ASSUME Undisturbed, Whole, Exactly, NEW t \in Turns, Complete(t)
  PROVE  /\ turn[t].at = "running" /\ Sent(t) /\ Others(t)
         /\ turn'[t].at = "done" /\ turn'[t].worker = "none"
         /\ Birth(t)' = Birth(t) /\ turn'[t].history = turn[t].history
         /\ turn'[t].messages = History(t) /\ Context(t)' = History(t)
         /\ turn'[t].bound = page /\ turn'[t].boundAt = Cardinality(At("done")) + 1
         /\ page \in Turns /\ page \in named /\ content[page] = History(t)
         /\ disk'[t] = History(t) /\ \A u \in Turns : u # t => disk'[u] = disk[u]
         /\ lineages' = Append(lineages, t)
         /\ UNCHANGED <<page, named, content>>
<1>0. Faithful /\ Sound /\ TypeInv /\ turn \in [Turns -> TurnRecord] /\ disk \in [Turns -> Seq(Turns)]
      /\ "disk_lost" \notin Disturbances
  BY WholeTypes DEF Whole, TypeInv, Undisturbed
<1>1. /\ turn[t].at = "running" /\ turn[t].worker = "answered" /\ Others(t)
      /\ turn'[t].at = "done" /\ turn'[t].worker = "none"
      /\ Birth(t)' = Birth(t) /\ Prompt(t)' = Prompt(t) /\ turn'[t].sends = turn[t].sends
      /\ turn'[t].found = turn[t].found /\ turn'[t].bound = BoundPath(t)
      /\ UNCHANGED <<page, content>>
  BY <1>0, CompleteFacts
<1>2. page \in Turns /\ content[page] = Context(t)
  BY <1>1 DEF Whole, Covered, OnCourse
<1>3. turn[t].messages = History(t) /\ Context(t) = History(t)
  BY <1>1 DEF Exactly, Pure, PureCourse
<1>4. page \in named /\ page # NoTurn
  BY <1>0, <1>2, WholeTypes DEF Exactly, PageNamed
<1>5. BoundPath(t) = page
  BY <1>4 DEF BoundPath, ShownPath
<1>6. /\ lineages' = Append(lineages, t) /\ named' = named
      /\ disk' = [disk EXCEPT ![t] = Snapshot(t)]
  BY <1>0, <1>4, <1>5 DEF Complete
<1>7. turn'[t].boundAt = Cardinality(At("done")) + 1
  <2>1. turn' = [turn EXCEPT ![t].at = "done", ![t].worker = "none",
                             ![t].bound = BoundPath(t), ![t].boundAt = Cardinality(At("done")) + 1]
    BY DEF Complete
  <2>2. turn[t] \in TurnRecord
    BY <1>0
  <2>3. QED
    BY <1>0, <2>1, <2>2 DEF TurnRecord
<1>8. disk'[t] = History(t) /\ \A u \in Turns : u # t => disk'[u] = disk[u]
  BY <1>0, <1>3, <1>6 DEF Snapshot
<1>9. turn'[t].messages = History(t) /\ Context(t)' = History(t) /\ turn'[t].history = turn[t].history
  BY <1>1, <1>3 DEF Context, Prompt, Birth
<1>10. QED
  BY <1>1, <1>2, <1>3, <1>4, <1>5, <1>6, <1>7, <1>8, <1>9 DEF Sent

(* A turn that completes is bound to the page it was answered on. *)
LEMMA ExactComplete ==
  ASSUME Undisturbed, Whole, Whole', Exactly, NEW t \in Turns, \A u \in Turns : u # t => ~Active(u), Complete(t)
  PROVE  Exactly'
<1>0. /\ Faithful /\ Faithful' /\ content \in [Turns -> Seq(Turns)] /\ lineages \in Seq(Turns)
  BY WholeTypes DEF Whole
<1>1. /\ turn[t].at = "running" /\ Sent(t) /\ Others(t)
      /\ turn'[t].at = "done" /\ turn'[t].worker = "none"
      /\ Birth(t)' = Birth(t) /\ turn'[t].history = turn[t].history
      /\ turn'[t].messages = History(t) /\ Context(t)' = History(t)
      /\ turn'[t].bound = page /\ turn'[t].boundAt = Cardinality(At("done")) + 1
      /\ page \in Turns /\ page \in named /\ content[page] = History(t)
      /\ disk'[t] = History(t) /\ \A u \in Turns : u # t => disk'[u] = disk[u]
      /\ lineages' = Append(lineages, t)
      /\ UNCHANGED <<page, named, content>>
  BY CompletesExactly
<1>2. Grown
  BY <1>0, <1>1, PrefixSelf DEF Grown
<1>3. Ancestry'
  <2>1. Alive(t)
    BY <1>1 DEF Alive
  <2>2. QED
    BY <1>0, <1>1, <2>1, AncestryMoved DEF Exactly
<1>4. Cardinality(At("done")) \in Nat /\ Cardinality(At("done")') = Cardinality(At("done")) + 1
  <2>1. IsFiniteSet(At("done")) /\ t \notin At("done")
    BY <1>1, TurnAssumption, FS_Subset DEF TurnAssumption, At
  <2>2. At("done")' = At("done") \cup {t}
    BY <1>1 DEF At, Others
  <2>3. QED
    BY <2>1, <2>2, FS_AddElement, FS_CardinalityType
<1>5. ASSUME NEW a \in ToSet(History(t)), a # t
      PROVE  turn'[a].boundAt < turn'[t].boundAt
  <2>1. a \in Turns /\ turn[a].at = "done" /\ turn'[a] = turn[a]
    BY <1>0, <1>1, <1>5, AncestorPrefix DEF Exactly, Others
  <2>2. turn[a].boundAt <= Cardinality(At("done")) /\ turn[a].boundAt \in Nat
    BY <1>0, <2>1, WholeTypes, Fields DEF Exactly, Pure, PureTold
  <2>3. QED
    BY <1>1, <1>4, <2>1, <2>2
<1>6. PureTold(t)'
  <2>1. History(t) \in Seq(Turns)
    BY <1>0, <1>1, HistoryFacts
  <2>2. IsPrefix(History(t), content[page])
    BY <1>1, <2>1, PrefixSelf
  <2>3. turn'[t].boundAt <= Cardinality(At("done")')
    BY <1>1, <1>4
  <2>4. turn'[t].history = History(t)
    BY <1>1 DEF History
  <2>5. QED
    BY <1>1, <1>5, <2>2, <2>3, <2>4 DEF PureTold, History
<1>7. \A v \in Turns : Pure(v)'
  <2>1. Pure(t)'
    BY <1>1, <1>6 DEF Pure, PureReady, PureCourse, Quiet
  <2>2. \A v \in Turns : v # t => Pure(v)'
    BY <1>0, <1>1, <1>2, OthersPure
  <2>3. QED
    BY <2>1, <2>2
<1>8. PageNamed'
  BY <1>1 DEF Exactly, PageNamed
<1>9. Tips'
  <2>1. Sent(t)'
    BY <1>1 DEF Sent
  <2>2. QED
    BY <1>0, <1>1, <2>1, SentKept, TipsKept DEF Exactly
<1>10. ToSet(lineages') = ToSet(lineages) \cup {t}
  BY <1>0, <1>1, ToSetAppend
<1>11. LineOrder'
  <2> DEFINE n == Len(lineages)
  <2>1. /\ n \in Nat /\ Len(lineages') = n + 1 /\ lineages'[n + 1] = t
        /\ \A i \in 1..n : lineages'[i] = lineages[i]
    BY <1>0, <1>1, AppendProperties
  <2>2. \A i \in 1..n : /\ lineages[i] \in Turns /\ turn[lineages[i]].at = "done"
                        /\ turn'[lineages[i]].history = turn[lineages[i]].history
    <3>1. ASSUME NEW i \in 1..n PROVE lineages[i] \in ToSet(lineages)
      BY <1>0, <3>1 DEF ToSet
    <3>2. QED
      BY <1>0, <1>1, <3>1, BoundFacts DEF Others
  <2> HIDE DEF n
  <2>3. ASSUME NEW i \in 1..(n + 1), NEW j \in 1..(n + 1), i < j
        PROVE  ~IsStrictPrefix(turn'[lineages'[j]].history, turn'[lineages'[i]].history)
    <3>1. i \in 1..n /\ lineages'[i] = lineages[i]
      BY <2>1, <2>3
    <3>2. CASE j = n + 1
      <4>1. ~IsPrefix(History(t), History(lineages[i]))
        <5>1. t # lineages[i] /\ turn[t].at \notin {"unborn", "done"} /\ turn[lineages[i]].at # "unborn"
          BY <1>1, <2>2, <3>1
        <5>2. QED
          BY <1>0, <2>2, <3>1, <5>1, Ancestor DEF Exactly
      <4>2. QED
        BY <1>1, <2>1, <2>2, <3>1, <3>2, <4>1 DEF IsStrictPrefix, History
    <3>3. CASE j # n + 1
      <4>1. j \in 1..n /\ lineages'[j] = lineages[j]
        BY <2>1, <2>3, <3>3
      <4>2. ~IsStrictPrefix(turn[lineages[j]].history, turn[lineages[i]].history)
        BY <2>3, <3>1, <4>1 DEF Exactly, LineOrder, History, n
      <4>3. QED
        BY <2>2, <3>1, <4>1, <4>2
    <3>4. QED
      BY <3>2, <3>3
  <2>4. QED
    BY <2>1, <2>3 DEF LineOrder, History
<1>12. TipListed'
  <2>1. SUFFICES ASSUME NEW u \in ToSet(lineages) \cup {t}, NEW p \in Turns,
                        turn'[p].at = "done", content[turn'[u].bound] = turn'[p].history
                 PROVE  p \in ToSet(lineages) \cup {t}
    BY <1>1, <1>10 DEF TipListed, History
  <2>2. CASE p = t
    BY <2>2
  <2>3. CASE p # t /\ u = t
    <3>1. History(t) = History(p) /\ turn[p].at = "done"
      BY <1>1, <2>1, <2>3 DEF History, Others
    <3>2. QED
      BY <1>0, <1>1, <2>3, <3>1, HistoryNames
  <2>4. CASE p # t /\ u # t
    <3>1. u \in ToSet(lineages) /\ u \in Turns
      BY <1>0, <2>1, <2>4, BoundFacts
    <3>2. turn'[u] = turn[u] /\ turn'[p] = turn[p]
      BY <1>1, <2>4, <3>1 DEF Others
    <3>3. QED
      BY <2>1, <3>1, <3>2 DEF Exactly, TipListed, History
  <2>5. QED
    BY <2>2, <2>3, <2>4
<1>13. QED
  BY <1>3, <1>7, <1>8, <1>9, <1>11, <1>12 DEF Exactly

(* What a prepared turn still needs of memory is there or is missed at the  *)
(* start of its stream.                                                     *)
LEMMA ReadyForgotten ==
  ASSUME Faithful, NEW v \in Turns, PureReady(v), UNCHANGED <<turn, page, content>>,
         \A u \in Turns : memory'[u] \in {memory[u], <<>>}
  PROVE  PureReady(v)'
<1>1. SUFFICES ASSUME turn[v].at = "prepared" PROVE PureReady(v)'
  BY DEF PureReady
<1>2. SUFFICES ASSUME ~StateLost(v)' PROVE Text(page) \o BrowserMessages(v)' = History(v)
  BY <1>1 DEF PureReady, Text, History
<1>3. turn[v].messages = <<>> => turn[v].parent \in Turns
  BY <1>1 DEF Faithful, Sound, Stored, Fit
<1>4. turn[v].messages = <<>> => memory'[turn[v].parent] = memory[turn[v].parent] /\ memory[turn[v].parent] # <<>>
  BY <1>2, <1>3 DEF StateLost
<1>5. ~StateLost(v) /\ StateMessages(v)' = StateMessages(v)
  BY <1>4 DEF StateLost, StateMessages
<1>6. BrowserMessages(v)' = BrowserMessages(v)
  BY <1>5 DEF BrowserMessages
<1>7. QED
  BY <1>1, <1>5, <1>6 DEF PureReady

(* Of the lineages one is forgotten only before those that extend it.       *)
LEMMA LineagesForgotten ==
  ASSUME Faithful, Exactly, NEW t \in Turns, ForgetLineage(t)
  PROVE  LineOrder' /\ TipListed'
<1>0. lineages \in Seq(Turns) /\ UNCHANGED <<turn, content>>
  BY WholeTypes DEF ForgetLineage
<1>1. PICK k \in DOMAIN lineages :
        /\ lineages[k] = t
        /\ k = 1 \/ \A u \in ToSet(lineages) : turn[t].boundAt <= turn[u].boundAt
        /\ lineages' = RemoveAt(lineages, k)
  BY DEF ForgetLineage
<1> DEFINE n == Len(lineages)
<1>2. k \in 1..n /\ n \in Nat /\ DOMAIN lineages = 1..n
  BY <1>0, <1>1
<1>3. /\ lineages' \in Seq(Turns) /\ Len(lineages') = n - 1
      /\ \A j \in 1..(n - 1) : lineages'[j] = IF j < k THEN lineages[j] ELSE lineages[j + 1]
      /\ ToSet(lineages') \subseteq ToSet(lineages)
  BY <1>0, <1>1, <1>2, RemoveAtFacts
<1>4. \A i, j \in 1..n : i < j => ~IsStrictPrefix(turn[lineages[j]].history, turn[lineages[i]].history)
  BY DEF Exactly, LineOrder, History
<1> HIDE DEF n
<1>5. LineOrder'
  <2>1. ASSUME NEW i \in 1..(n - 1), NEW j \in 1..(n - 1), i < j
        PROVE  ~IsStrictPrefix(turn[lineages'[j]].history, turn[lineages'[i]].history)
    <3>1. PICK a \in 1..n : lineages'[i] = lineages[a] /\ (IF i < k THEN a = i ELSE a = i + 1)
      BY <1>2, <1>3
    <3>2. PICK b \in 1..n : lineages'[j] = lineages[b] /\ (IF j < k THEN b = j ELSE b = j + 1)
      BY <1>2, <1>3
    <3>3. a < b
      BY <1>2, <2>1, <3>1, <3>2
    <3>4. QED
      BY <1>4, <3>1, <3>2, <3>3
  <2>2. QED
    BY <1>0, <1>3, <2>1 DEF LineOrder, History
<1>6. \A u \in ToSet(lineages) : u # t => u \in ToSet(lineages')
  <2>1. ASSUME NEW j \in 1..n, j # k PROVE lineages[j] \in ToSet(lineages')
    <3>1. DOMAIN lineages' = 1..(n - 1)
      BY <1>3
    <3>2. CASE j < k
      <4>1. j \in 1..(n - 1) /\ lineages'[j] = lineages[j]
        BY <1>2, <1>3, <3>2
      <4>2. QED
        BY <3>1, <4>1 DEF ToSet
    <3>3. CASE j > k
      <4>1. j - 1 \in 1..(n - 1) /\ ~(j - 1 < k) /\ (j - 1) + 1 = j
        BY <1>2, <3>3
      <4>2. lineages'[j - 1] = lineages[j]
        BY <1>3, <4>1
      <4>3. QED
        BY <3>1, <4>1, <4>2 DEF ToSet
    <3>4. QED
      BY <1>2, <2>1, <3>2, <3>3
  <2>2. QED
    BY <1>1, <1>2, <2>1 DEF ToSet
<1>7. TipListed'
  <2>1. SUFFICES ASSUME NEW u \in ToSet(lineages'), NEW p \in Turns,
                        turn[p].at = "done", content[turn[u].bound] = History(p)
                 PROVE  p \in ToSet(lineages')
    BY <1>0 DEF TipListed, History
  <2>2. u \in ToSet(lineages) /\ p \in ToSet(lineages) /\ u \in Turns /\ turn[u].at = "done"
    BY <1>3, <2>1, BoundFacts DEF Exactly, TipListed
  <2>3. CASE p # t
    BY <1>6, <2>2, <2>3
  <2>4. CASE p = t /\ u = t
    BY <2>1, <2>4
  <2>5. CASE p = t /\ u # t
    <3>1. IsPrefix(History(u), History(t))
      BY <2>1, <2>2, <2>5 DEF Exactly, Pure, PureTold
    <3>2. u \in ToSet(History(t)) /\ turn[t].at = "done"
      BY <2>1, <2>2, <2>5, <3>1, Ancestor DEF Exactly
    <3>3. turn[u].boundAt < turn[t].boundAt
      BY <2>5, <3>2 DEF Exactly, Pure, PureTold
    <3>4. turn[u].boundAt \in Nat /\ turn[t].boundAt \in Nat
      BY <2>2, WholeTypes, Fields
    <3>5. k = 1
      BY <1>1, <2>2, <3>3, <3>4
    <3>6. PICK j \in 1..n : u = lineages[j]
      BY <1>2, <2>2 DEF ToSet
    <3>7. k < j
      BY <1>1, <1>2, <2>5, <3>5, <3>6
    <3>8. ~IsStrictPrefix(History(u), History(t))
      BY <1>1, <1>2, <1>4, <3>6, <3>7 DEF History
    <3>9. History(u) = History(t)
      BY <3>1, <3>8 DEF IsStrictPrefix
    <3>10. QED
      BY <2>2, <2>5, <3>2, <3>9, HistoryNames
  <2>6. QED
    BY <2>3, <2>4, <2>5
<1>8. QED
  BY <1>5, <1>7

(* What expires is never needed: something else is there to fall back on. *)
LEMMA ExactForget ==
  ASSUME Undisturbed, Faithful, Exactly, NEW t \in Turns, Forget(t)
  PROVE  Exactly'
<1>1. /\ UNCHANGED <<turn, hint, tab, page, named, content, restarts>>
      /\ \A u \in Turns : memory'[u] \in {memory[u], <<>>}
  BY ForgetFacts DEF Faithful
<1>2. disk' = disk
  BY DEF Forget, ForgetResponse, ForgetBinding, ForgetLineage, PruneSnapshot, Undisturbed
<1>3. LineOrder' /\ TipListed'
  <2>1. CASE ForgetLineage(t)
    BY <2>1, LineagesForgotten
  <2>2. CASE ~ForgetLineage(t)
    <3>1. lineages' = lineages
      BY <2>2 DEF Forget, ForgetResponse, ForgetBinding, PruneSnapshot, Undisturbed, affinity
    <3>2. QED
      BY <1>1, <3>1 DEF Exactly, LineOrder, TipListed, History
  <2>3. QED
    BY <2>1, <2>2
<1>4. \A v \in Turns : Pure(v)'
  <2>1. SUFFICES ASSUME NEW v \in Turns PROVE Pure(v)'
    OBVIOUS
  <2>2. PureReady(v)'
    BY <1>1, ReadyForgotten DEF Exactly, Pure
  <2>3. PureCourse(v)'
    BY <1>1 DEF Exactly, Pure, PureCourse, Text, History, Context
  <2>4. PureTold(v)'
    BY <1>1, <1>2 DEF Exactly, Pure, PureTold, History, Context, At
  <2>5. Quiet(v)'
    BY <1>1 DEF Exactly, Pure, Quiet
  <2>6. QED
    BY <2>2, <2>3, <2>4, <2>5 DEF Pure
<1>5. Ancestry'
  BY <1>1 DEF Exactly, Ancestry, ChainOf, Related, Alive, History
<1>6. PageNamed' /\ Tips'
  BY <1>1 DEF Exactly, PageNamed, Tips, Sent, History
<1>7. QED
  BY <1>3, <1>4, <1>5, <1>6 DEF Exactly

(* A restart keeps the page, what was typed and the snapshots on disk. *)
LEMMA ExactRestart ==
  ASSUME Undisturbed, Faithful, Exactly, Restart
  PROVE  Exactly'
<1>1. /\ \A u \in Turns :
           /\ turn'[u].worker = "none"
           /\ turn'[u].at = IF turn[u].at \in {"called", "prepared", "running", "leaving"} THEN "ended" ELSE turn[u].at
           /\ Birth(u)' = Birth(u) /\ Prompt(u)' = Prompt(u) /\ Sending(u)' = Sending(u) /\ Outcome(u)' = Outcome(u)
  BY RestartEffect DEF Faithful, Sound
<1>2. /\ \A u \in Turns : turn[u].worker \in {"none", "queued"}
      /\ lineages' = <<>> /\ UNCHANGED <<disk, page, named, content>>
  BY DEF Restart, Undisturbed
<1>3. \A u \in Turns :
        /\ turn'[u].history = turn[u].history /\ turn'[u].messages = turn[u].messages /\ turn'[u].sends = turn[u].sends
        /\ turn'[u].found = turn[u].found /\ turn'[u].bound = turn[u].bound /\ turn'[u].boundAt = turn[u].boundAt
  BY <1>1 DEF Birth, Prompt, Sending, Outcome
<1>4. \A u \in Turns :
        /\ turn'[u].at \in {"unborn", "done", "ended"} \/ turn[u].at \notin HandlerSteps
        /\ turn'[u].at = "done" <=> turn[u].at = "done"
        /\ turn'[u].at # "unborn" => turn[u].at # "unborn"
        /\ Alive(u)' => Alive(u)
        /\ Sent(u) => turn[u].at = "done"
  BY <1>1, <1>2 DEF Alive, Sent, HandlerSteps
<1>5. Ancestry'
  <2>1. \A u \in Turns : turn[u].at # "unborn" => History(u) \in Seq(Turns)
    BY HistoryFacts
  <2>2. \A u \in Turns : /\ History(u)' = History(u)
                         /\ turn[u].at = "done" => turn'[u].at = "done"
                         /\ turn'[u].at # "unborn" => turn[u].at # "unborn"
                         /\ Alive(u)' => Alive(u)
    BY <1>3, <1>4 DEF History
  <2>3. QED
    BY <2>1, <2>2, AncestryKept DEF Exactly
<1>6. ASSUME NEW v \in Turns PROVE Pure(v)'
  <2>1. turn[v].at \in HandlerSteps
    BY WholeTypes, Fields
  <2>2. PureReady(v)' /\ PureCourse(v)' /\ Quiet(v)'
    BY <1>1, <1>4, <2>1 DEF PureReady, PureCourse, Quiet
  <2>3. PureTold(v)'
    <3>1. SUFFICES ASSUME turn[v].at = "done" PROVE PureTold(v)'
      BY <1>4 DEF PureTold
    <3>2. PureTold(v)
      BY DEF Exactly, Pure
    <3>3. At("done")' = At("done")
      BY <1>4 DEF At
    <3>4. \A a \in ToSet(History(v)) : a # v => turn'[a].boundAt = turn[a].boundAt
      BY <1>3, <3>1, AncestorPrefix DEF Exactly
    <3>5. QED
      BY <1>2, <1>3, <3>1, <3>2, <3>3, <3>4 DEF PureTold, History, Context
  <2>4. QED
    BY <2>2, <2>3 DEF Pure
<1>7. PageNamed'
  BY <1>2 DEF Exactly, PageNamed
<1>8. Tips'
  <2>1. \A q \in Turns : Sent(q) => Sent(q)' /\ turn'[q].history = turn[q].history
    BY <1>3, <1>4 DEF Sent
  <2>2. QED
    BY <1>2, <2>1, TipsKept DEF Exactly
<1>9. ToSet(lineages') = {} /\ Len(lineages') = 0
  BY <1>2 DEF ToSet
<1>10. LineOrder' /\ TipListed'
  BY <1>9 DEF LineOrder, TipListed
<1>11. QED
  BY <1>5, <1>6, <1>7, <1>8, <1>10 DEF Exactly

(* A stutter changes nothing. *)
LEMMA ExactStill ==
  ASSUME Exactly, UNCHANGED vars
  PROVE  Exactly'
<1>1. UNCHANGED <<turn, memory, disk, lineages, page, named, content>>
  BY DEF vars, affinity
<1>2. Ancestry'
  BY <1>1 DEF Exactly, Ancestry, ChainOf, Related, Alive, History
<1>3. ASSUME NEW v \in Turns PROVE Pure(v)'
  <2>1. PureReady(v)'
    BY <1>1 DEF Exactly, Pure, PureReady, StateLost, Text, BrowserMessages, StateMessages, History
  <2>2. PureCourse(v)' /\ PureTold(v)' /\ Quiet(v)'
    BY <1>1 DEF Exactly, Pure, PureCourse, PureTold, Quiet, Text, History, Context, At
  <2>3. QED
    BY <2>1, <2>2 DEF Pure
<1>4. PageNamed' /\ Tips' /\ LineOrder' /\ TipListed'
  BY <1>1 DEF Exactly, PageNamed, Tips, Sent, LineOrder, TipListed, History
<1>5. QED
  BY <1>2, <1>3, <1>4 DEF Exactly

(* At first there is nothing to be exact about. *)
LEMMA ExactInit == Init => Exactly
<1> SUFFICES ASSUME Init PROVE Exactly
  OBVIOUS
<1>1. \A t \in Turns : turn[t].at = "unborn"
  BY DEF Init, Unborn
<1>2. Ancestry
  BY <1>1 DEF Ancestry, ChainOf, Alive
<1>3. \A t \in Turns : Pure(t)
  BY <1>1 DEF Pure, PureReady, PureCourse, PureTold, Quiet
<1>4. PageNamed /\ Tips
  BY DEF Init, PageNamed, Tips
<1>5. Len(lineages) = 0 /\ ToSet(lineages) = {}
  BY DEF Init, ToSet
<1>6. LineOrder /\ TipListed
  BY <1>5 DEF LineOrder, TipListed
<1>7. QED
  BY <1>2, <1>3, <1>4, <1>6 DEF Exactly

(* Exactly is inductive, given Whole. *)
LEMMA ExactNext ==
  ASSUME Undisturbed, Whole, Whole', Exactly, [Next]_vars
  PROVE  Exactly'
<1>0. Faithful /\ Faithful' /\ Alone
  BY DEF Whole
<1>1. OneAtATime
  BY DEF Undisturbed, OneAtATime
<1>2. ASSUME NEW t \in Turns, Handler(t) \/ Worker(t) PROVE Exactly'
  <2>1. \A u \in Turns : u # t => ~Active(u)
    BY <1>0, <1>1, <1>2, ActorIsAlone
  <2>2. CASE Call(t)
    BY <1>0, <2>1, <2>2, ExactCall
  <2>3. CASE PrepareReuse(t)
    BY <1>0, <2>1, <2>3, ExactReuse
  <2>4. CASE PrepareLineage(t)
    BY <1>0, <2>1, <2>4, ExactLineage
  <2>5. CASE PrepareFresh(t)
    BY <1>0, <2>1, <2>5, ExactFresh
  <2>6. CASE PrepareDegraded(t)
    <3>1. turn[t].at = "called" /\ ~Hydrates(t)
      BY <2>6 DEF PrepareDegraded, Undisturbed
    <3>2. QED
      BY <1>0, <3>1, HydratedExactly
  <2>7. CASE PrepareFails(t)
    BY <1>0, <2>1, <2>7, ExactPrepareFails
  <2>8. CASE Start(t)
    BY <1>0, <2>1, <2>8, ExactStart
  <2>9. CASE Complete(t)
    BY <2>1, <2>9, ExactComplete
  <2>10. CASE Leaves(t)
    BY <1>0, <2>1, <2>10, ExactLeaves
  <2>11. CASE Drives(t)
    BY <2>1, <2>11, ExactDrives
  <2>12. CASE Send(t)
    BY <2>1, <2>12, ExactSend
  <2>13. QED
    BY <1>2, <2>2, <2>3, <2>4, <2>5, <2>6, <2>7, <2>8, <2>9, <2>10, <2>11, <2>12
       DEF Handler, Worker, Prepare, Leaves, Drives
<1>3. ASSUME NEW t \in Turns, Forget(t) PROVE Exactly'
  BY <1>0, <1>3, ExactForget
<1>4. CASE ShowPath
  BY <1>4 DEF ShowPath, Exactly, PageNamed
<1>5. CASE Restart
  BY <1>0, <1>5, ExactRestart
<1>6. CASE UNCHANGED vars
  BY <1>6, ExactStill
<1>7. QED
  BY <1>2, <1>3, <1>4, <1>5, <1>6 DEF Next

(* A turn that was sent, or told, has its transcript for a context. *)
LEMMA ExactlyIsExact == Exactly => ExactContext
<1> SUFFICES ASSUME Exactly, NEW t \in Turns, Sent(t) PROVE Context(t) = turn[t].history
  BY DEF ExactContext
<1>1. QED
  BY DEF Sent, Exactly, Pure, PureCourse, PureTold, History

(* For any number of turns, one at a time, whatever expires and however     *)
(* often the bridge restarts: what ChatGPT reads when it answers a turn is  *)
(* the transcript of its client, once, in order, and nothing else.          *)
(* Affinity, its fallbacks and the snapshots are invisible.                 *)
THEOREM ContextIsExact == ASSUME Undisturbed PROVE Spec => []ExactContext
<1>1. Undisturbed => OneAtATime
  BY DEF Undisturbed, OneAtATime
<1>2. Init => Whole /\ Exactly
  BY WholeInit, ExactInit
<1>3. Whole /\ Exactly /\ [Next]_vars => (Whole /\ Exactly)'
  BY <1>1, WholeNext, ExactNext
<1>4. Whole /\ Exactly => ExactContext
  BY ExactlyIsExact
<1>5. QED
  BY <1>2, <1>3, <1>4, PTL DEF Spec
=============================================================================
