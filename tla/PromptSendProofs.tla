-------------------------- MODULE PromptSendProofs --------------------------
(* What holds of the sends for any number of tabs, any backoff and any      *)
(* number of retries, interrupts, cancellations and faults.                 *)
(*                                                                         *)
(* The invariant speaks of one tab at a time, and of the cooldown all tabs  *)
(* share: its parts are operators of a tab's values (k its kind, s its      *)
(* sender, p its page, x its excuses, l the cooldown left).                 *)
EXTENDS PromptSend, TLAPS

(* What is remembered fits the place: what clicked is past the send step.   *)
Placed(k, s) ==
  /\ s.at \in {"cooling", "idling", "acting"} => s.step # "wait" /\ ~s.dispatched
  /\ s.at \in {"observing", "retrying"} => s.step = "send" /\ s.dispatched
  /\ s.at = "begin" /\ s.step # "wait" => ~s.dispatched
  /\ s.at = "waiting" => s.step = "wait"
  /\ s.at = "retrying" => s.retries < MaxRetries /\ (k.stealth => k.images)

(* Nothing is taken before the click, at most one message by a click.       *)
Counted(k, s, p, x) ==
  /\ ~s.dispatched => p.taken = 0
  /\ p.taken <= s.retries + 2
  /\ \/ p.taken <= 1
     \/ k = [stealth |-> TRUE, images |-> TRUE]
     \/ x \cap {"raised", "resent"} # {}

(* What the page shows has a cause: a message taken, or somebody else.      *)
Caused(s, p, x) ==
  /\ p.indicator = "own" => p.taken > 0
  /\ p.indicator = "stray" => "shown" \in x
  /\ p.indicator = "old" /\ s.at \in {"acting", "observing", "retrying"} => "shown" \in x
  /\ s.at \in {"cooling", "idling", "acting", "observing", "retrying"}
       /\ s.before /\ p.composer = "empty" => p.taken > 0 \/ "touched" \in x
  /\ s.confirmed => p.taken > 0 \/ s.heard \/ x \cap {"touched", "shown"} # {}

(* A sender that knows of the cooldown waits for all of it.                 *)
Told(s, x, l) ==
  x \cap {"newer", "unread"} = {} =>
    /\ s.at = "cooling" => l <= s.timer
    /\ s.at \in {"idling", "acting"} => l = 0

Returned(k, s, p) ==
  s.at = "over" /\ s.noted /\ ~s.dispatched /\ ~k.images => p.composer # "own"

Good(k, s, p, x, l) ==
  /\ k \in Kinds /\ s \in Sender /\ p \in Page /\ x \in SUBSET Excuses
  /\ Placed(k, s) /\ Counted(k, s, p, x) /\ Caused(s, p, x)
  /\ Told(s, x, l) /\ Returned(k, s, p)

Limits == [left : 0..Longest, hits : 0..Len(Backoff), age : 0..(Window + 1)]

IInv ==
  /\ kind \in [Senders -> Kinds]
  /\ sender \in [Senders -> Sender]
  /\ page \in [Senders -> Page]
  /\ excuse \in [Senders -> SUBSET Excuses]
  /\ limit \in Limits
  /\ interrupt \in [Senders -> BOOLEAN]
  /\ cancelled \in [Senders -> BOOLEAN]
  /\ events \in 0..MaxEvents
  /\ \A t \in Senders : Good(kind[t], sender[t], page[t], excuse[t], limit.left)

-----------------------------------------------------------------------------
(* The shared cooldown.                                                     *)

LEMMA LongestIsLongest ==
  /\ Longest \in Nat
  /\ Len(Backoff) \in Nat \ {0}
  /\ \A i \in 1..Len(Backoff) : Backoff[i] \in 0..Longest
BY SendAssumption DEF SendAssumption, Longest

(* A hit never shortens the cooldown, and no cooldown exceeds the longest.  *)
LEMMA RecordedExtends ==
  ASSUME limit \in Limits
  PROVE  Recorded \in Limits /\ limit.left <= Recorded.left
<1> DEFINE hits == IF limit.age > Window THEN 1 ELSE Min2(limit.hits + 1, Len(Backoff))
<1>1. Window \in Nat BY SendAssumption DEF SendAssumption
<1>2. hits \in 1..Len(Backoff)
  BY <1>1, LongestIsLongest DEF Limits, Min2
<1>3. Backoff[hits] \in 0..Longest BY <1>2, LongestIsLongest
<1>4. Max2(limit.left, Backoff[hits]) \in 0..Longest /\ limit.left <= Max2(limit.left, Backoff[hits])
  BY <1>3, LongestIsLongest DEF Max2, Limits
<1>5. Recorded = [left |-> Max2(limit.left, Backoff[hits]), hits |-> hits, age |-> 0]
  BY DEF Recorded
<1> HIDE DEF hits
<1> QED BY <1>1, <1>2, <1>4, <1>5 DEF Limits

-----------------------------------------------------------------------------
(* What a step may do to one tab.                                           *)

(* Every way a step returns or raises either ends the workflow or goes on   *)
(* to the next step.                                                        *)
LEMMA StepIsLeft ==
  ASSUME NEW t \in Senders, NEW s, NEW p,
         StepReturns(t, s, p) \/ StepRaises(t, s, p)
  PROVE  \/ WorkflowEnds(t, s, p)
         \/ AtStep(t, s, p, IF s.step = "fill" THEN "send" ELSE "wait")
BY DEF StepReturns, StepRaises

(* A tab that a step of its workflow leaves.                                *)
Leaves(t, s, p) ==
  \/ WorkflowEnds(t, s, p)
  \/ AtStep(t, s, p, IF s.step = "fill" THEN "send" ELSE "wait")
  \/ AtStep(t, s, p, "wait")

(* What a workflow leaves when it may leave: it has not clicked, or it is   *)
(* past the send step.                                                      *)
LEMMA LeavingIsGood ==
  ASSUME IInv, NEW t \in Senders, NEW s, NEW p, NEW x, NEW l, Leaves(t, s, p),
         Good(kind[t], s, p, x, l), s.step = "fill" => ~s.dispatched
  PROVE  /\ \E s1 \in Sender, p1 \in Page :
              /\ sender' = [sender EXCEPT ![t] = s1]
              /\ page' = [page EXCEPT ![t] = p1]
         /\ Good(kind[t], sender'[t], page'[t], x, l)
<1> USE DEF IInv
<1> DEFINE k == kind[t]
<1>1. CASE WorkflowEnds(t, s, p)
  <2> DEFINE s1 == [s EXCEPT !.at = "over"]
             p1 == Cleared(t, s, p)
  <2>1. /\ sender' = [sender EXCEPT ![t] = s1]
        /\ page' = [page EXCEPT ![t] = p1]
    BY <1>1 DEF WorkflowEnds
  <2>2. s1 \in Sender BY DEF Good, Sender
  <2>3. p1 \in Page /\ p1.taken = p.taken /\ p1.indicator = p.indicator
        /\ p1.surface = p.surface
        /\ (s.noted /\ ~s.dispatched /\ ~k.images => p1.composer # "own")
    BY DEF Good, Page, Cleared
  <2> HIDE DEF p1
  <2>4. Good(k, s1, p1, x, l)
    BY <2>2, <2>3 DEF Good, Placed, Counted, Caused, Told, Returned, Sender
  <2>5. sender'[t] = s1 /\ page'[t] = p1 BY <2>1
  <2> QED BY <2>1, <2>2, <2>3, <2>4, <2>5
<1>2. ASSUME NEW n \in {"send", "wait"}, AtStep(t, s, p, n),
             n = "send" => s.step = "fill"
      PROVE  /\ \E s1 \in Sender, p1 \in Page :
                  /\ sender' = [sender EXCEPT ![t] = s1]
                  /\ page' = [page EXCEPT ![t] = p1]
             /\ Good(kind[t], sender'[t], page'[t], x, l)
  <2> DEFINE s1 == [s EXCEPT !.step = n, !.at = "begin"]
  <2>1. /\ sender' = [sender EXCEPT ![t] = s1]
        /\ page' = [page EXCEPT ![t] = p]
    BY <1>2 DEF AtStep
  <2>2. s1 \in Sender /\ p \in Page BY DEF Good, Sender
  <2>4. Good(k, s1, p, x, l)
    BY <2>2, <1>2 DEF Good, Placed, Counted, Caused, Told, Returned, Sender
  <2>5. sender'[t] = s1 /\ page'[t] = p BY <2>1
  <2> QED BY <2>1, <2>2, <2>4, <2>5
<1> QED BY <1>1, <1>2 DEF Leaves

(* The rest of the state, which a step of one tab seldom touches.           *)
Rest ==
  /\ kind \in [Senders -> Kinds]
  /\ limit \in Limits
  /\ interrupt \in [Senders -> BOOLEAN]
  /\ cancelled \in [Senders -> BOOLEAN]
  /\ events \in 0..MaxEvents

(* A step of one tab that leaves the cooldown alone.                        *)
LEMMA OneTab ==
  ASSUME IInv, NEW t \in Senders, Rest', UNCHANGED <<kind, limit>>,
         \E s1 \in Sender, p1 \in Page :
           /\ sender' = [sender EXCEPT ![t] = s1]
           /\ page' = [page EXCEPT ![t] = p1],
         \E x1 \in SUBSET Excuses : excuse' = [excuse EXCEPT ![t] = x1],
         Good(kind[t], sender'[t], page'[t], excuse'[t], limit.left)
  PROVE  IInv'
<1>1. PICK s1 \in Sender, p1 \in Page :
        /\ sender' = [sender EXCEPT ![t] = s1]
        /\ page' = [page EXCEPT ![t] = p1]
  OBVIOUS
<1>2. PICK x1 \in SUBSET Excuses : excuse' = [excuse EXCEPT ![t] = x1] OBVIOUS
<1>3. /\ sender' \in [Senders -> Sender]
      /\ page' \in [Senders -> Page]
      /\ excuse' \in [Senders -> SUBSET Excuses]
  BY <1>1, <1>2 DEF IInv
<1>4. ASSUME NEW u \in Senders
      PROVE  Good(kind[u], sender'[u], page'[u], excuse'[u], limit.left)
  <2>1. CASE u = t BY <2>1
  <2>2. CASE u # t
    <3>1. sender'[u] = sender[u] /\ page'[u] = page[u] /\ excuse'[u] = excuse[u]
      BY <1>1, <1>2, <2>2 DEF IInv
    <3> QED BY <3>1 DEF IInv
  <2> QED BY <2>1, <2>2
<1> QED BY <1>3, <1>4 DEF IInv, Rest

(* Whoever was not told of a new cooldown need not know of it.              *)
LEMMA UntoldIsGood ==
  ASSUME NEW k, NEW s, NEW p, NEW x, NEW l, NEW m, Good(k, s, p, x, l)
  PROVE  Good(k, s, p, x \cup {"newer"}, m)
<1>1. x \cup {"newer"} \in SUBSET Excuses BY DEF Good, Excuses
<1>2. Counted(k, s, p, x \cup {"newer"}) BY DEF Good, Counted
<1>3. Caused(s, p, x \cup {"newer"}) BY DEF Good, Caused
<1>4. Told(s, x \cup {"newer"}, m) BY DEF Told
<1> QED BY <1>1, <1>2, <1>3, <1>4 DEF Good

(* A step of one tab that records a hit.                                    *)
LEMMA OneTabRecords ==
  ASSUME IInv, NEW t \in Senders, Rest', UNCHANGED kind,
         limit' = Recorded, excuse' = Untold(t),
         \E s1 \in Sender, p1 \in Page :
           /\ sender' = [sender EXCEPT ![t] = s1]
           /\ page' = [page EXCEPT ![t] = p1],
         Good(kind[t], sender'[t], page'[t], excuse[t] \ {"newer"}, Recorded.left)
  PROVE  IInv'
<1>1. PICK s1 \in Sender, p1 \in Page :
        /\ sender' = [sender EXCEPT ![t] = s1]
        /\ page' = [page EXCEPT ![t] = p1]
  OBVIOUS
<1>3. /\ sender' \in [Senders -> Sender]
      /\ page' \in [Senders -> Page]
      /\ excuse' \in [Senders -> SUBSET Excuses]
  BY <1>1 DEF IInv, Untold, Excuses
<1>4. ASSUME NEW u \in Senders
      PROVE  Good(kind[u], sender'[u], page'[u], excuse'[u], Recorded.left)
  <2>1. CASE u = t
    <3>1. excuse'[t] = excuse[t] \ {"newer"} BY DEF Untold
    <3> QED BY <2>1, <3>1
  <2>2. CASE u # t
    <3>1. /\ sender'[u] = sender[u] /\ page'[u] = page[u]
          /\ excuse'[u] = excuse[u] \cup {"newer"}
      BY <1>1, <2>2 DEF IInv, Untold
    <3>2. Good(kind[u], sender[u], page[u], excuse[u], limit.left) BY DEF IInv
    <3> QED BY <3>1, <3>2, UntoldIsGood
  <2> QED BY <2>1, <2>2
<1> QED BY <1>3, <1>4 DEF IInv, Rest

-----------------------------------------------------------------------------
(* The initial states, and one lemma for each action.                       *)

LEMMA InitIInv == Init => IInv
<1> SUFFICES ASSUME Init PROVE IInv
  OBVIOUS
<1>1. PICK start \in [Senders -> Starts] :
        /\ kind = [t \in Senders |-> start[t][1]]
        /\ page = [t \in Senders |-> start[t][2]]
  BY DEF Init
<1>2. \A t \in Senders : start[t][1] \in Kinds /\ start[t][2] \in FirstPages
  BY <1>1, SendAssumption DEF SendAssumption
<1>3. FirstPages \subseteq Page /\ \A p \in FirstPages : p.taken = 0 /\ p.indicator # "own"
  <2>1. MaxRetries \in Nat BY SendAssumption DEF SendAssumption
  <2> QED BY <2>1 DEF FirstPages, Page
<1>4. kind \in [Senders -> Kinds] /\ page \in [Senders -> FirstPages]
  BY <1>1, <1>2
<1>5. limit \in Limits /\ limit.left = 0
  BY LongestIsLongest, SendAssumption DEF Init, Limits, SendAssumption
<1>6. interrupt \in [Senders -> BOOLEAN] /\ cancelled \in [Senders -> BOOLEAN]
      /\ events \in 0..MaxEvents
  BY SendAssumption DEF Init, SendAssumption
<1>7. sender \in [Senders -> Sender]
  BY LongestIsLongest, SendAssumption DEF Init, Sender, SendAssumption
<1>8. excuse \in [Senders -> SUBSET Excuses] BY DEF Init, Excuses
<1>9. ASSUME NEW t \in Senders
      PROVE  Good(kind[t], sender[t], page[t], excuse[t], limit.left)
  <2>1. /\ sender[t].step = "fill" /\ sender[t].at = "begin" /\ ~sender[t].dispatched
        /\ sender[t].retries = 0 /\ ~sender[t].confirmed
    BY DEF Init
  <2>2. page[t] \in Page /\ page[t].taken = 0 /\ page[t].indicator # "own"
    BY <1>3, <1>4
  <2>3. page[t].indicator = "stray" => "shown" \in excuse[t] BY DEF Init
  <2>4. Counted(kind[t], sender[t], page[t], excuse[t]) BY <2>1, <2>2 DEF Counted
  <2>5. /\ Placed(kind[t], sender[t]) /\ Caused(sender[t], page[t], excuse[t])
        /\ Told(sender[t], excuse[t], limit.left) /\ Returned(kind[t], sender[t], page[t])
    BY <2>1, <2>2, <2>3 DEF Placed, Caused, Told, Returned
  <2> QED BY <1>4, <1>7, <1>8, <2>2, <2>4, <2>5 DEF Good
<1> QED BY <1>3, <1>4, <1>5, <1>6, <1>7, <1>8, <1>9 DEF IInv

(* A step that leaves the tab changes nothing else.                         *)
LEMMA Leaving ==
  ASSUME IInv, NEW t \in Senders, Rest', UNCHANGED <<kind, limit, excuse>>,
         NEW s, NEW p, Leaves(t, s, p),
         s.step = "fill" => ~s.dispatched,
         Good(kind[t], s, p, excuse[t], limit.left)
  PROVE  IInv'
<1>1. excuse' = [excuse EXCEPT ![t] = excuse[t]] /\ excuse[t] \in SUBSET Excuses
  BY DEF IInv
<1>2. /\ \E s1 \in Sender, p1 \in Page :
           /\ sender' = [sender EXCEPT ![t] = s1]
           /\ page' = [page EXCEPT ![t] = p1]
      /\ Good(kind[t], sender'[t], page'[t], excuse[t], limit.left)
  BY LeavingIsGood
<1> QED BY <1>1, <1>2, OneTab

(* A step that goes on at the tab.                                          *)
LEMMA Going ==
  ASSUME IInv, NEW t \in Senders, Rest', UNCHANGED <<kind, limit>>,
         NEW s \in Sender, NEW p \in Page, NEW x \in SUBSET Excuses,
         Goes(t, s, p), excuse' = [excuse EXCEPT ![t] = x],
         Good(kind[t], s, p, x, limit.left)
  PROVE  IInv'
<1>1. /\ sender' = [sender EXCEPT ![t] = s]
      /\ page' = [page EXCEPT ![t] = p]
  BY DEF Goes
<1>2. sender'[t] = s /\ page'[t] = p /\ excuse'[t] = x
  BY <1>1 DEF IInv
<1> QED BY <1>1, <1>2, OneTab

(* What the invariant says of one tab.                                      *)
LEMMA TabIsGood ==
  ASSUME IInv, NEW t \in Senders
  PROVE  /\ Good(kind[t], sender[t], page[t], excuse[t], limit.left)
         /\ kind[t] \in Kinds /\ sender[t] \in Sender /\ page[t] \in Page
         /\ excuse[t] \in SUBSET Excuses
         /\ excuse = [excuse EXCEPT ![t] = excuse[t]]
         /\ Rest
BY DEF IInv, Rest

LEMMA CooldownType ==
  ASSUME limit \in Limits
  PROVE  limit.left \in 0..Longest /\ limit.left \in Nat
BY LongestIsLongest DEF Limits

LEMMA EventsCounted ==
  ASSUME IInv, Event
  PROVE  events' \in 0..MaxEvents
<1>1. MaxEvents \in Nat BY SendAssumption DEF SendAssumption
<1> QED BY <1>1 DEF IInv, Event

(* A listener that runs says nothing by itself.                             *)
LEMMA ListeningIsGood ==
  ASSUME NEW k, NEW s, NEW p, NEW x, NEW l, Good(k, s, p, x, l)
  PROVE  Good(k, [s EXCEPT !.listening = TRUE], p, x, l)
<1> DEFINE s1 == [s EXCEPT !.listening = TRUE]
<1>1. /\ s1 \in Sender
      /\ s1.step = s.step /\ s1.at = s.at /\ s1.timer = s.timer /\ s1.before = s.before
      /\ s1.noted = s.noted /\ s1.dispatched = s.dispatched /\ s1.retries = s.retries
      /\ s1.heard = s.heard /\ s1.confirmed = s.confirmed
  BY DEF Good, Sender
<1> HIDE DEF s1
<1>2. Placed(k, s1) /\ Counted(k, s1, p, x) /\ Caused(s1, p, x)
      /\ Told(s1, x, l) /\ Returned(k, s1, p)
  BY <1>1 DEF Good, Placed, Counted, Caused, Told, Returned
<1> QED BY <1>1, <1>2 DEF Good, s1

LEMMA KeptByHandleInterrupt ==
  ASSUME IInv, NEW t \in Senders, HandleInterrupt(t)
  PROVE  IInv'
<1> USE DEF HandleInterrupt
<1> DEFINE r == [sender[t] EXCEPT !.listening = TRUE]
<1>0. /\ r \in Sender /\ r.step = sender[t].step /\ r.at = "begin"
      /\ r.dispatched = sender[t].dispatched
      /\ Good(kind[t], r, page[t], excuse[t], limit.left)
  BY TabIsGood, ListeningIsGood DEF Sender
<1>1. Rest' BY TabIsGood DEF Rest
<1>2. sender[t].step = "fill" => ~sender[t].dispatched BY TabIsGood DEF Good, Placed
<1>3. CASE WorkflowEnds(t, sender[t], page[t])
  BY <1>1, <1>2, <1>3, TabIsGood, Leaving DEF Leaves
<1>4. CASE AtStep(t, r, page[t], "wait")
  <2> HIDE DEF r
  <2> QED BY <1>0, <1>1, <1>2, <1>4, TabIsGood, Leaving DEF Leaves
<1>5. CASE AtStep(t, r, page[t], r.step)
  <2> HIDE DEF r
  <2>1. r = [r EXCEPT !.step = r.step, !.at = "begin"] BY <1>0 DEF Sender
  <2>2. Goes(t, r, page[t]) BY <1>5, <2>1 DEF AtStep, Goes
  <2> QED BY <1>0, <1>1, <2>2, TabIsGood, Going
<1> QED BY <1>0, <1>3, <1>4, <1>5

LEMMA KeptByNoticeCancel ==
  ASSUME IInv, NEW t \in Senders, NoticeCancel(t)
  PROVE  IInv'
<1> USE DEF NoticeCancel
<1>1. Rest' BY TabIsGood DEF Rest
<1>2. sender[t].step = "fill" => ~sender[t].dispatched BY TabIsGood DEF Good, Placed
<1> QED BY <1>1, <1>2, TabIsGood, Leaving DEF Leaves

LEMMA KeptByListen ==
  ASSUME IInv, NEW t \in Senders, Listen(t)
  PROVE  IInv'
<1> USE DEF Listen
<1> DEFINE s == [sender[t] EXCEPT !.at = "waiting"]
<1>1. Rest' BY TabIsGood DEF Rest
<1>2. s \in Sender BY TabIsGood DEF Sender
<1>3. Good(kind[t], s, page[t], excuse[t], limit.left)
  BY <1>2, TabIsGood DEF Good, Placed, Counted, Caused, Told, Returned, Sender
<1> QED BY <1>1, <1>2, <1>3, TabIsGood, Going

LEMMA KeptByEnterGuard ==
  ASSUME IInv, NEW t \in Senders, EnterGuard(t)
  PROVE  IInv'
<1> DEFINE s == [sender[t] EXCEPT !.again = FALSE, !.before = page[t].composer # "empty",
                                  !.listening = @ \/ sender[t].step = "send"]
<1>0. /\ sender[t].at = "begin" /\ sender[t].step # "wait"
      /\ UNCHANGED <<kind, limit, interrupt, cancelled>>
      /\ UNCHANGED events \/ Event
  BY DEF EnterGuard
<1>1. Rest' BY <1>0, TabIsGood, EventsCounted DEF Rest
<1>2. s \in Sender BY TabIsGood DEF Sender
<1>3. CASE /\ Goes(t, [s EXCEPT !.at = "cooling", !.timer = Remaining], page[t])
           /\ excuse' = [excuse EXCEPT ![t] = @ \ {"newer", "unread"}]
  <2> DEFINE s1 == [s EXCEPT !.at = "cooling", !.timer = Remaining]
             x1 == excuse[t] \ {"newer", "unread"}
  <2>0. limit.left \in 0..Longest BY TabIsGood, CooldownType DEF Rest
  <2>1. s1 \in Sender
    <3> HIDE DEF s
    <3> QED BY <1>2, <2>0 DEF Sender, Remaining
  <2>2. x1 \in SUBSET Excuses /\ excuse' = [excuse EXCEPT ![t] = x1]
    BY <1>3, TabIsGood
  <2>3. Placed(kind[t], s1) /\ Returned(kind[t], s1, page[t])
    BY <1>0, TabIsGood DEF Good, Placed, Returned, Sender
  <2>4. Counted(kind[t], s1, page[t], x1) BY TabIsGood DEF Good, Counted, Sender
  <2>5. Caused(s1, page[t], x1) BY TabIsGood DEF Good, Caused, Sender
  <2>6. Told(s1, x1, limit.left)
    <3>1. s1.at = "cooling" /\ s1.timer = limit.left
      BY TabIsGood DEF Remaining, Sender
    <3> QED BY <2>0, <3>1, LongestIsLongest DEF Told
  <2>7. Good(kind[t], s1, page[t], x1, limit.left)
    BY <2>1, <2>2, <2>3, <2>4, <2>5, <2>6, TabIsGood DEF Good
  <2>8. Goes(t, s1, page[t]) BY <1>3
  <2> HIDE DEF s, s1, x1
  <2> QED BY <1>0, <1>1, <2>1, <2>2, <2>7, <2>8, TabIsGood, Going
<1>4. CASE /\ Goes(t, [s EXCEPT !.at = "idling"], page[t])
           /\ excuse' = [excuse EXCEPT ![t] = @ \cup {"unread"}]
  <2> DEFINE s1 == [s EXCEPT !.at = "idling"]
             x1 == excuse[t] \cup {"unread"}
  <2>1. s1 \in Sender
    <3> HIDE DEF s
    <3> QED BY <1>2 DEF Sender
  <2>2. x1 \in SUBSET Excuses /\ excuse' = [excuse EXCEPT ![t] = x1]
    BY <1>4, TabIsGood DEF Excuses
  <2>3. Placed(kind[t], s1) /\ Returned(kind[t], s1, page[t])
    BY <1>0, TabIsGood DEF Good, Placed, Returned, Sender
  <2>4. Counted(kind[t], s1, page[t], x1) BY TabIsGood DEF Good, Counted, Sender
  <2>5. Caused(s1, page[t], x1) BY TabIsGood DEF Good, Caused, Sender
  <2>6. Told(s1, x1, limit.left) BY DEF Told
  <2>7. Good(kind[t], s1, page[t], x1, limit.left)
    BY <2>1, <2>2, <2>3, <2>4, <2>5, <2>6, TabIsGood DEF Good
  <2>8. Goes(t, s1, page[t]) BY <1>4
  <2> HIDE DEF s, s1, x1
  <2> QED BY <1>0, <1>1, <2>1, <2>2, <2>7, <2>8, TabIsGood, Going
<1> QED BY <1>3, <1>4 DEF EnterGuard

LEMMA KeptByGuard ==
  ASSUME IInv, NEW t \in Senders, Guard(t)
  PROVE  IInv'
<1> DEFINE s == sender[t]
<1>0. UNCHANGED <<kind, interrupt, cancelled, events>> /\ s.at = "cooling" BY DEF Guard
<1>1. limit' \in Limits => Rest' BY <1>0, TabIsGood DEF Rest
<1>2. s.step = "fill" => ~s.dispatched BY <1>0, TabIsGood DEF Good, Placed
<1>3. limit \in Limits BY TabIsGood DEF Rest
<1>4. CASE Leaves(t, s, page[t]) /\ UNCHANGED <<limit, excuse>>
  BY <1>0, <1>1, <1>2, <1>3, <1>4, TabIsGood, Leaving
<1>5. CASE \E surface \in {"open", "limited"} :
             /\ Goes(t, [s EXCEPT !.again = TRUE, !.timer = Recorded.left],
                     [page[t] EXCEPT !.surface = surface])
             /\ limit' = Recorded /\ excuse' = Untold(t)
  <2>1. PICK surface \in {"open", "limited"} :
             Goes(t, [s EXCEPT !.again = TRUE, !.timer = Recorded.left],
                     [page[t] EXCEPT !.surface = surface])
    BY <1>5
  <2> DEFINE s1 == [s EXCEPT !.again = TRUE, !.timer = Recorded.left]
             p1 == [page[t] EXCEPT !.surface = surface]
             x1 == excuse[t] \ {"newer"}
  <2>2. Recorded \in Limits /\ Recorded.left \in 0..Longest
    BY <1>3, RecordedExtends DEF Limits
  <2>3. s1 \in Sender /\ p1 \in Page
    <3> HIDE DEF p1
    <3>1. s1 \in Sender BY <2>2, TabIsGood DEF Sender
    <3>2. p1 \in Page BY TabIsGood DEF Page, p1
    <3> QED BY <3>1, <3>2
  <2>4. x1 \in SUBSET Excuses BY TabIsGood
  <2>5. Placed(kind[t], s1) /\ Returned(kind[t], s1, p1)
    BY <1>0, TabIsGood DEF Good, Placed, Returned, Sender, Page
  <2>6. Counted(kind[t], s1, p1, x1) BY TabIsGood DEF Good, Counted, Sender, Page
  <2>7. Caused(s1, p1, x1) BY TabIsGood DEF Good, Caused, Sender, Page
  <2>8. Told(s1, x1, Recorded.left)
    BY <1>0, <2>2, TabIsGood DEF Told, Sender, Limits
  <2>9. Good(kind[t], s1, p1, x1, Recorded.left)
    BY <2>3, <2>4, <2>5, <2>6, <2>7, <2>8, TabIsGood DEF Good
  <2>10. /\ sender' = [sender EXCEPT ![t] = s1]
         /\ page' = [page EXCEPT ![t] = p1]
    BY <2>1 DEF Goes
  <2>11. sender'[t] = s1 /\ page'[t] = p1 BY <2>10 DEF IInv
  <2> HIDE DEF s1, p1, x1
  <2>12. Good(kind[t], sender'[t], page'[t], excuse[t] \ {"newer"}, Recorded.left)
    BY <2>9, <2>11 DEF x1
  <2> QED BY <1>0, <1>1, <1>5, <2>2, <2>3, <2>10, <2>12, OneTabRecords
<1>6. CASE /\ s.timer = 0
           /\ Goes(t, [s EXCEPT !.at = "idling"], page[t])
           /\ UNCHANGED <<limit, excuse>>
  <2> DEFINE s1 == [s EXCEPT !.at = "idling"]
  <2>1. s1 \in Sender BY TabIsGood DEF Sender
  <2>2. Told(s1, excuse[t], limit.left)
    BY <1>0, <1>3, <1>6, TabIsGood DEF Good, Told, Sender, Limits
  <2>3. Good(kind[t], s1, page[t], excuse[t], limit.left)
    BY <1>0, <2>1, <2>2, TabIsGood DEF Good, Placed, Counted, Caused, Returned, Sender
  <2> QED BY <1>0, <1>1, <1>3, <1>6, <2>1, <2>3, TabIsGood, Going
<1> QED BY <1>4, <1>5, <1>6, StepIsLeft DEF Guard, Leaves

LEMMA KeptByIdleOver ==
  ASSUME IInv, NEW t \in Senders, IdleOver(t)
  PROVE  IInv'
<1> DEFINE s == sender[t]
           s1 == [sender[t] EXCEPT !.at = "acting"]
<1>0. s.at = "idling" /\ UNCHANGED <<kind, limit, interrupt, cancelled, events, excuse>>
  BY DEF IdleOver
<1>1. Rest' BY <1>0, TabIsGood DEF Rest
<1>2. s.step = "fill" => ~s.dispatched BY <1>0, TabIsGood DEF Good, Placed
<1>3. CASE Leaves(t, s, page[t])
  BY <1>0, <1>1, <1>2, <1>3, TabIsGood, Leaving
<1>4. CASE LooksIdle(page[t]) /\ Goes(t, s1, page[t])
  <2>1. s1 \in Sender BY TabIsGood DEF Sender
  <2>2. page[t].indicator # "old" BY <1>4 DEF LooksIdle
  <2>3. Good(kind[t], s1, page[t], excuse[t], limit.left)
    BY <1>0, <2>1, <2>2, TabIsGood DEF Good, Placed, Counted, Caused, Told, Returned, Sender
  <2> HIDE DEF s1
  <2> QED BY <1>0, <1>1, <1>4, <2>1, <2>3, TabIsGood, Going
<1> QED BY <1>3, <1>4, StepIsLeft DEF IdleOver, Leaves

LEMMA KeptByFill ==
  ASSUME IInv, NEW t \in Senders, Fill(t)
  PROVE  IInv'
<1> DEFINE s == sender[t]
           s1 == [sender[t] EXCEPT !.noted = TRUE, !.dispatched = FALSE]
           q(text) == [page[t] EXCEPT !.composer = text]
<1>0. /\ s.at = "acting" /\ s.step = "fill"
      /\ UNCHANGED <<kind, limit, interrupt, cancelled, excuse>>
      /\ UNCHANGED events \/ Event
  BY DEF Fill
<1>1. Rest' BY <1>0, TabIsGood, EventsCounted DEF Rest
<1>2. ~s.dispatched /\ page[t].taken = 0
  BY <1>0, TabIsGood DEF Good, Placed, Counted
<1>3. CASE Leaves(t, s, page[t])
  BY <1>0, <1>1, <1>2, <1>3, TabIsGood, Leaving
<1>4. CASE Leaves(t, s1, q("own"))
  <2>1. s1 \in Sender /\ ~s1.dispatched BY TabIsGood DEF Sender
  <2>2. q("own") \in Page BY TabIsGood DEF Page
  <2>3. /\ Placed(kind[t], s1) /\ Counted(kind[t], s1, q("own"), excuse[t])
        /\ Told(s1, excuse[t], limit.left) /\ Returned(kind[t], s1, q("own"))
    BY <1>0, <1>2, TabIsGood DEF Good, Placed, Counted, Told, Returned, Sender, Page
  <2>4. Caused(s1, q("own"), excuse[t])
    BY <1>0, <1>2, TabIsGood DEF Good, Caused, Sender, Page
  <2>5. Good(kind[t], s1, q("own"), excuse[t], limit.left)
    BY <2>1, <2>2, <2>3, <2>4, TabIsGood DEF Good
  <2> HIDE DEF s1, q
  <2> QED BY <1>0, <1>1, <1>4, <2>1, <2>5, Leaving
<1>5. CASE \E text \in {page[t].composer, "own"} : Leaves(t, s, q(text))
  <2>1. PICK text \in {page[t].composer, "own"} : Leaves(t, s, q(text)) BY <1>5
  <2>2. q(text) \in Page BY TabIsGood DEF Page
  <2>3. /\ Counted(kind[t], s, q(text), excuse[t]) /\ Returned(kind[t], s, q(text))
        /\ Caused(s, q(text), excuse[t])
    BY <1>0, <1>2, TabIsGood DEF Good, Counted, Returned, Caused, Page
  <2>4. Good(kind[t], s, q(text), excuse[t], limit.left)
    BY <2>2, <2>3, TabIsGood DEF Good
  <2> HIDE DEF q
  <2> QED BY <1>0, <1>1, <1>2, <2>1, <2>4, Leaving
<1> QED BY <1>3, <1>4, <1>5, StepIsLeft DEF Fill, Leaves

(* What a press does to a page: nothing, or one more message is taken.      *)
Shown == [surface : {"open", "limited", "blocked"}, composer : {"empty", "own", "other"},
          indicator : {"none", "old", "stray", "own"}, taken : Nat]

LEMMA PressTakes ==
  ASSUME NEW p \in Shown, NEW q \in Pressed(p)
  PROVE  /\ q \in Shown
         /\ \/ q = p
            \/ /\ p.indicator # "old" /\ q.taken = p.taken + 1
               /\ q.indicator \in {"own", p.indicator}
<1>1. CASE q = p BY <1>1
<1>2. ASSUME p.indicator # "old",
             NEW text \in {"empty", p.composer}, NEW shown \in {"own", p.indicator},
             q = [p EXCEPT !.taken = @ + 1, !.composer = text, !.indicator = shown]
      PROVE  q \in Shown /\ q.taken = p.taken + 1 /\ q.indicator \in {"own", p.indicator}
  <2>1. p.taken + 1 \in Nat BY DEF Shown
  <2>2. text \in {"empty", "own", "other"} /\ shown \in {"none", "old", "stray", "own"}
    BY DEF Shown
  <2> QED BY <1>2, <2>1, <2>2 DEF Shown
<1> QED BY <1>1, <1>2 DEF Pressed

LEMMA PageIsShown ==
  /\ MaxRetries \in Nat
  /\ \A p \in Page : p \in Shown /\ p.taken <= MaxRetries + 2
  /\ \A p \in Shown : p.taken <= MaxRetries + 2 => p \in Page
<1>1. MaxRetries \in Nat BY SendAssumption DEF SendAssumption
<1> QED BY <1>1 DEF Page, Shown

(* A tab after a press that followed the idle wait, with n retries.         *)
Observing(t, n) ==
  [sender[t] EXCEPT !.dispatched = TRUE, !.at = "observing", !.retries = n]

LEMMA PressedIsGood ==
  ASSUME IInv, NEW t \in Senders, NEW q \in Shown, NEW n \in 0..MaxRetries,
         NEW y \in SUBSET Excuses, excuse[t] \subseteq y,
         sender[t].at \in {"acting", "observing", "retrying"}, sender[t].step = "send",
         q = page[t] \/ (q.taken > page[t].taken /\ q.indicator \in {"own", page[t].indicator}),
         q.taken <= n + 2,
         q.taken <= 1 \/ kind[t] = [stealth |-> TRUE, images |-> TRUE]
                     \/ y \cap {"raised", "resent"} # {}
  PROVE  /\ Observing(t, n) \in Sender /\ q \in Page
         /\ Good(kind[t], Observing(t, n), q, y, limit.left)
<1> DEFINE k == kind[t]
           s == sender[t]
           p == page[t]
           x == excuse[t]
           l == limit.left
           s1 == Observing(t, n)
<1>0. Good(k, s, p, x, l) /\ s1 \in Sender
  BY TabIsGood DEF Observing, Sender
<1>1. q \in Page
  <2>1. q.taken \in Nat BY DEF Shown
  <2>2. q.taken <= MaxRetries + 2 BY <2>1, PageIsShown
  <2> QED BY <2>2, PageIsShown
<1>2. /\ s1.at = "observing" /\ s1.step = "send" /\ s1.dispatched /\ s1.retries = n
      /\ s1.before = s.before /\ s1.confirmed = s.confirmed /\ s1.heard = s.heard
  BY TabIsGood DEF Observing, Sender
<1> HIDE DEF k, s, p, x, l, s1
<1>3. Placed(k, s1) /\ Returned(k, s1, q) /\ Told(s1, y, l)
  BY <1>2 DEF Placed, Returned, Told
<1>4. Counted(k, s1, q, y) BY <1>2 DEF Counted, k
<1>5. Caused(s1, q, y)
  <2>1. p.taken \in Nat /\ q.taken \in Nat BY <1>0, PageIsShown DEF Good, Shown
  <2>2. q.taken > 0 \/ q = p BY <2>1 DEF p
  <2>3. Caused(s, p, x) BY <1>0 DEF Good
  <2>4. CASE q = p BY <1>2, <2>3, <2>4 DEF Caused, s, x
  <2>5. CASE q.taken > 0 /\ q.indicator \in {"own", p.indicator}
    BY <1>2, <2>3, <2>5 DEF Caused, s, x
  <2> QED BY <2>2, <2>4, <2>5 DEF p
<1>6. k \in Kinds BY <1>0 DEF Good
<1> QED BY <1>0, <1>1, <1>3, <1>4, <1>5, <1>6 DEF Good, k, s1, l

LEMMA KeptByClick ==
  ASSUME IInv, NEW t \in Senders, Click(t)
  PROVE  IInv'
<1> DEFINE s == sender[t]
           s1 == Observing(t, 0)
<1>0. /\ s.at = "acting" /\ s.step = "send"
      /\ UNCHANGED <<kind, limit, interrupt, cancelled>>
      /\ UNCHANGED events \/ Event
  BY DEF Click
<1>1. Rest' BY <1>0, TabIsGood, EventsCounted DEF Rest
<1>2. /\ page[t] \in Shown /\ page[t].taken = 0
      /\ 0 \in 0..MaxRetries
  <2>1. 0 \in 0..MaxRetries BY PageIsShown
  <2>3. page[t] \in Shown BY TabIsGood, PageIsShown
  <2>4. page[t].taken = 0 BY <1>0, TabIsGood DEF Good, Placed, Counted
  <2> QED BY <2>1, <2>3, <2>4
<1>3. CASE Leaves(t, s, page[t]) /\ UNCHANGED excuse
  BY <1>0, <1>1, <1>3, TabIsGood, Leaving
<1>4. ASSUME NEW q \in Pressed(page[t]), Goes(t, s1, q), UNCHANGED excuse
      PROVE  IInv'
  <2>1. /\ q \in Shown
        /\ q = page[t] \/ (q.taken > page[t].taken /\ q.indicator \in {"own", page[t].indicator})
        /\ q.taken <= 1
    BY <1>2, PressTakes
  <2>2. q.taken <= 0 + 2 /\ excuse[t] \in SUBSET Excuses BY <2>1, TabIsGood DEF Shown
  <2>20. s1 \in Sender /\ q \in Page /\ Good(kind[t], s1, q, excuse[t], limit.left)
    BY <1>0, <1>2, <2>1, <2>2, PressedIsGood
  <2> HIDE DEF s1
  <2> QED BY <1>0, <1>1, <1>4, <2>20, TabIsGood, Going
<1>5. ASSUME NEW p \in Pressed(page[t]), NEW q \in Pressed(p), Goes(t, s1, q),
             excuse' = [excuse EXCEPT ![t] = @ \cup {"raised"}]
      PROVE  IInv'
  <2> DEFINE y == excuse[t] \cup {"raised"}
  <2>1. /\ p \in Shown
        /\ p = page[t] \/ (p.taken = 1 /\ p.indicator \in {"own", page[t].indicator})
    BY <1>2, PressTakes
  <2>2. /\ q \in Shown
        /\ q = p \/ (q.taken = p.taken + 1 /\ q.indicator \in {"own", p.indicator})
    BY <2>1, PressTakes
  <2>3. /\ q.taken <= 2
        /\ q = page[t] \/ (q.taken > page[t].taken /\ q.indicator \in {"own", page[t].indicator})
    BY <1>2, <2>1, <2>2
  <2>4. y \in SUBSET Excuses /\ y \cap {"raised", "resent"} # {} /\ excuse[t] \subseteq y
    BY TabIsGood DEF Excuses
  <2> HIDE DEF y
  <2>5. q.taken <= 0 + 2 BY <2>3
  <2>6. s1 \in Sender /\ q \in Page /\ Good(kind[t], s1, q, y, limit.left)
    BY <1>0, <1>2, <2>2, <2>3, <2>4, <2>5, PressedIsGood
  <2>7. excuse' = [excuse EXCEPT ![t] = y] BY <1>5 DEF y
  <2> HIDE DEF s1
  <2> QED BY <1>0, <1>1, <1>5, <2>4, <2>6, <2>7, TabIsGood, Going
<1> QED BY <1>3, <1>4, <1>5, StepIsLeft DEF Click, Leaves, Observing

(* A send taken for successful was taken, or an old turn or somebody else    *)
(* made it look so.                                                         *)
LEMMA ConfirmedIsGood ==
  ASSUME NEW k, NEW s, NEW p, NEW x, NEW l, Good(k, s, p, x, l), SeemsSent(s, p),
         s.at \in {"observing", "retrying"}
  PROVE  Good(k, [s EXCEPT !.confirmed = TRUE], p, x, l)
<1> DEFINE s1 == [s EXCEPT !.confirmed = TRUE]
<1>1. s1 \in Sender BY DEF Good, Sender
<1>2. Placed(k, s1) /\ Counted(k, s1, p, x) /\ Told(s1, x, l) /\ Returned(k, s1, p)
  BY DEF Good, Placed, Counted, Told, Returned, Sender
<1>3. p.taken > 0 \/ s.heard \/ x \cap {"touched", "shown"} # {}
  <2>1. PICK reported \in Reports(s, p) : LooksSent(s, p, reported) BY DEF SeemsSent
  <2>2. CASE reported BY <2>1, <2>2 DEF Reports
  <2>3. CASE ~reported BY <2>1, <2>3 DEF Good, Caused, LooksSent, Page
  <2> QED BY <2>2, <2>3
<1>4. Caused(s1, p, x) BY <1>3 DEF Good, Caused, Sender
<1> QED BY <1>1, <1>2, <1>4 DEF Good

(* At rest after the click a tab may be left, confirmed or not.             *)
LEMMA ClickedLeaves ==
  ASSUME IInv, NEW t \in Senders, UNCHANGED <<kind, limit, interrupt, cancelled, events, excuse>>,
         sender[t].at \in {"observing", "retrying"},
         \/ Leaves(t, sender[t], page[t])
         \/ SeemsSent(sender[t], page[t])
              /\ Leaves(t, [sender[t] EXCEPT !.confirmed = TRUE], page[t])
  PROVE  IInv'
<1>1. Rest' BY TabIsGood DEF Rest
<1>2. sender[t].step = "send" BY TabIsGood DEF Good, Placed
<1>3. CASE Leaves(t, sender[t], page[t])
  BY <1>1, <1>2, <1>3, TabIsGood, Leaving
<1>4. CASE SeemsSent(sender[t], page[t])
            /\ Leaves(t, [sender[t] EXCEPT !.confirmed = TRUE], page[t])
  <2> DEFINE s1 == [sender[t] EXCEPT !.confirmed = TRUE]
  <2>1. Good(kind[t], s1, page[t], excuse[t], limit.left)
    BY <1>4, TabIsGood, ConfirmedIsGood
  <2>2. s1.step = "send" BY <1>2, TabIsGood DEF Sender
  <2> HIDE DEF s1
  <2> QED BY <1>1, <1>4, <2>1, <2>2, Leaving DEF s1
<1> QED BY <1>3, <1>4

LEMMA KeptByObserve ==
  ASSUME IInv, NEW t \in Senders, Observe(t)
  PROVE  IInv'
<1> DEFINE s == sender[t]
           s1 == [sender[t] EXCEPT !.at = "retrying"]
<1>0. s.at = "observing" /\ UNCHANGED <<kind, limit, interrupt, cancelled, events, excuse>>
  BY DEF Observe
<1>1. CASE \/ Leaves(t, s, page[t])
           \/ SeemsSent(s, page[t]) /\ Leaves(t, [s EXCEPT !.confirmed = TRUE], page[t])
  BY <1>0, <1>1, ClickedLeaves
<1>2. CASE /\ kind[t] # [stealth |-> TRUE, images |-> FALSE]
           /\ s.retries < MaxRetries
           /\ Goes(t, s1, page[t])
  <2>1. s1 \in Sender BY TabIsGood DEF Sender
  <2>2. Placed(kind[t], s1)
    <3>1. kind[t].stealth => kind[t].images BY <1>2, TabIsGood DEF Kinds
    <3> QED BY <1>0, <1>2, <3>1, TabIsGood DEF Good, Placed, Sender
  <2>3. Good(kind[t], s1, page[t], excuse[t], limit.left)
    BY <1>0, <2>1, <2>2, TabIsGood DEF Good, Counted, Caused, Told, Returned, Sender
  <2>4. Rest' BY <1>0, TabIsGood DEF Rest
  <2> HIDE DEF s1
  <2> QED BY <1>0, <1>2, <2>1, <2>3, <2>4, TabIsGood, Going
<1> QED BY <1>1, <1>2, StepIsLeft DEF Observe, Leaves

LEMMA KeptByRetryNotNeeded ==
  ASSUME IInv, NEW t \in Senders, RetryNotNeeded(t)
  PROVE  IInv'
<1>1. /\ sender[t].at = "retrying"
      /\ UNCHANGED <<kind, limit, interrupt, cancelled, events, excuse>>
      /\ \/ Leaves(t, sender[t], page[t])
         \/ SeemsSent(sender[t], page[t])
              /\ Leaves(t, [sender[t] EXCEPT !.confirmed = TRUE], page[t])
  BY StepIsLeft DEF RetryNotNeeded, Leaves
<1> QED BY <1>1, ClickedLeaves

LEMMA KeptBySuppressRetry ==
  ASSUME IInv, NEW t \in Senders, SuppressRetry(t)
  PROVE  IInv'
<1> DEFINE s == sender[t]
<1>0. /\ s.at = "retrying" /\ UNCHANGED <<kind, interrupt, cancelled, events>>
      /\ Leaves(t, s, page[t])
  BY StepIsLeft DEF SuppressRetry, Leaves
<1>1. CASE UNCHANGED <<limit, excuse>>
  BY <1>0, <1>1, ClickedLeaves
<1>2. CASE limit' = Recorded /\ excuse' = Untold(t)
  <2> DEFINE x1 == excuse[t] \ {"newer"}
  <2>1. Rest' BY <1>0, <1>2, TabIsGood, RecordedExtends DEF Rest
  <2>2. Counted(kind[t], s, page[t], x1) /\ Caused(s, page[t], x1) /\ x1 \in SUBSET Excuses
    BY TabIsGood DEF Good, Counted, Caused
  <2>3. Told(s, x1, Recorded.left) BY <1>0 DEF Told
  <2>4. Good(kind[t], s, page[t], x1, Recorded.left)
    BY <2>2, <2>3, TabIsGood DEF Good
  <2>5. s.step = "send" BY <1>0, TabIsGood DEF Good, Placed
  <2> HIDE DEF s
  <2>6. /\ \E s1 \in Sender, p1 \in Page :
             /\ sender' = [sender EXCEPT ![t] = s1]
             /\ page' = [page EXCEPT ![t] = p1]
        /\ Good(kind[t], sender'[t], page'[t], x1, Recorded.left)
    BY <1>0, <2>4, <2>5, LeavingIsGood
  <2> QED BY <1>0, <1>2, <2>1, <2>6, OneTabRecords
<1> QED BY <1>1, <1>2 DEF SuppressRetry

LEMMA KeptByClickAgain ==
  ASSUME IInv, NEW t \in Senders, ClickAgain(t)
  PROVE  IInv'
<1> DEFINE n == sender[t].retries + 1
<1>0. /\ sender[t].at = "retrying" /\ UNCHANGED <<kind, limit, interrupt, cancelled>>
      /\ \/ kind[t].stealth /\ UNCHANGED <<events, excuse>>
         \/ Event /\ excuse' = [excuse EXCEPT ![t] = @ \cup {"resent"}]
  BY DEF ClickAgain
<1>1. Rest' BY <1>0, TabIsGood, EventsCounted DEF Rest
<1>2. /\ sender[t].step = "send" /\ sender[t].retries < MaxRetries /\ sender[t].dispatched
      /\ page[t].taken <= sender[t].retries + 2
      /\ kind[t].stealth => kind[t] = [stealth |-> TRUE, images |-> TRUE]
  BY <1>0, TabIsGood DEF Good, Placed, Counted, Kinds
<1>3. n \in 0..MaxRetries /\ page[t] \in Shown
  BY <1>2, TabIsGood, PageIsShown DEF Sender
<1>4. PICK q \in Pressed(page[t]) :
        Goes(t, [sender[t] EXCEPT !.at = "observing", !.retries = @ + 1], q)
  BY DEF ClickAgain
<1>5. [sender[t] EXCEPT !.at = "observing", !.retries = @ + 1] = Observing(t, n)
  BY <1>2, TabIsGood DEF Observing, Sender
<1>6. /\ q \in Shown
      /\ q = page[t] \/ (q.taken > page[t].taken /\ q.indicator \in {"own", page[t].indicator})
      /\ q.taken <= page[t].taken + 1
  BY <1>3, PressTakes DEF Shown
<1>7. q.taken <= n + 2
  BY <1>2, <1>3, <1>6, TabIsGood DEF Shown, Sender
<1> HIDE DEF n
<1>8. ASSUME NEW y \in SUBSET Excuses, excuse' = [excuse EXCEPT ![t] = y], excuse[t] \subseteq y,
             kind[t] = [stealth |-> TRUE, images |-> TRUE] \/ y \cap {"raised", "resent"} # {}
      PROVE  IInv'
  <2>1. /\ Observing(t, n) \in Sender /\ q \in Page
        /\ Good(kind[t], Observing(t, n), q, y, limit.left)
    BY <1>0, <1>2, <1>3, <1>6, <1>7, <1>8, PressedIsGood
  <2>2. Goes(t, Observing(t, n), q) BY <1>4, <1>5
  <2> QED BY <1>0, <1>1, <1>8, <2>1, <2>2, Going
<1>9. CASE kind[t].stealth /\ UNCHANGED excuse
  BY <1>2, <1>8, <1>9, TabIsGood
<1>10. CASE excuse' = [excuse EXCEPT ![t] = @ \cup {"resent"}]
  <2> DEFINE y == excuse[t] \cup {"resent"}
  <2>1. /\ y \in SUBSET Excuses /\ excuse[t] \subseteq y /\ y \cap {"raised", "resent"} # {}
        /\ excuse' = [excuse EXCEPT ![t] = y]
    BY <1>10, TabIsGood DEF Excuses
  <2> HIDE DEF y
  <2> QED BY <1>8, <2>1
<1> QED BY <1>0, <1>9, <1>10

LEMMA KeptByWaited ==
  ASSUME IInv, NEW t \in Senders, Waited(t)
  PROVE  IInv'
<1>1. /\ sender[t].at = "waiting" /\ Leaves(t, sender[t], page[t])
      /\ UNCHANGED <<kind, limit, interrupt, cancelled, events, excuse>>
  BY StepIsLeft DEF Waited, Leaves
<1>2. Rest' BY <1>1, TabIsGood DEF Rest
<1>3. CASE sender[t].step = "fill" => ~sender[t].dispatched
  BY <1>1, <1>2, <1>3, TabIsGood, Leaving
<1> QED BY <1>1, <1>3, TabIsGood DEF Good, Placed

LEMMA KeptByRequest ==
  ASSUME IInv, NEW t \in Senders, QueueInterrupt(t) \/ Cancel(t)
  PROVE  IInv'
<1>1. UNCHANGED <<kind, sender, page, limit, excuse>> /\ Event
  BY DEF QueueInterrupt, Cancel
<1>2. interrupt' \in [Senders -> BOOLEAN] /\ cancelled' \in [Senders -> BOOLEAN]
  BY DEF IInv, QueueInterrupt, Cancel
<1> QED BY <1>1, <1>2, EventsCounted DEF IInv

(* A page that shows something else, through no fault of its sender.        *)
LEMMA PageTurns ==
  ASSUME IInv, NEW t \in Senders, UNCHANGED <<kind, sender, limit, interrupt, cancelled>>,
         UNCHANGED events \/ Event,
         NEW p \in Page, NEW x \in SUBSET Excuses,
         page' = [page EXCEPT ![t] = p], excuse' = [excuse EXCEPT ![t] = x],
         Good(kind[t], sender[t], p, x, limit.left)
  PROVE  IInv'
<1>1. Rest' BY TabIsGood, EventsCounted DEF Rest
<1>2. Goes(t, sender[t], p) BY DEF Goes, IInv
<1> QED BY <1>1, <1>2, TabIsGood, Going

LEMMA KeptByPageChanges ==
  ASSUME IInv, NEW t \in Senders, PageChanges(t)
  PROVE  IInv'
<1> DEFINE s == sender[t]
<1>0. /\ s.at # "over" /\ Event
      /\ UNCHANGED <<kind, sender, limit, interrupt, cancelled>>
  BY DEF PageChanges
<1>1. ASSUME NEW surface \in {"open", "limited", "blocked"},
             page' = [page EXCEPT ![t].surface = surface], UNCHANGED excuse
      PROVE  IInv'
  <2> DEFINE p == [page[t] EXCEPT !.surface = surface]
  <2>1. p \in Page BY TabIsGood DEF Page
  <2>2. Good(kind[t], s, p, excuse[t], limit.left)
    BY <2>1, TabIsGood DEF Good, Counted, Caused, Returned, Page
  <2>3. page' = [page EXCEPT ![t] = p] BY <1>1
  <2> HIDE DEF p
  <2> QED BY <1>0, <1>1, <2>1, <2>2, <2>3, TabIsGood, PageTurns
<1>2. ASSUME NEW text \in {"empty", "other"},
             page' = [page EXCEPT ![t].composer = text],
             excuse' = [excuse EXCEPT ![t] = @ \cup {"touched"}]
      PROVE  IInv'
  <2> DEFINE p == [page[t] EXCEPT !.composer = text]
             x == excuse[t] \cup {"touched"}
  <2>1. p \in Page BY TabIsGood DEF Page
  <2>2. x \in SUBSET Excuses BY TabIsGood DEF Excuses
  <2>3. Counted(kind[t], s, p, x) BY TabIsGood DEF Good, Counted, Page
  <2>4. Caused(s, p, x) BY TabIsGood DEF Good, Caused, Page
  <2>5. Told(s, x, limit.left) /\ Returned(kind[t], s, p)
    BY <1>0, TabIsGood DEF Good, Told, Returned, Page
  <2>6. Good(kind[t], s, p, x, limit.left)
    BY <2>1, <2>2, <2>3, <2>4, <2>5, TabIsGood DEF Good
  <2>7. page' = [page EXCEPT ![t] = p] /\ excuse' = [excuse EXCEPT ![t] = x] BY <1>2
  <2> HIDE DEF p, x
  <2> QED BY <1>0, <2>1, <2>2, <2>6, <2>7, PageTurns
<1>3. ASSUME NEW shown \in {"old", "stray"},
             page' = [page EXCEPT ![t].indicator = shown],
             excuse' = [excuse EXCEPT ![t] = @ \cup {"shown"}]
      PROVE  IInv'
  <2> DEFINE p == [page[t] EXCEPT !.indicator = shown]
             x == excuse[t] \cup {"shown"}
  <2>1. p \in Page BY TabIsGood DEF Page
  <2>2. x \in SUBSET Excuses BY TabIsGood DEF Excuses
  <2>3. Counted(kind[t], s, p, x) BY TabIsGood DEF Good, Counted, Page
  <2>4. Caused(s, p, x) BY TabIsGood DEF Good, Caused, Page
  <2>5. Told(s, x, limit.left) /\ Returned(kind[t], s, p)
    BY TabIsGood DEF Good, Told, Returned, Page
  <2>6. Good(kind[t], s, p, x, limit.left)
    BY <2>1, <2>2, <2>3, <2>4, <2>5, TabIsGood DEF Good
  <2>7. page' = [page EXCEPT ![t] = p] /\ excuse' = [excuse EXCEPT ![t] = x] BY <1>3
  <2> HIDE DEF p, x
  <2> QED BY <1>0, <2>1, <2>2, <2>6, <2>7, PageTurns
<1> QED BY <1>1, <1>2, <1>3 DEF PageChanges

LEMMA KeptByPageSettles ==
  ASSUME IInv, NEW t \in Senders, PageSettles(t)
  PROVE  IInv'
<1>0. /\ sender[t].at # "over"
      /\ UNCHANGED <<kind, sender, limit, interrupt, cancelled, events, excuse>>
  BY DEF PageSettles
<1>1. ASSUME NEW text \in {"empty", page[t].composer}, NEW shown \in {"none", "own"},
             shown = "own" \/ text # page[t].composer => page[t].taken > 0,
             page' = [page EXCEPT ![t] = [page[t] EXCEPT !.composer = text, !.indicator = shown]]
      PROVE  IInv'
  <2> DEFINE p == [page[t] EXCEPT !.composer = text, !.indicator = shown]
  <2>1. p \in Page BY TabIsGood DEF Page
  <2>2. Counted(kind[t], sender[t], p, excuse[t]) BY TabIsGood DEF Good, Counted, Page
  <2>3. Caused(sender[t], p, excuse[t]) BY <1>1, TabIsGood DEF Good, Caused, Page
  <2>4. Returned(kind[t], sender[t], p) BY <1>0 DEF Returned
  <2>5. Good(kind[t], sender[t], p, excuse[t], limit.left)
    BY <2>1, <2>2, <2>3, <2>4, TabIsGood DEF Good
  <2>6. page' = [page EXCEPT ![t] = p] BY <1>1
  <2> HIDE DEF p
  <2> QED BY <1>0, <2>1, <2>5, <2>6, TabIsGood, PageTurns
<1>2. CASE /\ page[t].taken > 0
           /\ page' = [page EXCEPT ![t].composer = "empty", ![t].indicator = "own"]
  <2>1. page' = [page EXCEPT ![t] = [page[t] EXCEPT !.composer = "empty", !.indicator = "own"]]
    BY <1>2 DEF IInv, Page
  <2> QED BY <1>1, <1>2, <2>1
<1>3. CASE page' = [page EXCEPT ![t].indicator = "none"]
  <2>1. [page[t] EXCEPT !.indicator = "none"]
          = [page[t] EXCEPT !.composer = page[t].composer, !.indicator = "none"]
    BY TabIsGood DEF Page
  <2>2. page' = [page EXCEPT ![t] = [page[t] EXCEPT !.composer = page[t].composer,
                                                    !.indicator = "none"]]
    BY <1>3, <2>1
  <2> QED BY <1>1, <2>2
<1> QED BY <1>2, <1>3 DEF PageSettles

LEMMA KeptByOldStreamHeard ==
  ASSUME IInv, NEW t \in Senders, OldStreamHeard(t)
  PROVE  IInv'
<1> DEFINE s == sender[t]
           s1 == [sender[t] EXCEPT !.heard = TRUE]
<1>0. /\ Event /\ UNCHANGED <<kind, page, limit, interrupt, cancelled, excuse>>
      /\ Goes(t, s1, page[t])
  BY TabIsGood DEF OldStreamHeard, Goes, IInv
<1>1. Rest' BY <1>0, TabIsGood, EventsCounted DEF Rest
<1>2. /\ s1 \in Sender /\ s1.heard
      /\ s1.step = s.step /\ s1.at = s.at /\ s1.timer = s.timer /\ s1.before = s.before
      /\ s1.noted = s.noted /\ s1.dispatched = s.dispatched /\ s1.retries = s.retries
  BY TabIsGood DEF Sender
<1>3. Good(kind[t], s, page[t], excuse[t], limit.left) BY TabIsGood
<1> HIDE DEF s, s1
<1>4. Good(kind[t], s1, page[t], excuse[t], limit.left)
  BY <1>2, <1>3 DEF Good, Placed, Counted, Caused, Told, Returned
<1> QED BY <1>0, <1>1, <1>2, <1>4, TabIsGood, Going

LEMMA KeptByRecordElsewhere ==
  ASSUME IInv, RecordElsewhere
  PROVE  IInv'
<1> USE DEF RecordElsewhere
<1>1. limit' \in Limits BY RecordedExtends DEF IInv
<1>2. events' \in 0..MaxEvents BY EventsCounted
<1>3. excuse' \in [Senders -> SUBSET Excuses] BY DEF IInv, Excuses
<1>4. ASSUME NEW t \in Senders
      PROVE  Good(kind[t], sender[t], page[t], excuse'[t], limit'.left)
  <2>1. excuse'[t] = excuse[t] \cup {"newer"} OBVIOUS
  <2> QED BY <2>1, TabIsGood, UntoldIsGood
<1> QED BY <1>1, <1>2, <1>3, <1>4 DEF IInv

LEMMA KeptByTick ==
  ASSUME IInv, Tick
  PROVE  IInv'
<1> DEFINE less(n) == IF n = 0 THEN 0 ELSE n - 1
<1>0. UNCHANGED <<kind, page, interrupt, cancelled, events, excuse>> BY DEF Tick
<1>1. \A n \in 0..Longest : less(n) \in 0..Longest BY LongestIsLongest
<1>2. limit' \in Limits /\ limit'.left = less(limit.left)
  <2>1. Window \in Nat BY SendAssumption DEF SendAssumption
  <2>2. limit' = [left |-> less(limit.left), hits |-> limit.hits, age |-> Min2(limit.age + 1, Window + 1)]
    BY DEF Tick, IInv, Limits
  <2>3. Min2(limit.age + 1, Window + 1) \in 0..(Window + 1)
    BY <2>1 DEF IInv, Limits, Min2
  <2>4. limit.left \in 0..Longest /\ limit.hits \in 0..Len(Backoff) BY DEF IInv, Limits
  <2>5. less(limit.left) \in 0..Longest BY <1>1, <2>4
  <2> HIDE DEF less
  <2> QED BY <2>2, <2>3, <2>4, <2>5 DEF Limits
<1>3. ASSUME NEW t \in Senders
      PROVE  /\ sender'[t] \in Sender
             /\ Good(kind[t], sender'[t], page[t], excuse[t], limit'.left)
  <2> DEFINE s1 == [sender[t] EXCEPT !.timer = less(@)]
  <2>1. sender'[t] = s1 BY DEF Tick
  <2>2. s1 \in Sender
    <3>1. less(sender[t].timer) \in 0..Longest BY <1>1, TabIsGood DEF Sender
    <3> HIDE DEF less
    <3> QED BY <3>1, TabIsGood DEF Sender
  <2>3. Told(s1, excuse[t], less(limit.left))
    <3>1. /\ s1.at = sender[t].at /\ s1.timer = less(sender[t].timer)
          /\ sender[t].timer \in 0..Longest /\ Told(sender[t], excuse[t], limit.left)
      BY TabIsGood DEF Sender, Good
    <3>2. limit.left \in 0..Longest BY DEF IInv, Limits
    <3> HIDE DEF s1
    <3> QED BY <3>1, <3>2, LongestIsLongest DEF Told
  <2> HIDE DEF less
  <2>4. /\ Placed(kind[t], s1) /\ Counted(kind[t], s1, page[t], excuse[t])
        /\ Caused(s1, page[t], excuse[t]) /\ Returned(kind[t], s1, page[t])
    BY TabIsGood DEF Good, Placed, Counted, Caused, Returned, Sender
  <2>5. Good(kind[t], s1, page[t], excuse[t], limit'.left)
    BY <1>2, <2>2, <2>3, <2>4, TabIsGood DEF Good
  <2> QED BY <2>1, <2>2, <2>5
<1>4. sender' \in [Senders -> Sender] BY <1>3 DEF Tick
<1> QED BY <1>0, <1>2, <1>3, <1>4 DEF IInv

-----------------------------------------------------------------------------
(* Who clicks for the first time.                                           *)

(* A tab that is handed on, by a step or at its end.                        *)
Passes(t, s, p) ==
  \/ Goes(t, s, p)
  \/ WorkflowEnds(t, s, p)
  \/ \E n \in {"fill", "send", "wait"} : AtStep(t, s, p, n)

LEMMA NotDispatching ==
  ASSUME IInv, NEW t \in Senders, NEW s \in Sender, NEW p,
         Passes(t, s, p), s.dispatched => sender[t].dispatched
  PROVE  \A u \in Senders : sender'[u].dispatched => sender[u].dispatched
<1>1. ASSUME NEW s1, sender' = [sender EXCEPT ![t] = s1], s1.dispatched = s.dispatched
      PROVE  \A u \in Senders : sender'[u].dispatched => sender[u].dispatched
  BY <1>1 DEF IInv
<1>2. CASE Goes(t, s, p) BY <1>1, <1>2 DEF Goes
<1>3. CASE WorkflowEnds(t, s, p)
  <2>1. [s EXCEPT !.at = "over"].dispatched = s.dispatched BY DEF Sender
  <2> QED BY <1>1, <1>3, <2>1 DEF WorkflowEnds
<1>4. ASSUME NEW n \in {"fill", "send", "wait"}, AtStep(t, s, p, n)
      PROVE  \A u \in Senders : sender'[u].dispatched => sender[u].dispatched
  <2>1. [s EXCEPT !.step = n, !.at = "begin"].dispatched = s.dispatched BY DEF Sender
  <2> QED BY <1>1, <1>4, <2>1 DEF AtStep
<1> QED BY <1>2, <1>3, <1>4 DEF Passes

LEMMA OnlyAClickDispatches ==
  ASSUME IInv, NEW t \in Senders, WorkflowStep(t), ~Click(t)
  PROVE  \A u \in Senders : sender'[u].dispatched => sender[u].dispatched
<1> DEFINE s == sender[t]
           None == \A u \in Senders : sender'[u].dispatched => sender[u].dispatched
<1> SUFFICES None
  OBVIOUS
<1>0. s \in Sender /\ page[t] \in Page BY TabIsGood
<1>1. ASSUME NEW s1 \in Sender, NEW p, Passes(t, s1, p), s1.dispatched => s.dispatched
      PROVE  None
  BY <1>1, NotDispatching
<1>2. ASSUME NEW p, Leaves(t, s, p) PROVE Passes(t, s, p)
  BY <1>2 DEF Leaves, Passes
<1>3. ASSUME NEW s1, NEW p, Leaves(t, s1, p) PROVE Passes(t, s1, p)
  BY <1>3 DEF Leaves, Passes
<1> HIDE DEF None
<1>4. CASE \E p : Leaves(t, s, p) BY <1>0, <1>1, <1>2, <1>4
<1>5. CASE HandleInterrupt(t)
  <2> DEFINE r == [s EXCEPT !.listening = TRUE]
  <2>1. /\ s.step \in {"fill", "send", "wait"}
        /\ r \in Sender /\ r.dispatched = s.dispatched
    BY <1>0 DEF Sender
  <2>2. Passes(t, s, page[t]) \/ Passes(t, r, page[t])
    BY <1>5, <2>1 DEF HandleInterrupt, Passes
  <2> HIDE DEF r
  <2> QED BY <1>0, <1>1, <2>1, <2>2
<1>6. CASE NoticeCancel(t)
  BY <1>0, <1>1, <1>6 DEF NoticeCancel, Passes
<1>7. ASSUME NEW p, NEW a \in {"waiting", "idling", "acting", "retrying"},
             Goes(t, [s EXCEPT !.at = a], p)
      PROVE  None
  <2>1. [s EXCEPT !.at = a] \in Sender /\ [s EXCEPT !.at = a].dispatched = s.dispatched
    BY <1>0 DEF Sender
  <2> QED BY <1>1, <1>7, <2>1 DEF Passes
<1>8. CASE EnterGuard(t)
  <2> DEFINE r == [s EXCEPT !.again = FALSE, !.before = page[t].composer # "empty",
                            !.listening = @ \/ s.step = "send"]
             r1 == [r EXCEPT !.at = "cooling", !.timer = Remaining]
             r2 == [r EXCEPT !.at = "idling"]
  <2>1. limit.left \in 0..Longest BY TabIsGood, CooldownType DEF Rest
  <2>2. r1 \in Sender /\ r1.dispatched = s.dispatched BY <1>0, <2>1 DEF Sender, Remaining
  <2>3. r2 \in Sender /\ r2.dispatched = s.dispatched BY <1>0 DEF Sender
  <2>4. Goes(t, r1, page[t]) \/ Goes(t, r2, page[t]) BY <1>8 DEF EnterGuard
  <2> HIDE DEF r1, r2
  <2> QED BY <1>1, <2>2, <2>3, <2>4 DEF Passes
<1>9. CASE Guard(t)
  <2> DEFINE r == [s EXCEPT !.again = TRUE, !.timer = Recorded.left]
  <2>1. Recorded.left \in 0..Longest BY TabIsGood, RecordedExtends DEF Rest, Limits
  <2>2. r \in Sender /\ r.dispatched = s.dispatched BY <1>0, <2>1 DEF Sender
  <2>3. \/ Leaves(t, s, page[t])
        \/ \E p : Goes(t, r, p)
        \/ Goes(t, [s EXCEPT !.at = "idling"], page[t])
    BY <1>9, StepIsLeft DEF Guard, Leaves
  <2> HIDE DEF r
  <2> QED BY <1>1, <1>4, <1>7, <2>2, <2>3 DEF Passes
<1>10. CASE IdleOver(t)
  <2>1. \/ Leaves(t, s, page[t])
        \/ Goes(t, [s EXCEPT !.at = "acting"], page[t])
    BY <1>10, StepIsLeft DEF IdleOver, Leaves
  <2> QED BY <1>4, <1>7, <2>1
<1>11. CASE Fill(t)
  <2> DEFINE r == [s EXCEPT !.noted = TRUE, !.dispatched = FALSE]
  <2>1. (\E p : Leaves(t, s, p)) \/ \E p : Leaves(t, r, p)
    BY <1>11, StepIsLeft DEF Fill, Leaves
  <2>2. r \in Sender /\ ~r.dispatched BY <1>0 DEF Sender
  <2> HIDE DEF r
  <2> QED BY <1>1, <1>3, <1>4, <2>1, <2>2
<1>12. CASE \E p : Leaves(t, [s EXCEPT !.confirmed = TRUE], p)
  <2> DEFINE r == [s EXCEPT !.confirmed = TRUE]
  <2>1. r \in Sender /\ r.dispatched = s.dispatched BY <1>0 DEF Sender
  <2> HIDE DEF r
  <2> QED BY <1>1, <1>3, <1>12, <2>1 DEF r
<1>13. CASE Observe(t)
  <2>1. \/ Leaves(t, s, page[t])
        \/ Leaves(t, [s EXCEPT !.confirmed = TRUE], page[t])
        \/ Goes(t, [s EXCEPT !.at = "retrying"], page[t])
    BY <1>13, StepIsLeft DEF Observe, Leaves
  <2> QED BY <1>4, <1>7, <1>12, <2>1
<1>14. CASE RetryNotNeeded(t)
  <2>1. \/ Leaves(t, s, page[t])
        \/ Leaves(t, [s EXCEPT !.confirmed = TRUE], page[t])
    BY <1>14, StepIsLeft DEF RetryNotNeeded, Leaves
  <2> QED BY <1>4, <1>12, <2>1
<1>15. CASE ClickAgain(t)
  <2>1. s.dispatched BY <1>15, TabIsGood DEF ClickAgain, Good, Placed
  <2>2. \E s1 : sender' = [sender EXCEPT ![t] = s1] BY <1>15 DEF ClickAgain, Goes
  <2> QED BY <2>1, <2>2 DEF None, IInv
<1>16. CASE Listen(t)
  BY <1>7, <1>16 DEF Listen
<1>17. CASE SuppressRetry(t) \/ Waited(t)
  <2>1. Leaves(t, s, page[t]) BY <1>17, StepIsLeft DEF SuppressRetry, Waited, Leaves
  <2> QED BY <1>4, <2>1
<1> QED
  BY <1>5, <1>6, <1>8, <1>9, <1>10, <1>11, <1>13, <1>14, <1>15, <1>16, <1>17 DEF WorkflowStep

(* Who clicks first looked at the cooldown, or has an excuse.               *)
LEMMA ClicksHeedTheCooldown ==
  ASSUME IInv, NEW t \in Senders, Click(t), limit.left > 0
  PROVE  /\ excuse[t] \cap {"newer", "unread"} # {}
         /\ \A u \in Senders \ {t} : sender'[u] = sender[u]
<1>1. excuse[t] \cap {"newer", "unread"} # {}
  <2>1. sender[t].at = "acting" BY DEF Click
  <2>2. limit.left # 0 BY CooldownType DEF IInv
  <2> QED BY <2>1, <2>2, TabIsGood DEF Good, Told
<1>2. \E s1 : sender' = [sender EXCEPT ![t] = s1]
  BY StepIsLeft DEF Click, Goes, WorkflowEnds, AtStep
<1> QED BY <1>1, <1>2 DEF IInv

-----------------------------------------------------------------------------
(* The theorems.                                                            *)

LEMMA StepKeepsIInv == IInv /\ [Next]_vars => IInv'
<1> SUFFICES ASSUME IInv, [Next]_vars PROVE IInv'
  OBVIOUS
<1>1. ASSUME NEW t \in Senders, WorkflowStep(t) PROVE IInv'
  BY <1>1, KeptByHandleInterrupt, KeptByNoticeCancel, KeptByListen, KeptByEnterGuard,
     KeptByGuard, KeptByIdleOver, KeptByFill, KeptByClick, KeptByObserve,
     KeptByRetryNotNeeded, KeptBySuppressRetry, KeptByClickAgain, KeptByWaited
     DEF WorkflowStep
<1>2. ASSUME NEW t \in Senders,
             \/ QueueInterrupt(t) \/ Cancel(t)
             \/ PageChanges(t) \/ PageSettles(t) \/ OldStreamHeard(t)
      PROVE  IInv'
  BY <1>2, KeptByRequest, KeptByPageChanges, KeptByPageSettles, KeptByOldStreamHeard
<1>3. CASE RecordElsewhere \/ Tick
  BY <1>3, KeptByRecordElsewhere, KeptByTick
<1>4. CASE UNCHANGED vars
  BY <1>4 DEF vars, IInv
<1> QED BY <1>1, <1>2, <1>3, <1>4 DEF Next

(* The invariant the theorems below rest on holds in every reachable state. *)
THEOREM Invariant == Spec => []IInv
<1> QED BY InitIInv, StepKeepsIInv, PTL DEF Spec

(* Every variable keeps its type, whatever the backoff: no deadline is      *)
(* further than its longest entry, and no turn is sent more often than its  *)
(* retries allow.                                                           *)
THEOREM TypeCorrect == Spec => []TypeOK
<1>1. IInv => TypeOK BY DEF IInv, TypeOK, Limits
<1> QED BY <1>1, Invariant, PTL

(* ChatGPT takes at most one message of a turn, but for the three ways out  *)
(* the code leaves (guard_before_retry).                                    *)
THEOREM TurnsAreSentOnce == Spec => []SentOnce
<1>1. IInv => SentOnce BY DEF IInv, Good, Counted, SentOnce
<1> QED BY <1>1, Invariant, PTL

(* What the network listener, _is_send_success or the stop button confirms  *)
(* was sent, or the listener saw a stream of an old turn, or somebody else  *)
(* touched the page: the three ways are all there are.                      *)
THEOREM ConfirmationsAreTrue == Spec => []ConfirmedIsSent
<1>1. IInv => ConfirmedIsSent BY DEF IInv, Good, Caused, ConfirmedIsSent
<1> QED BY <1>1, Invariant, PTL

(* An unsent prompt that was noted never stays behind in the composer       *)
(* (_clear_owned_unsent_composer).                                          *)
THEOREM PromptsAreTakenBack == Spec => []ComposerReturned
<1>1. IInv => ComposerReturned BY DEF IInv, Good, Returned, ComposerReturned
<1> QED BY <1>1, Invariant, PTL

(* No click goes into a cooldown its sender could know of                   *)
(* (_wait_existing_cooldown).                                               *)
THEOREM CooldownsAreSeen == Spec => CooldownIsSeen
<1> DEFINE Seen ==
      \A t \in Senders :
        (~sender[t].dispatched /\ sender'[t].dispatched /\ limit.left > 0)
          => excuse[t] \cap {"newer", "unread"} # {}
<1>1. ASSUME IInv, [Next]_vars PROVE [Seen]_vars
  <2> SUFFICES ASSUME NEW t \in Senders, ~sender[t].dispatched, sender'[t].dispatched,
                      limit.left > 0
               PROVE  excuse[t] \cap {"newer", "unread"} # {}
    OBVIOUS
  <2>1. ASSUME NEW u \in Senders, WorkflowStep(u)
        PROVE  excuse[t] \cap {"newer", "unread"} # {}
    <3>1. Click(u) BY <1>1, <2>1, OnlyAClickDispatches
    <3>2. u = t BY <1>1, <3>1, ClicksHeedTheCooldown
    <3> QED BY <1>1, <3>1, <3>2, ClicksHeedTheCooldown
  <2>2. ~UNCHANGED sender OBVIOUS
  <2>3. ~Tick
    <3>1. SUFFICES ASSUME Tick PROVE FALSE
      OBVIOUS
    <3>2. sender'[t].dispatched = sender[t].dispatched
      <4>1. sender[t] \in Sender BY <1>1, TabIsGood
      <4> QED BY <3>1, <4>1 DEF Tick, Sender
    <3> QED BY <3>2
  <2>4. ASSUME NEW u \in Senders, OldStreamHeard(u) PROVE FALSE
    <3>1. sender'[t].dispatched = sender[t].dispatched
      BY <1>1, <2>4, TabIsGood DEF OldStreamHeard, Sender
    <3> QED BY <3>1
  <2> QED BY <1>1, <2>1, <2>2, <2>3, <2>4
        DEF Next, vars, QueueInterrupt, Cancel, PageChanges, PageSettles, RecordElsewhere
<1> QED BY <1>1, Invariant, PTL DEF Spec, CooldownIsSeen
=============================================================================
