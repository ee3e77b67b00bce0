---------------------------- MODULE TabPoolProofs ----------------------------
(***************************************************************************)
(* What is proved of TabPool for every number of targets, tasks, scanners  *)
(* and sessions, and every bound on tabs and attempts: the inductive       *)
(* invariant Inv, and from it the invariants that the runs of MCTabPool    *)
(* check, and that no step drops a live session.                           *)
(***************************************************************************)
EXTENDS TabPool, FiniteSetTheorems, WellFoundedInduction, SequenceTheorems, TLAPS

-----------------------------------------------------------------------------
(* The inductive invariant. *)

(* What a session can be (TabStatus), and one that is not wrapped yet. *)
Statuses == {"unborn", "idle", "busy", "error", "closed"}

(* The types of the records. *)
SessionRecord == [raw : Targets \cup {None}, status : Statuses, owner : Tasks \cup {None},
                  url : {"usable", "unusable", "none"}]
EntryRecord   == [by : Sessions \cup {None}, task : Tasks \cup {None}, permanent : BOOLEAN]
FailedRecord  == [raw : Targets, by : Sessions \cup {None}, task : Tasks \cup {None}]
PoolRecord    == [wrapped : 0..MaxSessions, session : [Sessions -> SessionRecord], tabs : SUBSET Sessions,
                  mapped : [Targets -> Sessions \cup {None}], quarantine : [Targets -> EntryRecord],
                  failed : Seq(FailedRecord)]
TaskRecord    == [at : {"new", "taken", "driving", "releasing", "over"}, tab : Sessions \cup {None}]
ScanRecord    == [at : {"away", "asking", "knowing", "opening", "wrapping"}, since : 0..MaxSessions,
                  seen : SUBSET Targets, fit : SUBSET Targets, raw : Targets \cup {None}]
JobRecord     == [entry : FailedRecord, at : {"waiting", "judging", "closing"}]

(* The types of everything but the pool. *)
World ==
  /\ target \in [Targets -> {"unopened", "usable", "unusable", "closed"}]
  /\ detours \in [Targets -> 0..MaxDetours]
  /\ task \in [Tasks -> TaskRecord]
  /\ scan \in [Scanners -> ScanRecord]
  /\ recovery \in Seq(JobRecord)
  /\ attempts \in [Targets -> Nat]
  /\ presumed \subseteq Tasks
  /\ exposed \subseteq Targets

(* Targets the browser has, or had. *)
Opened == {r \in Targets : target[r] # "unopened"}

(* Sessions are numbered in the order they were wrapped, each for a target  *)
(* that was opened; those in the pool are idle, busy or failed, the others  *)
(* closed; the map leads to the pooled session of a target.                 *)
Structured(p) ==
  /\ p.tabs \subseteq 1..p.wrapped
  /\ \A s \in Sessions : s > p.wrapped => p.session[s].raw = None
  /\ \A s \in 1..p.wrapped : p.session[s].raw \in Opened
  /\ \A s \in p.tabs : p.session[s].status \in {"idle", "busy", "error"}
  /\ \A s \in Sessions \ p.tabs : p.session[s].status \in {"unborn", "closed"}
  /\ \A r \in Targets : p.mapped[r] # None => p.mapped[r] \in p.tabs /\ p.session[p.mapped[r]].raw = r

(* A pooled session is the one its target is mapped to: a target has one    *)
(* session in the pool.                                                     *)
Unique(p, X) == \A s \in p.tabs : p.session[s].raw \notin X => p.mapped[p.session[s].raw] = s

(* A quarantined target has no session in the pool. *)
Out(p, X) ==
  \A r \in Targets \ X : p.quarantine[r] # NoEntry => \A s \in p.tabs : p.session[s].raw # r

(* Sessions that have left the pool. A session never comes back, so that an *)
(* entry filed under a past session is not taken for a later one.           *)
Past(p) == {None} \cup ((1..p.wrapped) \ p.tabs)

(* The entries that wait for the recovery, in its queue or on their way to  *)
(* it.                                                                      *)
Pending(p) == [i \in DOMAIN recovery |-> recovery[i].entry] \o p.failed

(* Entries are about targets that had a session, and filed under past ones. *)
Origin(p) ==
  /\ \A r \in Targets : /\ p.quarantine[r] # NoEntry => \E s \in 1..p.wrapped : p.session[s].raw = r
                        /\ p.quarantine[r].by \in Past(p)
  /\ \A i \in DOMAIN Pending(p) : Pending(p)[i].by \in Past(p) /\ Pending(p)[i].raw \in Opened

(* What entry i says of its target is what the quarantine says, and it is   *)
(* the only one about the target.                                           *)
FiledUnder(p, i) ==
  LET r == Pending(p)[i].raw IN
  /\ p.quarantine[r] # NoEntry
  /\ p.quarantine[r].by = Pending(p)[i].by
  /\ p.quarantine[r].task = Pending(p)[i].task
  /\ \A j \in DOMAIN Pending(p) : Pending(p)[j].raw = r => j = i

(* While a target is open what waits for the recovery agrees with its       *)
(* entry.                                                                   *)
Filed(p, X) == \A i \in DOMAIN Pending(p) : Pending(p)[i].raw \in Open \ X => FiledUnder(p, i)

(* An entry that is not permanent waits for the recovery. *)
Worked(p) ==
  \A r \in Targets : p.quarantine[r] # NoEntry /\ ~p.quarantine[r].permanent =>
    \E i \in DOMAIN Pending(p) : Pending(p)[i].raw = r /\ Pending(p)[i].by = p.quarantine[r].by

(* A job the recovery judges has no worker any more that was not taken for  *)
(* gone; a job whose tab is closed has a permanent entry, or none, or has   *)
(* been overtaken by a later one.                                           *)
Judged(p) ==
  \A i \in DOMAIN recovery :
    /\ recovery[i].at = "judging" => recovery[i].entry.task \in presumed \cup {None}
    /\ recovery[i].at = "closing" =>
         LET e == p.quarantine[recovery[i].entry.raw] IN
         e = NoEntry \/ e.permanent \/ e.by # recovery[i].entry.by

(* A task with a tab. *)
OnTab(t) == task[t].at \in {"taken", "driving", "releasing"}

(* A task has a tab of its own, that nobody else can take; the tab knows    *)
(* the task as its owner until it is released.                              *)
Apart(p) ==
  /\ \A t \in Tasks : OnTab(t) =>
       LET s == task[t].tab IN
       /\ s \in 1..p.wrapped
       /\ p.session[s].status # "idle"
       /\ task[t].at # "releasing" /\ p.session[s].status \in {"busy", "error"} => p.session[s].owner = t
  /\ \A t, u \in Tasks : OnTab(t) /\ OnTab(u) /\ task[t].tab = task[u].tab => t = u

(* A worker that was not taken for gone drives a pooled tab, or one whose   *)
(* quarantine names it.                                                     *)
Driven(p, X) ==
  \A t \in Tasks \ presumed :
    LET s == task[t].tab
        r == p.session[s].raw IN
    task[t].at = "driving" /\ r \in Open \ X =>
      s \in p.tabs \/ (p.quarantine[r] # NoEntry /\ p.quarantine[r].task = t)

(* What holds of the pool p when the targets of X do not count. *)
PoolInv(p, X) ==
  /\ p \in PoolRecord
  /\ Structured(p) /\ Unique(p, X) /\ Out(p, X) /\ Origin(p)
  /\ Filed(p, X) /\ Worked(p) /\ Judged(p) /\ Apart(p) /\ Driven(p, X)

(* What a scan in flight knows: usable targets are among those it has seen, *)
(* and of the sessions that were in the pool when it began, those it has    *)
(* not seen are closed.                                                     *)
Asked(p) ==
  \A x \in Scanners :
    /\ scan[x].since <= p.wrapped
    /\ scan[x].seen \subseteq Opened /\ scan[x].fit \subseteq scan[x].seen
    /\ scan[x].at = "knowing" =>
         \A s \in 1..scan[x].since : p.session[s].raw \in scan[x].seen \/ target[p.session[s].raw] = "closed"
    /\ scan[x].at = "wrapping" => scan[x].raw \in Opened

-----------------------------------------------------------------------------
(* Sets as sequences. *)

(* A finite set, as a sequence: each element once. *)
LEMMA SetToSeqFacts ==
  ASSUME NEW S, IsFiniteSet(S)
  PROVE  /\ SetToSeq(S) \in Seq(S)
         /\ \A i, j \in DOMAIN SetToSeq(S) : SetToSeq(S)[i] = SetToSeq(S)[j] => i = j
         /\ \A e \in S : \E i \in DOMAIN SetToSeq(S) : SetToSeq(S)[i] = e
<1> DEFINE n == Cardinality(S)
<1>1. n \in Nat /\ ExistsBijection(1..n, S)
  BY FS_CardinalityType
<1>2. \E f \in [1..n -> S] : IsInjective(f)
  BY <1>1, Zenon DEF ExistsBijection, Bijection, Injection
<1> DEFINE f == SetToSeq(S)
<1>3. f \in [1..n -> S] /\ IsInjective(f)
  BY <1>2, Zenon DEF SetToSeq
<1>4. IsFiniteSet(1..n) /\ Cardinality(1..n) = n
  BY <1>1, FS_Interval
<1> HIDE DEF f
<1>5. f \in Injection(1..n, S)
  BY <1>3 DEF Injection
<1>6. f \in Surjection(1..n, S)
  BY <1>4, <1>5, FS_Injection
<1>7. \A e \in S : \E i \in 1..n : f[i] = e
  BY <1>6 DEF Surjection
<1>8. f \in Seq(S) /\ DOMAIN f = 1..n
  BY <1>1, <1>3
<1>9. QED
  BY <1>3, <1>7, <1>8 DEF f, IsInjective

(* The orders a set can be listed in. *)
LEMMA SetToSeqsFacts ==
  ASSUME NEW S, IsFiniteSet(S), NEW q \in SetToSeqs(S)
  PROVE  /\ q \in Seq(S)
         /\ \A i, j \in DOMAIN q : q[i] = q[j] => i = j
<1> DEFINE n == Cardinality(S)
<1>1. n \in Nat
  BY FS_CardinalityType
<1>2. q \in [1..n -> S] /\ \A i, j \in 1..n : i # j => q[i] # q[j]
  BY DEF SetToSeqs
<1> HIDE DEF n
<1>3. q \in Seq(S) /\ DOMAIN q = 1..n
  BY <1>1, <1>2
<1>4. QED
  BY <1>2, <1>3

(* A nonempty set of numbers up to n has a largest one ... *)
LEMMA MaxFacts ==
  ASSUME NEW n \in Nat, NEW I \in SUBSET (0..n), I # {}
  PROVE  Max(I) \in I
<1> DEFINE T == {n - i : i \in I}
<1>1. T \subseteq Nat /\ T # {}
  OBVIOUS
<1>2. PICK x \in T : \A y \in T : ~(<<y, x>> \in OpToRel(<, Nat))
  BY <1>1, NatLessThanWellFounded, WFMin
<1>3. \A y \in T : ~(y < x)
  BY <1>1, <1>2 DEF OpToRel
<1>4. PICK m \in I : x = n - m
  OBVIOUS
<1>5. \A j \in I : j <= m
  <2>1. ASSUME NEW j \in I PROVE j <= m
    <3>1. n - j \in T /\ ~(n - j < n - m) /\ j \in 0..n /\ m \in 0..n
      BY <1>3, <1>4
    <3>2. QED
      BY <3>1
  <2>2. QED
    BY <2>1
<1>6. \E k \in I : \A j \in I : k >= j
  BY <1>4, <1>5
<1>7. QED
  BY <1>6 DEF Max

(* ... and a nonempty set of sessions a smallest. *)
LEMMA MinFacts ==
  ASSUME NEW I \in SUBSET Nat, I # {}
  PROVE  \E m \in I : \A u \in I : m <= u
<1>1. PICK x \in I : \A y \in I : ~(<<y, x>> \in OpToRel(<, Nat))
  BY NatLessThanWellFounded, WFMin
<1>2. \A y \in I : ~(y < x)
  BY <1>1 DEF OpToRel
<1>3. QED
  BY <1>2

-----------------------------------------------------------------------------
(* What the operators on the pool return. *)

(* The types of the fields of the pool. *)
LEMMA PoolFields ==
  ASSUME NEW p \in PoolRecord
  PROVE  /\ p.wrapped \in 0..MaxSessions
         /\ p.session \in [Sessions -> SessionRecord]
         /\ p.tabs \subseteq Sessions
         /\ p.mapped \in [Targets -> Sessions \cup {None}]
         /\ p.quarantine \in [Targets -> EntryRecord]
         /\ p.failed \in Seq(FailedRecord)
BY DEF PoolRecord

(* The types of the fields of a session. *)
LEMMA SessionFields ==
  ASSUME NEW p \in PoolRecord, NEW s \in Sessions
  PROVE  /\ p.session[s] \in SessionRecord
         /\ p.session[s].raw \in Targets \cup {None}
         /\ p.session[s].status \in Statuses
         /\ p.session[s].owner \in Tasks \cup {None}
         /\ p.session[s].url \in {"usable", "unusable", "none"}
<1>1. p.session[s] \in SessionRecord
  BY PoolFields
<1>2. QED
  BY <1>1 DEF SessionRecord

(* The types of the fields of an entry. *)
LEMMA EntryFields ==
  ASSUME NEW p \in PoolRecord, NEW r \in Targets
  PROVE  /\ p.quarantine[r] \in EntryRecord
         /\ p.quarantine[r].by \in Sessions \cup {None}
         /\ p.quarantine[r].task \in Tasks \cup {None}
         /\ p.quarantine[r].permanent \in BOOLEAN
<1>1. p.quarantine[r] \in EntryRecord
  BY PoolFields
<1>2. QED
  BY <1>1 DEF EntryRecord

(* The absent entry is an entry. *)
LEMMA NoEntryFields ==
  NoEntry \in EntryRecord /\ NoEntry.by = None /\ NoEntry.task = None /\ NoEntry.permanent = FALSE
BY DEF NoEntry, EntryRecord

(* Closing sessions changes their status and their owner. *)
LEMMA ClosedFacts ==
  ASSUME NEW p \in PoolRecord, NEW L \in SUBSET Sessions
  PROVE  /\ Closed(p.session, L) \in [Sessions -> SessionRecord]
         /\ \A s \in Sessions :
              /\ Closed(p.session, L)[s].raw = p.session[s].raw
              /\ Closed(p.session, L)[s].url \in {p.session[s].url, "none"}
              /\ s \in L => Closed(p.session, L)[s].status = "closed" /\ Closed(p.session, L)[s].owner = None
              /\ s \notin L => Closed(p.session, L)[s] = p.session[s]
<1>1. p.session \in [Sessions -> SessionRecord]
  BY PoolFields
<1> DEFINE c == Closed(p.session, L)
<1>2. \A s \in Sessions : c[s] = IF s \in L THEN [p.session[s] EXCEPT !.status = "closed", !.owner = None, !.url = "none"]
                                 ELSE p.session[s]
  BY DEF Closed
<1>3. DOMAIN c = Sessions
  BY DEF Closed
<1>4. ASSUME NEW s \in Sessions, s \in L
      PROVE  /\ c[s] \in SessionRecord /\ c[s].raw = p.session[s].raw /\ c[s].url = "none"
             /\ c[s].status = "closed" /\ c[s].owner = None
  <2>1. p.session[s] \in SessionRecord
    BY <1>1
  <2>2. c[s] = [p.session[s] EXCEPT !.status = "closed", !.owner = None, !.url = "none"]
    BY <1>2, <1>4
  <2> HIDE DEF c
  <2>3. QED
    BY <2>1, <2>2 DEF SessionRecord, Statuses
<1>5. ASSUME NEW s \in Sessions, s \notin L PROVE c[s] = p.session[s] /\ c[s] \in SessionRecord
  BY <1>1, <1>2, <1>5
<1>6. c = [s \in Sessions |-> c[s]]
  BY DEF Closed
<1> HIDE DEF c
<1>7. c \in [Sessions -> SessionRecord]
  BY <1>4, <1>5, <1>6
<1>8. QED
  BY <1>4, <1>5, <1>7 DEF c

(* No target leads to a session that is gone. *)
LEMMA UnmappedFacts ==
  ASSUME NEW p \in PoolRecord, NEW L
  PROVE  /\ Unmapped(p, L) \in [Targets -> Sessions \cup {None}]
         /\ \A r \in Targets : Unmapped(p, L)[r] = IF p.mapped[r] \in L THEN None ELSE p.mapped[r]
BY PoolFields DEF Unmapped

(* What Dropped leaves of the pool. *)
LEMMA DroppedFields ==
  ASSUME NEW p \in PoolRecord, NEW L \in SUBSET Sessions
  PROVE  /\ Dropped(p, L) \in PoolRecord
         /\ Dropped(p, L).wrapped = p.wrapped
         /\ Dropped(p, L).session = Closed(p.session, L)
         /\ Dropped(p, L).tabs = {s \in p.tabs : s \in L => p.session[s].status = "busy"}
         /\ Dropped(p, L).mapped = Unmapped(p, L)
         /\ Dropped(p, L).quarantine = p.quarantine
         /\ Dropped(p, L).failed = p.failed
<1> DEFINE ss == Closed(p.session, L)
<1> DEFINE tt == {s \in p.tabs : s \in L => p.session[s].status = "busy"}
<1> DEFINE mm == Unmapped(p, L)
<1>1. ss \in [Sessions -> SessionRecord] /\ tt \subseteq Sessions /\ mm \in [Targets -> Sessions \cup {None}]
  BY ClosedFacts, UnmappedFacts, PoolFields
<1>2. Dropped(p, L) = [p EXCEPT !.session = ss, !.tabs = tt, !.mapped = mm]
  BY DEF Dropped
<1> HIDE DEF ss, tt, mm
<1>3. QED
  BY <1>1, <1>2 DEF PoolRecord, ss, tt, mm

(* The entries of a set of targets whose sessions are known. *)
LEMMA EntriesFacts ==
  ASSUME NEW p \in PoolRecord, NEW B \in SUBSET Targets, \A r \in B : p.mapped[r] \in Sessions
  PROVE  /\ SetToSeq(Entries(p, B)) \in Seq(FailedRecord)
         /\ \A i, j \in DOMAIN SetToSeq(Entries(p, B)) :
              SetToSeq(Entries(p, B))[i].raw = SetToSeq(Entries(p, B))[j].raw => i = j
         /\ \A i \in DOMAIN SetToSeq(Entries(p, B)) :
              LET e == SetToSeq(Entries(p, B))[i] IN
              e.raw \in B /\ e.by = p.mapped[e.raw] /\ e.task = p.session[p.mapped[e.raw]].owner
         /\ \A r \in B : \E i \in DOMAIN SetToSeq(Entries(p, B)) : SetToSeq(Entries(p, B))[i].raw = r
<1> DEFINE entry(r) == [raw |-> r, by |-> p.mapped[r], task |-> p.session[p.mapped[r]].owner]
<1> DEFINE E == Entries(p, B)
<1> DEFINE w == SetToSeq(E)
<1>1. E = {entry(r) : r \in B}
  BY DEF Entries
<1>2. \A r \in B : entry(r) \in FailedRecord /\ entry(r).raw = r /\ entry(r).by = p.mapped[r]
                   /\ entry(r).task = p.session[p.mapped[r]].owner
  BY SessionFields DEF FailedRecord
<1>3. IsFiniteSet(E)
  <2>1. IsFiniteSet(B)
    BY PoolAssumption, FS_Subset DEF PoolAssumption
  <2> DEFINE f == [r \in B |-> entry(r)]
  <2>2. f \in [B -> E] /\ \A e \in E : \E r \in B : f[r] = e
    BY <1>1
  <2>3. f \in Surjection(B, E)
    BY <2>2 DEF Surjection
  <2>4. QED
    BY <2>1, <2>3, FS_Surjection
<1> HIDE DEF E, entry
<1>4. /\ w \in Seq(E)
      /\ \A i, j \in DOMAIN w : w[i] = w[j] => i = j
      /\ \A e \in E : \E i \in DOMAIN w : w[i] = e
  BY <1>3, SetToSeqFacts
<1> HIDE DEF w
<1>5. \A i \in DOMAIN w : w[i] \in E
  BY <1>4
<1>6. \A i \in DOMAIN w : \E r \in B : w[i] = entry(r)
  BY <1>1, <1>5
<1>7. \A r \in B : \E i \in DOMAIN w : w[i] = entry(r)
  <2>1. \A r \in B : entry(r) \in E
    BY <1>1
  <2>2. QED
    BY <1>4, <2>1
<1>8. E \subseteq FailedRecord
  BY <1>1, <1>2
<1>9. w \in Seq(FailedRecord)
  BY <1>4, <1>8
<1>10. \A i \in DOMAIN w : w[i].raw \in B /\ w[i] = entry(w[i].raw)
  BY <1>2, <1>6
<1>11. \A i \in DOMAIN w : w[i].by = p.mapped[w[i].raw] /\ w[i].task = p.session[p.mapped[w[i].raw]].owner
  BY <1>2, <1>10
<1>12. \A i, j \in DOMAIN w : w[i].raw = w[j].raw => i = j
  BY <1>4, <1>10
<1>13. \A r \in B : \E i \in DOMAIN w : w[i].raw = r
  BY <1>2, <1>7
<1>14. QED
  BY <1>9, <1>10, <1>11, <1>12, <1>13 DEF w, E

(* What the clean-up leaves of the pool. *)
LEMMA CleanedFields ==
  ASSUME NEW p \in PoolRecord
  PROVE  /\ Cleaned(p) \in PoolRecord
         /\ Cleaned(p).wrapped = p.wrapped
         /\ Cleaned(p).session = Closed(p.session, Unfit(p))
         /\ Cleaned(p).tabs = p.tabs \ Unfit(p)
         /\ Cleaned(p).mapped = Unmapped(p, Unfit(p))
         /\ \A r \in Targets :
              /\ r \in Quarantined(p) =>
                   /\ Cleaned(p).quarantine[r].by = p.mapped[r]
                   /\ Cleaned(p).quarantine[r].task = p.session[p.mapped[r]].owner
                   /\ Cleaned(p).quarantine[r].permanent = FALSE
              /\ r \notin Quarantined(p) => Cleaned(p).quarantine[r] = p.quarantine[r]
         /\ Cleaned(p).failed = p.failed \o SetToSeq(Entries(p, Quarantined(p)))
<1> DEFINE L == Unfit(p)
<1> DEFINE B == Quarantined(p)
<1> DEFINE entry(r) == [by |-> p.mapped[r], task |-> p.session[p.mapped[r]].owner, permanent |-> FALSE]
<1> DEFINE ss == Closed(p.session, L)
<1> DEFINE tt == p.tabs \ L
<1> DEFINE mm == Unmapped(p, L)
<1> DEFINE qq == [r \in Targets |-> IF r \in B THEN entry(r) ELSE p.quarantine[r]]
<1> DEFINE ff == p.failed \o SetToSeq(Entries(p, B))
<1>1. L \subseteq Sessions /\ B \subseteq Targets /\ \A r \in B : p.mapped[r] \in L
  BY PoolFields DEF Unfit, Quarantined
<1>2. ss \in [Sessions -> SessionRecord] /\ tt \subseteq Sessions /\ mm \in [Targets -> Sessions \cup {None}]
  BY <1>1, ClosedFacts, UnmappedFacts, PoolFields
<1>3. \A r \in B : entry(r) \in EntryRecord /\ entry(r).by = p.mapped[r]
                   /\ entry(r).task = p.session[p.mapped[r]].owner /\ entry(r).permanent = FALSE
  BY <1>1, SessionFields DEF EntryRecord
<1> HIDE DEF entry
<1>4. qq \in [Targets -> EntryRecord]
  BY <1>3, EntryFields
<1>5. ff \in Seq(FailedRecord)
  <2>1. SetToSeq(Entries(p, B)) \in Seq(FailedRecord)
    BY <1>1, EntriesFacts
  <2>2. p.failed \in Seq(FailedRecord)
    BY PoolFields
  <2> HIDE DEF B
  <2>3. QED
    BY <2>1, <2>2
<1>6. Cleaned(p) = [p EXCEPT !.session = ss, !.tabs = tt, !.mapped = mm, !.quarantine = qq, !.failed = ff]
  BY DEF Cleaned, entry
<1>7. \A r \in Targets : /\ r \in B => qq[r] = entry(r)
                         /\ r \notin B => qq[r] = p.quarantine[r]
  OBVIOUS
<1> HIDE DEF ss, tt, mm, qq, ff
<1>8. /\ Cleaned(p) \in PoolRecord
      /\ Cleaned(p).wrapped = p.wrapped /\ Cleaned(p).session = ss /\ Cleaned(p).tabs = tt
      /\ Cleaned(p).mapped = mm /\ Cleaned(p).quarantine = qq /\ Cleaned(p).failed = ff
  BY <1>2, <1>4, <1>5, <1>6 DEF PoolRecord
<1>9. QED
  BY <1>1, <1>3, <1>7, <1>8 DEF ss, tt, mm, ff

(* What a scan forgets of barred targets that are gone. *)
LEMMA PrunedFields ==
  ASSUME NEW p \in PoolRecord, NEW seen
  PROVE  /\ Pruned(p, seen) \in PoolRecord
         /\ Pruned(p, seen).wrapped = p.wrapped
         /\ Pruned(p, seen).session = p.session
         /\ Pruned(p, seen).tabs = p.tabs
         /\ Pruned(p, seen).mapped = p.mapped
         /\ Pruned(p, seen).failed = p.failed
         /\ \A r \in Targets :
              Pruned(p, seen).quarantine[r] = IF r \in Prunable(p, seen) THEN NoEntry ELSE p.quarantine[r]
<1> DEFINE qq == [r \in Targets |-> IF r \in Prunable(p, seen) THEN NoEntry ELSE p.quarantine[r]]
<1>1. qq \in [Targets -> EntryRecord]
  BY EntryFields, NoEntryFields
<1>2. Pruned(p, seen) = [p EXCEPT !.quarantine = qq]
  BY DEF Pruned
<1>3. \A r \in Targets : qq[r] = IF r \in Prunable(p, seen) THEN NoEntry ELSE p.quarantine[r]
  OBVIOUS
<1> HIDE DEF qq
<1>4. QED
  BY <1>1, <1>2, <1>3 DEF PoolRecord

(* A lost mapping comes back to a pooled session of the target. *)
LEMMA RepairedFields ==
  ASSUME NEW p \in PoolRecord, NEW seen
  PROVE  /\ Repaired(p, seen) \in PoolRecord
         /\ Repaired(p, seen).wrapped = p.wrapped
         /\ Repaired(p, seen).session = p.session
         /\ Repaired(p, seen).tabs = p.tabs
         /\ Repaired(p, seen).quarantine = p.quarantine
         /\ Repaired(p, seen).failed = p.failed
         /\ \A r \in Targets :
              \/ Repaired(p, seen).mapped[r] = p.mapped[r]
              \/ /\ ~Live(p, r)
                 /\ Repaired(p, seen).mapped[r] \in p.tabs
                 /\ p.session[Repaired(p, seen).mapped[r]].raw = r
<1> DEFINE stray(r) == {s \in p.tabs : p.session[s].raw = r}
<1> DEFINE first(r) == CHOOSE s \in stray(r) : \A u \in stray(r) : s <= u
<1> DEFINE mm == [r \in Targets |-> IF r \in seen /\ ~Live(p, r) /\ stray(r) # {} THEN first(r)
                                    ELSE p.mapped[r]]
<1>1. ASSUME NEW r \in Targets, stray(r) # {} PROVE first(r) \in stray(r)
  <2>1. stray(r) \subseteq Nat
    BY PoolFields DEF Sessions
  <2>2. \E m \in stray(r) : \A u \in stray(r) : m <= u
    BY <1>1, <2>1, MinFacts
  <2>3. QED
    BY <2>2
<1>2. \A r \in Targets : \/ mm[r] = p.mapped[r]
                         \/ ~Live(p, r) /\ mm[r] \in p.tabs /\ p.session[mm[r]].raw = r
  <2>1. ASSUME NEW r \in Targets PROVE \/ mm[r] = p.mapped[r]
                                       \/ ~Live(p, r) /\ mm[r] \in stray(r)
    BY <1>1
  <2>2. QED
    BY <2>1
<1>3. mm \in [Targets -> Sessions \cup {None}]
  <2>1. DOMAIN mm = Targets /\ mm = [r \in Targets |-> mm[r]]
    OBVIOUS
  <2> HIDE DEF mm
  <2>2. \A r \in Targets : mm[r] \in Sessions \cup {None}
    BY <1>2, PoolFields
  <2>3. QED
    BY <2>1, <2>2
<1>4. Repaired(p, seen) = [p EXCEPT !.mapped = mm]
  BY DEF Repaired
<1> HIDE DEF mm
<1>5. QED
  BY <1>2, <1>3, <1>4 DEF PoolRecord

(* The sessions of the answer's targets remember what it says of them; the  *)
(* rest of the pool is as it was.                                           *)
LEMMA RememberedFields ==
  ASSUME NEW p \in PoolRecord, NEW seen, NEW fit
  PROVE  LET k == Remembered(p, seen, fit) IN
         /\ k \in PoolRecord
         /\ k.wrapped = p.wrapped /\ k.tabs = p.tabs /\ k.mapped = p.mapped
         /\ k.quarantine = p.quarantine /\ k.failed = p.failed
         /\ \A s \in Sessions :
              /\ k.session[s].raw = p.session[s].raw
              /\ k.session[s].status = p.session[s].status
              /\ k.session[s].owner = p.session[s].owner
              /\ \/ k.session[s].url = p.session[s].url
                 \/ k.session[s].url = "usable"
                 \/ k.session[s].url = "unusable" /\ p.session[s].raw \in seen \ fit
<1> DEFINE told(s) == /\ s \in p.tabs
                      /\ p.session[s].raw \in seen
                      /\ p.mapped[p.session[s].raw] = s
<1> DEFINE says(s) == IF p.session[s].raw \in fit THEN "usable" ELSE "unusable"
<1> DEFINE ss == [s \in Sessions |-> IF told(s) THEN [p.session[s] EXCEPT !.url = says(s)] ELSE p.session[s]]
<1>1. ASSUME NEW s \in Sessions
      PROVE  /\ ss[s] \in SessionRecord
             /\ ss[s].raw = p.session[s].raw /\ ss[s].status = p.session[s].status /\ ss[s].owner = p.session[s].owner
             /\ \/ ss[s].url = p.session[s].url
                \/ ss[s].url = "usable"
                \/ ss[s].url = "unusable" /\ p.session[s].raw \in seen \ fit
  <2>1. p.session[s] \in SessionRecord
    BY SessionFields
  <2>2. CASE told(s)
    <3>1. ss[s] = [p.session[s] EXCEPT !.url = says(s)]
      BY <2>2
    <3>2. says(s) \in {"usable", "unusable"} /\ (says(s) = "unusable" => p.session[s].raw \in seen \ fit)
      BY <2>2
    <3> HIDE DEF ss, says
    <3>3. ss[s] \in SessionRecord /\ ss[s].url = says(s) /\ ss[s].raw = p.session[s].raw
          /\ ss[s].status = p.session[s].status /\ ss[s].owner = p.session[s].owner
      BY <2>1, <3>1, <3>2 DEF SessionRecord
    <3>4. QED
      BY <3>2, <3>3
  <2>3. CASE ~told(s)
    <3>1. ss[s] = p.session[s]
      BY <2>3
    <3>2. QED
      BY <2>1, <3>1
  <2>4. QED
    BY <2>2, <2>3
<1>2. ss = [s \in Sessions |-> ss[s]]
  OBVIOUS
<1>3. Remembered(p, seen, fit) = [p EXCEPT !.session = ss]
  BY DEF Remembered
<1> HIDE DEF ss
<1>4. ss \in [Sessions -> SessionRecord]
  BY <1>1, <1>2
<1>5. QED
  BY <1>1, <1>3, <1>4 DEF PoolRecord

(* New sessions join the pool, one for each target. *)
LEMMA WrapFields ==
  ASSUME NEW p \in PoolRecord, NEW q \in Seq(Targets), p.wrapped + Len(q) <= MaxSessions,
         \A i, j \in DOMAIN q : q[i] = q[j] => i = j
  PROVE  LET new == (p.wrapped + 1)..(p.wrapped + Len(q)) IN
         /\ Wrap(p, q) \in PoolRecord
         /\ Wrap(p, q).wrapped = p.wrapped + Len(q)
         /\ Wrap(p, q).tabs = p.tabs \cup new
         /\ \A s \in Sessions :
              /\ s \in new => /\ Wrap(p, q).session[s].raw = q[s - p.wrapped]
                              /\ Wrap(p, q).session[s].status = "idle"
                              /\ Wrap(p, q).session[s].owner = None
                              /\ Wrap(p, q).session[s].url = "usable"
              /\ s \notin new => Wrap(p, q).session[s] = p.session[s]
         /\ \A i \in 1..Len(q) : Wrap(p, q).mapped[q[i]] = p.wrapped + i
         /\ \A r \in Targets : (\A i \in 1..Len(q) : q[i] # r) => Wrap(p, q).mapped[r] = p.mapped[r]
         /\ Wrap(p, q).quarantine = p.quarantine
         /\ Wrap(p, q).failed = p.failed
<1> DEFINE new == (p.wrapped + 1)..(p.wrapped + Len(q))
<1> DEFINE fresh(s) == [raw |-> q[s - p.wrapped], status |-> "idle", owner |-> None, url |-> "usable"]
<1> DEFINE ss == [s \in Sessions |-> IF s \in new THEN fresh(s) ELSE p.session[s]]
<1> DEFINE at(r) == CHOOSE i \in DOMAIN q : q[i] = r
<1> DEFINE mm == [r \in Targets |-> IF r \in ToSet(q) THEN p.wrapped + at(r) ELSE p.mapped[r]]
<1> DEFINE w == p.wrapped + Len(q)
<1>0. /\ Len(q) \in Nat /\ p.wrapped \in Nat /\ MaxSessions \in Nat /\ w \in 0..MaxSessions
      /\ new \subseteq Sessions /\ DOMAIN q = 1..Len(q)
  BY PoolAssumption, PoolFields DEF PoolAssumption, Sessions
<1>1. \A s \in new : s - p.wrapped \in 1..Len(q)
  BY <1>0
<1>2. \A s \in new : fresh(s) \in SessionRecord /\ fresh(s).raw = q[s - p.wrapped]
                     /\ fresh(s).status = "idle" /\ fresh(s).owner = None /\ fresh(s).url = "usable"
  <2>1. \A s \in new : q[s - p.wrapped] \in Targets
    BY <1>0, <1>1
  <2>2. QED
    BY <2>1 DEF SessionRecord, Statuses
<1>3. ss \in [Sessions -> SessionRecord]
  <2> HIDE DEF fresh, new
  <2>1. QED
    BY <1>2, SessionFields
<1>4. \A s \in Sessions : /\ s \in new => ss[s] = fresh(s)
                          /\ s \notin new => ss[s] = p.session[s]
  OBVIOUS
<1>5. \A i \in 1..Len(q) : at(q[i]) = i
  <2>1. ASSUME NEW i \in 1..Len(q) PROVE at(q[i]) = i
    <3>1. at(q[i]) \in DOMAIN q /\ q[at(q[i])] = q[i]
      BY <1>0
    <3> HIDE DEF at
    <3>2. QED
      BY <1>0, <3>1
  <2>2. QED
    BY <2>1
<1>6. /\ \A i \in 1..Len(q) : q[i] \in Targets /\ q[i] \in ToSet(q)
      /\ \A r \in ToSet(q) : \E i \in 1..Len(q) : q[i] = r
  BY <1>0 DEF ToSet
<1> HIDE DEF at
<1>7. \A i \in 1..Len(q) : mm[q[i]] = p.wrapped + i
  BY <1>5, <1>6
<1>8. \A r \in Targets : r \notin ToSet(q) => mm[r] = p.mapped[r]
  OBVIOUS
<1>9. mm \in [Targets -> Sessions \cup {None}]
  <2>1. mm = [r \in Targets |-> mm[r]]
    OBVIOUS
  <2> HIDE DEF mm
  <2>2. \A i \in 1..Len(q) : p.wrapped + i \in Sessions
    BY <1>0 DEF Sessions
  <2>3. \A r \in Targets : mm[r] \in Sessions \cup {None}
    BY <1>6, <1>7, <1>8, <2>2, PoolFields
  <2>4. QED
    BY <2>1, <2>3
<1>10. Wrap(p, q) = [p EXCEPT !.wrapped = w, !.session = ss, !.tabs = p.tabs \cup new, !.mapped = mm]
  BY DEF Wrap, at
<1>11. p.tabs \cup new \in SUBSET Sessions
  BY <1>0, PoolFields
<1> HIDE DEF new, fresh, ss, mm, w
<1>12. /\ Wrap(p, q) \in PoolRecord
       /\ Wrap(p, q).wrapped = w /\ Wrap(p, q).session = ss /\ Wrap(p, q).tabs = p.tabs \cup new
       /\ Wrap(p, q).mapped = mm /\ Wrap(p, q).quarantine = p.quarantine /\ Wrap(p, q).failed = p.failed
  BY <1>0, <1>3, <1>9, <1>10, <1>11 DEF PoolRecord
<1>13. /\ \A s \in Sessions :
            /\ s \in new => /\ Wrap(p, q).session[s].raw = q[s - p.wrapped]
                            /\ Wrap(p, q).session[s].status = "idle"
                            /\ Wrap(p, q).session[s].owner = None
                            /\ Wrap(p, q).session[s].url = "usable"
            /\ s \notin new => Wrap(p, q).session[s] = p.session[s]
  BY <1>2, <1>4, <1>12
<1>14. \A r \in Targets : (\A i \in 1..Len(q) : q[i] # r) => r \notin ToSet(q)
  BY <1>6
<1>15. QED
  BY <1>7, <1>8, <1>12, <1>13, <1>14 DEF new, w

(* The targets that are wrapped are the first of the list. *)
LEMMA ExtendedIsWrapped ==
  ASSUME NEW p \in PoolRecord, NEW q \in Seq(Targets), \A i, j \in DOMAIN q : q[i] = q[j] => i = j
  PROVE  \E u \in Seq(Targets) :
           /\ Extended(p, q) = Wrap(p, u)
           /\ p.wrapped + Len(u) <= MaxSessions
           /\ \A i, j \in DOMAIN u : u[i] = u[j] => i = j
           /\ \A i \in DOMAIN u : \E j \in DOMAIN q : u[i] = q[j]
<1> DEFINE fits(n) == Cardinality(p.tabs) + n <= MaxTabs /\ p.wrapped + n <= MaxSessions
<1> DEFINE I == {n \in 0..Len(q) : n = 0 \/ fits(n)}
<1> DEFINE m == Max(I)
<1> DEFINE u == SubSeq(q, 1, m)
<1>0. Len(q) \in Nat /\ p.wrapped \in 0..MaxSessions /\ MaxSessions \in Nat /\ DOMAIN q = 1..Len(q)
  BY PoolAssumption, PoolFields DEF PoolAssumption
<1>1. I \in SUBSET (0..Len(q)) /\ 0 \in I
  BY <1>0
<1>2. \A n \in I : n \in 0..Len(q) /\ p.wrapped + n <= MaxSessions
  BY <1>0
<1> HIDE DEF I
<1>3. m \in 0..Len(q) /\ p.wrapped + m <= MaxSessions
  BY <1>0, <1>1, <1>2, MaxFacts
<1> HIDE DEF m
<1>4. u \in Seq(Targets) /\ Len(u) = m /\ \A i \in 1..m : u[i] = q[i]
  BY <1>0, <1>3, SubSeqProperties
<1>5. Extended(p, q) = Wrap(p, u)
  BY DEF Extended, I, m
<1> HIDE DEF u
<1>6. DOMAIN u = 1..m
  BY <1>4
<1>7. QED
  BY <1>0, <1>3, <1>4, <1>5, <1>6

-----------------------------------------------------------------------------
(* What waits for the recovery, and the clean-up. *)

(* The entries on their way to the recovery and those in its queue, in order. *)
LEMMA PendingFacts ==
  ASSUME recovery \in Seq(JobRecord), NEW p \in PoolRecord
  PROVE  /\ Pending(p) \in Seq(FailedRecord)
         /\ Len(recovery) \in Nat /\ Len(p.failed) \in Nat
         /\ DOMAIN recovery = 1..Len(recovery) /\ DOMAIN p.failed = 1..Len(p.failed)
         /\ Len(Pending(p)) = Len(recovery) + Len(p.failed)
         /\ DOMAIN Pending(p) = 1..(Len(recovery) + Len(p.failed))
         /\ \A i \in 1..Len(recovery) : Pending(p)[i] = recovery[i].entry
         /\ \A i \in 1..Len(p.failed) : Pending(p)[Len(recovery) + i] = p.failed[i]
<1> DEFINE a == [i \in DOMAIN recovery |-> recovery[i].entry]
<1> DEFINE n == Len(recovery)
<1>1. n \in Nat /\ DOMAIN recovery = 1..n /\ \A i \in 1..n : recovery[i] \in JobRecord
  OBVIOUS
<1>2. \A i \in 1..n : recovery[i].entry \in FailedRecord
  BY <1>1 DEF JobRecord
<1>3. a \in [1..n -> FailedRecord] /\ \A i \in 1..n : a[i] = recovery[i].entry
  BY <1>1, <1>2
<1>4. Pending(p) = a \o p.failed
  BY DEF Pending
<1>5. p.failed \in Seq(FailedRecord)
  BY PoolFields
<1> HIDE DEF a, n
<1>6. a \in Seq(FailedRecord) /\ Len(a) = n
  BY <1>1, <1>3
<1>7. /\ a \o p.failed \in Seq(FailedRecord) /\ Len(a \o p.failed) = n + Len(p.failed)
      /\ \A i \in 1..n : (a \o p.failed)[i] = a[i]
      /\ \A i \in 1..Len(p.failed) : (a \o p.failed)[n + i] = p.failed[i]
      /\ Len(p.failed) \in Nat /\ DOMAIN p.failed = 1..Len(p.failed)
  BY <1>1, <1>5, <1>6
<1>8. DOMAIN (a \o p.failed) = 1..(n + Len(p.failed))
  BY <1>7
<1>9. QED
  BY <1>1, <1>3, <1>4, <1>7, <1>8 DEF n

(* The jobs of the recovery come first. *)
LEMMA PendingOfJob ==
  ASSUME recovery \in Seq(JobRecord), NEW p \in PoolRecord, NEW i \in DOMAIN recovery
  PROVE  i \in DOMAIN Pending(p) /\ Pending(p)[i] = recovery[i].entry
<1>1. /\ Len(recovery) \in Nat /\ Len(p.failed) \in Nat /\ DOMAIN recovery = 1..Len(recovery)
      /\ DOMAIN Pending(p) = 1..(Len(recovery) + Len(p.failed))
  BY PendingFacts
<1>2. \A j \in 1..Len(recovery) : Pending(p)[j] = recovery[j].entry
  BY PendingFacts
<1>3. QED
  BY <1>1, <1>2

(* Entries that join the queue join it at its end. *)
LEMMA PendingAppend ==
  ASSUME recovery \in Seq(JobRecord), NEW p \in PoolRecord, NEW k \in PoolRecord,
         NEW w \in Seq(FailedRecord), k.failed = p.failed \o w
  PROVE  /\ DOMAIN Pending(p) = 1..Len(Pending(p)) /\ Len(Pending(p)) \in Nat /\ Len(w) \in Nat
         /\ DOMAIN Pending(k) = 1..(Len(Pending(p)) + Len(w))
         /\ \A i \in 1..Len(Pending(p)) : Pending(k)[i] = Pending(p)[i]
         /\ \A i \in 1..Len(w) : Pending(k)[Len(Pending(p)) + i] = w[i]
<1> DEFINE n == Len(recovery)
<1> DEFINE f == Len(p.failed)
<1>0. /\ n \in Nat /\ f \in Nat
      /\ Len(Pending(p)) = n + f /\ DOMAIN Pending(p) = 1..(n + f)
      /\ \A i \in 1..n : Pending(p)[i] = recovery[i].entry
      /\ \A i \in 1..f : Pending(p)[n + i] = p.failed[i]
  BY PendingFacts
<1>10. /\ \A i \in 1..n : Pending(k)[i] = recovery[i].entry
       /\ DOMAIN Pending(k) = 1..(n + Len(k.failed))
       /\ \A i \in 1..Len(k.failed) : Pending(k)[n + i] = k.failed[i]
  BY PendingFacts
<1>11. p.failed \in Seq(FailedRecord) /\ Len(w) \in Nat
  BY PoolFields
<1>1. /\ n \in Nat /\ f \in Nat /\ p.failed \in Seq(FailedRecord) /\ Len(w) \in Nat
      /\ Len(Pending(p)) = n + f /\ DOMAIN Pending(p) = 1..(n + f)
      /\ \A i \in 1..n : Pending(p)[i] = recovery[i].entry /\ Pending(k)[i] = recovery[i].entry
      /\ \A i \in 1..f : Pending(p)[n + i] = p.failed[i]
      /\ DOMAIN Pending(k) = 1..(n + Len(k.failed))
      /\ \A i \in 1..Len(k.failed) : Pending(k)[n + i] = k.failed[i]
  BY <1>0, <1>10, <1>11
<1>2. /\ Len(k.failed) = f + Len(w)
      /\ \A i \in 1..f : k.failed[i] = p.failed[i]
      /\ \A i \in 1..Len(w) : k.failed[f + i] = w[i]
  BY <1>1
<1> HIDE DEF n, f
<1>3. ASSUME NEW i \in 1..(n + f) PROVE Pending(k)[i] = Pending(p)[i]
  <2>1. CASE i <= n
    BY <1>1, <2>1
  <2>2. CASE i > n
    <3> DEFINE j == i - n
    <3>1. j \in 1..f /\ i = n + j
      BY <1>1, <2>2
    <3> HIDE DEF j
    <3>2. j \in 1..Len(k.failed)
      BY <1>1, <1>2, <3>1
    <3>3. QED
      BY <1>1, <1>2, <3>1, <3>2
  <2>3. QED
    BY <1>1, <2>1, <2>2
<1>4. ASSUME NEW i \in 1..Len(w) PROVE Pending(k)[n + f + i] = w[i]
  <2> DEFINE j == f + i
  <2>1. j \in 1..Len(k.failed) /\ n + f + i = n + j
    BY <1>1, <1>2
  <2>2. k.failed[j] = w[i]
    BY <1>2
  <2> HIDE DEF j
  <2>3. QED
    BY <1>1, <2>1, <2>2
<1> DEFINE m == Len(Pending(p))
<1>5. m = n + f /\ m \in Nat
  BY <1>0
<1>6. DOMAIN Pending(k) = 1..(m + Len(w))
  BY <1>1, <1>2, <1>5
<1> HIDE DEF m
<1>7. /\ \A i \in 1..m : Pending(k)[i] = Pending(p)[i]
      /\ \A i \in 1..Len(w) : Pending(k)[m + i] = w[i]
  BY <1>3, <1>4, <1>5
<1>8. DOMAIN Pending(p) = 1..m
  BY <1>0, <1>5
<1>9. QED
  BY <1>5, <1>6, <1>7, <1>8, <1>11 DEF m

(* The pool after the sessions of L were dropped from it and the targets of B quarantined. *)
Clears(p, k, L, B) ==
  /\ k \in PoolRecord
  /\ k.wrapped = p.wrapped
  /\ k.tabs = p.tabs \ L
  /\ \A s \in Sessions : /\ k.session[s].raw = p.session[s].raw /\ k.session[s].url \in {p.session[s].url, "none"}
                         /\ s \in L => k.session[s].status = "closed"
                         /\ s \notin L => k.session[s] = p.session[s]
  /\ \A r \in Targets : k.mapped[r] = IF p.mapped[r] \in L THEN None ELSE p.mapped[r]
  /\ \A r \in B : /\ k.quarantine[r].by = p.mapped[r]
                  /\ k.quarantine[r].task = p.session[p.mapped[r]].owner
                  /\ k.quarantine[r].permanent = FALSE
  /\ \A r \in Targets \ B : k.quarantine[r] = p.quarantine[r]
  /\ \E w \in Seq(FailedRecord) :
       /\ k.failed = p.failed \o w
       /\ \A i, j \in DOMAIN w : w[i].raw = w[j].raw => i = j
       /\ \A i \in DOMAIN w : /\ w[i].raw \in B
                              /\ w[i].by = p.mapped[w[i].raw]
                              /\ w[i].task = p.session[p.mapped[w[i].raw]].owner
       /\ \A r \in B : \E i \in DOMAIN w : w[i].raw = r

(* The clean-up drops the unfit sessions and quarantines the targets of     *)
(* those that failed.                                                       *)
LEMMA CleanedClears ==
  ASSUME NEW p \in PoolRecord
  PROVE  Clears(p, Cleaned(p), Unfit(p), Quarantined(p))
<1> DEFINE k == Cleaned(p)
<1> DEFINE w == SetToSeq(Entries(p, Quarantined(p)))
<1>1. /\ k \in PoolRecord /\ k.wrapped = p.wrapped
      /\ k.session = Closed(p.session, Unfit(p))
      /\ k.tabs = p.tabs \ Unfit(p)
      /\ k.mapped = Unmapped(p, Unfit(p))
      /\ \A r \in Targets :
              /\ r \in Quarantined(p) =>
                   /\ k.quarantine[r].by = p.mapped[r]
                   /\ k.quarantine[r].task = p.session[p.mapped[r]].owner
                   /\ k.quarantine[r].permanent = FALSE
              /\ r \notin Quarantined(p) => k.quarantine[r] = p.quarantine[r]
      /\ k.failed = p.failed \o w
  BY CleanedFields
<1>2. /\ Unfit(p) \in SUBSET Sessions /\ Quarantined(p) \in SUBSET Targets
      /\ \A r \in Quarantined(p) : p.mapped[r] \in Sessions
  BY PoolFields DEF Unfit, Quarantined
<1>3. /\ w \in Seq(FailedRecord)
      /\ \A i, j \in DOMAIN w : w[i].raw = w[j].raw => i = j
      /\ \A i \in DOMAIN w : /\ w[i].raw \in Quarantined(p)
                             /\ w[i].by = p.mapped[w[i].raw]
                             /\ w[i].task = p.session[p.mapped[w[i].raw]].owner
      /\ \A r \in Quarantined(p) : \E i \in DOMAIN w : w[i].raw = r
  BY <1>2, EntriesFacts
<1>4. /\ \A s \in Sessions : /\ k.session[s].raw = p.session[s].raw /\ k.session[s].url \in {p.session[s].url, "none"}
                             /\ s \in Unfit(p) => k.session[s].status = "closed"
                             /\ s \notin Unfit(p) => k.session[s] = p.session[s]
      /\ \A r \in Targets : k.mapped[r] = IF p.mapped[r] \in Unfit(p) THEN None ELSE p.mapped[r]
  BY <1>1, <1>2, ClosedFacts, UnmappedFacts
<1> HIDE DEF k, w
<1>5. Clears(p, k, Unfit(p), Quarantined(p))
  BY <1>1, <1>2, <1>3, <1>4 DEF Clears
<1>6. QED
  BY <1>5 DEF k

(* A scan that drops the sessions of V and then cleans up. *)
LEMMA DroppedClears ==
  ASSUME NEW p \in PoolRecord, \A s \in p.tabs : p.session[s].status \in {"idle", "busy", "error"},
         NEW V \in SUBSET p.tabs
  PROVE  Clears(p, Cleaned(Dropped(p, V)), V \cup Unfit(p),
                {r \in Targets : p.mapped[r] \in Unfit(p) \ V /\ p.session[p.mapped[r]].status = "error"})
<1> DEFINE d == Dropped(p, V)
<1> DEFINE k == Cleaned(d)
<1> DEFINE L == V \cup Unfit(p)
<1> DEFINE B == {r \in Targets : p.mapped[r] \in Unfit(p) \ V /\ p.session[p.mapped[r]].status = "error"}
<1>1. V \in SUBSET Sessions /\ Unfit(p) \subseteq p.tabs /\ None \notin Sessions /\ p.tabs \subseteq Sessions
  BY PoolFields, PoolAssumption DEF Unfit, Sessions, PoolAssumption
<1>2. /\ d \in PoolRecord /\ d.wrapped = p.wrapped
      /\ d.session = Closed(p.session, V)
      /\ d.tabs = {s \in p.tabs : s \in V => p.session[s].status = "busy"}
      /\ d.mapped = Unmapped(p, V) /\ d.quarantine = p.quarantine /\ d.failed = p.failed
  BY <1>1, DroppedFields
<1>3. /\ \A s \in Sessions : /\ d.session[s].raw = p.session[s].raw /\ d.session[s].url \in {p.session[s].url, "none"}
                             /\ s \in V => d.session[s].status = "closed"
                             /\ s \notin V => d.session[s] = p.session[s]
      /\ \A r \in Targets : d.mapped[r] = IF p.mapped[r] \in V THEN None ELSE p.mapped[r]
  BY <1>1, <1>2, ClosedFacts, UnmappedFacts
<1>4. Clears(d, k, Unfit(d), Quarantined(d))
  BY <1>2, CleanedClears
<1> HIDE DEF d, k
<1>5. \A s \in Sessions : s \in Unfit(d) <=> \/ s \in V /\ p.session[s].status = "busy"
                                             \/ s \notin V /\ s \in Unfit(p)
  <2>1. ASSUME NEW s \in Sessions, s \in V PROVE s \in Unfit(d) <=> p.session[s].status = "busy"
    BY <1>1, <1>2, <1>3, <2>1 DEF Unfit
  <2>2. ASSUME NEW s \in Sessions, s \notin V PROVE s \in Unfit(d) <=> s \in Unfit(p)
    BY <1>1, <1>2, <1>3, <2>2 DEF Unfit
  <2>3. QED
    BY <2>1, <2>2
<1>6. Unfit(d) \subseteq Sessions
  BY <1>1, <1>2 DEF Unfit
<1>7. d.tabs \ Unfit(d) = p.tabs \ L
  BY <1>1, <1>2, <1>5
<1>8. \A s \in Sessions : /\ k.session[s].raw = p.session[s].raw /\ k.session[s].url \in {p.session[s].url, "none"}
                          /\ s \in L => k.session[s].status = "closed"
                          /\ s \notin L => k.session[s] = p.session[s]
  BY <1>1, <1>3, <1>4, <1>5 DEF Clears
<1>9. \A r \in Targets : k.mapped[r] = IF p.mapped[r] \in L THEN None ELSE p.mapped[r]
  <2>1. ASSUME NEW r \in Targets PROVE k.mapped[r] = IF p.mapped[r] \in L THEN None ELSE p.mapped[r]
    <3>1. p.mapped[r] \in Sessions \cup {None}
      BY PoolFields
    <3>2. k.mapped[r] = IF d.mapped[r] \in Unfit(d) THEN None ELSE d.mapped[r]
      BY <1>4 DEF Clears
    <3>3. QED
      BY <1>1, <1>3, <1>5, <1>6, <3>1, <3>2
  <2>2. QED
    BY <2>1
<1>10. Quarantined(d) = B
  <2>1. ASSUME NEW r \in Targets PROVE r \in Quarantined(d) <=> r \in B
    <3>1. p.mapped[r] \in Sessions \cup {None}
      BY PoolFields
    <3>2. r \in Quarantined(d) <=> d.mapped[r] \in Unfit(d) /\ d.session[d.mapped[r]].status = "error"
      BY DEF Quarantined
    <3>3. CASE p.mapped[r] \in V \/ p.mapped[r] = None
      BY <1>1, <1>3, <1>6, <3>2, <3>3
    <3>4. CASE p.mapped[r] \in Sessions \ V
      <4>1. d.mapped[r] = p.mapped[r] /\ d.session[p.mapped[r]] = p.session[p.mapped[r]]
        BY <1>3, <3>4
      <4>2. p.mapped[r] \in Unfit(d) <=> p.mapped[r] \in Unfit(p) \ V
        BY <1>5, <3>4
      <4>3. QED
        BY <3>2, <4>1, <4>2
    <3>5. QED
      BY <3>1, <3>3, <3>4
  <2>2. QED
    BY <2>1 DEF Quarantined
<1>11. \A r \in B : d.mapped[r] = p.mapped[r] /\ d.session[p.mapped[r]].owner = p.session[p.mapped[r]].owner
  BY <1>1, <1>3
<1>12. PICK w \in Seq(FailedRecord) :
         /\ k.failed = d.failed \o w
         /\ \A i, j \in DOMAIN w : w[i].raw = w[j].raw => i = j
         /\ \A i \in DOMAIN w : /\ w[i].raw \in B
                                /\ w[i].by = d.mapped[w[i].raw]
                                /\ w[i].task = d.session[d.mapped[w[i].raw]].owner
         /\ \A r \in B : \E i \in DOMAIN w : w[i].raw = r
  BY <1>4, <1>10 DEF Clears
<1>13. \A r \in B : /\ k.quarantine[r].by = d.mapped[r]
                    /\ k.quarantine[r].task = d.session[d.mapped[r]].owner
                    /\ k.quarantine[r].permanent = FALSE
  BY <1>4, <1>10 DEF Clears
<1>14. \A r \in Targets \ B : k.quarantine[r] = d.quarantine[r]
  BY <1>4, <1>10 DEF Clears
<1>15. k \in PoolRecord /\ k.wrapped = d.wrapped /\ k.tabs = d.tabs \ Unfit(d)
  BY <1>4 DEF Clears
<1> HIDE DEF B, L
<1>16. \A i \in DOMAIN w : /\ w[i].raw \in B
                           /\ w[i].by = p.mapped[w[i].raw]
                           /\ w[i].task = p.session[p.mapped[w[i].raw]].owner
  <2>1. ASSUME NEW i \in DOMAIN w
        PROVE  /\ w[i].raw \in B /\ w[i].by = p.mapped[w[i].raw]
               /\ w[i].task = p.session[p.mapped[w[i].raw]].owner
    <3>1. w[i].raw \in B /\ w[i].by = d.mapped[w[i].raw] /\ w[i].task = d.session[d.mapped[w[i].raw]].owner
      BY <1>12
    <3>2. QED
      BY <1>11, <3>1
  <2>2. QED
    BY <2>1
<1>19. \A r \in B : /\ k.quarantine[r].by = p.mapped[r]
                    /\ k.quarantine[r].task = p.session[p.mapped[r]].owner
                    /\ k.quarantine[r].permanent = FALSE
  BY <1>11, <1>13
<1>20. \E v \in Seq(FailedRecord) :
          /\ k.failed = p.failed \o v
          /\ \A i, j \in DOMAIN v : v[i].raw = v[j].raw => i = j
          /\ \A i \in DOMAIN v : /\ v[i].raw \in B
                                 /\ v[i].by = p.mapped[v[i].raw]
                                 /\ v[i].task = p.session[p.mapped[v[i].raw]].owner
          /\ \A r \in B : \E i \in DOMAIN v : v[i].raw = r
  BY <1>2, <1>12, <1>16
<1>21. /\ k.wrapped = p.wrapped /\ k.tabs = p.tabs \ L
       /\ \A r \in Targets \ B : k.quarantine[r] = p.quarantine[r]
  BY <1>2, <1>7, <1>14, <1>15
<1>22. Clears(p, k, L, B)
  <2> HIDE DEF d, k
  <2>1. QED
    BY <1>8, <1>9, <1>15, <1>19, <1>20, <1>21 DEF Clears
<1>23. QED
  BY <1>22 DEF k, d, L, B

(* The constants are told apart. *)
LEMMA NoneFacts ==
  /\ None \notin Sessions /\ None \notin Targets /\ None \notin Tasks /\ None \notin Scanners
  /\ Sessions \subseteq Nat /\ Sessions \cap Tasks = {}
  /\ MaxSessions \in Nat /\ MaxAttempts \in Nat
BY PoolAssumption DEF PoolAssumption, Sessions

(* Whose sessions may leave the pool, and which targets must be quarantined then. *)
Rightly(p, X, L, B) ==
  /\ L \subseteq p.tabs
  /\ B \subseteq Targets
  /\ \A r \in B : p.mapped[r] \in L /\ p.session[p.mapped[r]].status = "error"
  /\ \A s \in L : p.session[s].raw \in Open \ X =>
                    /\ p.session[s].status # "busy"
                    /\ p.session[s].status = "error" => p.session[s].raw \in B

(* Dropping sessions keeps the structure of the pool; the targets that are  *)
(* quarantined are out of it.                                               *)
LEMMA ClearsStructure ==
  ASSUME NEW p, NEW k, NEW X, NEW L, NEW B, PoolInv(p, X), Rightly(p, X, L, B), Clears(p, k, L, B)
  PROVE  Structured(k) /\ Unique(k, X) /\ Out(k, X)
<1>0. /\ p \in PoolRecord /\ k \in PoolRecord /\ Structured(p) /\ Unique(p, X) /\ Out(p, X)
      /\ p.tabs \subseteq Sessions /\ L \subseteq Sessions /\ None \notin Sessions
      /\ k.wrapped = p.wrapped /\ k.tabs = p.tabs \ L /\ p.wrapped \in 0..MaxSessions
  BY PoolFields, NoneFacts DEF PoolInv, Clears, Rightly
<1>1. \A s \in Sessions : /\ k.session[s].raw = p.session[s].raw
                          /\ s \in L => k.session[s].status = "closed"
                          /\ s \notin L => k.session[s] = p.session[s]
  BY DEF Clears
<1>2. \A r \in Targets : k.mapped[r] = IF p.mapped[r] \in L THEN None ELSE p.mapped[r]
  BY DEF Clears
<1>3. \A s \in 1..p.wrapped : s \in Sessions
  BY <1>0, NoneFacts DEF Sessions
<1>4. Structured(k)
  <2>1. \A s \in 1..k.wrapped : k.session[s].raw \in Opened
    BY <1>0, <1>1, <1>3 DEF Structured
  <2>2. \A s \in k.tabs : k.session[s].status \in {"idle", "busy", "error"}
    BY <1>0, <1>1 DEF Structured
  <2>3. \A s \in Sessions \ k.tabs : k.session[s].status \in {"unborn", "closed"}
    BY <1>0, <1>1 DEF Structured
  <2>4. \A r \in Targets : k.mapped[r] # None => k.mapped[r] \in k.tabs /\ k.session[k.mapped[r]].raw = r
    <3>1. ASSUME NEW r \in Targets, k.mapped[r] # None
          PROVE  k.mapped[r] \in k.tabs /\ k.session[k.mapped[r]].raw = r
      <4>1. k.mapped[r] = p.mapped[r] /\ p.mapped[r] \notin L
        BY <1>2, <3>1
      <4>2. p.mapped[r] \in p.tabs /\ p.session[p.mapped[r]].raw = r
        BY <1>0, <3>1, <4>1 DEF Structured
      <4>3. QED
        BY <1>0, <1>1, <4>1, <4>2
    <3>2. QED
      BY <3>1
  <2>5. /\ k.tabs \subseteq 1..k.wrapped
        /\ \A s \in Sessions : s > k.wrapped => k.session[s].raw = None
    BY <1>0, <1>1 DEF Structured
  <2>6. QED
    BY <2>1, <2>2, <2>3, <2>4, <2>5 DEF Structured
<1>5. Unique(k, X)
  <2>1. ASSUME NEW s \in k.tabs, k.session[s].raw \notin X PROVE k.mapped[k.session[s].raw] = s
    <3>1. s \in p.tabs /\ s \notin L /\ k.session[s].raw = p.session[s].raw /\ p.session[s].raw \in Targets
      BY <1>0, <1>1 DEF Structured, Opened
    <3>2. p.mapped[p.session[s].raw] = s
      BY <1>0, <2>1, <3>1 DEF Unique
    <3>3. QED
      BY <1>2, <3>1, <3>2
  <2>2. QED
    BY <2>1 DEF Unique
<1>6. Out(k, X)
  <2>1. ASSUME NEW r \in Targets \ X, k.quarantine[r] # NoEntry, NEW s \in k.tabs, k.session[s].raw = r
        PROVE FALSE
    <3>1. s \in p.tabs /\ s \notin L /\ p.session[s].raw = r
      BY <1>0, <1>1, <2>1
    <3>2. CASE r \in B
      <4>1. p.mapped[r] = s
        BY <1>0, <2>1, <3>1 DEF Unique
      <4>2. QED
        BY <3>1, <3>2, <4>1 DEF Rightly
    <3>3. CASE r \notin B
      <4>1. p.quarantine[r] # NoEntry
        BY <2>1, <3>3 DEF Clears
      <4>2. QED
        BY <1>0, <2>1, <3>1, <4>1 DEF Out
    <3>4. QED
      BY <3>2, <3>3
  <2>2. QED
    BY <2>1 DEF Out
<1>7. QED
  BY <1>4, <1>5, <1>6

(* What is quarantined now was in the pool. *)
LEMMA BarredFacts ==
  ASSUME NEW p, NEW k, NEW X, NEW L, NEW B, PoolInv(p, X), Rightly(p, X, L, B), Clears(p, k, L, B), NEW r \in B
  PROVE  /\ r \in Targets /\ r \in Opened
         /\ p.mapped[r] \in L /\ p.mapped[r] \in p.tabs /\ p.mapped[r] \in Sessions /\ p.mapped[r] \in 1..p.wrapped
         /\ p.session[p.mapped[r]].raw = r
         /\ r \notin X => p.quarantine[r] = NoEntry
         /\ k.quarantine[r] # NoEntry /\ k.quarantine[r].by = p.mapped[r] /\ ~k.quarantine[r].permanent
         /\ k.quarantine[r].task = p.session[p.mapped[r]].owner
<1>1. /\ r \in Targets /\ p.mapped[r] \in L /\ p.mapped[r] \in p.tabs
      /\ p \in PoolRecord /\ Structured(p) /\ Out(p, X)
  BY DEF Rightly, PoolInv
<1>2. p.mapped[r] \in Sessions /\ None \notin Sessions
  BY <1>1, PoolFields, NoneFacts
<1>3. p.session[p.mapped[r]].raw = r /\ p.mapped[r] \in 1..p.wrapped
  BY <1>1, <1>2 DEF Structured
<1>4. r \in Opened
  BY <1>1, <1>3 DEF Structured
<1>5. r \notin X => p.quarantine[r] = NoEntry
  BY <1>1, <1>3 DEF Out
<1>6. k.quarantine[r].by = p.mapped[r] /\ k.quarantine[r].task = p.session[p.mapped[r]].owner
      /\ k.quarantine[r].permanent = FALSE
  BY DEF Clears
<1>7. k.quarantine[r] # NoEntry
  BY <1>2, <1>6, NoEntryFields
<1>8. QED
  BY <1>1, <1>2, <1>3, <1>4, <1>5, <1>6, <1>7

(* Dropping sessions keeps the records of the quarantine: a new entry is    *)
(* filed under a session that has just left, and waits at the end of the    *)
(* queue.                                                                   *)
LEMMA ClearsRecords ==
  ASSUME World, NEW p, NEW k, NEW X, NEW L, NEW B, PoolInv(p, X), Rightly(p, X, L, B), Clears(p, k, L, B)
  PROVE  Origin(k) /\ Filed(k, X) /\ Worked(k) /\ Judged(k)
<1>0. /\ p \in PoolRecord /\ k \in PoolRecord /\ Structured(p) /\ Out(p, X) /\ recovery \in Seq(JobRecord)
      /\ Origin(p) /\ Filed(p, X) /\ Worked(p) /\ Judged(p)
      /\ k.wrapped = p.wrapped /\ k.tabs = p.tabs \ L
      /\ L \subseteq p.tabs /\ p.tabs \subseteq 1..p.wrapped
  BY DEF PoolInv, Clears, World, Rightly, Structured
<1>1. PICK w \in Seq(FailedRecord) :
         /\ k.failed = p.failed \o w
         /\ \A i, j \in DOMAIN w : w[i].raw = w[j].raw => i = j
         /\ \A i \in DOMAIN w : /\ w[i].raw \in B
                                /\ w[i].by = p.mapped[w[i].raw]
                                /\ w[i].task = p.session[p.mapped[w[i].raw]].owner
         /\ \A r \in B : \E i \in DOMAIN w : w[i].raw = r
  BY DEF Clears
<1> DEFINE P == Pending(p)
<1> DEFINE Q == Pending(k)
<1> DEFINE n == Len(P)
<1>2. /\ DOMAIN P = 1..n /\ n \in Nat /\ Len(w) \in Nat /\ DOMAIN w = 1..Len(w)
      /\ DOMAIN Q = 1..(n + Len(w))
      /\ \A i \in 1..n : Q[i] = P[i]
      /\ \A i \in 1..Len(w) : Q[n + i] = w[i]
  <2>1. recovery \in Seq(JobRecord) /\ p \in PoolRecord /\ k \in PoolRecord /\ k.failed = p.failed \o w
    BY <1>0, <1>1
  <2>2. /\ DOMAIN P = 1..n /\ n \in Nat /\ Len(w) \in Nat
        /\ DOMAIN Q = 1..(n + Len(w))
        /\ \A i \in 1..n : Q[i] = P[i]
        /\ \A i \in 1..Len(w) : Q[n + i] = w[i]
    BY <2>1, PendingAppend
  <2>3. DOMAIN w = 1..Len(w)
    OBVIOUS
  <2>4. QED
    BY <2>2, <2>3
<1> HIDE DEF n, P, Q
<1>3. \A i \in DOMAIN Q : \/ i \in DOMAIN P /\ Q[i] = P[i]
                          \/ \E j \in DOMAIN w : i = n + j /\ Q[i] = w[j]
  <2>1. ASSUME NEW i \in DOMAIN Q PROVE \/ i \in DOMAIN P /\ Q[i] = P[i]
                                        \/ \E j \in DOMAIN w : i = n + j /\ Q[i] = w[j]
    <3>1. CASE i <= n
      BY <1>2, <3>1
    <3>2. CASE i > n
      <4> DEFINE j == i - n
      <4>1. j \in 1..Len(w) /\ i = n + j
        BY <1>2, <3>2
      <4> HIDE DEF j
      <4>2. QED
        BY <1>2, <4>1
    <3>3. QED
      BY <1>2, <3>1, <3>2
  <2>2. QED
    BY <2>1
<1>4. \A i \in DOMAIN P : i \in DOMAIN Q /\ Q[i] = P[i]
  BY <1>2
<1>5. \A j \in DOMAIN w : n + j \in DOMAIN Q /\ Q[n + j] = w[j]
  BY <1>2
<1>6. \A r \in B : /\ r \in Targets /\ r \in Opened
                   /\ p.mapped[r] \in L /\ p.mapped[r] \in p.tabs /\ p.mapped[r] \in Sessions /\ p.mapped[r] \in 1..p.wrapped
                   /\ p.session[p.mapped[r]].raw = r
                   /\ r \notin X => p.quarantine[r] = NoEntry
                   /\ k.quarantine[r] # NoEntry /\ k.quarantine[r].by = p.mapped[r] /\ ~k.quarantine[r].permanent
                   /\ k.quarantine[r].task = p.session[p.mapped[r]].owner
  BY BarredFacts
<1>7. \A r \in Targets \ B : k.quarantine[r] = p.quarantine[r]
  BY DEF Clears
<1>8. Past(p) \subseteq Past(k) /\ L \subseteq Past(k) /\ \A s \in Past(p) : s \notin p.tabs
  BY <1>0, NoneFacts, PoolFields DEF Past
<1>9. Origin(k)
  <2>1. ASSUME NEW r \in Targets
        PROVE  /\ k.quarantine[r] # NoEntry => \E s \in 1..k.wrapped : k.session[s].raw = r
               /\ k.quarantine[r].by \in Past(k)
    <3>0. \A s \in 1..p.wrapped : k.session[s].raw = p.session[s].raw
      <4>1. \A s \in Sessions : k.session[s].raw = p.session[s].raw
        BY DEF Clears
      <4>2. 1..p.wrapped \subseteq Sessions
        BY <1>0, PoolFields, NoneFacts DEF Sessions
      <4>3. QED
        BY <4>1, <4>2
    <3>1. CASE r \in B
      BY <1>0, <1>6, <1>8, <3>0, <3>1
    <3>2. CASE r \notin B
      BY <1>0, <1>7, <1>8, <3>0, <3>2 DEF Origin
    <3>3. QED
      BY <3>1, <3>2
  <2>2. ASSUME NEW i \in DOMAIN Q PROVE Q[i].by \in Past(k) /\ Q[i].raw \in Opened
    <3>1. CASE i \in DOMAIN P /\ Q[i] = P[i]
      BY <1>0, <1>8, <3>1 DEF Origin, P
    <3>2. CASE \E j \in DOMAIN w : i = n + j /\ Q[i] = w[j]
      <4>1. PICK j \in DOMAIN w : Q[i] = w[j]
        BY <3>2
      <4>2. w[j].raw \in B /\ w[j].by = p.mapped[w[j].raw]
        BY <1>1
      <4>3. QED
        BY <1>6, <1>8, <4>1, <4>2
    <3>3. QED
      BY <1>3, <3>1, <3>2
  <2>3. QED
    BY <2>1, <2>2 DEF Origin, Q
<1>10. \A i \in DOMAIN P : P[i].raw \in Open \ X =>
         /\ P[i].raw \in Targets
         /\ p.quarantine[P[i].raw] # NoEntry
         /\ p.quarantine[P[i].raw].by = P[i].by
         /\ p.quarantine[P[i].raw].task = P[i].task
         /\ \A j \in DOMAIN P : P[j].raw = P[i].raw => j = i
         /\ P[i].raw \notin B
  <2>1. ASSUME NEW i \in DOMAIN P, P[i].raw \in Open \ X
        PROVE  /\ P[i].raw \in Targets
               /\ p.quarantine[P[i].raw] # NoEntry
               /\ p.quarantine[P[i].raw].by = P[i].by
               /\ p.quarantine[P[i].raw].task = P[i].task
               /\ \A j \in DOMAIN P : P[j].raw = P[i].raw => j = i
    BY <1>0, <2>1 DEF Filed, FiledUnder, P, Open
  <2>2. QED
    BY <1>6, <2>1
<1>11. Filed(k, X)
  <2>1. ASSUME NEW i \in DOMAIN Q, Q[i].raw \in Open \ X
        PROVE  /\ k.quarantine[Q[i].raw] # NoEntry
               /\ k.quarantine[Q[i].raw].by = Q[i].by
               /\ k.quarantine[Q[i].raw].task = Q[i].task
               /\ \A j \in DOMAIN Q : Q[j].raw = Q[i].raw => j = i
    <3>1. CASE i \in DOMAIN P /\ Q[i] = P[i]
      <4>1. \A j \in DOMAIN Q : Q[j].raw = Q[i].raw => j = i
        <5>1. ASSUME NEW j \in DOMAIN Q, Q[j].raw = Q[i].raw PROVE j = i
          <6>1. CASE j \in DOMAIN P /\ Q[j] = P[j]
            BY <1>10, <2>1, <3>1, <5>1, <6>1
          <6>2. CASE \E l \in DOMAIN w : Q[j] = w[l]
            BY <1>1, <1>10, <2>1, <3>1, <5>1, <6>2
          <6>3. QED
            BY <1>3, <6>1, <6>2
        <5>2. QED
          BY <5>1
      <4>2. k.quarantine[Q[i].raw] = p.quarantine[P[i].raw]
        BY <1>7, <1>10, <2>1, <3>1
      <4>3. QED
        BY <1>10, <2>1, <3>1, <4>1, <4>2
    <3>2. CASE \E l \in DOMAIN w : i = n + l /\ Q[i] = w[l]
      <4>1. PICK l \in DOMAIN w : i = n + l /\ Q[i] = w[l]
        BY <3>2
      <4>2. w[l].raw \in B /\ w[l].by = p.mapped[w[l].raw] /\ w[l].task = p.session[p.mapped[w[l].raw]].owner
        BY <1>1
      <4>3. \A j \in DOMAIN Q : Q[j].raw = Q[i].raw => j = i
        <5>1. ASSUME NEW j \in DOMAIN Q, Q[j].raw = Q[i].raw PROVE j = i
          <6>1. CASE j \in DOMAIN P /\ Q[j] = P[j]
            BY <1>10, <2>1, <4>1, <4>2, <5>1, <6>1
          <6>2. CASE \E m \in DOMAIN w : j = n + m /\ Q[j] = w[m]
            <7>1. PICK m \in DOMAIN w : j = n + m /\ Q[j] = w[m]
              BY <6>2
            <7>2. m = l
              BY <1>1, <4>1, <5>1, <7>1
            <7>3. QED
              BY <4>1, <7>1, <7>2
          <6>3. QED
            BY <1>3, <6>1, <6>2
        <5>2. QED
          BY <5>1
      <4>4. /\ k.quarantine[w[l].raw] # NoEntry
            /\ k.quarantine[w[l].raw].by = p.mapped[w[l].raw]
            /\ k.quarantine[w[l].raw].task = p.session[p.mapped[w[l].raw]].owner
        BY <1>6, <4>2
      <4>5. QED
        BY <4>1, <4>2, <4>3, <4>4
    <3>3. QED
      BY <1>3, <3>1, <3>2
  <2>2. QED
    BY <2>1 DEF Filed, FiledUnder, Q
<1>12. Worked(k)
  <2>1. ASSUME NEW r \in Targets, k.quarantine[r] # NoEntry, ~k.quarantine[r].permanent
        PROVE  \E i \in DOMAIN Q : Q[i].raw = r /\ Q[i].by = k.quarantine[r].by
    <3>1. CASE r \in B
      <4>1. PICK j \in DOMAIN w : w[j].raw = r
        BY <1>1, <3>1
      <4>2. w[j].by = p.mapped[r]
        BY <1>1, <4>1
      <4>3. QED
        BY <1>5, <1>6, <3>1, <4>1, <4>2
    <3>2. CASE r \notin B
      <4>1. k.quarantine[r] = p.quarantine[r]
        BY <1>7, <3>2
      <4>2. PICK i \in DOMAIN P : P[i].raw = r /\ P[i].by = p.quarantine[r].by
        BY <1>0, <2>1, <4>1 DEF Worked, P
      <4>3. QED
        BY <1>4, <4>1, <4>2
    <3>3. QED
      BY <3>1, <3>2
  <2>2. QED
    BY <2>1 DEF Worked, Q
<1>13. Judged(k)
  <2>1. ASSUME NEW i \in DOMAIN recovery, recovery[i].at = "closing"
        PROVE  LET e == k.quarantine[recovery[i].entry.raw] IN
               e = NoEntry \/ e.permanent \/ e.by # recovery[i].entry.by
    <3> DEFINE r == recovery[i].entry.raw
    <3>1. /\ i \in DOMAIN P /\ P[i] = recovery[i].entry
      BY <1>0, PendingOfJob DEF P
    <3>2. recovery[i].entry.by \notin p.tabs /\ r \in Targets
      BY <1>0, <1>8, <3>1 DEF Origin, P, Opened
    <3>3. CASE r \in B
      BY <1>6, <3>2, <3>3
    <3>4. CASE r \notin B
      BY <1>0, <1>7, <2>1, <3>2, <3>4 DEF Judged
    <3>5. QED
      BY <3>3, <3>4
  <2>2. QED
    BY <1>0, <2>1 DEF Judged
<1>14. QED
  BY <1>9, <1>11, <1>12, <1>13

(* Dropping sessions takes no tab from a worker unless its target is closed *)
(* or its quarantine names the worker.                                      *)
LEMMA ClearsTasks ==
  ASSUME World, NEW p, NEW k, NEW X, NEW L, NEW B, PoolInv(p, X), Rightly(p, X, L, B), Clears(p, k, L, B)
  PROVE  Apart(k) /\ Driven(k, X)
<1>0. /\ p \in PoolRecord /\ Structured(p) /\ Unique(p, X) /\ Out(p, X) /\ Apart(p) /\ Driven(p, X)
      /\ k.wrapped = p.wrapped /\ k.tabs = p.tabs \ L
      /\ L \subseteq p.tabs /\ p.tabs \subseteq 1..p.wrapped
  BY DEF PoolInv, Clears, Rightly, Structured
<1>1. \A s \in 1..p.wrapped : s \in Sessions
  BY <1>0, PoolFields, NoneFacts DEF Sessions
<1>2. \A s \in Sessions : /\ k.session[s].raw = p.session[s].raw
                          /\ s \in L => k.session[s].status = "closed"
                          /\ s \notin L => k.session[s] = p.session[s]
  BY DEF Clears
<1>3. ASSUME NEW t \in Tasks, OnTab(t)
      PROVE  LET s == task[t].tab IN
             /\ s \in 1..p.wrapped
             /\ k.session[s].status # "idle"
             /\ task[t].at # "releasing" /\ k.session[s].status \in {"busy", "error"} => k.session[s].owner = t
  <2> DEFINE s == task[t].tab
  <2>1. /\ s \in 1..p.wrapped /\ p.session[s].status # "idle"
        /\ task[t].at # "releasing" /\ p.session[s].status \in {"busy", "error"} => p.session[s].owner = t
    BY <1>0, <1>3 DEF Apart
  <2> HIDE DEF s
  <2>2. CASE s \in L
    BY <1>1, <1>2, <2>1, <2>2 DEF s
  <2>3. CASE s \notin L
    BY <1>1, <1>2, <2>1, <2>3 DEF s
  <2>4. QED
    BY <2>2, <2>3
<1>4. Apart(k)
  BY <1>0, <1>3 DEF Apart
<1>5. Driven(k, X)
  <2>1. ASSUME NEW t \in Tasks \ presumed, task[t].at = "driving", k.session[task[t].tab].raw \in Open \ X,
               task[t].tab \notin k.tabs
        PROVE  /\ k.quarantine[k.session[task[t].tab].raw] # NoEntry
               /\ k.quarantine[k.session[task[t].tab].raw].task = t
    <3> DEFINE s == task[t].tab
    <3> DEFINE r == p.session[s].raw
    <3>1. /\ s \in 1..p.wrapped /\ p.session[s].status # "idle"
          /\ p.session[s].status \in {"busy", "error"} => p.session[s].owner = t
      BY <1>0, <2>1 DEF Apart, OnTab
    <3>2. s \in Sessions /\ k.session[s].raw = r /\ r \in Open \ X /\ r \in Targets
      BY <1>1, <1>2, <2>1, <3>1 DEF Open
    <3> HIDE DEF s
    <3>3. CASE s \in p.tabs
      <4>1. s \in L /\ p.session[s].status \in {"busy", "error"}
        BY <1>0, <2>1, <3>1, <3>3 DEF s, Structured
      <4>2. r \in B /\ p.session[s].owner = t
        BY <3>1, <3>2, <4>1 DEF Rightly
      <4>3. p.mapped[r] = s
        BY <1>0, <3>2, <3>3 DEF Unique
      <4>4. k.quarantine[r] # NoEntry /\ k.quarantine[r].task = p.session[p.mapped[r]].owner
        BY <4>2, BarredFacts
      <4>5. QED
        BY <3>2, <4>2, <4>3, <4>4 DEF s
    <3>4. CASE s \notin p.tabs
      <4>1. p.quarantine[r] # NoEntry /\ p.quarantine[r].task = t
        BY <1>0, <2>1, <3>2, <3>4 DEF Driven, s
      <4>2. r \notin B
        BY <3>2, <4>1, BarredFacts
      <4>3. k.quarantine[r] = p.quarantine[r]
        BY <3>2, <4>2 DEF Clears
      <4>4. QED
        BY <3>2, <4>1, <4>3 DEF s
    <3>5. QED
      BY <3>3, <3>4
  <2>2. QED
    BY <2>1 DEF Driven
<1>6. QED
  BY <1>4, <1>5

(* Dropping sessions keeps all that holds of the pool. *)
LEMMA ClearsKeeps ==
  ASSUME World, NEW p, NEW k, NEW X, NEW L, NEW B, PoolInv(p, X), Rightly(p, X, L, B), Clears(p, k, L, B)
  PROVE  PoolInv(k, X)
<1>1. k \in PoolRecord
  BY DEF Clears
<1>2. QED
  BY <1>1, ClearsStructure, ClearsRecords, ClearsTasks DEF PoolInv

-----------------------------------------------------------------------------
(* Scans. *)

(* What is recorded of quarantined targets is read from the entries alone. *)
LEMMA SameRecords ==
  ASSUME NEW p, NEW k, NEW X, k.quarantine = p.quarantine, k.failed = p.failed
  PROVE  /\ Pending(k) = Pending(p)
         /\ Filed(p, X) => Filed(k, X)
         /\ Worked(p) => Worked(k)
         /\ Judged(p) => Judged(k)
<1>1. Pending(k) = Pending(p)
  BY DEF Pending
<1>2. QED
  BY <1>1 DEF Filed, FiledUnder, Worked, Judged

(* A larger set of targets to be careless about. *)
LEMMA PoolInvWeakens ==
  ASSUME NEW p, NEW X, NEW Y, X \subseteq Y, PoolInv(p, X)
  PROVE  PoolInv(p, Y)
BY DEF PoolInv, Unique, Out, Filed, Driven

(* A scan that forgets barred targets keeps all that holds of the pool, the *)
(* forgotten targets that are open set aside.                               *)
LEMMA PrunedKeeps ==
  ASSUME World, NEW p, NEW X, NEW seen, PoolInv(p, X), Prunable(p, seen) \cap Open \subseteq X
  PROVE  PoolInv(Pruned(p, seen), X)
<1> DEFINE k == Pruned(p, seen)
<1>0. p \in PoolRecord
  BY DEF PoolInv
<1>1. /\ k \in PoolRecord /\ k.wrapped = p.wrapped /\ k.session = p.session /\ k.tabs = p.tabs
      /\ k.mapped = p.mapped /\ k.failed = p.failed
      /\ \A r \in Targets : k.quarantine[r] = IF r \in Prunable(p, seen) THEN NoEntry ELSE p.quarantine[r]
  BY <1>0, PrunedFields
<1>2. Prunable(p, seen) \subseteq Targets
  BY DEF Prunable
<1> HIDE DEF k
<1>3. Structured(k) /\ Unique(k, X) /\ Apart(k)
  BY <1>1 DEF PoolInv, Structured, Unique, Apart
<1>4. Out(k, X)
  BY <1>1 DEF PoolInv, Out
<1>5. Pending(k) = Pending(p) /\ Past(k) = Past(p)
  BY <1>1 DEF Pending, Past
<1>6. Origin(k)
  BY <1>1, <1>5, NoEntryFields DEF PoolInv, Origin, Past
<1>7. Filed(k, X)
  <2>1. ASSUME NEW i \in DOMAIN Pending(p), Pending(p)[i].raw \in Open \ X PROVE FiledUnder(k, i)
    <3>1. FiledUnder(p, i)
      BY <2>1 DEF PoolInv, Filed
    <3>2. Pending(p)[i].raw \in Targets /\ Pending(p)[i].raw \notin Prunable(p, seen)
      BY <2>1 DEF Open
    <3>3. k.quarantine[Pending(p)[i].raw] = p.quarantine[Pending(p)[i].raw]
      BY <1>1, <3>2
    <3>4. QED
      BY <1>5, <3>1, <3>3 DEF FiledUnder
  <2>2. QED
    BY <1>5, <2>1 DEF Filed
<1>8. Worked(k)
  BY <1>1, <1>5 DEF PoolInv, Worked
<1>9. Judged(k)
  <2>1. ASSUME NEW i \in DOMAIN recovery, recovery[i].at = "closing"
        PROVE  LET e == k.quarantine[recovery[i].entry.raw] IN
               e = NoEntry \/ e.permanent \/ e.by # recovery[i].entry.by
    <3> DEFINE r == recovery[i].entry.raw
    <3>1. \/ p.quarantine[r] = NoEntry \/ p.quarantine[r].permanent \/ p.quarantine[r].by # recovery[i].entry.by
      BY <2>1 DEF PoolInv, Judged
    <3>2. r \in Targets
      <4>1. recovery[i] \in JobRecord
        BY DEF World
      <4>2. QED
        BY <4>1 DEF JobRecord, FailedRecord
    <3>3. QED
      BY <1>1, <3>1, <3>2
  <2>2. QED
    BY <2>1 DEF PoolInv, Judged
<1>10. Driven(k, X)
  BY <1>1, <1>2 DEF PoolInv, Driven, Open
<1>11. QED
  BY <1>1, <1>3, <1>4, <1>6, <1>7, <1>8, <1>9, <1>10 DEF PoolInv, k

(* A mapping that comes back keeps all that holds of the pool. *)
LEMMA RepairedKeeps ==
  ASSUME NEW p, NEW X, NEW seen, PoolInv(p, X)
  PROVE  PoolInv(Repaired(p, seen), X)
<1> DEFINE k == Repaired(p, seen)
<1>0. p \in PoolRecord
  BY DEF PoolInv
<1>1. /\ k \in PoolRecord /\ k.wrapped = p.wrapped /\ k.session = p.session /\ k.tabs = p.tabs
      /\ k.quarantine = p.quarantine /\ k.failed = p.failed
      /\ \A r \in Targets : \/ k.mapped[r] = p.mapped[r]
                            \/ ~Live(p, r) /\ k.mapped[r] \in p.tabs /\ p.session[k.mapped[r]].raw = r
  BY <1>0, RepairedFields
<1> HIDE DEF k
<1>2. Structured(k)
  <2>1. \A r \in Targets : k.mapped[r] # None => k.mapped[r] \in k.tabs /\ k.session[k.mapped[r]].raw = r
    BY <1>1 DEF PoolInv, Structured
  <2>2. QED
    BY <1>1, <2>1 DEF PoolInv, Structured
<1>3. Unique(k, X)
  <2>1. ASSUME NEW s \in p.tabs, p.session[s].raw \notin X PROVE k.mapped[p.session[s].raw] = s
    <3>1. p.mapped[p.session[s].raw] = s /\ p.session[s].raw \in Targets
      BY <2>1 DEF PoolInv, Unique, Structured, Opened
    <3>2. Live(p, p.session[s].raw)
      BY <3>1 DEF Live
    <3>3. QED
      BY <1>1, <3>1, <3>2
  <2>2. QED
    BY <1>1, <2>1 DEF Unique
<1>4. Out(k, X) /\ Apart(k) /\ Driven(k, X)
  BY <1>1 DEF PoolInv, Out, Apart, Driven
<1>5. Pending(k) = Pending(p) /\ Filed(k, X) /\ Worked(k) /\ Judged(k)
  BY <1>1, SameRecords DEF PoolInv
<1>6. Origin(k)
  BY <1>1, <1>5 DEF PoolInv, Origin, Past
<1>7. QED
  BY <1>1, <1>2, <1>3, <1>4, <1>5, <1>6 DEF PoolInv, k

(* Addresses that sessions remember tell nothing of who holds what. *)
LEMMA AddressesKeep ==
  ASSUME NEW p, NEW X, PoolInv(p, X), NEW k \in PoolRecord,
         k.wrapped = p.wrapped, k.tabs = p.tabs,
         k.mapped = p.mapped, k.quarantine = p.quarantine, k.failed = p.failed,
         \A s \in Sessions : /\ k.session[s].raw = p.session[s].raw
                             /\ k.session[s].status = p.session[s].status
                             /\ k.session[s].owner = p.session[s].owner
  PROVE  PoolInv(k, X)
<1>1. p \in PoolRecord
  BY DEF PoolInv
<1>2. /\ 1..p.wrapped \subseteq Sessions /\ p.tabs \subseteq Sessions /\ None \notin Sessions
      /\ \A r \in Targets : p.mapped[r] \in Sessions \cup {None}
  BY <1>1, PoolFields, NoneFacts DEF Sessions
<1>3. Structured(k)
  BY <1>2 DEF PoolInv, Structured
<1>4. Unique(k, X) /\ Out(k, X)
  BY <1>2 DEF PoolInv, Unique, Out
<1>5. Pending(k) = Pending(p) /\ Filed(k, X) /\ Worked(k) /\ Judged(k)
  BY SameRecords DEF PoolInv
<1>6. Origin(k)
  BY <1>2, <1>5 DEF PoolInv, Origin, Past
<1>7. Apart(k)
  BY <1>2 DEF PoolInv, Apart
<1>8. Driven(k, X)
  <2>1. \A t \in Tasks : task[t].at = "driving" => task[t].tab \in Sessions
    BY <1>2 DEF PoolInv, Apart, OnTab
  <2>2. QED
    BY <2>1 DEF PoolInv, Driven
<1>9. QED
  BY <1>3, <1>4, <1>5, <1>6, <1>7, <1>8 DEF PoolInv

(* An answer that is remembered keeps all that holds of the pool. *)
LEMMA RememberedKeeps ==
  ASSUME NEW p, NEW X, NEW seen, NEW fit, PoolInv(p, X)
  PROVE  PoolInv(Remembered(p, seen, fit), X)
<1>1. p \in PoolRecord
  BY DEF PoolInv
<1>2. QED
  BY <1>1, RememberedFields, AddressesKeep

(* New sessions, for targets that are neither pooled nor quarantined. *)
LEMMA WrapKeeps ==
  ASSUME NEW p, NEW X, PoolInv(p, X), NEW q \in Seq(Targets), p.wrapped + Len(q) <= MaxSessions,
         \A i, j \in DOMAIN q : q[i] = q[j] => i = j,
         \A i \in DOMAIN q :
           /\ q[i] \in Opened
           /\ q[i] \notin X => p.quarantine[q[i]] = NoEntry /\ \A s \in p.tabs : p.session[s].raw # q[i]
  PROVE  PoolInv(Wrap(p, q), X)
<1> DEFINE k == Wrap(p, q)
<1> DEFINE n == Len(q)
<1> DEFINE new == (p.wrapped + 1)..(p.wrapped + n)
<1>0. p \in PoolRecord /\ n \in Nat /\ DOMAIN q = 1..n /\ \A i \in 1..n : q[i] \in Targets
  BY DEF PoolInv
<1>1. /\ k \in PoolRecord /\ k.wrapped = p.wrapped + n /\ k.tabs = p.tabs \cup new
      /\ \A s \in Sessions : /\ s \in new => /\ k.session[s].raw = q[s - p.wrapped]
                                             /\ k.session[s].status = "idle"
                                             /\ k.session[s].owner = None
                             /\ s \notin new => k.session[s] = p.session[s]
      /\ \A i \in 1..n : k.mapped[q[i]] = p.wrapped + i
      /\ \A r \in Targets : (\A i \in 1..n : q[i] # r) => k.mapped[r] = p.mapped[r]
      /\ k.quarantine = p.quarantine /\ k.failed = p.failed
  BY <1>0, WrapFields
<1>2. p.wrapped \in 0..MaxSessions /\ p.wrapped \in Nat /\ MaxSessions \in Nat /\ None \notin Sessions
      /\ p.tabs \subseteq Sessions
  BY <1>0, PoolFields, NoneFacts
<1> HIDE DEF k, n
<1>3. /\ new \subseteq Sessions /\ \A s \in new : s \notin 1..p.wrapped /\ s - p.wrapped \in 1..n
      /\ p.wrapped + n <= MaxSessions
  BY <1>0, <1>2 DEF Sessions, n
<1>4. \A i \in 1..n : p.wrapped + i \in new /\ (p.wrapped + i) - p.wrapped = i
  BY <1>0, <1>2
<1>5. \A s \in 1..k.wrapped : s \in 1..p.wrapped \/ s \in new
  BY <1>0, <1>1, <1>2
<1>6. 1..p.wrapped \subseteq 1..k.wrapped /\ 1..p.wrapped \subseteq Sessions /\ new \subseteq 1..k.wrapped
  BY <1>0, <1>1, <1>2 DEF Sessions
<1>7. p.tabs \subseteq 1..p.wrapped
  BY DEF PoolInv, Structured
<1>8. \A s \in Sessions : s > k.wrapped => s > p.wrapped /\ s \notin new
  BY <1>0, <1>1, <1>2, NoneFacts
<1> HIDE DEF new
<1>9. \A s \in 1..p.wrapped : s \in Sessions /\ k.session[s] = p.session[s]
  BY <1>1, <1>3, <1>6
<1>10. Structured(k)
  <2>1. \A s \in Sessions : s > k.wrapped => k.session[s].raw = None
    BY <1>1, <1>8 DEF PoolInv, Structured
  <2>2. \A s \in 1..k.wrapped : k.session[s].raw \in Opened
    <3>1. ASSUME NEW s \in 1..p.wrapped PROVE k.session[s].raw \in Opened
      BY <1>9 DEF PoolInv, Structured
    <3>2. ASSUME NEW s \in new PROVE k.session[s].raw \in Opened
      <4>1. s - p.wrapped \in DOMAIN q /\ k.session[s].raw = q[s - p.wrapped]
        BY <1>0, <1>1, <1>3
      <4>2. QED
        BY <4>1
    <3>3. QED
      BY <1>5, <3>1, <3>2
  <2>3. \A s \in k.tabs : k.session[s].status \in {"idle", "busy", "error"}
    BY <1>1, <1>3, <1>7, <1>9 DEF PoolInv, Structured
  <2>4. \A s \in Sessions \ k.tabs : k.session[s].status \in {"unborn", "closed"}
    BY <1>1 DEF PoolInv, Structured
  <2>5. ASSUME NEW r \in Targets, k.mapped[r] # None PROVE k.mapped[r] \in k.tabs /\ k.session[k.mapped[r]].raw = r
    <3>1. CASE \E i \in 1..n : q[i] = r
      <4>1. PICK i \in 1..n : q[i] = r
        BY <3>1
      <4>2. k.mapped[r] = p.wrapped + i
        BY <1>1, <4>1
      <4>3. QED
        BY <1>1, <1>3, <1>4, <4>1, <4>2
    <3>2. CASE \A i \in 1..n : q[i] # r
      <4>1. k.mapped[r] = p.mapped[r]
        BY <1>1, <3>2
      <4>2. p.mapped[r] \in p.tabs /\ p.session[p.mapped[r]].raw = r
        BY <2>5, <4>1 DEF PoolInv, Structured
      <4>3. QED
        BY <1>1, <1>7, <1>9, <4>1, <4>2
    <3>3. QED
      BY <3>1, <3>2
  <2>6. k.tabs \subseteq 1..k.wrapped
    BY <1>1, <1>6, <1>7
  <2>7. QED
    BY <2>1, <2>2, <2>3, <2>4, <2>5, <2>6 DEF Structured
<1>11. Unique(k, X)
  <2>1. ASSUME NEW s \in p.tabs, k.session[s].raw \notin X PROVE k.mapped[k.session[s].raw] = s
    <3>1. k.session[s].raw = p.session[s].raw
      BY <1>7, <1>9
    <3>2. p.mapped[p.session[s].raw] = s
      BY <2>1, <3>1 DEF PoolInv, Unique
    <3>3. p.session[s].raw \in Targets /\ \A i \in 1..n : q[i] # p.session[s].raw
      BY <1>0, <1>7, <2>1, <3>1 DEF PoolInv, Structured, Opened
    <3>4. QED
      BY <1>1, <3>1, <3>2, <3>3
  <2>2. ASSUME NEW s \in new PROVE k.mapped[k.session[s].raw] = s
    <3> DEFINE i == s - p.wrapped
    <3>1. i \in 1..n /\ k.session[s].raw = q[i]
      BY <1>1, <1>3
    <3>2. k.mapped[q[i]] = p.wrapped + i
      BY <1>1, <3>1
    <3>3. p.wrapped + i = s
      BY <1>2, <1>3, NoneFacts
    <3>4. QED
      BY <3>1, <3>2, <3>3
  <2>3. QED
    BY <1>1, <2>1, <2>2 DEF Unique
<1>12. Out(k, X)
  <2>1. ASSUME NEW r \in Targets \ X, p.quarantine[r] # NoEntry, NEW s \in k.tabs, k.session[s].raw = r PROVE FALSE
    <3>1. CASE s \in p.tabs
      BY <1>7, <1>9, <2>1, <3>1 DEF PoolInv, Out
    <3>2. CASE s \in new
      <4>1. s - p.wrapped \in DOMAIN q /\ q[s - p.wrapped] = r
        BY <1>0, <1>1, <1>3, <2>1, <3>2
      <4>2. QED
        BY <2>1, <4>1
    <3>3. QED
      BY <1>1, <2>1, <3>1, <3>2
  <2>2. QED
    BY <1>1, <2>1 DEF Out
<1>13. Pending(k) = Pending(p) /\ Filed(k, X) /\ Worked(k) /\ Judged(k)
  BY <1>1, SameRecords DEF PoolInv
<1>14. Past(p) \subseteq Past(k)
  BY <1>1, <1>3, <1>6 DEF Past
<1>15. Origin(k)
  <2>1. ASSUME NEW r \in Targets, p.quarantine[r] # NoEntry PROVE \E s \in 1..k.wrapped : k.session[s].raw = r
    <3>1. PICK s \in 1..p.wrapped : p.session[s].raw = r
      BY <2>1 DEF PoolInv, Origin
    <3>2. QED
      BY <1>6, <1>9, <3>1
  <2>2. QED
    BY <1>1, <1>13, <1>14, <2>1 DEF PoolInv, Origin
<1>16. Apart(k)
  <2>1. ASSUME NEW t \in Tasks, OnTab(t)
        PROVE  LET s == task[t].tab IN
             /\ s \in 1..k.wrapped
             /\ k.session[s].status # "idle"
             /\ task[t].at # "releasing" /\ k.session[s].status \in {"busy", "error"} => k.session[s].owner = t
    <3>1. task[t].tab \in 1..p.wrapped
      BY <2>1 DEF PoolInv, Apart
    <3>2. k.session[task[t].tab] = p.session[task[t].tab] /\ task[t].tab \in 1..k.wrapped
      BY <1>6, <1>9, <3>1
    <3>3. QED
      BY <2>1, <3>2 DEF PoolInv, Apart
  <2>2. QED
    BY <2>1 DEF PoolInv, Apart
<1>17. Driven(k, X)
  <2>1. ASSUME NEW t \in Tasks \ presumed, task[t].at = "driving", k.session[task[t].tab].raw \in Open \ X
        PROVE  LET s == task[t].tab IN
               s \in k.tabs \/ (k.quarantine[k.session[s].raw] # NoEntry /\ k.quarantine[k.session[s].raw].task = t)
    <3>1. task[t].tab \in 1..p.wrapped
      BY <2>1 DEF PoolInv, Apart, OnTab
    <3>2. k.session[task[t].tab] = p.session[task[t].tab]
      BY <1>9, <3>1
    <3>3. QED
      BY <1>1, <2>1, <3>2 DEF PoolInv, Driven
  <2>2. QED
    BY <2>1 DEF Driven
<1>18. QED
  BY <1>1, <1>10, <1>11, <1>12, <1>13, <1>15, <1>16, <1>17 DEF PoolInv, k

(* The inductive invariant. *)
Inv == World /\ PoolInv(pool, exposed) /\ Asked(pool)

(* Time passes for the pool: sessions are never given another target. *)
Aged(p, k) ==
  /\ p.wrapped <= k.wrapped /\ k.wrapped \in Nat
  /\ \A s \in 1..p.wrapped : k.session[s].raw = p.session[s].raw

(* What holds of the new pool holds after the step. *)
LEMMA StillPool ==
  ASSUME PoolInv(pool', exposed'), UNCHANGED <<target, task, recovery, presumed>>
  PROVE  PoolInv(pool, exposed)'
<1>1. Opened' = Opened /\ Open' = Open
  BY DEF Opened, Open
<1>2. Pending(pool)' = Pending(pool')
  BY DEF Pending
<1>3. Structured(pool)' /\ Unique(pool, exposed)' /\ Out(pool, exposed)'
  BY <1>1 DEF PoolInv, Structured, Unique, Out
<1>4. Origin(pool)' /\ Filed(pool, exposed)' /\ Worked(pool)' /\ Judged(pool)'
  BY <1>1, <1>2 DEF PoolInv, Origin, Filed, FiledUnder, Worked, Judged, Past
<1>5. Apart(pool)' /\ Driven(pool, exposed)'
  BY <1>1 DEF PoolInv, Apart, Driven, OnTab
<1>6. QED
  BY <1>3, <1>4, <1>5 DEF PoolInv

(* Scans in flight are not disturbed by what the pool becomes. *)
LEMMA AskedKept ==
  ASSUME World, PoolInv(pool, exposed), Asked(pool), Aged(pool, pool'), UNCHANGED target,
         \A x \in Scanners :
           \/ scan'[x] = scan[x]
           \/ scan'[x].since = 0 /\ scan'[x].seen = {} /\ scan'[x].fit = {} /\ scan'[x].at \in {"away", "opening"}
  PROVE  Asked(pool)'
<1>1. Opened' = Opened
  BY DEF Opened
<1>2. pool.wrapped \in 0..MaxSessions /\ pool.wrapped \in Nat
  BY PoolFields, NoneFacts DEF PoolInv
<1>3. ASSUME NEW x \in Scanners
      PROVE  /\ scan'[x].since <= pool'.wrapped
             /\ scan'[x].seen \subseteq Opened /\ scan'[x].fit \subseteq scan'[x].seen
             /\ scan'[x].at = "knowing" =>
                  \A s \in 1..scan'[x].since :
                    pool'.session[s].raw \in scan'[x].seen \/ target[pool'.session[s].raw] = "closed"
             /\ scan'[x].at = "wrapping" => scan'[x].raw \in Opened
  <2>1. CASE scan'[x] = scan[x]
    <3>1. scan[x].since \in Nat /\ scan[x].since <= pool.wrapped
      BY NoneFacts DEF World, ScanRecord, Asked
    <3>2. \A s \in 1..scan[x].since : s \in 1..pool.wrapped
      BY <1>2, <3>1
    <3>3. scan[x].since <= pool'.wrapped
      BY <1>2, <3>1 DEF Aged
    <3>4. QED
      BY <2>1, <3>2, <3>3 DEF Asked, Aged
  <2>2. CASE scan'[x].since = 0 /\ scan'[x].seen = {} /\ scan'[x].fit = {} /\ scan'[x].at \in {"away", "opening"}
    BY <2>2 DEF Aged
  <2>3. QED
    BY <2>1, <2>2
<1>4. QED
  BY <1>1, <1>3 DEF Asked

(* A session that a scan drops has lost its target, or its mapping. *)
LEMMA VanishedFacts ==
  ASSUME World, PoolInv(pool, exposed), Asked(pool), NEW x \in Scanners, scan[x].at = "knowing",
         NEW p \in PoolRecord, NEW X, Structured(p), Unique(p, X),
         \A u \in Sessions : p.session[u].raw = pool.session[u].raw, p.wrapped = pool.wrapped,
         NEW s \in Vanished(p, scan[x].seen, scan[x].since)
  PROVE  s \in p.tabs /\ (p.session[s].raw \in X \/ p.session[s].raw \notin Open)
<1>1. s \in p.tabs /\ s <= scan[x].since
      /\ (p.mapped[p.session[s].raw] # s \/ p.session[s].raw \notin scan[x].seen)
  BY DEF Vanished
<1>2. CASE p.mapped[p.session[s].raw] # s
  BY <1>1, <1>2 DEF Unique
<1>3. CASE p.session[s].raw \notin scan[x].seen
  <2>1. s \in 1..p.wrapped
    BY <1>1 DEF Structured
  <2>2. s \in 1..scan[x].since
    <3>1. p.wrapped \in Nat /\ scan[x].since \in Nat
      BY PoolFields, NoneFacts DEF World, ScanRecord
    <3>2. QED
      BY <1>1, <2>1, <3>1
  <2>3. target[p.session[s].raw] = "closed"
    <3>1. s \in Sessions
      BY <1>1, PoolFields
    <3>2. QED
      BY <1>3, <2>2, <3>1 DEF Asked
  <2>4. QED
    BY <1>1, <2>3 DEF Open
<1>4. QED
  BY <1>1, <1>2, <1>3

(* The session remembers an address the pool skips, or the scan is about to *)
(* make it remember one.                                                    *)
Skips(x, s) ==
  pool.session[s].url = "unusable" \/ pool.session[s].raw \in scan[x].seen \ scan[x].fit

(* The pool once a scan's answer was applied to it. *)
LEMMA ScanApplied ==
  ASSUME Inv, NEW x \in Scanners, NEW creates \in BOOLEAN, ScanApply(x, creates)
  PROVE  /\ PoolInv(pool', exposed')
         /\ Aged(pool, pool')
         /\ \A s \in Sessions :
              \/ pool'.session[s].url # "unusable"
              \/ pool'.session[s].raw = pool.session[s].raw /\ Skips(x, s)
         /\ \A s \in pool.tabs \ pool'.tabs :
              \/ pool.session[s].raw \notin Open
              \/ pool.session[s].raw \in exposed
              \/ pool.session[s].status \in {"closed", "error"}
              \/ pool.session[s].status = "idle" /\ Skips(x, s)
<1> DEFINE seen == scan[x].seen
<1> DEFINE g == Pruned(pool, seen)
<1> DEFINE fit == scan[x].fit
<1> DEFINE f == Repaired(g, seen)
<1> DEFINE h == Remembered(f, seen, fit)
<1> DEFINE V == Vanished(h, seen, scan[x].since)
<1> DEFINE kept == Cleaned(Dropped(h, V))
<1>0. PICK q \in SetToSeqs(Addable(kept, fit)) : pool' = Cleaned(Extended(kept, q))
  BY DEF ScanApply
<1>1. /\ World /\ PoolInv(pool, exposed) /\ Asked(pool) /\ pool \in PoolRecord
      /\ exposed' = exposed \cup (Prunable(pool, seen) \cap Open)
      /\ scan[x].at = "knowing"
  BY DEF Inv, PoolInv, ScanApply
<1>2. /\ g \in PoolRecord /\ g.wrapped = pool.wrapped /\ g.session = pool.session /\ g.tabs = pool.tabs
      /\ PoolInv(g, exposed') /\ g.mapped = pool.mapped
  <2>1. PoolInv(pool, exposed') /\ Prunable(pool, seen) \cap Open \subseteq exposed'
    BY <1>1, PoolInvWeakens
  <2>2. PoolInv(g, exposed')
    BY <1>1, <2>1, PrunedKeeps
  <2>3. QED
    BY <1>1, <2>2, PrunedFields
<1> HIDE DEF g
<1>30. /\ f \in PoolRecord /\ f.wrapped = pool.wrapped /\ f.session = pool.session /\ f.tabs = pool.tabs
       /\ PoolInv(f, exposed')
       /\ \A r \in Targets : f.mapped[r] = g.mapped[r] \/ ~Live(g, r)
  BY <1>2, RepairedFields, RepairedKeeps
<1> HIDE DEF f
<1>3. /\ h \in PoolRecord /\ h.wrapped = pool.wrapped /\ h.tabs = pool.tabs
      /\ PoolInv(h, exposed')
      /\ \A r \in Targets : h.mapped[r] = g.mapped[r] \/ ~Live(g, r)
      /\ \A s \in Sessions :
           /\ h.session[s].raw = pool.session[s].raw
           /\ h.session[s].status = pool.session[s].status
           /\ \/ h.session[s].url = pool.session[s].url
              \/ h.session[s].url = "usable"
              \/ h.session[s].url = "unusable" /\ pool.session[s].raw \in seen \ fit
  BY <1>30, RememberedFields, RememberedKeeps
<1>31. Structured(h) /\ Unique(h, exposed)
  <2>1. ASSUME NEW s \in h.tabs, h.session[s].raw \notin exposed PROVE h.mapped[h.session[s].raw] = s
    <3>0. s \in pool.tabs /\ h.session[s].raw = pool.session[s].raw
      BY <1>1, <1>3, PoolFields
    <3>1. pool.mapped[pool.session[s].raw] = s
      BY <1>1, <2>1, <3>0 DEF PoolInv, Unique
    <3>2. pool.session[s].raw \in Targets
      BY <1>1, <3>0 DEF PoolInv, Structured, Opened
    <3>3. Live(g, pool.session[s].raw)
      BY <1>2, <3>0, <3>1 DEF Live
    <3>4. QED
      BY <1>2, <1>3, <3>0, <3>1, <3>2, <3>3
  <2>2. QED
    BY <1>3, <2>1 DEF PoolInv, Unique
<1> HIDE DEF h
<1>4. ASSUME NEW s \in V PROVE s \in h.tabs /\ (h.session[s].raw \in exposed \/ h.session[s].raw \notin Open)
  BY <1>1, <1>3, <1>31, VanishedFacts
<1>5. V \in SUBSET h.tabs
  BY <1>4
<1> DEFINE L == V \cup Unfit(h)
<1> DEFINE B == {r \in Targets : h.mapped[r] \in Unfit(h) \ V /\ h.session[h.mapped[r]].status = "error"}
<1>6. Clears(h, kept, L, B)
  <2>1. \A s \in h.tabs : h.session[s].status \in {"idle", "busy", "error"}
    BY <1>3 DEF PoolInv, Structured
  <2> HIDE DEF V
  <2>2. QED
    BY <1>3, <1>5, <2>1, DroppedClears
<1>7. Unfit(h) \subseteq h.tabs
  BY DEF Unfit
<1>8. Rightly(h, exposed', L, B)
  <2>1. ASSUME NEW s \in L, h.session[s].raw \in Open \ exposed'
        PROVE  h.session[s].status # "busy" /\ (h.session[s].status = "error" => h.session[s].raw \in B)
    <3>1. s \notin V /\ s \in Unfit(h)
      BY <1>1, <1>4, <2>1
    <3>2. h.session[s].status # "busy"
      BY <3>1 DEF Unfit
    <3>3. h.mapped[h.session[s].raw] = s
      BY <1>3, <1>7, <2>1, <3>1 DEF PoolInv, Unique
    <3>4. h.session[s].raw \in Targets
      BY <2>1 DEF Open
    <3>5. QED
      BY <3>1, <3>2, <3>3, <3>4
  <2>2. QED
    BY <1>5, <1>7, <2>1 DEF Rightly
<1>9. PoolInv(kept, exposed')
  BY <1>1, <1>3, <1>6, <1>8, ClearsKeeps
<1>10. /\ kept \in PoolRecord /\ kept.wrapped = pool.wrapped /\ kept.tabs = pool.tabs \ L
       /\ \A s \in Sessions : /\ kept.session[s].raw = pool.session[s].raw
                              /\ kept.session[s].url \in {h.session[s].url, "none"}
                              /\ s \notin L => kept.session[s] = h.session[s]
  BY <1>3, <1>6 DEF Clears
<1> HIDE DEF kept
<1>11. Addable(kept, fit) \in SUBSET Targets /\ IsFiniteSet(Addable(kept, fit))
  <2>1. fit \subseteq Targets
    BY <1>1 DEF World, ScanRecord
  <2>2. Addable(kept, fit) \in SUBSET Targets
    BY <2>1 DEF Addable
  <2>3. QED
    BY <2>2, PoolAssumption, FS_Subset DEF PoolAssumption
<1>12. /\ q \in Seq(Addable(kept, fit)) /\ q \in Seq(Targets)
       /\ \A i, j \in DOMAIN q : q[i] = q[j] => i = j
  <2>1. /\ q \in Seq(Addable(kept, fit))
        /\ \A i, j \in DOMAIN q : q[i] = q[j] => i = j
    BY <1>11, SetToSeqsFacts
  <2>2. q \in Seq(Targets)
    BY <1>11, <2>1
  <2>3. QED
    BY <2>1, <2>2
<1>13. \A i \in DOMAIN q : q[i] \in Addable(kept, fit)
  BY <1>12
<1>14. PICK u \in Seq(Targets) :
         /\ Extended(kept, q) = Wrap(kept, u)
         /\ kept.wrapped + Len(u) <= MaxSessions
         /\ \A i, j \in DOMAIN u : u[i] = u[j] => i = j
         /\ \A i \in DOMAIN u : \E j \in DOMAIN q : u[i] = q[j]
  BY <1>10, <1>12, ExtendedIsWrapped
<1>15. ASSUME NEW i \in DOMAIN u
       PROVE  /\ u[i] \in Opened
              /\ kept.quarantine[u[i]] = NoEntry
              /\ u[i] \notin exposed' => \A s \in kept.tabs : kept.session[s].raw # u[i]
  <2>1. u[i] \in Addable(kept, fit)
    BY <1>13, <1>14
  <2>2. u[i] \in fit /\ ~Live(kept, u[i]) /\ kept.quarantine[u[i]] = NoEntry
    BY <2>1 DEF Addable
  <2>3. u[i] \in Opened
    BY <1>1, <2>2 DEF Asked
  <2>4. u[i] \notin exposed' => \A s \in kept.tabs : kept.session[s].raw # u[i]
    BY <1>9, <2>2 DEF Live, PoolInv, Unique
  <2>5. QED
    BY <2>2, <2>3, <2>4
<1> DEFINE e == Wrap(kept, u)
<1> DEFINE new == (kept.wrapped + 1)..(kept.wrapped + Len(u))
<1>16. PoolInv(e, exposed')
  BY <1>9, <1>14, <1>15, WrapKeeps
<1>17. /\ e \in PoolRecord /\ e.wrapped = kept.wrapped + Len(u) /\ e.tabs = kept.tabs \cup new
       /\ \A s \in Sessions :
              /\ s \in new => /\ e.session[s].raw = u[s - kept.wrapped]
                              /\ e.session[s].status = "idle"
                              /\ e.session[s].url = "usable"
              /\ s \notin new => e.session[s] = kept.session[s]
  BY <1>10, <1>14, WrapFields
<1>18. Unfit(e) = {}
  <2>0. Len(u) \in Nat /\ DOMAIN u = 1..Len(u) /\ kept.wrapped \in Nat /\ new \subseteq Sessions
        /\ kept.tabs \subseteq Sessions /\ kept.tabs \subseteq 1..kept.wrapped
    BY <1>9, <1>10, <1>14, PoolFields, NoneFacts DEF Sessions, PoolInv, Structured
  <2>1. ASSUME NEW s \in new PROVE s \notin Unfit(e)
    <3>1. e.session[s].status = "idle" /\ e.session[s].url = "usable"
      BY <1>17, <2>0
    <3> HIDE DEF e
    <3>2. QED
      BY <3>1 DEF Unfit
  <2>2. ASSUME NEW s \in kept.tabs PROVE s \notin Unfit(e)
    <3>1. s \in Sessions /\ s \notin new
      BY <2>0
    <3>2. e.session[s] = h.session[s]
      BY <1>10, <1>17, <3>1
    <3>3. s \in h.tabs /\ s \notin Unfit(h)
      BY <1>3, <1>10
    <3> HIDE DEF e
    <3>4. QED
      BY <3>2, <3>3 DEF Unfit
  <2>3. Unfit(e) \subseteq e.tabs
    BY DEF Unfit
  <2>4. QED
    BY <1>17, <2>1, <2>2, <2>3
<1>19. Quarantined(e) = {}
  BY <1>18 DEF Quarantined
<1> HIDE DEF e
<1>21. Clears(e, Cleaned(e), {}, {})
  BY <1>17, <1>18, <1>19, CleanedClears
<1>22. Rightly(e, exposed', {}, {})
  BY DEF Rightly
<1>23. PoolInv(Cleaned(e), exposed')
  BY <1>1, <1>16, <1>21, <1>22, ClearsKeeps
<1>24. pool' = Cleaned(e)
  BY <1>0, <1>14 DEF e
<1>25. /\ pool'.wrapped = kept.wrapped + Len(u) /\ pool'.tabs = kept.tabs \cup new
       /\ \A s \in Sessions : pool'.session[s] = e.session[s]
  BY <1>17, <1>21, <1>24 DEF Clears
<1>26. Len(u) \in Nat /\ kept.wrapped \in Nat /\ pool.wrapped \in Nat /\ 1..pool.wrapped \subseteq Sessions
       /\ \A s \in 1..pool.wrapped : s \notin new
  BY <1>1, <1>10, PoolFields, NoneFacts DEF Sessions
<1>27. Aged(pool, pool')
  BY <1>10, <1>17, <1>25, <1>26 DEF Aged
<1>28. ASSUME NEW s \in pool.tabs \ pool'.tabs
       PROVE  \/ pool.session[s].raw \notin Open
              \/ pool.session[s].raw \in exposed
              \/ pool.session[s].status \in {"closed", "error"}
              \/ pool.session[s].status = "idle" /\ Skips(x, s)
  <2>1. s \in L /\ s \in Sessions
    BY <1>1, <1>10, <1>25, PoolFields
  <2>2. CASE s \in Unfit(h)
    BY <1>3, <2>1, <2>2 DEF Unfit, Skips
  <2>3. CASE s \in V
    BY <1>3, <1>4, <2>1, <2>3
  <2>4. QED
    BY <2>1, <2>2, <2>3
<1>29. ASSUME NEW s \in Sessions
       PROVE  \/ pool'.session[s].url # "unusable"
              \/ pool'.session[s].raw = pool.session[s].raw /\ Skips(x, s)
  <2>1. CASE s \in new
    BY <1>17, <1>25, <2>1
  <2>2. CASE s \notin new
    <3>1. /\ pool'.session[s].raw = pool.session[s].raw
          /\ \/ pool'.session[s].url = pool.session[s].url
             \/ pool'.session[s].url # "unusable"
             \/ pool.session[s].raw \in seen \ fit
      BY <1>3, <1>10, <1>17, <1>25, <2>2
    <3>2. pool.session[s].url \in {"usable", "unusable", "none"}
      BY <1>1, SessionFields
    <3>3. QED
      BY <3>1, <3>2 DEF Skips
  <2>3. QED
    BY <2>1, <2>2
<1>32. QED
  BY <1>23, <1>24, <1>27, <1>28, <1>29

-----------------------------------------------------------------------------
(* Requests. *)

(* What SetSession leaves of the pool. *)
LEMMA SetSessionFields ==
  ASSUME pool \in PoolRecord, NEW s \in Sessions, NEW status \in Statuses, NEW owner \in Tasks \cup {None},
         SetSession(s, status, owner)
  PROVE  /\ pool' \in PoolRecord
         /\ pool'.wrapped = pool.wrapped /\ pool'.tabs = pool.tabs /\ pool'.mapped = pool.mapped
         /\ pool'.quarantine = pool.quarantine /\ pool'.failed = pool.failed
         /\ pool'.session[s].raw = pool.session[s].raw
         /\ pool'.session[s].status = status
         /\ pool'.session[s].owner = owner
         /\ pool'.session[s].url = pool.session[s].url
         /\ \A u \in Sessions \ {s} : pool'.session[u] = pool.session[u]
<1> DEFINE ss == [pool.session EXCEPT ![s].status = status, ![s].owner = owner]
<1>1. pool' = [pool EXCEPT !.session = ss]
  BY DEF SetSession, PoolRecord
<1>2. pool.session \in [Sessions -> SessionRecord]
  BY PoolFields
<1>3. /\ ss[s].raw = pool.session[s].raw
      /\ ss[s].status = status
      /\ ss[s].owner = owner
      /\ ss[s].url = pool.session[s].url
  BY <1>2 DEF SessionRecord
<1>4. \A u \in Sessions \ {s} : ss[u] = pool.session[u]
  BY <1>2
<1>5. ss \in [Sessions -> SessionRecord]
  BY <1>2 DEF SessionRecord
<1> HIDE DEF ss
<1>6. pool' \in PoolRecord /\ pool'.session = ss
      /\ pool'.wrapped = pool.wrapped /\ pool'.tabs = pool.tabs /\ pool'.mapped = pool.mapped
      /\ pool'.quarantine = pool.quarantine /\ pool'.failed = pool.failed
  BY <1>1, <1>5 DEF PoolRecord
<1>7. QED
  BY <1>3, <1>4, <1>6

(* A change of hands leaves the structure and the records of the pool. *)
LEMMA SessionStep ==
  ASSUME World, PoolInv(pool, exposed), NEW s \in pool.tabs, NEW status \in {"idle", "busy", "error"},
         NEW owner \in Tasks \cup {None}, SetSession(s, status, owner),
         UNCHANGED <<target, recovery, presumed, exposed>>,
         Apart(pool)', Driven(pool, exposed)'
  PROVE  PoolInv(pool, exposed)' /\ Aged(pool, pool') /\ pool'.tabs = pool.tabs
<1>1. s \in Sessions /\ pool \in PoolRecord /\ pool.wrapped \in Nat /\ 1..pool.wrapped \subseteq Sessions
  BY PoolFields, NoneFacts DEF PoolInv, Sessions
<1>2. status \in Statuses
  BY DEF Statuses
<1>3. /\ pool' \in PoolRecord
      /\ pool'.wrapped = pool.wrapped /\ pool'.tabs = pool.tabs /\ pool'.mapped = pool.mapped
      /\ pool'.quarantine = pool.quarantine /\ pool'.failed = pool.failed
      /\ pool'.session[s].raw = pool.session[s].raw
      /\ pool'.session[s].status = status
      /\ \A u \in Sessions \ {s} : pool'.session[u] = pool.session[u]
  BY <1>1, <1>2, SetSessionFields
<1>4. \A u \in Sessions : pool'.session[u].raw = pool.session[u].raw
  BY <1>3
<1>5. Opened' = Opened /\ Open' = Open
  BY DEF Opened, Open
<1>6. Structured(pool)'
  <2>0. Structured(pool) /\ pool.tabs \subseteq Sessions
    BY <1>1, PoolFields DEF PoolInv
  <2>1. \A u \in pool.tabs : pool'.session[u].status \in {"idle", "busy", "error"}
    BY <1>3, <2>0 DEF Structured
  <2>2. \A u \in Sessions \ pool.tabs : pool'.session[u].status \in {"unborn", "closed"}
    BY <1>3, <2>0 DEF Structured
  <2>3. \A r \in Targets : pool'.mapped[r] # None => pool'.mapped[r] \in pool'.tabs /\ pool'.session[pool'.mapped[r]].raw = r
    BY <1>3, <1>4, <2>0 DEF Structured
  <2>4. \A u \in 1..pool'.wrapped : pool'.session[u].raw \in Opened
    BY <1>1, <1>3, <1>4, <2>0 DEF Structured
  <2>5. QED
    BY <1>3, <1>4, <1>5, <2>0, <2>1, <2>2, <2>3, <2>4 DEF Structured
<1>7. Unique(pool, exposed)' /\ Out(pool, exposed)'
  <2>1. pool.tabs \subseteq Sessions
    BY <1>1, PoolFields
  <2>2. QED
    BY <1>3, <1>4, <2>1 DEF PoolInv, Unique, Out
<1>8. Pending(pool)' = Pending(pool)
  BY <1>3 DEF Pending
<1>9. Origin(pool)'
  BY <1>1, <1>3, <1>4, <1>5, <1>8 DEF PoolInv, Origin, Past
<1>10. Filed(pool, exposed)'
  BY <1>3, <1>5, <1>8 DEF PoolInv, Filed, FiledUnder
<1>11. Worked(pool)' /\ Judged(pool)'
  BY <1>3, <1>8 DEF PoolInv, Worked, Judged
<1>12. Aged(pool, pool')
  BY <1>1, <1>3, <1>4 DEF Aged
<1>13. QED
  BY <1>3, <1>6, <1>7, <1>9, <1>10, <1>11, <1>12 DEF PoolInv

(* Nothing but the tasks' steps changes. *)
LEMMA TaskStep ==
  ASSUME PoolInv(pool, exposed), UNCHANGED <<target, pool, recovery, presumed, exposed>>,
         Apart(pool)', Driven(pool, exposed)'
  PROVE  PoolInv(pool, exposed)'
<1>1. Opened' = Opened /\ Open' = Open /\ Pending(pool)' = Pending(pool)
  BY DEF Opened, Open, Pending
<1>2. Structured(pool)' /\ Unique(pool, exposed)' /\ Out(pool, exposed)' /\ Origin(pool)'
  BY <1>1 DEF PoolInv, Structured, Unique, Out, Origin, Past
<1>3. Filed(pool, exposed)' /\ Worked(pool)' /\ Judged(pool)'
  BY <1>1 DEF PoolInv, Filed, FiledUnder, Worked, Judged
<1>4. QED
  BY <1>2, <1>3 DEF PoolInv

(* What Moves changes of the tasks. *)
LEMMA MovesFacts ==
  ASSUME World, NEW t \in Tasks, NEW step \in {"new", "taken", "driving", "releasing", "over"},
         NEW s \in Sessions \cup {None}, Moves(t, step, s)
  PROVE  /\ task' \in [Tasks -> TaskRecord]
         /\ task'[t].at = step /\ task'[t].tab = s
         /\ \A u \in Tasks \ {t} : task'[u] = task[u]
BY DEF World, Moves, TaskRecord

(* A step of a request keeps the types. *)
LEMMA WorldKept ==
  ASSUME World, task' \in [Tasks -> TaskRecord],
         UNCHANGED <<target, detours, scan, recovery, attempts, presumed, exposed>>
  PROVE  World'
BY DEF World

(* The tab of a request is one the pool has wrapped. *)
LEMMA TabFacts ==
  ASSUME World, PoolInv(pool, exposed), NEW t \in Tasks, OnTab(t)
  PROVE  /\ task[t].tab \in 1..pool.wrapped /\ task[t].tab \in Sessions
         /\ pool.session[task[t].tab].status = "busy" => task[t].tab \in pool.tabs
<1>1. task[t].tab \in 1..pool.wrapped
  BY DEF PoolInv, Apart
<1>2. task[t].tab \in Sessions
  <2>1. pool.wrapped \in 0..MaxSessions /\ MaxSessions \in Nat
    BY PoolFields, NoneFacts DEF PoolInv
  <2>2. QED
    BY <1>1, <2>1 DEF Sessions
<1>3. QED
  BY <1>1, <1>2 DEF PoolInv, Structured

(* A task that moves without a change of the pool. *)
LEMMA MoveKeeps ==
  ASSUME Inv, NEW t \in Tasks, NEW step \in {"driving", "over"}, NEW s \in Sessions \cup {None},
         Moves(t, step, s),
         UNCHANGED <<target, detours, pool, scan, recovery, attempts, presumed, exposed>>,
         step = "driving" => task[t].at = "taken" /\ Holds(t) /\ s = task[t].tab
  PROVE  Inv'
<1>1. World /\ PoolInv(pool, exposed) /\ Asked(pool)
  BY DEF Inv
<1>2. /\ task' \in [Tasks -> TaskRecord]
      /\ task'[t].at = step /\ task'[t].tab = s
      /\ \A u \in Tasks \ {t} : task'[u] = task[u]
  BY <1>1, MovesFacts
<1>3. Open' = Open
  BY DEF Open
<1>4. Apart(pool)'
  <2>1. \A u \in Tasks : OnTab(u)' => OnTab(u) /\ task'[u].tab = task[u].tab
    BY <1>2 DEF OnTab
  <2>2. \A u \in Tasks : OnTab(u)' /\ task'[u].at # "releasing" => task[u].at # "releasing"
    BY <1>2 DEF OnTab
  <2>3. Apart(pool)
    BY <1>1 DEF PoolInv
  <2>4. QED
    BY <2>1, <2>2, <2>3 DEF Apart
<1>5. Driven(pool, exposed)'
  BY <1>1, <1>2, <1>3 DEF PoolInv, Driven, Holds
<1>6. PoolInv(pool, exposed)'
  BY <1>1, <1>4, <1>5, TaskStep
<1>7. World'
  BY <1>1, <1>2, WorldKept
<1>8. Asked(pool)'
  BY <1>1 DEF Asked, Opened
<1>9. QED
  BY <1>6, <1>7, <1>8 DEF Inv

(* A task moves and its tab changes hands with it. *)
LEMMA HandsChange ==
  ASSUME Inv, NEW s \in pool.tabs, NEW status \in {"idle", "busy", "error"}, NEW owner \in Tasks \cup {None},
         SetSession(s, status, owner), task' \in [Tasks -> TaskRecord],
         UNCHANGED <<target, detours, scan, recovery, attempts, presumed, exposed>>,
         Apart(pool)', Driven(pool, exposed)'
  PROVE  Inv' /\ pool'.tabs = pool.tabs
<1>1. World /\ PoolInv(pool, exposed) /\ Asked(pool)
  BY DEF Inv
<1>2. PoolInv(pool, exposed)' /\ Aged(pool, pool') /\ pool'.tabs = pool.tabs
  BY <1>1, SessionStep
<1>3. Asked(pool)'
  BY <1>1, <1>2, AskedKept
<1>4. World'
  BY <1>1, WorldKept
<1>5. QED
  BY <1>2, <1>3, <1>4 DEF Inv

(* Who drives a tab still does after a change of hands. *)
LEMMA DrivenKept ==
  ASSUME PoolInv(pool, exposed), World, UNCHANGED <<target, presumed, exposed>>,
         NEW t \in Tasks, task'[t].at # "driving", \A u \in Tasks \ {t} : task'[u] = task[u],
         pool'.tabs = pool.tabs, pool'.quarantine = pool.quarantine, pool'.wrapped = pool.wrapped,
         \A u \in Sessions : pool'.session[u].raw = pool.session[u].raw
  PROVE  Driven(pool, exposed)'
<1>1. ASSUME NEW u \in Tasks \ presumed, task'[u].at = "driving"
      PROVE  u # t /\ task[u].at = "driving" /\ task'[u].tab = task[u].tab /\ task[u].tab \in Sessions
  <2>1. u # t /\ task'[u] = task[u]
    BY <1>1
  <2>2. OnTab(u)
    BY <1>1, <2>1 DEF OnTab
  <2>3. QED
    BY <1>1, <2>1, <2>2, TabFacts
<1>2. Open' = Open
  BY DEF Open
<1>3. QED
  BY <1>1, <1>2 DEF PoolInv, Driven

(* A task takes an idle tab, which no other task is on. *)
LEMMA TakeKeeps ==
  ASSUME Inv, NEW t \in Tasks, NEW s \in Sessions, Take(t, s)
  PROVE  Inv' /\ pool'.tabs = pool.tabs
<1>1. World /\ PoolInv(pool, exposed) /\ pool \in PoolRecord /\ "busy" \in Statuses
      /\ task[t].at = "new" /\ s \in pool.tabs /\ pool.session[s].status = "idle"
      /\ SetSession(s, "busy", t) /\ Moves(t, "taken", s)
      /\ UNCHANGED <<target, detours, scan, recovery, attempts, presumed, exposed>>
  BY DEF Inv, PoolInv, Take, Statuses
<1>2. /\ pool'.wrapped = pool.wrapped /\ pool'.tabs = pool.tabs
      /\ pool'.quarantine = pool.quarantine
      /\ pool'.session[s].raw = pool.session[s].raw
      /\ pool'.session[s].status = "busy"
      /\ pool'.session[s].owner = t
      /\ \A u \in Sessions \ {s} : pool'.session[u] = pool.session[u]
  BY <1>1, SetSessionFields
<1>3. /\ task' \in [Tasks -> TaskRecord]
      /\ task'[t].at = "taken" /\ task'[t].tab = s
      /\ \A u \in Tasks \ {t} : task'[u] = task[u]
  BY <1>1, MovesFacts
<1>4. s \in 1..pool.wrapped
  BY <1>1 DEF PoolInv, Structured
<1>5. ASSUME NEW u \in Tasks \ {t}, OnTab(u)' PROVE OnTab(u) /\ task'[u] = task[u] /\ task[u].tab # s /\ task[u].tab \in Sessions
  <2>1. OnTab(u) /\ task'[u] = task[u]
    BY <1>3, <1>5 DEF OnTab
  <2>2. task[u].tab # s
    BY <1>1, <2>1 DEF PoolInv, Apart
  <2>3. QED
    BY <1>1, <2>1, <2>2, TabFacts
<1>6. Apart(pool)'
  <2>1. ASSUME NEW u \in Tasks, OnTab(u)'
        PROVE  LET k == task'[u].tab IN
               /\ k \in 1..pool'.wrapped
               /\ pool'.session[k].status # "idle"
               /\ task'[u].at # "releasing" /\ pool'.session[k].status \in {"busy", "error"} => pool'.session[k].owner = u
    <3>1. CASE u = t
      BY <1>2, <1>3, <1>4, <3>1
    <3>2. CASE u # t
      <4>1. OnTab(u) /\ task'[u] = task[u] /\ pool'.session[task[u].tab] = pool.session[task[u].tab]
        BY <1>2, <1>5, <2>1, <3>2
      <4>2. QED
        BY <1>1, <1>2, <4>1 DEF PoolInv, Apart
    <3>3. QED
      BY <3>1, <3>2
  <2>2. ASSUME NEW u \in Tasks, NEW w \in Tasks, OnTab(u)', OnTab(w)', task'[u].tab = task'[w].tab PROVE u = w
    BY <1>1, <1>3, <1>5, <2>2 DEF PoolInv, Apart
  <2>3. QED
    BY <2>1, <2>2 DEF Apart
<1>7. Driven(pool, exposed)'
  BY <1>1, <1>2, <1>3, DrivenKept
<1>8. QED
  BY <1>1, <1>3, <1>6, <1>7, HandsChange

(* A tab leaves its worker's hands: who is still on a tab is on another. *)
LEMMA ReleasedKeeps ==
  ASSUME Inv, NEW t \in Tasks, OnTab(t), NEW status \in {"idle", "busy", "error"},
         NEW step \in {"releasing", "over"}, NEW k \in Sessions \cup {None},
         step = "releasing" => status = "busy" /\ k = task[t].tab,
         pool.session[task[t].tab].status = "busy",
         SetSession(task[t].tab, status, None), Moves(t, step, k),
         UNCHANGED <<target, detours, scan, recovery, attempts, presumed, exposed>>
  PROVE  Inv' /\ pool'.tabs = pool.tabs
<1> DEFINE s == task[t].tab
<1>1. World /\ PoolInv(pool, exposed) /\ pool \in PoolRecord /\ status \in Statuses
  BY DEF Inv, PoolInv, Statuses
<1>2. s \in Sessions /\ s \in 1..pool.wrapped /\ s \in pool.tabs
  BY <1>1, TabFacts
<1>3. /\ pool'.wrapped = pool.wrapped /\ pool'.tabs = pool.tabs
      /\ pool'.quarantine = pool.quarantine
      /\ pool'.session[s].raw = pool.session[s].raw
      /\ pool'.session[s].status = status
      /\ \A u \in Sessions \ {s} : pool'.session[u] = pool.session[u]
  BY <1>1, <1>2, SetSessionFields
<1>4. /\ task' \in [Tasks -> TaskRecord]
      /\ task'[t].at = step /\ task'[t].tab = k
      /\ \A u \in Tasks \ {t} : task'[u] = task[u]
  BY <1>1, MovesFacts
<1>5. ASSUME NEW u \in Tasks, OnTab(u)'
      PROVE  OnTab(u) /\ task'[u].tab = task[u].tab /\ (u # t => task'[u] = task[u] /\ task[u].tab \in Sessions \ {s})
  <2>1. OnTab(u) /\ task'[u].tab = task[u].tab
    BY <1>4, <1>5 DEF OnTab
  <2>2. u # t => task[u].tab # s
    BY <1>1, <2>1 DEF PoolInv, Apart
  <2>3. QED
    BY <1>1, <1>4, <2>1, <2>2, TabFacts
<1>6. Apart(pool)'
  <2>1. ASSUME NEW u \in Tasks, OnTab(u)'
        PROVE  LET j == task'[u].tab IN
               /\ j \in 1..pool'.wrapped
               /\ pool'.session[j].status # "idle"
               /\ task'[u].at # "releasing" /\ pool'.session[j].status \in {"busy", "error"} => pool'.session[j].owner = u
    <3>1. CASE u = t
      <4>1. step = "releasing"
        BY <1>4, <2>1, <3>1 DEF OnTab
      <4>2. QED
        BY <1>2, <1>3, <1>4, <3>1, <4>1
    <3>2. CASE u # t
      <4>1. OnTab(u) /\ task'[u] = task[u] /\ pool'.session[task[u].tab] = pool.session[task[u].tab]
        BY <1>3, <1>5, <2>1, <3>2
      <4>2. QED
        BY <1>1, <1>3, <4>1 DEF PoolInv, Apart
    <3>3. QED
      BY <3>1, <3>2
  <2>2. ASSUME NEW u \in Tasks, NEW w \in Tasks, OnTab(u)', OnTab(w)', task'[u].tab = task'[w].tab PROVE u = w
    BY <1>1, <1>5, <2>2 DEF PoolInv, Apart
  <2>3. QED
    BY <2>1, <2>2 DEF Apart
<1>7. Driven(pool, exposed)'
  BY <1>1, <1>3, <1>4, DrivenKept
<1>8. QED
  BY <1>1, <1>2, <1>4, <1>6, <1>7, HandsChange

(* A tab that fails keeps its owner. *)
LEMMA TabFailsKeeps ==
  ASSUME Inv, NEW s \in Sessions, TabFails(s)
  PROVE  Inv' /\ pool'.tabs = pool.tabs
<1>1. World /\ PoolInv(pool, exposed) /\ pool \in PoolRecord /\ "error" \in Statuses
      /\ s \in pool.tabs /\ pool.session[s].status = "busy"
      /\ SetSession(s, "error", pool.session[s].owner)
      /\ UNCHANGED <<target, detours, task, scan, recovery, attempts, presumed, exposed>>
  BY DEF Inv, PoolInv, TabFails, Statuses
<1>2. pool.session[s].owner \in Tasks \cup {None}
  BY <1>1, SessionFields
<1>3. /\ pool'.wrapped = pool.wrapped /\ pool'.tabs = pool.tabs
      /\ pool'.quarantine = pool.quarantine
      /\ pool'.session[s].raw = pool.session[s].raw
      /\ pool'.session[s].status = "error"
      /\ pool'.session[s].owner = pool.session[s].owner
      /\ \A u \in Sessions \ {s} : pool'.session[u] = pool.session[u]
  BY <1>1, <1>2, SetSessionFields
<1>4. \A u \in Sessions : /\ pool'.session[u].raw = pool.session[u].raw
                          /\ pool'.session[u].owner = pool.session[u].owner
                          /\ pool'.session[u].status = pool.session[u].status \/ (u = s /\ pool'.session[u].status = "error")
  BY <1>3
<1>5. \A u \in Tasks : OnTab(u) => task[u].tab \in Sessions
  BY <1>1, TabFacts
<1>6. Apart(pool)'
  BY <1>1, <1>3, <1>4, <1>5 DEF PoolInv, Apart, OnTab
<1>7. Driven(pool, exposed)'
  <2>1. Open' = Open
    BY <1>1 DEF Open
  <2>2. \A u \in Tasks : task[u].at = "driving" => task[u].tab \in Sessions
    BY <1>5 DEF OnTab
  <2>3. QED
    BY <1>1, <1>3, <1>4, <2>1, <2>2 DEF PoolInv, Driven
<1>8. task' \in [Tasks -> TaskRecord]
  BY <1>1 DEF World
<1>9. QED
  BY <1>1, <1>2, <1>6, <1>7, <1>8, HandsChange

(* Every step of a request. *)
LEMMA RequestKeeps ==
  ASSUME Inv, NEW t \in Tasks, Request(t)
  PROVE  Inv' /\ pool'.tabs = pool.tabs
<1>0. World /\ PoolInv(pool, exposed)
  BY DEF Inv
<1>1. ASSUME NEW s \in Sessions, Take(t, s) PROVE Inv' /\ pool'.tabs = pool.tabs
  BY <1>1, TakeKeeps
<1>2. CASE HandOver(t)
  <2>1. OnTab(t) /\ task[t].tab \in Sessions
    BY <1>0, <1>2, TabFacts DEF HandOver, OnTab
  <2>2. CASE Holds(t)
    BY <1>2, <2>1, <2>2, MoveKeeps DEF HandOver
  <2>3. CASE ~Holds(t)
    BY <1>2, <2>3, MoveKeeps DEF HandOver
  <2>4. QED
    BY <1>2, <2>2, <2>3
<1>3. CASE HandOverFails(t)
  <2>1. CASE Holds(t) /\ SetSession(task[t].tab, "error", None)
    BY <1>3, <2>1, ReleasedKeeps DEF HandOverFails, OnTab, Holds
  <2>2. CASE ~Holds(t) /\ UNCHANGED pool
    BY <1>3, <2>2, MoveKeeps DEF HandOverFails
  <2>3. QED
    BY <1>3, <2>1, <2>2 DEF HandOverFails
<1>4. CASE ReleaseBegin(t)
  <2>1. OnTab(t)
    BY <1>4 DEF ReleaseBegin, OnTab
  <2>2. task[t].tab \in Sessions
    BY <1>0, <2>1, TabFacts
  <2>3. QED
    BY <1>4, <2>1, <2>2, ReleasedKeeps DEF ReleaseBegin, Holds
<1>5. CASE ReleaseEnd(t)
  <2>1. OnTab(t)
    BY <1>5 DEF ReleaseEnd, OnTab
  <2>2. CASE pool.session[task[t].tab].status = "busy"
    BY <1>5, <2>1, <2>2, ReleasedKeeps DEF ReleaseEnd
  <2>3. CASE pool.session[task[t].tab].status # "busy"
    BY <1>5, <2>3, MoveKeeps DEF ReleaseEnd
  <2>4. QED
    BY <2>2, <2>3
<1>6. CASE Leave(t)
  BY <1>6, MoveKeeps DEF Leave
<1>7. QED
  BY <1>1, <1>2, <1>3, <1>4, <1>5, <1>6 DEF Request

-----------------------------------------------------------------------------
(* The browser, and scans that wait. *)

(* The browser opens targets that the pool has not seen, and closes others. *)
LEMMA TargetStep ==
  ASSUME World, PoolInv(pool, exposed), Opened \subseteq Opened', Open' \cap Opened \subseteq Open,
         UNCHANGED <<pool, task, recovery, presumed, exposed>>
  PROVE  PoolInv(pool, exposed)'
<1>1. Pending(pool)' = Pending(pool) /\ pool \in PoolRecord
  BY DEF Pending, PoolInv
<1>2. Structured(pool)' /\ Unique(pool, exposed)' /\ Out(pool, exposed)'
  BY DEF PoolInv, Structured, Unique, Out
<1>3. Origin(pool)'
  BY <1>1 DEF PoolInv, Origin, Past
<1>4. Filed(pool, exposed)'
  <2>1. \A i \in DOMAIN Pending(pool) : Pending(pool)[i].raw \in Opened
    BY DEF PoolInv, Origin
  <2>2. QED
    BY <1>1, <2>1 DEF PoolInv, Filed, FiledUnder
<1>5. Worked(pool)' /\ Judged(pool)'
  BY <1>1 DEF PoolInv, Worked, Judged
<1>6. Apart(pool)'
  BY DEF PoolInv, Apart, OnTab
<1>7. Driven(pool, exposed)'
  <2>1. ASSUME NEW t \in Tasks, task[t].at = "driving" PROVE pool.session[task[t].tab].raw \in Opened
    <3>1. OnTab(t)
      BY <2>1 DEF OnTab
    <3>2. task[t].tab \in 1..pool.wrapped
      BY <3>1, TabFacts
    <3>3. QED
      BY <3>2 DEF PoolInv, Structured
  <2>2. QED
    BY <2>1 DEF PoolInv, Driven
<1>8. QED
  BY <1>1, <1>2, <1>3, <1>4, <1>5, <1>6, <1>7 DEF PoolInv

(* What a scan in flight knows stays true. *)
LEMMA AskedStill ==
  ASSUME Asked(pool), UNCHANGED pool, Opened \subseteq Opened',
         \A r \in Targets : target[r] = "closed" => target'[r] = "closed",
         \A s \in 1..pool.wrapped : pool.session[s].raw \in Targets,
         pool.wrapped \in Nat, \A x \in Scanners : scan[x].since \in Nat,
         \A x \in Scanners :
           \/ scan'[x] = scan[x]
           \/ /\ scan'[x].since <= pool.wrapped
              /\ scan'[x].seen \subseteq Opened' /\ scan'[x].fit \subseteq scan'[x].seen
              /\ scan'[x].at # "knowing"
              /\ scan'[x].at = "wrapping" => scan'[x].raw \in Opened'
  PROVE  Asked(pool)'
<1>1. ASSUME NEW x \in Scanners
      PROVE  /\ scan'[x].since <= pool.wrapped
             /\ scan'[x].seen \subseteq Opened' /\ scan'[x].fit \subseteq scan'[x].seen
             /\ scan'[x].at = "knowing" =>
                  \A s \in 1..scan'[x].since :
                    pool.session[s].raw \in scan'[x].seen \/ target'[pool.session[s].raw] = "closed"
             /\ scan'[x].at = "wrapping" => scan'[x].raw \in Opened'
  <2>1. CASE scan'[x] = scan[x]
    <3>1. \A s \in 1..scan[x].since : s \in 1..pool.wrapped
      BY DEF Asked
    <3>2. QED
      BY <2>1, <3>1 DEF Asked
  <2>2. QED
    BY <2>1
<1>2. QED
  BY <1>1 DEF Asked

(* Where sessions and scans come from, in the form the steps below need. *)
LEMMA ScanFacts ==
  ASSUME Inv
  PROVE  /\ World /\ PoolInv(pool, exposed) /\ Asked(pool)
         /\ pool.wrapped \in 0..MaxSessions /\ pool.wrapped \in Nat
         /\ \A s \in 1..pool.wrapped : s \in Sessions /\ pool.session[s].raw \in Opened
         /\ \A s \in 1..pool.wrapped : pool.session[s].raw \in Targets
         /\ \A x \in Scanners : scan[x].since \in Nat /\ scan[x].seen \subseteq Targets
<1>1. World /\ PoolInv(pool, exposed) /\ Asked(pool)
  BY DEF Inv
<1>2. pool.wrapped \in 0..MaxSessions /\ pool.wrapped \in Nat /\ MaxSessions \in Nat
  BY <1>1, PoolFields, NoneFacts DEF PoolInv
<1>3. \A s \in 1..pool.wrapped : pool.session[s].raw \in Opened
  BY <1>1 DEF PoolInv, Structured
<1>4. \A x \in Scanners : scan[x].since \in Nat /\ scan[x].seen \subseteq Targets
  BY <1>1, NoneFacts DEF World, ScanRecord
<1>5. QED
  BY <1>1, <1>2, <1>3, <1>4 DEF Sessions, Opened

(* A target opens that was not there before. *)
LEMMA OpensFacts ==
  ASSUME World, NEW r \in Targets, Opens(r)
  PROVE  /\ target' \in [Targets -> {"unopened", "usable", "unusable", "closed"}]
         /\ detours' \in [Targets -> 0..MaxDetours]
         /\ Opened \subseteq Opened' /\ Open' \cap Opened \subseteq Open /\ r \in Opened'
         /\ \A u \in Targets : target[u] = "closed" => target'[u] = "closed"
<1>1. /\ target \in [Targets -> {"unopened", "usable", "unusable", "closed"}] /\ target[r] = "unopened"
      /\ detours \in [Targets -> 0..MaxDetours] /\ MaxDetours \in Nat
  BY PoolAssumption DEF World, Opens, PoolAssumption
<1>2. \E u \in {"usable", "unusable"} : target' = [target EXCEPT ![r] = u]
  BY DEF Opens
<1>3. /\ target' \in [Targets -> {"unopened", "usable", "unusable", "closed"}]
      /\ Opened \subseteq Opened' /\ Open' \cap Opened \subseteq Open /\ r \in Opened'
      /\ \A u \in Targets : target[u] = "closed" => target'[u] = "closed"
  BY <1>1, <1>2 DEF Opened, Open
<1>4. detours' \in [Targets -> 0..MaxDetours]
  BY <1>1 DEF Opens
<1>5. QED
  BY <1>3, <1>4

(* The steps of the browser keep the invariant. *)
LEMMA BrowserKeeps ==
  ASSUME Inv, NEW r \in Targets, OpenTarget(r) \/ CloseTarget(r) \/ ChangePage(r)
  PROVE  Inv' /\ pool'.tabs = pool.tabs
<1>1. World /\ PoolInv(pool, exposed) /\ Asked(pool)
  BY DEF Inv
<1>2. UNCHANGED <<pool, task, scan, recovery, attempts, presumed, exposed>>
  BY DEF OpenTarget, CloseTarget, ChangePage
<1>3. /\ target' \in [Targets -> {"unopened", "usable", "unusable", "closed"}]
      /\ detours' \in [Targets -> 0..MaxDetours]
      /\ Opened \subseteq Opened' /\ Open' \cap Opened \subseteq Open
      /\ \A u \in Targets : target[u] = "closed" => target'[u] = "closed"
  <2>0. /\ target \in [Targets -> {"unopened", "usable", "unusable", "closed"}]
        /\ detours \in [Targets -> 0..MaxDetours] /\ MaxDetours \in Nat
    BY <1>1, PoolAssumption DEF World, PoolAssumption
  <2>1. CASE OpenTarget(r)
    BY <1>1, <2>1, OpensFacts DEF OpenTarget
  <2>2. CASE CloseTarget(r)
    BY <2>0, <2>2 DEF CloseTarget, Opened, Open
  <2>3. CASE ChangePage(r)
    BY <2>0, <2>3 DEF ChangePage, Opened, Open
  <2>4. QED
    BY <2>1, <2>2, <2>3
<1>4. World'
  BY <1>1, <1>2, <1>3 DEF World
<1>5. PoolInv(pool, exposed)'
  BY <1>1, <1>2, <1>3, TargetStep
<1>6. Asked(pool)'
  BY <1>1, <1>2, <1>3, ScanFacts, AskedStill
<1>7. QED
  BY <1>2, <1>4, <1>5, <1>6 DEF Inv

(* A scan asks; or gives up; the pool is as it was. *)
LEMMA ScanWaits ==
  ASSUME Inv, NEW x \in Scanners, ScanBegin(x) \/ OpenFails(x)
  PROVE  Inv' /\ pool'.tabs = pool.tabs
<1>1. World /\ PoolInv(pool, exposed) /\ Asked(pool)
  BY DEF Inv
<1>2. UNCHANGED <<target, detours, pool, task, recovery, attempts, presumed, exposed>>
  BY DEF ScanBegin, OpenFails
<1>3. pool.wrapped \in 0..MaxSessions /\ pool.wrapped \in Nat /\ 0 \in 0..MaxSessions /\ NoScan \in ScanRecord
  BY ScanFacts, NoneFacts DEF NoScan, ScanRecord
<1>4. /\ scan' \in [Scanners -> ScanRecord]
      /\ scan'[x].since <= pool.wrapped /\ scan'[x].seen = {} /\ scan'[x].fit = {}
      /\ scan'[x].at \in {"away", "asking"}
      /\ \A y \in Scanners \ {x} : scan'[y] = scan[y]
  <2>1. scan \in [Scanners -> ScanRecord]
    BY <1>1 DEF World
  <2>2. CASE ScanBegin(x)
    <3> DEFINE k == [NoScan EXCEPT !.at = "asking", !.since = pool.wrapped]
    <3>1. k \in ScanRecord /\ k.since = pool.wrapped /\ k.seen = {} /\ k.fit = {} /\ k.at = "asking"
      BY <1>3 DEF NoScan, ScanRecord
    <3>2. scan' = [scan EXCEPT ![x] = k]
      BY <2>2 DEF ScanBegin
    <3> HIDE DEF k
    <3>3. QED
      BY <1>3, <2>1, <3>1, <3>2
  <2>3. CASE OpenFails(x)
    BY <1>3, <2>1, <2>3 DEF OpenFails, NoScan, ScanRecord
  <2>4. QED
    BY <2>2, <2>3
<1>5. World'
  BY <1>1, <1>2, <1>4 DEF World
<1>6. Opened' = Opened /\ Open' = Open
  BY <1>2 DEF Opened, Open
<1>7. PoolInv(pool, exposed)'
  BY <1>1, <1>2, <1>6, TargetStep
<1>8. Asked(pool)'
  BY <1>1, <1>2, <1>4, <1>6, ScanFacts, AskedStill
<1>9. QED
  BY <1>2, <1>5, <1>7, <1>8 DEF Inv

(* A scan that looks sees every target of the pool that is not closed. *)
LEMMA ScanLookKeeps ==
  ASSUME Inv, NEW x \in Scanners, ScanLook(x)
  PROVE  Inv' /\ pool'.tabs = pool.tabs
<1>1. World /\ PoolInv(pool, exposed) /\ Asked(pool)
  BY DEF Inv
<1>2. UNCHANGED <<target, detours, pool, task, recovery, attempts, presumed, exposed>>
  BY DEF ScanLook
<1>3. /\ scan' \in [Scanners -> ScanRecord]
      /\ scan'[x].since = scan[x].since /\ scan'[x].seen = Open /\ scan'[x].fit \subseteq Open
      /\ scan'[x].at = "knowing"
      /\ \A y \in Scanners \ {x} : scan'[y] = scan[y]
  <2>1. scan \in [Scanners -> ScanRecord] /\ Open \subseteq Targets
    BY <1>1 DEF World, Open
  <2>2. QED
    BY <2>1 DEF ScanLook, ScanRecord
<1>4. World'
  BY <1>1, <1>2, <1>3 DEF World
<1>5. Opened' = Opened /\ Open' = Open
  BY <1>2 DEF Opened, Open
<1>6. PoolInv(pool, exposed)'
  BY <1>1, <1>2, <1>5, TargetStep
<1>7. Asked(pool)'
  <2>1. \A s \in 1..scan[x].since : pool.session[s].raw \in Open \/ target[pool.session[s].raw] = "closed"
    <3>1. \A s \in 1..scan[x].since : s \in 1..pool.wrapped
      BY <1>1, ScanFacts DEF Asked
    <3>2. target \in [Targets -> {"unopened", "usable", "unusable", "closed"}]
      BY <1>1 DEF World
    <3>3. QED
      BY <3>1, <3>2, ScanFacts DEF Opened, Open
  <2>2. Open \subseteq Opened
    BY DEF Open, Opened
  <2>3. QED
    BY <1>1, <1>2, <1>3, <1>5, <2>1, <2>2 DEF Asked
<1>8. QED
  BY <1>2, <1>4, <1>6, <1>7 DEF Inv

(* A tab that is opened is of a target nobody has seen. *)
LEMMA OpenCreatedKeeps ==
  ASSUME Inv, NEW x \in Scanners, NEW r \in Targets, OpenCreated(x, r)
  PROVE  Inv' /\ pool'.tabs = pool.tabs
<1>1. World /\ PoolInv(pool, exposed) /\ Asked(pool)
  BY DEF Inv
<1>2. UNCHANGED <<pool, task, recovery, attempts, presumed, exposed>>
  BY DEF OpenCreated
<1>3. /\ target' \in [Targets -> {"unopened", "usable", "unusable", "closed"}]
      /\ Opened \subseteq Opened' /\ Open' \cap Opened \subseteq Open /\ r \in Opened'
      /\ \A u \in Targets : target[u] = "closed" => target'[u] = "closed"
      /\ detours' \in [Targets -> 0..MaxDetours]
  BY <1>1, OpensFacts DEF OpenCreated
<1>4. /\ scan' \in [Scanners -> ScanRecord]
      /\ scan'[x].since = scan[x].since /\ scan'[x].seen = scan[x].seen /\ scan'[x].fit = scan[x].fit
      /\ scan'[x].at = "wrapping" /\ scan'[x].raw = r
      /\ \A y \in Scanners \ {x} : scan'[y] = scan[y]
  BY <1>1 DEF OpenCreated, World, ScanRecord
<1>5. World'
  BY <1>1, <1>2, <1>3, <1>4 DEF World
<1>6. PoolInv(pool, exposed)'
  BY <1>1, <1>2, <1>3, TargetStep
<1>7. Asked(pool)'
  <2>1. scan'[x].since <= pool.wrapped /\ scan'[x].seen \subseteq Opened' /\ scan'[x].fit \subseteq scan'[x].seen
    BY <1>1, <1>3, <1>4 DEF Asked
  <2>2. QED
    BY <1>1, <1>2, <1>3, <1>4, <2>1, ScanFacts, AskedStill
<1>8. QED
  BY <1>2, <1>5, <1>6, <1>7 DEF Inv

-----------------------------------------------------------------------------
(* Scans that change the pool. *)

(* A scan whose answer is applied keeps the invariant. *)
LEMMA ScanApplyKeeps ==
  ASSUME Inv, NEW x \in Scanners, NEW creates \in BOOLEAN, ScanApply(x, creates)
  PROVE  Inv'
<1>1. World /\ PoolInv(pool, exposed) /\ Asked(pool)
  BY DEF Inv
<1>2. UNCHANGED <<target, detours, task, recovery, attempts, presumed>>
  BY DEF ScanApply
<1>3. PoolInv(pool', exposed') /\ Aged(pool, pool')
  BY ScanApplied
<1>4. /\ scan' \in [Scanners -> ScanRecord]
      /\ scan'[x].since = 0 /\ scan'[x].seen = {} /\ scan'[x].fit = {} /\ scan'[x].at \in {"away", "opening"}
      /\ \A y \in Scanners \ {x} : scan'[y] = scan[y]
  <2>1. scan \in [Scanners -> ScanRecord] /\ 0 \in 0..MaxSessions
    BY <1>1, NoneFacts DEF World
  <2>2. \E k \in {NoScan, [NoScan EXCEPT !.at = "opening"]} : scan' = [scan EXCEPT ![x] = k]
    BY DEF ScanApply
  <2>3. PICK k \in {NoScan, [NoScan EXCEPT !.at = "opening"]} : scan' = [scan EXCEPT ![x] = k]
    BY <2>2
  <2>4. k \in ScanRecord /\ k.since = 0 /\ k.seen = {} /\ k.fit = {} /\ k.at \in {"away", "opening"}
    BY <2>1, <2>3 DEF NoScan, ScanRecord
  <2>5. QED
    BY <2>1, <2>3, <2>4
<1>5. exposed' \subseteq Targets
  BY <1>1 DEF ScanApply, World, Open
<1>6. World'
  BY <1>1, <1>2, <1>4, <1>5 DEF World
<1>7. PoolInv(pool, exposed)'
  BY <1>2, <1>3, StillPool
<1>8. Asked(pool)'
  BY <1>1, <1>2, <1>3, <1>4, AskedKept
<1>9. QED
  BY <1>6, <1>7, <1>8 DEF Inv

(* The tab of a create call joins the pool; its target is set aside when it *)
(* had a session before.                                                    *)
LEMMA WrapCreatedKeeps ==
  ASSUME Inv, NEW x \in Scanners, WrapCreated(x)
  PROVE  Inv' /\ pool.tabs \subseteq pool'.tabs
<1> DEFINE r == scan[x].raw
<1> DEFINE q == <<r>>
<1>1. /\ World /\ PoolInv(pool, exposed) /\ Asked(pool) /\ pool \in PoolRecord
      /\ pool.wrapped \in Nat /\ \A s \in 1..pool.wrapped : s \in Sessions
  BY ScanFacts DEF Inv, PoolInv
<1>2. /\ UNCHANGED <<target, detours, task, recovery, attempts, presumed>>
      /\ scan[x].at = "wrapping" /\ pool.wrapped < MaxSessions
      /\ pool' = Wrap(pool, q) /\ scan' = [scan EXCEPT ![x] = NoScan]
      /\ exposed' = IF \E s \in Sessions : pool.session[s].raw = r THEN exposed \cup {r} ELSE exposed
  BY DEF WrapCreated
<1>3. r \in Opened /\ r \in Targets
  BY <1>1, <1>2 DEF Asked, Opened
<1>4. q \in Seq(Targets) /\ Len(q) = 1 /\ DOMAIN q = {1} /\ q[1] = r
  BY <1>3
<1> HIDE DEF q
<1>5. pool.wrapped + Len(q) <= MaxSessions /\ \A i, j \in DOMAIN q : q[i] = q[j] => i = j
  BY <1>1, <1>2, <1>4, NoneFacts
<1>6. exposed \subseteq exposed' /\ exposed' \subseteq Targets
  BY <1>1, <1>2, <1>3 DEF World
<1>7. PoolInv(pool, exposed')
  BY <1>1, <1>6, PoolInvWeakens
<1>8. r \notin exposed' => pool.quarantine[r] = NoEntry /\ \A s \in pool.tabs : pool.session[s].raw # r
  <2>1. SUFFICES ASSUME r \notin exposed'
                 PROVE  pool.quarantine[r] = NoEntry /\ \A s \in pool.tabs : pool.session[s].raw # r
    OBVIOUS
  <2>2. \A s \in Sessions : pool.session[s].raw # r
    BY <1>2, <2>1
  <2>3. pool.tabs \subseteq Sessions
    BY <1>1, PoolFields
  <2>4. pool.quarantine[r] = NoEntry
    BY <1>1, <1>3, <2>2 DEF PoolInv, Origin
  <2>5. QED
    BY <2>2, <2>3, <2>4
<1>9. \A i \in DOMAIN q :
        /\ q[i] \in Opened
        /\ q[i] \notin exposed' => pool.quarantine[q[i]] = NoEntry /\ \A s \in pool.tabs : pool.session[s].raw # q[i]
  BY <1>3, <1>4, <1>8
<1>10. PoolInv(pool', exposed')
  <2>1. q \in Seq(Targets)
    BY <1>4
  <2> DEFINE Y == exposed'
  <2>2. /\ PoolInv(pool, Y)
        /\ \A i \in DOMAIN q :
             /\ q[i] \in Opened
             /\ q[i] \notin Y => pool.quarantine[q[i]] = NoEntry /\ \A s \in pool.tabs : pool.session[s].raw # q[i]
    BY <1>7, <1>9
  <2> HIDE DEF Y
  <2>3. PoolInv(Wrap(pool, q), Y)
    BY <1>5, <2>1, <2>2, WrapKeeps
  <2>4. QED
    BY <1>2, <2>3 DEF Y
<1>11. LET new == (pool.wrapped + 1)..(pool.wrapped + Len(q)) IN
       /\ pool'.wrapped = pool.wrapped + Len(q) /\ pool'.tabs = pool.tabs \cup new
       /\ \A s \in Sessions : s \notin new => pool'.session[s] = pool.session[s]
  <2>1. pool \in PoolRecord /\ q \in Seq(Targets) /\ pool' = Wrap(pool, q)
    BY <1>1, <1>2, <1>4
  <2>2. LET new == (pool.wrapped + 1)..(pool.wrapped + Len(q)) IN
        /\ Wrap(pool, q).wrapped = pool.wrapped + Len(q) /\ Wrap(pool, q).tabs = pool.tabs \cup new
        /\ \A s \in Sessions : s \notin new => Wrap(pool, q).session[s] = pool.session[s]
    BY <1>5, <2>1, WrapFields
  <2>3. QED
    BY <2>1, <2>2
<1>12. Aged(pool, pool')
  <2>1. \A s \in 1..pool.wrapped : s \notin (pool.wrapped + 1)..(pool.wrapped + Len(q))
    BY <1>1, <1>4
  <2>2. \A s \in 1..pool.wrapped : pool'.session[s] = pool.session[s]
    BY <1>1, <1>11, <2>1
  <2>3. pool'.wrapped = pool.wrapped + 1 /\ pool'.wrapped \in Nat /\ pool.wrapped <= pool'.wrapped
    BY <1>1, <1>4, <1>11
  <2>4. QED
    BY <2>2, <2>3 DEF Aged
<1>13. /\ scan' \in [Scanners -> ScanRecord]
       /\ scan'[x].since = 0 /\ scan'[x].seen = {} /\ scan'[x].fit = {} /\ scan'[x].at \in {"away", "opening"}
       /\ \A y \in Scanners \ {x} : scan'[y] = scan[y]
  <2>1. scan \in [Scanners -> ScanRecord] /\ NoScan \in ScanRecord
    BY <1>1, NoneFacts DEF World, NoScan, ScanRecord
  <2>2. QED
    BY <1>2, <2>1 DEF NoScan
<1>14. World'
  BY <1>1, <1>2, <1>6, <1>13 DEF World
<1>15. PoolInv(pool, exposed)'
  BY <1>2, <1>10, StillPool
<1>16. Asked(pool)'
  BY <1>1, <1>2, <1>12, <1>13, AskedKept
<1>17. QED
  BY <1>11, <1>14, <1>15, <1>16 DEF Inv

(* A session that learns its address. *)
LEMMA AddressFields ==
  ASSUME pool \in PoolRecord, NEW s \in Sessions, NEW url \in {"usable", "unusable", "none"},
         pool' = [pool EXCEPT !.session[s].url = url]
  PROVE  /\ pool' \in PoolRecord
         /\ pool'.wrapped = pool.wrapped /\ pool'.tabs = pool.tabs /\ pool'.mapped = pool.mapped
         /\ pool'.quarantine = pool.quarantine /\ pool'.failed = pool.failed
         /\ pool'.session[s].url = url
         /\ \A u \in Sessions \ {s} : pool'.session[u].url = pool.session[u].url
         /\ \A u \in Sessions : /\ pool'.session[u].raw = pool.session[u].raw
                                /\ pool'.session[u].status = pool.session[u].status
                                /\ pool'.session[u].owner = pool.session[u].owner
<1> DEFINE ss == [pool.session EXCEPT ![s].url = url]
<1>1. pool.session \in [Sessions -> SessionRecord]
  BY PoolFields
<1>2. /\ ss \in [Sessions -> SessionRecord] /\ ss[s].url = url
      /\ ss[s].raw = pool.session[s].raw /\ ss[s].status = pool.session[s].status
      /\ ss[s].owner = pool.session[s].owner
      /\ \A u \in Sessions \ {s} : ss[u] = pool.session[u]
  BY <1>1 DEF SessionRecord
<1>3. pool' = [pool EXCEPT !.session = ss]
  BY DEF PoolRecord
<1> HIDE DEF ss
<1>4. QED
  BY <1>2, <1>3 DEF PoolRecord

(* A session that learns its address keeps the invariant. *)
LEMMA ReadAddressKeeps ==
  ASSUME Inv, NEW s \in Sessions, ReadAddress(s)
  PROVE  Inv' /\ pool'.tabs = pool.tabs
<1>1. /\ World /\ PoolInv(pool, exposed) /\ Asked(pool) /\ pool \in PoolRecord
      /\ pool.wrapped \in Nat /\ \A u \in 1..pool.wrapped : u \in Sessions
  BY ScanFacts DEF Inv, PoolInv
<1>2. /\ UNCHANGED <<target, detours, task, scan, recovery, attempts, presumed, exposed>>
      /\ target[pool.session[s].raw] \in {"usable", "unusable"}
      /\ pool' = [pool EXCEPT !.session[s].url = target[pool.session[s].raw]]
  BY DEF ReadAddress, Open
<1>3. /\ pool' \in PoolRecord
      /\ pool'.wrapped = pool.wrapped /\ pool'.tabs = pool.tabs /\ pool'.mapped = pool.mapped
      /\ pool'.quarantine = pool.quarantine /\ pool'.failed = pool.failed
      /\ \A u \in Sessions : /\ pool'.session[u].raw = pool.session[u].raw
                             /\ pool'.session[u].status = pool.session[u].status
                             /\ pool'.session[u].owner = pool.session[u].owner
  BY <1>1, <1>2, AddressFields
<1>4. PoolInv(pool', exposed)
  BY <1>1, <1>3, AddressesKeep
<1>5. PoolInv(pool, exposed)'
  BY <1>2, <1>4, StillPool
<1>6. Aged(pool, pool')
  BY <1>1, <1>3 DEF Aged
<1>7. Asked(pool)'
  BY <1>1, <1>2, <1>6, AskedKept
<1>8. World'
  BY <1>1, <1>2 DEF World
<1>9. QED
  BY <1>3, <1>5, <1>7, <1>8 DEF Inv

(* The clean-up keeps the invariant and drops nothing but unfit sessions. *)
LEMMA CleanUpKeeps ==
  ASSUME Inv, CleanUp
  PROVE  Inv' /\ pool'.tabs = pool.tabs \ Unfit(pool)
<1>1. /\ World /\ PoolInv(pool, exposed) /\ Asked(pool) /\ pool \in PoolRecord
      /\ pool.wrapped \in Nat /\ \A s \in 1..pool.wrapped : s \in Sessions
  BY ScanFacts DEF Inv, PoolInv
<1>2. /\ UNCHANGED <<target, detours, task, scan, recovery, attempts, presumed, exposed>>
      /\ pool' = Cleaned(pool)
  BY DEF CleanUp
<1>3. Clears(pool, pool', Unfit(pool), Quarantined(pool))
  BY <1>1, <1>2, CleanedClears
<1>4. Unfit(pool) \subseteq pool.tabs
  BY DEF Unfit
<1>5. Rightly(pool, exposed, Unfit(pool), Quarantined(pool))
  <2>1. ASSUME NEW s \in Unfit(pool), pool.session[s].raw \in Open \ exposed
        PROVE  /\ pool.session[s].status # "busy"
               /\ pool.session[s].status = "error" => pool.session[s].raw \in Quarantined(pool)
    <3>1. pool.session[s].status # "busy"
      BY DEF Unfit
    <3>2. pool.mapped[pool.session[s].raw] = s
      BY <1>1, <1>4, <2>1 DEF PoolInv, Unique
    <3>3. pool.session[s].raw \in Targets
      BY <2>1 DEF Open
    <3>4. QED
      BY <3>1, <3>2, <3>3 DEF Quarantined
  <2>2. QED
    BY <1>4, <2>1 DEF Rightly, Quarantined
<1>6. PoolInv(pool', exposed)
  BY <1>1, <1>3, <1>5, ClearsKeeps
<1>7. PoolInv(pool, exposed)'
  BY <1>2, <1>6, StillPool
<1>8. Aged(pool, pool') /\ pool'.tabs = pool.tabs \ Unfit(pool)
  BY <1>1, <1>3 DEF Clears, Aged
<1>9. Asked(pool)'
  BY <1>1, <1>2, <1>8, AskedKept
<1>10. World'
  BY <1>1, <1>2 DEF World
<1>11. QED
  BY <1>7, <1>8, <1>9, <1>10 DEF Inv

-----------------------------------------------------------------------------
(* Recovery. *)

(* A queue of jobs before a list of entries. *)
LEMMA QueueFacts ==
  ASSUME NEW rec \in Seq(JobRecord), NEW f \in Seq(FailedRecord)
  PROVE  LET P == [i \in DOMAIN rec |-> rec[i].entry] \o f IN
         /\ Len(rec) \in Nat /\ Len(f) \in Nat
         /\ DOMAIN rec = 1..Len(rec)
         /\ DOMAIN P = 1..(Len(rec) + Len(f))
         /\ \A i \in 1..Len(rec) : P[i] = rec[i].entry
         /\ \A i \in 1..Len(f) : P[Len(rec) + i] = f[i]
<1> DEFINE a == [i \in DOMAIN rec |-> rec[i].entry]
<1> DEFINE n == Len(rec)
<1>1. n \in Nat /\ DOMAIN rec = 1..n /\ \A i \in 1..n : rec[i] \in JobRecord
  OBVIOUS
<1>2. \A i \in 1..n : rec[i].entry \in FailedRecord
  BY <1>1 DEF JobRecord
<1>3. a \in [1..n -> FailedRecord] /\ \A i \in 1..n : a[i] = rec[i].entry
  BY <1>1, <1>2
<1>4. n = Len(rec)
  OBVIOUS
<1> HIDE DEF a, n
<1>6. a \in Seq(FailedRecord) /\ Len(a) = n
  BY <1>1, <1>3
<1>7. /\ a \o f \in Seq(FailedRecord) /\ Len(a \o f) = n + Len(f)
      /\ \A i \in 1..n : (a \o f)[i] = a[i]
      /\ \A i \in 1..Len(f) : (a \o f)[n + i] = f[i]
      /\ Len(f) \in Nat
  BY <1>1, <1>6
<1>8. DOMAIN (a \o f) = 1..(n + Len(f))
  BY <1>7
<1>9. QED
  BY <1>1, <1>3, <1>4, <1>7, <1>8 DEF a

(* What waits for the recovery after a step. *)
LEMMA PendingNext ==
  ASSUME recovery' \in Seq(JobRecord), pool' \in PoolRecord
  PROVE  /\ Len(recovery') \in Nat /\ Len(pool'.failed) \in Nat
         /\ DOMAIN recovery' = 1..Len(recovery')
         /\ DOMAIN Pending(pool)' = 1..(Len(recovery') + Len(pool'.failed))
         /\ \A i \in 1..Len(recovery') : Pending(pool)'[i] = recovery'[i].entry
         /\ \A i \in 1..Len(pool'.failed) : Pending(pool)'[Len(recovery') + i] = pool'.failed[i]
<1>1. pool'.failed \in Seq(FailedRecord)
  BY PoolFields
<1> DEFINE rec == recovery'
<1> DEFINE f == pool'.failed
<1> DEFINE P == [i \in DOMAIN rec |-> rec[i].entry] \o f
<1>2. Pending(pool)' = P
  BY DEF Pending
<1>3. rec \in Seq(JobRecord) /\ f \in Seq(FailedRecord)
  BY <1>1
<1>4. rec = recovery' /\ f = pool'.failed
  OBVIOUS
<1> HIDE DEF rec, f
<1>5. /\ Len(rec) \in Nat /\ Len(f) \in Nat
      /\ DOMAIN rec = 1..Len(rec)
      /\ DOMAIN P = 1..(Len(rec) + Len(f))
      /\ \A i \in 1..Len(rec) : P[i] = rec[i].entry
      /\ \A i \in 1..Len(f) : P[Len(rec) + i] = f[i]
  BY <1>3, QueueFacts
<1> HIDE DEF P
<1>6. QED
  BY <1>2, <1>4, <1>5

(* The head of the queue is done with. *)
LEMMA PendingTail ==
  ASSUME recovery \in Seq(JobRecord), recovery # <<>>, recovery' = Tail(recovery),
         pool \in PoolRecord, pool' \in PoolRecord, pool'.failed = pool.failed
  PROVE  /\ recovery' \in Seq(JobRecord)
         /\ 1 \in DOMAIN recovery /\ Head(recovery) = recovery[1]
         /\ 1 \in DOMAIN Pending(pool) /\ Pending(pool)[1] = Head(recovery).entry
         /\ Len(Pending(pool)) \in Nat /\ Len(Pending(pool)) >= 1
         /\ DOMAIN Pending(pool) = 1..Len(Pending(pool))
         /\ DOMAIN Pending(pool)' = 1..(Len(Pending(pool)) - 1)
         /\ \A i \in DOMAIN Pending(pool)' : Pending(pool)'[i] = Pending(pool)[i + 1]
         /\ \A i \in DOMAIN recovery' : i + 1 \in DOMAIN recovery /\ recovery'[i] = recovery[i + 1]
<1>1. /\ recovery' \in Seq(JobRecord) /\ Len(recovery) >= 1 /\ Len(recovery') = Len(recovery) - 1
      /\ Len(recovery) \in Nat /\ Head(recovery) = recovery[1]
      /\ \A i \in 1..Len(recovery') : recovery'[i] = recovery[i + 1]
  OBVIOUS
<1> DEFINE n == Len(recovery)
<1> DEFINE f == Len(pool.failed)
<1>2. /\ n \in Nat /\ f \in Nat /\ DOMAIN recovery = 1..n
      /\ Len(Pending(pool)) = n + f /\ DOMAIN Pending(pool) = 1..(n + f)
      /\ \A i \in 1..n : Pending(pool)[i] = recovery[i].entry
      /\ \A i \in 1..f : Pending(pool)[n + i] = pool.failed[i]
  BY PendingFacts
<1>3. /\ DOMAIN recovery' = 1..Len(recovery')
      /\ DOMAIN Pending(pool)' = 1..(Len(recovery') + f)
      /\ \A i \in 1..Len(recovery') : Pending(pool)'[i] = recovery'[i].entry
      /\ \A i \in 1..f : Pending(pool)'[Len(recovery') + i] = pool.failed[i]
  BY <1>1, PendingNext
<1>4. n = Len(recovery)
  OBVIOUS
<1> HIDE DEF n, f
<1>5. Len(recovery') = n - 1 /\ n >= 1
  BY <1>1, <1>4
<1>6. ASSUME NEW i \in 1..(n - 1 + f)
      PROVE  Pending(pool)'[i] = Pending(pool)[i + 1]
  <2>1. CASE i <= n - 1
    <3>1. i \in 1..Len(recovery') /\ i + 1 \in 1..n
      BY <1>2, <1>5, <2>1
    <3>2. QED
      BY <1>1, <1>2, <1>3, <3>1
  <2>2. CASE i > n - 1
    <3> DEFINE j == i - (n - 1)
    <3>1. j \in 1..f /\ i = (n - 1) + j /\ i + 1 = n + j
      BY <1>2, <1>5, <2>2
    <3> HIDE DEF j
    <3>2. Pending(pool)'[(n - 1) + j] = pool.failed[j]
      BY <1>3, <1>5, <3>1
    <3>3. Pending(pool)[n + j] = pool.failed[j]
      BY <1>2, <3>1
    <3>4. QED
      BY <3>1, <3>2, <3>3
  <2>3. QED
    BY <1>2, <1>5, <2>1, <2>2
<1>7. DOMAIN Pending(pool)' = 1..(n - 1 + f) /\ Len(Pending(pool)) - 1 = n - 1 + f
  <2>1. Len(recovery') + f = n - 1 + f
    BY <1>5
  <2>2. DOMAIN Pending(pool)' = 1..(n - 1 + f)
    BY <1>3, <2>1
  <2>3. Len(Pending(pool)) - 1 = n - 1 + f
    BY <1>2
  <2>4. QED
    BY <2>2, <2>3
<1>8. \A i \in DOMAIN recovery' : i + 1 \in DOMAIN recovery /\ recovery'[i] = recovery[i + 1]
  <2>1. ASSUME NEW i \in DOMAIN recovery' PROVE i + 1 \in DOMAIN recovery /\ recovery'[i] = recovery[i + 1]
    <3>1. i \in 1..Len(recovery') /\ i \in 1..(n - 1)
      BY <1>3, <1>5, <2>1
    <3>2. i + 1 \in 1..n
      BY <1>2, <3>1
    <3>3. QED
      BY <1>1, <1>2, <3>1, <3>2
  <2>2. QED
    BY <2>1
<1>9. 1 \in DOMAIN recovery /\ 1 \in DOMAIN Pending(pool) /\ Pending(pool)[1] = Head(recovery).entry
  <2>1. Len(recovery) >= 1
    BY <1>1
  <2>2. 1 \in 1..n /\ 1 \in 1..(n + f)
    BY <1>2, <1>5
  <2>3. QED
    BY <1>1, <1>2, <2>2
<1>10. QED
  BY <1>1, <1>2, <1>5, <1>6, <1>7, <1>8, <1>9

(* The pool with other entries: its sessions are as they were. *)
SameSessions ==
  /\ pool' \in PoolRecord
  /\ pool'.wrapped = pool.wrapped /\ pool'.session = pool.session
  /\ pool'.tabs = pool.tabs /\ pool'.mapped = pool.mapped

(* Entries that change leave what is said of sessions and tasks. *)
LEMMA SessionsKept ==
  ASSUME PoolInv(pool, exposed), SameSessions, Opened' = Opened, UNCHANGED <<task, exposed>>
  PROVE  (Structured(pool) /\ Unique(pool, exposed) /\ Apart(pool))' /\ Past(pool)' = Past(pool)
<1>1. Structured(pool)' /\ Unique(pool, exposed)'
  BY DEF PoolInv, SameSessions, Structured, Unique
<1>2. Apart(pool)'
  BY DEF PoolInv, SameSessions, Apart, OnTab
<1>3. Past(pool)' = Past(pool)
  BY DEF SameSessions, Past
<1>4. QED
  BY <1>1, <1>2, <1>3

(* The recovery is done with a target.                                      *)
LEMMA JobDone ==
  ASSUME Inv, SameSessions, pool'.failed = pool.failed,
         recovery # <<>>, recovery' = Tail(recovery),
         UNCHANGED <<task, presumed, exposed>>, Opened' = Opened, Open' \subseteq Open,
         \A u \in Targets \ {Case.raw} : pool'.quarantine[u] = pool.quarantine[u],
         \/ pool'.quarantine[Case.raw] = NoEntry
         \/ /\ pool'.quarantine[Case.raw] = pool.quarantine[Case.raw]
            /\ pool.quarantine[Case.raw].permanent \/ pool.quarantine[Case.raw].by # Case.by,
         /\ pool'.quarantine[Case.raw] # pool.quarantine[Case.raw]
         /\ Case.raw \in Open' \ exposed
         => Case.task \in presumed \cup {None}
  PROVE  PoolInv(pool, exposed)'
<1> DEFINE r == Case.raw
<1> DEFINE P == Pending(pool)
<1> DEFINE N == Pending(pool)'
<1>1. /\ World /\ PoolInv(pool, exposed) /\ pool \in PoolRecord /\ pool' \in PoolRecord
      /\ recovery \in Seq(JobRecord)
  BY DEF Inv, World, PoolInv, SameSessions
<1>2. /\ recovery' \in Seq(JobRecord)
      /\ 1 \in DOMAIN P /\ P[1] = Case
      /\ Len(P) \in Nat /\ Len(P) >= 1
      /\ DOMAIN P = 1..Len(P) /\ DOMAIN N = 1..(Len(P) - 1)
      /\ \A i \in DOMAIN N : N[i] = P[i + 1]
      /\ \A i \in DOMAIN recovery' : i + 1 \in DOMAIN recovery /\ recovery'[i] = recovery[i + 1]
  BY <1>1, PendingTail DEF Case
<1>3. r \in Targets
  <2>1. recovery[1] \in JobRecord /\ Head(recovery) = recovery[1]
    BY <1>1
  <2>2. QED
    BY <2>1 DEF Case, JobRecord, FailedRecord
<1>4. (Structured(pool) /\ Unique(pool, exposed) /\ Apart(pool))' /\ Past(pool)' = Past(pool)
  BY <1>1, SessionsKept
<1>5. Out(pool, exposed)'
  BY <1>1 DEF PoolInv, Out, SameSessions
<1>6. \A i \in DOMAIN N : i + 1 \in DOMAIN P /\ i + 1 # 1 /\ N[i] = P[i + 1]
  BY <1>2
<1>7. \A i \in DOMAIN P : i = 1 \/ (i - 1 \in DOMAIN N /\ N[i - 1] = P[i])
  <2>1. ASSUME NEW i \in DOMAIN P, i # 1 PROVE i - 1 \in DOMAIN N /\ N[i - 1] = P[i]
    <3>1. i \in 1..Len(P) /\ i - 1 \in 1..(Len(P) - 1) /\ (i - 1) + 1 = i
      BY <1>2, <2>1
    <3>2. i - 1 \in DOMAIN N
      BY <1>2, <3>1
    <3> HIDE DEF N, P
    <3>3. N[i - 1] = P[(i - 1) + 1]
      BY <1>2, <3>2
    <3>4. QED
      BY <3>1, <3>2, <3>3
  <2>2. QED
    BY <2>1
<1>8. P = Pending(pool) /\ N = Pending(pool)' /\ r = Case.raw
  OBVIOUS
<1>9. /\ Origin(pool) /\ Filed(pool, exposed) /\ Worked(pool) /\ Judged(pool) /\ Driven(pool, exposed)
      /\ pool'.wrapped = pool.wrapped /\ pool'.session = pool.session /\ pool'.tabs = pool.tabs
  BY <1>1 DEF PoolInv, SameSessions
<1> HIDE DEF P, N, r
<1>10. NoEntry.by = None /\ None \in Past(pool)
  BY DEF NoEntry, Past
<1>11. \A u \in Targets : pool'.quarantine[u] = pool.quarantine[u] \/ (u = r /\ pool'.quarantine[u] = NoEntry)
  BY <1>8
<1>12. Origin(pool)'
  <2>1. \A u \in Targets : /\ pool'.quarantine[u] # NoEntry => \E s \in 1..pool.wrapped : pool.session[s].raw = u
                           /\ pool'.quarantine[u].by \in Past(pool)
    BY <1>9, <1>10, <1>11 DEF Origin
  <2>2. \A i \in DOMAIN N : N[i].by \in Past(pool) /\ N[i].raw \in Opened
    BY <1>6, <1>8, <1>9 DEF Origin
  <2>3. QED
    BY <1>4, <1>8, <1>9, <2>1, <2>2 DEF Origin
<1>13. r \in Open \ exposed =>
         /\ pool.quarantine[r] # NoEntry /\ pool.quarantine[r].task = Case.task
         /\ \A j \in DOMAIN P : P[j].raw = r => j = 1
  BY <1>2, <1>8, <1>9 DEF Filed, FiledUnder
<1>14. Filed(pool, exposed)'
  <2>1. ASSUME NEW i \in DOMAIN N, N[i].raw \in Open' \ exposed
        PROVE  /\ pool'.quarantine[N[i].raw] # NoEntry
               /\ pool'.quarantine[N[i].raw].by = N[i].by
               /\ pool'.quarantine[N[i].raw].task = N[i].task
               /\ \A j \in DOMAIN N : N[j].raw = N[i].raw => j = i
    <3>1. i + 1 \in DOMAIN P /\ i + 1 # 1 /\ N[i] = P[i + 1] /\ P[i + 1].raw \in Open \ exposed
      BY <1>6, <2>1
    <3>2. /\ pool.quarantine[N[i].raw] # NoEntry
          /\ pool.quarantine[N[i].raw].by = N[i].by
          /\ pool.quarantine[N[i].raw].task = N[i].task
          /\ \A j \in DOMAIN P : P[j].raw = N[i].raw => j = i + 1
      BY <1>8, <1>9, <3>1 DEF Filed, FiledUnder
    <3>3. N[i].raw # r
      BY <1>13, <3>1
    <3>4. pool'.quarantine[N[i].raw] = pool.quarantine[N[i].raw]
      BY <1>8, <3>1, <3>3 DEF Open
    <3>5. \A j \in DOMAIN N : N[j].raw = N[i].raw => j = i
      <4>1. ASSUME NEW j \in DOMAIN N, N[j].raw = N[i].raw PROVE j = i
        <5>1. j + 1 = i + 1
          BY <1>6, <3>2, <4>1
        <5>2. j \in Nat /\ i \in Nat
          BY <1>2
        <5>3. QED
          BY <5>1, <5>2
      <4>2. QED
        BY <4>1
    <3>6. QED
      BY <3>2, <3>4, <3>5
  <2>2. QED
    BY <1>8, <2>1 DEF Filed, FiledUnder
<1>15. Worked(pool)'
  <2>1. ASSUME NEW u \in Targets, pool'.quarantine[u] # NoEntry, ~pool'.quarantine[u].permanent
        PROVE  \E i \in DOMAIN N : N[i].raw = u /\ N[i].by = pool'.quarantine[u].by
    <3>1. pool'.quarantine[u] = pool.quarantine[u]
      BY <1>11, <2>1
    <3>2. PICK i \in DOMAIN P : P[i].raw = u /\ P[i].by = pool.quarantine[u].by
      BY <1>8, <1>9, <2>1, <3>1 DEF Worked
    <3>3. i # 1
      BY <1>2, <1>8, <2>1, <3>1, <3>2
    <3>4. i - 1 \in DOMAIN N /\ N[i - 1] = P[i]
      BY <1>7, <3>3
    <3>5. QED
      BY <3>1, <3>2, <3>4
  <2>2. QED
    BY <1>8, <2>1 DEF Worked
<1>16. Judged(pool)'
  <2>1. ASSUME NEW i \in DOMAIN recovery'
        PROVE  /\ recovery'[i].at = "judging" => recovery'[i].entry.task \in presumed \cup {None}
               /\ recovery'[i].at = "closing" =>
                    LET e == pool'.quarantine[recovery'[i].entry.raw] IN
                    e = NoEntry \/ e.permanent \/ e.by # recovery'[i].entry.by
    <3>1. i + 1 \in DOMAIN recovery /\ recovery'[i] = recovery[i + 1]
      BY <1>2, <2>1
    <3>2. recovery[i + 1].entry.raw \in Targets
      <4>1. recovery[i + 1] \in JobRecord
        BY <1>1, <3>1
      <4>2. QED
        BY <4>1 DEF JobRecord, FailedRecord
    <3>3. QED
      BY <1>9, <1>11, <3>1, <3>2 DEF Judged
  <2>2. QED
    BY <2>1 DEF Judged
<1>17. Driven(pool, exposed)'
  <2>1. ASSUME NEW t \in Tasks \ presumed, task[t].at = "driving",
               pool.session[task[t].tab].raw \in Open' \ exposed, task[t].tab \notin pool.tabs
        PROVE  /\ pool'.quarantine[pool.session[task[t].tab].raw] # NoEntry
               /\ pool'.quarantine[pool.session[task[t].tab].raw].task = t
    <3> DEFINE u == pool.session[task[t].tab].raw
    <3>1. pool.quarantine[u] # NoEntry /\ pool.quarantine[u].task = t /\ u \in Open \ exposed /\ u \in Targets
      BY <1>9, <2>1 DEF Driven, Open
    <3>2. t # None
      BY NoneFacts
    <3>3. u = r => pool'.quarantine[u] = pool.quarantine[u]
      <4>1. SUFFICES ASSUME u = r, pool'.quarantine[u] # pool.quarantine[u] PROVE FALSE
        OBVIOUS
      <4>2. Case.task = t
        BY <1>13, <3>1, <4>1
      <4>3. Case.task \in presumed \cup {None}
        BY <1>8, <2>1, <4>1
      <4>4. QED
        BY <2>1, <3>2, <4>2, <4>3
    <3>4. pool'.quarantine[u] = pool.quarantine[u]
      BY <1>11, <3>1, <3>3
    <3>5. QED
      BY <3>1, <3>4
  <2>2. QED
    BY <1>9, <2>1 DEF Driven
<1>18. QED
  BY <1>1, <1>4, <1>5, <1>12, <1>14, <1>15, <1>16, <1>17 DEF PoolInv

(* The entries on their way stay what they are. *)
LEMMA JobMoves ==
  ASSUME Inv, SameSessions, pool'.quarantine = pool.quarantine,
         DOMAIN Pending(pool)' = DOMAIN Pending(pool),
         \A i \in DOMAIN Pending(pool) : Pending(pool)'[i] = Pending(pool)[i],
         UNCHANGED <<target, task, exposed>>, presumed \subseteq presumed', Judged(pool)'
  PROVE  PoolInv(pool, exposed)'
<1>1. PoolInv(pool, exposed) /\ pool' \in PoolRecord
  BY DEF Inv, SameSessions
<1>2. Opened' = Opened /\ Open' = Open
  BY DEF Opened, Open
<1>3. (Structured(pool) /\ Unique(pool, exposed) /\ Apart(pool))' /\ Past(pool)' = Past(pool)
  BY <1>1, <1>2, SessionsKept
<1>4. Out(pool, exposed)'
  BY <1>1 DEF PoolInv, Out, SameSessions
<1>5. Origin(pool)' /\ Worked(pool)'
  BY <1>1, <1>2, <1>3 DEF PoolInv, Origin, Worked, SameSessions
<1>6. Filed(pool, exposed)'
  BY <1>1, <1>2 DEF PoolInv, Filed, FiledUnder
<1>7. Driven(pool, exposed)'
  BY <1>1, <1>2 DEF PoolInv, Driven, SameSessions
<1>8. QED
  BY <1>1, <1>3, <1>4, <1>5, <1>6, <1>7 DEF PoolInv

(* Entries that change leave what scans know. *)
LEMMA RestKept ==
  ASSUME Inv, SameSessions, UNCHANGED <<target, scan>>
  PROVE  Asked(pool)'
<1>1. World /\ PoolInv(pool, exposed) /\ Asked(pool)
  BY DEF Inv
<1>2. Aged(pool, pool')
  BY ScanFacts DEF Aged, SameSessions
<1>3. QED
  BY <1>1, <1>2, AskedKept

(* An entry moves from the end of one list to the queue: the order is kept. *)
LEMMA SubmitKeeps ==
  ASSUME Inv, Submit
  PROVE  Inv' /\ pool'.tabs = pool.tabs
<1>1. /\ World /\ PoolInv(pool, exposed) /\ pool \in PoolRecord /\ recovery \in Seq(JobRecord)
      /\ pool.failed \in Seq(FailedRecord) /\ pool.failed # <<>>
      /\ UNCHANGED <<target, detours, task, scan, attempts, presumed, exposed>>
  BY PoolFields DEF Inv, World, PoolInv, Submit
<1> DEFINE e == Head(pool.failed)
<1> DEFINE job == [entry |-> e, at |-> "waiting"]
<1>2. e \in FailedRecord /\ Tail(pool.failed) \in Seq(FailedRecord) /\ e = pool.failed[1]
  BY <1>1
<1>3. /\ SameSessions /\ pool'.quarantine = pool.quarantine
      /\ pool'.failed = Tail(pool.failed)
  BY <1>1, <1>2 DEF Submit, SameSessions, PoolRecord
<1>4. job \in JobRecord /\ job.entry = e /\ job.at = "waiting" /\ recovery' = Append(recovery, job)
  BY <1>2 DEF JobRecord, Submit
<1> DEFINE n == Len(recovery)
<1> DEFINE f == Len(pool.failed)
<1>5. /\ n \in Nat /\ f \in Nat /\ DOMAIN recovery = 1..n
      /\ DOMAIN Pending(pool) = 1..(n + f)
      /\ \A i \in 1..n : Pending(pool)[i] = recovery[i].entry
      /\ \A i \in 1..f : Pending(pool)[n + i] = pool.failed[i]
  BY <1>1, PendingFacts
<1>6. f >= 1 /\ Len(pool'.failed) = f - 1 /\ \A i \in 1..(f - 1) : pool'.failed[i] = pool.failed[i + 1]
  BY <1>1, <1>3
<1> HIDE DEF job, f, e
<1>7. /\ recovery' \in Seq(JobRecord) /\ Len(recovery') = n + 1
      /\ \A i \in 1..n : recovery'[i] = recovery[i]
      /\ recovery'[n + 1] = job
  BY <1>1, <1>4
<1> HIDE DEF n
<1>8. /\ DOMAIN recovery' = 1..(n + 1)
      /\ DOMAIN Pending(pool)' = 1..((n + 1) + (f - 1))
      /\ \A i \in 1..(n + 1) : Pending(pool)'[i] = recovery'[i].entry
      /\ \A i \in 1..(f - 1) : Pending(pool)'[(n + 1) + i] = pool'.failed[i]
  <2>1. pool' \in PoolRecord
    BY <1>3 DEF SameSessions
  <2>2. QED
    BY <1>6, <1>7, <2>1, PendingNext
<1>9. DOMAIN Pending(pool)' = DOMAIN Pending(pool)
  <2>1. (n + 1) + (f - 1) = n + f
    BY <1>5
  <2>2. QED
    BY <1>5, <1>8, <2>1
<1>10. ASSUME NEW i \in DOMAIN Pending(pool) PROVE Pending(pool)'[i] = Pending(pool)[i]
  <2>0. i \in 1..(n + f)
    BY <1>5
  <2>1. CASE i <= n
    <3>1. i \in 1..n /\ i \in 1..(n + 1)
      BY <1>5, <2>0, <2>1
    <3>2. QED
      BY <1>5, <1>7, <1>8, <3>1
  <2>2. CASE i = n + 1
    <3>1. i \in 1..(n + 1) /\ 1 \in 1..f
      BY <1>5, <1>6, <2>2
    <3>2. Pending(pool)'[i] = e
      BY <1>4, <1>7, <1>8, <2>2, <3>1
    <3>3. Pending(pool)[n + 1] = pool.failed[1]
      BY <1>5, <3>1
    <3>4. QED
      BY <1>2, <2>2, <3>2, <3>3
  <2>3. CASE i > n + 1
    <3> DEFINE j == i - (n + 1)
    <3>1. j \in 1..(f - 1) /\ j + 1 \in 1..f /\ i = (n + 1) + j /\ i = n + (j + 1)
      BY <1>5, <2>0, <2>3
    <3> HIDE DEF j
    <3>2. Pending(pool)'[(n + 1) + j] = pool'.failed[j] /\ pool'.failed[j] = pool.failed[j + 1]
      BY <1>6, <1>8, <3>1
    <3>3. Pending(pool)[n + (j + 1)] = pool.failed[j + 1]
      BY <1>5, <3>1
    <3>4. QED
      BY <3>1, <3>2, <3>3
  <2>4. QED
    BY <1>5, <2>0, <2>1, <2>2, <2>3
<1>11. Judged(pool)'
  <2>1. ASSUME NEW i \in 1..(n + 1) PROVE i \in 1..n \/ i = n + 1
    BY <1>5
  <2>2. QED
    BY <1>1, <1>3, <1>4, <1>5, <1>7, <1>8, <2>1 DEF PoolInv, Judged
<1>12. PoolInv(pool, exposed)'
  BY <1>1, <1>3, <1>9, <1>10, <1>11, JobMoves
<1>13. World'
  BY <1>1, <1>7 DEF World
<1>14. Asked(pool)'
  BY <1>1, <1>3, RestKept
<1>15. QED
  BY <1>3, <1>12, <1>13, <1>14 DEF Inv, SameSessions

(* The job at the head of the queue. *)
LEMMA CaseFacts ==
  ASSUME Inv, recovery # <<>>
  PROVE  /\ recovery \in Seq(JobRecord) /\ 1 \in DOMAIN recovery /\ recovery[1] \in JobRecord
         /\ recovery[1] = Head(recovery) /\ recovery[1].entry = Case
         /\ Case \in FailedRecord /\ Case.raw \in Targets /\ Case.by \in Sessions \cup {None}
         /\ Case.task \in Tasks \cup {None}
         /\ Tail(recovery) \in Seq(JobRecord)
<1>1. recovery \in Seq(JobRecord)
  BY DEF Inv, World
<1>2. 1 \in DOMAIN recovery /\ recovery[1] \in JobRecord /\ recovery[1] = Head(recovery) /\ Tail(recovery) \in Seq(JobRecord)
  BY <1>1
<1>3. recovery[1].entry \in FailedRecord
  BY <1>2 DEF JobRecord
<1>4. QED
  BY <1>1, <1>2, <1>3 DEF Case, FailedRecord

(* The head of the queue is replaced. *)
LEMMA HeadChanges ==
  ASSUME Inv, recovery # <<>>, NEW job \in JobRecord, recovery' = [recovery EXCEPT ![1] = job],
         pool' \in PoolRecord, pool'.failed = pool.failed
  PROVE  /\ recovery' \in Seq(JobRecord) /\ DOMAIN recovery' = DOMAIN recovery
         /\ recovery'[1] = job /\ \A i \in DOMAIN recovery \ {1} : recovery'[i] = recovery[i]
         /\ DOMAIN Pending(pool)' = DOMAIN Pending(pool)
         /\ 1 \in DOMAIN Pending(pool) /\ Pending(pool)[1] = Case
         /\ Pending(pool)'[1] = job.entry
         /\ \A i \in DOMAIN Pending(pool) \ {1} : Pending(pool)'[i] = Pending(pool)[i]
<1>1. recovery \in Seq(JobRecord) /\ 1 \in DOMAIN recovery /\ pool \in PoolRecord /\ recovery[1].entry = Case
  BY CaseFacts DEF Inv, PoolInv
<1>2. /\ recovery' \in Seq(JobRecord) /\ Len(recovery') = Len(recovery) /\ DOMAIN recovery' = DOMAIN recovery
      /\ recovery'[1] = job /\ \A i \in DOMAIN recovery \ {1} : recovery'[i] = recovery[i]
  BY <1>1
<1> DEFINE n == Len(recovery)
<1> DEFINE f == Len(pool.failed)
<1>3. /\ n \in Nat /\ f \in Nat /\ DOMAIN recovery = 1..n
      /\ DOMAIN Pending(pool) = 1..(n + f)
      /\ \A i \in 1..n : Pending(pool)[i] = recovery[i].entry
      /\ \A i \in 1..f : Pending(pool)[n + i] = pool.failed[i]
  BY <1>1, PendingFacts
<1>4. /\ DOMAIN Pending(pool)' = 1..(n + f)
      /\ \A i \in 1..n : Pending(pool)'[i] = recovery'[i].entry
      /\ \A i \in 1..f : Pending(pool)'[n + i] = pool.failed[i]
  BY <1>2, PendingNext
<1> HIDE DEF n, f
<1>5. ASSUME NEW i \in DOMAIN Pending(pool), i # 1 PROVE Pending(pool)'[i] = Pending(pool)[i]
  <2>1. CASE i \in 1..n
    BY <1>2, <1>3, <1>4, <1>5, <2>1
  <2>2. CASE i \notin 1..n
    <3> DEFINE j == i - n
    <3>1. j \in 1..f /\ i = n + j
      BY <1>3, <2>2
    <3> HIDE DEF j
    <3>2. QED
      BY <1>3, <1>4, <3>1
  <2>3. QED
    BY <2>1, <2>2
<1>6. 1 \in 1..n /\ 1 \in 1..(n + f)
  BY <1>1, <1>3
<1>7. QED
  BY <1>1, <1>2, <1>3, <1>4, <1>5, <1>6

(* The recovery takes the worker of its job for gone. *)
LEMMA WorkerGoneKeeps ==
  ASSUME Inv, WorkerGone
  PROVE  Inv' /\ pool'.tabs = pool.tabs
<1>1. /\ World /\ PoolInv(pool, exposed) /\ pool \in PoolRecord /\ recovery # <<>>
      /\ UNCHANGED <<target, detours, pool, task, scan, attempts, exposed>>
  BY DEF Inv, PoolInv, WorkerGone, Job
<1>2. recovery \in Seq(JobRecord) /\ 1 \in DOMAIN recovery /\ recovery[1] \in JobRecord
      /\ recovery[1].entry = Case /\ Case.task \in Tasks \cup {None}
  BY <1>1, CaseFacts
<1> DEFINE job == [recovery[1] EXCEPT !.at = "judging"]
<1>3. job \in JobRecord /\ job.entry = Case /\ job.at = "judging"
  BY <1>2 DEF JobRecord
<1>4. recovery' = [recovery EXCEPT ![1] = job]
  BY DEF WorkerGone, Advance
<1> HIDE DEF job
<1>5. SameSessions /\ pool'.quarantine = pool.quarantine /\ pool'.failed = pool.failed
  BY <1>1 DEF SameSessions
<1>6. /\ recovery' \in Seq(JobRecord) /\ DOMAIN recovery' = DOMAIN recovery
      /\ recovery'[1] = job /\ \A i \in DOMAIN recovery \ {1} : recovery'[i] = recovery[i]
      /\ DOMAIN Pending(pool)' = DOMAIN Pending(pool)
      /\ Pending(pool)[1] = Case /\ Pending(pool)'[1] = job.entry
      /\ \A i \in DOMAIN Pending(pool) \ {1} : Pending(pool)'[i] = Pending(pool)[i]
  BY <1>1, <1>3, <1>4, HeadChanges
<1>7. \A i \in DOMAIN Pending(pool) : Pending(pool)'[i] = Pending(pool)[i]
  BY <1>3, <1>6
<1>8. presumed \subseteq presumed' /\ Case.task \in presumed' \cup {None} /\ presumed' \subseteq Tasks
  <2>1. presumed \subseteq Tasks
    BY <1>1 DEF World
  <2>2. QED
    BY <1>2, <2>1 DEF WorkerGone
<1>9. Judged(pool)'
  BY <1>1, <1>3, <1>6, <1>8 DEF PoolInv, Judged
<1>10. PoolInv(pool, exposed)'
  BY <1>1, <1>5, <1>6, <1>7, <1>8, <1>9, JobMoves
<1>11. World'
  BY <1>1, <1>6, <1>8 DEF World
<1>12. Asked(pool)'
  BY <1>1, <1>5, RestKept
<1>13. QED
  BY <1>1, <1>10, <1>11, <1>12 DEF Inv

(* The pool with another entry for one target. *)
LEMMA EntryChanges ==
  ASSUME pool \in PoolRecord, NEW r \in Targets, NEW e \in EntryRecord,
         pool' = [pool EXCEPT !.quarantine[r] = e]
  PROVE  /\ SameSessions /\ pool'.failed = pool.failed
         /\ pool'.quarantine[r] = e
         /\ \A u \in Targets \ {r} : pool'.quarantine[u] = pool.quarantine[u]
<1>1. pool.quarantine \in [Targets -> EntryRecord]
  BY PoolFields
<1> DEFINE qq == [pool.quarantine EXCEPT ![r] = e]
<1>2. /\ qq \in [Targets -> EntryRecord] /\ qq[r] = e
      /\ \A u \in Targets \ {r} : qq[u] = pool.quarantine[u]
  BY <1>1
<1>3. pool' = [pool EXCEPT !.quarantine = qq]
  OBVIOUS
<1> HIDE DEF qq
<1>4. SameSessions /\ pool'.failed = pool.failed /\ pool'.quarantine = qq
  BY <1>2, <1>3 DEF SameSessions, PoolRecord
<1>5. QED
  BY <1>2, <1>4

(* A job that is done with, as a step of the whole state. *)
LEMMA DoneKeeps ==
  ASSUME Inv, PoolInv(pool, exposed)', SameSessions, recovery # <<>>, recovery' = Tail(recovery),
         target' \in [Targets -> {"unopened", "usable", "unusable", "closed"}],
         Opened' = Opened, \A u \in Targets : target[u] = "closed" => target'[u] = "closed",
         attempts' \in [Targets -> Nat], UNCHANGED <<detours, task, scan, presumed, exposed>>
  PROVE  Inv' /\ pool'.tabs = pool.tabs
<1>1. World
  BY DEF Inv
<1>2. recovery' \in Seq(JobRecord)
  BY CaseFacts
<1>3. World'
  BY <1>1, <1>2 DEF World
<1>4. Asked(pool)'
  <2>1. Asked(pool) /\ PoolInv(pool, exposed)
    BY DEF Inv
  <2>2. pool'.wrapped = pool.wrapped /\ pool'.session = pool.session
    BY DEF SameSessions
  <2>3. \A x \in Scanners : \A s \in 1..scan[x].since : pool.session[s].raw \in Targets
    <3>1. \A x \in Scanners : \A s \in 1..scan[x].since : s \in 1..pool.wrapped
      BY <2>1, ScanFacts DEF Asked
    <3>2. QED
      BY <3>1, ScanFacts
  <2>4. QED
    BY <2>1, <2>2, <2>3 DEF Asked
<1>5. QED
  BY <1>3, <1>4 DEF Inv, SameSessions

(* The entry goes only when its task is taken for gone, or there was none. *)
LEMMA ReadmitKeeps ==
  ASSUME Inv, NEW refreshed \in BOOLEAN, Readmit(refreshed)
  PROVE  Inv' /\ pool'.tabs = pool.tabs
<1>1. /\ World /\ PoolInv(pool, exposed) /\ pool \in PoolRecord
      /\ recovery # <<>> /\ Head(recovery).at = "judging" /\ recovery' = Tail(recovery)
      /\ pool' = [pool EXCEPT !.quarantine[Case.raw] = NoEntry]
      /\ UNCHANGED <<target, detours, task, scan, presumed, exposed>>
  BY DEF Inv, PoolInv, Readmit, Job
<1>2. recovery \in Seq(JobRecord) /\ 1 \in DOMAIN recovery /\ recovery[1] = Head(recovery)
      /\ recovery[1].entry = Case /\ Case.raw \in Targets
  BY <1>1, CaseFacts
<1>3. /\ SameSessions /\ pool'.failed = pool.failed
      /\ pool'.quarantine[Case.raw] = NoEntry
      /\ \A u \in Targets \ {Case.raw} : pool'.quarantine[u] = pool.quarantine[u]
  BY <1>1, <1>2, NoEntryFields, EntryChanges
<1>4. Opened' = Opened /\ Open' = Open
  BY <1>1 DEF Opened, Open
<1>5. Case.task \in presumed \cup {None}
  BY <1>1, <1>2 DEF PoolInv, Judged
<1>6. PoolInv(pool, exposed)'
  BY <1>1, <1>3, <1>4, <1>5, JobDone
<1>7. attempts' \in [Targets -> Nat] /\ target' \in [Targets -> {"unopened", "usable", "unusable", "closed"}]
  BY <1>1, <1>2 DEF World, Readmit
<1>8. QED
  BY <1>1, <1>3, <1>4, <1>6, <1>7, DoneKeeps

(* The entry goes only with its target, or stays permanent. *)
LEMMA CloseBarredKeeps ==
  ASSUME Inv, NEW works \in BOOLEAN, CloseBarred(works)
  PROVE  Inv' /\ pool'.tabs = pool.tabs
<1> DEFINE r == Case.raw
<1>1. /\ World /\ PoolInv(pool, exposed) /\ pool \in PoolRecord
      /\ recovery # <<>> /\ Head(recovery).at = "closing" /\ recovery' = Tail(recovery)
      /\ target' = IF works /\ r \in Open THEN [target EXCEPT ![r] = "closed"] ELSE target
      /\ pool' = IF works /\ pool.quarantine[r].by = Case.by
                 THEN [pool EXCEPT !.quarantine[r] = NoEntry] ELSE pool
      /\ UNCHANGED <<detours, task, scan, attempts, presumed, exposed>>
  BY DEF Inv, PoolInv, CloseBarred, Job
<1>2. recovery \in Seq(JobRecord) /\ 1 \in DOMAIN recovery /\ recovery[1] = Head(recovery)
      /\ recovery[1].entry = Case /\ r \in Targets
  BY <1>1, CaseFacts
<1>3. target \in [Targets -> {"unopened", "usable", "unusable", "closed"}] /\ attempts \in [Targets -> Nat]
  BY <1>1 DEF World
<1>4. /\ target' \in [Targets -> {"unopened", "usable", "unusable", "closed"}]
      /\ Opened' = Opened /\ Open' \subseteq Open
      /\ \A u \in Targets : target[u] = "closed" => target'[u] = "closed"
      /\ works => r \notin Open'
  BY <1>1, <1>2, <1>3 DEF Opened, Open
<1>5. pool.quarantine[r] = NoEntry \/ pool.quarantine[r].permanent \/ pool.quarantine[r].by # Case.by
  BY <1>1, <1>2 DEF PoolInv, Judged
<1>6. CASE works /\ pool.quarantine[r].by = Case.by
  <2>1. /\ SameSessions /\ pool'.failed = pool.failed
        /\ pool'.quarantine[r] = NoEntry
        /\ \A u \in Targets \ {r} : pool'.quarantine[u] = pool.quarantine[u]
    BY <1>1, <1>2, <1>6, NoEntryFields, EntryChanges
  <2>2. PoolInv(pool, exposed)'
    BY <1>1, <1>4, <1>6, <2>1, JobDone
  <2>3. QED
    BY <1>1, <1>3, <1>4, <2>1, <2>2, DoneKeeps
<1>7. CASE ~(works /\ pool.quarantine[r].by = Case.by)
  <2>1. pool' = pool /\ SameSessions
    BY <1>1, <1>7 DEF SameSessions
  <2>2. PoolInv(pool, exposed)'
    BY <1>1, <1>4, <1>5, <2>1, JobDone
  <2>3. QED
    BY <1>1, <1>3, <1>4, <2>1, <2>2, DoneKeeps
<1>8. QED
  BY <1>6, <1>7

(* The entry becomes permanent, and the job is filed anew under it. *)
LEMMA BarKeeps ==
  ASSUME Inv, Bar
  PROVE  Inv' /\ pool'.tabs = pool.tabs
<1> DEFINE r == Case.raw
<1>1. /\ World /\ PoolInv(pool, exposed) /\ pool \in PoolRecord /\ recovery # <<>>
      /\ UNCHANGED <<target, detours, task, scan, attempts, presumed, exposed>>
  BY DEF Inv, PoolInv, Bar, Job
<1>2. recovery \in Seq(JobRecord) /\ 1 \in DOMAIN recovery /\ recovery[1] \in JobRecord
      /\ recovery[1].entry = Case /\ r \in Targets /\ Case \in FailedRecord
  BY <1>1, CaseFacts
<1>3. target \in [Targets -> {"unopened", "usable", "unusable", "closed"}] /\ attempts \in [Targets -> Nat]
      /\ Opened' = Opened /\ Open' = Open
  BY <1>1 DEF World, Opened, Open
<1>4. CASE pool.quarantine[r] = NoEntry
  <2>1. recovery' = Tail(recovery) /\ pool' = pool /\ SameSessions
    BY <1>1, <1>4 DEF Bar, SameSessions
  <2>2. PoolInv(pool, exposed)'
    BY <1>1, <1>3, <1>4, <2>1, JobDone
  <2>3. QED
    BY <1>1, <1>3, <2>1, <2>2, DoneKeeps
<1>5. CASE pool.quarantine[r] # NoEntry
  <2> DEFINE e == [pool.quarantine[r] EXCEPT !.permanent = TRUE]
  <2>1. pool.quarantine[r] \in EntryRecord /\ pool.quarantine[r].by \in Sessions \cup {None}
    BY <1>1, <1>2, EntryFields
  <2>2. /\ e \in EntryRecord /\ e # NoEntry /\ e.permanent
        /\ e.by = pool.quarantine[r].by /\ e.task = pool.quarantine[r].task
    BY <2>1 DEF EntryRecord, NoEntry
  <2>3. pool' = [pool EXCEPT !.quarantine[r] = e]
    BY <1>5 DEF Bar
  <2> HIDE DEF e
  <2>4. /\ SameSessions /\ pool'.failed = pool.failed
        /\ pool'.quarantine[r] = e
        /\ \A u \in Targets \ {r} : pool'.quarantine[u] = pool.quarantine[u]
    BY <1>1, <1>2, <2>2, <2>3, EntryChanges
  <2> DEFINE c == [Case EXCEPT !.by = pool.quarantine[r].by]
  <2>5. c \in FailedRecord /\ c.raw = r /\ c.task = Case.task /\ c.by = pool.quarantine[r].by
    BY <1>2, <2>1 DEF FailedRecord
  <2> DEFINE job == [entry |-> c, at |-> "closing"]
  <2>6. job \in JobRecord /\ job.entry = c /\ job.at = "closing"
    BY <2>5 DEF JobRecord
  <2>7. recovery' = [recovery EXCEPT ![1] = job]
    <3>1. recovery' = [recovery EXCEPT ![1].at = "closing", ![1].entry.by = pool.quarantine[r].by]
      BY <1>5 DEF Bar
    <3>2. recovery' = [recovery EXCEPT ![1] = [[recovery[1] EXCEPT !.at = "closing"] EXCEPT !.entry = c]]
      BY <1>2, <3>1 DEF JobRecord
    <3>3. [[recovery[1] EXCEPT !.at = "closing"] EXCEPT !.entry = c] = job
      <4> DEFINE k == recovery[1]
      <4>1. k \in JobRecord
        BY <1>2
      <4> HIDE DEF k
      <4> DEFINE m == [[k EXCEPT !.at = "closing"] EXCEPT !.entry = c]
      <4>2. m \in JobRecord /\ m.entry = c /\ m.at = "closing"
        BY <2>5, <4>1 DEF JobRecord
      <4> HIDE DEF m
      <4>3. m = [entry |-> m.entry, at |-> m.at]
        BY <4>2 DEF JobRecord
      <4>4. m = job
        BY <4>2, <4>3 DEF job
      <4>5. QED
        BY <4>4 DEF m, k
    <3>4. QED
      BY <3>2, <3>3
  <2> HIDE DEF c, job
  <2> DEFINE P == Pending(pool)
  <2> DEFINE N == Pending(pool)'
  <2>8. /\ recovery' \in Seq(JobRecord) /\ DOMAIN recovery' = DOMAIN recovery
        /\ recovery'[1] = job /\ \A i \in DOMAIN recovery \ {1} : recovery'[i] = recovery[i]
        /\ DOMAIN N = DOMAIN P /\ 1 \in DOMAIN P /\ P[1] = Case /\ N[1] = c
        /\ \A i \in DOMAIN P \ {1} : N[i] = P[i]
    <3>1. pool' \in PoolRecord
      BY <2>4 DEF SameSessions
    <3>2. QED
      BY <1>1, <2>4, <2>6, <2>7, <3>1, HeadChanges
  <2>9. P = Pending(pool) /\ N = Pending(pool)' /\ r = Case.raw
    OBVIOUS
  <2>10. /\ Origin(pool) /\ Filed(pool, exposed) /\ Worked(pool) /\ Judged(pool) /\ Driven(pool, exposed)
         /\ Out(pool, exposed)
         /\ pool'.wrapped = pool.wrapped /\ pool'.session = pool.session /\ pool'.tabs = pool.tabs
    BY <1>1, <2>4 DEF PoolInv, SameSessions
  <2> HIDE DEF P, N, r
  <2>11. \A i \in DOMAIN P : N[i].raw = P[i].raw /\ N[i].task = P[i].task
    BY <2>5, <2>8, <2>9
  <2>12. \A u \in Targets : /\ (pool'.quarantine[u] # NoEntry) <=> (pool.quarantine[u] # NoEntry)
                            /\ pool'.quarantine[u].by = pool.quarantine[u].by
                            /\ pool'.quarantine[u].task = pool.quarantine[u].task
                            /\ u # r => pool'.quarantine[u] = pool.quarantine[u]
    BY <1>5, <2>2, <2>4
  <2>13. (Structured(pool) /\ Unique(pool, exposed) /\ Apart(pool))' /\ Past(pool)' = Past(pool)
    BY <1>1, <1>3, <2>4, SessionsKept
  <2>14. Out(pool, exposed)'
    BY <1>1, <2>10, <2>12 DEF Out
  <2>15. Origin(pool)'
    <3>1. \A u \in Targets : /\ pool'.quarantine[u] # NoEntry => \E s \in 1..pool.wrapped : pool.session[s].raw = u
                             /\ pool'.quarantine[u].by \in Past(pool)
      BY <2>10, <2>12 DEF Origin
    <3>2. c.by \in Past(pool)
      BY <1>2, <2>5, <2>10 DEF Origin
    <3>3. \A i \in DOMAIN N : N[i].by \in Past(pool) /\ N[i].raw \in Opened
      BY <2>8, <2>9, <2>10, <2>11, <3>2 DEF Origin
    <3>4. QED
      BY <1>3, <2>9, <2>10, <2>13, <3>1, <3>3 DEF Origin
  <2>16. Filed(pool, exposed)'
    <3>1. ASSUME NEW i \in DOMAIN N, N[i].raw \in Open \ exposed
          PROVE  /\ pool'.quarantine[N[i].raw] # NoEntry
                 /\ pool'.quarantine[N[i].raw].by = N[i].by
                 /\ pool'.quarantine[N[i].raw].task = N[i].task
                 /\ \A j \in DOMAIN N : N[j].raw = N[i].raw => j = i
      <4>1. i \in DOMAIN P /\ P[i].raw = N[i].raw /\ P[i].raw \in Targets
        BY <2>8, <2>11, <3>1 DEF Open
      <4>2. /\ pool.quarantine[P[i].raw] # NoEntry
            /\ pool.quarantine[P[i].raw].by = P[i].by
            /\ pool.quarantine[P[i].raw].task = P[i].task
            /\ \A j \in DOMAIN P : P[j].raw = P[i].raw => j = i
        BY <2>9, <2>10, <3>1, <4>1 DEF Filed, FiledUnder
      <4>3. pool'.quarantine[N[i].raw].by = N[i].by
        <5>1. CASE i = 1
          BY <2>5, <2>8, <2>12, <4>1, <5>1
        <5>2. CASE i # 1
          BY <2>8, <2>12, <4>1, <4>2, <5>2
        <5>3. QED
          BY <5>1, <5>2
      <4>4. QED
        BY <2>8, <2>11, <2>12, <4>1, <4>2, <4>3
    <3>2. QED
      BY <1>1, <1>3, <2>9, <3>1 DEF Filed, FiledUnder
  <2>17. Worked(pool)'
    <3>1. ASSUME NEW u \in Targets, pool'.quarantine[u] # NoEntry, ~pool'.quarantine[u].permanent
          PROVE  \E i \in DOMAIN N : N[i].raw = u /\ N[i].by = pool'.quarantine[u].by
      <4>1. u # r /\ pool'.quarantine[u] = pool.quarantine[u]
        BY <2>2, <2>4, <2>12, <3>1
      <4>2. PICK i \in DOMAIN P : P[i].raw = u /\ P[i].by = pool.quarantine[u].by
        BY <2>9, <2>10, <3>1, <4>1 DEF Worked
      <4>3. i # 1
        BY <2>8, <2>9, <4>1, <4>2
      <4>4. QED
        BY <2>8, <4>1, <4>2, <4>3
    <3>2. QED
      BY <2>9, <3>1 DEF Worked
  <2>18. Judged(pool)'
    <3>1. ASSUME NEW i \in DOMAIN recovery
          PROVE  /\ recovery'[i].at = "judging" => recovery'[i].entry.task \in presumed \cup {None}
                 /\ recovery'[i].at = "closing" =>
                      LET k == pool'.quarantine[recovery'[i].entry.raw] IN
                      k = NoEntry \/ k.permanent \/ k.by # recovery'[i].entry.by
      <4>1. CASE i = 1
        <5>1. recovery'[i].entry = c /\ recovery'[i].at = "closing"
          BY <2>6, <2>8, <4>1
        <5>2. pool'.quarantine[c.raw] = e
          BY <2>4, <2>5, <2>9
        <5>3. QED
          BY <2>2, <5>1, <5>2
      <4>2. CASE i # 1
        <5>1. recovery'[i] = recovery[i]
          BY <2>8, <4>2
        <5>2. recovery[i] \in JobRecord
          BY <1>2
        <5>3. recovery[i].entry.raw \in Targets
          BY <5>2 DEF JobRecord, FailedRecord
        <5>4. pool'.quarantine[recovery[i].entry.raw] = e \/ pool'.quarantine[recovery[i].entry.raw] = pool.quarantine[recovery[i].entry.raw]
          BY <2>4, <2>9, <5>3
        <5>5. QED
          BY <2>2, <2>10, <5>1, <5>4 DEF Judged
      <4>3. QED
        BY <4>1, <4>2
    <3>2. QED
      BY <1>1, <2>8, <3>1 DEF Judged
  <2>19. Driven(pool, exposed)'
    <3>1. ASSUME NEW u \in Open PROVE u \in Targets
      BY DEF Open
    <3>2. QED
      BY <1>1, <1>3, <2>10, <2>12, <3>1 DEF Driven
  <2>20. PoolInv(pool, exposed)'
    <3>1. pool' \in PoolRecord
      BY <2>4 DEF SameSessions
    <3>2. QED
      BY <2>13, <2>14, <2>15, <2>16, <2>17, <2>18, <2>19, <3>1 DEF PoolInv
  <2>21. World'
    BY <1>1, <2>8 DEF World
  <2>22. Asked(pool)'
    BY <1>1, <2>4, RestKept
  <2>23. QED
    BY <2>10, <2>20, <2>21, <2>22 DEF Inv
<1>6. QED
  BY <1>4, <1>5

-----------------------------------------------------------------------------
(* The theorems. *)

(* The invariant holds at the start. *)
LEMMA InitInv == Init => Inv
<1> SUFFICES ASSUME Init PROVE Inv
  OBVIOUS
<1> USE DEF Init
<1>1. World
  <2>1. 0 \in 0..MaxDetours /\ 0 \in 0..MaxSessions
    BY PoolAssumption DEF PoolAssumption
  <2>2. [at |-> "new", tab |-> None] \in TaskRecord /\ NoScan \in ScanRecord
    BY <2>1 DEF TaskRecord, NoScan, ScanRecord
  <2>3. QED
    BY <2>1, <2>2 DEF World
<1>2. pool \in PoolRecord
  <2>1. NoSession \in SessionRecord /\ 0 \in 0..MaxSessions
    BY NoneFacts DEF NoSession, SessionRecord, Statuses
  <2>2. NoEntry \in EntryRecord
    BY NoEntryFields
  <2>3. [s \in Sessions |-> NoSession] \in [Sessions -> SessionRecord]
    BY <2>1
  <2>4. [r \in Targets |-> NoEntry] \in [Targets -> EntryRecord]
    BY <2>2
  <2>5. <<>> \in Seq(FailedRecord)
    OBVIOUS
  <2>6. QED
    BY <2>1, <2>3, <2>4, <2>5 DEF PoolRecord
<1>3. /\ pool.wrapped = 0 /\ pool.tabs = {} /\ pool.failed = <<>>
      /\ \A s \in Sessions : pool.session[s] = NoSession
      /\ \A r \in Targets : pool.mapped[r] = None /\ pool.quarantine[r] = NoEntry
  OBVIOUS
<1>4. Structured(pool) /\ Unique(pool, exposed) /\ Out(pool, exposed)
  BY <1>3 DEF Structured, Unique, Out, NoSession
<1>5. DOMAIN Pending(pool) = {}
  <2>1. recovery \in Seq(JobRecord) /\ Len(recovery) = 0 /\ Len(pool.failed) = 0
    BY <1>3
  <2>2. DOMAIN Pending(pool) = 1..(Len(recovery) + Len(pool.failed))
    BY <1>2, <2>1, PendingFacts
  <2>3. QED
    BY <2>1, <2>2
<1>6. Origin(pool) /\ Filed(pool, exposed) /\ Worked(pool) /\ Judged(pool)
  <2>1. NoEntry.by = None /\ DOMAIN recovery = {}
    BY DEF NoEntry
  <2>2. QED
    BY <1>3, <1>5, <2>1 DEF Origin, Past, Filed, Worked, Judged
<1>7. \A t \in Tasks : task[t].at = "new"
  OBVIOUS
<1>8. Apart(pool) /\ Driven(pool, exposed)
  BY <1>7 DEF Apart, OnTab, Driven
<1>9. PoolInv(pool, exposed)
  BY <1>2, <1>4, <1>6, <1>8 DEF PoolInv
<1>10. Asked(pool)
  BY <1>3 DEF Asked, NoScan
<1>11. QED
  BY <1>1, <1>9, <1>10 DEF Inv

(* The invariant does not depend on anything but the variables. *)
LEMMA StutterInv == ASSUME Inv, UNCHANGED vars PROVE Inv'
<1>1. World /\ PoolInv(pool, exposed) /\ Asked(pool)
  BY DEF Inv
<1>2. UNCHANGED <<target, detours, pool, task, scan, recovery, attempts, presumed, exposed>>
  BY DEF vars
<1>3. World'
  BY <1>1, <1>2 DEF World
<1>4. Opened' = Opened /\ Open' = Open
  BY <1>2 DEF Opened, Open
<1>5. PoolInv(pool, exposed)'
  BY <1>1, <1>2, <1>4, TargetStep
<1>6. Asked(pool)'
  BY <1>1, <1>2, <1>4 DEF Asked
<1>7. QED
  BY <1>3, <1>5, <1>6 DEF Inv

(* Every step keeps the invariant. *)
LEMMA NextInv == ASSUME Inv, Next PROVE Inv'
<1>1. ASSUME NEW r \in Targets, OpenTarget(r) \/ CloseTarget(r) \/ ChangePage(r) PROVE Inv'
  BY <1>1, BrowserKeeps
<1>2. ASSUME NEW x \in Scanners, Scan(x) PROVE Inv'
  BY <1>2, ScanWaits, ScanLookKeeps, ScanApplyKeeps, OpenCreatedKeeps, WrapCreatedKeeps DEF Scan
<1>3. CASE CleanUp
  BY <1>3, CleanUpKeeps
<1>4. ASSUME NEW t \in Tasks, Request(t) PROVE Inv'
  BY <1>4, RequestKeeps
<1>5. ASSUME NEW s \in Sessions, TabFails(s) \/ ReadAddress(s) PROVE Inv'
  BY <1>5, TabFailsKeeps, ReadAddressKeeps
<1>6. CASE Recover
  BY <1>6, SubmitKeeps, WorkerGoneKeeps, BarKeeps, ReadmitKeeps, CloseBarredKeeps DEF Recover
<1>7. QED
  BY <1>1, <1>2, <1>3, <1>4, <1>5, <1>6 DEF Next

(* The pool is sound whatever scans, requests, failures and recoveries      *)
(* interleave, for every number of targets, tasks, scanners and sessions.   *)
THEOREM PoolIsSound == Spec => []Inv
<1>1. Inv /\ [Next]_vars => Inv'
  BY NextInv, StutterInv
<1>2. QED
  BY <1>1, InitInv, PTL DEF Spec

(* The types hold, and the map from targets leads to the pooled session of  *)
(* the target.                                                              *)
THEOREM TypeCorrect == Spec => []TypeOK
<1>1. Inv => TypeOK
  <2> SUFFICES ASSUME Inv PROVE TypeOK
    OBVIOUS
  <2>1. World /\ Structured(pool) /\ pool.wrapped \in 0..MaxSessions
    BY ScanFacts DEF PoolInv
  <2>2. QED
    BY <2>1 DEF World, Structured, TypeOK
<1>2. QED
  BY <1>1, PoolIsSound, PTL

(* A target in quarantine is not pooled by any scan, however long ago the   *)
(* scan asked the browser (the test of the quarantine is in the same block  *)
(* as the wrapping).                                                        *)
THEOREM QuarantineHolds == Spec => []QuarantinedIsOut
<1>1. Inv => QuarantinedIsOut
  BY DEF Inv, PoolInv, Out, QuarantinedIsOut
<1>2. QED
  BY <1>1, PoolIsSound, PTL

(* Two workers drive one page only when the recovery has taken one of them  *)
(* for gone: until then the page of a failed tab is quarantined under the   *)
(* name of its worker.                                                      *)
THEOREM OneWorkerPerPage == Spec => []OneDriver
<1>1. Inv => OneDriver
  <2> SUFFICES ASSUME Inv, NEW t \in Tasks, NEW u \in Tasks, t # u,
                      task[t].at = "driving", task[u].at = "driving",
                      Page(t) = Page(u), Page(t) \in Open, Page(t) \notin exposed,
                      t \notin presumed, u \notin presumed
               PROVE  FALSE
    BY DEF OneDriver
  <2>1. Unique(pool, exposed) /\ Out(pool, exposed) /\ Apart(pool) /\ Driven(pool, exposed)
    BY DEF Inv, PoolInv
  <2>2. task[t].tab # task[u].tab
    BY <2>1 DEF Apart, OnTab
  <2>3. /\ task[t].tab \in pool.tabs \/ (pool.quarantine[Page(t)] # NoEntry /\ pool.quarantine[Page(t)].task = t)
        /\ task[u].tab \in pool.tabs \/ (pool.quarantine[Page(t)] # NoEntry /\ pool.quarantine[Page(t)].task = u)
    BY <2>1 DEF Driven, Page
  <2>4. \A s \in pool.tabs : pool.session[s].raw = Page(t) =>
           pool.mapped[Page(t)] = s /\ pool.quarantine[Page(t)] = NoEntry
    BY <2>1 DEF Unique, Out, Open
  <2>5. pool.session[task[t].tab].raw = Page(t) /\ pool.session[task[u].tab].raw = Page(t)
    BY DEF Page
  <2>6. QED
    BY <2>2, <2>3, <2>4, <2>5
<1>2. QED
  BY <1>1, PoolIsSound, PTL

(* Every entry that is not permanent is on its way to the recovery or in    *)
(* its queue.                                                               *)
THEOREM NobodyIsForgotten == Spec => []QuarantineIsWorkedOn
<1>1. Inv => QuarantineIsWorkedOn
  <2> SUFFICES ASSUME Inv, NEW r \in Targets, pool.quarantine[r] # NoEntry, ~pool.quarantine[r].permanent
               PROVE  \/ \E i \in DOMAIN pool.failed : pool.failed[i].raw = r /\ pool.failed[i].by = pool.quarantine[r].by
                      \/ \E i \in DOMAIN recovery : recovery[i].entry.raw = r /\ recovery[i].entry.by = pool.quarantine[r].by
    BY DEF QuarantineIsWorkedOn
  <2>1. Worked(pool) /\ pool \in PoolRecord /\ recovery \in Seq(JobRecord)
    BY DEF Inv, PoolInv, World
  <2>2. PICK i \in DOMAIN Pending(pool) : Pending(pool)[i].raw = r /\ Pending(pool)[i].by = pool.quarantine[r].by
    BY <2>1 DEF Worked
  <2> DEFINE n == Len(recovery)
  <2>3. /\ n \in Nat /\ Len(pool.failed) \in Nat
        /\ DOMAIN recovery = 1..n /\ DOMAIN pool.failed = 1..Len(pool.failed)
        /\ DOMAIN Pending(pool) = 1..(n + Len(pool.failed))
        /\ \A j \in 1..n : Pending(pool)[j] = recovery[j].entry
        /\ \A j \in 1..Len(pool.failed) : Pending(pool)[n + j] = pool.failed[j]
    BY <2>1, PendingFacts
  <2> HIDE DEF n
  <2>4. CASE i <= n
    <3>1. i \in 1..n
      BY <2>2, <2>3, <2>4
    <3>2. QED
      BY <2>2, <2>3, <3>1
  <2>5. CASE i > n
    <3> DEFINE j == i - n
    <3>1. j \in 1..Len(pool.failed) /\ i = n + j
      BY <2>2, <2>3, <2>5
    <3> HIDE DEF j
    <3>2. QED
      BY <2>2, <2>3, <3>1
  <2>6. QED
    BY <2>2, <2>3, <2>4, <2>5
<1>2. QED
  BY <1>1, PoolIsSound, PTL

-----------------------------------------------------------------------------
(* What sessions remember of their pages. *)

(* An address the pool skips is one the page was at: as the browser has it, *)
(* as a scan has seen it and as a session remembers it.                     *)
Recalls ==
  /\ \A r \in Targets : target[r] = "unusable" => detours[r] > 0
  /\ \A x \in Scanners : \A r \in scan[x].seen \ scan[x].fit : detours[r] > 0
  /\ \A s \in Sessions :
       pool.session[s].raw \in Targets /\ pool.session[s].url = "unusable" =>
         detours[pool.session[s].raw] > 0

(* Sessions remember what they remembered, or are closed. *)
Remembers ==
  \A s \in Sessions :
    pool'.session[s].raw = pool.session[s].raw /\ pool'.session[s].url \in {pool.session[s].url, "none"}

(* A change of hands leaves the addresses. *)
LEMMA SetSessionRemembers ==
  ASSUME pool \in PoolRecord, NEW s, NEW status, NEW owner, SetSession(s, status, owner)
  PROVE  Remembers /\ pool'.tabs = pool.tabs
<1> DEFINE ss == [pool.session EXCEPT ![s].status = status, ![s].owner = owner]
<1>1. pool' = [pool EXCEPT !.session = ss]
  BY DEF SetSession, PoolRecord
<1>2. pool.session \in [Sessions -> SessionRecord]
  BY PoolFields
<1>3. ASSUME NEW u \in Sessions PROVE ss[u].raw = pool.session[u].raw /\ ss[u].url = pool.session[u].url
  <2>1. pool.session[u] \in SessionRecord
    BY <1>2
  <2>2. CASE u = s
    BY <1>2, <2>1, <2>2 DEF SessionRecord
  <2>3. CASE u # s
    BY <1>2, <2>3
  <2>4. QED
    BY <2>2, <2>3
<1> HIDE DEF ss
<1>4. pool'.session = ss /\ pool'.tabs = pool.tabs
  BY <1>1 DEF PoolRecord
<1>5. QED
  BY <1>3, <1>4 DEF Remembers

(* The steps of a request leave the addresses. *)
LEMMA RequestRemembers ==
  ASSUME pool \in PoolRecord, NEW t \in Tasks, Request(t)
  PROVE  Remembers /\ pool'.tabs = pool.tabs /\ UNCHANGED <<target, detours, scan>>
<1>1. \/ UNCHANGED pool
      \/ \E s, status, owner : SetSession(s, status, owner)
  BY Zenon DEF Request, Take, HandOver, HandOverFails, ReleaseBegin, ReleaseEnd, Leave
<1>2. Remembers /\ pool'.tabs = pool.tabs
  BY <1>1, SetSessionRemembers DEF Remembers
<1>3. UNCHANGED <<target, detours, scan>>
  BY DEF Request, Take, HandOver, HandOverFails, ReleaseBegin, ReleaseEnd, Leave
<1>4. QED
  BY <1>2, <1>3

(* The recovery leaves the addresses; it closes pages and opens none. *)
LEMMA RecoverRemembers ==
  ASSUME World, pool \in PoolRecord, Recover
  PROVE  /\ Remembers /\ pool'.tabs = pool.tabs /\ UNCHANGED <<detours, scan>>
         /\ \A r \in Targets : target'[r] = "unusable" => target[r] = "unusable"
<1> DEFINE entries == \/ UNCHANGED pool
                      \/ \E f : pool' = [pool EXCEPT !.failed = f]
                      \/ \E q : pool' = [pool EXCEPT !.quarantine = q]
<1> DEFINE closes == target' = target \/ \E r \in Open : target' = [target EXCEPT ![r] = "closed"]
<1>1. entries /\ closes /\ UNCHANGED <<detours, scan>>
  <2>1. CASE Submit
    BY <2>1 DEF Submit
  <2>2. CASE WorkerGone
    BY <2>2 DEF WorkerGone
  <2>3. CASE Bar
    BY <2>3 DEF Bar
  <2>4. ASSUME NEW b \in BOOLEAN, Readmit(b) PROVE entries /\ closes /\ UNCHANGED <<detours, scan>>
    BY <2>4 DEF Readmit
  <2>5. ASSUME NEW b \in BOOLEAN, CloseBarred(b) PROVE entries /\ closes /\ UNCHANGED <<detours, scan>>
    BY <2>5 DEF CloseBarred
  <2>6. QED
    BY <2>1, <2>2, <2>3, <2>4, <2>5 DEF Recover
<1>2. pool'.session = pool.session /\ pool'.tabs = pool.tabs
  BY <1>1 DEF PoolRecord
<1>3. \A r \in Targets : target'[r] = "unusable" => target[r] = "unusable"
  BY <1>1 DEF World, Open
<1>4. QED
  BY <1>1, <1>2, <1>3 DEF Remembers

(* What is remembered stays true as long as pages are only counted up and   *)
(* nobody makes up an address.                                              *)
LEMMA RecallsKept ==
  ASSUME World, World', Recalls,
         \A r \in Targets : detours[r] <= detours'[r],
         \A r \in Targets : target'[r] = "unusable" => target[r] = "unusable" \/ detours'[r] > 0,
         \A x \in Scanners :
           \/ \A r \in Targets : r \in scan'[x].seen \ scan'[x].fit => r \in scan[x].seen \ scan[x].fit
           \/ \A r \in Targets : r \in scan'[x].seen \ scan'[x].fit => target[r] = "unusable",
         \A s \in Sessions :
           \/ pool'.session[s].url # "unusable"
           \/ /\ pool'.session[s].raw = pool.session[s].raw
              /\ \/ pool.session[s].url = "unusable"
                 \/ pool.session[s].raw \in Targets => detours[pool.session[s].raw] > 0
  PROVE  Recalls'
<1>1. \A r \in Targets : detours[r] \in Nat /\ detours'[r] \in Nat
  <2>1. detours \in [Targets -> 0..MaxDetours] /\ detours' \in [Targets -> 0..MaxDetours]
    BY DEF World
  <2>2. 0..MaxDetours \subseteq Nat
    OBVIOUS
  <2>3. QED
    BY <2>1, <2>2
<1>2. \A r \in Targets : detours[r] > 0 => detours'[r] > 0
  BY <1>1
<1>3. \A r \in Targets : target'[r] = "unusable" => detours'[r] > 0
  BY <1>2 DEF Recalls
<1>4. ASSUME NEW x \in Scanners, NEW r \in scan'[x].seen \ scan'[x].fit PROVE detours'[r] > 0
  <2>1. r \in Targets
    BY DEF World, ScanRecord
  <2>2. QED
    BY <1>2, <2>1 DEF Recalls
<1>5. ASSUME NEW s \in Sessions, pool'.session[s].raw \in Targets, pool'.session[s].url = "unusable"
      PROVE  detours'[pool'.session[s].raw] > 0
  <2>1. /\ pool'.session[s].raw = pool.session[s].raw
        /\ \/ pool.session[s].url = "unusable"
           \/ pool.session[s].raw \in Targets => detours[pool.session[s].raw] > 0
    BY <1>5
  <2>2. QED
    BY <1>2, <1>5, <2>1 DEF Recalls
<1>6. QED
  BY <1>3, <1>4, <1>5 DEF Recalls

(* A step that leaves pages, scans and addresses alone, or closes pages. *)
LEMMA RecallsStill ==
  ASSUME World, World', Recalls, UNCHANGED <<detours, scan>>, Remembers, pool \in PoolRecord,
         \A r \in Targets : target'[r] = "unusable" => target[r] = "unusable"
  PROVE  Recalls'
<1>1. \A r \in Targets : detours[r] \in Nat /\ detours[r] <= detours'[r]
  <2>1. detours \in [Targets -> 0..MaxDetours] /\ 0..MaxDetours \subseteq Nat
    BY DEF World
  <2>2. QED
    BY <2>1
<1>2. \A s \in Sessions :
        \/ pool'.session[s].url # "unusable"
        \/ pool'.session[s].raw = pool.session[s].raw /\ pool.session[s].url = "unusable"
  BY SessionFields DEF Remembers
<1>3. QED
  BY <1>1, <1>2, RecallsKept

(* The browser counts the pages that come to an address the pool skips. *)
LEMMA BrowserRecalls ==
  ASSUME World, World', Recalls, pool \in PoolRecord, NEW r \in Targets, Opens(r) \/ CloseTarget(r) \/ ChangePage(r),
         UNCHANGED pool, \A x \in Scanners : scan'[x].seen = scan[x].seen /\ scan'[x].fit = scan[x].fit
  PROVE  Recalls'
<1>1. /\ target \in [Targets -> {"unopened", "usable", "unusable", "closed"}]
      /\ detours \in [Targets -> 0..MaxDetours] /\ MaxDetours \in Nat
  BY PoolAssumption DEF World, PoolAssumption
<1>2. \A u \in Targets : detours[u] \in Nat
  BY <1>1
<1>3. \/ detours' = [detours EXCEPT ![r] = @ + 1] /\ \A u \in Targets \ {r} : target'[u] = target[u]
      \/ detours' = detours /\ \A u \in Targets : target'[u] = "unusable" => target[u] = "unusable"
  BY <1>1 DEF Opens, CloseTarget, ChangePage
<1>4. \A u \in Targets : /\ detours[u] <= detours'[u]
                         /\ target'[u] = "unusable" => target[u] = "unusable" \/ detours'[u] > 0
  BY <1>1, <1>2, <1>3
<1>5. \A s \in Sessions :
        \/ pool'.session[s].url # "unusable"
        \/ pool'.session[s].raw = pool.session[s].raw /\ pool.session[s].url = "unusable"
  BY SessionFields
<1>6. QED
  BY <1>4, <1>5, RecallsKept

(* What a scan does with the addresses. *)
LEMMA ScanRecalls ==
  ASSUME Inv, Inv', Recalls, NEW x \in Scanners, Scan(x)
  PROVE  Recalls'
<1>1. /\ World /\ World' /\ pool \in PoolRecord
      /\ \A r \in Targets : detours[r] \in Nat
      /\ \A s \in Sessions : pool.session[s].url \in {"usable", "unusable", "none"}
  <2>1. World /\ World' /\ pool \in PoolRecord
    BY DEF Inv, PoolInv
  <2>2. detours \in [Targets -> 0..MaxDetours] /\ 0..MaxDetours \subseteq Nat
    BY <2>1 DEF World
  <2>3. QED
    BY <2>1, <2>2, SessionFields
<1>2. scan \in [Scanners -> ScanRecord] /\ NoScan.seen = {}
  BY <1>1 DEF World, NoScan
<1>3. CASE ScanBegin(x) \/ OpenFails(x)
  <2>1. UNCHANGED <<target, detours, pool>>
    BY <1>3 DEF ScanBegin, OpenFails
  <2>2. scan'[x].seen = {} /\ \A y \in Scanners \ {x} : scan'[y] = scan[y]
    BY <1>2, <1>3 DEF ScanBegin, OpenFails, NoScan
  <2>3. QED
    BY <1>1, <2>1, <2>2, RecallsKept
<1>4. CASE ScanLook(x)
  <2>1. UNCHANGED <<target, detours, pool>>
    BY <1>4 DEF ScanLook
  <2>2. /\ scan'[x].seen = Open /\ scan'[x].fit = {r \in Open : target[r] = "usable"}
        /\ \A y \in Scanners \ {x} : scan'[y] = scan[y]
    BY <1>2, <1>4 DEF ScanLook, ScanRecord
  <2>3. \A r \in scan'[x].seen \ scan'[x].fit : target[r] = "unusable"
    BY <2>2 DEF Open
  <2>4. QED
    BY <1>1, <2>1, <2>2, <2>3, RecallsKept
<1>5. ASSUME NEW creates \in BOOLEAN, ScanApply(x, creates) PROVE Recalls'
  <2>1. UNCHANGED <<target, detours>>
    BY <1>5 DEF ScanApply
  <2>2. scan'[x].seen = {} /\ \A y \in Scanners \ {x} : scan'[y] = scan[y]
    BY <1>2, <1>5 DEF ScanApply, NoScan
  <2>3. \A s \in Sessions : \/ pool'.session[s].url # "unusable"
                            \/ pool'.session[s].raw = pool.session[s].raw /\ Skips(x, s)
    BY <1>5, ScanApplied
  <2>4. \A s \in Sessions : Skips(x, s) =>
          \/ pool.session[s].url = "unusable"
          \/ pool.session[s].raw \in Targets => detours[pool.session[s].raw] > 0
    BY DEF Skips, Recalls
  <2>5. QED
    BY <1>1, <2>1, <2>2, <2>3, <2>4, RecallsKept
<1>6. ASSUME NEW r \in Targets, OpenCreated(x, r) PROVE Recalls'
  <2>1. UNCHANGED pool /\ Opens(r)
    BY <1>6 DEF OpenCreated
  <2>2. \A y \in Scanners : scan'[y].seen = scan[y].seen /\ scan'[y].fit = scan[y].fit
    BY <1>2, <1>6 DEF OpenCreated, ScanRecord
  <2>3. QED
    BY <1>1, <2>1, <2>2, BrowserRecalls
<1>7. CASE WrapCreated(x)
  <2>1. UNCHANGED <<target, detours>>
    BY <1>7 DEF WrapCreated
  <2>2. scan'[x].seen = {} /\ \A y \in Scanners \ {x} : scan'[y] = scan[y]
    BY <1>2, <1>7 DEF WrapCreated, NoScan
  <2>3. \A s \in Sessions : \/ pool'.session[s].url # "unusable"
                            \/ pool'.session[s] = pool.session[s]
    BY <1>7 DEF WrapCreated, Wrap
  <2>4. QED
    BY <1>1, <2>1, <2>2, <2>3, RecallsKept
<1>8. QED
  BY <1>3, <1>4, <1>5, <1>6, <1>7 DEF Scan

-----------------------------------------------------------------------------
(* That no page loses its session by mistake. *)

(* Every step keeps what is said of the addresses. *)
LEMMA NextRecalls == ASSUME Inv, Inv', Recalls, Next PROVE Recalls'
<1>1. World /\ World' /\ pool \in PoolRecord
  BY DEF Inv, PoolInv
<1>2. ASSUME NEW r \in Targets, OpenTarget(r) \/ CloseTarget(r) \/ ChangePage(r) PROVE Recalls'
  <2>1. Opens(r) \/ CloseTarget(r) \/ ChangePage(r)
    BY <1>2 DEF OpenTarget
  <2>2. UNCHANGED <<pool, scan>>
    BY <1>2 DEF OpenTarget, CloseTarget, ChangePage
  <2>3. QED
    BY <1>1, <2>1, <2>2, BrowserRecalls
<1>3. ASSUME NEW x \in Scanners, Scan(x) PROVE Recalls'
  BY <1>3, ScanRecalls
<1>4. CASE CleanUp
  <2>1. pool' = Cleaned(pool) /\ UNCHANGED <<target, detours, scan>>
    BY <1>4 DEF CleanUp
  <2>2. Remembers
    <3>1. Clears(pool, pool', Unfit(pool), Quarantined(pool))
      BY <1>1, <2>1, CleanedClears
    <3>2. QED
      BY <3>1 DEF Clears, Remembers
  <2>3. QED
    BY <1>1, <2>1, <2>2, RecallsStill
<1>5. ASSUME NEW t \in Tasks, Request(t) PROVE Recalls'
  BY <1>1, <1>5, RequestRemembers, RecallsStill
<1>6. ASSUME NEW s \in Sessions, TabFails(s) PROVE Recalls'
  <2>1. SetSession(s, "error", pool.session[s].owner) /\ UNCHANGED <<target, detours, scan>>
    BY <1>6 DEF TabFails
  <2>2. Remembers
    BY <1>1, <2>1, SetSessionRemembers
  <2>3. QED
    BY <1>1, <2>1, <2>2, RecallsStill
<1>7. ASSUME NEW s \in Sessions, ReadAddress(s) PROVE Recalls'
  <2> DEFINE r == pool.session[s].raw
  <2>1. /\ r \in Open /\ target[r] \in {"usable", "unusable"}
        /\ pool' = [pool EXCEPT !.session[s].url = target[r]] /\ UNCHANGED <<target, detours, scan>>
    BY <1>7 DEF ReadAddress, Open
  <2>2. /\ pool'.session[s].url = target[r]
        /\ \A u \in Sessions \ {s} : pool'.session[u].url = pool.session[u].url
        /\ \A u \in Sessions : pool'.session[u].raw = pool.session[u].raw
    BY <1>1, <2>1, AddressFields
  <2>3. target[r] = "unusable" => detours[r] > 0
    BY <2>1 DEF Recalls, Open
  <2> HIDE DEF r
  <2>4. \A u \in Sessions :
          \/ pool'.session[u].url # "unusable"
          \/ /\ pool'.session[u].raw = pool.session[u].raw
             /\ \/ pool.session[u].url = "unusable"
                \/ pool.session[u].raw \in Targets => detours[pool.session[u].raw] > 0
    BY <1>1, <2>1, <2>2, <2>3, SessionFields DEF r
  <2>5. \A u \in Targets : detours[u] <= detours'[u]
    <3>1. detours \in [Targets -> 0..MaxDetours] /\ 0..MaxDetours \subseteq Nat
      BY <1>1 DEF World
    <3>2. \A u \in Targets : detours[u] \in Nat
      BY <3>1
    <3>3. QED
      BY <2>1, <3>2
  <2>6. QED
    BY <1>1, <2>1, <2>4, <2>5, RecallsKept
<1>8. CASE Recover
  BY <1>1, <1>8, RecoverRemembers, RecallsStill
<1>9. QED
  BY <1>2, <1>3, <1>4, <1>5, <1>6, <1>7, <1>8 DEF Next

(* No address is made up. *)
LEMMA RecallsHolds == Spec => []Recalls
<1>1. Init => Recalls
  <2>1. SUFFICES ASSUME Init PROVE Recalls
    OBVIOUS
  <2>2. \A s \in Sessions : pool.session[s].raw = None
    BY <2>1 DEF Init, NoSession
  <2>3. QED
    BY <2>1, <2>2, NoneFacts DEF Init, Recalls, NoScan
<1>2. Inv /\ Inv' /\ Recalls /\ [Next]_vars => Recalls'
  <2>1. SUFFICES ASSUME Inv, Inv', Recalls, [Next]_vars PROVE Recalls'
    OBVIOUS
  <2>2. CASE Next
    BY <2>1, <2>2, NextRecalls
  <2>3. CASE UNCHANGED vars
    BY <2>1, <2>3 DEF vars, Recalls
  <2>4. QED
    BY <2>1, <2>2, <2>3
<1>3. QED
  BY <1>1, <1>2, PoolIsSound, PTL DEF Spec

(* A session that leaves the pool although its target is there has failed,  *)
(* or is idle and was at an address the pool skips.                         *)
Spares ==
  \A s \in pool.tabs \ pool'.tabs :
    LET r == pool.session[s].raw IN
    \/ r \notin Open
    \/ r \in exposed
    \/ pool.session[s].status \in {"closed", "error"}
    \/ pool.session[s].status = "idle" /\ detours[r] > 0

(* Every step spares the sessions whose page never was at an address the    *)
(* pool skips.                                                              *)
LEMMA NextSpares == ASSUME Inv, Recalls, Next PROVE Spares
<1>1. pool \in PoolRecord /\ \A s \in pool.tabs : s \in Sessions /\ pool.session[s].raw \in Targets
  <2>1. World /\ pool \in PoolRecord /\ Structured(pool)
    BY DEF Inv, PoolInv
  <2>2. QED
    BY <2>1, PoolFields DEF Structured, Opened
<1>2. ASSUME NEW r \in Targets, OpenTarget(r) \/ CloseTarget(r) \/ ChangePage(r) PROVE Spares
  BY <1>2, BrowserKeeps DEF Spares
<1>3. ASSUME NEW x \in Scanners, Scan(x) PROVE Spares
  <2>1. CASE ScanBegin(x) \/ OpenFails(x)
    BY <2>1, ScanWaits DEF Spares
  <2>2. CASE ScanLook(x)
    BY <2>2, ScanLookKeeps DEF Spares
  <2>3. ASSUME NEW creates \in BOOLEAN, ScanApply(x, creates) PROVE Spares
    <3>1. \A s \in pool.tabs \ pool'.tabs :
            \/ pool.session[s].raw \notin Open
            \/ pool.session[s].raw \in exposed
            \/ pool.session[s].status \in {"closed", "error"}
            \/ pool.session[s].status = "idle" /\ Skips(x, s)
      BY <2>3, ScanApplied
    <3>2. \A s \in pool.tabs : Skips(x, s) => detours[pool.session[s].raw] > 0
      BY <1>1 DEF Skips, Recalls
    <3>3. QED
      BY <3>1, <3>2 DEF Spares
  <2>4. ASSUME NEW r \in Targets, OpenCreated(x, r) PROVE Spares
    BY <2>4, OpenCreatedKeeps DEF Spares
  <2>5. CASE WrapCreated(x)
    BY <2>5, WrapCreatedKeeps DEF Spares
  <2>6. QED
    BY <1>3, <2>1, <2>2, <2>3, <2>4, <2>5 DEF Scan
<1>4. CASE CleanUp
  <2>1. pool'.tabs = pool.tabs \ Unfit(pool)
    BY <1>4, CleanUpKeeps
  <2>2. QED
    BY <1>1, <2>1 DEF Unfit, Recalls, Spares
<1>5. ASSUME NEW t \in Tasks, Request(t) PROVE Spares
  BY <1>5, RequestKeeps DEF Spares
<1>6. ASSUME NEW s \in Sessions, TabFails(s) \/ ReadAddress(s) PROVE Spares
  BY <1>6, TabFailsKeeps, ReadAddressKeeps DEF Spares
<1>7. CASE Recover
  <2>1. pool'.tabs = pool.tabs
    BY <1>1, <1>7, RecoverRemembers DEF Inv
  <2>2. QED
    BY <2>1 DEF Spares
<1>8. QED
  BY <1>2, <1>3, <1>4, <1>5, <1>6, <1>7 DEF Next

(* A session leaves the pool only when its target is closed, or two threads *)
(* pooled it at once, or it failed, or it is idle and its page was, once,   *)
(* at an address the pool skips: however old the answers are that scans     *)
(* judge it by.                                                             *)
THEOREM LiveTabsStay == Spec => ScanSparesLive
<1>1. Inv /\ Recalls /\ [Next]_vars => [Spares]_vars
  BY NextSpares
<1>2. Spec => [][Spares]_vars
  BY <1>1, PoolIsSound, RecallsHolds, PTL DEF Spec
<1>3. QED
  BY <1>2 DEF Spares, ScanSparesLive

=============================================================================
