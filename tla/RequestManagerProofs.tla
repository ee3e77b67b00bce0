------------------------ MODULE RequestManagerProofs ------------------------
(* Proofs about RequestManager for any set of requests. *)
EXTENDS RequestManager, FiniteSetTheorems, TLAPS

(* The two calls that end a request keep its fields well typed. *)
LEMMA CancelTypes ==
  ASSUME TypeOK, NEW r \in Requests, RequestCancel(r) \/ MarkFailed(r)
  PROVE  status' \in [Requests -> Statuses] /\ flag' \in [Requests -> BOOLEAN]
  BY DEF TypeOK, RequestCancel, MarkFailed, FlagOfFailure, context, Statuses, Ended

(* A job moves within its steps. *)
LEMMA JobTypes ==
  ASSUME TypeOK, NEW r \in Requests, NEW w \in Writers, NEW step \in JobSteps, Writes(r, w, step)
  PROVE  job' \in [Requests -> [Writers -> JobSteps]]
  BY DEF TypeOK, Writes

(* A captured response is a response. *)
LEMMA CaptureTypes ==
  ASSUME TypeOK, NEW r \in Requests, NEW n \in 0..MaxTokens, Capture(r, n)
  PROVE  /\ tokens' \in [Requests -> 0..MaxTokens]
         /\ latest' \in [Requests -> 0..MaxTokens]
         /\ overtaken' \in [Requests -> BOOLEAN]
  BY DEF TypeOK, Capture

(* The row a writer stores is a row, whether it replaces one or not. *)
LEMMA RowTypes ==
  ASSUME TypeOK, NEW r \in Requests
  PROVE  NewRows(r) \in Seq(Row)
<1> DEFINE row == [status |-> draft[r].status, tokens |-> draft[r].tokens]
<1>1. row \in Row /\ rows[r] \in Seq(Row)
  BY DEF TypeOK, Draft, Row
<1>2. CASE rows[r] # <<>> /\ draft[r].again
  <2>1. NewRows(r) = [rows[r] EXCEPT ![Len(rows[r])] = row]
    BY <1>2 DEF NewRows
  <2>2. Len(rows[r]) \in 1..Len(rows[r])
    BY <1>1, <1>2
  <2> HIDE DEF row
  <2>3. QED
    BY <1>1, <2>1, <2>2
<1>3. CASE ~(rows[r] # <<>> /\ draft[r].again)
  <2>1. NewRows(r) = Append(rows[r], row)
    BY <1>3 DEF NewRows
  <2> HIDE DEF row
  <2>2. QED
    BY <1>1, <2>1
<1>4. QED
  BY <1>2, <1>3
-----------------------------------------------------------------------------
(* The initial state satisfies the invariant. *)
LEMMA InitInv == ASSUME Init PROVE IInv
<1>1. TypeOK
  BY RequestAssumption DEF RequestAssumption, Init, TypeOK, Statuses, Live, Ended, Places, Draft, NoDraft, NoScan,
     Writers, JobSteps
<1>2. PlaceFits /\ FlagFits /\ ScanFits /\ JobsFit /\ OneWriter
  BY RequestAssumption DEF RequestAssumption, Init, PlaceFits, FlagFits, ScanFits, JobsFit, OneWriter, NoScan,
     Working, Leaving, Live, Ended, Holding
<1>3. WriterKnows
  BY DEF Init, WriterKnows, AppendLockFree, Holding
<1>4. QED
  BY <1>1, <1>2, <1>3 DEF IInv

(* A job's step is the only one that changes. *)
LEMMA JobFacts ==
  ASSUME TypeOK, NEW r \in Requests, NEW w \in Writers, NEW step, Writes(r, w, step)
  PROVE  \A q \in Requests, v \in Writers :
           job'[q][v] = IF q = r /\ v = w THEN step ELSE job[q][v]
  BY DEF TypeOK, Writes

(* The clean-up dooms what has ended and marks what is live. *)
LEMMA LookFacts ==
  ASSUME TypeOK, NEW r \in Requests, ScanLook(r)
  PROVE  /\ \/ scan'.doomed = scan.doomed
            \/ status[r] \in Ended /\ scan'.doomed = scan.doomed \cup {r}
         /\ \/ scan'.marking = scan.marking
            \/ status[r] \in Live /\ scan'.marking = r
<1>1. scan = [by |-> scan.by, todo |-> scan.todo, marking |-> scan.marking, doomed |-> scan.doomed]
  BY DEF TypeOK
<1>2. QED
  BY <1>1 DEF ScanLook, MayDrop

(* However a request is ended, the others are untouched, it has ended, and *)
(* it keeps the outcome and the flag it had or is flagged now.             *)
LEMMA EndFacts ==
  ASSUME TypeOK, FlagFits, NEW r \in Requests, RequestCancel(r) \/ MarkFailed(r)
  PROVE  /\ \A q \in Requests : q # r => status'[q] = status[q] /\ flag'[q] = flag[q]
         /\ status'[r] \in Ended
         /\ status[r] \in Ended => status'[r] = status[r] /\ flag'[r] = flag[r]
         /\ status[r] \notin Ended => flag'[r] /\ status'[r] # "completed"
  BY DEF TypeOK, FlagFits, RequestCancel, MarkFailed, MayFail, FlagOfFailure, context, Statuses, Live, Ended

(* The coroutine stays where the status says. *)
LEMMA NextPlaceFits == ASSUME IInv, [Next]_vars PROVE PlaceFits'
<1> USE DEF IInv, context, responses, monitor, serving, history, Statuses, Live, Ended, TypeOK, PlaceFits, FlagFits, ScanFits, JobsFit, Working, Leaving, Places
<1>1. ASSUME NEW r \in Requests, Create(r) PROVE PlaceFits'
  BY <1>1 DEF Create, StartScan, At
<1>2. ASSUME Sweep PROVE PlaceFits'
  BY <1>2 DEF Sweep, StartScan
<1>3. ASSUME NEW r \in Requests, ScanLook(r) PROVE PlaceFits'
  BY <1>3 DEF ScanLook, MayDrop
<1>4. ASSUME NEW r \in Requests, ScanMark(r) PROVE PlaceFits'
  <2>1. /\ \A q \in Requests : q # r => status'[q] = status[q] /\ flag'[q] = flag[q]
        /\ status'[r] \in Ended
        /\ status[r] \in Ended => status'[r] = status[r] /\ flag'[r] = flag[r]
        /\ status[r] \notin Ended => flag'[r] /\ status'[r] # "completed" 
    BY <1>4, EndFacts DEF ScanMark
  <2>2. status[r] # "new"
    BY <1>4 DEF ScanMark
  <2>3. UNCHANGED <<handler, worker, tracked, job>>
    BY <1>4 DEF ScanMark
  <2>0. scan.doomed \subseteq Requests
    BY DEF TypeOK
  <2> HIDE DEF TypeOK
  <2> QED
    BY <2>0, <2>1, <2>2, <2>3
<1>5. ASSUME ScanEnd PROVE PlaceFits'
  BY <1>5 DEF ScanEnd
<1>6. ASSUME NEW r \in Requests, Start(r) PROVE PlaceFits'
  BY <1>6 DEF Start, StatusWhenStarted, At
<1>7. ASSUME NEW r \in Requests, Spawn(r) PROVE PlaceFits'
  BY <1>7 DEF Spawn
<1>8. ASSUME NEW r \in Requests, WorkerReturns(r) PROVE PlaceFits'
  BY <1>8 DEF WorkerReturns
<1>9. ASSUME NEW r \in Requests, Answered(r) PROVE PlaceFits'
  BY <1>9 DEF Answered, At
<1>10. ASSUME NEW r \in Requests, Complete(r) PROVE PlaceFits'
  BY <1>10 DEF Complete, At
<1>11. ASSUME NEW r \in Requests, ObserveStop(r) PROVE PlaceFits'
  BY <1>11 DEF ObserveStop, At, MarkFailed, MayFail, FlagOfFailure
<1>12. ASSUME NEW r \in Requests, HardTimeout(r) PROVE PlaceFits'
  BY <1>12 DEF HardTimeout, At, RequestCancel
<1>13. ASSUME NEW r \in Requests, Fail(r) PROVE PlaceFits'
  BY <1>13 DEF Fail, At, MarkFailed, MayFail, FlagOfFailure
<1>14. ASSUME NEW r \in Requests, CoroutineCancelled(r) PROVE PlaceFits'
  BY <1>14 DEF CoroutineCancelled, At, RequestCancel
<1>15. ASSUME NEW r \in Requests, ClientGone(r) PROVE PlaceFits'
  BY <1>15 DEF ClientGone, RequestCancel
<1>16. ASSUME NEW r \in Requests, CleanUp(r) PROVE PlaceFits'
  BY <1>16 DEF CleanUp, At, RequestCancel
<1>17. ASSUME NEW r \in Requests, CancelledAgain(r) PROVE PlaceFits'
  BY <1>17 DEF CancelledAgain, At, RequestCancel
<1>18. ASSUME NEW r \in Requests, Finish(r) PROVE PlaceFits'
  BY <1>18 DEF Finish, StatusWhenFinished, At, Writes
<1>19. ASSUME NEW r \in Requests, Report(r) PROVE PlaceFits'
  BY <1>19 DEF Report, At
<1>20. ASSUME NEW r \in Requests, CancelBegin(r) PROVE PlaceFits'
  BY <1>20 DEF CancelBegin, Writes
<1>21. ASSUME NEW r \in Requests, CancelDo(r) PROVE PlaceFits'
  <2>1. /\ \A q \in Requests : q # r => status'[q] = status[q] /\ flag'[q] = flag[q]
        /\ status'[r] \in Ended
        /\ status[r] \in Ended => status'[r] = status[r] /\ flag'[r] = flag[r]
        /\ status[r] \notin Ended => flag'[r] /\ status'[r] # "completed" 
    BY <1>21, EndFacts DEF CancelDo
  <2>2. status[r] # "new"
    BY <1>21 DEF CancelDo, Writers
  <2>3. UNCHANGED <<handler, worker, tracked, scan>>
    BY <1>21 DEF CancelDo
  <2>0. scan.doomed \subseteq Requests
    BY DEF TypeOK
  <2> HIDE DEF TypeOK
  <2> QED
    BY <2>0, <2>1, <2>2, <2>3
<1>22. ASSUME NEW r \in Requests, LateResponse(r) PROVE PlaceFits'
  BY <1>22 DEF LateResponse, WritesLate, Writes
<1>23. ASSUME NEW r \in Requests, NEW w \in Writers, Claim(r, w) PROVE PlaceFits'
  BY <1>23 DEF Claim, Writes
<1>24. ASSUME NEW r \in Requests, NEW w \in Writers, Build(r, w) PROVE PlaceFits'
  BY <1>24 DEF Build, Writes
<1>25a. ASSUME NEW r \in Requests, NEW w \in Writers, Compact(r, w) PROVE PlaceFits'
  BY <1>25a DEF Compact, Writes
<1>25. ASSUME NEW r \in Requests, NEW w \in Writers, Store(r, w) PROVE PlaceFits'
  BY <1>25 DEF Store, Writes
<1>26. ASSUME NEW r \in Requests, NEW w \in Writers, Wrote(r, w) PROVE PlaceFits'
  BY <1>26 DEF Wrote, Writes
<1>27. ASSUME UNCHANGED vars PROVE PlaceFits'
  BY <1>27 DEF vars
<1> HIDE DEF TypeOK, PlaceFits, FlagFits, ScanFits, JobsFit, Working, Leaving, Places
<1>28. QED
  BY <1>1, <1>2, <1>3, <1>4, <1>5, <1>6, <1>7, <1>8, <1>9, <1>10, <1>11, <1>12, <1>13, <1>14, <1>15, <1>16, <1>17, <1>18, <1>19, <1>20, <1>21, <1>22, <1>23, <1>24, <1>25a, <1>25, <1>26, <1>27 DEF Next, Manage, Serve, Disturb, Record

(* The cancel flag stays in step with the status. *)
LEMMA NextFlagFits == ASSUME IInv, [Next]_vars PROVE FlagFits'
<1> USE DEF IInv, context, responses, monitor, serving, history, Statuses, Live, Ended, TypeOK, PlaceFits, FlagFits, ScanFits, JobsFit, Working, Leaving, Places
<1>1. ASSUME NEW r \in Requests, Create(r) PROVE FlagFits'
  BY <1>1 DEF Create, StartScan, At
<1>2. ASSUME Sweep PROVE FlagFits'
  BY <1>2 DEF Sweep, StartScan
<1>3. ASSUME NEW r \in Requests, ScanLook(r) PROVE FlagFits'
  BY <1>3 DEF ScanLook, MayDrop
<1>4. ASSUME NEW r \in Requests, ScanMark(r) PROVE FlagFits'
  <2>1. /\ \A q \in Requests : q # r => status'[q] = status[q] /\ flag'[q] = flag[q]
        /\ status'[r] \in Ended
        /\ status[r] \in Ended => status'[r] = status[r] /\ flag'[r] = flag[r]
        /\ status[r] \notin Ended => flag'[r] /\ status'[r] # "completed" 
    BY <1>4, EndFacts DEF ScanMark
  <2>2. status[r] # "new"
    BY <1>4 DEF ScanMark
  <2>3. UNCHANGED <<handler, worker, tracked, job>>
    BY <1>4 DEF ScanMark
  <2>0. scan.doomed \subseteq Requests
    BY DEF TypeOK
  <2> HIDE DEF TypeOK
  <2> QED
    BY <2>0, <2>1, <2>2, <2>3
<1>5. ASSUME ScanEnd PROVE FlagFits'
  BY <1>5 DEF ScanEnd
<1>6. ASSUME NEW r \in Requests, Start(r) PROVE FlagFits'
  BY <1>6 DEF Start, StatusWhenStarted, At
<1>7. ASSUME NEW r \in Requests, Spawn(r) PROVE FlagFits'
  BY <1>7 DEF Spawn
<1>8. ASSUME NEW r \in Requests, WorkerReturns(r) PROVE FlagFits'
  BY <1>8 DEF WorkerReturns
<1>9. ASSUME NEW r \in Requests, Answered(r) PROVE FlagFits'
  BY <1>9 DEF Answered, At
<1>10. ASSUME NEW r \in Requests, Complete(r) PROVE FlagFits'
  BY <1>10 DEF Complete, At
<1>11. ASSUME NEW r \in Requests, ObserveStop(r) PROVE FlagFits'
  BY <1>11 DEF ObserveStop, At, MarkFailed, MayFail, FlagOfFailure
<1>12. ASSUME NEW r \in Requests, HardTimeout(r) PROVE FlagFits'
  BY <1>12 DEF HardTimeout, At, RequestCancel
<1>13. ASSUME NEW r \in Requests, Fail(r) PROVE FlagFits'
  BY <1>13 DEF Fail, At, MarkFailed, MayFail, FlagOfFailure
<1>14. ASSUME NEW r \in Requests, CoroutineCancelled(r) PROVE FlagFits'
  BY <1>14 DEF CoroutineCancelled, At, RequestCancel
<1>15. ASSUME NEW r \in Requests, ClientGone(r) PROVE FlagFits'
  <2>1. /\ \A q \in Requests : q # r => status'[q] = status[q] /\ flag'[q] = flag[q]
        /\ status'[r] \in Ended
        /\ status[r] \in Ended => status'[r] = status[r] /\ flag'[r] = flag[r]
        /\ status[r] \notin Ended => flag'[r] /\ status'[r] # "completed" 
    BY <1>15, EndFacts DEF ClientGone
  <2>2. status[r] # "new"
    BY <1>15 DEF ClientGone
  <2>3. UNCHANGED <<handler, worker, tracked, scan, job>>
    BY <1>15 DEF ClientGone
  <2>0. scan.doomed \subseteq Requests
    BY DEF TypeOK
  <2> HIDE DEF TypeOK
  <2> QED
    BY <2>0, <2>1, <2>2, <2>3
<1>16. ASSUME NEW r \in Requests, CleanUp(r) PROVE FlagFits'
  BY <1>16 DEF CleanUp, At, RequestCancel
<1>17. ASSUME NEW r \in Requests, CancelledAgain(r) PROVE FlagFits'
  BY <1>17 DEF CancelledAgain, At, RequestCancel
<1>18. ASSUME NEW r \in Requests, Finish(r) PROVE FlagFits'
  BY <1>18 DEF Finish, StatusWhenFinished, At, Writes
<1>19. ASSUME NEW r \in Requests, Report(r) PROVE FlagFits'
  BY <1>19 DEF Report, At
<1>20. ASSUME NEW r \in Requests, CancelBegin(r) PROVE FlagFits'
  BY <1>20 DEF CancelBegin, Writes
<1>21. ASSUME NEW r \in Requests, CancelDo(r) PROVE FlagFits'
  <2>1. /\ \A q \in Requests : q # r => status'[q] = status[q] /\ flag'[q] = flag[q]
        /\ status'[r] \in Ended
        /\ status[r] \in Ended => status'[r] = status[r] /\ flag'[r] = flag[r]
        /\ status[r] \notin Ended => flag'[r] /\ status'[r] # "completed" 
    BY <1>21, EndFacts DEF CancelDo
  <2>2. status[r] # "new"
    BY <1>21 DEF CancelDo, Writers
  <2>3. UNCHANGED <<handler, worker, tracked, scan>>
    BY <1>21 DEF CancelDo
  <2>0. scan.doomed \subseteq Requests
    BY DEF TypeOK
  <2> HIDE DEF TypeOK
  <2> QED
    BY <2>0, <2>1, <2>2, <2>3
<1>22. ASSUME NEW r \in Requests, LateResponse(r) PROVE FlagFits'
  BY <1>22 DEF LateResponse, WritesLate, Writes
<1>23. ASSUME NEW r \in Requests, NEW w \in Writers, Claim(r, w) PROVE FlagFits'
  BY <1>23 DEF Claim, Writes
<1>24. ASSUME NEW r \in Requests, NEW w \in Writers, Build(r, w) PROVE FlagFits'
  BY <1>24 DEF Build, Writes
<1>25a. ASSUME NEW r \in Requests, NEW w \in Writers, Compact(r, w) PROVE FlagFits'
  BY <1>25a DEF Compact, Writes
<1>25. ASSUME NEW r \in Requests, NEW w \in Writers, Store(r, w) PROVE FlagFits'
  BY <1>25 DEF Store, Writes
<1>26. ASSUME NEW r \in Requests, NEW w \in Writers, Wrote(r, w) PROVE FlagFits'
  BY <1>26 DEF Wrote, Writes
<1>27. ASSUME UNCHANGED vars PROVE FlagFits'
  BY <1>27 DEF vars
<1> HIDE DEF TypeOK, PlaceFits, FlagFits, ScanFits, JobsFit, Working, Leaving, Places
<1>28. QED
  BY <1>1, <1>2, <1>3, <1>4, <1>5, <1>6, <1>7, <1>8, <1>9, <1>10, <1>11, <1>12, <1>13, <1>14, <1>15, <1>16, <1>17, <1>18, <1>19, <1>20, <1>21, <1>22, <1>23, <1>24, <1>25a, <1>25, <1>26, <1>27 DEF Next, Manage, Serve, Disturb, Record

(* The clean-up dooms what has ended only. *)
LEMMA NextScanFits == ASSUME IInv, [Next]_vars PROVE ScanFits'
<1> USE DEF IInv, context, responses, monitor, serving, history, Statuses, Live, Ended, TypeOK, PlaceFits, FlagFits, ScanFits, JobsFit, Working, Leaving, Places, NoScan
<1>1. ASSUME NEW r \in Requests, Create(r) PROVE ScanFits'
  <2>1. scan'.doomed = {} /\ scan'.marking = Nobody /\ Nobody \notin Requests
    BY <1>1, RequestAssumption DEF Create, StartScan, RequestAssumption
  <2>2. QED
    BY <1>1, <2>1 DEF Create
<1>2. ASSUME Sweep PROVE ScanFits'
  <2>1. scan'.doomed = {} /\ scan'.marking = Nobody /\ Nobody \notin Requests
    BY <1>2, RequestAssumption DEF Sweep, StartScan, RequestAssumption
  <2>2. QED
    BY <1>2, <2>1 DEF Sweep
<1>3. ASSUME NEW r \in Requests, ScanLook(r) PROVE ScanFits'
  <2>1. UNCHANGED <<status, tracked>>
    BY <1>3 DEF ScanLook
  <2>2. /\ \/ scan'.doomed = scan.doomed
           \/ status[r] \in Ended /\ scan'.doomed = scan.doomed \cup {r}
        /\ \/ scan'.marking = scan.marking
           \/ status[r] \in Live /\ scan'.marking = r
    BY <1>3, LookFacts
  <2> HIDE DEF TypeOK
  <2>3. QED
    BY <2>1, <2>2
<1>4. ASSUME NEW r \in Requests, ScanMark(r) PROVE ScanFits'
  <2>1. /\ \A q \in Requests : q # r => status'[q] = status[q] /\ flag'[q] = flag[q]
        /\ status'[r] \in Ended
        /\ status[r] \in Ended => status'[r] = status[r] /\ flag'[r] = flag[r]
        /\ status[r] \notin Ended => flag'[r] /\ status'[r] # "completed" 
    BY <1>4, EndFacts DEF ScanMark
  <2>2. status[r] # "new"
    BY <1>4 DEF ScanMark
  <2>3. UNCHANGED <<handler, worker, tracked, job>>
    BY <1>4 DEF ScanMark
  <2>0. scan.doomed \subseteq Requests
    BY DEF TypeOK
  <2>4. scan'.marking = Nobody /\ Nobody \notin Requests /\ scan'.doomed = scan.doomed \cup {r}
    BY <1>4, RequestAssumption DEF ScanMark, RequestAssumption
  <2> HIDE DEF TypeOK
  <2> QED
    BY <2>0, <2>1, <2>2, <2>3, <2>4
<1>5. ASSUME ScanEnd PROVE ScanFits'
  BY <1>5 DEF ScanEnd
<1>6. ASSUME NEW r \in Requests, Start(r) PROVE ScanFits'
  BY <1>6 DEF Start, StatusWhenStarted, At
<1>7. ASSUME NEW r \in Requests, Spawn(r) PROVE ScanFits'
  BY <1>7 DEF Spawn
<1>8. ASSUME NEW r \in Requests, WorkerReturns(r) PROVE ScanFits'
  BY <1>8 DEF WorkerReturns
<1>9. ASSUME NEW r \in Requests, Answered(r) PROVE ScanFits'
  BY <1>9 DEF Answered, At
<1>10. ASSUME NEW r \in Requests, Complete(r) PROVE ScanFits'
  BY <1>10 DEF Complete, At
<1>11. ASSUME NEW r \in Requests, ObserveStop(r) PROVE ScanFits'
  BY <1>11 DEF ObserveStop, At, MarkFailed, MayFail, FlagOfFailure
<1>12. ASSUME NEW r \in Requests, HardTimeout(r) PROVE ScanFits'
  <2>1. /\ \A q \in Requests : q # r => status'[q] = status[q] /\ flag'[q] = flag[q]
        /\ status'[r] \in Ended
        /\ status[r] \in Ended => status'[r] = status[r] /\ flag'[r] = flag[r]
        /\ status[r] \notin Ended => flag'[r] /\ status'[r] # "completed" 
    BY <1>12, EndFacts DEF HardTimeout, At
  <2>2. QED
    BY <2>1, <1>12 DEF HardTimeout, At
<1>13. ASSUME NEW r \in Requests, Fail(r) PROVE ScanFits'
  <2>1. /\ \A q \in Requests : q # r => status'[q] = status[q] /\ flag'[q] = flag[q]
        /\ status'[r] \in Ended
        /\ status[r] \in Ended => status'[r] = status[r] /\ flag'[r] = flag[r]
        /\ status[r] \notin Ended => flag'[r] /\ status'[r] # "completed" 
    BY <1>13, EndFacts DEF Fail, At
  <2>2. QED
    BY <2>1, <1>13 DEF Fail, At
<1>14. ASSUME NEW r \in Requests, CoroutineCancelled(r) PROVE ScanFits'
  <2>1. /\ \A q \in Requests : q # r => status'[q] = status[q] /\ flag'[q] = flag[q]
        /\ status'[r] \in Ended
        /\ status[r] \in Ended => status'[r] = status[r] /\ flag'[r] = flag[r]
        /\ status[r] \notin Ended => flag'[r] /\ status'[r] # "completed" 
    BY <1>14, EndFacts DEF CoroutineCancelled, At
  <2>2. QED
    BY <2>1, <1>14 DEF CoroutineCancelled, At
<1>15. ASSUME NEW r \in Requests, ClientGone(r) PROVE ScanFits'
  <2>1. /\ \A q \in Requests : q # r => status'[q] = status[q] /\ flag'[q] = flag[q]
        /\ status'[r] \in Ended
        /\ status[r] \in Ended => status'[r] = status[r] /\ flag'[r] = flag[r]
        /\ status[r] \notin Ended => flag'[r] /\ status'[r] # "completed" 
    BY <1>15, EndFacts DEF ClientGone
  <2>2. status[r] # "new"
    BY <1>15 DEF ClientGone
  <2>3. UNCHANGED <<handler, worker, tracked, scan, job>>
    BY <1>15 DEF ClientGone
  <2>0. scan.doomed \subseteq Requests
    BY DEF TypeOK
  <2> HIDE DEF TypeOK
  <2> QED
    BY <2>0, <2>1, <2>2, <2>3
<1>16. ASSUME NEW r \in Requests, CleanUp(r) PROVE ScanFits'
  BY <1>16 DEF CleanUp, At, RequestCancel
<1>17. ASSUME NEW r \in Requests, CancelledAgain(r) PROVE ScanFits'
  BY <1>17 DEF CancelledAgain, At, RequestCancel
<1>18. ASSUME NEW r \in Requests, Finish(r) PROVE ScanFits'
  BY <1>18 DEF Finish, StatusWhenFinished, At, Writes
<1>19. ASSUME NEW r \in Requests, Report(r) PROVE ScanFits'
  BY <1>19 DEF Report, At
<1>20. ASSUME NEW r \in Requests, CancelBegin(r) PROVE ScanFits'
  BY <1>20 DEF CancelBegin, Writes
<1>21. ASSUME NEW r \in Requests, CancelDo(r) PROVE ScanFits'
  <2>1. /\ \A q \in Requests : q # r => status'[q] = status[q] /\ flag'[q] = flag[q]
        /\ status'[r] \in Ended
        /\ status[r] \in Ended => status'[r] = status[r] /\ flag'[r] = flag[r]
        /\ status[r] \notin Ended => flag'[r] /\ status'[r] # "completed" 
    BY <1>21, EndFacts DEF CancelDo
  <2>2. status[r] # "new"
    BY <1>21 DEF CancelDo, Writers
  <2>3. UNCHANGED <<handler, worker, tracked, scan>>
    BY <1>21 DEF CancelDo
  <2>0. scan.doomed \subseteq Requests
    BY DEF TypeOK
  <2> HIDE DEF TypeOK
  <2> QED
    BY <2>0, <2>1, <2>2, <2>3
<1>22. ASSUME NEW r \in Requests, LateResponse(r) PROVE ScanFits'
  BY <1>22 DEF LateResponse, WritesLate, Writes
<1>23. ASSUME NEW r \in Requests, NEW w \in Writers, Claim(r, w) PROVE ScanFits'
  BY <1>23 DEF Claim, Writes
<1>24. ASSUME NEW r \in Requests, NEW w \in Writers, Build(r, w) PROVE ScanFits'
  BY <1>24 DEF Build, Writes
<1>25a. ASSUME NEW r \in Requests, NEW w \in Writers, Compact(r, w) PROVE ScanFits'
  BY <1>25a DEF Compact, Writes
<1>25. ASSUME NEW r \in Requests, NEW w \in Writers, Store(r, w) PROVE ScanFits'
  BY <1>25 DEF Store, Writes
<1>26. ASSUME NEW r \in Requests, NEW w \in Writers, Wrote(r, w) PROVE ScanFits'
  BY <1>26 DEF Wrote, Writes
<1>27. ASSUME UNCHANGED vars PROVE ScanFits'
  BY <1>27 DEF vars
<1> HIDE DEF TypeOK, PlaceFits, FlagFits, ScanFits, JobsFit, Working, Leaving, Places, NoScan
<1>28. QED
  BY <1>1, <1>2, <1>3, <1>4, <1>5, <1>6, <1>7, <1>8, <1>9, <1>10, <1>11, <1>12, <1>13, <1>14, <1>15, <1>16, <1>17, <1>18, <1>19, <1>20, <1>21, <1>22, <1>23, <1>24, <1>25a, <1>25, <1>26, <1>27 DEF Next, Manage, Serve, Disturb, Record

(* History is written of what has ended only. *)
LEMMA NextJobsFit == ASSUME IInv, [Next]_vars PROVE JobsFit'
<1> USE DEF IInv, context, responses, monitor, serving, history, Statuses, Live, Ended, TypeOK, PlaceFits, FlagFits, ScanFits, JobsFit, Working, Leaving, Places
<1>1. ASSUME NEW r \in Requests, Create(r) PROVE JobsFit'
  BY <1>1 DEF Create, StartScan, At
<1>2. ASSUME Sweep PROVE JobsFit'
  BY <1>2 DEF Sweep, StartScan
<1>3. ASSUME NEW r \in Requests, ScanLook(r) PROVE JobsFit'
  BY <1>3 DEF ScanLook, MayDrop
<1>4. ASSUME NEW r \in Requests, ScanMark(r) PROVE JobsFit'
  BY <1>4 DEF ScanMark, MarkFailed, MayFail, FlagOfFailure
<1>5. ASSUME ScanEnd PROVE JobsFit'
  BY <1>5 DEF ScanEnd
<1>6. ASSUME NEW r \in Requests, Start(r) PROVE JobsFit'
  BY <1>6 DEF Start, StatusWhenStarted, At
<1>7. ASSUME NEW r \in Requests, Spawn(r) PROVE JobsFit'
  BY <1>7 DEF Spawn
<1>8. ASSUME NEW r \in Requests, WorkerReturns(r) PROVE JobsFit'
  BY <1>8 DEF WorkerReturns
<1>9. ASSUME NEW r \in Requests, Answered(r) PROVE JobsFit'
  BY <1>9 DEF Answered, At
<1>10. ASSUME NEW r \in Requests, Complete(r) PROVE JobsFit'
  BY <1>10 DEF Complete, At
<1>11. ASSUME NEW r \in Requests, ObserveStop(r) PROVE JobsFit'
  BY <1>11 DEF ObserveStop, At, MarkFailed, MayFail, FlagOfFailure
<1>12. ASSUME NEW r \in Requests, HardTimeout(r) PROVE JobsFit'
  BY <1>12 DEF HardTimeout, At, RequestCancel
<1>13. ASSUME NEW r \in Requests, Fail(r) PROVE JobsFit'
  BY <1>13 DEF Fail, At, MarkFailed, MayFail, FlagOfFailure
<1>14. ASSUME NEW r \in Requests, CoroutineCancelled(r) PROVE JobsFit'
  BY <1>14 DEF CoroutineCancelled, At, RequestCancel
<1>15. ASSUME NEW r \in Requests, ClientGone(r) PROVE JobsFit'
  <2>1. /\ \A q \in Requests : q # r => status'[q] = status[q] /\ flag'[q] = flag[q]
        /\ status'[r] \in Ended
        /\ status[r] \in Ended => status'[r] = status[r] /\ flag'[r] = flag[r]
        /\ status[r] \notin Ended => flag'[r] /\ status'[r] # "completed" 
    BY <1>15, EndFacts DEF ClientGone
  <2>2. status[r] # "new"
    BY <1>15 DEF ClientGone
  <2>3. UNCHANGED <<handler, worker, tracked, scan, job>>
    BY <1>15 DEF ClientGone
  <2>0. scan.doomed \subseteq Requests
    BY DEF TypeOK
  <2> HIDE DEF TypeOK
  <2> QED
    BY <2>0, <2>1, <2>2, <2>3
<1>16. ASSUME NEW r \in Requests, CleanUp(r) PROVE JobsFit'
  BY <1>16 DEF CleanUp, At, RequestCancel
<1>17. ASSUME NEW r \in Requests, CancelledAgain(r) PROVE JobsFit'
  BY <1>17 DEF CancelledAgain, At, RequestCancel
<1>18. ASSUME NEW r \in Requests, Finish(r) PROVE JobsFit'
  BY <1>18 DEF Finish, StatusWhenFinished, At, Writes
<1>19. ASSUME NEW r \in Requests, Report(r) PROVE JobsFit'
  BY <1>19 DEF Report, At
<1>20. ASSUME NEW r \in Requests, CancelBegin(r) PROVE JobsFit'
  BY <1>20 DEF CancelBegin, Writes
<1>21. ASSUME NEW r \in Requests, CancelDo(r) PROVE JobsFit'
  BY <1>21 DEF CancelDo, RequestCancel, Writes
<1>22. ASSUME NEW r \in Requests, LateResponse(r) PROVE JobsFit'
  <2>1. CASE UNCHANGED job
    BY <2>1, <1>22 DEF LateResponse
  <2>2. CASE Writes(r, "late", "waiting") /\ WritesLate(r)
    <3>a. "late" \in Writers
      BY DEF Writers
    <3>1. \A q \in Requests, w \in Writers :
            job'[q][w] = IF q = r /\ w = "late" THEN "waiting" ELSE job[q][w]
      BY <2>2, <3>a, JobFacts
    <3>2. status' = status /\ status[r] \in Ended
      BY <2>2, <1>22 DEF LateResponse, WritesLate
    <3> HIDE DEF TypeOK
    <3> QED
      BY <3>1, <3>2
  <2>3. QED
    BY <2>1, <2>2, <1>22 DEF LateResponse
<1>23. ASSUME NEW r \in Requests, NEW w \in Writers, Claim(r, w) PROVE JobsFit'
  BY <1>23 DEF Claim, Writes
<1>24. ASSUME NEW r \in Requests, NEW w \in Writers, Build(r, w) PROVE JobsFit'
  BY <1>24 DEF Build, Writes
<1>25a. ASSUME NEW r \in Requests, NEW w \in Writers, Compact(r, w) PROVE JobsFit'
  BY <1>25a DEF Compact, Writes
<1>25. ASSUME NEW r \in Requests, NEW w \in Writers, Store(r, w) PROVE JobsFit'
  BY <1>25 DEF Store, Writes
<1>26. ASSUME NEW r \in Requests, NEW w \in Writers, Wrote(r, w) PROVE JobsFit'
  BY <1>26 DEF Wrote, Writes
<1>27. ASSUME UNCHANGED vars PROVE JobsFit'
  BY <1>27 DEF vars
<1> HIDE DEF TypeOK, PlaceFits, FlagFits, ScanFits, JobsFit, Working, Leaving, Places
<1>28. QED
  BY <1>1, <1>2, <1>3, <1>4, <1>5, <1>6, <1>7, <1>8, <1>9, <1>10, <1>11, <1>12, <1>13, <1>14, <1>15, <1>16, <1>17, <1>18, <1>19, <1>20, <1>21, <1>22, <1>23, <1>24, <1>25a, <1>25, <1>26, <1>27 DEF Next, Manage, Serve, Disturb, Record

(* A free lock is taken by one writer. *)
LEMMA NextOneWriter == ASSUME IInv, [Next]_vars PROVE OneWriter'
<1> USE DEF IInv, context, responses, monitor, serving, history, Statuses, Live, Ended, TypeOK, OneWriter, Holding, AppendLockFree, JobSteps
<1>1. ASSUME NEW r \in Requests, Create(r) PROVE OneWriter'
  BY <1>1 DEF Create, StartScan, At
<1>2. ASSUME Sweep PROVE OneWriter'
  BY <1>2 DEF Sweep, StartScan
<1>3. ASSUME NEW r \in Requests, ScanLook(r) PROVE OneWriter'
  BY <1>3 DEF ScanLook, MayDrop
<1>4. ASSUME NEW r \in Requests, ScanMark(r) PROVE OneWriter'
  BY <1>4 DEF ScanMark, MarkFailed, MayFail, FlagOfFailure
<1>5. ASSUME ScanEnd PROVE OneWriter'
  BY <1>5 DEF ScanEnd
<1>6. ASSUME NEW r \in Requests, Start(r) PROVE OneWriter'
  BY <1>6 DEF Start, StatusWhenStarted, At
<1>7. ASSUME NEW r \in Requests, Spawn(r) PROVE OneWriter'
  BY <1>7 DEF Spawn
<1>8. ASSUME NEW r \in Requests, WorkerReturns(r) PROVE OneWriter'
  BY <1>8 DEF WorkerReturns
<1>9. ASSUME NEW r \in Requests, Answered(r) PROVE OneWriter'
  BY <1>9 DEF Answered, At
<1>10. ASSUME NEW r \in Requests, Complete(r) PROVE OneWriter'
  BY <1>10 DEF Complete, At
<1>11. ASSUME NEW r \in Requests, ObserveStop(r) PROVE OneWriter'
  BY <1>11 DEF ObserveStop, At, MarkFailed, MayFail, FlagOfFailure
<1>12. ASSUME NEW r \in Requests, HardTimeout(r) PROVE OneWriter'
  BY <1>12 DEF HardTimeout, At, RequestCancel
<1>13. ASSUME NEW r \in Requests, Fail(r) PROVE OneWriter'
  BY <1>13 DEF Fail, At, MarkFailed, MayFail, FlagOfFailure
<1>14. ASSUME NEW r \in Requests, CoroutineCancelled(r) PROVE OneWriter'
  BY <1>14 DEF CoroutineCancelled, At, RequestCancel
<1>15. ASSUME NEW r \in Requests, ClientGone(r) PROVE OneWriter'
  BY <1>15 DEF ClientGone, RequestCancel
<1>16. ASSUME NEW r \in Requests, CleanUp(r) PROVE OneWriter'
  BY <1>16 DEF CleanUp, At, RequestCancel
<1>17. ASSUME NEW r \in Requests, CancelledAgain(r) PROVE OneWriter'
  BY <1>17 DEF CancelledAgain, At, RequestCancel
<1>18. ASSUME NEW r \in Requests, Finish(r) PROVE OneWriter'
  BY <1>18 DEF Finish, StatusWhenFinished, At, Writes
<1>19. ASSUME NEW r \in Requests, Report(r) PROVE OneWriter'
  BY <1>19 DEF Report, At
<1>20. ASSUME NEW r \in Requests, CancelBegin(r) PROVE OneWriter'
  BY <1>20 DEF CancelBegin, Writes
<1>21. ASSUME NEW r \in Requests, CancelDo(r) PROVE OneWriter'
  BY <1>21 DEF CancelDo, RequestCancel, Writes
<1>22. ASSUME NEW r \in Requests, LateResponse(r) PROVE OneWriter'
  <2>1. CASE UNCHANGED job
    BY <2>1, <1>22 DEF LateResponse
  <2>2. CASE Writes(r, "late", "waiting") /\ WritesLate(r)
    <3>a. "late" \in Writers
      BY DEF Writers
    <3>1. \A q \in Requests, w \in Writers :
            job'[q][w] = IF q = r /\ w = "late" THEN "waiting" ELSE job[q][w]
      <4> HIDE DEF TypeOK, OneWriter, Holding, AppendLockFree, JobSteps
      <4>1. QED
        BY <2>2, <3>a, JobFacts
    <3>2. status' = status /\ status[r] \in Ended
      BY <2>2, <1>22 DEF LateResponse, WritesLate
    <3> HIDE DEF TypeOK
    <3> QED
      BY <3>1, <3>2
  <2>3. QED
    BY <2>1, <2>2, <1>22 DEF LateResponse
<1>23. ASSUME NEW r \in Requests, NEW w \in Writers, Claim(r, w) PROVE OneWriter'
  BY <1>23 DEF Claim, Writes
<1>24. ASSUME NEW r \in Requests, NEW w \in Writers, Build(r, w) PROVE OneWriter'
  BY <1>24 DEF Build, Writes
<1>25a. ASSUME NEW r \in Requests, NEW w \in Writers, Compact(r, w) PROVE OneWriter'
  BY <1>25a DEF Compact, Writes
<1>25. ASSUME NEW r \in Requests, NEW w \in Writers, Store(r, w) PROVE OneWriter'
  BY <1>25 DEF Store, Writes
<1>26. ASSUME NEW r \in Requests, NEW w \in Writers, Wrote(r, w) PROVE OneWriter'
  BY <1>26 DEF Wrote, Writes
<1>27. ASSUME UNCHANGED vars PROVE OneWriter'
  BY <1>27 DEF vars
<1> HIDE DEF TypeOK, OneWriter, Holding, AppendLockFree, JobSteps
<1>28. QED
  BY <1>1, <1>2, <1>3, <1>4, <1>5, <1>6, <1>7, <1>8, <1>9, <1>10, <1>11, <1>12, <1>13, <1>14, <1>15, <1>16, <1>17, <1>18, <1>19, <1>20, <1>21, <1>22, <1>23, <1>24, <1>25a, <1>25, <1>26, <1>27 DEF Next, Manage, Serve, Disturb, Record

(* The clean-up's record of what it still has to look at stays one. *)
LEMMA LookTypes ==
  ASSUME TypeOK, NEW r \in Requests, ScanLook(r)
  PROVE  scan' \in [by : Requests \cup {Sweeper, Nobody}, todo : SUBSET Requests,
                    marking : Requests \cup {Nobody}, doomed : SUBSET Requests]
<1>1. /\ scan = [by |-> scan.by, todo |-> scan.todo, marking |-> scan.marking, doomed |-> scan.doomed]
      /\ scan.by \in Requests \cup {Sweeper, Nobody} /\ scan.todo \in SUBSET Requests
      /\ scan.marking \in Requests \cup {Nobody} /\ scan.doomed \in SUBSET Requests
  BY DEF TypeOK
<1>2. \/ scan' = [scan EXCEPT !.todo = @ \ {r}, !.doomed = @ \cup {r}]
      \/ scan' = [scan EXCEPT !.todo = @ \ {r}, !.marking = r]
      \/ scan' = [scan EXCEPT !.todo = @ \ {r}]
  BY DEF ScanLook
<1>3. \/ scan' = [by |-> scan.by, todo |-> scan.todo \ {r}, marking |-> scan.marking, doomed |-> scan.doomed \cup {r}]
      \/ scan' = [by |-> scan.by, todo |-> scan.todo \ {r}, marking |-> r, doomed |-> scan.doomed]
      \/ scan' = [by |-> scan.by, todo |-> scan.todo \ {r}, marking |-> scan.marking, doomed |-> scan.doomed]
  BY <1>1, <1>2
<1>4. QED
  BY <1>1, <1>3

(* A draft whose status is settled is a draft. *)
LEMMA DraftStatus ==
  ASSUME NEW d \in Draft, NEW s \in Ended
  PROVE  [d EXCEPT !.status = s] \in Draft
  BY DEF Draft

(* What a request adds to the totals is a number. *)
LEMMA CountTypes ==
  ASSUME TypeOK, NEW r \in Requests
  PROVE  NewCount(r) \in Int
<1>1. counted[r] \in Int /\ draft[r].tokens \in Int
  BY RequestAssumption DEF TypeOK, Draft, RequestAssumption
<1>2. CASE rows[r] # <<>>
  <2>1. Len(rows[r]) \in 1..Len(rows[r]) /\ rows[r] \in Seq(Row)
    BY <1>2 DEF TypeOK
  <2>2. rows[r][Len(rows[r])] \in Row
    BY <2>1
  <2>3. rows[r][Len(rows[r])].tokens \in Int
    BY <2>2, RequestAssumption DEF Row, RequestAssumption
  <2>4. QED
    BY <1>1, <2>3 DEF NewCount
<1>3. CASE rows[r] = <<>>
  BY <1>1, <1>3 DEF NewCount
<1>4. QED
  BY <1>2, <1>3

(* Storing a row, and dropping one that is too much, leaves rows. *)
LEMMA StoreTypes ==
  ASSUME TypeOK, NEW r \in Requests, NEW w \in Writers, Store(r, w)
  PROVE  rows' \in [Requests -> Seq(Row)]
<1> DEFINE all == [rows EXCEPT ![r] = NewRows(r)]
<1>1. all \in [Requests -> Seq(Row)]
  BY RowTypes DEF TypeOK
<1>2. \/ rows' = all
      \/ \E old \in Requests : all[old] # <<>> /\ rows' = [all EXCEPT ![old] = Tail(@)]
  BY DEF Store
<1> HIDE DEF all
<1>3. ASSUME NEW old \in Requests, all[old] # <<>>, rows' = [all EXCEPT ![old] = Tail(@)]
      PROVE  rows' \in [Requests -> Seq(Row)]
  <2>1. Tail(all[old]) \in Seq(Row)
    BY <1>1, <1>3
  <2>2. QED
    BY <1>1, <1>3, <2>1
<1>4. QED
  BY <1>1, <1>2, <1>3

(* Every step keeps the types. *)
LEMMA NextTypes == ASSUME IInv, [Next]_vars PROVE TypeOK'
<1> USE DEF IInv, context, responses, monitor, serving, history, Statuses, Live, Ended, TypeOK, Places, Writers, JobSteps, Draft, NoDraft, Row, NoScan
<1>1. ASSUME NEW r \in Requests, Create(r) PROVE TypeOK'
  BY <1>1 DEF Create, StartScan, At
<1>2. ASSUME Sweep PROVE TypeOK'
  BY <1>2 DEF Sweep, StartScan
<1>3. ASSUME NEW r \in Requests, ScanLook(r) PROVE TypeOK'
  <2>1. scan' \in [by : Requests \cup {Sweeper, Nobody}, todo : SUBSET Requests,
                   marking : Requests \cup {Nobody}, doomed : SUBSET Requests]
    BY <1>3, LookTypes
  <2>2. QED
    BY <2>1, <1>3 DEF ScanLook
<1>4. ASSUME NEW r \in Requests, ScanMark(r) PROVE TypeOK'
  <2>1. status' \in [Requests -> Statuses] /\ flag' \in [Requests -> BOOLEAN]
    BY <1>4, CancelTypes DEF ScanMark
  <2>2. QED
    BY <2>1, <1>4 DEF ScanMark
<1>5. ASSUME ScanEnd PROVE TypeOK'
  BY <1>5 DEF ScanEnd
<1>6. ASSUME NEW r \in Requests, Start(r) PROVE TypeOK'
  BY <1>6 DEF Start, StatusWhenStarted, At
<1>7. ASSUME NEW r \in Requests, Spawn(r) PROVE TypeOK'
  BY <1>7 DEF Spawn
<1>8. ASSUME NEW r \in Requests, WorkerReturns(r) PROVE TypeOK'
  BY <1>8 DEF WorkerReturns
<1>9. ASSUME NEW r \in Requests, Answered(r) PROVE TypeOK'
  BY <1>9 DEF Answered, At
<1>10. ASSUME NEW r \in Requests, Complete(r) PROVE TypeOK'
  <2>1. status' \in [Requests -> Statuses]
    BY <1>10 DEF Complete
  <2>2. /\ tokens' \in [Requests -> 0..MaxTokens]
        /\ latest' \in [Requests -> 0..MaxTokens]
        /\ overtaken' \in [Requests -> BOOLEAN]
    BY <1>10, CaptureTypes DEF Complete
  <2>m. media' \in [Requests -> BOOLEAN]
    BY <1>10 DEF Complete
  <2>3. handler' \in [Requests -> Places]
    BY <1>10 DEF Complete, At
  <2>4. QED
    BY <2>1, <2>2, <2>m, <2>3, <1>10 DEF Complete
<1>11. ASSUME NEW r \in Requests, ObserveStop(r) PROVE TypeOK'
  <2>1. status' \in [Requests -> Statuses] /\ flag' \in [Requests -> BOOLEAN]
    BY <1>11, CancelTypes DEF ObserveStop, At
  <2>2. QED
    BY <2>1, <1>11 DEF ObserveStop, At
<1>12. ASSUME NEW r \in Requests, HardTimeout(r) PROVE TypeOK'
  <2>1. status' \in [Requests -> Statuses] /\ flag' \in [Requests -> BOOLEAN]
    BY <1>12, CancelTypes DEF HardTimeout, At
  <2>2. QED
    BY <2>1, <1>12 DEF HardTimeout, At
<1>13. ASSUME NEW r \in Requests, Fail(r) PROVE TypeOK'
  <2>1. status' \in [Requests -> Statuses] /\ flag' \in [Requests -> BOOLEAN]
    BY <1>13, CancelTypes DEF Fail, At
  <2>2. QED
    BY <2>1, <1>13 DEF Fail, At
<1>14. ASSUME NEW r \in Requests, CoroutineCancelled(r) PROVE TypeOK'
  <2>1. status' \in [Requests -> Statuses] /\ flag' \in [Requests -> BOOLEAN]
    BY <1>14, CancelTypes DEF CoroutineCancelled, At
  <2>2. QED
    BY <2>1, <1>14 DEF CoroutineCancelled, At
<1>15. ASSUME NEW r \in Requests, ClientGone(r) PROVE TypeOK'
  <2>1. status' \in [Requests -> Statuses] /\ flag' \in [Requests -> BOOLEAN]
    BY <1>15, CancelTypes DEF ClientGone
  <2>2. QED
    BY <2>1, <1>15 DEF ClientGone
<1>16. ASSUME NEW r \in Requests, CleanUp(r) PROVE TypeOK'
  <2>1. status' \in [Requests -> Statuses] /\ flag' \in [Requests -> BOOLEAN]
    BY <1>16, CancelTypes DEF CleanUp, At
  <2>2. QED
    BY <2>1, <1>16 DEF CleanUp, At
<1>17. ASSUME NEW r \in Requests, CancelledAgain(r) PROVE TypeOK'
  <2>1. status' \in [Requests -> Statuses] /\ flag' \in [Requests -> BOOLEAN]
    BY <1>17, CancelTypes DEF CancelledAgain, At
  <2>2. QED
    BY <2>1, <1>17 DEF CancelledAgain, At
<1>18. ASSUME NEW r \in Requests, Finish(r) PROVE TypeOK'
  BY <1>18 DEF Finish, StatusWhenFinished, At, Writes
<1>19. ASSUME NEW r \in Requests, Report(r) PROVE TypeOK'
  BY <1>19 DEF Report, At
<1>20. ASSUME NEW r \in Requests, CancelBegin(r) PROVE TypeOK'
  <2>a. "cancel" \in Writers
    BY DEF Writers
  <2>0. "deciding" \in JobSteps
    BY DEF JobSteps
  <2> HIDE DEF Writers, JobSteps, Draft, NoDraft, Row
  <2>1. job' \in [Requests -> [Writers -> JobSteps]]
    BY <2>0, <1>20, JobTypes, <2>a DEF CancelBegin
  <2>3. QED
    BY <2>1, <1>20 DEF CancelBegin
<1>21. ASSUME NEW r \in Requests, CancelDo(r) PROVE TypeOK'
  BY <1>21 DEF CancelDo, RequestCancel, Writes
<1>22. ASSUME NEW r \in Requests, LateResponse(r) PROVE TypeOK'
  <2>1. /\ tokens' \in [Requests -> 0..MaxTokens]
        /\ latest' \in [Requests -> 0..MaxTokens]
        /\ overtaken' \in [Requests -> BOOLEAN]
    <3>1. \A n \in 1..MaxTokens : n \in 0..MaxTokens
      BY RequestAssumption DEF RequestAssumption
    <3>2. CASE \E n \in 1..MaxTokens : Capture(r, n)
      BY <3>1, <3>2, CaptureTypes
    <3>3. CASE UNCHANGED <<tokens, latest, overtaken>>
      BY <3>3
    <3>4. QED
      BY <3>2, <3>3, <1>22 DEF LateResponse
  <2>2. "late" \in Writers /\ "waiting" \in JobSteps
    BY DEF Writers, JobSteps
  <2>3. job' \in [Requests -> [Writers -> JobSteps]]
    <3> HIDE DEF Writers, JobSteps, Draft, NoDraft, Row
    <3>1. CASE UNCHANGED job
      BY <3>1
    <3>2. CASE Writes(r, "late", "waiting")
      BY <3>2, <2>2, JobTypes
    <3>3. QED
      BY <3>1, <3>2, <1>22 DEF LateResponse
  <2>4. QED
    BY <2>1, <2>3, <1>22 DEF LateResponse
<1>23. ASSUME NEW r \in Requests, NEW w \in Writers, Claim(r, w) PROVE TypeOK'
  <2>0. "claimed" \in JobSteps
    BY DEF JobSteps
  <2> HIDE DEF Writers, JobSteps, Draft, NoDraft, Row
  <2>1. job' \in [Requests -> [Writers -> JobSteps]]
    BY <2>0, <1>23, JobTypes DEF Claim
  <2>2. draft' \in [Requests -> Draft] /\ recorded' \in [Requests -> BOOLEAN]
    BY <1>23 DEF Claim, Draft, NoDraft
  <2>3. QED
    BY <2>1, <2>2, <1>23 DEF Claim
<1>24. ASSUME NEW r \in Requests, NEW w \in Writers, Build(r, w) PROVE TypeOK'
  <2>0. "built" \in JobSteps
    BY DEF JobSteps
  <2> HIDE DEF Writers, JobSteps, Draft, NoDraft, Row
  <2>1. job' \in [Requests -> [Writers -> JobSteps]]
    BY <2>0, <1>24, JobTypes DEF Build
  <2>2. draft' \in [Requests -> Draft]
    <3>1. status[r] \in Ended
      BY <1>24 DEF Build, JobsFit
    <3>2. DEFINE s == Outcome(status[r], draft[r].tokens, draft[r].media)
    <3>3. s \in Ended
      BY <3>1 DEF Outcome
    <3> HIDE DEF s
    <3>4. [draft[r] EXCEPT !.status = s] \in Draft
      <4>1. draft[r] \in Draft
        OBVIOUS
      <4>2. QED
        BY <3>3, <4>1, DraftStatus
    <3>5. draft' = [draft EXCEPT ![r] = [draft[r] EXCEPT !.status = s]]
      BY <1>24 DEF Build, s
    <3>6. QED
      BY <3>4, <3>5
  <2>3. QED
    BY <2>1, <2>2, <1>24 DEF Build
<1>25a. ASSUME NEW r \in Requests, NEW w \in Writers, Compact(r, w) PROVE TypeOK'
  <2>0. "compacted" \in JobSteps
    BY DEF JobSteps
  <2>1. draft[r].tokens \in 0..MaxTokens
    BY DEF Draft
  <2> HIDE DEF Writers, JobSteps, Draft, NoDraft, Row
  <2>2. job' \in [Requests -> [Writers -> JobSteps]]
    BY <2>0, <1>25a, JobTypes DEF Compact
  <2>3. tokens' \in [Requests -> 0..MaxTokens] /\ media' \in [Requests -> BOOLEAN]
    BY <2>1, <1>25a DEF Compact
  <2>4. QED
    BY <2>2, <2>3, <1>25a DEF Compact
<1>25. ASSUME NEW r \in Requests, NEW w \in Writers, Store(r, w) PROVE TypeOK'
  <2>1. "stored" \in JobSteps
    BY DEF JobSteps
  <2> HIDE DEF Writers, JobSteps, Draft, NoDraft, Row
  <2>2. job' \in [Requests -> [Writers -> JobSteps]]
    BY <2>1, <1>25, JobTypes DEF Store
  <2>3. rows' \in [Requests -> Seq(Row)]
    BY <1>25, StoreTypes
  <2>4. counted' \in [Requests -> Int]
    BY <1>25, CountTypes DEF Store
  <2>5. QED
    BY <2>2, <2>3, <2>4, <1>25 DEF Store
<1>26. ASSUME NEW r \in Requests, NEW w \in Writers, Wrote(r, w) PROVE TypeOK'
  <2>0. "none" \in JobSteps
    BY DEF JobSteps
  <2> HIDE DEF Writers, JobSteps, Draft, NoDraft, Row
  <2>1. job' \in [Requests -> [Writers -> JobSteps]]
    BY <2>0, <1>26, JobTypes DEF Wrote
  <2>2. draft' \in [Requests -> Draft]
    BY <1>26, RequestAssumption DEF Wrote, Draft, NoDraft, RequestAssumption
  <2>3. QED
    BY <2>1, <2>2, <1>26 DEF Wrote
<1>27. ASSUME UNCHANGED vars PROVE TypeOK'
  BY <1>27 DEF vars
<1> HIDE DEF TypeOK, Places, Writers, JobSteps, Draft, NoDraft, Row, NoScan
<1>28. QED
  BY <1>1, <1>2, <1>3, <1>4, <1>5, <1>6, <1>7, <1>8, <1>9, <1>10, <1>11, <1>12, <1>13, <1>14, <1>15, <1>16, <1>17, <1>18, <1>19, <1>20, <1>21, <1>22, <1>23, <1>24, <1>25a, <1>25, <1>26, <1>27 DEF Next, Manage, Serve, Disturb, Record

(* The rows a writer leaves: one of its own, none of another's are added. *)
LEMMA StoreRows ==
  ASSUME IInv, NEW r \in Requests, NEW w \in Writers, Store(r, w)
  PROVE  /\ Len(rows'[r]) <= 1
         /\ \A q \in Requests : q # r => rows'[q] = rows[q] \/ rows'[q] = <<>>
<1> DEFINE row == [status |-> draft[r].status, tokens |-> draft[r].tokens]
<1> DEFINE all == [rows EXCEPT ![r] = NewRows(r)]
<1>1. /\ rows \in [Requests -> Seq(Row)]
      /\ \A q \in Requests : Len(rows[q]) <= 1
      /\ draft[r].again \in BOOLEAN
      /\ ~draft[r].again => rows[r] = <<>>
  BY DEF IInv, TypeOK, WriterKnows, Store, Draft
<1>2. Len(NewRows(r)) <= 1 /\ NewRows(r) \in Seq(Row)
  <2>1. NewRows(r) \in Seq(Row)
    BY RowTypes DEF IInv
  <2>2. CASE rows[r] # <<>>
    <3>1. NewRows(r) = [rows[r] EXCEPT ![Len(rows[r])] = row]
      BY <1>1, <2>2 DEF NewRows
    <3> HIDE DEF row
    <3>2. Len(NewRows(r)) = Len(rows[r])
      BY <1>1, <3>1
    <3>3. QED
      BY <1>1, <2>1, <3>2
  <2>3. CASE rows[r] = <<>>
    <3>1. NewRows(r) = Append(<<>>, row)
      BY <2>3 DEF NewRows
    <3> HIDE DEF row
    <3>2. QED
      BY <2>1, <3>1
  <2>4. QED
    BY <2>2, <2>3
<1>3. all \in [Requests -> Seq(Row)] /\ \A q \in Requests : Len(all[q]) <= 1
  BY <1>1, <1>2
<1>4. \A q \in Requests : q # r => all[q] = rows[q]
  BY <1>1
<1>5. \/ rows' = all
      \/ \E old \in Requests : all[old] # <<>> /\ rows' = [all EXCEPT ![old] = Tail(@)]
  BY DEF Store
<1> HIDE DEF all
<1>6. CASE rows' = all
  BY <1>3, <1>4, <1>6
<1>7. ASSUME NEW old \in Requests, all[old] # <<>>, rows' = [all EXCEPT ![old] = Tail(@)]
      PROVE  /\ Len(rows'[r]) <= 1
             /\ \A q \in Requests : q # r => rows'[q] = rows[q] \/ rows'[q] = <<>>
  <2>1. all[old] \in Seq(Row) /\ Len(all[old]) <= 1
    BY <1>3
  <2>2. Tail(all[old]) = <<>>
    BY <1>7, <2>1
  <2>3. \A q \in Requests : rows'[q] = IF q = old THEN <<>> ELSE all[q]
    BY <1>3, <1>7, <2>2
  <2>4. QED
    BY <1>3, <1>4, <2>3
<1>8. QED
  BY <1>5, <1>6, <1>7

(* A writer knows whether its row is there. *)
LEMMA NextWriterKnows == ASSUME IInv, [Next]_vars PROVE WriterKnows'
<1> USE DEF IInv, context, responses, monitor, serving, history, Statuses, Live, Ended, TypeOK, WriterKnows, OneWriter, Holding, AppendLockFree, JobSteps
<1>1. ASSUME NEW r \in Requests, Create(r) PROVE WriterKnows'
  BY <1>1 DEF Create, StartScan, At
<1>2. ASSUME Sweep PROVE WriterKnows'
  BY <1>2 DEF Sweep, StartScan
<1>3. ASSUME NEW r \in Requests, ScanLook(r) PROVE WriterKnows'
  BY <1>3 DEF ScanLook, MayDrop
<1>4. ASSUME NEW r \in Requests, ScanMark(r) PROVE WriterKnows'
  BY <1>4 DEF ScanMark, MarkFailed, MayFail, FlagOfFailure
<1>5. ASSUME ScanEnd PROVE WriterKnows'
  BY <1>5 DEF ScanEnd
<1>6. ASSUME NEW r \in Requests, Start(r) PROVE WriterKnows'
  BY <1>6 DEF Start, StatusWhenStarted, At
<1>7. ASSUME NEW r \in Requests, Spawn(r) PROVE WriterKnows'
  BY <1>7 DEF Spawn
<1>8. ASSUME NEW r \in Requests, WorkerReturns(r) PROVE WriterKnows'
  BY <1>8 DEF WorkerReturns
<1>9. ASSUME NEW r \in Requests, Answered(r) PROVE WriterKnows'
  BY <1>9 DEF Answered, At
<1>10. ASSUME NEW r \in Requests, Complete(r) PROVE WriterKnows'
  BY <1>10 DEF Complete, At
<1>11. ASSUME NEW r \in Requests, ObserveStop(r) PROVE WriterKnows'
  BY <1>11 DEF ObserveStop, At, MarkFailed, MayFail, FlagOfFailure
<1>12. ASSUME NEW r \in Requests, HardTimeout(r) PROVE WriterKnows'
  BY <1>12 DEF HardTimeout, At, RequestCancel
<1>13. ASSUME NEW r \in Requests, Fail(r) PROVE WriterKnows'
  BY <1>13 DEF Fail, At, MarkFailed, MayFail, FlagOfFailure
<1>14. ASSUME NEW r \in Requests, CoroutineCancelled(r) PROVE WriterKnows'
  BY <1>14 DEF CoroutineCancelled, At, RequestCancel
<1>15. ASSUME NEW r \in Requests, ClientGone(r) PROVE WriterKnows'
  BY <1>15 DEF ClientGone, RequestCancel
<1>16. ASSUME NEW r \in Requests, CleanUp(r) PROVE WriterKnows'
  BY <1>16 DEF CleanUp, At, RequestCancel
<1>17. ASSUME NEW r \in Requests, CancelledAgain(r) PROVE WriterKnows'
  BY <1>17 DEF CancelledAgain, At, RequestCancel
<1>18. ASSUME NEW r \in Requests, Finish(r) PROVE WriterKnows'
  BY <1>18 DEF Finish, StatusWhenFinished, At, Writes
<1>19. ASSUME NEW r \in Requests, Report(r) PROVE WriterKnows'
  BY <1>19 DEF Report, At
<1>20. ASSUME NEW r \in Requests, CancelBegin(r) PROVE WriterKnows'
  BY <1>20 DEF CancelBegin, Writes
<1>21. ASSUME NEW r \in Requests, CancelDo(r) PROVE WriterKnows'
  BY <1>21 DEF CancelDo, RequestCancel, Writes
<1>22. ASSUME NEW r \in Requests, LateResponse(r) PROVE WriterKnows'
  <2>1. \A q \in Requests, w \in Writers : job'[q][w] \in Holding => job[q][w] = job'[q][w]
    <3>a. "late" \in Writers /\ "waiting" \notin Holding
      BY DEF Writers
    <3>1. CASE UNCHANGED job
      BY <3>1
    <3>2. CASE Writes(r, "late", "waiting")
      BY <3>2, <3>a, JobFacts
    <3>3. QED
      BY <3>1, <3>2, <1>22 DEF LateResponse
  <2>2. UNCHANGED <<rows, draft, recorded>>
    BY <1>22 DEF LateResponse
  <2> HIDE DEF TypeOK
  <2>3. QED
    BY <2>1, <2>2
<1>23. ASSUME NEW r \in Requests, NEW w \in Writers, Claim(r, w) PROVE WriterKnows'
  BY <1>23 DEF Claim, Writes
<1>24. ASSUME NEW r \in Requests, NEW w \in Writers, Build(r, w) PROVE WriterKnows'
  BY <1>24 DEF Build, Writes
<1>25a. ASSUME NEW r \in Requests, NEW w \in Writers, Compact(r, w) PROVE WriterKnows'
  BY <1>25a DEF Compact, Writes
<1>25. ASSUME NEW r \in Requests, NEW w \in Writers, Store(r, w) PROVE WriterKnows'
  <2>1. \A q \in Requests, v \in Writers : job'[q][v] = IF q = r /\ v = w THEN "stored" ELSE job[q][v]
    BY <1>25, JobFacts DEF Store
  <2>2. UNCHANGED <<draft, recorded>> /\ job[r][w] = "compacted"
    BY <1>25 DEF Store
  <2>3. Len(rows'[r]) <= 1 /\ \A q \in Requests : q # r => rows'[q] = rows[q] \/ rows'[q] = <<>>
    BY <1>25, StoreRows
  <2>a. recorded[r]
    BY <2>2
  <2>b. \A v \in Writers : job[r][v] \in Holding => v = w
    BY <2>2
  <2>4. recorded[r] /\ \A v \in Writers : job'[r][v] \notin {"claimed", "built", "compacted"}
    BY <2>1, <2>a, <2>b
  <2> HIDE DEF TypeOK
  <2>5. QED
    BY <2>1, <2>2, <2>3, <2>4
<1>26. ASSUME NEW r \in Requests, NEW w \in Writers, Wrote(r, w) PROVE WriterKnows'
  BY <1>26 DEF Wrote, Writes
<1>27. ASSUME UNCHANGED vars PROVE WriterKnows'
  BY <1>27 DEF vars
<1> HIDE DEF TypeOK, WriterKnows, OneWriter, Holding, AppendLockFree, JobSteps
<1>28. QED
  BY <1>1, <1>2, <1>3, <1>4, <1>5, <1>6, <1>7, <1>8, <1>9, <1>10, <1>11, <1>12, <1>13, <1>14, <1>15, <1>16, <1>17, <1>18, <1>19, <1>20, <1>21, <1>22, <1>23, <1>24, <1>25a, <1>25, <1>26, <1>27 DEF Next, Manage, Serve, Disturb, Record

-----------------------------------------------------------------------------
(***************************************************************************)
(* The inductive invariant holds in every state: the coroutine's place,    *)
(* the status and the cancel flag fit, whoever ended the request.          *)
(***************************************************************************)
THEOREM Invariant == Spec => []IInv
<1>1. Init => IInv
  BY InitInv
<1>2. IInv /\ [Next]_vars => IInv'
  BY NextTypes, NextPlaceFits, NextFlagFits, NextScanFits, NextJobsFit, NextOneWriter, NextWriterKnows DEF IInv
<1>3. QED
  BY <1>1, <1>2, PTL DEF Spec

(* Every state is well typed, and no row is of a request still running. *)
THEOREM TypeCorrect == Spec => []TypeOK
<1>1. IInv => TypeOK
  BY DEF IInv
<1>2. QED
  BY <1>1, Invariant, PTL

(* A request that may still run is never dropped from the manager: neither *)
(* by the sweep nor to make room, so cancel_request finds it.              *)
THEOREM LiveRequestsAreTracked == Spec => []LiveIsTracked
<1>1. IInv => LiveIsTracked
  BY DEF IInv, ScanFits, LiveIsTracked
<1>2. QED
  BY <1>1, Invariant, PTL

(* A worker thread that outlives its coroutine has been told to stop. *)
THEOREM LeakedWorkersAreStopped == Spec => []LeakedWorkerIsStopped
<1>1. IInv => LeakedWorkerIsStopped
  BY DEF IInv, FlagFits, Leaving, LeakedWorkerIsStopped
<1>2. QED
  BY <1>1, Invariant, PTL

(* However the four writers of a request interleave, it has one row. *)
THEOREM OneRowPerRequest == Spec => []HistoryOnce
<1>1. IInv => HistoryOnce
  BY DEF IInv, WriterKnows, HistoryOnce
<1>2. QED
  BY <1>1, Invariant, PTL

(* A step does not rewrite how a request ended, except that a request the  *)
(* sweep failed in the queue is cancelled when it starts.                  *)
LEMMA StepKeepsOutcome ==
  ASSUME IInv, [Next]_vars, NEW q \in Requests, status[q] \in Ended
  PROVE  \/ status'[q] = status[q]
         \/ status[q] = "failed" /\ status'[q] = "cancelled" /\ handler[q] = "accepted"
<1> DEFINE Kept == \/ status'[q] = status[q]
                   \/ status[q] = "failed" /\ status'[q] = "cancelled" /\ handler[q] = "accepted"
<1> USE DEF IInv, context, responses, monitor, serving, history, Statuses, Live, Ended
<1>1. ASSUME NEW r \in Requests, Create(r) PROVE Kept
  BY <1>1 DEF TypeOK, Create, StartScan, At, PlaceFits
<1>2. ASSUME Sweep PROVE Kept
  BY <1>2 DEF Sweep
<1>3. ASSUME NEW r \in Requests, ScanLook(r) PROVE Kept
  BY <1>3 DEF ScanLook
<1>4. ASSUME NEW r \in Requests, ScanMark(r) PROVE Kept
  BY <1>4, EndFacts DEF ScanMark
<1>5. ASSUME ScanEnd PROVE Kept
  BY <1>5 DEF ScanEnd
<1>6. ASSUME NEW r \in Requests, Start(r) PROVE Kept
  BY <1>6 DEF TypeOK, Start, StatusWhenStarted, At, PlaceFits, FlagFits, Working
<1>7. ASSUME NEW r \in Requests, Spawn(r) PROVE Kept
  BY <1>7 DEF Spawn
<1>8. ASSUME NEW r \in Requests, WorkerReturns(r) PROVE Kept
  BY <1>8 DEF WorkerReturns
<1>9. ASSUME NEW r \in Requests, Answered(r) PROVE Kept
  BY <1>9 DEF Answered
<1>10. ASSUME NEW r \in Requests, Complete(r) PROVE Kept
  BY <1>10 DEF TypeOK, Complete, At
<1>11. ASSUME NEW r \in Requests, ObserveStop(r) PROVE Kept
  BY <1>11, EndFacts DEF ObserveStop
<1>12. ASSUME NEW r \in Requests, HardTimeout(r) PROVE Kept
  BY <1>12, EndFacts DEF HardTimeout
<1>13. ASSUME NEW r \in Requests, Fail(r) PROVE Kept
  BY <1>13, EndFacts DEF Fail
<1>14. ASSUME NEW r \in Requests, CoroutineCancelled(r) PROVE Kept
  BY <1>14, EndFacts DEF CoroutineCancelled
<1>15. ASSUME NEW r \in Requests, ClientGone(r) PROVE Kept
  BY <1>15, EndFacts DEF ClientGone
<1>16. ASSUME NEW r \in Requests, CleanUp(r) PROVE Kept
  BY <1>16, EndFacts DEF CleanUp
<1>17. ASSUME NEW r \in Requests, CancelledAgain(r) PROVE Kept
  BY <1>17, EndFacts DEF CancelledAgain
<1>18. ASSUME NEW r \in Requests, Finish(r) PROVE Kept
  <2>1. status' = [status EXCEPT ![r] = StatusWhenFinished(r)] /\ status \in [Requests -> Statuses]
    BY <1>18 DEF TypeOK, Finish
  <2>2. status[r] \in Ended => StatusWhenFinished(r) = status[r]
    BY DEF StatusWhenFinished
  <2>3. QED
    BY <2>1, <2>2
<1>19. ASSUME NEW r \in Requests, Report(r) PROVE Kept
  BY <1>19 DEF Report
<1>20. ASSUME NEW r \in Requests, CancelBegin(r) PROVE Kept
  BY <1>20 DEF CancelBegin
<1>21. ASSUME NEW r \in Requests, CancelDo(r) PROVE Kept
  BY <1>21, EndFacts DEF CancelDo
<1>22. ASSUME NEW r \in Requests, LateResponse(r) PROVE Kept
  BY <1>22 DEF LateResponse
<1>23. ASSUME NEW r \in Requests, NEW w \in Writers, Claim(r, w) PROVE Kept
  BY <1>23 DEF Claim
<1>24. ASSUME NEW r \in Requests, NEW w \in Writers, Build(r, w) PROVE Kept
  BY <1>24 DEF Build
<1>25a. ASSUME NEW r \in Requests, NEW w \in Writers, Compact(r, w) PROVE Kept
  BY <1>25a DEF Compact
<1>25. ASSUME NEW r \in Requests, NEW w \in Writers, Store(r, w) PROVE Kept
  BY <1>25 DEF Store
<1>26. ASSUME NEW r \in Requests, NEW w \in Writers, Wrote(r, w) PROVE Kept
  BY <1>26 DEF Wrote
<1>27. ASSUME UNCHANGED vars PROVE Kept
  BY <1>27 DEF vars
<1>28. QED
  BY <1>1, <1>2, <1>3, <1>4, <1>5, <1>6, <1>7, <1>8, <1>9, <1>10, <1>11, <1>12, <1>13, <1>14, <1>15, <1>16, <1>17, <1>18, <1>19, <1>20, <1>21, <1>22, <1>23, <1>24, <1>25a, <1>25, <1>26, <1>27 DEF Next, Manage, Serve, Disturb, Record

(* How a request ended is final, whatever arrives late. *)
THEOREM OutcomeIsFinal == Spec => OutcomeFinal
<1>1. IInv /\ [Next]_vars =>
        [\A r \in Requests : status[r] \in Ended =>
           \/ status'[r] = status[r]
           \/ status[r] = "failed" /\ status'[r] = "cancelled" /\ handler[r] = "accepted"]_vars
  BY StepKeepsOutcome
<1>2. QED
  BY <1>1, Invariant, PTL DEF Spec, OutcomeFinal

-----------------------------------------------------------------------------
(***************************************************************************)
(* The history against the request.  From finish_request on, the outcome   *)
(* stands; while no writer waits, the one at work has read the tokens of   *)
(* the monitor and the final outcome, and if there is none the row shows   *)
(* them.                                                                   *)
(***************************************************************************)
Settled(r) == handler[r] = "recording" \/ reported[r]

GoodRows(r) == {<<[status |-> s, tokens |-> tokens[r]]>> : s \in Shown(r)}

Idle(r, steps) == \A w \in Writers : job[r][w] \notin steps

RowFits(r) ==
  Settled(r) /\ Idle(r, {"waiting"}) =>
    /\ \A w \in Writers : job[r][w] \in {"claimed", "built", "compacted"} => draft[r].tokens = tokens[r]
    /\ \A w \in Writers : job[r][w] \in {"built", "compacted"} => draft[r].status \in Shown(r)
    /\ Idle(r, {"claimed", "built", "compacted"}) => rows[r] \in {<<>>} \cup GoodRows(r)

(* The last response is the monitor's unless it came between a copy and a  *)
(* write-back; otherwise what a writer has copied is the monitor's too.    *)
LatestFits(r) ==
  ~overtaken[r] =>
    /\ tokens[r] = latest[r]
    /\ \A w \in Writers : job[r][w] \in {"claimed", "built"} => draft[r].tokens = tokens[r]

ReportFits(r) == reported[r] => handler[r] = "over"

HistoryInv == \A r \in Requests : ReportFits(r) /\ RowFits(r) /\ LatestFits(r)

(* The report is the coroutine's last step. *)
LEMMA StepReportFits ==
  ASSUME IInv, NEW q \in Requests, ReportFits(q), [Next]_vars
  PROVE  ReportFits(q)'
<1> USE DEF IInv, TypeOK, ReportFits, context, responses, monitor, serving, history
<1>1. ASSUME NEW r \in Requests, Manage(r) PROVE ReportFits(q)'
  BY <1>1 DEF Manage, Create, ScanLook, ScanMark, At
<1>2. ASSUME NEW r \in Requests, Serve(r) PROVE ReportFits(q)'
  BY <1>2 DEF Serve, Start, Spawn, WorkerReturns, Answered, Complete, ObserveStop, HardTimeout,
     Fail, CoroutineCancelled, ClientGone, CleanUp, CancelledAgain, Finish, Report, At
<1>3. ASSUME NEW r \in Requests, Disturb(r) PROVE ReportFits(q)'
  BY <1>3 DEF Disturb, CancelBegin, CancelDo, LateResponse
<1>4. ASSUME NEW r \in Requests, NEW w \in Writers, Record(r, w) PROVE ReportFits(q)'
  BY <1>4 DEF Record, Claim, Build, Compact, Store, Wrote
<1>5. CASE Sweep \/ ScanEnd \/ UNCHANGED vars
  BY <1>5 DEF Sweep, ScanEnd, vars
<1>6. QED
  BY <1>1, <1>2, <1>3, <1>4, <1>5 DEF Next

(* A settled request has ended for good. *)
LEMMA SettledStays ==
  ASSUME IInv, NEW q \in Requests, ReportFits(q), [Next]_vars, Settled(q)
  PROVE  status[q] \in Ended /\ status'[q] = status[q]
<1>1. status[q] \in Ended /\ handler[q] # "accepted"
  BY DEF IInv, PlaceFits, Leaving, ReportFits, Settled
<1>2. QED
  BY <1>1, StepKeepsOutcome

(* A step that neither settles a request nor writes of it leaves it fit; a *)
(* trim may take its row.                                                  *)
LEMMA QuietFits ==
  ASSUME NEW q \in Requests, RowFits(q), Settled(q)' => Settled(q),
         Settled(q) => status'[q] = status[q], tokens'[q] = tokens[q], draft'[q] = draft[q],
         \/ rows'[q] = rows[q]
         \/ rows'[q] = <<>>,
         \A w \in Writers : \/ job'[q][w] = job[q][w]
                            \/ {job[q][w], job'[q][w]} \cap {"waiting", "claimed", "built", "compacted"} = {}
  PROVE  RowFits(q)'
  BY DEF RowFits, Idle, GoodRows, Shown, Outcome

(* A request with a writer that waits is fit. *)
LEMMA WaitingFits ==
  ASSUME NEW q \in Requests, NEW w \in Writers, job'[q][w] = "waiting"
  PROVE  RowFits(q)'
  BY DEF RowFits, Idle

(* The coroutine's steps before it has finished settle nothing. *)
LEMMA ManageServeFits ==
  ASSUME IInv, NEW q \in Requests, ReportFits(q), RowFits(q), [Next]_vars,
         NEW r \in Requests, Manage(r) \/ Serve(r)
  PROVE  RowFits(q)'
<1> USE DEF IInv, TypeOK, context, responses, monitor, serving, history
<1>0. Settled(q) => status'[q] = status[q]
  BY SettledStays
<1>1. CASE Complete(r)
  <2>1. ~Settled(q)' \/ q # r
    BY <1>1 DEF Complete, At, Settled, ReportFits
  <2>2. CASE q # r
    <3>1. /\ tokens'[q] = tokens[q] /\ UNCHANGED <<draft, rows, job>>
          /\ Settled(q)' => Settled(q)
      BY <1>1, <2>2 DEF Complete, Capture, At, Settled
    <3>2. QED
      BY <1>0, <3>1, QuietFits
  <2>3. QED
    BY <2>1, <2>2 DEF RowFits
<1>2. CASE Finish(r)
  <2>0. "finish" \in Writers
    BY DEF Writers
  <2>1. CASE q = r
    BY <1>2, <2>0, <2>1, WaitingFits DEF Finish, Writes
  <2>2. CASE q # r
    <3>1. UNCHANGED <<tokens, draft, rows>> /\ job'[q] = job[q] /\ (Settled(q)' => Settled(q))
      BY <1>2, <2>2 DEF Finish, Writes, At, Settled
    <3>2. QED
      BY <1>0, <3>1, QuietFits
  <2>3. QED
    BY <2>1, <2>2
<1>3. CASE ~(Complete(r) \/ Finish(r))
  <2>1. UNCHANGED <<tokens, draft, rows, job>>
    BY <1>3 DEF Manage, Serve, Create, ScanLook, ScanMark, Start, Spawn, WorkerReturns, Answered,
       ObserveStop, HardTimeout, Fail, CoroutineCancelled, ClientGone, CleanUp, CancelledAgain, Report
  <2>2. Settled(q)' => Settled(q)
    BY <1>3 DEF Settled, Manage, Serve, Create, ScanLook, ScanMark, Start, Spawn, WorkerReturns,
       Answered, ObserveStop, HardTimeout, Fail, CoroutineCancelled, ClientGone, CleanUp,
       CancelledAgain, Report, At
  <2>3. QED
    BY <1>0, <2>1, <2>2, QuietFits
<1>4. QED
  BY <1>1, <1>2, <1>3

(* What other threads do to a settled request makes a writer wait. *)
LEMMA DisturbFits ==
  ASSUME IInv, NEW q \in Requests, ReportFits(q), RowFits(q), [Next]_vars,
         NEW r \in Requests, Disturb(r)
  PROVE  RowFits(q)'
<1> USE DEF context, responses, monitor, serving, history
<1>0. Settled(q) => status[q] \in Ended /\ status'[q] = status[q]
  BY SettledStays
<1>a. TypeOK /\ "cancel" \in Writers /\ "late" \in Writers
  BY DEF IInv, Writers
<1>1. CASE CancelBegin(r)
  <2>1. \A v \in Writers : job'[q][v] = IF q = r /\ v = "cancel" THEN "deciding" ELSE job[q][v]
    BY <1>1, <1>a, JobFacts DEF CancelBegin
  <2>2. UNCHANGED <<tokens, draft, rows, handler, reported>> /\ job[r]["cancel"] = "none"
    BY <1>1 DEF CancelBegin
  <2>3. \A v \in Writers : \/ job'[q][v] = job[q][v]
                           \/ {job[q][v], job'[q][v]} \cap {"waiting", "claimed", "built", "compacted"} = {}
    BY <2>1, <2>2
  <2>4. Settled(q)' => Settled(q)
    BY <2>2 DEF Settled
  <2>5. QED
    BY <1>0, <2>2, <2>3, <2>4, QuietFits
<1>2. CASE CancelDo(r)
  <2>1. \A p \in Requests, v \in Writers :
          job'[p][v] = IF p = r /\ v = "cancel" THEN "waiting" ELSE job[p][v]
    BY <1>2, <1>a, JobFacts DEF CancelDo
  <2>2. UNCHANGED <<tokens, draft, rows, handler, reported>>
    BY <1>2 DEF CancelDo
  <2>3. CASE q = r
    BY <1>a, <2>1, <2>3, WaitingFits
  <2>4. CASE q # r
    <3>1. (\A v \in Writers : job'[q][v] = job[q][v]) /\ (Settled(q)' => Settled(q))
      BY <2>1, <2>2, <2>4 DEF Settled
    <3>2. QED
      BY <1>0, <2>2, <3>1, QuietFits
  <2>5. QED
    BY <2>3, <2>4
<1>3. CASE LateResponse(r)
  <2>1. UNCHANGED <<draft, rows, status, handler, reported>> /\ \A p \in Requests : p # r => tokens'[p] = tokens[p]
    BY <1>3, <1>a DEF LateResponse, Capture, TypeOK
  <2>2. Settled(q)' => Settled(q)
    BY <2>1 DEF Settled
  <2>3. CASE q = r /\ WritesLate(r)
    BY <1>3, <1>a, <2>3, JobFacts, WaitingFits DEF LateResponse
  <2>4. CASE q = r /\ ~WritesLate(r)
    BY <1>0, <2>2, <2>4 DEF WritesLate, RowFits
  <2>5. CASE q # r
    <3>1. \A v \in Writers : job'[q][v] = job[q][v]
      BY <1>3, <1>a, <2>5, JobFacts DEF LateResponse
    <3>2. QED
      BY <1>0, <2>1, <2>2, <2>5, <3>1, QuietFits
  <2>6. QED
    BY <2>3, <2>4, <2>5
<1>4. QED
  BY <1>1, <1>2, <1>3 DEF Disturb

(* The rows of the request after a writer has stored its draft. *)
LEMMA StoredRow ==
  ASSUME IInv, NEW r \in Requests, NEW w \in Writers, Store(r, w)
  PROVE  rows'[r] \in {<<>>, <<[status |-> draft[r].status, tokens |-> draft[r].tokens]>>}
<1> DEFINE row == [status |-> draft[r].status, tokens |-> draft[r].tokens]
<1> DEFINE all == [rows EXCEPT ![r] = NewRows(r)]
<1>1. /\ rows \in [Requests -> Seq(Row)] /\ Len(rows[r]) <= 1
      /\ draft[r].again \in BOOLEAN /\ (~draft[r].again => rows[r] = <<>>)
      /\ row \in Row
  BY DEF IInv, TypeOK, WriterKnows, Store, Draft, Row
<1>2. NewRows(r) = <<row>>
  <2>1. CASE rows[r] # <<>>
    <3>1. NewRows(r) = [rows[r] EXCEPT ![Len(rows[r])] = row]
      BY <1>1, <2>1 DEF NewRows
    <3> HIDE DEF row
    <3>2. rows[r] \in Seq(Row) /\ Len(rows[r]) = 1
      <4>1. rows[r] \in Seq(Row)
        BY <1>1
      <4>2. Len(rows[r]) \in Nat /\ Len(rows[r]) # 0
        BY <2>1, <4>1
      <4>3. Len(rows[r]) <= 1
        BY <1>1
      <4>4. \A n \in Nat : n # 0 /\ n <= 1 => n = 1
        OBVIOUS
      <4>5. QED
        BY <4>1, <4>2, <4>3, <4>4, Zenon
    <3>3. NewRows(r) \in Seq(Row)
      BY RowTypes DEF IInv
    <3>4. Len(NewRows(r)) = 1 /\ NewRows(r)[1] = row
      BY <3>1, <3>2
    <3>5. <<row>> \in Seq(Row)
      BY <1>1
    <3>6. QED
      BY <3>3, <3>4, <3>5
  <2>2. CASE rows[r] = <<>>
    <3>1. NewRows(r) = Append(<<>>, row)
      BY <2>2 DEF NewRows
    <3> HIDE DEF row
    <3>2. QED
      BY <1>1, <3>1
  <2>3. QED
    BY <2>1, <2>2
<1>3. \/ rows' = all
      \/ \E old \in Requests : rows' = [all EXCEPT ![old] = Tail(@)]
  BY DEF Store
<1>4. all \in [Requests -> Seq(Row)] /\ all[r] = <<row>>
  BY <1>1, <1>2
<1> HIDE DEF row, all
<1>5. Tail(<<row>>) = <<>>
  BY <1>1
<1>6. rows'[r] \in {<<>>, <<row>>}
  <2>1. CASE rows' = all
    BY <1>4, <2>1
  <2>2. ASSUME NEW old \in Requests, rows' = [all EXCEPT ![old] = Tail(@)]
        PROVE  rows'[r] \in {<<>>, <<row>>}
    BY <1>4, <1>5, <2>2
  <2>3. QED
    BY <1>3, <2>1, <2>2
<1>7. QED
  BY <1>6 DEF row

(* A writer writes what it has read, and reads after the request settled. *)
LEMMA RecordFits ==
  ASSUME IInv, NEW q \in Requests, ReportFits(q), RowFits(q), [Next]_vars,
         NEW r \in Requests, NEW w \in Writers, Record(r, w)
  PROVE  RowFits(q)'
<1> USE DEF context, responses, monitor, serving, history
<1>0. Settled(q) => status[q] \in Ended /\ status'[q] = status[q]
  BY SettledStays
<1>a. TypeOK /\ UNCHANGED <<status, handler, reported>>
  BY DEF IInv, Record, Claim, Build, Compact, Store, Wrote
<1>b. Settled(q)' <=> Settled(q)
  BY <1>a DEF Settled
<1>c. PICK step : Writes(r, w, step)
  BY DEF Record, Claim, Build, Compact, Store, Wrote
<1>d. \A p \in Requests, v \in Writers : job'[p][v] = IF p = r /\ v = w THEN step ELSE job[p][v]
  BY <1>a, <1>c, JobFacts
<1>e. draft[r] \in Draft
  BY <1>a DEF TypeOK
<1>1. CASE q # r
  <2>1. draft'[q] = draft[q] /\ tokens'[q] = tokens[q]
    BY <1>a, <1>1 DEF TypeOK, Record, Claim, Build, Compact, Store, Wrote
  <2>2. rows'[q] = rows[q] \/ rows'[q] = <<>>
    BY <1>1, StoreRows DEF Record, Claim, Build, Compact, Wrote
  <2>3. \A v \in Writers : job'[q][v] = job[q][v]
    BY <1>1, <1>d
  <2>4. QED
    BY <1>0, <1>a, <1>b, <2>1, <2>2, <2>3, QuietFits
<1>2. CASE q = r /\ Claim(r, w)
  <2>1. job'[r][w] = "claimed" /\ \A v \in Writers : v # w => job[r][v] \notin Holding
    BY <1>2, <1>a, JobFacts DEF Claim, AppendLockFree
  <2>2. \A v \in Writers : v # w => job'[r][v] \notin Holding
    BY <1>d, <2>1
  <2>3. draft'[r].tokens = tokens[r]
    BY <1>2, <1>a, <1>e DEF Claim, TypeOK, Draft, NoDraft
  <2>4. UNCHANGED tokens
    BY <1>2 DEF Claim
  <2>5. QED
    BY <1>2, <1>a, <2>1, <2>2, <2>3, <2>4 DEF RowFits, Idle, Holding
<1>3. CASE q = r /\ Build(r, w)
  <2>1. job[r][w] = "claimed" /\ job'[r][w] = "built" /\ UNCHANGED rows
    BY <1>3, <1>a, JobFacts DEF Build
  <2>2. \A v \in Writers : v # w => job[r][v] \notin Holding
    BY <2>1 DEF IInv, OneWriter, Holding
  <2>3. draft'[r] = [draft[r] EXCEPT !.status = Outcome(status[r], draft[r].tokens, draft[r].media)]
    BY <1>3, <1>a DEF Build, TypeOK
  <2>4. /\ draft'[r].tokens = draft[r].tokens
        /\ draft'[r].status = Outcome(status[r], draft[r].tokens, draft[r].media)
    BY <1>e, <2>3 DEF Draft
  <2>5. Idle(r, {"waiting"})' => Idle(r, {"waiting"})
    BY <1>d, <2>1 DEF Idle
  <2>6. \A v \in Writers : v # w => job'[r][v] \notin Holding
    BY <1>d, <2>2
  <2>7. UNCHANGED tokens /\ job'[r][w] # "waiting"
    BY <1>3, <2>1 DEF Build
  <2>8. Outcome(status[r], tokens[r], draft[r].media) \in Shown(r) /\ Shown(r)' = Shown(r)
    BY <1>a, <2>7 DEF Outcome, Shown
  <2>9. QED
    BY <1>3, <1>a, <1>b, <2>1, <2>4, <2>5, <2>6, <2>7, <2>8 DEF RowFits, Idle, Holding
<1>4. CASE q = r /\ Compact(r, w)
  <2>1. job[r][w] = "built" /\ job'[r][w] = "compacted" /\ UNCHANGED <<draft, rows>>
    BY <1>4, <1>a, JobFacts DEF Compact
  <2>2. \A v \in Writers : v # w => job[r][v] \notin Holding
    BY <2>1 DEF IInv, OneWriter, Holding
  <2>3. Idle(r, {"waiting"})' => Idle(r, {"waiting"})
    BY <1>d, <2>1 DEF Idle
  <2>4. \A v \in Writers : v # w => job'[r][v] \notin Holding
    BY <1>d, <2>2
  <2>5. tokens'[r] = draft[r].tokens
    BY <1>4, <1>a DEF Compact, TypeOK
  <2>6. Settled(r) /\ Idle(r, {"waiting"}) => tokens'[r] = tokens[r] /\ draft[r].status \in Shown(r)
    BY <1>4, <2>1, <2>5 DEF RowFits
  <2>7. tokens'[r] = tokens[r] => Shown(r)' = Shown(r)
    BY <1>a DEF Shown, Outcome
  <2>8. QED
    BY <1>4, <1>b, <2>1, <2>3, <2>4, <2>5, <2>6, <2>7 DEF RowFits, Idle, Holding
<1>5. CASE q = r /\ Store(r, w)
  <2>1. job[r][w] = "compacted" /\ job'[r][w] = "stored" /\ UNCHANGED <<draft, tokens>>
    BY <1>5, <1>a, JobFacts DEF Store
  <2>2. \A v \in Writers : v # w => job[r][v] \notin Holding
    BY <2>1 DEF IInv, OneWriter, Holding
  <2>3. Idle(r, {"waiting"})' => Idle(r, {"waiting"})
    BY <1>d, <2>1 DEF Idle
  <2>4. \A v \in Writers : job'[r][v] \notin {"claimed", "built", "compacted"}
    BY <1>d, <2>1, <2>2 DEF Holding
  <2>5. rows'[r] \in {<<>>, <<[status |-> draft[r].status, tokens |-> draft[r].tokens]>>}
    BY <1>5, StoredRow
  <2>6. Settled(r) /\ Idle(r, {"waiting"}) => draft[r].tokens = tokens[r] /\ draft[r].status \in Shown(r)
    BY <1>5, <2>1 DEF RowFits
  <2>7. Shown(r)' = Shown(r)
    BY <1>a, <2>1 DEF Shown, Outcome
  <2>8. Settled(r) /\ Idle(r, {"waiting"}) => rows'[r] \in {<<>>} \cup GoodRows(r)'
    BY <2>1, <2>5, <2>6, <2>7 DEF GoodRows
  <2>9. QED
    BY <1>5, <1>b, <2>3, <2>4, <2>8 DEF RowFits
<1>6. CASE q = r /\ Wrote(r, w)
  <2>1. job[r][w] = "stored" /\ job'[r][w] = "none" /\ UNCHANGED <<rows, tokens>>
    BY <1>6, <1>a, JobFacts DEF Wrote
  <2>2. \A v \in Writers : v # w => job[r][v] \notin Holding
    BY <2>1 DEF IInv, OneWriter, Holding
  <2>3. Idle(r, {"waiting"})' => Idle(r, {"waiting"})
    BY <1>d, <2>1 DEF Idle
  <2>4. /\ Idle(r, {"claimed", "built", "compacted"})
        /\ \A v \in Writers : job'[r][v] \notin {"claimed", "built", "compacted"}
    BY <1>d, <2>1, <2>2 DEF Idle, Holding
  <2>5. GoodRows(r)' = GoodRows(r)
    BY <1>a, <2>1 DEF GoodRows, Shown, Outcome
  <2>6. QED
    BY <1>6, <1>b, <2>1, <2>3, <2>4, <2>5 DEF RowFits
<1>7. QED
  BY <1>1, <1>2, <1>3, <1>4, <1>5, <1>6 DEF Record

(* The sweep makes a writer wait for each request it has dropped. *)
LEMMA SweepFits ==
  ASSUME IInv, NEW q \in Requests, ReportFits(q), RowFits(q), Sweep \/ ScanEnd \/ UNCHANGED vars
  PROVE  RowFits(q)'
<1> USE DEF context, responses, monitor, serving, history
<1>1. UNCHANGED <<status, tokens, draft, rows, handler, reported>>
  BY DEF Sweep, ScanEnd, vars
<1>2. Settled(q)' => Settled(q)
  BY <1>1 DEF Settled
<1>3. CASE UNCHANGED job
  BY <1>1, <1>2, <1>3, QuietFits
<1>4. CASE ScanEnd
  <2>1. job' = [r \in Requests |->
                  IF r \in scan.doomed THEN [job[r] EXCEPT !["sweep"] = "waiting"] ELSE job[r]]
    BY <1>4 DEF ScanEnd
  <2>2. CASE q \in scan.doomed
    <3>1. "sweep" \in Writers /\ job'[q]["sweep"] = "waiting"
      BY <2>1, <2>2 DEF IInv, TypeOK, Writers
    <3>2. QED
      BY <3>1, WaitingFits
  <2>3. CASE q \notin scan.doomed
    BY <1>1, <1>2, <2>1, <2>3, QuietFits
  <2>4. QED
    BY <2>2, <2>3
<1>5. QED
  BY <1>3, <1>4 DEF Sweep, vars

(* What a step of a writer copies or writes back is what it has read. *)
LEMMA RecordLatest ==
  ASSUME IInv, NEW q \in Requests, LatestFits(q),
         NEW r \in Requests, NEW w \in Writers, Record(r, w)
  PROVE  LatestFits(q)'
<1> USE DEF context, responses, monitor, serving, history
<1>a. TypeOK /\ UNCHANGED <<latest, overtaken>>
  BY DEF IInv, Record, Claim, Build, Compact, Store, Wrote
<1>b. PICK step : Writes(r, w, step)
  BY DEF Record, Claim, Build, Compact, Store, Wrote
<1>c. \A p \in Requests, v \in Writers : job'[p][v] = IF p = r /\ v = w THEN step ELSE job[p][v]
  BY <1>a, <1>b, JobFacts
<1>1. CASE q # r
  <2>1. draft'[q] = draft[q] /\ tokens'[q] = tokens[q]
    BY <1>a, <1>1 DEF TypeOK, Record, Claim, Build, Compact, Store, Wrote
  <2>2. \A v \in Writers : job'[q][v] = job[q][v]
    BY <1>1, <1>c
  <2>3. QED
    BY <1>a, <2>1, <2>2 DEF LatestFits
<1>2. CASE q = r /\ Claim(r, w)
  <2>1. draft'[r].tokens = tokens[r] /\ UNCHANGED tokens
    BY <1>2, <1>a DEF Claim, TypeOK
  <2>2. QED
    BY <1>2, <1>a, <2>1 DEF LatestFits
<1>3. CASE q = r /\ Build(r, w)
  <2>1. job[r][w] = "claimed" /\ UNCHANGED tokens
    BY <1>3 DEF Build
  <2>2. draft[r] \in Draft
    BY <1>a DEF TypeOK
  <2>3. draft'[r].tokens = draft[r].tokens
    <3>1. draft'[r] = [draft[r] EXCEPT !.status = Outcome(status[r], draft[r].tokens, draft[r].media)]
      BY <1>3, <1>a DEF Build, TypeOK
    <3>2. QED
      BY <2>2, <3>1 DEF Draft
  <2>4. QED
    BY <1>3, <1>a, <1>c, <2>1, <2>3 DEF LatestFits
<1>4. CASE q = r /\ Compact(r, w)
  <2>1. job[r][w] = "built" /\ tokens'[r] = draft[r].tokens /\ UNCHANGED draft
    BY <1>4, <1>a DEF Compact, TypeOK
  <2>2. \A v \in Writers : v # w => job[r][v] \notin {"claimed", "built"}
    BY <2>1 DEF IInv, OneWriter, Holding
  <2>3. step = "compacted"
    BY <1>4, <1>a, <1>c, JobFacts DEF Compact
  <2>4. QED
    BY <1>4, <1>a, <1>c, <2>1, <2>2, <2>3 DEF LatestFits
<1>5. CASE q = r /\ Store(r, w)
  <2>1. step = "stored" /\ UNCHANGED <<draft, tokens>>
    BY <1>5, <1>a, <1>c, JobFacts DEF Store
  <2>2. QED
    BY <1>5, <1>a, <1>c, <2>1 DEF LatestFits
<1>6. CASE q = r /\ Wrote(r, w)
  <2>1. job[r][w] = "stored" /\ step = "none" /\ UNCHANGED tokens
    BY <1>6, <1>a, <1>c, JobFacts DEF Wrote
  <2>2. \A v \in Writers : v # w => job[r][v] \notin {"claimed", "built"}
    BY <2>1 DEF IInv, OneWriter, Holding
  <2>3. QED
    BY <1>6, <1>a, <1>c, <2>1, <2>2 DEF LatestFits
<1>7. QED
  BY <1>1, <1>2, <1>3, <1>4, <1>5, <1>6 DEF Record

(* A captured response is the last one; it is overtaken by a writer that   *)
(* is between its copy and its write-back.                                 *)
LEMMA CaptureLatest ==
  ASSUME IInv, NEW q \in Requests, LatestFits(q), NEW r \in Requests, NEW n \in 0..MaxTokens,
         Capture(r, n), draft' = draft,
         \A v \in Writers : job'[q][v] \in {"claimed", "built"} => job[q][v] = job'[q][v]
  PROVE  LatestFits(q)'
<1>1. CASE q # r
  <2>1. tokens'[q] = tokens[q] /\ latest'[q] = latest[q] /\ overtaken'[q] = overtaken[q]
    BY <1>1 DEF IInv, TypeOK, Capture
  <2>2. QED
    BY <2>1 DEF LatestFits
<1>2. CASE q = r
  <2>1. /\ tokens'[r] = latest'[r]
        /\ overtaken'[r] = (\E v \in Writers : job[r][v] \in {"claimed", "built"})
    BY DEF IInv, TypeOK, Capture
  <2>2. QED
    BY <1>2, <2>1 DEF LatestFits
<1>3. QED
  BY <1>1, <1>2

LEMMA StepLatestFits ==
  ASSUME IInv, NEW q \in Requests, LatestFits(q), [Next]_vars
  PROVE  LatestFits(q)'
<1> USE DEF context, responses, monitor, serving, history
<1>0. ASSUME UNCHANGED <<responses, draft>>,
             \A v \in Writers : job'[q][v] \in {"claimed", "built"} => job[q][v] = job'[q][v]
      PROVE  LatestFits(q)'
  BY <1>0 DEF LatestFits
<1>a. TypeOK /\ {"finish", "cancel", "sweep", "late"} \subseteq Writers
  BY DEF IInv, Writers
<1>1. ASSUME NEW r \in Requests, Manage(r) PROVE LatestFits(q)'
  BY <1>0, <1>1 DEF Manage, Create, ScanLook, ScanMark
<1>2. ASSUME NEW r \in Requests, Serve(r) PROVE LatestFits(q)'
  <2>1. CASE Complete(r)
    BY <2>1, CaptureLatest DEF Complete
  <2>2. CASE Finish(r)
    <3>1. \A p \in Requests, v \in Writers :
            job'[p][v] = IF p = r /\ v = "finish" THEN "waiting" ELSE job[p][v]
      BY <1>a, <2>2, JobFacts DEF Finish
    <3>2. UNCHANGED <<responses, draft>>
      BY <2>2 DEF Finish
    <3>3. QED
      BY <1>0, <3>1, <3>2
  <2>3. CASE ~(Complete(r) \/ Finish(r))
    BY <1>0, <1>2, <2>3 DEF Serve, Start, Spawn, WorkerReturns, Answered, ObserveStop, HardTimeout,
       Fail, CoroutineCancelled, ClientGone, CleanUp, CancelledAgain, Report
  <2>4. QED
    BY <2>1, <2>2, <2>3
<1>3. ASSUME NEW r \in Requests, Disturb(r) PROVE LatestFits(q)'
  <2>1. CASE CancelBegin(r)
    <3>1. \A p \in Requests, v \in Writers :
            job'[p][v] = IF p = r /\ v = "cancel" THEN "deciding" ELSE job[p][v]
      BY <1>a, <2>1, JobFacts DEF CancelBegin
    <3>2. UNCHANGED <<responses, draft>>
      BY <2>1 DEF CancelBegin
    <3>3. QED
      BY <1>0, <3>1, <3>2
  <2>2. CASE CancelDo(r)
    <3>1. \A p \in Requests, v \in Writers :
            job'[p][v] = IF p = r /\ v = "cancel" THEN "waiting" ELSE job[p][v]
      BY <1>a, <2>2, JobFacts DEF CancelDo
    <3>2. UNCHANGED <<responses, draft>>
      BY <2>2 DEF CancelDo
    <3>3. QED
      BY <1>0, <3>1, <3>2
  <2>3. CASE LateResponse(r)
    <3>1. \A v \in Writers : job'[q][v] \in {"claimed", "built"} => job[q][v] = job'[q][v]
      <4>1. CASE Writes(r, "late", "waiting")
        BY <1>a, <4>1, JobFacts
      <4>2. CASE UNCHANGED job
        BY <4>2
      <4>3. QED
        BY <2>3, <4>1, <4>2 DEF LateResponse
    <3>2. UNCHANGED <<media, draft>>
      BY <2>3 DEF LateResponse
    <3>3. CASE UNCHANGED <<tokens, latest, overtaken>>
      BY <1>0, <3>1, <3>2, <3>3
    <3>4. ASSUME NEW n \in 1..MaxTokens, Capture(r, n) PROVE LatestFits(q)'
      <4>1. n \in 0..MaxTokens
        BY <3>4, RequestAssumption DEF RequestAssumption
      <4>2. QED
        BY <3>1, <3>2, <3>4, <4>1, CaptureLatest
    <3>5. QED
      BY <2>3, <3>3, <3>4 DEF LateResponse
  <2>4. QED
    BY <1>3, <2>1, <2>2, <2>3 DEF Disturb
<1>4. ASSUME NEW r \in Requests, NEW w \in Writers, Record(r, w) PROVE LatestFits(q)'
  BY <1>4, RecordLatest
<1>5. CASE ScanEnd
  <2>1. job' = [r \in Requests |->
                  IF r \in scan.doomed THEN [job[r] EXCEPT !["sweep"] = "waiting"] ELSE job[r]]
    BY <1>5 DEF ScanEnd
  <2>2. \A v \in Writers : job'[q][v] \in {"claimed", "built"} => job[q][v] = job'[q][v]
    BY <1>a, <2>1 DEF TypeOK
  <2>3. UNCHANGED <<responses, draft>>
    BY <1>5 DEF ScanEnd
  <2>4. QED
    BY <1>0, <2>2, <2>3
<1>6. CASE Sweep \/ UNCHANGED vars
  BY <1>0, <1>6 DEF Sweep, vars
<1>7. QED
  BY <1>1, <1>2, <1>3, <1>4, <1>5, <1>6 DEF Next

(* The invariant of the history, given that of the request. *)
LEMMA NextHistoryInv == ASSUME IInv, HistoryInv, [Next]_vars PROVE HistoryInv'
<1> SUFFICES ASSUME NEW q \in Requests PROVE ReportFits(q)' /\ RowFits(q)' /\ LatestFits(q)'
  BY DEF HistoryInv
<1>1. ReportFits(q) /\ RowFits(q) /\ LatestFits(q)
  BY DEF HistoryInv
<1>2. ReportFits(q)'
  BY <1>1, StepReportFits
<1>3. RowFits(q)'
  <2>1. ASSUME NEW r \in Requests, Manage(r) \/ Serve(r) PROVE RowFits(q)'
    BY <1>1, <2>1, ManageServeFits
  <2>2. ASSUME NEW r \in Requests, Disturb(r) PROVE RowFits(q)'
    BY <1>1, <2>2, DisturbFits
  <2>3. ASSUME NEW r \in Requests, NEW w \in Writers, Record(r, w) PROVE RowFits(q)'
    BY <1>1, <2>3, RecordFits
  <2>4. CASE Sweep \/ ScanEnd \/ UNCHANGED vars
    BY <1>1, <2>4, SweepFits
  <2>5. QED
    BY <2>1, <2>2, <2>3, <2>4 DEF Next
<1>4. LatestFits(q)'
  BY <1>1, StepLatestFits
<1>5. QED
  BY <1>2, <1>3, <1>4

(* When the writers of a finished request are done, its row in the history *)
(* agrees with what the request's monitor holds, in whatever order the     *)
(* finish, a cancellation, the sweep and a late response wrote it; and     *)
(* both show the last response, unless a writer was just between the copy  *)
(* and the write-back when it came.                                        *)
THEOREM HistoryIsRight == Spec => []HistoryAgrees
<1>1. Init => HistoryInv
  BY DEF Init, HistoryInv, ReportFits, RowFits, LatestFits, Settled
<1>2. IInv /\ HistoryInv /\ [Next]_vars => HistoryInv'
  BY NextHistoryInv
<1>3. HistoryInv => HistoryAgrees
  BY DEF HistoryInv, RowFits, LatestFits, Settled, Idle, GoodRows, HistoryAgrees, AtRest
<1>4. QED
  BY <1>1, <1>2, <1>3, Invariant, PTL DEF Spec
-----------------------------------------------------------------------------
(* The totals. *)

(* No more requests than the history has room for: nothing is trimmed. *)
RoomForAll == IsFiniteSet(Requests) /\ Cardinality(Requests) <= MaxRecords

LEMMA NothingTrimmed ==
  ASSUME RoomForAll, NEW all
  PROVE  ~TooMany(all)
<1> DEFINE some == {r \in Requests : all[r] # <<>>}
<1>1. some \subseteq Requests
  OBVIOUS
<1>2. /\ Cardinality(some) <= Cardinality(Requests)
      /\ Cardinality(some) \in Nat /\ Cardinality(Requests) \in Nat
  BY <1>1, FS_Subset, FS_CardinalityType DEF RoomForAll
<1>3. QED
  BY <1>2, RequestAssumption DEF TooMany, RoomForAll, RequestAssumption

(* What the history shows of a request is what the totals count of it. *)
LEMMA NextTotals ==
  ASSUME RoomForAll, IInv, TotalsExact, [Next]_vars
  PROVE  TotalsExact'
<1> USE DEF context, responses, monitor, serving, history
<1>1. CASE UNCHANGED <<rows, counted>>
  BY <1>1 DEF TotalsExact
<1>2. ASSUME NEW r \in Requests, NEW w \in Writers, Store(r, w) PROVE TotalsExact'
  <2> DEFINE row == [status |-> draft[r].status, tokens |-> draft[r].tokens]
  <2>1. rows' = [rows EXCEPT ![r] = NewRows(r)]
    BY <1>2, NothingTrimmed DEF Store
  <2>2. counted' = [counted EXCEPT ![r] = NewCount(r)]
    BY <1>2 DEF Store
  <2>3. TypeOK /\ draft[r].again \in BOOLEAN /\ (~draft[r].again => rows[r] = <<>>)
    BY <1>2 DEF IInv, TypeOK, WriterKnows, Store, Draft
  <2>4. draft[r].tokens \in Int /\ row \in Row
    BY <2>3, RequestAssumption DEF TypeOK, Draft, Row, RequestAssumption
  <2>5. rows[r] \in Seq(Row) /\ counted[r] = IF rows[r] = <<>> THEN 0 ELSE rows[r][Len(rows[r])].tokens
    BY <2>3 DEF TotalsExact, TypeOK
  <2>6. NewCount(r) = draft[r].tokens
    <3>1. CASE rows[r] = <<>>
      BY <2>4, <2>5, <3>1 DEF NewCount
    <3>2. CASE rows[r] # <<>>
      <4>1. rows[r][Len(rows[r])].tokens \in Int
        <5>1. rows[r][Len(rows[r])] \in Row
          BY <2>5, <3>2
        <5>2. QED
          BY <5>1, RequestAssumption DEF Row, RequestAssumption
      <4>2. QED
        BY <2>3, <2>4, <2>5, <3>2, <4>1 DEF NewCount
    <3>3. QED
      BY <3>1, <3>2
  <2>7. NewRows(r) # <<>> /\ NewRows(r)[Len(NewRows(r))] = row
    <3>1. CASE rows[r] = <<>>
      <4>1. NewRows(r) = Append(rows[r], row)
        BY <3>1 DEF NewRows
      <4> HIDE DEF row
      <4>2. QED
        BY <2>4, <2>5, <4>1
    <3>2. CASE rows[r] # <<>>
      <4>1. NewRows(r) = [rows[r] EXCEPT ![Len(rows[r])] = row]
        BY <2>3, <3>2 DEF NewRows
      <4> HIDE DEF row
      <4>2. QED
        BY <2>4, <2>5, <3>2, <4>1
    <3>3. QED
      BY <3>1, <3>2
  <2>8. rows'[r] = NewRows(r) /\ counted'[r] = draft[r].tokens
    BY <2>1, <2>2, <2>3, <2>6 DEF TypeOK
  <2>9. \A q \in Requests : q # r => rows'[q] = rows[q] /\ counted'[q] = counted[q]
    BY <2>1, <2>2, <2>3 DEF TypeOK
  <2>10. QED
    BY <2>7, <2>8, <2>9 DEF TotalsExact
<1>3. CASE ~\E r \in Requests, w \in Writers : Store(r, w)
  <2>1. ASSUME NEW r \in Requests, Manage(r) \/ Serve(r) \/ Disturb(r) PROVE UNCHANGED <<rows, counted>>
    BY <2>1 DEF Manage, Serve, Disturb, Create, ScanLook, ScanMark, Start, Spawn, WorkerReturns, Answered,
       Complete, ObserveStop, HardTimeout, Fail, CoroutineCancelled, ClientGone, CleanUp, CancelledAgain,
       Finish, Report, CancelBegin, CancelDo, LateResponse
  <2>2. ASSUME NEW r \in Requests, NEW w \in Writers, Record(r, w) PROVE UNCHANGED <<rows, counted>>
    BY <1>3, <2>2 DEF Record, Claim, Build, Compact, Wrote
  <2>3. ASSUME Sweep \/ ScanEnd \/ UNCHANGED vars PROVE UNCHANGED <<rows, counted>>
    BY <2>3 DEF Sweep, ScanEnd, vars
  <2>4. UNCHANGED <<rows, counted>>
    BY <2>1, <2>2, <2>3 DEF Next
  <2>5. QED
    BY <1>1, <2>4
<1>4. QED
  BY <1>2, <1>3

(* As long as the history has room for every request, the token totals are *)
(* the sum over its rows, however often a row is written again.            *)
THEOREM TotalsAreExact == ASSUME RoomForAll PROVE Spec => []TotalsExact
<1>1. Init => TotalsExact
  BY DEF Init, TotalsExact
<1>2. IInv /\ TotalsExact /\ [Next]_vars => TotalsExact'
  BY NextTotals
<1>3. QED
  BY <1>1, <1>2, Invariant, PTL DEF Spec
=============================================================================
