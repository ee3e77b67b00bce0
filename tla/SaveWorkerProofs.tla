-------------------------- MODULE SaveWorkerProofs --------------------------
(* What holds of the saves for any number of callers, save threads, failed  *)
(* saves and restarts.                                                      *)
EXTENDS SaveWorker, TLAPS

InSave(w) == worker[w].at \in {"writing", "replacing"}

Starting(c) == caller[c].at = "starting"

(* The thread a caller is about to start was created for this caller and    *)
(* does nothing yet.                                                        *)
StartInv ==
  /\ \A c \in Callers :
       Starting(c) => caller[c].starts \in Workers /\ worker[caller[c].starts].at = "created"
  /\ \A c, d \in Callers :
       Starting(c) /\ Starting(d) /\ caller[c].starts = caller[d].starts => c = d

(* Who writes holds the save lock, and who holds it writes.                 *)
LockInv == \A w \in Workers : InSave(w) <=> lock = w

(* The lock keeps the file as it was when the rows were copied: a copy is   *)
(* never older than the file, and memory is never older than either.        *)
CopyInv ==
  /\ file <= rows.newest
  /\ rows.newest <= rows.made
  /\ \A w \in Workers :
       InSave(w) => file <= worker[w].copy /\ worker[w].copy <= rows.newest

(* Only the holder of the lock opens a temporary file: what it finds when   *)
(* it replaces is its own, or nothing.                                      *)
TmpInv == \A w \in Workers : worker[w].at = "replacing" /\ tmp.there => tmp.whole

IInv == TypeOK /\ StartInv /\ LockInv /\ CopyInv /\ TmpInv

-----------------------------------------------------------------------------

LEMMA InitIInv == Init => IInv
<1> SUFFICES ASSUME Init PROVE IInv
  OBVIOUS
<1> USE DEF Init, NoFile
<1>1. TypeOK
  <2>1. faults \in 0..MaxFaults /\ restarts \in 0..MaxRestarts
    BY SaveAssumption DEF SaveAssumption
  <2>2. worker \in [Workers ->
          [at : {"unborn", "created", "idle", "saving", "writing", "replacing", "failed", "gone"},
           copy : Nat]]
    OBVIOUS
  <2>3. caller \in [Callers -> [at : {"new", "added", "starting", "done"},
                                starts : Workers \cup {None}]]
    OBVIOUS
  <2> QED BY <2>1, <2>2, <2>3 DEF TypeOK
<1>2. StartInv BY DEF StartInv, Starting
<1>3. LockInv BY SaveAssumption DEF LockInv, InSave, SaveAssumption
<1>4. CopyInv BY DEF CopyInv, InSave
<1>5. TmpInv BY DEF TmpInv
<1> QED BY <1>1, <1>2, <1>3, <1>4, <1>5 DEF IInv

(* A caller's step leaves the threads that save alone.                      *)
LEMMA CallerKeeps ==
  ASSUME IInv, NEW c \in Callers, CallerStep(c)
  PROVE  IInv'
<1>1. CASE AddRow(c)
  <2> USE <1>1 DEF AddRow
  <2>1. TypeOK' BY DEF IInv, TypeOK
  <2>2. StartInv' BY DEF IInv, TypeOK, StartInv, Starting
  <2>3. LockInv' BY DEF IInv, LockInv, InSave
  <2>4. CopyInv' BY DEF IInv, TypeOK, CopyInv, InSave
  <2>5. TmpInv' BY DEF IInv, TmpInv
  <2> QED BY <2>1, <2>2, <2>3, <2>4, <2>5 DEF IInv
<1>2. CASE Schedule(c) /\ Alive(slot)
  <2> USE <1>2 DEF Schedule
  <2>1. TypeOK' BY DEF IInv, TypeOK
  <2>2. StartInv'
    <3>1. caller' = [caller EXCEPT ![c].at = "done"] /\ UNCHANGED worker OBVIOUS
    <3>2. \A d \in Callers : /\ Starting(d)' => Starting(d)
                             /\ caller'[d].starts = caller[d].starts
      BY <3>1 DEF IInv, TypeOK, Starting
    <3> QED BY <3>1, <3>2 DEF IInv, StartInv
  <2>3. LockInv' BY DEF IInv, LockInv, InSave
  <2>4. CopyInv' BY DEF IInv, CopyInv, InSave
  <2>5. TmpInv' BY DEF IInv, TmpInv
  <2> QED BY <2>1, <2>2, <2>3, <2>4, <2>5 DEF IInv
<1>3. CASE Schedule(c) /\ ~Alive(slot)
  <2>1. PICK w \in Workers :
          /\ worker[w].at = "unborn"
          /\ slot' = w
          /\ worker' = [worker EXCEPT ![w].at = "created"]
          /\ caller' = [caller EXCEPT ![c] = [at |-> "starting", starts |-> w]]
    BY <1>3 DEF Schedule, Goes
  <2>2. /\ wanted' = TRUE
        /\ UNCHANGED <<rows, lock, tmp, file, faults, restarts, forgiven>>
    BY <1>3 DEF Schedule
  <2>3. TypeOK' BY <2>1, <2>2 DEF IInv, TypeOK
  <2>4. StartInv' BY <2>1, <2>2 DEF IInv, TypeOK, StartInv, Starting
  <2>5. \A v \in Workers : /\ InSave(v)' <=> InSave(v)
                           /\ worker'[v].copy = worker[v].copy
                           /\ worker'[v].at = "replacing" => worker[v].at = "replacing"
    BY <2>1 DEF IInv, TypeOK, InSave
  <2>6. LockInv' BY <2>2, <2>5 DEF IInv, LockInv
  <2>7. CopyInv' BY <2>2, <2>5 DEF IInv, CopyInv
  <2>8. TmpInv' BY <2>2, <2>5 DEF IInv, TmpInv
  <2> QED BY <2>3, <2>4, <2>6, <2>7, <2>8 DEF IInv
<1>4. CASE Start(c)
  <2> DEFINE w == caller[c].starts
  <2>1. w \in Workers /\ worker[w].at = "created"
    BY <1>4 DEF Start, IInv, StartInv, Starting
  <2>2. /\ worker' = [worker EXCEPT ![w].at = "idle"]
        /\ caller' = [caller EXCEPT ![c] = [at |-> "done", starts |-> None]]
        /\ UNCHANGED <<rows, wanted, slot, lock, tmp, file, faults, restarts, forgiven>>
    BY <1>4 DEF Start, Goes
  <2> HIDE DEF w
  <2>3. TypeOK' BY <2>1, <2>2 DEF IInv, TypeOK
  <2>4. \A d \in Callers \ {c} : Starting(d) => caller[d].starts # w
    BY <1>4 DEF Start, IInv, StartInv, Starting, w
  <2>5. StartInv' BY <2>1, <2>2, <2>4 DEF IInv, TypeOK, StartInv, Starting
  <2>6. \A v \in Workers : /\ InSave(v)' <=> InSave(v)
                           /\ worker'[v].copy = worker[v].copy
                           /\ worker'[v].at = "replacing" => worker[v].at = "replacing"
    BY <2>1, <2>2 DEF IInv, TypeOK, InSave
  <2>7. LockInv' BY <2>2, <2>6 DEF IInv, LockInv
  <2>8. CopyInv' BY <2>2, <2>6 DEF IInv, CopyInv
  <2>9. TmpInv' BY <2>2, <2>6 DEF IInv, TmpInv
  <2> QED BY <2>3, <2>5, <2>7, <2>8, <2>9 DEF IInv
<1> QED BY <1>1, <1>2, <1>3, <1>4 DEF CallerStep

(* A step of a save thread: it was not created just now, and it takes,      *)
(* keeps or gives back the save lock.                                       *)
LEMMA SaveKeeps ==
  ASSUME IInv, NEW w \in Workers, SaveStep(w)
  PROVE  IInv'
<1>1. /\ worker[w].at # "created"
      /\ UNCHANGED <<rows, caller, restarts>>
      /\ \A v \in Workers \ {w} : worker'[v] = worker[v]
  <2> USE DEF IInv, TypeOK, Goes
  <2>1. CASE Loop(w) BY <2>1 DEF Loop
  <2>2. CASE Open(w) BY <2>2 DEF Open
  <2>3. CASE Write(w) BY <2>3 DEF Write
  <2>4. CASE Replace(w) BY <2>4 DEF Replace
  <2>5. CASE SaveFails(w) BY <2>5 DEF SaveFails, Fails
  <2>6. CASE RemoveTemp(w) BY <2>6 DEF RemoveTemp
  <2> QED BY <2>1, <2>2, <2>3, <2>4, <2>5, <2>6 DEF SaveStep
<1>2. StartInv'
  <2>1. \A c \in Callers : Starting(c) => caller[c].starts # w
    BY <1>1 DEF IInv, StartInv
  <2> QED BY <1>1, <2>1 DEF IInv, StartInv, Starting
<1>3. \A v \in Workers \ {w} : worker'[v] = worker[v] /\ (InSave(v)' <=> InSave(v))
  BY <1>1 DEF IInv, TypeOK, InSave
<1>4. CASE Loop(w)
  <2> USE <1>4 DEF Loop, Goes
  <2>1. TypeOK'
    <3>1. worker' = [worker EXCEPT ![w].at = "saving"] \/ worker' = [worker EXCEPT ![w].at = "gone"]
      OBVIOUS
    <3>2. worker' \in [Workers ->
            [at : {"unborn", "created", "idle", "saving", "writing", "replacing", "failed", "gone"},
             copy : Nat]]
      BY <3>1 DEF IInv, TypeOK
    <3>3. wanted' \in BOOLEAN /\ slot' \in Workers \cup {None} BY DEF IInv, TypeOK
    <3> QED BY <3>2, <3>3 DEF IInv, TypeOK
  <2>2. ~InSave(w) /\ ~InSave(w)' BY DEF IInv, TypeOK, InSave
  <2>3. LockInv' BY <1>3, <2>2 DEF IInv, LockInv
  <2>4. CopyInv' BY <1>3, <2>2 DEF IInv, CopyInv
  <2>5. TmpInv' BY <1>3, <2>2 DEF IInv, TmpInv, InSave
  <2> QED BY <1>2, <2>1, <2>3, <2>4, <2>5 DEF IInv
<1>5. CASE Open(w)
  <2> USE <1>5 DEF Open
  <2>1. TypeOK' BY DEF IInv, TypeOK
  <2>2. \A v \in Workers : ~InSave(v)
    BY SaveAssumption DEF IInv, LockInv, SaveAssumption
  <2>3. worker'[w] = [at |-> "writing", copy |-> rows.newest] BY DEF IInv, TypeOK
  <2>4. LockInv' BY <1>3, <2>2, <2>3 DEF LockInv, InSave
  <2>5. CopyInv' BY <1>3, <2>2, <2>3 DEF IInv, TypeOK, CopyInv, InSave
  <2>6. TmpInv' BY <1>3, <2>2, <2>3 DEF TmpInv, InSave
  <2> QED BY <1>2, <2>1, <2>4, <2>5, <2>6 DEF IInv
<1>6. CASE Write(w)
  <2> USE <1>6 DEF Write, Goes
  <2>1. TypeOK' BY DEF IInv, TypeOK
  <2>2. worker'[w] = [at |-> "replacing", copy |-> worker[w].copy]
    BY DEF IInv, TypeOK
  <2>3. InSave(w) /\ InSave(w)' BY <2>2 DEF InSave
  <2>4. LockInv' BY <1>3, <2>3 DEF IInv, LockInv
  <2>5. CopyInv' BY <1>3, <2>2, <2>3 DEF IInv, CopyInv
  <2>6. TmpInv' BY DEF IInv, TypeOK, TmpInv
  <2> QED BY <1>2, <2>1, <2>4, <2>5, <2>6 DEF IInv
<1>7. CASE Replace(w)
  <2> USE <1>7 DEF Replace, Goes, NoFile
  <2>1. TypeOK' BY DEF IInv, TypeOK
  <2>2. lock = w /\ InSave(w) BY DEF IInv, LockInv, InSave
  <2>3. \A v \in Workers : ~InSave(v)'
    BY <1>3, <2>2 DEF IInv, TypeOK, LockInv, InSave
  <2>4. LockInv' BY <2>3, SaveAssumption DEF LockInv, SaveAssumption
  <2>5. CopyInv' BY <2>2, <2>3 DEF IInv, CopyInv
  <2>6. TmpInv' BY DEF TmpInv
  <2> QED BY <1>2, <2>1, <2>4, <2>5, <2>6 DEF IInv
<1>8. CASE SaveFails(w)
  <2> USE <1>8 DEF SaveFails, Fails, Goes
  <2>1. TypeOK'
    <3>1. faults' \in 0..MaxFaults BY SaveAssumption DEF IInv, TypeOK, SaveAssumption
    <3>2. forgiven' \in Nat BY DEF IInv, TypeOK, Max2
    <3> QED BY <3>1, <3>2 DEF IInv, TypeOK
  <2>2. lock = w BY DEF IInv, LockInv, InSave
  <2>3. \A v \in Workers : ~InSave(v)'
    BY <1>3, <2>2 DEF IInv, TypeOK, LockInv, InSave
  <2>4. LockInv' BY <2>3, SaveAssumption DEF LockInv, SaveAssumption
  <2>5. CopyInv' BY <2>3 DEF IInv, CopyInv
  <2>6. TmpInv' BY <2>3 DEF TmpInv, InSave
  <2> QED BY <1>2, <2>1, <2>4, <2>5, <2>6 DEF IInv
<1>9. CASE RemoveTemp(w)
  <2> USE <1>9 DEF RemoveTemp, Goes, NoFile
  <2>1. TypeOK'
    <3>1. worker' \in [Workers ->
            [at : {"unborn", "created", "idle", "saving", "writing", "replacing", "failed", "gone"},
             copy : Nat]]
      BY DEF IInv, TypeOK
    <3>2. CASE tmp' = [there |-> FALSE, whole |-> FALSE]
      BY <3>1, <3>2 DEF IInv, TypeOK
    <3>3. CASE tmp' = tmp
      BY <3>1, <3>3 DEF IInv, TypeOK
    <3> QED BY <3>2, <3>3
  <2>2. ~InSave(w) /\ ~InSave(w)' BY DEF IInv, TypeOK, InSave
  <2>3. LockInv' BY <1>3, <2>2 DEF IInv, LockInv
  <2>4. CopyInv' BY <1>3, <2>2 DEF IInv, CopyInv
  <2>5. TmpInv' BY <1>3, <2>2 DEF IInv, TmpInv, InSave
  <2> QED BY <1>2, <2>1, <2>3, <2>4, <2>5 DEF IInv
<1> QED BY <1>4, <1>5, <1>6, <1>7, <1>8, <1>9 DEF SaveStep

LEMMA RestartKeeps ==
  ASSUME IInv, Restart
  PROVE  IInv'
<1> USE DEF Restart, NoFile
<1>1. TypeOK'
  <2>1. restarts' \in 0..MaxRestarts
    BY SaveAssumption DEF IInv, TypeOK, SaveAssumption
  <2>2. worker' \in [Workers ->
          [at : {"unborn", "created", "idle", "saving", "writing", "replacing", "failed", "gone"},
           copy : Nat]]
    BY DEF IInv, TypeOK
  <2>3. caller' \in [Callers -> [at : {"new", "added", "starting", "done"},
                                 starts : Workers \cup {None}]]
    BY DEF IInv, TypeOK
  <2>4. rows' \in [newest : Nat, made : Nat] /\ forgiven' \in Nat
    BY DEF IInv, TypeOK
  <2> QED BY <2>1, <2>2, <2>3, <2>4 DEF IInv, TypeOK
<1>2. StartInv' BY DEF IInv, TypeOK, StartInv, Starting
<1>3. \A w \in Workers : ~InSave(w)' BY DEF IInv, TypeOK, InSave
<1>4. LockInv' BY <1>3, SaveAssumption DEF LockInv, SaveAssumption
<1>5. CopyInv' BY <1>3 DEF IInv, TypeOK, CopyInv
<1>6. TmpInv' BY DEF TmpInv
<1> QED BY <1>1, <1>2, <1>4, <1>5, <1>6 DEF IInv

LEMMA StutterKeeps ==
  ASSUME IInv, UNCHANGED vars
  PROVE  IInv'
BY DEF vars, IInv, TypeOK, StartInv, Starting, LockInv, CopyInv, TmpInv, InSave

(* The save lock, the copies, the temporary file and the threads that are   *)
(* about to start fit together in every reachable state.                    *)
THEOREM Invariant == Spec => []IInv
<1>1. IInv /\ [Next]_vars => IInv'
  <2> SUFFICES ASSUME IInv, [Next]_vars PROVE IInv'
    OBVIOUS
  <2> QED BY CallerKeeps, SaveKeeps, RestartKeeps, StutterKeeps DEF Next
<1> QED BY InitIInv, <1>1, PTL DEF Spec

(* Every variable keeps its type.                                           *)
THEOREM TypeCorrect == Spec => []TypeOK
<1>1. IInv => TypeOK BY DEF IInv
<1> QED BY Invariant, <1>1, PTL

(* However many threads save, fail and are restarted (_save_history,        *)
(* _run_history_save_worker), the file never loses a row and is only ever   *)
(* replaced by one that was written to its end.                             *)
THEOREM FileIsKept == Spec => FileKeepsRows
<1>1. IInv /\ [Next]_vars => file' >= file /\ (file' # file => tmp.there /\ tmp.whole)
  <2> SUFFICES ASSUME IInv, [Next]_vars
               PROVE  file' >= file /\ (file' # file => tmp.there /\ tmp.whole)
    OBVIOUS
  <2>1. CASE \E w \in Workers : Replace(w)
    <3>1. PICK w \in Workers : Replace(w) BY <2>1
    <3>2. file <= worker[w].copy BY <3>1 DEF Replace, IInv, CopyInv, InSave
    <3>3. tmp.there /\ tmp.whole BY <3>1 DEF Replace, IInv, TmpInv
    <3> QED BY <3>1, <3>2, <3>3 DEF Replace, IInv, TypeOK
  <2>2. CASE UNCHANGED file
    BY <2>2 DEF IInv, TypeOK
  <2>3. (\E w \in Workers : Replace(w)) \/ UNCHANGED file
    BY DEF Next, CallerStep, SaveStep, AddRow, Schedule, Start, Loop, Open, Write,
           SaveFails, RemoveTemp, Restart, vars
  <2> QED BY <2>1, <2>2, <2>3
<1>2. [][IInv /\ [Next]_vars]_vars => FileKeepsRows
  BY <1>1, PTL DEF FileKeepsRows
<1> QED BY Invariant, <1>1, PTL DEF Spec, FileKeepsRows
=============================================================================
