----------------------------- MODULE SaveWorker -----------------------------
(***************************************************************************)
(* How the request manager saves its history (app/services/                *)
(* request_manager.py): whoever adds a row asks for a save; at most one    *)
(* thread is meant to save, and it saves once more when it was asked       *)
(* again meanwhile.  A save writes a temporary file and replaces the       *)
(* history's file by it.  The statistics are saved by a copy of this code. *)
(*                                                                         *)
(* Rows are numbered as they are added; of a list of rows, in memory or in *)
(* a file, only the number of its newest one is kept.                      *)
(***************************************************************************)
EXTENDS Naturals, FiniteSets

CONSTANTS Callers,    (* threads that end a request and add its row           *)
          Workers,    (* save threads that may be created                     *)
          None,       (* no thread                                            *)
          MaxFaults,  (* bound: saves that fail for a reason of their own     *)
          MaxRestarts (* bound: restarts of the process                       *)

ASSUME SaveAssumption ==
  /\ IsFiniteSet(Callers)
  /\ None \notin Workers
  /\ {MaxFaults, MaxRestarts} \subseteq Nat

VARIABLES
  rows,     (* the newest row in memory, and how many were ever made          *)
  caller,   (* where each caller is, and the thread it has to start           *)
  wanted,   (* _history_save_requested                                        *)
  slot,     (* _history_save_worker                                           *)
  worker,   (* where each save thread is, and the newest row it has copied    *)
  lock,     (* who holds _history_save_lock                                   *)
  tmp,      (* the temporary file: is it there, written to the end?           *)
  file,     (* the newest row in the history's file                           *)
  faults, restarts,
  forgiven  (* history: newest row that a failed save or a restart took along *)

vars == <<rows, caller, wanted, slot, worker, lock, tmp, file, faults, restarts, forgiven>>

Max2(a, b) == IF a > b THEN a ELSE b

NoFile == [there |-> FALSE, whole |-> FALSE]

Init ==
  /\ rows = [newest |-> 0, made |-> 0]
  /\ caller = [c \in Callers |-> [at |-> "new", starts |-> None]]
  /\ wanted = FALSE
  /\ slot = None
  /\ worker = [w \in Workers |-> [at |-> "unborn", copy |-> 0]]
  /\ lock = None
  /\ tmp = NoFile
  /\ file = 0
  /\ faults = 0 /\ restarts = 0
  /\ forgiven = 0

Goes(w, at) == worker' = [worker EXCEPT ![w].at = at]

-----------------------------------------------------------------------------
(* The callers.                                                             *)

AddRow(c) ==
  /\ caller[c].at = "new"
  /\ rows' = [newest |-> rows.made + 1, made |-> rows.made + 1]
  /\ caller' = [caller EXCEPT ![c].at = "added"]
  /\ UNCHANGED <<wanted, slot, worker, lock, tmp, file, faults, restarts, forgiven>>

(* is_alive: a thread that was created but not started yet is not.          *)
Alive(w) == w # None /\ worker[w].at \notin {"unborn", "created", "gone"}

(* Mutant: only a thread that is to be created is asked to save.            *)
ScheduleNew(c) ==
  /\ caller[c].at = "added"
  /\ IF Alive(slot)
     THEN caller' = [caller EXCEPT ![c].at = "done"] /\ UNCHANGED <<wanted, slot, worker>>
     ELSE \E w \in Workers :
            /\ worker[w].at = "unborn"
            /\ wanted' = TRUE
            /\ slot' = w
            /\ Goes(w, "created")
            /\ caller' = [caller EXCEPT ![c] = [at |-> "starting", starts |-> w]]
  /\ UNCHANGED <<rows, lock, tmp, file, faults, restarts, forgiven>>

(* _schedule_history_save, under _save_schedule_lock *)
Schedule(c) ==
  /\ caller[c].at = "added"
  /\ wanted' = TRUE
  /\ IF Alive(slot)
     THEN caller' = [caller EXCEPT ![c].at = "done"] /\ UNCHANGED <<slot, worker>>
     ELSE \E w \in Workers :
            /\ worker[w].at = "unborn"
            /\ slot' = w
            /\ Goes(w, "created")
            /\ caller' = [caller EXCEPT ![c] = [at |-> "starting", starts |-> w]]
  /\ UNCHANGED <<rows, lock, tmp, file, faults, restarts, forgiven>>

(* worker_to_start.start(), after the lock was dropped *)
Start(c) ==
  /\ caller[c].at = "starting"
  /\ Goes(caller[c].starts, "idle")
  /\ caller' = [caller EXCEPT ![c] = [at |-> "done", starts |-> None]]
  /\ UNCHANGED <<rows, wanted, slot, lock, tmp, file, faults, restarts, forgiven>>

-----------------------------------------------------------------------------
(* A save thread.                                                           *)

(* The head of its loop, under _save_schedule_lock.  A thread that ends     *)
(* empties the slot, whoever is in it.                                      *)
Loop(w) ==
  /\ worker[w].at = "idle"
  /\ IF wanted
     THEN wanted' = FALSE /\ Goes(w, "saving") /\ UNCHANGED slot
     ELSE slot' = None /\ Goes(w, "gone") /\ UNCHANGED wanted
  /\ UNCHANGED <<rows, caller, lock, tmp, file, faults, restarts, forgiven>>

(* Mutant: a save does not wait for the one in progress.                    *)
OpenAnyway(w) ==
  /\ worker[w].at = "saving"
  /\ lock' = w
  /\ worker' = [worker EXCEPT ![w] = [at |-> "writing", copy |-> rows.newest]]
  /\ tmp' = [there |-> TRUE, whole |-> FALSE]
  /\ UNCHANGED <<rows, caller, wanted, slot, file, faults, restarts, forgiven>>

(* The save lock, the copy of the rows, which is taken under it, and the    *)
(* temporary file opened for writing.                                       *)
Open(w) ==
  /\ worker[w].at = "saving"
  /\ lock = None
  /\ lock' = w
  /\ worker' = [worker EXCEPT ![w] = [at |-> "writing", copy |-> rows.newest]]
  /\ tmp' = [there |-> TRUE, whole |-> FALSE]
  /\ UNCHANGED <<rows, caller, wanted, slot, file, faults, restarts, forgiven>>

(* flush and fsync: the temporary file is written to its end.               *)
Write(w) ==
  /\ worker[w].at = "writing"
  /\ tmp' = [tmp EXCEPT !.whole = tmp.there]
  /\ Goes(w, "replacing")
  /\ UNCHANGED <<rows, caller, wanted, slot, lock, file, faults, restarts, forgiven>>

(* os.replace takes the place of the history's file; the lock is dropped.   *)
Replace(w) ==
  /\ worker[w].at = "replacing"
  /\ tmp.there
  /\ file' = worker[w].copy
  /\ tmp' = NoFile
  /\ lock' = None
  /\ Goes(w, "idle")
  /\ UNCHANGED <<rows, caller, wanted, slot, faults, restarts, forgiven>>

(* An exception drops the lock before its handler cleans up.                *)
Fails(w) ==
  /\ lock' = None
  /\ Goes(w, "failed")
  /\ forgiven' = Max2(forgiven, worker[w].copy)

(* The disk fails the save, or the temporary file is not there any more.    *)
SaveFails(w) ==
  /\ \/ /\ worker[w].at \in {"writing", "replacing"}
        /\ faults < MaxFaults
        /\ faults' = faults + 1
     \/ /\ worker[w].at = "replacing" /\ ~tmp.there
        /\ UNCHANGED faults
  /\ Fails(w)
  /\ UNCHANGED <<rows, caller, wanted, slot, tmp, file, restarts>>

(* The handler removes the temporary file, whosever it is by now; it stays  *)
(* when that fails too.                                                     *)
RemoveTemp(w) ==
  /\ worker[w].at = "failed"
  /\ tmp' \in {NoFile, tmp}
  /\ Goes(w, "idle")
  /\ UNCHANGED <<rows, caller, wanted, slot, lock, file, faults, restarts, forgiven>>

SaveStep(w) == Loop(w) \/ Open(w) \/ Write(w) \/ Replace(w) \/ SaveFails(w) \/ RemoveTemp(w)

-----------------------------------------------------------------------------
(* The process stops at any point; the next one removes the temporary file  *)
(* and loads the history.                                                   *)
Restart ==
  /\ restarts < MaxRestarts
  /\ restarts' = restarts + 1
  /\ rows' = [rows EXCEPT !.newest = file]
  /\ caller' = [c \in Callers |->
       [at |-> IF caller[c].at = "new" THEN "new" ELSE "done", starts |-> None]]
  /\ wanted' = FALSE
  /\ slot' = None
  /\ worker' = [w \in Workers |->
       [worker[w] EXCEPT !.at = IF @ = "unborn" THEN "unborn" ELSE "gone"]]
  /\ lock' = None
  /\ tmp' = NoFile
  /\ forgiven' = rows.made
  /\ UNCHANGED <<file, faults>>

CallerStep(c) == AddRow(c) \/ Schedule(c) \/ Start(c)

Next ==
  \/ \E c \in Callers : CallerStep(c)
  \/ \E w \in Workers : SaveStep(w)
  \/ Restart

(* A caller that added a row goes on, and so does a save thread.            *)
Fairness ==
  /\ \A c \in Callers : WF_vars(Schedule(c) \/ Start(c))
  /\ \A w \in Workers : WF_vars(SaveStep(w))

Spec == Init /\ [][Next]_vars /\ Fairness

-----------------------------------------------------------------------------
(* Properties.                                                              *)

(* The types; a temporary file that is written to its end is there.         *)
TypeOK ==
  /\ rows \in [newest : Nat, made : Nat]
  /\ caller \in [Callers -> [at : {"new", "added", "starting", "done"},
                             starts : Workers \cup {None}]]
  /\ wanted \in BOOLEAN
  /\ slot \in Workers \cup {None}
  /\ worker \in [Workers ->
       [at : {"unborn", "created", "idle", "saving", "writing", "replacing", "failed", "gone"},
        copy : Nat]]
  /\ lock \in Workers \cup {None}
  /\ tmp \in [there : BOOLEAN, whole : BOOLEAN] /\ (tmp.whole => tmp.there)
  /\ file \in Nat /\ faults \in 0..MaxFaults /\ restarts \in 0..MaxRestarts
  /\ forgiven \in Nat

(* The history's file never loses a row it had, and is never replaced by a  *)
(* file that is not written to its end: with two save threads, failed saves *)
(* and restarts at any point.                                               *)
FileKeepsRows ==
  [][/\ file' >= file
     /\ (file' # file => tmp.there /\ tmp.whole)]_vars

(* Every row reaches the file, with its own save or a later one, unless a   *)
(* save that had it failed, or the process was restarted: no request for a  *)
(* save is lost between the caller, the thread that ends and the slot.      *)
RowsLand ==
  \A n \in 1..Cardinality(Callers) : rows.newest >= n ~> file >= n \/ forgiven >= n
=============================================================================
