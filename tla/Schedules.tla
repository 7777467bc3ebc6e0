------------------------------ MODULE Schedules ------------------------------
(***************************************************************************)
(* The kernel's schedules: the store that keeps them in memory and writes  *)
(* them all to one file after every change, the runner's loop that fires   *)
(* them, the callers that add, remove, enable and disable them meanwhile,  *)
(* and the process ending at any moment.                                   *)
(*                                                                         *)
(* Each store call is one hold of the store's mutex and one action.  The   *)
(* loop's turn is a sequence of such calls with the execution between      *)
(* them.  A write that fails leaves the file as it was or torn, and a torn *)
(* file loads as no schedules at all.  When a cron or interval schedule is *)
(* due is not modelled: the loop may fire any one it watches.  Event and   *)
(* webhook schedules are never fired by the code: nothing feeds their      *)
(* channels.                                                               *)
(***************************************************************************)
EXTENDS Integers, FiniteSets

CONSTANTS
  Ids,           \* schedule ids, each added once
  Kind,          \* per id "cron", "interval" or "oneshot"
  MaxRuns,       \* per id its max_runs, NoMax when it has none
  OnFailure,     \* per id "ignore" (and alert), "disable" or "retry"
  MaxAttempts,   \* Retry's max_attempts
  NoMax,         \* bound: a schedule without max_runs is checked this far
  MaxFires,      \* bound: executions per schedule
  MaxFaults,     \* bound: writes that fail
  MaxCrashes     \* bound: times the process ends

ASSUME SchedulesAssumption ==
  /\ Kind \in [Ids -> {"cron", "interval", "oneshot"}]
  /\ MaxRuns \in [Ids -> Nat]
  /\ OnFailure \in [Ids -> {"ignore", "disable", "retry"}]
  /\ {MaxAttempts, NoMax, MaxFires, MaxFaults, MaxCrashes} \subseteq Nat

VARIABLES
  up,        \* the process runs
  mem,       \* the store's vector: an entry per stored id
  file,      \* schedules.json: the entries written last, or Torn
  watched,   \* ids the cron trigger and interval_next hold
  run,       \* where the runner is
  arrived,   \* one-shots whose time has come
  fired,     \* executions of each id, ever
  inProc,    \* per id its run count at load and its executions since
  failed,    \* ids whose failure should have ended them, in this process
  dirty,     \* a write failed since the file last was the memory
  faults, crashes

executions == <<fired, inProc, failed>>
bounds == <<faults, crashes>>
vars == <<up, mem, file, watched, run, arrived, executions, dirty, bounds>>

Gone == [stored |-> FALSE]
Fresh == [stored |-> TRUE, enabled |-> TRUE, runs |-> 0]
Torn == [torn |-> TRUE]
Empty == [s \in Ids |-> Gone]
Stored(s) == mem[s].stored
Enabled(s) == Stored(s) /\ mem[s].enabled
Down == [pc |-> "down"]
Loop == [pc |-> "loop"]

-----------------------------------------------------------------------------
(***************************************************************************)
(* The store.  Memory changes first; persist then writes all of it.        *)
(***************************************************************************)

Persist(m) ==
  \/ file' = m /\ dirty' = FALSE /\ UNCHANGED faults
  \/ /\ faults < MaxFaults /\ faults' = faults + 1
     /\ file' \in {file, Torn} /\ dirty' = TRUE

Store(m) == mem' = m /\ Persist(m)

With(s, e) == [mem EXCEPT ![s] = e]

\* Mutant of UpdateEntry: memory is changed and the file is not written.
UpdateUnsaved(s, e) ==
  /\ mem' = IF Stored(s) THEN With(s, e) ELSE mem
  /\ UNCHANGED <<file, dirty, faults>>

\* update: in place, and nothing when the id is not stored.
UpdateEntry(s, e) ==
  IF Stored(s) THEN Store(With(s, e)) ELSE UNCHANGED <<mem, file, dirty, faults>>

SetEnabled(s, b) ==
  UpdateEntry(s, IF Stored(s) THEN [mem[s] EXCEPT !.enabled = b] ELSE Gone)

-----------------------------------------------------------------------------
(***************************************************************************)
(* Callers of the store, on any thread while the runner is anywhere.       *)
(***************************************************************************)

Caller == up /\ UNCHANGED <<up, watched, run, arrived, fired, inProc, crashes>>

\* add leaves the entry in memory also when it returns the error.
Add(s) ==
  /\ Caller /\ ~Stored(s) /\ fired[s] = 0
  /\ Store(With(s, Fresh))
  /\ UNCHANGED failed

Remove(s) ==
  /\ Caller /\ Stored(s)
  /\ Store(With(s, Gone))
  /\ UNCHANGED failed

Enable(s) ==
  /\ Caller /\ Stored(s)
  /\ SetEnabled(s, TRUE)
  /\ failed' = failed \ {s}

Disable(s) ==
  /\ Caller /\ Stored(s)
  /\ SetEnabled(s, FALSE)
  /\ UNCHANGED failed

-----------------------------------------------------------------------------
(***************************************************************************)
(* The runner.                                                             *)
(***************************************************************************)

Runner == up /\ UNCHANGED <<up, crashes>>
StoreUnchanged == UNCHANGED <<mem, file, dirty, faults>>

\* register_enabled_schedules copies the enabled entries, and then writes the
\* copy of each cron entry back with its next_run.
ListEnabled ==
  /\ Runner /\ run.pc = "start"
  /\ run' = [pc |-> "register",
             todo |-> {[id |-> s, copy |-> mem[s]] :
                         s \in {i \in Ids : Enabled(i) /\ Kind[i] = "cron"}}]
  /\ StoreUnchanged /\ UNCHANGED <<watched, arrived, executions>>

RegisterCron ==
  /\ Runner /\ run.pc = "register"
  /\ \E r \in run.todo :
       /\ run' = [run EXCEPT !.todo = @ \ {r}]
       /\ watched' = watched \cup {r.id}
       /\ UpdateEntry(r.id, r.copy)
  /\ UNCHANGED <<arrived, executions>>

\* initialize_interval_schedules; the loop begins.
InitializeIntervals ==
  /\ Runner /\ run.pc = "register" /\ run.todo = {}
  /\ run' = Loop
  /\ watched' = watched \cup {s \in Ids : Enabled(s) /\ Kind[s] = "interval"}
  /\ StoreUnchanged /\ UNCHANGED <<arrived, executions>>

TimeComes(s) ==
  /\ Kind[s] = "oneshot" /\ s \notin arrived
  /\ arrived' = arrived \cup {s}
  /\ UNCHANGED <<up, mem, file, watched, run, executions, dirty, bounds>>

Exhausted(e, s) == MaxRuns[s] < NoMax /\ e.runs >= MaxRuns[s]

Due(s) == s \in watched \/ (Kind[s] = "oneshot" /\ s \in arrived)

\* Once fire_schedule returns, the loop disables a one-shot, fired or not.
AfterFire(s) == IF Kind[s] = "oneshot" THEN [pc |-> "oneshot", id |-> s] ELSE Loop

\* fire_schedule up to the execution: the entry is read once, and kept.
Fire(s) ==
  /\ Runner /\ run = Loop
  /\ Due(s) /\ Enabled(s)
  /\ fired[s] < MaxFires
  /\ IF Exhausted(mem[s], s)
     THEN SetEnabled(s, FALSE) /\ run' = AfterFire(s)
     ELSE /\ run' = [pc |-> "execute", id |-> s, entry |-> mem[s]]
          /\ StoreUnchanged
  /\ UNCHANGED <<watched, arrived, executions>>

\* The execution, or the error before it; the failure policy reads the
\* entry's count from before this run.
EndsIt(s, e) ==
  \/ OnFailure[s] = "disable"
  \/ OnFailure[s] = "retry" /\ e.runs >= MaxAttempts

Execute(success) ==
  LET s == run.id IN
  /\ Runner /\ run.pc = "execute"
  /\ run' = [pc |-> "record", id |-> s, entry |-> run.entry, ok |-> success]
  /\ fired' = [fired EXCEPT ![s] = @ + 1]
  /\ inProc' = [inProc EXCEPT ![s] = @ + 1]
  /\ failed' = IF ~success /\ EndsIt(s, run.entry) THEN failed \cup {s}
               ELSE failed
  /\ StoreUnchanged /\ UNCHANGED <<watched, arrived>>

Counted(e) == [e EXCEPT !.runs = @ + 1]

\* record_run: one run more, and the last allowed one disables.
RecordRun ==
  LET s == run.id
      counted == Counted(mem[s])
  IN
  /\ Runner /\ run.pc = "record"
  /\ Store(IF ~Stored(s) THEN mem
           ELSE With(s, [counted EXCEPT !.enabled =
                           @ /\ ~Exhausted(counted, s)]))
  /\ run' = [run EXCEPT !.pc = IF Kind[s] = "cron" THEN "reread" ELSE "policy"]
  /\ UNCHANGED <<watched, arrived, executions>>

\* A cron schedule's next_run: get, then update, in two holds of the mutex.
Reread == IF Stored(run.id) THEN mem[run.id] ELSE run.entry

GetForUpdate ==
  /\ Runner /\ run.pc = "reread"
  /\ run' = [pc |-> "update", id |-> run.id, entry |-> run.entry,
             ok |-> run.ok, copy |-> Reread]
  /\ StoreUnchanged /\ UNCHANGED <<watched, arrived, executions>>

UpdateNextRun ==
  /\ Runner /\ run.pc = "update"
  /\ UpdateEntry(run.id, run.copy)
  /\ run' = [pc |-> "policy", id |-> run.id, entry |-> run.entry, ok |-> run.ok]
  /\ UNCHANGED <<watched, arrived, executions>>

\* handle_failure_policy.
Ends(s, e) == EndsIt(s, e)

FailurePolicy ==
  LET s == run.id IN
  /\ Runner /\ run.pc = "policy"
  /\ IF ~run.ok /\ Ends(s, run.entry) THEN SetEnabled(s, FALSE)
     ELSE StoreUnchanged
  /\ run' = AfterFire(s)
  /\ UNCHANGED <<watched, arrived, executions>>

DisableOneShot ==
  /\ Runner /\ run.pc = "oneshot"
  /\ SetEnabled(run.id, FALSE)
  /\ run' = Loop
  /\ UNCHANGED <<watched, arrived, executions>>

-----------------------------------------------------------------------------
Crash ==
  /\ up /\ crashes < MaxCrashes /\ crashes' = crashes + 1
  /\ up' = FALSE /\ run' = Down /\ mem' = Empty /\ watched' = {}
  /\ UNCHANGED <<file, arrived, executions, dirty, faults>>

\* ScheduleStore::new: a file that does not parse is an empty vector.
Loaded == IF file = Torn THEN Empty ELSE file

Restart ==
  /\ ~up /\ up' = TRUE
  /\ mem' = Loaded
  /\ run' = [pc |-> "start"]
  /\ inProc' = [s \in Ids |-> IF Loaded[s].stored THEN Loaded[s].runs ELSE 0]
  /\ failed' = {}
  /\ dirty' = (file = Torn)
  /\ UNCHANGED <<file, watched, arrived, fired, faults, crashes>>

Init ==
  /\ up = TRUE /\ mem = Empty /\ file = Empty /\ watched = {}
  /\ run = [pc |-> "start"] /\ arrived = {}
  /\ fired = [s \in Ids |-> 0]
  /\ inProc = [s \in Ids |-> 0]
  /\ failed = {} /\ dirty = FALSE
  /\ faults = 0 /\ crashes = 0

RunnerStep ==
  \/ ListEnabled \/ RegisterCron \/ InitializeIntervals
  \/ \E b \in BOOLEAN : Execute(b)
  \/ RecordRun \/ GetForUpdate \/ UpdateNextRun
  \/ FailurePolicy \/ DisableOneShot

Next ==
  \/ RunnerStep
  \/ \E s \in Ids : Fire(s) \/ TimeComes(s)
  \/ \E s \in Ids : Add(s) \/ Remove(s) \/ Enable(s) \/ Disable(s)
  \/ Crash \/ Restart

Spec == Init /\ [][Next]_vars

\* The loop is a task that always runs again, and each of its turns reaches
\* every watched schedule that is due: neither starves the other.
FairSpec ==
  /\ Spec
  /\ WF_vars(RunnerStep)
  /\ \A s \in Ids : SF_vars(Fire(s))

-----------------------------------------------------------------------------
(***************************************************************************)
(* Properties.                                                             *)
(***************************************************************************)

Entries == {Gone} \cup [stored : {TRUE}, enabled : BOOLEAN, runs : 0..MaxFires]

\* The type of the state.
TypeOK ==
  /\ up \in BOOLEAN /\ dirty \in BOOLEAN
  /\ mem \in [Ids -> Entries]
  /\ file = Torn \/ file \in [Ids -> Entries]
  /\ {watched, arrived, failed} \subseteq SUBSET Ids
  /\ fired \in [Ids -> 0..MaxFires]
  /\ run.pc \in {"down", "start", "register", "loop", "execute", "record",
                 "reread", "update", "policy", "oneshot"}

\* Whatever callers and the runner do in whatever order, the file is the
\* memory as long as no write failed: no call changes a schedule and leaves
\* the file behind.
FileIsMemory == up /\ ~dirty => file = mem

\* A schedule executes at most max_runs times within a process, counting the
\* runs it loaded: also when callers enable it again as often as they like
\* and when writes fail.
MaxRunsHold ==
  \A s \in Ids : up /\ MaxRuns[s] < NoMax => inProc[s] <= MaxRuns[s]

\* A schedule whose failure policy ended it executes no more in this process
\* until a caller enables it.
FailureEndsIt ==
  \A s \in Ids : fired'[s] # fired[s] => s \notin failed

\* The schedules' file and their limit of runs hold.
SchedulesHold == FileIsMemory /\ MaxRunsHold
=============================================================================
