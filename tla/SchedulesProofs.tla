--------------------------- MODULE SchedulesProofs ---------------------------
(***************************************************************************)
(* Proofs, for every set of schedules and every limit of runs, of what      *)
(* module Schedules states of the store and its file.  That a schedule      *)
(* keeps to its max_runs is inductive only with what the runner has in its  *)
(* hands: the count in memory is the count of executions but for the one    *)
(* not yet recorded, and a copy that the runner writes back carries the     *)
(* count of the entry it replaces.                                          *)
(*                                                                          *)
(* The second part is about the agents that are run: places, fuel and       *)
(* audited rest.                                                            *)
(***************************************************************************)
EXTENDS Schedules, Sequences, FiniteSetTheorems, TLAPS

StoredEntry == [stored : {TRUE}, enabled : BOOLEAN, runs : Nat]
Vectors == [Ids -> {Gone} \cup StoredEntry]

\* The runner's places, with what it carries from one hold of the mutex to
\* the next.
RunnerAt ==
  \/ run.pc \in {"down", "start", "loop"}
  \/ run \in [pc : {"register"}, todo : SUBSET [id : Ids, copy : StoredEntry]]
  \/ run \in [pc : {"execute"}, id : Ids, entry : StoredEntry]
  \/ run \in [pc : {"record", "reread", "policy"}, id : Ids, entry : StoredEntry,
              ok : BOOLEAN]
  \/ run \in [pc : {"update"}, id : Ids, entry : StoredEntry, ok : BOOLEAN,
              copy : StoredEntry]
  \/ run \in [pc : {"oneshot"}, id : Ids]

ShapeInv ==
  /\ mem \in Vectors
  /\ fired \in [Ids -> Nat] /\ inProc \in [Ids -> Nat]
  /\ RunnerAt

Limited(s, n) == MaxRuns[s] < NoMax => n <= MaxRuns[s]

\* The executions of this process, and those counted before it.
CountInv == \A s \in Ids : inProc[s] <= fired[s] /\ Limited(s, inProc[s])

Unrecorded(s) == run.pc = "record" /\ run.id = s

\* The count in memory is the count of executions.
MemoryInv ==
  \A s \in Ids : mem[s].stored =>
    mem[s].runs = IF Unrecorded(s) THEN inProc[s] - 1 ELSE inProc[s]

\* What the runner carries is as good as what is in memory.
RunnerInv ==
  /\ run.pc = "register" => \A r \in run.todo : r.copy.runs = inProc[r.id]
  /\ run.pc = "execute" /\ MaxRuns[run.id] < NoMax => inProc[run.id] < MaxRuns[run.id]
  /\ run.pc \in {"record", "reread", "update", "policy"} => fired[run.id] > 0
  /\ run.pc = "record" => inProc[run.id] > 0
  /\ run.pc = "update" /\ mem[run.id].stored => run.copy.runs = inProc[run.id]

\* The entries of a vector count no execution that was not, and keep to their limits.
Kept(m, executed) ==
  /\ m \in Vectors
  /\ \A s \in Ids : m[s].stored => m[s].runs <= executed[s] /\ Limited(s, m[s].runs)

FileInv == FileIsMemory /\ (file # Torn => Kept(file, fired))

SchedInv == ShapeInv /\ CountInv /\ MemoryInv /\ RunnerInv /\ FileInv

\* What is stored is an entry.
LEMMA StoredIsEntry ==
  ASSUME NEW v \in Vectors, NEW s \in Ids, v[s].stored
  PROVE  v[s] \in StoredEntry /\ v[s].runs \in Nat
  <1>1. v[s] \in {Gone} \cup StoredEntry
    BY DEF Vectors
  <1>2. v[s] # Gone
    <2>1. ~Gone.stored
      BY DEF Gone
    <2>. QED
      BY <2>1, Zenon
  <1>3. v[s] \in StoredEntry
    BY <1>1, <1>2
  <1>. QED
    BY <1>3 DEF StoredEntry

\* No schedule is stored at first, and none has run.
LEMMA InitSchedInv == ASSUME Init PROVE SchedInv
  <1>1. Empty \in Vectors /\ \A s \in Ids : ~Empty[s].stored
    BY DEF Empty, Vectors, Gone
  <1>2. ShapeInv
    BY <1>1 DEF Init, ShapeInv, RunnerAt
  <1>3. CountInv
    BY SchedulesAssumption DEF Init, CountInv, Limited
  <1>4. MemoryInv /\ RunnerInv
    BY <1>1 DEF Init, MemoryInv, RunnerInv
  <1>5. FileInv
    BY <1>1 DEF Init, FileInv, FileIsMemory, Kept
  <1>. QED
    BY <1>2, <1>3, <1>4, <1>5 DEF SchedInv

\* A step of the store that leaves memory within its limits leaves the file so:
\* the file is that memory, or it is torn, or a failed write left it alone.
LEMMA StoreKeepsFile ==
  ASSUME FileInv, ShapeInv', CountInv', MemoryInv', RunnerInv', up' = up,
         \A s \in Ids : fired'[s] >= fired[s],
         fired \in [Ids -> Nat],
         StoreUnchanged \/ \E m : Store(m)
  PROVE  FileInv'
  <1>1. Kept(mem', fired')
    <2>1. mem' \in Vectors
      BY DEF ShapeInv
    <2>2. ASSUME NEW s \in Ids, mem'[s].stored
          PROVE  mem'[s].runs <= fired'[s] /\ Limited(s, mem'[s].runs)
      <3>1. mem'[s].runs \in Nat /\ inProc'[s] \in Nat /\ fired'[s] \in Nat
        BY <2>1, <2>2, StoredIsEntry DEF ShapeInv
      <3>2. inProc'[s] <= fired'[s] /\ Limited(s, inProc'[s])
        BY DEF CountInv, Limited
      <3>3. mem'[s].runs <= inProc'[s]
        BY <2>2, <3>1 DEF MemoryInv
      <3>4. MaxRuns[s] \in Nat
        BY SchedulesAssumption
      <3>. QED
        BY <3>1, <3>2, <3>3, <3>4 DEF Limited
    <2>. QED
      BY <2>1, <2>2 DEF Kept
  <1>2. file # Torn => Kept(file, fired')
    <2>. SUFFICES ASSUME file # Torn, Kept(file, fired) PROVE Kept(file, fired')
      BY DEF FileInv
    <2>1. ASSUME NEW s \in Ids, file[s].stored PROVE file[s].runs <= fired'[s]
      <3>1. file[s].runs \in Nat /\ file[s].runs <= fired[s]
        BY <2>1, StoredIsEntry DEF Kept
      <3>. QED
        BY <3>1 DEF ShapeInv
    <2>. QED
      BY <2>1 DEF Kept
  <1>3. file' = mem' \/ file' = Torn \/ file' = file
    BY DEF Store, Persist, StoreUnchanged
  <1>4. FileIsMemory'
    BY DEF Store, Persist, StoreUnchanged, FileInv, FileIsMemory
  <1>. QED
    BY <1>1, <1>2, <1>3, <1>4 DEF FileInv

-----------------------------------------------------------------------------
(***************************************************************************)
(* What a step of the store does to memory.                                 *)
(***************************************************************************)

\* What is stored afterwards was stored before, with the same count.
SameCounts ==
  \A i \in Ids : mem'[i].stored => mem[i].stored /\ mem'[i].runs = mem[i].runs

InStore == StoreUnchanged \/ \E m : Store(m)

\* An entry in place of another.
LEMMA WithEntry ==
  ASSUME mem \in Vectors, NEW s \in Ids, NEW e \in {Gone} \cup StoredEntry
  PROVE  /\ With(s, e) \in Vectors
         /\ With(s, e)[s] = e
         /\ \A i \in Ids \ {s} : With(s, e)[i] = mem[i]
  BY DEF With, Vectors

\* update leaves the other entries, and an id that is not stored.
LEMMA UpdateDoes ==
  ASSUME mem \in Vectors, NEW s \in Ids, NEW e,
         mem[s].stored => e \in {Gone} \cup StoredEntry, UpdateEntry(s, e)
  PROVE  /\ mem' \in Vectors /\ InStore
         /\ \A i \in Ids \ {s} : mem'[i] = mem[i]
         /\ mem'[s] = IF mem[s].stored THEN e ELSE mem[s]
  <1>1. CASE mem[s].stored
    <2>1. Store(With(s, e)) /\ mem' = With(s, e)
      BY <1>1 DEF UpdateEntry, Stored, Store
    <2>. QED
      BY <1>1, <2>1, WithEntry DEF InStore
  <1>2. CASE ~mem[s].stored
    BY <1>2 DEF UpdateEntry, Stored, InStore, StoreUnchanged
  <1>. QED
    BY <1>1, <1>2

\* set_enabled changes no count.
LEMMA SetEnabledDoes ==
  ASSUME mem \in Vectors, NEW s \in Ids, NEW b \in BOOLEAN, SetEnabled(s, b)
  PROVE  mem' \in Vectors /\ InStore /\ SameCounts
  <1>1. CASE mem[s].stored
    <2>. DEFINE e == [mem[s] EXCEPT !.enabled = b]
    <2>1. mem[s] \in StoredEntry
      BY <1>1, StoredIsEntry
    <2>2. e \in StoredEntry /\ e.runs = mem[s].runs
      BY <2>1 DEF StoredEntry
    <2>3. UpdateEntry(s, e)
      BY <1>1 DEF SetEnabled, Stored
    <2>4. /\ mem' \in Vectors /\ InStore
          /\ \A i \in Ids \ {s} : mem'[i] = mem[i]
          /\ mem'[s] = e
      <3>. HIDE DEF e
      <3>. QED
        BY <1>1, <2>2, <2>3, UpdateDoes
    <2>5. SameCounts
      <3>. HIDE DEF e
      <3>. QED
        BY <1>1, <2>2, <2>4 DEF SameCounts
    <2>. QED
      BY <2>4, <2>5
  <1>2. CASE ~mem[s].stored
    BY <1>2 DEF SetEnabled, UpdateEntry, Stored, InStore, StoreUnchanged, SameCounts
  <1>. QED
    BY <1>1, <1>2

\* A step that changes no count and moves the runner past no record.
LEMMA SameCountsKeepInv ==
  ASSUME SchedInv, InStore, SameCounts, mem' \in Vectors,
         UNCHANGED <<up, fired, inProc>>, RunnerAt', RunnerInv',
         \A s \in Ids : Unrecorded(s)' <=> Unrecorded(s)
  PROVE  SchedInv'
  <1>1. ShapeInv'
    BY DEF SchedInv, ShapeInv
  <1>2. CountInv'
    BY DEF SchedInv, CountInv, Limited
  <1>3. MemoryInv'
    BY DEF SchedInv, MemoryInv, SameCounts
  <1>4. FileInv'
    BY <1>1, <1>2, <1>3, StoreKeepsFile DEF SchedInv, ShapeInv, InStore
  <1>. QED
    BY <1>1, <1>2, <1>3, <1>4 DEF SchedInv
-----------------------------------------------------------------------------
(***************************************************************************)
(* Callers.                                                                 *)
(***************************************************************************)

\* A caller that changes no count: the runner is where it was.
LEMMA CallerSameCounts ==
  ASSUME SchedInv, Caller, InStore, SameCounts, mem' \in Vectors
  PROVE  SchedInv'
  <1>1. RunnerAt' /\ RunnerInv' /\ \A s \in Ids : Unrecorded(s)' <=> Unrecorded(s)
    <2>1. run' = run /\ fired' = fired /\ inProc' = inProc
      BY DEF Caller
    <2>2. RunnerAt'
      BY <2>1 DEF SchedInv, ShapeInv, RunnerAt
    <2>3. run.pc = "update" => run.id \in Ids
      BY DEF SchedInv, ShapeInv, RunnerAt
    <2>4. RunnerInv'
      BY <2>1, <2>3 DEF SchedInv, RunnerInv, SameCounts
    <2>. QED
      BY <2>1, <2>2, <2>4 DEF Unrecorded
  <1>. QED
    BY <1>1, SameCountsKeepInv DEF Caller

\* add: an id that never ran begins with no runs.
LEMMA AddKeepsInv ==
  ASSUME SchedInv, NEW s \in Ids, Add(s) PROVE SchedInv'
  <1>1. run' = run /\ fired' = fired /\ inProc' = inProc /\ up' = up /\ fired[s] = 0
    BY DEF Add, Caller
  <1>2. Fresh \in StoredEntry /\ Fresh.runs = 0
    BY DEF Fresh, StoredEntry
  <1>3. mem' = With(s, Fresh) /\ InStore
    BY DEF Add, Store, InStore
  <1>4. /\ mem' \in Vectors
        /\ mem'[s] = Fresh /\ \A i \in Ids \ {s} : mem'[i] = mem[i]
    BY <1>2, <1>3, WithEntry DEF SchedInv, ShapeInv
  <1>5. inProc[s] = 0
    BY <1>1 DEF SchedInv, ShapeInv, CountInv
  <1>6. ShapeInv'
    BY <1>1, <1>4 DEF SchedInv, ShapeInv, RunnerAt
  <1>7. CountInv'
    BY <1>1 DEF SchedInv, CountInv, Limited
  <1>8. ~Unrecorded(s)
    BY <1>1 DEF SchedInv, RunnerInv, Unrecorded
  <1>9. MemoryInv'
    BY <1>1, <1>2, <1>4, <1>5, <1>8 DEF SchedInv, MemoryInv, Unrecorded
  <1>10. RunnerInv'
    <2>1. run.pc = "update" => run.id \in Ids /\ run.id # s
      BY <1>1 DEF SchedInv, ShapeInv, RunnerAt, RunnerInv
    <2>. QED
      BY <1>1, <1>4, <2>1 DEF SchedInv, RunnerInv
  <1>11. FileInv'
    BY <1>1, <1>3, <1>6, <1>7, <1>9, <1>10, StoreKeepsFile DEF SchedInv, ShapeInv, InStore
  <1>. QED
    BY <1>6, <1>7, <1>9, <1>10, <1>11 DEF SchedInv

LEMMA CallersKeepInv ==
  ASSUME SchedInv, NEW s \in Ids,
         Add(s) \/ Remove(s) \/ Enable(s) \/ Disable(s)
  PROVE  SchedInv'
  <1>. USE DEF SchedInv, ShapeInv
  <1>1. CASE Add(s)
    BY <1>1, AddKeepsInv
  <1>2. CASE Remove(s)
    <2>1. mem' = With(s, Gone) /\ InStore
      BY <1>2 DEF Remove, Store, InStore
    <2>2. /\ mem' \in Vectors
          /\ mem'[s] = Gone /\ \A i \in Ids \ {s} : mem'[i] = mem[i]
      BY <2>1, WithEntry
    <2>3. ~Gone.stored
      BY DEF Gone
    <2>4. SameCounts
      BY <2>2, <2>3 DEF SameCounts
    <2>. QED
      BY <1>2, <2>1, <2>2, <2>4, CallerSameCounts DEF Remove
  <1>3. CASE Enable(s)
    BY <1>3, SetEnabledDoes, CallerSameCounts DEF Enable
  <1>4. CASE Disable(s)
    BY <1>4, SetEnabledDoes, CallerSameCounts DEF Disable
  <1>. QED
    BY <1>1, <1>2, <1>3, <1>4
-----------------------------------------------------------------------------
(***************************************************************************)
(* The runner.                                                              *)
(***************************************************************************)

\* What the runner carries at each place.
LEMMA RunnerCarries ==
  ASSUME RunnerAt
  PROVE  /\ run.pc = "register" =>
              run \in [pc : {"register"}, todo : SUBSET [id : Ids, copy : StoredEntry]]
         /\ run.pc = "execute" => run \in [pc : {"execute"}, id : Ids, entry : StoredEntry]
         /\ run.pc \in {"record", "reread", "policy"} =>
              run \in [pc : {"record", "reread", "policy"}, id : Ids, entry : StoredEntry,
                       ok : BOOLEAN]
         /\ run.pc = "update" =>
              run \in [pc : {"update"}, id : Ids, entry : StoredEntry, ok : BOOLEAN,
                       copy : StoredEntry]
         /\ run.pc = "oneshot" => run \in [pc : {"oneshot"}, id : Ids]
  BY DEF RunnerAt

\* A step of the runner that changes no count and is not about a record.
LEMMA RunnerSameCounts ==
  ASSUME SchedInv, Runner, InStore, SameCounts, mem' \in Vectors,
         UNCHANGED <<fired, inProc>>, RunnerAt', RunnerInv',
         run.pc # "record", run'.pc # "record"
  PROVE  SchedInv'
  BY SameCountsKeepInv DEF Runner, Unrecorded

\* register_enabled_schedules: the copies are of this memory, and writing one
\* back restores the count it has.
LEMMA RegisterKeepsInv ==
  ASSUME SchedInv, ListEnabled \/ RegisterCron \/ InitializeIntervals
  PROVE  SchedInv'
  <1>. USE DEF SchedInv, ShapeInv
  <1>1. CASE ListEnabled
    <2>. DEFINE todo == {[id |-> s, copy |-> mem[s]] :
                           s \in {i \in Ids : Enabled(i) /\ Kind[i] = "cron"}}
    <2>1. run' = [pc |-> "register", todo |-> todo] /\ run.pc = "start"
      BY <1>1 DEF ListEnabled
    <2>2. \A r \in todo : r \in [id : Ids, copy : StoredEntry] /\ r.copy.runs = inProc[r.id]
      <3>. SUFFICES ASSUME NEW s \in Ids, Enabled(s)
                    PROVE  [id |-> s, copy |-> mem[s]] \in [id : Ids, copy : StoredEntry]
                           /\ mem[s].runs = inProc[s]
        OBVIOUS
      <3>1. mem[s] \in StoredEntry
        BY StoredIsEntry DEF Enabled, Stored
      <3>2. mem[s].runs = inProc[s]
        BY <2>1 DEF Enabled, Stored, MemoryInv, Unrecorded
      <3>. QED
        BY <3>1, <3>2
    <2>. HIDE DEF todo
    <2>3. RunnerAt'
      BY <2>1, <2>2 DEF RunnerAt
    <2>4. UNCHANGED <<mem, fired, inProc>> /\ StoreUnchanged /\ Runner
      BY <1>1 DEF ListEnabled, StoreUnchanged, executions
    <2>5. RunnerInv'
      BY <2>1, <2>2, <2>4 DEF RunnerInv
    <2>6. SameCounts /\ InStore /\ mem' \in Vectors
      BY <2>4 DEF SameCounts, InStore
    <2>. QED
      BY <2>1, <2>3, <2>4, <2>5, <2>6, RunnerSameCounts
  <1>2. CASE RegisterCron
    <2>1. PICK r \in run.todo : /\ run' = [run EXCEPT !.todo = @ \ {r}]
                                /\ UpdateEntry(r.id, r.copy)
      BY <1>2 DEF RegisterCron
    <2>2. run \in [pc : {"register"}, todo : SUBSET [id : Ids, copy : StoredEntry]]
      BY <1>2, RunnerCarries DEF RegisterCron
    <2>3. r.id \in Ids /\ r.copy \in StoredEntry /\ r.copy.runs = inProc[r.id]
      BY <2>2 DEF RunnerInv
    <2>4. /\ mem' \in Vectors /\ InStore
          /\ \A i \in Ids \ {r.id} : mem'[i] = mem[i]
          /\ mem'[r.id] = IF mem[r.id].stored THEN r.copy ELSE mem[r.id]
      BY <2>1, <2>3, UpdateDoes
    <2>5. mem[r.id].stored => mem[r.id].runs = inProc[r.id]
      BY <2>2, <2>3 DEF MemoryInv, Unrecorded
    <2>6. SameCounts
      BY <2>3, <2>4, <2>5 DEF SameCounts
    <2>7. run'.pc = "register" /\ run'.todo \subseteq run.todo
          /\ run' \in [pc : {"register"}, todo : SUBSET [id : Ids, copy : StoredEntry]]
      BY <2>1, <2>2
    <2>8. RunnerAt'
      BY <2>7 DEF RunnerAt
    <2>9. UNCHANGED <<fired, inProc>> /\ Runner
      BY <1>2 DEF RegisterCron, executions
    <2>10. RunnerInv'
      BY <2>2, <2>7, <2>9 DEF RunnerInv
    <2>. QED
      BY <2>2, <2>4, <2>6, <2>7, <2>8, <2>9, <2>10, RunnerSameCounts
  <1>3. CASE InitializeIntervals
    <2>1. run'.pc = "loop" /\ run.pc = "register"
      BY <1>3 DEF InitializeIntervals, Loop
    <2>2. RunnerAt' /\ RunnerInv'
      BY <2>1 DEF RunnerAt, RunnerInv
    <2>3. UNCHANGED <<mem, fired, inProc>> /\ StoreUnchanged /\ Runner
      BY <1>3 DEF InitializeIntervals, StoreUnchanged, executions
    <2>4. SameCounts /\ InStore /\ mem' \in Vectors
      BY <2>3 DEF SameCounts, InStore
    <2>. QED
      BY <2>1, <2>2, <2>3, <2>4, RunnerSameCounts
  <1>. QED
    BY <1>1, <1>2, <1>3

\* fire_schedule: what is fired has a run left.
LEMMA FireKeepsInv ==
  ASSUME SchedInv, NEW s \in Ids, Fire(s) PROVE SchedInv'
  <1>. USE DEF SchedInv, ShapeInv
  <1>0. run.pc = "loop" /\ Runner /\ UNCHANGED <<fired, inProc>> /\ mem[s].stored
    BY DEF Fire, Loop, executions, Enabled, Stored
  <1>1. CASE Exhausted(mem[s], s)
    <2>1. SetEnabled(s, FALSE) /\ (run' = Loop \/ run' = [pc |-> "oneshot", id |-> s])
      BY <1>1 DEF Fire, AfterFire
    <2>2. mem' \in Vectors /\ InStore /\ SameCounts
      BY <2>1, SetEnabledDoes
    <2>3. RunnerAt' /\ RunnerInv' /\ run'.pc # "record"
      BY <2>1 DEF RunnerAt, RunnerInv, Loop
    <2>. QED
      BY <1>0, <2>2, <2>3, RunnerSameCounts
  <1>2. CASE ~Exhausted(mem[s], s)
    <2>1. run' = [pc |-> "execute", id |-> s, entry |-> mem[s]] /\ StoreUnchanged
      BY <1>2 DEF Fire
    <2>2. mem[s] \in StoredEntry /\ mem[s].runs \in Nat /\ mem[s].runs = inProc[s]
      BY <1>0, StoredIsEntry DEF MemoryInv, Unrecorded
    <2>3. RunnerAt'
      BY <2>1, <2>2 DEF RunnerAt
    <2>4. MaxRuns[s] < NoMax => inProc[s] < MaxRuns[s]
      BY <1>2, <2>2, SchedulesAssumption DEF Exhausted
    <2>5. RunnerInv'
      BY <1>0, <2>1, <2>4 DEF RunnerInv
    <2>6. SameCounts /\ InStore /\ mem' \in Vectors
      BY <2>1 DEF StoreUnchanged, SameCounts, InStore
    <2>. QED
      BY <1>0, <2>1, <2>3, <2>5, <2>6, RunnerSameCounts
  <1>. QED
    BY <1>1, <1>2

\* The execution is counted in memory by the record that follows it.
LEMMA ExecuteKeepsInv ==
  ASSUME SchedInv, NEW b \in BOOLEAN, Execute(b) PROVE SchedInv'
  <1>. USE DEF SchedInv, ShapeInv
  <1>. DEFINE s == run.id
  <1>1. run \in [pc : {"execute"}, id : Ids, entry : StoredEntry]
    BY RunnerCarries DEF Execute
  <1>2. /\ run' = [pc |-> "record", id |-> s, entry |-> run.entry, ok |-> b]
        /\ fired' = [fired EXCEPT ![s] = @ + 1]
        /\ inProc' = [inProc EXCEPT ![s] = @ + 1]
        /\ up' = up /\ mem' = mem /\ StoreUnchanged
    BY DEF Execute, Runner, StoreUnchanged
  <1>3. s \in Ids /\ fired[s] \in Nat /\ inProc[s] \in Nat /\ MaxRuns[s] \in Nat
    BY <1>1, SchedulesAssumption
  <1>4. ShapeInv'
    BY <1>1, <1>2, <1>3 DEF RunnerAt
  <1>5. /\ fired'[s] = fired[s] + 1 /\ inProc'[s] = inProc[s] + 1
        /\ \A i \in Ids \ {s} : fired'[i] = fired[i] /\ inProc'[i] = inProc[i]
    BY <1>2, <1>3
  <1>6. MaxRuns[s] < NoMax => inProc[s] < MaxRuns[s]
    BY <1>1 DEF RunnerInv
  <1>. HIDE DEF s
  <1>7. CountInv'
    <2>. SUFFICES ASSUME NEW i \in Ids PROVE inProc'[i] <= fired'[i] /\ Limited(i, inProc'[i])
      BY DEF CountInv, Limited
    <2>1. CASE i = s
      BY <1>3, <1>5, <1>6, <2>1 DEF CountInv, Limited
    <2>2. CASE i # s
      BY <1>5, <2>2 DEF CountInv, Limited
    <2>. QED
      BY <2>1, <2>2
  <1>8. MemoryInv'
    <2>. SUFFICES ASSUME NEW i \in Ids, mem[i].stored
                  PROVE  mem[i].runs = IF Unrecorded(i)' THEN inProc'[i] - 1 ELSE inProc'[i]
      BY <1>2 DEF MemoryInv
    <2>1. mem[i].runs = inProc[i]
      BY <1>1 DEF MemoryInv, Unrecorded
    <2>2. Unrecorded(i)' <=> i = s
      BY <1>2 DEF Unrecorded
    <2>. QED
      BY <1>3, <1>5, <2>1, <2>2
  <1>9. RunnerInv'
    BY <1>2, <1>3, <1>5 DEF RunnerInv
  <1>10. FileInv'
    BY <1>2, <1>3, <1>4, <1>5, <1>7, <1>8, <1>9, StoreKeepsFile
  <1>. QED
    BY <1>4, <1>7, <1>8, <1>9, <1>10

\* record_run's increment.
LEMMA CountedDoes ==
  ASSUME NEW e \in StoredEntry PROVE Counted(e) \in StoredEntry /\ Counted(e).runs = e.runs + 1
  <1>1. e.runs \in Nat
    BY DEF StoredEntry
  <1>2. PICK n \in Nat : n = e.runs + 1
    BY <1>1
  <1>3. Counted(e) = [e EXCEPT !.runs = n]
    BY <1>2 DEF Counted
  <1>4. [e EXCEPT !.runs = n] \in StoredEntry /\ [e EXCEPT !.runs = n].runs = n
    BY DEF StoredEntry
  <1>. QED
    BY <1>2, <1>3, <1>4

\* record_run counts the execution, if the entry is still there.
LEMMA RecordKeepsInv ==
  ASSUME SchedInv, RecordRun PROVE SchedInv'
  <1>. USE DEF SchedInv, ShapeInv
  <1>. DEFINE s == run.id
  <1>1. run \in [pc : {"record", "reread", "policy"}, id : Ids, entry : StoredEntry, ok : BOOLEAN]
        /\ run.pc = "record"
    BY RunnerCarries DEF RecordRun
  <1>2. run' = [run EXCEPT !.pc = IF Kind[s] = "cron" THEN "reread" ELSE "policy"]
        /\ UNCHANGED <<up, fired, inProc>>
    BY DEF RecordRun, Runner, executions
  <1>3. s \in Ids /\ fired[s] > 0 /\ inProc[s] > 0
    BY <1>1 DEF RunnerInv
  <1>4. run' \in [pc : {"reread", "policy"}, id : Ids, entry : StoredEntry, ok : BOOLEAN]
        /\ run'.id = s
    BY <1>1, <1>2
  <1>5. RunnerAt' /\ RunnerInv'
    BY <1>2, <1>3, <1>4 DEF RunnerAt, RunnerInv
  <1>6. \A i \in Ids : ~Unrecorded(i)' /\ (Unrecorded(i) <=> i = s)
    BY <1>1, <1>4 DEF Unrecorded
  <1>7. CountInv'
    BY <1>2 DEF CountInv, Limited
  <1>8. mem' \in Vectors /\ InStore /\ MemoryInv'
    <2>1. CASE mem[s].stored
      <3>. DEFINE counted == Counted(mem[s])
                  e == [counted EXCEPT !.enabled = @ /\ ~Exhausted(counted, s)]
      <3>1. mem[s] \in StoredEntry /\ mem[s].runs = inProc[s] - 1
        BY <1>3, <1>6, <2>1, StoredIsEntry DEF MemoryInv
      <3>2. counted \in StoredEntry /\ counted.runs = inProc[s]
        <4>1. mem[s].runs \in Nat /\ inProc[s] \in Nat
          BY <1>3, <3>1 DEF StoredEntry
        <4>2. counted.runs = mem[s].runs + 1 /\ counted \in StoredEntry
          BY <3>1, CountedDoes
        <4>. QED
          BY <3>1, <4>1, <4>2
      <3>. HIDE DEF counted
      <3>3. PICK b \in BOOLEAN : e = [counted EXCEPT !.enabled = b]
        BY Zenon
      <3>4. e \in StoredEntry /\ e.runs = inProc[s]
        BY <3>2, <3>3 DEF StoredEntry
      <3>5. mem' = With(s, e) /\ Store(With(s, e))
        BY <2>1 DEF RecordRun, Store, Stored, counted
      <3>. HIDE DEF e
      <3>6. /\ mem' \in Vectors /\ mem'[s] = e
            /\ \A i \in Ids \ {s} : mem'[i] = mem[i]
        BY <1>3, <3>4, <3>5, WithEntry
      <3>. HIDE DEF s
      <3>7. MemoryInv'
        BY <1>2, <1>6, <3>4, <3>6 DEF MemoryInv
      <3>. QED
        BY <3>5, <3>6, <3>7 DEF InStore
    <2>2. CASE ~mem[s].stored
      <3>1. mem' = mem /\ Store(mem)
        BY <2>2 DEF RecordRun, Store, Stored
      <3>. HIDE DEF s
      <3>. QED
        BY <1>2, <1>6, <2>2, <3>1 DEF InStore, MemoryInv
    <2>. QED
      BY <2>1, <2>2
  <1>9. ShapeInv'
    BY <1>2, <1>5, <1>8
  <1>10. FileInv'
    BY <1>2, <1>5, <1>7, <1>8, <1>9, StoreKeepsFile DEF InStore
  <1>. QED
    BY <1>5, <1>7, <1>8, <1>9, <1>10

\* A cron schedule's next_run: the entry read is written back with the count it
\* had, no execution coming between.
LEMMA NextRunKeepsInv ==
  ASSUME SchedInv, GetForUpdate \/ UpdateNextRun PROVE SchedInv'
  <1>. USE DEF SchedInv, ShapeInv
  <1>1. CASE GetForUpdate
    <2>1. run \in [pc : {"record", "reread", "policy"}, id : Ids, entry : StoredEntry,
                   ok : BOOLEAN]
          /\ run.pc = "reread"
      BY <1>1, RunnerCarries DEF GetForUpdate
    <2>2. Reread \in StoredEntry /\ (mem[run.id].stored => Reread.runs = inProc[run.id])
      BY <2>1, StoredIsEntry DEF Reread, Stored, MemoryInv, Unrecorded
    <2>3. run' = [pc |-> "update", id |-> run.id, entry |-> run.entry, ok |-> run.ok,
                  copy |-> Reread]
          /\ UNCHANGED <<mem, fired, inProc>> /\ StoreUnchanged /\ Runner
      BY <1>1 DEF GetForUpdate, StoreUnchanged, executions
    <2>4. RunnerAt'
      BY <2>1, <2>2, <2>3 DEF RunnerAt
    <2>5. RunnerInv'
      BY <2>1, <2>2, <2>3 DEF RunnerInv
    <2>6. SameCounts /\ InStore /\ mem' \in Vectors
      BY <2>3 DEF SameCounts, InStore
    <2>. QED
      BY <2>1, <2>3, <2>4, <2>5, <2>6, RunnerSameCounts
  <1>2. CASE UpdateNextRun
    <2>1. run \in [pc : {"update"}, id : Ids, entry : StoredEntry, ok : BOOLEAN,
                   copy : StoredEntry]
      BY <1>2, RunnerCarries DEF UpdateNextRun
    <2>2. run' = [pc |-> "policy", id |-> run.id, entry |-> run.entry, ok |-> run.ok]
          /\ UNCHANGED <<fired, inProc>> /\ Runner /\ UpdateEntry(run.id, run.copy)
      BY <1>2 DEF UpdateNextRun, executions
    <2>3. /\ mem' \in Vectors /\ InStore
          /\ \A i \in Ids \ {run.id} : mem'[i] = mem[i]
          /\ mem'[run.id] = IF mem[run.id].stored THEN run.copy ELSE mem[run.id]
      BY <2>1, <2>2, UpdateDoes
    <2>4. mem[run.id].stored => /\ run.copy.runs = inProc[run.id]
                                /\ mem[run.id].runs = inProc[run.id]
      BY <2>1 DEF RunnerInv, MemoryInv, Unrecorded
    <2>5. SameCounts
      BY <2>1, <2>3, <2>4 DEF SameCounts
    <2>6. RunnerAt'
      BY <2>1, <2>2 DEF RunnerAt
    <2>7. RunnerInv'
      BY <2>1, <2>2 DEF RunnerInv
    <2>. QED
      BY <2>1, <2>2, <2>3, <2>5, <2>6, <2>7, RunnerSameCounts
  <1>. QED
    BY <1>1, <1>2

\* handle_failure_policy and the end of a one-shot change no count.
LEMMA PolicyKeepsInv ==
  ASSUME SchedInv, FailurePolicy \/ DisableOneShot PROVE SchedInv'
  <1>. USE DEF SchedInv, ShapeInv
  <1>1. run.id \in Ids /\ run.pc # "record" /\ UNCHANGED <<fired, inProc>> /\ Runner
    BY RunnerCarries DEF FailurePolicy, DisableOneShot, executions
  <1>2. run' = Loop \/ run' = [pc |-> "oneshot", id |-> run.id]
    BY DEF FailurePolicy, DisableOneShot, AfterFire
  <1>3. RunnerAt'
    BY <1>1, <1>2 DEF RunnerAt, Loop
  <1>4. RunnerInv' /\ run'.pc # "record"
    BY <1>2 DEF RunnerInv, Loop
  <1>5. SetEnabled(run.id, FALSE) \/ StoreUnchanged
    BY DEF FailurePolicy, DisableOneShot
  <1>6. mem' \in Vectors /\ InStore /\ SameCounts
    <2>1. CASE SetEnabled(run.id, FALSE)
      BY <1>1, <2>1, SetEnabledDoes
    <2>2. CASE StoreUnchanged
      BY <2>2 DEF StoreUnchanged, InStore, SameCounts
    <2>. QED
      BY <1>5, <2>1, <2>2
  <1>. QED
    BY <1>1, <1>3, <1>4, <1>6, RunnerSameCounts
-----------------------------------------------------------------------------
(***************************************************************************)
(* The process.                                                             *)
(***************************************************************************)

\* What a new process loads was counted and keeps to its limits.
LEMMA ProcessKeepsInv ==
  ASSUME SchedInv, Crash \/ Restart PROVE SchedInv'
  <1>. USE DEF SchedInv, ShapeInv
  <1>0. Empty \in Vectors /\ \A s \in Ids : ~Empty[s].stored
    BY DEF Empty, Vectors, Gone
  <1>1. CASE Crash
    <2>1. run'.pc = "down" /\ mem' = Empty /\ up' = FALSE
          /\ UNCHANGED <<file, fired, inProc>>
      BY <1>1 DEF Crash, Down, executions
    <2>2. ShapeInv' /\ RunnerInv' /\ MemoryInv'
      BY <1>0, <2>1 DEF RunnerAt, RunnerInv, MemoryInv
    <2>3. CountInv' /\ FileInv'
      BY <2>1 DEF CountInv, Limited, FileInv, FileIsMemory
    <2>. QED
      BY <2>2, <2>3
  <1>2. CASE Restart
    <2>1. /\ run' = [pc |-> "start"] /\ mem' = Loaded /\ file' = file /\ fired' = fired
          /\ dirty' = (file = Torn)
          /\ inProc' = [s \in Ids |-> IF Loaded[s].stored THEN Loaded[s].runs ELSE 0]
      BY <1>2 DEF Restart
    <2>2. Kept(Loaded, fired)
      BY <1>0 DEF Loaded, FileInv, Kept
    <2>3. \A s \in Ids : Loaded[s].stored => Loaded[s].runs \in Nat
      BY <2>2, StoredIsEntry DEF Kept
    <2>4. \A s \in Ids : inProc'[s] = IF Loaded[s].stored THEN Loaded[s].runs ELSE 0
      BY <2>1
    <2>5. inProc' \in [Ids -> Nat]
      BY <2>1, <2>3
    <2>6. ShapeInv'
      BY <2>1, <2>2, <2>5 DEF Kept, RunnerAt
    <2>7. CountInv'
      BY <2>1, <2>2, <2>4, SchedulesAssumption DEF CountInv, Kept, Limited
    <2>8. MemoryInv' /\ RunnerInv'
      BY <2>1, <2>4 DEF MemoryInv, RunnerInv, Unrecorded
    <2>9. FileInv'
      <3>1. FileIsMemory'
        BY <2>1 DEF FileIsMemory, Loaded
      <3>2. file # Torn => Kept(file, fired)
        BY DEF FileInv
      <3>. QED
        BY <2>1, <3>1, <3>2 DEF FileInv
    <2>. QED
      BY <2>6, <2>7, <2>8, <2>9
  <1>. QED
    BY <1>1, <1>2

\* A step that leaves the store, the runner and the counts alone keeps it.
LEMMA IdleKeepsInv ==
  ASSUME SchedInv, UNCHANGED <<up, mem, file, run, fired, inProc, dirty>> PROVE SchedInv'
  BY DEF SchedInv, ShapeInv, RunnerAt, CountInv, MemoryInv, Unrecorded, RunnerInv, FileInv,
         FileIsMemory, Limited

(* For every set of schedules, every limit of runs and every failure policy,  *)
(* and however callers, the runner, failing writes and restarts interleave:   *)
(* the file is the memory unless a write failed, and a schedule executes no   *)
(* more often in a process than its max_runs allows, counting what it loaded  *)
(* (ScheduleStore::persist, record_run, fire_schedule).                       *)
THEOREM SchedulesAlwaysHold == Spec => []SchedulesHold
  <1>1. Init => SchedInv
    BY InitSchedInv
  <1>2. SchedInv /\ [Next]_vars => SchedInv'
    <2>. SUFFICES ASSUME SchedInv, [Next]_vars PROVE SchedInv'
      OBVIOUS
    <2>1. CASE RunnerStep
      BY <2>1, RegisterKeepsInv, ExecuteKeepsInv, RecordKeepsInv, NextRunKeepsInv,
         PolicyKeepsInv DEF RunnerStep
    <2>2. CASE \E s \in Ids : Fire(s)
      BY <2>2, FireKeepsInv
    <2>3. CASE \E s \in Ids : TimeComes(s)
      BY <2>3, IdleKeepsInv DEF TimeComes, executions
    <2>4. CASE \E s \in Ids : Add(s) \/ Remove(s) \/ Enable(s) \/ Disable(s)
      BY <2>4, CallersKeepInv
    <2>5. CASE Crash \/ Restart
      BY <2>5, ProcessKeepsInv
    <2>6. CASE UNCHANGED vars
      BY <2>6, IdleKeepsInv DEF vars, executions
    <2>. QED
      BY <2>1, <2>2, <2>3, <2>4, <2>5, <2>6 DEF Next
  <1>3. SchedInv => SchedulesHold
    BY DEF SchedInv, FileInv, CountInv, Limited, SchedulesHold, MaxRunsHold
  <1>. QED
    BY <1>1, <1>2, <1>3, PTL DEF Spec
-----------------------------------------------------------------------------
(***************************************************************************)
(* The supervisor of the agents that schedules run (module AgentSupervisor),*)
(* for any agents, executor threads, levels, caps and burn limits.  Fuel is *)
(* reserved in one hold of the supervisor's mutex and settled in another;   *)
(* that none is made is inductive only with the reservations under way,     *)
(* each of which belongs to an agent that is still registered.  A method    *)
(* that pays, punishes or moves an agent is tame: it keeps the cap, makes   *)
(* no fuel and gives no level.  A place that came with a registration is    *)
(* not one that was taken, but it is counted against those that would be.   *)
(***************************************************************************)
CONSTANTS Agents, Tasks, Levels, Caps, Flags, MaxL5, MaxL6, PerRun, Spends, SpikeUnits,
          SlopeUnits, Window
VARIABLES agent, task

Sup == INSTANCE AgentSupervisor

AgentRec ==
  [state : Sup!States, level : Levels \cup {0}, fuel : Nat, cap : Nat, spent : Nat,
   calls : Seq(Nat), audited : Sup!States \cup {"None"}, scheduled : BOOLEAN,
   given : SUBSET {"state", "place"}]

TaskRec == [pc : {"checked", "reserved", "cancel", "ran"}, of : Agents,
            fuel : {"none", "paid", "standalone", "refused"}]

\* The tasks that hold a reservation of agent a's fuel.
Holds(r, a) == r.pc \in {"reserved", "cancel", "ran"} /\ r.of = a /\ r.fuel = "paid"
Holders(a) == {t \in Tasks : Holds(task[t], a)}

SupShape ==
  /\ agent \in [Agents -> AgentRec \cup {Sup!None}]
  /\ task \in [Tasks -> TaskRec \cup {Sup!Idle}]
  /\ \A t \in Tasks, a \in Agents : Holds(task[t], a) => Sup!Registered(a)

\* What the rest of an agent says about it.
RestOK(g) ==
  /\ g.state \in {"Paused", "Stopped"} => g.audited = g.state \/ "state" \in g.given
  /\ g.state = "Starting" => g.level = 0 \/ "state" \in g.given

\* The fuel of a record with n reservations under way.
FuelOK(g, n) == g.fuel + PerRun * n + g.spent <= g.cap

SupInv ==
  /\ SupShape
  /\ \A a \in Agents : Sup!Registered(a) =>
       RestOK(agent[a]) /\ FuelOK(agent[a], Cardinality(Holders(a)))
  /\ Sup!CapsHold

\* The instance's finite sets are the finite sets.
LEMMA SameCount ==
  \A S : (Sup!IsFiniteSet(S) <=> IsFiniteSet(S)) /\ Sup!Cardinality(S) = Cardinality(S)
<1>1. \A S : Sup!IsFiniteSet(S) <=> IsFiniteSet(S)
  BY Zenon DEF IsFiniteSet, Sup!IsFiniteSet
<1>2. \A S : Sup!Cardinality(S) = Cardinality(S)
  BY Zenon DEF Cardinality, Sup!Cardinality
<1> QED BY <1>1, <1>2

LEMMA SupCounts ==
  ASSUME Sup!SupervisorAssumption, NEW S, S \subseteq Agents \/ S \subseteq Tasks
  PROVE  IsFiniteSet(S) /\ Cardinality(S) \in Nat
<1>1. IsFiniteSet(Agents) /\ IsFiniteSet(Tasks)
  BY SameCount DEF Sup!SupervisorAssumption
<1>2. IsFiniteSet(S)
  BY <1>1, FS_Subset
<1> QED BY <1>2, FS_CardinalityType

\* A record that pays, or is punished, makes no fuel and gains no autonomy.
Tame(g, h) ==
  /\ h \in AgentRec /\ h.cap = g.cap /\ h.level \in {g.level, 0}
  /\ h.fuel + h.spent <= g.fuel + g.spent

LEMMA Spending ==
  ASSUME Sup!SupervisorAssumption, NEW g \in AgentRec, NEW cost \in Nat
  PROVE  /\ Sup!RecordSpend(g, cost) \in AgentRec
         /\ Sup!RecordSpend(g, cost).spent = g.spent + cost
         /\ Sup!RecordSpend(g, cost).state = g.state
         /\ Sup!RecordSpend(g, cost).level = g.level
         /\ Sup!RecordSpend(g, cost).fuel = g.fuel
         /\ Sup!RecordSpend(g, cost).cap = g.cap
         /\ Sup!RecordSpend(g, cost).audited = g.audited
         /\ Sup!RecordSpend(g, cost).given = g.given
<1>1. g.calls \in Seq(Nat) /\ g.spent + cost \in Nat
  BY DEF AgentRec
<1>2. Sup!LastCalls(g.calls, cost) \in Seq(Nat)
  <2>1. Append(g.calls, cost) \in Seq(Nat) /\ Append(g.calls, cost) # <<>>
    BY <1>1
  <2>2. Tail(Append(g.calls, cost)) \in Seq(Nat)
    BY <2>1
  <2> QED BY <2>1, <2>2 DEF Sup!LastCalls
<1>3. Sup!RecordSpend(g, cost) =
        [g EXCEPT !.spent = g.spent + cost, !.calls = Sup!LastCalls(g.calls, cost)]
  BY DEF Sup!RecordSpend
<1> HIDE DEF Sup!LastCalls
<1> QED BY <1>1, <1>2, <1>3 DEF AgentRec

LEMMA Punishing ==
  ASSUME NEW g \in AgentRec
  PROVE  /\ Sup!Violated(g) \in AgentRec
         /\ Sup!Violated(g).fuel = 0 /\ Sup!Violated(g).level = 0
         /\ Sup!Violated(g).state = g.state /\ Sup!Violated(g).cap = g.cap
         /\ Sup!Violated(g).spent = g.spent /\ Sup!Violated(g).audited = g.audited
         /\ Sup!Violated(g).given = g.given
BY DEF Sup!Violated, AgentRec

\* Settling a reservation: the refund and the spend together are at most it.
LEMMA Committing ==
  ASSUME Sup!SupervisorAssumption, NEW g \in AgentRec, NEW units \in Nat,
         NEW cost \in 0..units
  PROVE  LET h == Sup!Committed(g, units, cost)
         IN /\ h \in AgentRec /\ h.state = g.state /\ h.audited = g.audited
            /\ h.given = g.given
            /\ h.cap = g.cap /\ h.level \in {g.level, 0}
            /\ h.fuel + h.spent <= g.fuel + units + g.spent
            /\ Sup!Refused(g, cost) => h.level = 0
<1> DEFINE r == [g EXCEPT !.fuel = g.fuel + units - cost]
           paid == Sup!RecordSpend(r, cost)
<1>1. /\ g.fuel \in Nat /\ g.spent \in Nat /\ cost \in Nat /\ cost <= units
      /\ g.fuel + units - cost \in Nat
  BY DEF AgentRec
<1>2. /\ r \in AgentRec /\ r.fuel = g.fuel + units - cost /\ r.spent = g.spent
      /\ r.state = g.state /\ r.audited = g.audited /\ r.cap = g.cap /\ r.level = g.level
      /\ r.given = g.given
  BY <1>1 DEF AgentRec
<1> HIDE DEF r
<1>3. /\ paid \in AgentRec /\ paid.spent = g.spent + cost
      /\ paid.state = g.state /\ paid.audited = g.audited /\ paid.cap = g.cap
      /\ paid.level = g.level /\ paid.fuel = g.fuel + units - cost /\ paid.given = g.given
  <2>1. /\ paid \in AgentRec /\ paid.spent = r.spent + cost
        /\ paid.state = r.state /\ paid.audited = r.audited /\ paid.cap = r.cap
        /\ paid.level = r.level /\ paid.fuel = r.fuel /\ paid.given = r.given
    BY <1>1, <1>2, Spending
  <2> QED BY <1>2, <2>1
<1>4. Sup!Committed(g, units, cost) =
        IF Sup!Refused(g, cost) THEN Sup!Violated(paid) ELSE paid
  BY DEF Sup!Committed, r
<1> HIDE DEF paid
<1>5. CASE Sup!Refused(g, cost)
  <2>1. /\ Sup!Violated(paid) \in AgentRec /\ Sup!Violated(paid).fuel = 0
        /\ Sup!Violated(paid).level = 0 /\ Sup!Violated(paid).spent = paid.spent
        /\ Sup!Violated(paid).state = paid.state /\ Sup!Violated(paid).cap = paid.cap
        /\ Sup!Violated(paid).audited = paid.audited /\ Sup!Violated(paid).given = paid.given
    BY <1>3, Punishing
  <2> QED BY <1>1, <1>3, <1>4, <1>5, <2>1
<1>6. CASE ~Sup!Refused(g, cost)
  BY <1>1, <1>3, <1>4, <1>6
<1> QED BY <1>5, <1>6

\* Reserving: the fuel leaves the balance, or the agent is punished.
LEMMA Reserving ==
  ASSUME NEW g \in AgentRec, NEW units \in Nat
  PROVE  LET h == Sup!Reserved(g, units)
         IN /\ h \in AgentRec /\ h.state = g.state /\ h.audited = g.audited
            /\ h.cap = g.cap /\ h.spent = g.spent /\ h.given = g.given
            /\ Sup!CanReserve(g, units) =>
                 h = [g EXCEPT !.fuel = g.fuel - units] /\ h.fuel = g.fuel - units
                 /\ h.level = g.level /\ h.calls = g.calls
            /\ ~Sup!CanReserve(g, units) =>
                 h = Sup!Violated(g) /\ h.fuel = 0 /\ h.level = 0
<1>1. CASE Sup!CanReserve(g, units)
  <2>1. g.fuel - units \in Nat
    BY <1>1 DEF AgentRec, Sup!CanReserve
  <2>2. Sup!Reserved(g, units) = [g EXCEPT !.fuel = g.fuel - units]
    BY <1>1 DEF Sup!Reserved
  <2> QED BY <1>1, <2>1, <2>2 DEF AgentRec
<1>2. CASE ~Sup!CanReserve(g, units)
  <2>1. Sup!Reserved(g, units) = Sup!Violated(g)
    BY <1>2 DEF Sup!Reserved
  <2> QED BY <1>2, <2>1, Punishing
<1> QED BY <1>1, <1>2

\* Paying at once: no fuel is made, and who cannot pay loses its autonomy.
LEMMA Consuming ==
  ASSUME Sup!SupervisorAssumption, NEW g \in AgentRec, NEW units \in Nat
  PROVE  LET h == Sup!Consumed(g, units)
         IN /\ Tame(g, h) /\ h.state = g.state /\ h.audited = g.audited
            /\ h.given = g.given
            /\ ~Sup!Pays(g, units) => h.level = 0
<1>1. g.fuel \in Nat /\ g.spent \in Nat
  BY DEF AgentRec
<1>2. CASE Sup!CanReserve(g, units)
  <2> DEFINE r == Sup!Reserved(g, units)
             h == Sup!Committed(r, units, units)
  <2>1. /\ r \in AgentRec /\ r.state = g.state /\ r.audited = g.audited /\ r.cap = g.cap
        /\ r.spent = g.spent /\ r.fuel = g.fuel - units /\ r.level = g.level
        /\ r.calls = g.calls /\ r.given = g.given
    BY <1>2, Reserving
  <2>2. Sup!Refused(r, units) <=> Sup!Refused(g, units)
    <3>1. Sup!RecordSpend(r, units).calls = Sup!RecordSpend(g, units).calls
      <4>1. \A x \in AgentRec :
              Sup!RecordSpend(x, units).calls = Sup!LastCalls(x.calls, units)
        BY DEF Sup!RecordSpend, AgentRec
      <4> QED BY <2>1, <4>1
    <3>2. Sup!RecordSpend(r, units).spent = Sup!RecordSpend(g, units).spent
      BY <2>1, Spending
    <3> HIDE DEF r
    <3> QED BY <2>1, <3>1, <3>2 DEF Sup!Refused
  <2> HIDE DEF r
  <2>3. /\ h \in AgentRec /\ h.state = r.state /\ h.audited = r.audited /\ h.given = r.given
        /\ h.cap = r.cap /\ h.level \in {r.level, 0}
        /\ h.fuel + h.spent <= r.fuel + units + r.spent
        /\ Sup!Refused(r, units) => h.level = 0
    BY <2>1, Committing
  <2>4. Sup!Consumed(g, units) = h
    BY <1>2 DEF Sup!Consumed, r
  <2>5. g.fuel - units + units = g.fuel
    BY <1>1
  <2> HIDE DEF h
  <2> QED BY <1>1, <1>2, <2>1, <2>2, <2>3, <2>4, <2>5 DEF Tame, Sup!Pays
<1>3. CASE ~Sup!CanReserve(g, units)
  <2>1. Sup!Consumed(g, units) = Sup!Violated(g)
    BY <1>3 DEF Sup!Consumed
  <2> QED BY <1>1, <2>1, Punishing DEF Tame, AgentRec
<1> QED BY <1>2, <1>3

\* A record that holds a place it was not given, and the agents that hold one
\* of level l so.
Took(g) == g.state \in Sup!Active /\ "place" \notin g.given
Placed(l) == {a \in Agents : Sup!Registered(a) /\ agent[a].level = l /\ Took(agent[a])}

LEMMA RegisteredRecord ==
  ASSUME SupShape, NEW a \in Agents
  PROVE  Sup!Registered(a) <=> agent[a] \in AgentRec
BY DEF SupShape, Sup!Registered, Sup!None, AgentRec, Sup!States

\* One level's places after agent a's record became g.
LEMMA LevelStep ==
  ASSUME Sup!SupervisorAssumption, SupShape, NEW a \in Agents, NEW g \in AgentRec,
         agent' = [agent EXCEPT ![a] = g], NEW l \in {5, 6}, NEW max \in Nat,
         Cardinality(Placed(l)) <= max,
         g.level = l /\ Took(g) =>
           a \in Placed(l) \/ Cardinality(Placed(l) \ {a}) < max
  PROVE  Cardinality(Placed(l)') <= max
<1>1. Placed(l) \subseteq Agents
  BY DEF Placed
<1>2. \A b \in Agents : b # a => (b \in Placed(l)' <=> b \in Placed(l))
  BY DEF SupShape, Placed, Sup!Registered, Sup!None
<1>3. a \in Placed(l)' <=> g.level = l /\ Took(g)
  <2>1. agent'[a] = g /\ g # Sup!None
    BY DEF SupShape, AgentRec, Sup!None, Sup!States
  <2> QED BY <2>1 DEF Placed, Sup!Registered, Sup!None
<1>4. Placed(l)' \subseteq Agents
  BY DEF Placed
<1>5. IsFiniteSet(Placed(l)) /\ IsFiniteSet(Placed(l)') /\ IsFiniteSet(Placed(l) \ {a})
      /\ Cardinality(Placed(l)) \in Nat /\ Cardinality(Placed(l) \ {a}) \in Nat
      /\ Cardinality(Placed(l)') \in Nat
  BY <1>1, <1>4, SupCounts
<1>6. CASE a \in Placed(l) \/ a \notin Placed(l)'
  <2>1. Placed(l)' \subseteq Placed(l)
    BY <1>1, <1>2, <1>4, <1>6
  <2>2. Cardinality(Placed(l)') <= Cardinality(Placed(l))
    BY <1>5, <2>1, FS_Subset
  <2> QED BY <1>5, <2>2
<1>7. CASE a \notin Placed(l) /\ a \in Placed(l)'
  <2>1. Placed(l)' = (Placed(l) \ {a}) \cup {a}
    BY <1>1, <1>2, <1>4, <1>7
  <2>2. Cardinality(Placed(l) \ {a}) < max
    BY <1>3, <1>7
  <2>3. Cardinality((Placed(l) \ {a}) \cup {a}) = Cardinality(Placed(l) \ {a}) + 1
    BY <1>5, FS_AddElement
  <2> QED BY <1>5, <2>1, <2>2, <2>3
<1> QED BY <1>6, <1>7

LEMMA CapsStep ==
  ASSUME Sup!SupervisorAssumption, SupInv, NEW a \in Agents, NEW g \in AgentRec,
         agent' = [agent EXCEPT ![a] = g],
         g.level # 0 /\ Took(g) =>
           /\ Sup!Registered(a) /\ g.level = agent[a].level
           /\ Took(agent[a]) \/ Sup!HasPlace(a)
  PROVE  Sup!CapsHold'
<1>1. MaxL5 \in Nat /\ MaxL6 \in Nat /\ SupShape
  BY DEF Sup!SupervisorAssumption, SupInv
<1>2. Cardinality(Placed(5)) <= MaxL5 /\ Cardinality(Placed(6)) <= MaxL6
  BY SameCount DEF SupInv, Sup!CapsHold, Placed, Took
<1>3. \A l : /\ Cardinality(Placed(l) \ {a}) <= Cardinality(Sup!ActiveAt(l) \ {a})
             /\ Cardinality(Placed(l) \ {a}) \in Nat
             /\ Cardinality(Sup!ActiveAt(l) \ {a}) \in Nat
  <2> TAKE l
  <2>1. Placed(l) \ {a} \subseteq Sup!ActiveAt(l) \ {a}
    BY DEF Sup!ActiveAt, Sup!ActiveStates, Placed, Took
  <2>2. Placed(l) \ {a} \subseteq Agents /\ Sup!ActiveAt(l) \ {a} \subseteq Agents
    BY DEF Sup!ActiveAt, Placed
  <2> QED BY <2>1, <2>2, SupCounts, FS_Subset
<1>4. Sup!HasPlace(a) =>
        /\ agent[a].level = 5 => Cardinality(Placed(5) \ {a}) < MaxL5
        /\ agent[a].level = 6 => Cardinality(Placed(6) \ {a}) < MaxL6
  <2>1. Sup!HasPlace(a) =>
          /\ agent[a].level = 5 => Cardinality(Sup!ActiveAt(5) \ {a}) < MaxL5
          /\ agent[a].level = 6 => Cardinality(Sup!ActiveAt(6) \ {a}) < MaxL6
    BY SameCount DEF Sup!HasPlace
  <2>2. \A p, q, max : p \in Nat /\ q \in Nat /\ max \in Nat /\ p <= q /\ q < max => p < max
    OBVIOUS
  <2>3. /\ Cardinality(Sup!ActiveAt(5) \ {a}) < MaxL5 => Cardinality(Placed(5) \ {a}) < MaxL5
        /\ Cardinality(Sup!ActiveAt(6) \ {a}) < MaxL6 => Cardinality(Placed(6) \ {a}) < MaxL6
    BY Zenon, <1>1, <1>3, <2>2
  <2> QED BY Zenon, <2>1, <2>3
<1>5. g.level = 5 /\ Took(g) =>
        a \in Placed(5) \/ Cardinality(Placed(5) \ {a}) < MaxL5
  BY <1>4 DEF Placed
<1>6. g.level = 6 /\ Took(g) =>
        a \in Placed(6) \/ Cardinality(Placed(6) \ {a}) < MaxL6
  BY <1>4 DEF Placed
<1>7. Cardinality(Placed(5)') <= MaxL5
  BY <1>1, <1>2, <1>5, LevelStep
<1>8. Cardinality(Placed(6)') <= MaxL6
  BY <1>1, <1>2, <1>6, LevelStep
<1> QED BY <1>7, <1>8, SameCount DEF Sup!CapsHold, Placed, Took

\* A method of the supervisor that changes agent a's record and no task.
LEMMA UpdateStep ==
  ASSUME Sup!SupervisorAssumption, SupInv, NEW a \in Agents, Sup!Registered(a), NEW g,
         Sup!Update(a, g), Tame(agent[a], g), RestOK(g),
         g.level # 0 /\ Took(g) => Took(agent[a]) \/ Sup!HasPlace(a)
  PROVE  SupInv'
<1>1. SupShape /\ agent' = [agent EXCEPT ![a] = g] /\ task' = task /\ g \in AgentRec
      /\ agent[a] \in AgentRec
  BY RegisteredRecord DEF SupInv, Sup!Update, Tame
<1>2. g # Sup!None
  BY <1>1 DEF AgentRec, Sup!None, Sup!States
<1>3. \A b \in Agents : (Sup!Registered(b)' <=> Sup!Registered(b))
                        /\ Holders(b)' = Holders(b)
  BY <1>1, <1>2 DEF SupShape, Sup!Registered, Sup!None, Holders
<1>4. SupShape'
  <2>1. agent' \in [Agents -> AgentRec \cup {Sup!None}] /\ task' = task
    BY <1>1 DEF SupShape
  <2>2. \A t \in Tasks, b \in Agents : Holds(task'[t], b) => Sup!Registered(b)'
    BY <1>1, <1>3 DEF SupShape
  <2> QED BY <1>1, <2>1, <2>2 DEF SupShape, Sup!None, Sup!Idle
<1>5. Sup!CapsHold'
  <2>1. g.level # 0 => g.level = agent[a].level
    BY DEF Tame
  <2> QED BY <1>1, <2>1, CapsStep
<1>6. \A b \in Agents : Sup!Registered(b)' =>
        RestOK(agent'[b]) /\ FuelOK(agent'[b], Cardinality(Holders(b)'))
  <2>1. SUFFICES ASSUME NEW b \in Agents, Sup!Registered(b)
                 PROVE  RestOK(agent'[b]) /\ FuelOK(agent'[b], Cardinality(Holders(b)))
    BY <1>3
  <2>2. RestOK(agent[b]) /\ FuelOK(agent[b], Cardinality(Holders(b)))
    BY <2>1 DEF SupInv
  <2>3. CASE b # a
    BY <1>1, <2>2, <2>3 DEF SupShape
  <2>4. CASE b = a
    <3>1. agent'[b] = g /\ RestOK(g)
      BY <1>1, <2>4 DEF SupShape
    <3>2. FuelOK(g, Cardinality(Holders(b)))
      <4> DEFINE n == PerRun * Cardinality(Holders(b))
      <4>1. n \in Nat
        <5>1. Cardinality(Holders(b)) \in Nat /\ PerRun \in Nat
          BY SupCounts DEF Holders, Sup!SupervisorAssumption
        <5> QED BY <5>1
      <4>2. agent[a].fuel + n + agent[a].spent <= agent[a].cap
        BY <2>2, <2>4 DEF FuelOK
      <4> HIDE DEF n
      <4>3. g.fuel + n + g.spent <= g.cap
        BY <1>1, <4>1, <4>2 DEF Tame, AgentRec
      <4> QED BY <4>3 DEF FuelOK, n
    <3> QED BY <3>1, <3>2
  <2> QED BY <2>3, <2>4
<1> QED BY <1>4, <1>5, <1>6 DEF SupInv

\* A recorded or silent move changes the state, the last audited one and what
\* is left of the registration.
LEMMA Moving ==
  ASSUME NEW g \in AgentRec, NEW to \in Sup!States
  PROVE  /\ Sup!Moved(g, to) \in AgentRec /\ Tame(g, Sup!Moved(g, to))
         /\ Sup!Moved(g, to).state = to /\ Sup!Moved(g, to).audited = to
         /\ Sup!Moved(g, to).level = g.level
         /\ Sup!Moved(g, to).given = Sup!StillGiven(g, to)
         /\ Sup!SilentlyMoved(g, to) \in AgentRec /\ Tame(g, Sup!SilentlyMoved(g, to))
         /\ Sup!SilentlyMoved(g, to).state = to
         /\ Sup!SilentlyMoved(g, to).audited = g.audited
         /\ Sup!SilentlyMoved(g, to).level = g.level
         /\ Sup!SilentlyMoved(g, to).given = Sup!StillGiven(g, to)
<1> DEFINE n == Sup!StillGiven(g, to)
           s == Sup!SilentlyMoved(g, to)
           m == Sup!Moved(g, to)
<1>1. n \subseteq {"state", "place"}
  BY DEF AgentRec, Sup!StillGiven
<1>2. s = [g EXCEPT !.state = to, !.given = n]
  BY DEF Sup!SilentlyMoved
<1> HIDE DEF n
<1>3. /\ s \in AgentRec /\ s.state = to /\ s.given = n /\ s.audited = g.audited
      /\ s.level = g.level /\ s.fuel = g.fuel /\ s.spent = g.spent /\ s.cap = g.cap
  BY <1>1, <1>2 DEF AgentRec
<1>4. m = [s EXCEPT !.audited = to]
  BY DEF Sup!Moved
<1> HIDE DEF s
<1>5. /\ m \in AgentRec /\ m.state = to /\ m.given = n /\ m.audited = to
      /\ m.level = g.level /\ m.fuel = g.fuel /\ m.spent = g.spent /\ m.cap = g.cap
  BY <1>3, <1>4 DEF AgentRec
<1>6. g.fuel + g.spent \in Nat
  BY DEF AgentRec
<1> HIDE DEF m
<1>7. Tame(g, m) /\ Tame(g, s)
  BY <1>3, <1>5, <1>6 DEF Tame
<1> QED BY <1>3, <1>5, <1>7 DEF n, s, m

LEMMA TameIsTransitive ==
  ASSUME NEW f \in AgentRec, NEW g, NEW h, Tame(f, g), Tame(g, h)
  PROVE  Tame(f, h)
<1>1. /\ f.fuel \in Nat /\ f.spent \in Nat /\ g.fuel \in Nat /\ g.spent \in Nat
      /\ h.fuel \in Nat /\ h.spent \in Nat
  BY DEF Tame, AgentRec
<1> QED BY <1>1 DEF Tame

LEMMA StartStep ==
  ASSUME Sup!SupervisorAssumption, SupInv, NEW a \in Agents, Sup!transition_to_running(a)
  PROVE  SupInv'
<1> DEFINE g == agent[a]
           s == Sup!SilentlyMoved(g, "Starting")
           c == Sup!Consumed(s, 1)
           h == Sup!Started(g)
           S == Sup!States
<1>1. Sup!Registered(a) /\ Sup!HasPlace(a) /\ Sup!Update(a, h)
  BY DEF Sup!transition_to_running
<1>2. g \in AgentRec
  BY <1>1, RegisteredRecord DEF SupInv
<1>3. "Starting" \in S /\ "Running" \in S
  BY DEF Sup!States
<1>4. s \in AgentRec /\ Tame(g, s) /\ s.state = "Starting"
  BY <1>2, <1>3, Moving
<1>5. Tame(s, c) /\ c.state = "Starting" /\ (~Sup!Pays(s, 1) => c.level = 0)
  BY <1>4, Consuming
<1>6. c \in AgentRec
  BY <1>5 DEF Tame
<1>7. Sup!Started(g) = IF Sup!Pays(s, 1) THEN Sup!SilentlyMoved(c, "Running") ELSE c
  BY DEF Sup!Started
<1>8. /\ Tame(c, Sup!SilentlyMoved(c, "Running"))
      /\ Sup!SilentlyMoved(c, "Running").state = "Running"
  BY <1>3, <1>6, Moving
<1> HIDE DEF g, s, c
<1>9. Tame(g, c)
  BY <1>2, <1>4, <1>5, TameIsTransitive
<1>10. Tame(g, h) /\ RestOK(h)
  <2>1. CASE Sup!Pays(s, 1)
    <3>1. Tame(g, Sup!SilentlyMoved(c, "Running"))
      BY <1>2, <1>8, <1>9, TameIsTransitive
    <3> QED BY <1>7, <1>8, <2>1, <3>1 DEF RestOK
  <2>2. CASE ~Sup!Pays(s, 1)
    BY <1>5, <1>7, <1>9, <2>2 DEF RestOK
  <2> QED BY <2>1, <2>2
<1> HIDE DEF h
<1> QED BY <1>1, <1>10, UpdateStep DEF g

\* stop_agent's record: paid for and stopped, or punished where it was.
LEMMA Halting ==
  ASSUME Sup!SupervisorAssumption, NEW g \in AgentRec
  PROVE  LET h == Sup!Halted(g)
         IN /\ Tame(g, h)
            /\ Sup!Pays(g, 2) => h.state = "Stopped" /\ h.audited = "Stopped"
            /\ ~Sup!Pays(g, 2) =>
                 h.state = g.state /\ h.audited = g.audited /\ h.given = g.given
<1> DEFINE c == Sup!Consumed(g, 2)
           m == Sup!Moved(c, "Stopping")
           e == Sup!Moved(m, "Stopped")
<1>1. "Stopping" \in Sup!States /\ "Stopped" \in Sup!States
  BY DEF Sup!States
<1>2. Tame(g, c) /\ c.state = g.state /\ c.audited = g.audited /\ c.given = g.given
  BY Consuming
<1>3. c \in AgentRec
  BY <1>2 DEF Tame
<1> HIDE DEF c
<1>4. m \in AgentRec /\ Tame(c, m)
  BY <1>1, <1>3, Moving
<1> HIDE DEF m
<1>5. Tame(m, e) /\ e.state = "Stopped" /\ e.audited = "Stopped"
  BY <1>1, <1>4, Moving
<1> HIDE DEF e
<1>6. Tame(g, e)
  BY <1>2, <1>3, <1>4, <1>5, TameIsTransitive
<1>7. Sup!Halted(g) = IF Sup!Pays(g, 2) THEN e ELSE c
  BY DEF Sup!Halted, c, m, e
<1> QED BY <1>2, <1>5, <1>6, <1>7

LEMMA StopStep ==
  ASSUME Sup!SupervisorAssumption, SupInv, NEW a \in Agents, Sup!stop_agent(a)
  PROVE  SupInv'
<1> DEFINE g == agent[a]
           h == Sup!Halted(g)
<1>1. Sup!Registered(a) /\ Sup!Update(a, h) /\ g.state \in {"Running", "Paused"}
  BY DEF Sup!stop_agent
<1>2. g \in AgentRec /\ RestOK(g)
  BY <1>1, RegisteredRecord DEF SupInv
<1>3. /\ Tame(g, h)
      /\ \/ h.state = "Stopped" /\ h.audited = "Stopped"
         \/ h.state = g.state /\ h.audited = g.audited /\ h.given = g.given
  <2>1. /\ Tame(g, h)
        /\ Sup!Pays(g, 2) => h.state = "Stopped" /\ h.audited = "Stopped"
        /\ ~Sup!Pays(g, 2) =>
             h.state = g.state /\ h.audited = g.audited /\ h.given = g.given
    BY <1>2, Halting
  <2> HIDE DEF h
  <2> QED BY <2>1
<1> HIDE DEF h
<1>4. RestOK(h)
  BY <1>1, <1>2, <1>3 DEF RestOK
<1>5. Took(h) => Took(g)
  BY <1>1, <1>3 DEF Sup!Active, Took
<1> QED BY <1>1, <1>3, <1>4, <1>5, UpdateStep

LEMMA PauseResumeStep ==
  ASSUME Sup!SupervisorAssumption, SupInv, NEW a \in Agents,
         Sup!pause_agent(a) \/ Sup!resume_agent(a)
  PROVE  SupInv'
<1>1. PICK to \in {"Paused", "Running"} :
        /\ Sup!Registered(a) /\ agent[a].state \in {"Running", "Paused"}
        /\ Sup!Update(a, Sup!Moved(agent[a], to))
  BY DEF Sup!pause_agent, Sup!resume_agent
<1> DEFINE h == Sup!Moved(agent[a], to)
<1>2. agent[a] \in AgentRec /\ to \in Sup!States
  BY <1>1, RegisteredRecord DEF SupInv, Sup!States
<1>3. Tame(agent[a], h) /\ h.state = to /\ h.audited = to
      /\ h.given = Sup!StillGiven(agent[a], to)
  BY <1>2, Moving
<1> HIDE DEF h
<1>4. RestOK(h) /\ (Took(h) => Took(agent[a]))
  BY <1>1, <1>3 DEF RestOK, Sup!Active, Took, Sup!StillGiven
<1>5. Sup!Update(a, h)
  BY <1>1 DEF h
<1> QED BY <1>1, <1>3, <1>4, <1>5, UpdateStep

LEMMA RestartStep ==
  ASSUME Sup!SupervisorAssumption, SupInv, NEW a \in Agents, Sup!restart_agent(a)
  PROVE  SupInv'
<1> DEFINE was == agent[a]
           stops == was.state \in {"Running", "Paused"}
           stopped == IF stops THEN Sup!Halted(was) ELSE was
           paid == Sup!Consumed(stopped, 1)
           starting == Sup!Moved(paid, "Starting")
           running == Sup!Moved(starting, "Running")
           again == Sup!Pays(stopped, 1) /\ Sup!is_valid_transition(paid.state, "Starting")
           h == IF stops /\ ~Sup!Pays(was, 2) THEN stopped
                ELSE IF again THEN running ELSE paid
<1>1. Sup!Registered(a) /\ Sup!HasPlace(a) /\ Sup!Update(a, h)
  BY DEF Sup!restart_agent
<1>2. was \in AgentRec /\ RestOK(was)
  BY <1>1, RegisteredRecord DEF SupInv
<1>3. "Starting" \in Sup!States /\ "Running" \in Sup!States
  BY DEF Sup!States
<1> HIDE DEF was
<1>4. /\ Tame(was, stopped)
      /\ \/ /\ stopped.state = was.state /\ stopped.audited = was.audited
            /\ stopped.given = was.given
         \/ stopped.state = "Stopped" /\ stopped.audited = "Stopped"
  <2>1. Tame(was, was)
    BY <1>2 DEF Tame, AgentRec
  <2> DEFINE e == Sup!Halted(was)
  <2>2. /\ Tame(was, e)
        /\ Sup!Pays(was, 2) => e.state = "Stopped" /\ e.audited = "Stopped"
        /\ ~Sup!Pays(was, 2) =>
             e.state = was.state /\ e.audited = was.audited /\ e.given = was.given
    BY <1>2, Halting
  <2> HIDE DEF e
  <2>3. stopped = e \/ stopped = was
    BY DEF e
  <2> HIDE DEF stopped
  <2> QED BY <2>1, <2>2, <2>3
<1>5. stopped \in AgentRec /\ RestOK(stopped)
  <2>1. stopped.level \in {was.level, 0} /\ stopped \in AgentRec
    BY <1>4 DEF Tame
  <2> HIDE DEF stopped
  <2> QED BY <1>2, <1>4, <2>1 DEF RestOK
<1> HIDE DEF stopped
<1>6. Tame(stopped, paid) /\ paid.state = stopped.state /\ paid.audited = stopped.audited
      /\ paid.given = stopped.given
  BY <1>5, Consuming
<1>7. paid \in AgentRec /\ RestOK(paid)
  <2>1. paid.level \in {stopped.level, 0} /\ paid \in AgentRec
    BY <1>6 DEF Tame
  <2> HIDE DEF paid
  <2> QED BY <1>5, <1>6, <2>1 DEF RestOK
<1> HIDE DEF paid
<1>8. starting \in AgentRec /\ Tame(paid, starting)
  BY <1>3, <1>7, Moving
<1> HIDE DEF starting
<1>9. Tame(starting, running) /\ running.state = "Running"
  BY <1>3, <1>8, Moving
<1> HIDE DEF running
<1>10. Tame(was, paid) /\ Tame(was, running)
  <2>1. Tame(was, paid)
    BY <1>2, <1>4, <1>6, TameIsTransitive
  <2>2. Tame(was, starting)
    BY <1>2, <1>8, <2>1, TameIsTransitive
  <2> QED BY <1>2, <1>9, <2>1, <2>2, TameIsTransitive
<1>11. RestOK(running)
  BY <1>9 DEF RestOK
<1>12. Tame(was, h) /\ RestOK(h)
  BY <1>4, <1>5, <1>7, <1>10, <1>11
<1> HIDE DEF h, again, stops
<1> QED BY <1>1, <1>12, UpdateStep DEF was

LEMMA SpendStep ==
  ASSUME Sup!SupervisorAssumption, SupInv, NEW a \in Agents, NEW cost \in Spends,
         Sup!record_llm_spend(a, cost)
  PROVE  SupInv'
<1> DEFINE g == agent[a]
           less == [g EXCEPT !.fuel = g.fuel - cost]
           spent == Sup!RecordSpend(less, cost)
           h == IF ~Sup!CanReserve(g, cost) THEN Sup!Violated(g)
                ELSE IF Sup!Refused(g, cost) THEN Sup!Violated(spent) ELSE spent
<1>1. Sup!Registered(a) /\ Sup!Update(a, h)
  BY DEF Sup!record_llm_spend
<1>2. g \in AgentRec /\ RestOK(g) /\ cost \in Nat
  BY <1>1, RegisteredRecord DEF SupInv, Sup!SupervisorAssumption
<1>3. g.fuel \in Nat /\ g.spent \in Nat
  BY <1>2 DEF AgentRec
<1>4. Tame(g, h) /\ h.state = g.state /\ h.audited = g.audited /\ h.given = g.given
  <2>1. CASE ~Sup!CanReserve(g, cost)
    <3> HIDE DEF g
    <3>1. h = Sup!Violated(g)
      BY <2>1
    <3> QED BY <1>2, <1>3, <3>1, Punishing DEF Tame
  <2>2. CASE Sup!CanReserve(g, cost)
    <3> HIDE DEF g
    <3>1. g.fuel - cost \in Nat
      BY <1>2, <1>3, <2>2 DEF Sup!CanReserve
    <3>2. /\ less \in AgentRec /\ less.fuel = g.fuel - cost /\ less.spent = g.spent
          /\ less.cap = g.cap /\ less.state = g.state /\ less.level = g.level
          /\ less.audited = g.audited /\ less.given = g.given
      BY <1>2, <3>1 DEF AgentRec
    <3> HIDE DEF less
    <3>3. /\ spent \in AgentRec /\ spent.fuel = less.fuel /\ spent.spent = less.spent + cost
          /\ spent.cap = less.cap /\ spent.state = less.state
          /\ spent.level = less.level /\ spent.audited = less.audited
          /\ spent.given = less.given
      BY <1>2, <3>2, Spending
    <3>4. Tame(g, spent) /\ spent.state = g.state /\ spent.audited = g.audited
          /\ spent.given = g.given
      BY <1>2, <1>3, <3>1, <3>2, <3>3 DEF Tame
    <3> HIDE DEF spent
    <3>5. /\ Tame(g, Sup!Violated(spent)) /\ Sup!Violated(spent).state = g.state
          /\ Sup!Violated(spent).audited = g.audited /\ Sup!Violated(spent).given = g.given
      <4> DEFINE v == Sup!Violated(spent)
      <4>1. /\ v \in AgentRec /\ v.fuel = 0 /\ v.level = 0 /\ v.state = spent.state
            /\ v.cap = spent.cap /\ v.spent = spent.spent /\ v.audited = spent.audited
            /\ v.given = spent.given
        BY <3>3, Punishing
      <4> HIDE DEF v
      <4>2. v.fuel + v.spent <= g.fuel + g.spent
        BY <1>2, <1>3, <3>1, <3>2, <3>3, <4>1
      <4>3. Tame(g, v) /\ v.state = g.state /\ v.audited = g.audited /\ v.given = g.given
        BY <3>2, <3>3, <4>1, <4>2 DEF Tame
      <4> QED BY <4>3 DEF v
    <3>6. h = spent \/ h = Sup!Violated(spent)
      BY <2>2
    <3> HIDE DEF h
    <3> QED BY <3>4, <3>5, <3>6
  <2> QED BY <2>1, <2>2
<1> HIDE DEF h
<1>5. RestOK(h) /\ (Took(h) => Took(g))
  BY <1>2, <1>4 DEF RestOK, Tame, Took
<1> QED BY <1>1, <1>4, <1>5, UpdateStep

LEMMA SafetyStep ==
  ASSUME Sup!SupervisorAssumption, SupInv, NEW a \in Agents, Sup!safety_halt(a)
  PROVE  SupInv'
<1> DEFINE g == agent[a]
           m == Sup!Moved(g, "Stopping")
           h == Sup!Moved(m, "Stopped")
<1>1. Sup!Registered(a) /\ Sup!Update(a, h)
  BY DEF Sup!safety_halt, Sup!HaltedBySafety
<1>2. g \in AgentRec /\ "Stopping" \in Sup!States /\ "Stopped" \in Sup!States
  BY <1>1, RegisteredRecord DEF SupInv, Sup!States
<1>3. m \in AgentRec /\ Tame(g, m)
  BY <1>2, Moving
<1> HIDE DEF m
<1>4. Tame(m, h) /\ h.state = "Stopped" /\ h.audited = "Stopped"
  BY <1>2, <1>3, Moving
<1> HIDE DEF h
<1>5. Tame(g, h) /\ RestOK(h) /\ ~Took(h)
  BY <1>2, <1>3, <1>4, TameIsTransitive DEF RestOK, Sup!Active, Took
<1> QED BY <1>1, <1>5, UpdateStep

LEMMA PermissionStep ==
  ASSUME Sup!SupervisorAssumption, SupInv, NEW a \in Agents, NEW b \in Flags,
         Sup!update_agent_permission(a, b)
  PROVE  SupInv'
<1> DEFINE g == agent[a]
           h == [g EXCEPT !.scheduled = b]
<1>1. Sup!Registered(a) /\ Sup!Update(a, h)
  BY DEF Sup!update_agent_permission
<1>2. g \in AgentRec /\ RestOK(g) /\ b \in BOOLEAN
  BY <1>1, RegisteredRecord DEF SupInv, Sup!SupervisorAssumption
<1>3. /\ h \in AgentRec /\ h.state = g.state /\ h.level = g.level /\ h.fuel = g.fuel
      /\ h.cap = g.cap /\ h.spent = g.spent /\ h.audited = g.audited /\ h.given = g.given
  BY <1>2 DEF AgentRec
<1>4. g.fuel + g.spent \in Nat
  BY <1>2 DEF AgentRec
<1> HIDE DEF h
<1>5. Tame(g, h) /\ RestOK(h) /\ (Took(h) => Took(g))
  BY <1>2, <1>3, <1>4 DEF Tame, RestOK, Took
<1> QED BY <1>1, <1>5, UpdateStep

LEMMA RegisterStep ==
  ASSUME Sup!SupervisorAssumption, SupInv, NEW a \in Agents, NEW l \in Levels,
         NEW c \in Caps, NEW s \in Flags, NEW i \in Sup!States,
         Sup!register_agent(a, l, c, s, i)
  PROVE  SupInv'
<1> DEFINE g == Sup!Entry(l, c, s, i)
<1>1. /\ ~Sup!Registered(a) /\ agent' = [agent EXCEPT ![a] = g] /\ task' = task
  BY DEF Sup!register_agent, Sup!Update
<1>2. /\ g \in AgentRec /\ "state" \in g.given /\ g.fuel = c /\ g.cap = c /\ g.spent = 0
      /\ c \in Nat /\ ~Took(g)
  <2> DEFINE n == {"state"} \cup (IF i \in Sup!Active THEN {"place"} ELSE {})
  <2>1. n \subseteq {"state", "place"} /\ "state" \in n /\ (i \in Sup!Active => "place" \in n)
    OBVIOUS
  <2>2. g = [state |-> i, level |-> l, fuel |-> c, cap |-> c, spent |-> 0, calls |-> <<>>,
             audited |-> "None", scheduled |-> s, given |-> n]
    BY DEF Sup!Entry
  <2> HIDE DEF n
  <2>3. c \in Nat /\ s \in BOOLEAN
    BY DEF Sup!SupervisorAssumption
  <2> HIDE DEF g
  <2> QED BY <2>1, <2>2, <2>3 DEF AgentRec, Took
<1> HIDE DEF g
<1>3. SupShape /\ g # Sup!None
  BY <1>2 DEF SupInv, Sup!None, AgentRec, Sup!States
<1>4. \A b \in Agents : b # a => (Sup!Registered(b)' <=> Sup!Registered(b))
                                 /\ agent'[b] = agent[b]
  BY <1>1, <1>3 DEF SupShape, Sup!Registered, Sup!None
<1>5. Sup!Registered(a)' /\ agent'[a] = g
  BY <1>1, <1>3 DEF SupShape, Sup!Registered, Sup!None
<1>6. \A b \in Agents : Holders(b)' = Holders(b)
  BY <1>1 DEF Holders
<1>7. Holders(a) = {}
  BY <1>1, <1>3 DEF SupShape, Holders
<1>8. SupShape'
  <2>1. agent' \in [Agents -> AgentRec \cup {Sup!None}]
    BY <1>1, <1>2, <1>3 DEF SupShape
  <2>2. \A t \in Tasks, b \in Agents : Holds(task'[t], b) => Sup!Registered(b)'
    BY <1>1, <1>3, <1>4, <1>5 DEF SupShape
  <2> QED BY <1>1, <1>3, <2>1, <2>2 DEF SupShape, Sup!None, Sup!Idle
<1>9. Sup!CapsHold'
  BY <1>1, <1>2, CapsStep
<1>10. \A b \in Agents : Sup!Registered(b)' =>
         RestOK(agent'[b]) /\ FuelOK(agent'[b], Cardinality(Holders(b)'))
  <2>1. RestOK(g)
    BY <1>2 DEF RestOK
  <2>2. FuelOK(g, 0)
    <3>1. PerRun \in Nat
      BY DEF Sup!SupervisorAssumption
    <3> QED BY <1>2, <3>1 DEF FuelOK
  <2>3. RestOK(agent'[a]) /\ FuelOK(agent'[a], Cardinality(Holders(a)'))
    BY <1>5, <1>6, <1>7, <2>1, <2>2, FS_EmptySet
  <2> QED BY <1>4, <1>6, <2>3 DEF SupInv
<1> QED BY <1>8, <1>9, <1>10 DEF SupInv

\* How many hold a reservation of agent b's after task t became r.
LEMMA HolderCount ==
  ASSUME Sup!SupervisorAssumption, SupShape, NEW t \in Tasks, NEW r,
         task' = [task EXCEPT ![t] = r], NEW b \in Agents
  PROVE  /\ Cardinality(Holders(b)) \in Nat
         /\ (Holds(r, b) <=> Holds(task[t], b)) => Holders(b)' = Holders(b)
         /\ Holds(r, b) /\ ~Holds(task[t], b) =>
              Cardinality(Holders(b)') = Cardinality(Holders(b)) + 1
         /\ ~Holds(r, b) /\ Holds(task[t], b) =>
              Cardinality(Holders(b)') + 1 = Cardinality(Holders(b))
<1>1. Holders(b) \subseteq Tasks /\ Holders(b)' \subseteq Tasks
  BY DEF Holders
<1>2. /\ IsFiniteSet(Holders(b)) /\ Cardinality(Holders(b)) \in Nat
      /\ IsFiniteSet(Holders(b)') /\ Cardinality(Holders(b)') \in Nat
  BY <1>1, SupCounts
<1>3. \A u \in Tasks : u # t => (u \in Holders(b)' <=> u \in Holders(b))
  BY DEF SupShape, Holders
<1>4. (t \in Holders(b)' <=> Holds(r, b)) /\ (t \in Holders(b) <=> Holds(task[t], b))
  BY DEF SupShape, Holders
<1>5. (Holds(r, b) <=> Holds(task[t], b)) => Holders(b)' = Holders(b)
  BY <1>1, <1>3, <1>4
<1>6. ASSUME Holds(r, b), ~Holds(task[t], b)
      PROVE  Cardinality(Holders(b)') = Cardinality(Holders(b)) + 1
  <2>1. Holders(b)' = Holders(b) \cup {t} /\ t \notin Holders(b)
    BY <1>1, <1>3, <1>4, <1>6
  <2> QED BY <1>2, <2>1, FS_AddElement
<1>7. ASSUME ~Holds(r, b), Holds(task[t], b)
      PROVE  Cardinality(Holders(b)') + 1 = Cardinality(Holders(b))
  <2>1. Holders(b) = Holders(b)' \cup {t} /\ t \notin Holders(b)'
    BY <1>1, <1>3, <1>4, <1>7
  <2> QED BY <1>2, <2>1, FS_AddElement
<1> QED BY <1>2, <1>5, <1>6, <1>7

\* A step of task t alone.
LEMMA TaskStep ==
  ASSUME Sup!SupervisorAssumption, SupInv, NEW t \in Tasks,
         NEW r \in TaskRec \cup {Sup!Idle}, task' = [task EXCEPT ![t] = r],
         agent' = agent, \A b \in Agents : Holds(r, b) <=> Holds(task[t], b)
  PROVE  SupInv'
<1>1. SupShape
  BY DEF SupInv
<1>2. \A b \in Agents : Holders(b)' = Holders(b)
  BY <1>1, HolderCount
<1>3. \A b \in Agents : Sup!Registered(b)' <=> Sup!Registered(b)
  BY DEF Sup!Registered, Sup!None
<1>4. SupShape'
  <2>1. task' \in [Tasks -> TaskRec \cup {Sup!Idle}]
    BY <1>1 DEF SupShape
  <2>2. \A u \in Tasks, b \in Agents : Holds(task'[u], b) => Sup!Registered(b)'
    BY <1>1, <1>3 DEF SupShape
  <2> QED BY <1>1, <2>1, <2>2 DEF SupShape, Sup!None, Sup!Idle
<1>5. Sup!CapsHold'
  BY DEF SupInv, Sup!CapsHold, Sup!Registered, Sup!None, Sup!Active
<1> QED BY <1>2, <1>3, <1>4, <1>5 DEF SupInv

\* A step of task t that changes the record of its agent a as well: the fuel
\* it moves is accounted for among the reservations.
LEMMA FuelStep ==
  ASSUME Sup!SupervisorAssumption, SupInv, NEW t \in Tasks, NEW a \in Agents,
         NEW r \in TaskRec \cup {Sup!Idle}, task' = [task EXCEPT ![t] = r],
         Sup!Registered(a), NEW g \in AgentRec, agent' = [agent EXCEPT ![a] = g],
         g.state = agent[a].state, g.audited = agent[a].audited, g.cap = agent[a].cap,
         g.level \in {agent[a].level, 0}, g.given = agent[a].given,
         \A b \in Agents \ {a} : ~Holds(r, b) /\ ~Holds(task[t], b),
         \/ /\ Holds(r, a) /\ ~Holds(task[t], a)
            /\ g.fuel + PerRun + g.spent <= agent[a].fuel + agent[a].spent
         \/ /\ ~Holds(r, a) /\ Holds(task[t], a)
            /\ g.fuel + g.spent <= agent[a].fuel + PerRun + agent[a].spent
         \/ /\ ~Holds(r, a) /\ ~Holds(task[t], a)
            /\ g.fuel + g.spent <= agent[a].fuel + agent[a].spent
  PROVE  SupInv'
<1>1. SupShape /\ agent[a] \in AgentRec /\ RestOK(agent[a])
      /\ FuelOK(agent[a], Cardinality(Holders(a)))
  BY RegisteredRecord DEF SupInv
<1>2. g # Sup!None
  BY DEF AgentRec, Sup!None, Sup!States
<1>3. \A b \in Agents : Sup!Registered(b)' <=> Sup!Registered(b)
  BY <1>1, <1>2 DEF SupShape, Sup!Registered, Sup!None
<1>4. SupShape'
  <2>1. task' \in [Tasks -> TaskRec \cup {Sup!Idle}]
        /\ agent' \in [Agents -> AgentRec \cup {Sup!None}]
    BY <1>1 DEF SupShape
  <2>2. \A b \in Agents : Holds(r, b) => Sup!Registered(b)
    OBVIOUS
  <2>3. \A u \in Tasks, b \in Agents : Holds(task'[u], b) => Sup!Registered(b)'
    BY <1>1, <1>3, <2>2 DEF SupShape
  <2> QED BY <1>1, <2>1, <2>3 DEF SupShape, Sup!None, Sup!Idle
<1>5. Sup!CapsHold'
  <2>1. Took(g) => Took(agent[a])
    BY DEF Took
  <2>2. g.level # 0 => g.level = agent[a].level
    OBVIOUS
  <2> QED BY <2>1, <2>2, CapsStep
<1>6. \A b \in Agents \ {a} : agent'[b] = agent[b] /\ Holders(b)' = Holders(b)
  BY <1>1, HolderCount DEF SupShape
<1>7. agent'[a] = g /\ RestOK(g)
  BY <1>1 DEF SupShape, RestOK
<1>8. FuelOK(g, Cardinality(Holders(a)'))
  <2> DEFINE n == Cardinality(Holders(a))
             k == Cardinality(Holders(a)')
             x == agent[a].fuel + agent[a].spent
             y == g.fuel + g.spent
  <2>1. n \in Nat /\ k \in Nat /\ PerRun \in Nat /\ x \in Nat /\ y \in Nat
        /\ agent[a].cap \in Nat
    <3>1. Holders(a)' \subseteq Tasks
      BY DEF Holders
    <3>2. n \in Nat /\ k \in Nat
      BY <1>1, <3>1, HolderCount, SupCounts
    <3>3. PerRun \in Nat
      BY DEF Sup!SupervisorAssumption
    <3>4. x \in Nat /\ y \in Nat /\ agent[a].cap \in Nat
      BY <1>1 DEF AgentRec
    <3> QED BY <3>2, <3>3, <3>4
  <2>2. x + PerRun * n <= agent[a].cap
    <3>1. PerRun * n \in Nat
      BY <2>1
    <3> HIDE DEF n
    <3>2. agent[a].fuel + PerRun * n + agent[a].spent <= agent[a].cap
      BY <1>1 DEF FuelOK, n
    <3> QED BY <1>1, <3>1, <3>2 DEF AgentRec
  <2>3. \/ k = n + 1 /\ y + PerRun <= x
        \/ n = k + 1 /\ y <= x + PerRun
        \/ k = n /\ y <= x
    <3>1. /\ Holds(r, a) /\ ~Holds(task[t], a) => k = n + 1
          /\ ~Holds(r, a) /\ Holds(task[t], a) => k + 1 = n
          /\ ~Holds(r, a) /\ ~Holds(task[t], a) => k = n
      BY <1>1, HolderCount
    <3> HIDE DEF n, k
    <3>2. /\ agent[a].fuel \in Nat /\ agent[a].spent \in Nat /\ g.fuel \in Nat
          /\ g.spent \in Nat /\ PerRun \in Nat
      BY <1>1, <2>1 DEF AgentRec
    <3>3. \/ /\ Holds(r, a) /\ ~Holds(task[t], a) /\ y + PerRun <= x
          \/ /\ ~Holds(r, a) /\ Holds(task[t], a) /\ y <= x + PerRun
          \/ /\ ~Holds(r, a) /\ ~Holds(task[t], a) /\ y <= x
      BY <3>2
    <3> HIDE DEF x, y
    <3> QED BY <3>1, <3>3
  <2> HIDE DEF n, k, x, y
  <2>4. y + PerRun * k <= agent[a].cap
    <3>1. CASE k = n + 1 /\ y + PerRun <= x
      <4>1. PerRun * (n + 1) = PerRun * n + PerRun /\ PerRun * n \in Nat
        BY <2>1
      <4> QED BY <2>1, <2>2, <3>1, <4>1
    <3>2. CASE n = k + 1 /\ y <= x + PerRun
      <4>1. PerRun * (k + 1) = PerRun * k + PerRun /\ PerRun * k \in Nat
        BY <2>1
      <4> QED BY <2>1, <2>2, <3>2, <4>1
    <3>3. CASE k = n /\ y <= x
      <4>1. PerRun * n \in Nat
        BY <2>1
      <4> QED BY <2>1, <2>2, <3>3, <4>1
    <3> QED BY <2>3, <3>1, <3>2, <3>3
  <2>5. PerRun * k \in Nat
    BY <2>1
  <2>6. g.fuel + PerRun * k + g.spent <= g.cap
    BY <2>4, <2>5 DEF y, AgentRec
  <2> QED BY <2>6 DEF FuelOK, k
<1>9. \A b \in Agents : Sup!Registered(b)' =>
        RestOK(agent'[b]) /\ FuelOK(agent'[b], Cardinality(Holders(b)'))
  BY <1>3, <1>6, <1>7, <1>8 DEF SupInv
<1> QED BY <1>4, <1>5, <1>9 DEF SupInv

\* Which agent a task's reservation is of.
LEMMA TaskAgent ==
  ASSUME SupShape, NEW t \in Tasks, task[t].pc # "idle"
  PROVE  /\ task[t] \in TaskRec /\ task[t].of \in Agents
         /\ \A b \in Agents \ {task[t].of} : ~Holds(task[t], b)
BY DEF SupShape, TaskRec, Sup!Idle, Holds

LEMMA CheckStep ==
  ASSUME Sup!SupervisorAssumption, SupInv, NEW t \in Tasks, NEW a \in Agents,
         Sup!CapabilityCheck(t, a)
  PROVE  SupInv'
<1> DEFINE r == [pc |-> "checked", of |-> a, fuel |-> "none"]
<1>1. task[t] = Sup!Idle /\ task' = [task EXCEPT ![t] = r] /\ agent' = agent
  BY DEF Sup!CapabilityCheck, Sup!Goes
<1>2. r \in TaskRec /\ \A b \in Agents : ~Holds(r, b) /\ ~Holds(task[t], b)
  BY <1>1 DEF TaskRec, Holds, Sup!Idle
<1> HIDE DEF r
<1> QED BY <1>1, <1>2, TaskStep

LEMMA GoOnStep ==
  ASSUME Sup!SupervisorAssumption, SupInv, NEW t \in Tasks, Sup!NotRun(t) \/ Sup!RunTask(t)
  PROVE  SupInv'
<1>1. PICK pc \in {"cancel", "ran"} :
        /\ task[t].pc = "reserved" /\ agent' = agent
        /\ task' = [task EXCEPT ![t] = [task[t] EXCEPT !.pc = pc]]
  BY DEF Sup!NotRun, Sup!RunTask, Sup!Goes
<1> DEFINE r == [task[t] EXCEPT !.pc = pc]
<1>2. task[t] \in TaskRec
  BY <1>1, TaskAgent DEF SupInv
<1>3. r \in TaskRec /\ r.pc = pc /\ r.of = task[t].of /\ r.fuel = task[t].fuel
  BY <1>2 DEF TaskRec
<1>4. task' = [task EXCEPT ![t] = r]
  BY <1>1
<1> HIDE DEF r
<1>5. \A b \in Agents : Holds(r, b) <=> Holds(task[t], b)
  BY <1>1, <1>3 DEF Holds
<1> QED BY <1>1, <1>3, <1>4, <1>5, TaskStep

LEMMA ReserveFuelStep ==
  ASSUME Sup!SupervisorAssumption, SupInv, NEW t \in Tasks, Sup!ReserveStep(t)
  PROVE  SupInv'
<1> DEFINE a == task[t].of
           how == IF ~Sup!Registered(a) THEN "standalone"
                  ELSE IF Sup!CanReserve(agent[a], PerRun) THEN "paid" ELSE "refused"
           r == [task[t] EXCEPT !.pc = "reserved", !.fuel = how]
           g == Sup!Reserved(agent[a], PerRun)
<1>1. /\ task[t].pc = "checked" /\ task' = [task EXCEPT ![t] = r]
      /\ agent' = IF Sup!Registered(a) THEN [agent EXCEPT ![a] = g] ELSE agent
  BY DEF Sup!ReserveStep, Sup!Goes
<1>2. SupShape /\ task[t] \in TaskRec /\ a \in Agents /\ PerRun \in Nat
  BY <1>1, TaskAgent DEF SupInv, Sup!SupervisorAssumption
<1>3. how \in {"standalone", "paid", "refused"}
  OBVIOUS
<1>4. r \in TaskRec /\ r.pc = "reserved" /\ r.of = a /\ r.fuel = how
  <2> HIDE DEF how
  <2> QED BY <1>2, <1>3 DEF TaskRec
<1> HIDE DEF r
<1>5. /\ \A b \in Agents : ~Holds(task[t], b)
      /\ \A b \in Agents \ {a} : ~Holds(r, b)
      /\ Holds(r, a) <=> how = "paid"
  BY <1>1, <1>4 DEF Holds
<1>6. CASE ~Sup!Registered(a)
  <2>1. agent' = agent /\ how = "standalone"
    BY <1>1, <1>6
  <2>2. \A b \in Agents : Holds(r, b) <=> Holds(task[t], b)
    BY <1>5, <2>1
  <2> QED BY <1>1, <1>4, <2>1, <2>2, TaskStep
<1>7. CASE Sup!Registered(a)
  <2>1. agent[a] \in AgentRec /\ agent' = [agent EXCEPT ![a] = g]
    BY <1>1, <1>2, <1>7, RegisteredRecord
  <2>2. agent[a].fuel \in Nat /\ agent[a].spent \in Nat
    BY <2>1 DEF AgentRec
  <2>3. /\ g \in AgentRec /\ g.state = agent[a].state /\ g.audited = agent[a].audited
        /\ g.given = agent[a].given /\ g.cap = agent[a].cap /\ g.spent = agent[a].spent
        /\ Sup!CanReserve(agent[a], PerRun) =>
             g.fuel = agent[a].fuel - PerRun /\ g.level = agent[a].level
        /\ ~Sup!CanReserve(agent[a], PerRun) => g.fuel = 0 /\ g.level = 0
    BY <1>2, <2>1, Reserving
  <2> HIDE DEF g
  <2>4. CASE Sup!CanReserve(agent[a], PerRun)
    <3>1. Holds(r, a)
      BY <1>5, <1>7, <2>4
    <3>2. g.fuel + PerRun + g.spent <= agent[a].fuel + agent[a].spent
      BY <1>2, <2>2, <2>3, <2>4
    <3> QED BY <1>1, <1>2, <1>4, <1>5, <1>7, <2>1, <2>3, <2>4, <3>1, <3>2, FuelStep
  <2>5. CASE ~Sup!CanReserve(agent[a], PerRun)
    <3>1. ~Holds(r, a)
      BY <1>5, <1>7, <2>5
    <3>2. g.fuel + g.spent <= agent[a].fuel + agent[a].spent
      BY <2>2, <2>3, <2>5
    <3> QED BY <1>1, <1>2, <1>4, <1>5, <1>7, <2>1, <2>3, <2>5, <3>1, <3>2, FuelStep
  <2> QED BY <2>4, <2>5
<1> QED BY <1>6, <1>7

LEMMA SettleFuelStep ==
  ASSUME Sup!SupervisorAssumption, SupInv, NEW t \in Tasks,
         Sup!CancelFuel(t) \/ \E c \in 0..PerRun : Sup!CommitFuel(t, c)
  PROVE  SupInv'
<1> DEFINE a == task[t].of
<1>1. /\ task[t].pc \in {"cancel", "ran"} /\ task' = [task EXCEPT ![t] = Sup!Idle]
      /\ task[t].fuel # "paid" => agent' = agent
  BY DEF Sup!CancelFuel, Sup!CommitFuel, Sup!Goes
<1>2. /\ SupShape /\ task[t] \in TaskRec /\ a \in Agents /\ PerRun \in Nat
      /\ \A b \in Agents \ {a} : ~Holds(task[t], b)
  BY <1>1, TaskAgent DEF SupInv, Sup!SupervisorAssumption
<1>3. \A b \in Agents : ~Holds(Sup!Idle, b)
  BY DEF Holds, Sup!Idle
<1>4. Holds(task[t], a) <=> task[t].fuel = "paid"
  BY <1>1 DEF Holds
<1>5. CASE task[t].fuel # "paid"
  <2>1. \A b \in Agents : Holds(Sup!Idle, b) <=> Holds(task[t], b)
    BY <1>2, <1>3, <1>4, <1>5
  <2> QED BY <1>1, <1>5, <2>1, TaskStep
<1>6. CASE task[t].fuel = "paid"
  <2>1. Holds(task[t], a) /\ Sup!Registered(a) /\ agent[a] \in AgentRec
    BY <1>2, <1>4, <1>6, RegisteredRecord DEF SupShape
  <2>2. agent[a].fuel \in Nat /\ agent[a].spent \in Nat
    BY <2>1 DEF AgentRec
  <2>3. CASE Sup!CancelFuel(t)
    <3> DEFINE g == [agent[a] EXCEPT !.fuel = agent[a].fuel + PerRun]
    <3>1. agent' = [agent EXCEPT ![a] = g]
      BY <1>6, <2>3 DEF Sup!CancelFuel
    <3>2. /\ g \in AgentRec /\ g.state = agent[a].state /\ g.audited = agent[a].audited
          /\ g.cap = agent[a].cap /\ g.spent = agent[a].spent /\ g.level = agent[a].level
          /\ g.fuel = agent[a].fuel + PerRun /\ g.given = agent[a].given
      <4> DEFINE x == agent[a]
      <4>1. x \in AgentRec /\ x.fuel + PerRun \in Nat
        BY <1>2, <2>1, <2>2
      <4> HIDE DEF x
      <4>2. /\ [x EXCEPT !.fuel = x.fuel + PerRun] \in AgentRec
            /\ [x EXCEPT !.fuel = x.fuel + PerRun].state = x.state
            /\ [x EXCEPT !.fuel = x.fuel + PerRun].audited = x.audited
            /\ [x EXCEPT !.fuel = x.fuel + PerRun].cap = x.cap
            /\ [x EXCEPT !.fuel = x.fuel + PerRun].spent = x.spent
            /\ [x EXCEPT !.fuel = x.fuel + PerRun].level = x.level
            /\ [x EXCEPT !.fuel = x.fuel + PerRun].given = x.given
            /\ [x EXCEPT !.fuel = x.fuel + PerRun].fuel = x.fuel + PerRun
        BY <4>1 DEF AgentRec
      <4> QED BY <4>2 DEF x
    <3> HIDE DEF g
    <3>3. g.fuel + g.spent <= agent[a].fuel + PerRun + agent[a].spent
      BY <1>2, <2>2, <3>2
    <3> QED BY <1>1, <1>2, <1>3, <2>1, <3>1, <3>2, <3>3, FuelStep
  <2>4. ASSUME NEW c \in 0..PerRun, Sup!CommitFuel(t, c) PROVE SupInv'
    <3> DEFINE g == Sup!Committed(agent[a], PerRun, c)
    <3>1. agent' = [agent EXCEPT ![a] = g]
      BY <1>6, <2>4 DEF Sup!CommitFuel
    <3>2. /\ g \in AgentRec /\ g.state = agent[a].state /\ g.audited = agent[a].audited
          /\ g.cap = agent[a].cap /\ g.level \in {agent[a].level, 0}
          /\ g.given = agent[a].given
          /\ g.fuel + g.spent <= agent[a].fuel + PerRun + agent[a].spent
      BY <1>2, <2>1, Committing
    <3> HIDE DEF g
    <3> QED BY <1>1, <1>2, <1>3, <2>1, <3>1, <3>2, FuelStep
  <2> QED BY <2>3, <2>4
<1> QED BY <1>5, <1>6

(* No more agents of a capped level hold a place that a start took than    *)
(* the configuration allows, no sequence of reservations, settlements,     *)
(* refunds and violations makes fuel, a start that failed for fuel holds   *)
(* no place, and a rest is what the audit trail says or the registration   *)
(* gave: in whatever states agents are registered, and however any number  *)
(* of agents and executor threads take turns at the supervisor's mutex     *)
(* (supervisor.rs, scheduler/executor.rs).                                 *)
THEOREM AgentsAlwaysHold ==
  ASSUME Sup!SupervisorAssumption
  PROVE  Sup!Spec => []Sup!AgentsHold
<1>1. Sup!Init => SupInv
  <2>1. SUFFICES ASSUME Sup!Init PROVE SupInv
    OBVIOUS
  <2>2. \A a \in Agents : ~Sup!Registered(a)
    BY <2>1 DEF Sup!Init, Sup!Registered
  <2>3. \A t \in Tasks, a \in Agents : ~Holds(task[t], a)
    BY <2>1 DEF Sup!Init, Holds, Sup!Idle
  <2>4. SupShape
    BY <2>1, <2>3 DEF Sup!Init, SupShape
  <2>5. Placed(5) = {} /\ Placed(6) = {} /\ MaxL5 \in Nat /\ MaxL6 \in Nat
    BY <2>2 DEF Placed, Sup!SupervisorAssumption
  <2>6. Cardinality(Placed(5)) <= MaxL5 /\ Cardinality(Placed(6)) <= MaxL6
    BY <2>5, FS_EmptySet
  <2>7. Sup!CapsHold
    BY <2>6, SameCount DEF Sup!CapsHold, Placed, Took
  <2> QED BY <2>2, <2>4, <2>7 DEF SupInv
<1>2. SupInv /\ [Sup!Next]_(Sup!vars) => SupInv'
  <2>1. SUFFICES ASSUME SupInv, [Sup!Next]_(Sup!vars) PROVE SupInv'
    OBVIOUS
  <2>2. ASSUME NEW a \in Agents, NEW l \in Levels, NEW c \in Caps, NEW s \in Flags,
               NEW i \in Sup!States, Sup!register_agent(a, l, c, s, i)
        PROVE  SupInv'
    BY <2>1, <2>2, RegisterStep
  <2>3. ASSUME NEW a \in Agents,
               \/ Sup!transition_to_running(a) \/ Sup!stop_agent(a) \/ Sup!pause_agent(a)
               \/ Sup!resume_agent(a) \/ Sup!restart_agent(a) \/ Sup!safety_halt(a)
               \/ \E c \in Spends : Sup!record_llm_spend(a, c)
               \/ \E b \in Flags : Sup!update_agent_permission(a, b)
        PROVE  SupInv'
    BY <2>1, <2>3, StartStep, StopStep, PauseResumeStep, RestartStep, SafetyStep, SpendStep,
       PermissionStep
  <2>4. ASSUME NEW t \in Tasks,
               \/ \E a \in Agents : Sup!CapabilityCheck(t, a)
               \/ Sup!ReserveStep(t) \/ Sup!NotRun(t) \/ Sup!CancelFuel(t)
               \/ Sup!RunTask(t) \/ \E c \in 0..PerRun : Sup!CommitFuel(t, c)
        PROVE  SupInv'
    BY <2>1, <2>4, CheckStep, ReserveFuelStep, GoOnStep, SettleFuelStep
  <2>5. CASE UNCHANGED Sup!vars
    <3>1. agent' = agent /\ task' = task
      BY <2>5 DEF Sup!vars
    <3>2. \A b \in Agents : Holders(b)' = Holders(b)
                            /\ (Sup!Registered(b)' <=> Sup!Registered(b))
      BY <3>1 DEF Holders, Sup!Registered, Sup!None
    <3>3. SupShape'
      BY <2>1, <3>1, <3>2 DEF SupInv, SupShape, Sup!None, Sup!Idle
    <3>4. Sup!CapsHold'
      BY <2>1, <3>1 DEF SupInv, Sup!CapsHold, Sup!Registered, Sup!None, Sup!Active
    <3> QED BY <2>1, <3>1, <3>2, <3>3, <3>4 DEF SupInv
  <2> QED BY <2>1, <2>2, <2>3, <2>4, <2>5 DEF Sup!Next
<1>3. SupInv => Sup!AgentsHold
  <2>1. SUFFICES ASSUME SupInv PROVE Sup!AgentsHold
    OBVIOUS
  <2>2. \A a \in Agents : Sup!HeldFor(a) = PerRun * Cardinality(Holders(a))
    BY SameCount DEF Sup!HeldFor, Holders, Holds
  <2>3. Sup!FuelIsConserved
    BY <2>1, <2>2 DEF SupInv, FuelOK, Sup!FuelIsConserved
  <2>4. Sup!StartingIsAFailedStart /\ Sup!RestIsAudited
    BY <2>1 DEF SupInv, RestOK, Sup!StartingIsAFailedStart, Sup!RestIsAudited
  <2> QED BY <2>1, <2>3, <2>4 DEF SupInv, Sup!AgentsHold
<1> QED BY <1>1, <1>2, <1>3, PTL DEF Sup!Spec

=============================================================================
