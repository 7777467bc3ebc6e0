---------------------------- MODULE EvidenceStore ----------------------------
(***************************************************************************)
(* The broker's evidence of record (evidence_store.rs): one append-only    *)
(* table that outlives the process, and what one process keeps of it in    *)
(* memory behind one mutex, so that each operation is one step.  An        *)
(* operation makes several appends (every owed record first); each append  *)
(* may be refused before COMMIT, fail at COMMIT with the row in the file   *)
(* or not, or be the last thing the process does.                          *)
(*                                                                         *)
(* A row is [phase, c, body]: c is a commitment or NoCommitment, body the  *)
(* content (a session for the session statements, the highest row covered  *)
(* for an acknowledgement).  The tag chain is the order of the sequence; a *)
(* file changed by someone else is outside the store's threat model.       *)
(***************************************************************************)
EXTENDS Naturals, FiniteSets, Sequences, SequencesExt

CONSTANTS Commitments, NoCommitment,
          EndKinds,          \* phases of the end records callers write
          Bodies,            \* contents a finished record may have
          OwedCapacity,      \* OWED_CAPACITY
          MaxSessions,       \* processes that open the store
          MaxRows,           \* rows after which no caller records more
          MaxFaults          \* appends that go wrong

EvidenceAssumption ==
    /\ NoCommitment \notin Commitments
    /\ {OwedCapacity, MaxSessions, MaxRows} \subseteq Nat \ {0}
    /\ MaxFaults \in Nat /\ Bodies \subseteq Nat
    /\ EndKinds \subseteq {"finished", "revoked", "run_cancelled"}

VARIABLES
    rows,     \* the file: every committed row, in order
    session,  \* how many processes have opened the file
    up,       \* a qualified store is open
    mem,      \* Inner: last_seq, latched, known, owed
    dialog,   \* covers_through of the acknowledgement being asked, 0: none
    calls,    \* this process's records in the order they took effect
    told,     \* <<record, seq>>: what a caller was told is row seq
    shown,    \* the statements the owner has been shown, by row
    faults    \* appends that have gone wrong

vars == <<rows, session, up, mem, dialog, calls, told, shown, faults>>

Record(phase, c, body) == [phase |-> phase, c |-> c, body |-> body]
Statement(phase, body) == Record(phase, NoCommitment, body)

EndPhases == {"finished", "revoked"}
OncePhases == {"started", "unsettled"} \cup EndPhases

\* What a caller may record: before an action (gating), after one (end).
GatingRecords == [phase : {"started"}, c : Commitments, body : {0}]
EndRecords ==
    {rec \in [phase : {"finished"}, c : Commitments, body : Bodies]
                \cup [phase : {"revoked"}, c : Commitments, body : {1}]
                \cup {Statement("run_cancelled", 0)} : rec.phase \in EndKinds}

(***************************************************************************)
(* Known: what the rows say, kept as they are appended.                    *)
(***************************************************************************)
NothingKnown == [started |-> {}, ended |-> {}, unsettled |-> {},
                 opened |-> <<>>, closed |-> {}, unclean |-> {},
                 acknowledged |-> 0]

Take(k, row, seq) ==
    CASE row.phase = "started"   -> [k EXCEPT !.started = @ \cup {row.c}]
      [] row.phase \in EndPhases -> [k EXCEPT !.ended = @ \cup {row.c}]
      [] row.phase = "unsettled" -> [k EXCEPT !.unsettled = @ \cup {<<row.c, seq>>}]
      [] row.phase = "session_opened" -> [k EXCEPT !.opened = Append(@, row.body)]
      [] row.phase = "session_closed" -> [k EXCEPT !.closed = @ \cup {row.body}]
      [] row.phase = "unclean_session" -> [k EXCEPT !.unclean = @ \cup {<<row.body, seq>>}]
      [] row.phase = "acknowledged" ->
            [k EXCEPT !.acknowledged = IF row.body > @ THEN row.body ELSE @]
      [] OTHER -> k

KnownOf(rs) ==
    LET after[n \in 0..Len(rs)] ==
            IF n = 0 THEN NothingKnown ELSE Take(after[n - 1], rs[n], n)
    IN  after[Len(rs)]

RecoveryRequired(k) == \E u \in k.unsettled : u[2] > k.acknowledged

(***************************************************************************)
(* One append.  s is [file, mem, res, alive]: the file and the memory as   *)
(* an operation goes on, what its last append came to, and whether the     *)
(* process outlived it.                                                    *)
(***************************************************************************)
\* "ok", or what goes wrong with an append: refused before COMMIT; COMMIT
\* failed, the row lost or in the file; the process ends on either side.
Failures == {"refused", "lost", "durable", "dies_before", "dies_after"}
Strikes == {"refused", "lost", "durable", "dies_before", "dies_after", "ok"}

Going == [file |-> rows, mem |-> mem, res |-> "none", alive |-> TRUE]

Wrote(s) == s.res \in {"committed", "already"}

Latch(s, res) == [s EXCEPT !.mem.latched = TRUE, !.res = res]

Insert(s, rec) == [s EXCEPT !.file = Append(@, rec)]

Same(s, rec) == {n \in 1..Len(s.file) :
                    /\ rec.phase \in OncePhases
                    /\ s.file[n].phase = rec.phase /\ s.file[n].c = rec.c}

Already(s, rec) ==
    IF \E n \in Same(s, rec) : s.file[n].body = rec.body
    THEN [s EXCEPT !.res = "already"]
    ELSE Latch(s, "conflict")

Committed(s, rec) ==
    [Insert(s, rec) EXCEPT !.mem.known = Take(@, rec, s.mem.last + 1),
                           !.mem.last = s.mem.last + 1,
                           !.res = "committed"]

FailedCommit(s, rec, f) ==
    Latch(IF f = "durable" THEN Insert(s, rec) ELSE s, "uncertain")

AppendRow(s, rec, f) ==
    IF s.mem.latched THEN [s EXCEPT !.res = "latched"]
    ELSE IF f = "refused" THEN [s EXCEPT !.res = "not_committed"]
    ELSE IF f = "dies_before" THEN [s EXCEPT !.alive = FALSE, !.res = "died"]
    ELSE IF s.mem.last < Len(s.file) THEN Latch(s, "uncertain")   \* the primary key
    ELSE IF Same(s, rec) # {} THEN Already(s, rec)
    ELSE CASE f = "dies_after" -> [Insert(s, rec) EXCEPT !.alive = FALSE, !.res = "died"]
           [] f \in {"lost", "durable"} -> FailedCommit(s, rec, f)
           [] OTHER -> Committed(s, rec)

\* Mutant of PayOwed: a refused record goes to the end of the list.
PayOwedRound(s, n, f) ==
    LET paid[k \in 0..Len(s.mem.owed)] ==
            IF k = 0 THEN [s EXCEPT !.res = "committed"]
            ELSE LET a == AppendRow(paid[k - 1], s.mem.owed[k], IF k = n THEN f ELSE "ok")
                 IN  IF Wrote(a) THEN [a EXCEPT !.mem.owed = Tail(@)]
                     ELSE [a EXCEPT !.mem.owed = Append(Tail(@), Head(@)),
                                    !.res = IF a.mem.latched \/ ~a.alive THEN a.res ELSE "committed"]
    IN  paid[Len(s.mem.owed)]

\* Every owed record in order, stopping at the first that is not written;
\* f strikes append n of the operation.
PayOwed(s, n, f) ==
    LET paid[k \in 0..Len(s.mem.owed)] ==
            IF k = 0 THEN [s EXCEPT !.res = "committed"]
            ELSE IF ~Wrote(paid[k - 1]) THEN paid[k - 1]
            ELSE LET a == AppendRow(paid[k - 1], s.mem.owed[k], IF k = n THEN f ELSE "ok")
                 IN  IF Wrote(a) THEN [a EXCEPT !.mem.owed = Tail(@)] ELSE a
    IN  paid[Len(s.mem.owed)]

\* Every owed record, then rec.
PayThenAppend(s, rec, n, f) ==
    LET p == PayOwed(s, n, f)
    IN  IF ~Wrote(p) THEN [p EXCEPT !.res = IF p.alive THEN "unpaid" ELSE "died"]
        ELSE AppendRow(p, rec, IF n = Len(s.mem.owed) + 1 THEN f ELSE "ok")

\* owe_unless_latched, owe.
Owe(s, rec) ==
    IF s.mem.latched THEN [s EXCEPT !.res = "uncertain"]
    ELSE IF Len(s.mem.owed) >= OwedCapacity THEN Latch(s, "uncertain")
    ELSE [s EXCEPT !.mem.owed = Append(@, rec), !.res = "owed"]

\* What the rows hold under rec's name once it is written.
RowOf(s, rec) == IF s.res = "committed" THEN Len(s.file)
                 ELSE CHOOSE n \in Same(s, rec) : TRUE

(***************************************************************************)
(* The operations                                                          *)
(***************************************************************************)
Closed == [last |-> 0, latched |-> FALSE, known |-> NothingKnown, owed |-> <<>>]

\* The process ends: what it kept in memory is gone.
Down == /\ up' = FALSE /\ mem' = Closed /\ dialog' = 0 /\ calls' = <<>>

\* A once-only record repeated is one record.
Noted(cs, rec) == IF rec.phase \in OncePhases /\ Contains(cs, rec) THEN cs
                  ELSE Append(cs, rec)

\* An operation that recorded rec came to s: the caller is told, or dead.
Ends(s, rec, d) ==
    /\ rows' = s.file
    /\ IF ~s.alive THEN Down /\ UNCHANGED told
       ELSE /\ mem' = s.mem
            /\ calls' = IF Wrote(s) \/ s.res = "owed" THEN Noted(calls, rec) ELSE calls
            /\ told' = IF Wrote(s) THEN told \cup {<<rec, RowOf(s, rec)>>} ELSE told
            /\ dialog' = d
            /\ UNCHANGED up

\* Which append of the operation goes wrong, and how; n = 0: none does.  A
\* latched store makes none.
Strike(n, f) ==
    /\ IF n = 0 THEN f = "ok"
       ELSE f \in Failures /\ faults < MaxFaults /\ ~mem.latched
    /\ faults' = IF n = 0 THEN faults ELSE faults + 1

\* gate: nothing is owed for a gating record that is not written.
Gate(rec, n, f) ==
    IF mem.latched \/ RecoveryRequired(mem.known)
    THEN [Going EXCEPT !.res = "refused"] ELSE PayThenAppend(Going, rec, n, f)

\* end, close_session.
EndOf(rec, n, f) ==
    LET s == PayThenAppend(Going, rec, n, f)
    IN  IF s.alive /\ (mem.latched \/ s.res \in {"unpaid", "not_committed"})
        THEN Owe(s, rec) ELSE s

\* A commitment's id is fresh in the process that makes it: only its own
\* process records about it.
Mine(c) == \A n \in 1..Len(rows) :
              rows[n].c = c => /\ rows[n].phase # "unsettled"
                               /\ Contains(calls, rows[n])

RecordGate(rec, n, f) ==
    /\ up /\ Len(rows) < MaxRows /\ Mine(rec.c)
    /\ n <= Len(mem.owed) + 1 /\ Strike(n, f)
    /\ Ends(Gate(rec, n, f), rec, dialog)
    /\ UNCHANGED <<session, shown>>

\* Only what was admitted ends, with one record or (a caller's mistake)
\* with two that differ.
RecordEnd(rec, n, f) ==
    /\ up /\ Len(rows) < MaxRows
    /\ rec.c \in Commitments => Contains(calls, Record("started", rec.c, 0))
    /\ n <= Len(mem.owed) + 1 /\ Strike(n, f)
    /\ Ends(EndOf(rec, n, f), rec, dialog)
    /\ UNCHANGED <<session, shown>>

\* A clean shutdown.
CloseSession(n, f) ==
    LET rec == Statement("session_closed", session)
    IN  /\ up /\ ~Contains(calls, rec)
        /\ n <= Len(mem.owed) + 1 /\ Strike(n, f)
        /\ Ends(EndOf(rec, n, f), rec, dialog)
        /\ UNCHANGED <<session, shown>>

\* The process ends, cleanly or not.
Exit == up /\ Down /\ UNCHANGED <<rows, session, told, shown, faults>>

(***************************************************************************)
(* Opening: the session, then the reconciliation, each statement an append *)
(* that must commit.                                                       *)
(***************************************************************************)
Owing(k) == SetToSeq({Record("unsettled", c, 0) :
                c \in {d \in k.started : d \notin k.ended /\ \A u \in k.unsettled : u[1] # d}})

Unclean(k) == SelectSeq(k.opened, LAMBDA s : s \notin k.closed /\ \A u \in k.unclean : u[1] # s)

Reconcile(k) ==
    LET gone == Unclean(k)
    IN  Owing(k) \o [n \in 1..Len(gone) |-> Statement("unclean_session", gone[n])]

AcknowledgementsPrecede(rs) == \A n \in 1..Len(rs) : rs[n].phase = "acknowledged" => rs[n].body < n

Qualify(n, f) ==
    LET k == KnownOf(rows)
        said == <<Statement("session_opened", session + 1)>> \o Reconcile(k)
        start == [Going EXCEPT !.mem = [Closed EXCEPT !.last = Len(rows), !.known = k],
                               !.res = "committed"]
        after[i \in 0..Len(said)] ==
            IF i = 0 THEN start
            ELSE IF after[i - 1].res # "committed" THEN after[i - 1]
            ELSE AppendRow(after[i - 1], said[i], IF i = n THEN f ELSE "ok")
    IN  [s |-> after[Len(said)], steps |-> Len(said)]

\* A store that is not qualified is not opened: nothing falls back.
Open(n, f) ==
    LET q == Qualify(n, f)
    IN  /\ ~up /\ session < MaxSessions /\ AcknowledgementsPrecede(rows)
        /\ n <= q.steps /\ Strike(n, f)
        /\ session' = session + 1
        /\ rows' = q.s.file
        /\ IF q.s.res = "committed"
           THEN /\ up' = TRUE /\ mem' = q.s.mem
                /\ UNCHANGED <<dialog, calls>>
           ELSE Down
        /\ UNCHANGED <<told, shown>>

(***************************************************************************)
(* The owner's acknowledgement (acknowledge_recovery): the statements are  *)
(* read, the owner is asked, and the answer covers what was read.          *)
(***************************************************************************)

Recovery(k) == {u[2] : u \in {v \in k.unsettled \cup k.unclean : v[2] > k.acknowledged}}

Through(k) ==
    LET all == {u[2] : u \in {v \in k.unsettled \cup k.unclean : v[2] > k.acknowledged}}
    IN  CHOOSE n \in all : \A m \in all : m <= n

AskRecovery ==
    /\ up /\ dialog = 0 /\ ~mem.latched /\ RecoveryRequired(mem.known)
    /\ dialog' = Through(mem.known)
    /\ shown' = shown \cup Recovery(mem.known)
    /\ UNCHANGED <<rows, session, up, mem, calls, told, faults>>

DeclineRecovery ==
    /\ up /\ dialog # 0 /\ dialog' = 0
    /\ UNCHANGED <<rows, session, up, mem, calls, told, shown, faults>>

Acknowledge(n, f) ==
    LET rec == Statement("acknowledged", dialog)
        refused == mem.latched \/ dialog > mem.last
    IN  /\ up /\ dialog # 0
        /\ n <= Len(mem.owed) + 1 /\ Strike(n, f)
        /\ Ends(IF refused THEN [Going EXCEPT !.res = "refused"]
                ELSE PayThenAppend(Going, rec, n, f), rec, 0)
        /\ UNCHANGED <<session, shown>>

-----------------------------------------------------------------------------
Init == /\ rows = <<>> /\ session = 0
        /\ up = FALSE /\ mem = Closed /\ dialog = 0
        /\ calls = <<>> /\ told = {} /\ shown = {} /\ faults = 0

Appends == 0..(OwedCapacity + 1)

Next ==
    \/ \E n \in 0..(Cardinality(Commitments) + MaxSessions), f \in Strikes : Open(n, f)
    \/ \E rec \in GatingRecords, n \in Appends, f \in Strikes : RecordGate(rec, n, f)
    \/ \E rec \in EndRecords, n \in Appends, f \in Strikes : RecordEnd(rec, n, f)
    \/ \E n \in Appends, f \in Strikes : CloseSession(n, f)
    \/ \E n \in Appends, f \in Strikes : Acknowledge(n, f)
    \/ AskRecovery \/ DeclineRecovery \/ Exit

Spec == Init /\ [][Next]_vars

-----------------------------------------------------------------------------
Rows(phase) == {n \in 1..Len(rows) : rows[n].phase = phase}

TypeOK ==
    /\ rows \in Seq([phase : OncePhases \cup {"run_cancelled", "session_opened",
                        "session_closed", "unclean_session", "acknowledged"},
                     c : Commitments \cup {NoCommitment}, body : Nat])
    /\ session \in 0..MaxSessions /\ up \in BOOLEAN /\ dialog \in Nat
    /\ mem.last \in 0..Len(rows) /\ mem.latched \in BOOLEAN
    /\ Len(mem.owed) <= OwedCapacity

\* While the store is not latched, what it keeps in memory (last_seq and
\* Known, updated row by row) is what a restart would read from the file:
\* no COMMIT of unknown outcome is ever worked past.
MemoryIsTheFile ==
    up /\ ~mem.latched => mem.last = Len(rows) /\ mem.known = KnownOf(rows)

\* What a caller was told is row seq is that row, in this process and after
\* any number of crashes (Committed and AlreadyPresent alike).
ToldRowsAreDurable ==
    \A t \in told : t[2] \in 1..Len(rows) /\ rows[t[2]] = t[1]

\* While the store is not latched, the rows of this process followed by the
\* records it owes are its records in the order they took effect: none is
\* lost, written twice, or overtaken by a later one (pay_owed before every
\* gating record, end record and acknowledgement).
OwedKeepsOrder ==
    LET first == CHOOSE n \in Rows("session_opened") : rows[n].body = session
        mine == SelectSeq(SubSeq(rows, first + 1, Len(rows)) \o mem.owed,
                    LAMBDA r : r.phase \notin {"unsettled", "unclean_session"})
        noted[n \in 0..Len(mine)] == IF n = 0 THEN <<>> ELSE Noted(noted[n - 1], mine[n])
    IN  up /\ ~mem.latched => noted[Len(mine)] = calls

\* Once a store is open, every commitment that an earlier process started
\* has its end in the file or exactly one statement that its outcome is
\* not recorded, and every earlier session its close or exactly one
\* statement, however many crashes interrupted the reconciliation; a
\* statement is never contradicted by an end.
EverythingIsSettled ==
    LET earlier == {n \in 1..Len(rows) : \E m \in (n + 1)..Len(rows) :
                        rows[m] = Statement("session_opened", session)}
        ended(c) == {n \in 1..Len(rows) : rows[n].phase \in EndPhases /\ rows[n].c = c}
        unsettled(c) == {n \in Rows("unsettled") : rows[n].c = c}
        unclean(s) == {n \in Rows("unclean_session") : rows[n].body = s}
    IN  /\ \A c \in Commitments :
              Cardinality(unsettled(c)) <= (IF ended(c) = {} THEN 1 ELSE 0)
        /\ \A s \in 1..session : Cardinality(unclean(s)) <= 1
        /\ up => \A n \in earlier :
              /\ rows[n].phase = "started" =>
                    ended(rows[n].c) \cup unsettled(rows[n].c) # {}
              /\ rows[n].phase = "session_opened" =>
                    \/ unclean(rows[n].body) # {}
                    \/ \E m \in Rows("session_closed") : rows[m].body = rows[n].body

\* Nothing is admitted over an unsettled statement that no acknowledgement
\* written before it covers, in any process.
AdmittedAfterAcknowledgement ==
    \A g \in Rows("started"), u \in Rows("unsettled") :
        u < g => \E a \in Rows("acknowledged") : a < g /\ rows[a].body >= u

\* An acknowledgement covers no statement the owner was not shown, those
\* that an earlier process left unanswered included.
AcknowledgedWasShown ==
    \A a \in Rows("acknowledged") :
        \A n \in Rows("unsettled") \cup Rows("unclean_session") :
            n <= rows[a].body => n \in shown

\* A latched store neither writes nor keeps anything more in its process.
LatchedIsFinal ==
    up /\ mem.latched /\ up' => rows' = rows /\ mem' = mem

\* The store tells no lies: memory is the file, records keep their order, what
\* was told stays, and nothing is acknowledged unseen, admitted before its
\* acknowledgement or left unsettled by an earlier process.
StoreHolds ==
    /\ MemoryIsTheFile /\ OwedKeepsOrder /\ ToldRowsAreDurable
    /\ AcknowledgedWasShown /\ AdmittedAfterAcknowledgement /\ EverythingIsSettled
=============================================================================
