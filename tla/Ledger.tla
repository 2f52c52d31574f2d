------------------------------- MODULE Ledger -------------------------------
(***************************************************************************)
(* From a call that was served to the month's cost: the row in             *)
(* llm_token_log and the session it belongs to, saved in one transaction   *)
(* (gateway/tasks.py, tracing/repositories/session_repository.py), and the *)
(* Celery tasks that sum rows into days and days into months               *)
(* (analytics/tasks/aggregation.py).  Sums are compared by the calls they  *)
(* are made of.  The increment of the day that every call.logged event     *)
(* asks for (analytics/event_handler.py) is not an action: its INSERT      *)
(* names no id, which has no default in the table, so that it fails and is *)
(* rolled back, whatever is there.                                         *)
(***************************************************************************)
EXTENDS Integers, FiniteSets

CONSTANTS
  Calls,        \* the calls that are ever served
  Tenants,
  Sessions,     \* session ids clients send
  NoSession,
  TenantOf,     \* call -> tenant
  SessionOf,    \* call -> session id, or NoSession
  MonthLength,  \* days of a month
  MaxDay,       \* bound: the calendar
  MaxMessages,  \* bound: tasks that are ever sent
  MaxLost,      \* bound: workers that die
  Pool          \* processes of the Celery worker

ASSUME LedgerAssumption ==
  /\ IsFiniteSet(Calls)
  /\ TenantOf \in [Calls -> Tenants]
  /\ SessionOf \in [Calls -> Sessions \cup {NoSession}]
  /\ NoSession \notin Sessions
  /\ {MonthLength, Pool} \subseteq Nat \ {0}
  /\ {MaxDay, MaxMessages, MaxLost} \subseteq Nat

VARIABLES
  today,    \* the date
  call,     \* call -> how far it is
  made,     \* call -> created_at
  base,     \* call -> the session row its transaction has locked
  session,  \* llm_sessions: session -> total_calls, call_chain
  daily,    \* llm_cost_daily: tenant -> day -> calls
  monthly,  \* llm_cost_monthly: tenant -> month -> calls
  task,     \* messages by number: what was sent, when, and where it is
  run,      \* what the last run of each message has read and written
  lost,     \* workers that have died
  before,   \* history: <<m, n>>: m had committed when n began
  missed    \* history: message -> calls saved after it began on its day

callVars == <<call, made, base, session>>
tableVars == <<daily, monthly>>
vars == <<today, callVars, tableVars, task, run, lost, before, missed>>

Days == 0..MaxDay
Month(d) == d \div MonthLength
Months == {Month(d) : d \in Days}
Messages == 1..MaxMessages

Kinds == {"nightly", "manual", "rollup"}

Unsent == [kind |-> "manual", date |-> 0, state |-> "unsent"]

NoRows == [t \in Tenants |-> {}]

\* began: history.  of: the day or the month.  todo: tenants to go through;
\* summed: the tenant whose sums are ready; rows: sums; written: locked rows.
Idle == [began |-> 0, of |-> 0, todo |-> {}, summed |-> {}, rows |-> NoRows, written |-> {}]

EmptySession == [calls |-> 0, chain |-> {}]

Running == {m \in Messages : task[m].state = "running"}

Committed(m) == task[m].state = "committed"

----------------------------------------------------------------------------
(* Calls: log_call awaits _persist_log_async *)

\* The call has been served; its created_at is taken.
Serve(c) ==
  /\ call[c] = "new"
  /\ call' = [call EXCEPT ![c] = "served"]
  /\ made' = [made EXCEPT ![c] = today]
  /\ UNCHANGED <<today, base, session, tableVars, task, run, lost, before, missed>>

\* Fault: the session is read, counted up and written without a lock.
SessionRead(c) == call[c] = "served"

\* INSERT .. ON CONFLICT DO UPDATE waits for the transaction that has the row.
SessionFree(c) ==
  SessionOf[c] # NoSession =>
    \A b \in Calls : SessionOf[b] = SessionOf[c] => call[b] # "open"

\* The log row is added, the session row counted up and locked.
OpenTransaction(c) ==
  /\ call[c] = "served"
  /\ SessionFree(c)
  /\ call' = [call EXCEPT ![c] = "open"]
  /\ base' = IF SessionOf[c] = NoSession THEN base
             ELSE [base EXCEPT ![c] = session[SessionOf[c]]]
  /\ UNCHANGED <<today, made, session, tableVars, task, run, lost, before, missed>>

CommitCall(c) ==
  /\ call[c] = "open"
  /\ call' = [call EXCEPT ![c] = "saved"]
  /\ session' = IF SessionOf[c] = NoSession THEN session
                ELSE [session EXCEPT ![SessionOf[c]] =
                        [calls |-> base[c].calls + 1, chain |-> base[c].chain \cup {c}]]
  /\ base' = [base EXCEPT ![c] = EmptySession]
  /\ missed' = [m \in Messages |->
                  IF task[m].state \in {"running", "committed"} /\ task[m].kind # "rollup"
                  THEN missed[m] \cup {c} ELSE missed[m]]
  /\ UNCHANGED <<today, made, tableVars, task, run, lost, before>>

\* Whatever fails, nothing is saved and nobody is told.  A session upsert that
\* fails is swallowed, but it has aborted the transaction.
LoseCall(c) ==
  /\ call[c] \in {"served", "open"}
  /\ call' = [call EXCEPT ![c] = "lost"]
  /\ base' = [base EXCEPT ![c] = EmptySession]
  /\ UNCHANGED <<today, made, session, tableVars, task, run, lost, before, missed>>

----------------------------------------------------------------------------
(* Messages *)

NextMessage == Cardinality({m \in Messages : task[m].state # "unsent"}) + 1

Send(kind, date) ==
  /\ NextMessage \in Messages
  /\ task' = [task EXCEPT ![NextMessage] = [kind |-> kind, date |-> date, state |-> "queued"]]
  /\ UNCHANGED <<today, callVars, tableVars, run, before, missed>>

\* Celery beat, once a day, or not at all when it is down.
BeatNightly ==
  /\ today > 0
  /\ \A m \in Messages : task[m].kind = "nightly" => task[m].date # today
  /\ Send("nightly", today) /\ UNCHANGED lost

\* Beat, on the first of a month.
BeatRollup ==
  /\ Month(today) > 0 /\ today % MonthLength = 0
  /\ \A m \in Messages : task[m].kind = "rollup" => task[m].date # today
  /\ Send("rollup", today) /\ UNCHANGED lost

\* aggregate_date; backfill_all, too, for it ends with its first date: the log
\* call after the commit, or instead of one, raises TypeError.
SendDate(d) == d <= today /\ Send("manual", d) /\ UNCHANGED lost

\* The worker dies between the commit and the acknowledgement: the broker
\* delivers the message again, as late as it likes.
Repeat(m) ==
  /\ Committed(m) /\ lost < MaxLost
  /\ lost' = lost + 1
  /\ Send(task[m].kind, task[m].date)

Sends ==
  BeatNightly \/ BeatRollup \/ (\E d \in Days : SendDate(d)) \/ (\E m \in Messages : Repeat(m))

----------------------------------------------------------------------------
(* Runs of messages *)

\* Fault: the nightly task takes the day that has just begun.
SameDay(m) == IF task[m].kind = "manual" THEN task[m].date ELSE today

\* The day is computed when the task runs, not when it was sent.
TargetDay(m) == IF task[m].kind = "manual" THEN task[m].date ELSE today - 1

\* Fault: the month that has just begun is rolled up.
SameMonth == Month(today)

LastMonth == Month(today) - 1

LogOf(t, d) == {c \in Calls : call[c] = "saved" /\ TenantOf[c] = t /\ made[c] = d}

DaysOf(t, mo) == UNION {daily[t][d] : d \in {e \in Days : Month(e) = mo}}

Active(d) == {t \in Tenants : LogOf(t, d) # {}}

Begin(m) ==
  /\ task[m].state = "queued" /\ Cardinality(Running) < Pool
  /\ task' = [task EXCEPT ![m].state = "running"]
  /\ before' = before \cup {<<n, m>> : n \in {p \in Messages : Committed(p)}}
  /\ UNCHANGED <<today, callVars, tableVars, lost, missed>>

\* Which tenants have calls on the day.
BeginDay(m) ==
  /\ task[m].kind # "rollup"
  /\ Begin(m)
  /\ run' = [run EXCEPT ![m] = [Idle EXCEPT !.began = today, !.of = TargetDay(m),
                                           !.todo = Active(TargetDay(m))]]

\* The days of last month, summed in one statement.
BeginMonth(m) ==
  /\ task[m].kind = "rollup"
  /\ Begin(m)
  /\ run' = [run EXCEPT ![m] = [Idle EXCEPT !.began = today, !.of = LastMonth,
                                  !.rows = [t \in Tenants |-> DaysOf(t, LastMonth)]]]

\* A tenant's sums of the day: what is committed when the SELECT begins.
Sum(m, t) ==
  /\ m \in Running /\ t \in run[m].todo /\ run[m].summed = {}
  /\ run' = [run EXCEPT ![m] = [@ EXCEPT !.todo = run[m].todo \ {t}, !.summed = {t},
                                         !.rows = [run[m].rows EXCEPT ![t] = LogOf(t, run[m].of)]]]
  /\ UNCHANGED <<today, callVars, tableVars, task, lost, before, missed>>

\* The run that has written the row m is about to write, and not committed.
Holds(n, m) ==
  /\ {n, m} \subseteq Running /\ n # m
  /\ task[n].kind # "rollup" /\ run[n].of = run[m].of
  /\ run[m].summed \cap run[n].written # {}

Upsert(m) ==
  /\ m \in Running /\ run[m].summed # {}
  /\ ~ \E n \in Messages : Holds(n, m)
  /\ run' = [run EXCEPT ![m] = [@ EXCEPT !.summed = {},
                                         !.written = run[m].written \cup run[m].summed]]
  /\ UNCHANGED <<today, callVars, tableVars, task, lost, before, missed>>

Commit(m) ==
  /\ task' = [task EXCEPT ![m].state = "committed"]
  /\ run' = [run EXCEPT ![m] = [Idle EXCEPT !.began = run[m].began, !.of = run[m].of]]
  /\ UNCHANGED <<today, callVars, lost, before, missed>>

\* Fault: a row that is there is left alone.
StoredOnce(m, t) ==
  IF daily[t][run[m].of] # {} THEN daily[t] ELSE [daily[t] EXCEPT ![run[m].of] = run[m].rows[t]]

\* A row that is there is overwritten.
Stored(m, t) == [daily[t] EXCEPT ![run[m].of] = run[m].rows[t]]

\* The rows of llm_cost_daily become visible.  (The task is recorded as failed,
\* since logging its result raises, but it has committed.)
CommitDay(m) ==
  /\ m \in Running /\ task[m].kind # "rollup"
  /\ run[m].todo = {} /\ run[m].summed = {} /\ run[m].written # {}
  /\ daily' = [t \in Tenants |-> IF t \in run[m].written THEN Stored(m, t) ELSE daily[t]]
  /\ Commit(m)
  /\ UNCHANGED monthly

\* Upserts and commit, one row for each tenant with days in the month.
CommitMonth(m) ==
  /\ m \in Running /\ task[m].kind = "rollup"
  /\ monthly' = [t \in Tenants |-> IF run[m].rows[t] # {}
                                   THEN [monthly[t] EXCEPT ![run[m].of] = run[m].rows[t]]
                                   ELSE monthly[t]]
  /\ Commit(m)
  /\ UNCHANGED daily

End(m, state) ==
  /\ task' = [task EXCEPT ![m].state = state]
  /\ run' = [run EXCEPT ![m] = Idle]
  /\ missed' = [missed EXCEPT ![m] = {}]
  /\ UNCHANGED <<today, callVars, tableVars, before>>

\* No tenant had a call: the log call raises.
NoActivity(m) ==
  /\ m \in Running /\ task[m].kind # "rollup"
  /\ run[m].todo = {} /\ run[m].summed = {} /\ run[m].written = {}
  /\ End(m, "failed") /\ UNCHANGED lost

\* Runs that wait in a circle, so that nobody else can let one of them go on.
Circular(S) ==
  \A m \in S : /\ \E n \in S : Holds(n, m)
               /\ \E n \in S : Holds(m, n)
               /\ \A n \in Messages : Holds(n, m) => n \in S

\* The database detects a circle and rolls one of its runs back.
Deadlock(m) ==
  /\ \E S \in SUBSET Messages : m \in S /\ Circular(S)
  /\ End(m, "failed") /\ UNCHANGED lost

\* The database is out of reach, the connection belongs to the event loop of
\* an earlier run, or the pool process is killed, which acknowledges the task.
Fails(m) ==
  /\ m \in Running
  /\ End(m, "failed") /\ UNCHANGED lost

\* Fault: messages are acknowledged when they are taken.
Forgotten == "forgotten"

\* A message is acknowledged late: one that was not is delivered again.
Redelivered == "queued"

\* The worker dies.
WorkerLost(m) ==
  /\ m \in Running /\ lost < MaxLost
  /\ lost' = lost + 1
  /\ End(m, Redelivered)

----------------------------------------------------------------------------
NextDay ==
  /\ today < MaxDay
  /\ today' = today + 1
  /\ UNCHANGED <<callVars, tableVars, task, run, lost, before, missed>>

Init ==
  /\ today = 0 /\ lost = 0 /\ before = {}
  /\ call = [c \in Calls |-> "new"]
  /\ made = [c \in Calls |-> 0]
  /\ base = [c \in Calls |-> EmptySession]
  /\ session = [s \in Sessions |-> EmptySession]
  /\ daily = [t \in Tenants |-> [d \in Days |-> {}]]
  /\ monthly = [t \in Tenants |-> [mo \in Months |-> {}]]
  /\ task = [m \in Messages |-> Unsent]
  /\ run = [m \in Messages |-> Idle]
  /\ missed = [m \in Messages |-> {}]

Next ==
  \/ NextDay
  \/ \E c \in Calls : Serve(c) \/ OpenTransaction(c) \/ CommitCall(c) \/ LoseCall(c)
  \/ Sends
  \/ \E m \in Messages :
       \/ BeginDay(m) \/ BeginMonth(m)
       \/ \E t \in Tenants : Sum(m, t)
       \/ Upsert(m) \/ CommitDay(m) \/ CommitMonth(m) \/ NoActivity(m)
       \/ Deadlock(m) \/ Fails(m) \/ WorkerLost(m)

Spec == Init /\ [][Next]_vars

\* A worker that is alive takes messages and goes on with what it has taken;
\* the database detects deadlocks.
Goes(m) ==
  \/ BeginDay(m) \/ BeginMonth(m)
  \/ \E t \in Tenants : Sum(m, t)
  \/ Upsert(m) \/ CommitDay(m) \/ CommitMonth(m) \/ NoActivity(m) \/ Deadlock(m)

FairSpec == Spec /\ \A m \in Messages : WF_vars(Goes(m))

----------------------------------------------------------------------------
(* Properties *)

SessionRows == [calls : Nat, chain : SUBSET Calls]

RunRows == [began : Days, of : Int, todo : SUBSET Tenants, summed : SUBSET Tenants,
            rows : [Tenants -> SUBSET Calls], written : SUBSET Tenants]

TaskRows ==
  [kind : Kinds, date : Days, state : {"unsent", "queued", "running", "committed", "failed"}]

LedgerTypeOK ==
  /\ today \in Days /\ lost \in 0..MaxLost
  /\ call \in [Calls -> {"new", "served", "open", "saved", "lost"}]
  /\ made \in [Calls -> Days]
  /\ base \in [Calls -> SessionRows]
  /\ session \in [Sessions -> SessionRows]
  /\ daily \in [Tenants -> [Days -> SUBSET Calls]]
  /\ monthly \in [Tenants -> [Months -> SUBSET Calls]]
  /\ task \in [Messages -> TaskRows]
  /\ run \in [Messages -> RunRows]
  /\ before \subseteq Messages \X Messages
  /\ missed \in [Messages -> SUBSET Calls]

SavedOf(s) == {c \in Calls : SessionOf[c] = s /\ call[c] = "saved"}

\* A session is the calls of it that were saved, whatever was lost and however
\* many are saved at once (upsert_and_aggregate: "atomically update").
SessionMatchesLog ==
  \A s \in Sessions :
    session[s] = [calls |-> Cardinality(SavedOf(s)), chain |-> SavedOf(s)]

\* The day a message is about: the day before the one it was sent for.
DayOf(m) == IF task[m].kind = "manual" THEN task[m].date ELSE task[m].date - 1

\* A nightly task that begins after midnight, because it waited or was
\* delivered again, works on another day.
OnTime(m) == task[m].kind # "manual" => run[m].began = task[m].date

Aggregated(m, d) == Committed(m) /\ task[m].kind # "rollup" /\ run[m].of = d

\* The runs of a day that no other has followed.
LastRuns(d) ==
  {m \in Messages : Aggregated(m, d) /\ \A n \in Messages : Aggregated(n, d) => <<m, n>> \notin before}

\* The day's cost is never that of other calls, and has the calls that were
\* saved when one of its last runs began: when runs overlap, the one that read
\* first may write last, so that it need not be what the latest has read, but
\* it is never older than the runs that overlap ("running this twice for the
\* same date is safe").  A run that begins on time is about the day it was
\* sent for.
DailyMatchesLog ==
  /\ \A m \in Messages :
       Committed(m) /\ task[m].kind # "rollup" /\ OnTime(m) => Aggregated(m, DayOf(m))
  /\ \A t \in Tenants, d \in Days : daily[t][d] \subseteq LogOf(t, d)
  /\ \A d \in Days :
       (\E n \in Messages : Aggregated(n, d)) =>
         \E m \in LastRuns(d) : \A t \in Tenants : LogOf(t, d) \ missed[m] \subseteq daily[t][d]

\* Everything else about the month, days or roll-ups, was written when m began.
LastOfMonth(m, mo) ==
  /\ Committed(m) /\ task[m].kind = "rollup"
  /\ \A n \in Messages :
       LET about == IF task[n].kind = "rollup" THEN run[n].of ELSE Month(run[n].of) IN
       Committed(n) /\ about = mo /\ n # m => <<n, m>> \in before

\* The month before a roll-up's is the sum of its days once nothing overlaps
\* the roll-up or comes after it: the schedule (2:00 and 3:00 on the first)
\* does not see to it that the last day has been aggregated.
MonthMatchesDays ==
  \A m \in Messages :
    LET mo == Month(task[m].date) - 1 IN
    LastOfMonth(m, mo) /\ Month(run[m].began) = Month(task[m].date) =>
      \A t \in Tenants : monthly[t][mo] = DaysOf(t, mo)

\* Of a day and a tenant, at most one run has written the row and not committed.
OneHolder ==
  \A m, n \in Running :
    /\ m # n /\ run[m].of = run[n].of
    /\ task[m].kind # "rollup" /\ task[n].kind # "rollup"
    => run[m].written \cap run[n].written = {}

\* A run that has a statement to make which waits for nobody, or that the
\* database rolls back.
CanGo(m) ==
  \/ task[m].kind = "rollup" \/ run[m].summed = {}
  \/ ~ \E n \in Messages : Holds(n, m)
  \/ \E S \in SUBSET Messages : m \in S /\ Circular(S)

\* Runs whose waiting stays among themselves: somebody in there can go on, so
\* that whoever waits, waits for a chain that ends (_aggregate_date has
\* no order of tenants and no timeout: only the database ends a circle).
NobodyStuck ==
  \A S \in SUBSET Running :
    S # {} /\ (\A m \in S, n \in Messages : Holds(n, m) => n \in S) => \E m \in S : CanGo(m)

\* A message survives the death of its worker (task_acks_late): every task
\* that is sent is carried out, or recorded as failed.
TasksEnd ==
  \A m \in Messages :
    task[m].state = "queued" ~> task[m].state \in {"committed", "failed"}
=============================================================================
