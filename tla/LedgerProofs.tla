---------------------------- MODULE LedgerProofs ----------------------------
(***************************************************************************)
(* Proofs about Ledger: types; a session is its saved calls; a day is made *)
(* of its calls; a month is the sum of its days; whoever waits for a row,  *)
(* waits for a run that can go on.                                         *)
(***************************************************************************)
EXTENDS Ledger, FiniteSetTheorems, TLAPS

USE DEF Messages, Days

(* Days and months *)

LEMMA Division ==
  ASSUME NEW L \in Nat \ {0}, NEW d \in Nat
  PROVE  /\ d \div L \in Nat
         /\ d \div L > 0 => d >= L /\ (d - L) \div L = (d \div L) - 1
<1>1. d \div L \in Nat
  BY SMT
<1>2. d \div L > 0 => d >= L
  BY SMT
<1>3. d >= L => (d - L) \div L = (d \div L) - 1
  BY SMT
<1> QED
  BY <1>1, <1>2, <1>3

LEMMA MonthType ==
  ASSUME NEW d \in Days
  PROVE  Month(d) \in Nat /\ Month(d) \in Months
BY Division, LedgerAssumption DEF Month, Months

\* The month before a month that is not the first has days in the calendar.
LEMMA MonthBefore ==
  ASSUME NEW d \in Days, Month(d) > 0
  PROVE  Month(d) - 1 \in Months
<1> DEFINE L == MonthLength
<1>1. L \in Nat \ {0} /\ d \in Nat
  BY LedgerAssumption
<1>2. d >= L /\ (d - L) \div L = (d \div L) - 1
  BY <1>1, Division DEF Month
<1>3. d - L \in Days
  BY <1>1, <1>2, LedgerAssumption
<1> QED
  BY <1>2, <1>3 DEF Month, Months

----------------------------------------------------------------------------
(* Types *)

LEMMA InitTypes == Init => LedgerTypeOK
<1> SUFFICES ASSUME Init
             PROVE  LedgerTypeOK
  OBVIOUS
<1>1. today \in Days /\ lost \in 0..MaxLost
  BY LedgerAssumption DEF Init
<1>2. EmptySession \in SessionRows
  BY DEF EmptySession, SessionRows
<1>3. Unsent \in TaskRows
  BY LedgerAssumption DEF Unsent, TaskRows, Kinds
<1>4. Idle \in RunRows
  BY LedgerAssumption DEF Idle, RunRows, NoRows
<1> QED
  BY <1>1, <1>2, <1>3, <1>4 DEF Init, LedgerTypeOK

LEMMA CallTypes ==
  ASSUME LedgerTypeOK, NEW c \in Calls,
         Serve(c) \/ OpenTransaction(c) \/ CommitCall(c) \/ LoseCall(c)
  PROVE  LedgerTypeOK'
<1> EmptySession \in SessionRows
  BY DEF EmptySession, SessionRows
<1>1. CASE Serve(c)
  BY <1>1 DEF Serve, LedgerTypeOK, tableVars
<1>2. CASE OpenTransaction(c)
  <2>1. SessionOf[c] # NoSession => session[SessionOf[c]] \in SessionRows
    BY LedgerAssumption DEF LedgerTypeOK
  <2> QED
    BY <1>2, <2>1 DEF OpenTransaction, LedgerTypeOK, tableVars
<1>3. CASE CommitCall(c)
  <2>1. [calls |-> base[c].calls + 1, chain |-> base[c].chain \cup {c}] \in SessionRows
    BY DEF LedgerTypeOK, SessionRows
  <2>2. session' \in [Sessions -> SessionRows]
    BY <1>3, <2>1 DEF CommitCall, LedgerTypeOK
  <2>3. missed' \in [Messages -> SUBSET Calls]
    BY <1>3 DEF CommitCall, LedgerTypeOK
  <2> QED
    BY <1>3, <2>2, <2>3 DEF CommitCall, LedgerTypeOK, tableVars
<1>4. CASE LoseCall(c)
  BY <1>4 DEF LoseCall, LedgerTypeOK, tableVars
<1> QED
  BY <1>1, <1>2, <1>3, <1>4

\* What is sent, and when.
LEMMA SendsHow ==
  ASSUME LedgerTypeOK, Sends
  PROVE  \E kind \in Kinds, date \in Days :
           /\ Send(kind, date) /\ lost' \in 0..MaxLost
           /\ \/ kind = "nightly" /\ date > 0 /\ date = today
              \/ kind = "rollup" /\ Month(date) > 0 /\ date = today
              \/ kind = "manual" /\ date <= today
              \/ \E m \in Messages : Committed(m) /\ kind = task[m].kind /\ date = task[m].date
<1>1. today \in Days /\ lost \in 0..MaxLost
  BY DEF LedgerTypeOK
<1>2. CASE BeatNightly
  BY <1>1, <1>2 DEF BeatNightly, Kinds
<1>3. CASE BeatRollup
  BY <1>1, <1>3 DEF BeatRollup, Kinds
<1>4. CASE \E d \in Days : SendDate(d)
  BY <1>1, <1>4 DEF SendDate, Kinds
<1>5. CASE \E m \in Messages : Repeat(m)
  <2>1. PICK m \in Messages : Repeat(m)
    BY <1>5
  <2>2. task[m].kind \in Kinds /\ task[m].date \in Days
    BY DEF LedgerTypeOK, TaskRows
  <2>3. lost' \in 0..MaxLost
    BY <1>1, <2>1, LedgerAssumption DEF Repeat
  <2> QED
    BY <2>1, <2>2, <2>3 DEF Repeat
<1> QED
  BY <1>2, <1>3, <1>4, <1>5 DEF Sends

LEMMA SendTypes ==
  ASSUME LedgerTypeOK, Sends
  PROVE  LedgerTypeOK'
<1>1. PICK kind \in Kinds, date \in Days : Send(kind, date) /\ lost' \in 0..MaxLost
  BY SendsHow
<1>2. [kind |-> kind, date |-> date, state |-> "queued"] \in TaskRows
  BY <1>1 DEF TaskRows
<1>3. task' \in [Messages -> TaskRows]
  BY <1>1, <1>2 DEF Send, LedgerTypeOK
<1> QED
  BY <1>1, <1>3 DEF Send, LedgerTypeOK, callVars, tableVars

\* What a step that moves a message does to task.
LEMMA TaskMoves ==
  ASSUME LedgerTypeOK, NEW m \in Messages,
         NEW s \in {"queued", "running", "committed", "failed"},
         task' = [task EXCEPT ![m].state = s]
  PROVE  /\ task' \in [Messages -> TaskRows]
         /\ task'[m] = [kind |-> task[m].kind, date |-> task[m].date, state |-> s]
         /\ \A n \in Messages \ {m} : task'[n] = task[n]
<1>1. task[m] \in TaskRows /\ task \in [Messages -> TaskRows]
  BY DEF LedgerTypeOK
<1>2. [task[m] EXCEPT !.state = s] = [kind |-> task[m].kind, date |-> task[m].date, state |-> s]
  BY <1>1 DEF TaskRows
<1>3. [task[m] EXCEPT !.state = s] \in TaskRows
  BY <1>1, <1>2 DEF TaskRows
<1>4. task' = [task EXCEPT ![m] = [task[m] EXCEPT !.state = s]]
  OBVIOUS
<1> QED
  BY <1>1, <1>2, <1>3, <1>4

LEMMA BeginTypes ==
  ASSUME LedgerTypeOK, NEW m \in Messages, BeginDay(m) \/ BeginMonth(m)
  PROVE  LedgerTypeOK'
<1>1. Begin(m)
  BY DEF BeginDay, BeginMonth
<1>2. task' \in [Messages -> TaskRows]
  BY <1>1, TaskMoves DEF Begin
<1>3. before' \subseteq Messages \X Messages
  BY <1>1 DEF Begin, LedgerTypeOK
<1>4. run' \in [Messages -> RunRows]
  <2>1. TargetDay(m) \in Int /\ today \in Days
    <3>1. task[m].date \in Int /\ today \in Days /\ today \in Int
      BY LedgerAssumption DEF LedgerTypeOK, TaskRows
    <3> QED
      BY <3>1 DEF TargetDay
  <2>2. LastMonth \in Int
    BY MonthType DEF LastMonth, LedgerTypeOK
  <2>3. [t \in Tenants |-> DaysOf(t, LastMonth)] \in [Tenants -> SUBSET Calls]
    <3>1. ASSUME NEW t \in Tenants
          PROVE  DaysOf(t, LastMonth) \subseteq Calls
      <4>1. \A d \in Days : daily[t][d] \subseteq Calls
        <5>1. daily[t] \in [Days -> SUBSET Calls]
          BY DEF LedgerTypeOK
        <5> QED
          BY <5>1
      <4> QED
        BY <4>1 DEF DaysOf
    <3> QED
      BY <3>1
  <2>4. CASE BeginDay(m)
    <3>1. [Idle EXCEPT !.began = today, !.of = TargetDay(m), !.todo = Active(TargetDay(m))] \in RunRows
      BY <2>1 DEF Idle, RunRows, NoRows, Active
    <3> QED
      BY <2>4, <3>1 DEF BeginDay, LedgerTypeOK
  <2>5. CASE BeginMonth(m)
    <3>1. [Idle EXCEPT !.began = today, !.of = LastMonth,
                       !.rows = [t \in Tenants |-> DaysOf(t, LastMonth)]] \in RunRows
      BY <2>1, <2>2, <2>3 DEF Idle, RunRows, NoRows
    <3> QED
      BY <2>5, <3>1 DEF BeginMonth, LedgerTypeOK
  <2> QED
    BY <2>4, <2>5
<1> QED
  BY <1>1, <1>2, <1>3, <1>4 DEF Begin, LedgerTypeOK, callVars, tableVars, BeginDay, BeginMonth

LEMMA SumTypes ==
  ASSUME LedgerTypeOK, NEW m \in Messages, NEW t \in Tenants, Sum(m, t)
  PROVE  LedgerTypeOK'
<1>1. run[m] \in RunRows /\ run \in [Messages -> RunRows]
  BY DEF LedgerTypeOK
<1>2. [run[m] EXCEPT !.todo = run[m].todo \ {t}, !.summed = {t},
                    !.rows = [run[m].rows EXCEPT ![t] = LogOf(t, run[m].of)]]
        \in RunRows
  BY <1>1 DEF RunRows, LogOf
<1>3. run' = [run EXCEPT ![m] = [run[m] EXCEPT !.todo = run[m].todo \ {t}, !.summed = {t},
                                       !.rows = [run[m].rows EXCEPT ![t] = LogOf(t, run[m].of)]]]
  BY DEF Sum
<1>4. run' \in [Messages -> RunRows]
  BY <1>1, <1>2, <1>3
<1> QED
  BY <1>4 DEF Sum, LedgerTypeOK, callVars, tableVars

LEMMA UpsertTypes ==
  ASSUME LedgerTypeOK, NEW m \in Messages, Upsert(m)
  PROVE  LedgerTypeOK'
<1>1. run[m] \in RunRows /\ run \in [Messages -> RunRows]
  BY DEF LedgerTypeOK
<1>2. [run[m] EXCEPT !.summed = {}, !.written = run[m].written \cup run[m].summed] \in RunRows
  BY <1>1 DEF RunRows
<1>3. run' = [run EXCEPT ![m] = [run[m] EXCEPT !.summed = {}, !.written = run[m].written \cup run[m].summed]]
  BY DEF Upsert
<1>4. run' \in [Messages -> RunRows]
  BY <1>1, <1>2, <1>3
<1> QED
  BY <1>4 DEF Upsert, LedgerTypeOK, callVars, tableVars

LEMMA CommitTypes ==
  ASSUME LedgerTypeOK, NEW m \in Messages, CommitDay(m) \/ CommitMonth(m)
  PROVE  LedgerTypeOK'
<1>1. run[m] \in RunRows /\ run \in [Messages -> RunRows] /\ Commit(m)
  BY DEF LedgerTypeOK, CommitDay, CommitMonth
<1>2. [Idle EXCEPT !.began = run[m].began, !.of = run[m].of] \in RunRows
  BY <1>1 DEF RunRows, Idle, NoRows
<1>3. run' \in [Messages -> RunRows]
  BY <1>1, <1>2 DEF Commit
<1>4. task' \in [Messages -> TaskRows]
  BY <1>1, TaskMoves DEF Commit
<1>5. daily' \in [Tenants -> [Days -> SUBSET Calls]] /\ monthly' \in [Tenants -> [Months -> SUBSET Calls]]
  <2>1. \A t \in Tenants : run[m].rows[t] \subseteq Calls
    BY <1>1 DEF RunRows
  <2>2. CASE CommitDay(m)
    BY <2>1, <2>2 DEF CommitDay, Stored, LedgerTypeOK
  <2>3. CASE CommitMonth(m)
    BY <2>1, <2>3 DEF CommitMonth, LedgerTypeOK
  <2> QED
    BY <2>2, <2>3
<1> QED
  BY <1>1, <1>3, <1>4, <1>5 DEF Commit, LedgerTypeOK, callVars

\* How a run ends without a commit.
LEMMA EndsHow ==
  ASSUME NEW m \in Messages, NoActivity(m) \/ Deadlock(m) \/ Fails(m) \/ WorkerLost(m)
  PROVE  /\ m \in Running
         /\ \E s \in {"failed", "queued"} : End(m, s)
         /\ lost' = lost \/ (lost < MaxLost /\ lost' = lost + 1)
BY DEF NoActivity, Deadlock, Circular, Fails, WorkerLost, Redelivered, Holds, Running

LEMMA EndTypes ==
  ASSUME LedgerTypeOK, NEW m \in Messages, NoActivity(m) \/ Deadlock(m) \/ Fails(m) \/ WorkerLost(m)
  PROVE  LedgerTypeOK'
<1>1. PICK s \in {"failed", "queued"} : End(m, s)
  BY EndsHow
<1>2. lost' \in 0..MaxLost
  BY EndsHow, LedgerAssumption DEF LedgerTypeOK
<1>3. task' \in [Messages -> TaskRows]
  BY <1>1, TaskMoves DEF End
<1>4. Idle \in RunRows
  BY LedgerAssumption DEF Idle, RunRows, NoRows
<1>5. run' \in [Messages -> RunRows] /\ missed' \in [Messages -> SUBSET Calls]
  BY <1>1, <1>4 DEF End, LedgerTypeOK
<1> QED
  BY <1>1, <1>2, <1>3, <1>5 DEF End, LedgerTypeOK, callVars, tableVars

LEMMA TypesStep == LedgerTypeOK /\ [Next]_vars => LedgerTypeOK'
<1> SUFFICES ASSUME LedgerTypeOK, [Next]_vars
             PROVE  LedgerTypeOK'
  OBVIOUS
<1>1. CASE UNCHANGED vars
  BY <1>1 DEF vars, callVars, tableVars, LedgerTypeOK
<1>2. CASE NextDay
  BY <1>2, LedgerAssumption DEF NextDay, callVars, tableVars, LedgerTypeOK
<1> QED
  BY <1>1, <1>2, CallTypes, SendTypes, BeginTypes, SumTypes, UpsertTypes, CommitTypes, EndTypes DEF Next

\* Rows, messages and runs keep their types, whatever calls and messages come.
THEOREM LedgerTypes == Spec => []LedgerTypeOK
BY InitTypes, TypesStep, PTL DEF Spec

----------------------------------------------------------------------------
(* Sessions *)

\* A transaction that has a session's row has read what is in it, and no other
\* has the row.
RowsLocked ==
  /\ \A c \in Calls :
       call[c] = "open" /\ SessionOf[c] # NoSession => base[c] = session[SessionOf[c]]
  /\ \A b, c \in Calls :
       call[b] = "open" /\ call[c] = "open" /\ SessionOf[b] = SessionOf[c]
         /\ SessionOf[c] # NoSession => b = c

SessionInv == RowsLocked /\ SessionMatchesLog

LEMMA InitSessions == Init => SessionInv
<1> SUFFICES ASSUME Init
             PROVE  SessionInv
  OBVIOUS
<1>1. RowsLocked
  BY DEF Init, RowsLocked
<1>2. \A s \in Sessions : SavedOf(s) = {}
  BY DEF Init, SavedOf
<1> QED
  BY <1>1, <1>2, FS_EmptySet DEF Init, SessionInv, SessionMatchesLog, EmptySession

LEMMA CommitSessions ==
  ASSUME LedgerTypeOK, SessionInv, NEW c \in Calls, CommitCall(c)
  PROVE  SessionInv'
<1> DEFINE x == SessionOf[c]
<1>1. /\ call \in [Calls -> {"new", "served", "open", "saved", "lost"}]
      /\ base \in [Calls -> SessionRows] /\ session \in [Sessions -> SessionRows]
  BY DEF LedgerTypeOK
<1>2. call[c] = "open" /\ call' = [call EXCEPT ![c] = "saved"]
      /\ base' = [base EXCEPT ![c] = EmptySession]
  BY DEF CommitCall
<1>3. RowsLocked'
  <2>1. \A b \in Calls \ {c} : call'[b] = call[b] /\ base'[b] = base[b]
    BY <1>1, <1>2
  <2>2. call'[c] = "saved"
    BY <1>1, <1>2
  <2>3. ASSUME NEW b \in Calls, call'[b] = "open", SessionOf[b] # NoSession
        PROVE  base'[b] = session'[SessionOf[b]]
    <3>1. b # c /\ call[b] = "open" /\ base'[b] = session[SessionOf[b]]
      BY <2>1, <2>2, <2>3 DEF SessionInv, RowsLocked
    <3>2. SessionOf[b] # x
      BY <1>2, <2>3, <3>1 DEF SessionInv, RowsLocked
    <3>3. SessionOf[b] \in Sessions
      BY <2>3, LedgerAssumption
    <3> QED
      BY <1>1, <3>1, <3>2, <3>3 DEF CommitCall
  <2> QED
    BY <2>1, <2>2, <2>3 DEF SessionInv, RowsLocked
<1>4. ASSUME NEW s \in Sessions
      PROVE  session'[s] = [calls |-> Cardinality(SavedOf(s)'), chain |-> SavedOf(s)']
  <2>1. session[s] = [calls |-> Cardinality(SavedOf(s)), chain |-> SavedOf(s)]
    BY DEF SessionInv, SessionMatchesLog
  <2>2. CASE s # x
    <3>1. SavedOf(s)' = SavedOf(s)
      BY <1>1, <1>2, <2>2 DEF SavedOf
    <3>2. session'[s] = session[s]
      BY <1>1, <2>2 DEF CommitCall
    <3> QED
      BY <2>1, <3>1, <3>2
  <2>3. CASE s = x
    <3>1. SavedOf(s)' = SavedOf(s) \cup {c} /\ c \notin SavedOf(s)
      BY <1>1, <1>2, <2>3 DEF SavedOf
    <3>2. IsFiniteSet(SavedOf(s))
      BY FS_Subset, LedgerAssumption DEF SavedOf
    <3>3. Cardinality(SavedOf(s)') = Cardinality(SavedOf(s)) + 1
      BY <3>1, <3>2, FS_AddElement
    <3>4. SessionOf[c] # NoSession
      BY <2>3, LedgerAssumption
    <3>5. base[c] = session[s]
      BY <1>2, <2>3, <3>4 DEF SessionInv, RowsLocked
    <3>6. session'[s] = [calls |-> base[c].calls + 1, chain |-> base[c].chain \cup {c}]
      BY <1>1, <2>3, <3>4 DEF CommitCall
    <3> QED
      BY <2>1, <3>1, <3>3, <3>5, <3>6
  <2> QED
    BY <2>2, <2>3
<1> QED
  BY <1>3, <1>4 DEF SessionInv, SessionMatchesLog

\* A step that saves no call keeps every session as it was.
LEMMA SessionsKept ==
  ASSUME SessionInv, session' = session, RowsLocked',
         \A c \in Calls : call[c] = "saved" <=> call'[c] = "saved"
  PROVE  SessionInv'
<1>1. \A s \in Sessions : SavedOf(s)' = SavedOf(s)
  BY DEF SavedOf
<1>2. \A s \in Sessions :
        session'[s] = [calls |-> Cardinality(SavedOf(s)'), chain |-> SavedOf(s)']
  BY <1>1 DEF SessionInv, SessionMatchesLog
<1> QED
  BY <1>2 DEF SessionInv, SessionMatchesLog

LEMMA CallSessions ==
  ASSUME LedgerTypeOK, SessionInv, NEW c \in Calls,
         Serve(c) \/ OpenTransaction(c) \/ LoseCall(c)
  PROVE  SessionInv'
<1>1. /\ call \in [Calls -> {"new", "served", "open", "saved", "lost"}]
      /\ base \in [Calls -> SessionRows]
  BY DEF LedgerTypeOK
<1>2. session' = session
  BY DEF Serve, OpenTransaction, LoseCall
<1>3. \A b \in Calls : call[b] = "saved" <=> call'[b] = "saved"
  BY <1>1 DEF Serve, OpenTransaction, LoseCall
<1>4. RowsLocked'
  <2>1. CASE Serve(c)
    BY <1>1, <2>1 DEF Serve, SessionInv, RowsLocked
  <2>2. CASE OpenTransaction(c)
    <3>1. \A b \in Calls \ {c} : call'[b] = call[b] /\ base'[b] = base[b]
      BY <1>1, <2>2 DEF OpenTransaction
    <3>2. SessionOf[c] # NoSession =>
            base'[c] = session'[SessionOf[c]]
              /\ \A b \in Calls \ {c} : call[b] = "open" => SessionOf[b] # SessionOf[c]
      BY <1>1, <1>2, <2>2 DEF OpenTransaction, SessionFree
    <3> QED
      BY <1>2, <3>1, <3>2 DEF SessionInv, RowsLocked
  <2>3. CASE LoseCall(c)
    BY <1>1, <2>3 DEF LoseCall, SessionInv, RowsLocked
  <2> QED
    BY <2>1, <2>2, <2>3
<1> QED
  BY <1>2, <1>3, <1>4, SessionsKept

\* The steps of messages leave calls and sessions alone.
LEMMA MessagesElsewhere ==
  ASSUME \/ Sends
         \/ \E m \in Messages :
              \/ BeginDay(m) \/ BeginMonth(m) \/ \E t \in Tenants : Sum(m, t)
              \/ Upsert(m) \/ CommitDay(m) \/ CommitMonth(m) \/ NoActivity(m)
              \/ Deadlock(m) \/ Fails(m) \/ WorkerLost(m)
  PROVE  UNCHANGED <<today, callVars>>
BY DEF Sends, BeatNightly, BeatRollup, SendDate, Repeat, Send, BeginDay, BeginMonth, Begin, Sum, Upsert,
       CommitDay, CommitMonth, Commit, NoActivity, Deadlock, Fails, WorkerLost, End

LEMMA SessionsStep == LedgerTypeOK /\ SessionInv /\ [Next]_vars => SessionInv'
<1> SUFFICES ASSUME LedgerTypeOK, SessionInv, [Next]_vars
             PROVE  SessionInv'
  OBVIOUS
<1>1. CASE UNCHANGED callVars
  <2>1. RowsLocked'
    BY <1>1 DEF callVars, SessionInv, RowsLocked
  <2> QED
    BY <1>1, <2>1, SessionsKept DEF callVars
<1>2. CASE \E c \in Calls : Serve(c) \/ OpenTransaction(c) \/ CommitCall(c) \/ LoseCall(c)
  BY <1>2, CallSessions, CommitSessions
<1>3. UNCHANGED vars \/ NextDay => UNCHANGED callVars
  BY DEF vars, NextDay
<1> QED
  BY <1>1, <1>2, <1>3, MessagesElsewhere DEF Next

\* A session's total and chain are those of its saved calls, for any number of
\* calls, tenants and sessions, in any order of their transactions.
THEOREM SessionsMatch == Spec => []SessionMatchesLog
<1>1. SessionInv => SessionMatchesLog
  BY DEF SessionInv
<1> QED
  BY <1>1, InitTypes, InitSessions, TypesStep, SessionsStep, PTL DEF Spec

----------------------------------------------------------------------------
(* Messages *)

\* Messages are numbered as they are sent.
Numbered ==
  \E k \in 0..MaxMessages : \A m \in Messages : task[m].state # "unsent" <=> m <= k

\* Beat does not send before the first night, nor before the first month ends.
Dated ==
  \A m \in Messages :
    /\ task[m].kind = "nightly" => task[m].date > 0
    /\ task[m].kind = "rollup" => Month(task[m].date) > 0
    /\ task[m].date <= today

\* What had committed when another began has committed.
Past == \A n, m \in Messages : <<n, m>> \in before => Committed(n)

Begun(m) == task[m].state \in {"running", "committed"}

\* A run is about the day, or the month, before the one it began in.
Targets ==
  \A m \in Messages :
    Begun(m) =>
      /\ task[m].kind = "nightly" => run[m].began > 0 /\ run[m].of = run[m].began - 1
      /\ task[m].kind = "manual" => run[m].of = task[m].date
      /\ task[m].kind = "rollup" => run[m].of = Month(run[m].began) - 1

MessageInv == Numbered /\ Dated /\ Past /\ Targets

LEMMA InitMessages == Init => MessageInv
<1> SUFFICES ASSUME Init
             PROVE  MessageInv
  OBVIOUS
<1>1. \A m \in Messages : task[m] = [kind |-> "manual", date |-> 0, state |-> "unsent"]
  BY DEF Init, Unsent
<1>2. Numbered
  <2>1. 0 \in 0..MaxMessages /\ \A m \in Messages : m > 0
    BY LedgerAssumption
  <2> QED
    BY <1>1, <2>1 DEF Numbered
<1>3. Dated /\ Past /\ Targets
  BY <1>1 DEF Init, Dated, Past, Targets, Begun
<1> QED
  BY <1>2, <1>3 DEF MessageInv

\* The message that is sent next has not been sent.
LEMMA NextUnsent ==
  ASSUME Numbered, NextMessage \in Messages
  PROVE  task[NextMessage].state = "unsent" /\
         \A m \in Messages : task[m].state # "unsent" <=> m < NextMessage
<1>1. PICK k \in 0..MaxMessages : \A m \in Messages : task[m].state # "unsent" <=> m <= k
  BY DEF Numbered
<1>2. {m \in Messages : task[m].state # "unsent"} = 1..k
  BY <1>1, LedgerAssumption
<1>3. Cardinality(1..k) = k
  BY <1>1, LedgerAssumption, FS_Interval
<1>4. NextMessage = k + 1
  BY <1>2, <1>3 DEF NextMessage
<1>5. MaxMessages \in Nat
  BY LedgerAssumption
<1> QED
  BY <1>1, <1>4, <1>5

\* Sending leaves every message that was sent, and every run, as it was.
LEMMA SendMoves ==
  ASSUME LedgerTypeOK, MessageInv, Sends
  PROVE  \E s \in Messages, kind \in Kinds, date \in Days :
           /\ task[s].state = "unsent"
           /\ task' = [task EXCEPT ![s] = [kind |-> kind, date |-> date, state |-> "queued"]]
           /\ task'[s] = [kind |-> kind, date |-> date, state |-> "queued"]
           /\ \A m \in Messages \ {s} : task'[m] = task[m]
           /\ \A m \in Messages : task[m].state # "unsent" <=> m < s
           /\ kind = "nightly" => date > 0
           /\ kind = "rollup" => Month(date) > 0
           /\ date <= today
           /\ UNCHANGED <<today, callVars, tableVars, run, before, missed>>
<1>1. PICK kind \in Kinds, date \in Days :
        /\ Send(kind, date)
        /\ kind = "nightly" => date > 0
        /\ kind = "rollup" => Month(date) > 0
        /\ date <= today
  <2>1. PICK kind \in Kinds, date \in Days :
          /\ Send(kind, date)
          /\ \/ kind = "nightly" /\ date > 0 /\ date = today
             \/ kind = "rollup" /\ Month(date) > 0 /\ date = today
             \/ kind = "manual" /\ date <= today
             \/ \E m \in Messages : Committed(m) /\ kind = task[m].kind /\ date = task[m].date
    BY SendsHow
  <2>2. date <= today
    BY <2>1, LedgerAssumption DEF LedgerTypeOK, MessageInv, Dated
  <2>3. /\ kind = "nightly" => date > 0
        /\ kind = "rollup" => Month(date) > 0
    BY <2>1 DEF MessageInv, Dated
  <2> QED
    BY <2>1, <2>2, <2>3
<1>2. NextMessage \in Messages
  BY <1>1 DEF Send
<1>3. /\ task[NextMessage].state = "unsent"
      /\ \A m \in Messages : task[m].state # "unsent" <=> m < NextMessage
  BY <1>2, NextUnsent DEF MessageInv
<1>4. task \in [Messages -> TaskRows]
  BY DEF LedgerTypeOK
<1> HIDE DEF Messages
<1>5. /\ task' = [task EXCEPT ![NextMessage] = [kind |-> kind, date |-> date, state |-> "queued"]]
      /\ UNCHANGED <<today, callVars, tableVars, run, before, missed>>
  BY <1>1 DEF Send
<1>6. /\ task'[NextMessage] = [kind |-> kind, date |-> date, state |-> "queued"]
      /\ \A m \in Messages \ {NextMessage} : task'[m] = task[m]
  BY <1>2, <1>4, <1>5
<1> QED
  BY <1>1, <1>2, <1>3, <1>5, <1>6

LEMMA SendMessages ==
  ASSUME LedgerTypeOK, MessageInv, Sends
  PROVE  MessageInv'
<1>1. PICK s \in Messages, kind \in Kinds, date \in Days :
        /\ task[s].state = "unsent"
        /\ task'[s] = [kind |-> kind, date |-> date, state |-> "queued"]
        /\ \A m \in Messages \ {s} : task'[m] = task[m]
        /\ \A m \in Messages : task[m].state # "unsent" <=> m < s
        /\ kind = "nightly" => date > 0
        /\ kind = "rollup" => Month(date) > 0
        /\ date <= today
        /\ UNCHANGED <<today, callVars, tableVars, run, before, missed>>
  BY SendMoves
<1>2. Numbered'
  <2>1. s \in 0..MaxMessages /\ \A m \in Messages : m <= s <=> m < s \/ m = s
    BY LedgerAssumption
  <2>2. \A m \in Messages : task'[m].state # "unsent" <=> m <= s
    BY <1>1, <2>1
  <2> QED
    BY <2>1, <2>2 DEF Numbered
<1>3. Dated'
  BY <1>1 DEF MessageInv, Dated
<1>4. Past'
  BY <1>1 DEF MessageInv, Past, Committed
<1>5. Targets'
  BY <1>1 DEF MessageInv, Targets, Begun
<1> QED
  BY <1>2, <1>3, <1>4, <1>5 DEF MessageInv

\* Taking, finishing and returning a message changes neither its number nor
\* what it is about.
LEMMA MovesNumbered ==
  ASSUME LedgerTypeOK, MessageInv, NEW m \in Messages, task[m].state # "unsent",
         NEW s \in {"queued", "running", "committed", "failed"},
         task' = [task EXCEPT ![m].state = s], today' = today
  PROVE  Numbered' /\ Dated'
<1>1. /\ task'[m] = [kind |-> task[m].kind, date |-> task[m].date, state |-> s]
      /\ \A n \in Messages \ {m} : task'[n] = task[n]
  BY TaskMoves
<1>2. \A n \in Messages : /\ task'[n].state # "unsent" <=> task[n].state # "unsent"
                          /\ task'[n].kind = task[n].kind /\ task'[n].date = task[n].date
  BY <1>1
<1>3. Numbered'
  BY <1>2 DEF MessageInv, Numbered
<1>4. Dated'
  BY <1>2 DEF MessageInv, Dated
<1> QED
  BY <1>3, <1>4

LEMMA DatesAreNumbers ==
  ASSUME LedgerTypeOK
  PROVE  today \in Nat /\ \A m \in Messages : task[m].date \in Nat
<1>1. \A d \in Days : d \in Nat
  BY LedgerAssumption
<1>2. today \in Days
  BY DEF LedgerTypeOK
<1>3. \A m \in Messages : task[m] \in TaskRows
  BY DEF LedgerTypeOK
<1>4. \A m \in Messages : task[m].date \in Days
  BY <1>3 DEF TaskRows
<1> QED
  BY <1>1, <1>2, <1>4

\* What a run is about when it begins.
LEMMA BeginRun ==
  ASSUME LedgerTypeOK, NEW m \in Messages, BeginDay(m) \/ BeginMonth(m)
  PROVE  /\ task[m].state = "queued" /\ task'[m].state = "running"
         /\ task'[m].kind = task[m].kind /\ task'[m].date = task[m].date
         /\ \A n \in Messages \ {m} : task'[n] = task[n] /\ run'[n] = run[n]
         /\ before' = before \cup {<<n, m>> : n \in {p \in Messages : Committed(p)}}
         /\ run'[m].began = today /\ run'[m].summed = {} /\ run'[m].written = {}
         /\ task[m].kind # "rollup" =>
              run'[m].of = TargetDay(m) /\ run'[m].todo = Active(TargetDay(m))
         /\ task[m].kind = "rollup" =>
              /\ run'[m].of = LastMonth /\ run'[m].todo = {}
              /\ run'[m].rows = [t \in Tenants |-> DaysOf(t, LastMonth)]
         /\ UNCHANGED <<today, callVars, tableVars, lost, missed>>
<1>1. Begin(m)
  BY DEF BeginDay, BeginMonth
<1>2. /\ task'[m] = [kind |-> task[m].kind, date |-> task[m].date, state |-> "running"]
      /\ \A n \in Messages \ {m} : task'[n] = task[n]
  BY <1>1, TaskMoves DEF Begin
<1>3. run \in [Messages -> RunRows]
  BY DEF LedgerTypeOK
<1>4. CASE BeginDay(m)
  BY <1>1, <1>2, <1>3, <1>4 DEF BeginDay, Begin, Idle
<1>5. CASE BeginMonth(m)
  BY <1>1, <1>2, <1>3, <1>5 DEF BeginMonth, Begin, Idle
<1> QED
  BY <1>4, <1>5

LEMMA BeginMessages ==
  ASSUME LedgerTypeOK, MessageInv, NEW m \in Messages, BeginDay(m) \/ BeginMonth(m)
  PROVE  MessageInv'
<1>1. Numbered' /\ Dated'
  BY BeginRun, MovesNumbered DEF BeginDay, BeginMonth, Begin
<1>2. Past'
  <2>1. \A n \in Messages : Committed(n) => task'[n].state = "committed"
    BY BeginRun DEF Committed
  <2>2. ASSUME NEW p \in Messages, NEW q \in Messages, <<p, q>> \in before'
        PROVE  task'[p].state = "committed"
    <3>1. <<p, q>> \in before \/ <<p, q>> \in {<<n, m>> : n \in {r \in Messages : Committed(r)}}
      BY <2>2, BeginRun
    <3>2. Committed(p)
      BY <3>1 DEF MessageInv, Past
    <3> QED
      BY <2>1, <3>2
  <2> QED
    BY <2>2 DEF Past, Committed
<1>3. Targets'
  <2>1. task[m].date \in Nat /\ today \in Nat
    BY DatesAreNumbers
  <2>2. task[m].kind = "nightly" => today > 0
    BY <2>1 DEF MessageInv, Dated
  <2>3. run'[m].began = today
    BY BeginRun
  <2>4. task[m].kind = "nightly" => run'[m].of = today - 1
    BY BeginRun DEF TargetDay
  <2>5. task[m].kind = "manual" => run'[m].of = task[m].date
    BY BeginRun DEF TargetDay
  <2>6. task[m].kind = "rollup" => run'[m].of = Month(today) - 1
    BY BeginRun DEF LastMonth
  <2>7. \A n \in Messages \ {m} : task'[n] = task[n] /\ run'[n] = run[n]
    BY BeginRun
  <2>8. task'[m].kind = task[m].kind /\ task'[m].date = task[m].date
    BY BeginRun
  <2> QED
    BY <2>2, <2>3, <2>4, <2>5, <2>6, <2>7, <2>8 DEF MessageInv, Targets, Begun
<1> QED
  BY <1>1, <1>2, <1>3 DEF MessageInv

\* A statement of a run leaves what it is about as it was.
LEMMA StatementMessages ==
  ASSUME LedgerTypeOK, MessageInv, NEW m \in Messages, Upsert(m) \/ \E t \in Tenants : Sum(m, t)
  PROVE  MessageInv'
<1>1. UNCHANGED <<task, before, today>>
  BY DEF Sum, Upsert
<1>2. run \in [Messages -> RunRows]
  BY DEF LedgerTypeOK
<1>3. \A n \in Messages : run'[n].of = run[n].of /\ run'[n].began = run[n].began
  <2>1. run[m] \in RunRows
    BY <1>2
  <2>2. CASE Upsert(m)
    <3>1. run' = [run EXCEPT ![m] = [run[m] EXCEPT !.summed = {}, !.written = run[m].written \cup run[m].summed]]
      BY <2>2 DEF Upsert
    <3> QED
      BY <1>2, <2>1, <3>1 DEF RunRows
  <2>3. CASE \E t \in Tenants : Sum(m, t)
    <3>1. PICK t \in Tenants : Sum(m, t)
      BY <2>3
    <3>2. run' = [run EXCEPT ![m] = [run[m] EXCEPT !.todo = run[m].todo \ {t}, !.summed = {t},
                                       !.rows = [run[m].rows EXCEPT ![t] = LogOf(t, run[m].of)]]]
      BY <3>1 DEF Sum
    <3> QED
      BY <1>2, <2>1, <3>2 DEF RunRows
  <2> QED
    BY <2>2, <2>3
<1>4. Targets'
  BY <1>1, <1>3 DEF MessageInv, Targets, Begun
<1> QED
  BY <1>1, <1>4 DEF MessageInv, Numbered, Dated, Past, Committed

\* What a commit does to the message and to its run.
LEMMA CommitRun ==
  ASSUME LedgerTypeOK, NEW m \in Messages, CommitDay(m) \/ CommitMonth(m)
  PROVE  /\ task[m].state = "running" /\ task'[m].state = "committed"
         /\ task'[m].kind = task[m].kind /\ task'[m].date = task[m].date
         /\ run'[m].began = run[m].began /\ run'[m].of = run[m].of
         /\ \A n \in Messages \ {m} : task'[n] = task[n] /\ run'[n] = run[n]
         /\ UNCHANGED <<today, callVars, lost, before, missed>>
<1>1. Commit(m) /\ task[m].state = "running"
  BY DEF CommitDay, CommitMonth, Running
<1>2. /\ task'[m] = [kind |-> task[m].kind, date |-> task[m].date, state |-> "committed"]
      /\ \A n \in Messages \ {m} : task'[n] = task[n]
  BY <1>1, TaskMoves DEF Commit
<1>3. run \in [Messages -> RunRows]
  BY DEF LedgerTypeOK
<1> QED
  BY <1>1, <1>2, <1>3 DEF Commit, Idle

LEMMA CommitMessages ==
  ASSUME LedgerTypeOK, MessageInv, NEW m \in Messages, CommitDay(m) \/ CommitMonth(m)
  PROVE  MessageInv'
<1>1. Numbered' /\ Dated'
  BY CommitRun, MovesNumbered DEF CommitDay, CommitMonth, Commit
<1>2. Past'
  BY CommitRun DEF MessageInv, Past, Committed
<1>3. Targets'
  BY CommitRun DEF MessageInv, Targets, Begun
<1> QED
  BY <1>1, <1>2, <1>3 DEF MessageInv

\* What the end of a run without a commit does to the message and to its run.
LEMMA EndRun ==
  ASSUME LedgerTypeOK, NEW m \in Messages, NoActivity(m) \/ Deadlock(m) \/ Fails(m) \/ WorkerLost(m)
  PROVE  /\ task[m].state = "running" /\ task'[m].state \in {"queued", "failed"}
         /\ task'[m].kind = task[m].kind /\ task'[m].date = task[m].date
         /\ \A n \in Messages \ {m} :
              task'[n] = task[n] /\ run'[n] = run[n] /\ missed'[n] = missed[n]
         /\ UNCHANGED <<today, callVars, tableVars, before>>
<1>1. PICK s \in {"failed", "queued"} : End(m, s)
  BY EndsHow
<1>2. task[m].state = "running"
  BY EndsHow DEF Running
<1>3. /\ task'[m] = [kind |-> task[m].kind, date |-> task[m].date, state |-> s]
      /\ \A n \in Messages \ {m} : task'[n] = task[n]
  BY <1>1, TaskMoves DEF End
<1>4. run \in [Messages -> RunRows] /\ missed \in [Messages -> SUBSET Calls]
  BY DEF LedgerTypeOK
<1> QED
  BY <1>1, <1>2, <1>3, <1>4 DEF End

LEMMA EndMessages ==
  ASSUME LedgerTypeOK, MessageInv, NEW m \in Messages,
         NoActivity(m) \/ Deadlock(m) \/ Fails(m) \/ WorkerLost(m)
  PROVE  MessageInv'
<1>1. PICK s \in {"failed", "queued"} : End(m, s)
  BY EndsHow
<1>2. Numbered' /\ Dated'
  BY <1>1, EndRun, MovesNumbered DEF End
<1>3. Past'
  BY EndRun DEF MessageInv, Past, Committed
<1>4. Targets'
  BY EndRun DEF MessageInv, Targets, Begun
<1> QED
  BY <1>2, <1>3, <1>4 DEF MessageInv

\* The steps of calls and the calendar leave tables and messages alone.
LEMMA CallsElsewhere ==
  ASSUME NextDay \/ \E c \in Calls : Serve(c) \/ OpenTransaction(c) \/ CommitCall(c) \/ LoseCall(c)
  PROVE  UNCHANGED <<tableVars, task, run, lost, before>> /\ today' \in {today, today + 1}
BY DEF NextDay, Serve, OpenTransaction, CommitCall, LoseCall

LEMMA MessagesStep == LedgerTypeOK /\ MessageInv /\ [Next]_vars => MessageInv'
<1> SUFFICES ASSUME LedgerTypeOK, MessageInv, [Next]_vars
             PROVE  MessageInv'
  OBVIOUS
<1>1. CASE \/ UNCHANGED vars \/ NextDay
           \/ \E c \in Calls : Serve(c) \/ OpenTransaction(c) \/ CommitCall(c) \/ LoseCall(c)
  <2>1. UNCHANGED <<task, run, before>> /\ today' \in {today, today + 1}
    BY <1>1, CallsElsewhere DEF vars
  <2>2. today \in Nat /\ \A m \in Messages : task[m].date \in Nat
    BY DatesAreNumbers
  <2>3. Dated'
    BY <2>1, <2>2 DEF MessageInv, Dated
  <2> QED
    BY <2>1, <2>3 DEF MessageInv, Numbered, Past, Committed, Targets, Begun
<1> QED
  BY <1>1, SendMessages, BeginMessages, StatementMessages, CommitMessages, EndMessages DEF Next

----------------------------------------------------------------------------
(* Days *)

\* Where a run of a day is with a tenant: to be summed, summed or written, or
\* without a call when it began.
SumsOf(m, t) ==
  /\ t \in run[m].todo => LogOf(t, run[m].of) # {}
  /\ t \in run[m].summed \cup run[m].written =>
       /\ run[m].rows[t] # {} /\ run[m].rows[t] \subseteq LogOf(t, run[m].of)
       /\ LogOf(t, run[m].of) \ missed[m] \subseteq run[m].rows[t]
  /\ t \notin run[m].todo \cup run[m].summed \cup run[m].written =>
       LogOf(t, run[m].of) \subseteq missed[m]

DayRuns ==
  \A m \in Messages : task[m].state = "running" /\ task[m].kind # "rollup" =>
    \A t \in Tenants : SumsOf(m, t)

DaysLogged == \A t \in Tenants, d \in Days : daily[t][d] \subseteq LogOf(t, d)

\* A day is as one of its last runs has left it.
Covers(m, d) == \A t \in Tenants : LogOf(t, d) \ missed[m] \subseteq daily[t][d]

DaysCovered ==
  \A d \in Days : (\E n \in Messages : Aggregated(n, d)) => \E m \in LastRuns(d) : Covers(m, d)

DayInv == DaysLogged /\ DayRuns /\ DaysCovered

LEMMA InitDays == Init => DayInv
<1> SUFFICES ASSUME Init
             PROVE  DayInv
  OBVIOUS
<1>1. \A m \in Messages : task[m].state = "unsent"
  BY DEF Init, Unsent
<1>2. DaysLogged
  BY DEF Init, DaysLogged
<1>3. DayRuns
  BY <1>1 DEF DayRuns
<1>4. DaysCovered
  BY <1>1 DEF DaysCovered, Aggregated, Committed
<1> QED
  BY <1>2, <1>3, <1>4 DEF DayInv

\* The day of a run is a day of the calendar.
LEMMA RunDay ==
  ASSUME LedgerTypeOK, MessageInv, NEW m \in Messages, Begun(m), task[m].kind # "rollup"
  PROVE  /\ run[m].of \in Days /\ run[m].of \in Int
         /\ OnTime(m) => run[m].of = DayOf(m)
<1>1. task[m] \in TaskRows /\ run[m] \in RunRows
  BY DEF LedgerTypeOK
<1>2. task[m].kind \in {"nightly", "manual"} /\ task[m].date \in Days
  BY <1>1 DEF TaskRows, Kinds
<1>3. run[m].began \in Days /\ run[m].of \in Int
  BY <1>1 DEF RunRows
<1>4. CASE task[m].kind = "manual"
  BY <1>2, <1>3, <1>4 DEF MessageInv, Targets, DayOf
<1>5. CASE task[m].kind = "nightly"
  <2>1. run[m].began > 0 /\ run[m].of = run[m].began - 1
    BY <1>5 DEF MessageInv, Targets
  <2>2. run[m].of \in Days
    BY <2>1, <1>3, LedgerAssumption
  <2>3. OnTime(m) => run[m].of = DayOf(m)
    BY <2>1, <1>5 DEF OnTime, DayOf
  <2> QED
    BY <2>2, <2>3, <1>3
<1> QED
  BY <1>2, <1>4, <1>5

\* Calls are saved and never unsaved, and runs that are under way or over miss
\* those that are saved now.
LEMMA LogGrows ==
  ASSUME LedgerTypeOK,
         \/ UNCHANGED vars \/ NextDay
         \/ \E c \in Calls : Serve(c) \/ OpenTransaction(c) \/ CommitCall(c) \/ LoseCall(c)
  PROVE  \A t \in Tenants, d \in Int :
           /\ LogOf(t, d) \subseteq LogOf(t, d)'
           /\ \A m \in Messages : Begun(m) /\ task[m].kind # "rollup" =>
                missed[m] \subseteq missed'[m] /\ LogOf(t, d)' \subseteq LogOf(t, d) \cup missed'[m]
<1>1. call \in [Calls -> {"new", "served", "open", "saved", "lost"}] /\ made \in [Calls -> Days]
  BY DEF LedgerTypeOK
<1>2. CASE UNCHANGED vars \/ NextDay
  BY <1>2 DEF vars, callVars, NextDay, LogOf
<1>3. CASE \E c \in Calls : Serve(c) \/ OpenTransaction(c) \/ LoseCall(c)
  <2>1. PICK c \in Calls : Serve(c) \/ OpenTransaction(c) \/ LoseCall(c)
    BY <1>3
  <2>2. \A b \in Calls : (call'[b] = "saved" <=> call[b] = "saved")
                           /\ (call[b] = "saved" => made'[b] = made[b])
    BY <1>1, <2>1 DEF Serve, OpenTransaction, LoseCall
  <2>3. missed' = missed
    BY <2>1 DEF Serve, OpenTransaction, LoseCall
  <2> QED
    BY <2>2, <2>3 DEF LogOf
<1>4. CASE \E c \in Calls : CommitCall(c)
  <2>1. PICK c \in Calls : CommitCall(c)
    BY <1>4
  <2>2. \A b \in Calls : /\ call[b] = "saved" => call'[b] = "saved"
                         /\ call'[b] = "saved" => call[b] = "saved" \/ b = c
    BY <1>1, <2>1 DEF CommitCall
  <2>3. made' = made
    BY <2>1 DEF CommitCall
  <2>4. \A m \in Messages : Begun(m) /\ task[m].kind # "rollup" => missed'[m] = missed[m] \cup {c}
    BY <2>1 DEF CommitCall, Begun
  <2> QED
    BY <2>2, <2>3, <2>4 DEF LogOf
<1> QED
  BY <1>2, <1>3, <1>4

\* Steps of calls.
LEMMA CallDays ==
  ASSUME LedgerTypeOK, MessageInv, DayInv,
         \/ UNCHANGED vars \/ NextDay
         \/ \E c \in Calls : Serve(c) \/ OpenTransaction(c) \/ CommitCall(c) \/ LoseCall(c)
  PROVE  DayInv'
<1>1. UNCHANGED <<daily, task, run, before>>
  BY CallsElsewhere DEF vars, tableVars
<1>2. \A d \in Days : d \in Int
  BY LedgerAssumption
<1>3. DaysLogged'
  BY <1>1, <1>2, LogGrows DEF DayInv, DaysLogged
<1>4. DayRuns'
  <2> SUFFICES ASSUME NEW m \in Messages, task[m].state = "running", task[m].kind # "rollup",
                      NEW t \in Tenants
               PROVE  SumsOf(m, t)'
    BY <1>1 DEF DayRuns
  <2>1. PICK d \in Int : d = run[m].of
    BY RunDay DEF Begun
  <2>2. LogOf(t, d) \subseteq LogOf(t, d)' /\ missed[m] \subseteq missed'[m]
          /\ LogOf(t, d)' \subseteq LogOf(t, d) \cup missed'[m]
    BY LogGrows DEF Begun
  <2>3. SumsOf(m, t)
    BY DEF DayInv, DayRuns
  <2> QED
    BY <1>1, <2>1, <2>2, <2>3 DEF SumsOf, LogOf
<1>5. DaysCovered'
  <2> SUFFICES ASSUME NEW d \in Days, NEW n \in Messages, Aggregated(n, d)'
               PROVE  \E m \in LastRuns(d)' : Covers(m, d)'
    BY DEF DaysCovered
  <2>1. \A m \in Messages : Aggregated(m, d)' <=> Aggregated(m, d)
    BY <1>1 DEF Aggregated, Committed
  <2>2. PICK m \in LastRuns(d) : Covers(m, d)
    BY <2>1 DEF DayInv, DaysCovered
  <2>3. m \in LastRuns(d)'
    BY <1>1, <2>1, <2>2 DEF LastRuns
  <2>4. m \in Messages /\ Begun(m) /\ task[m].kind # "rollup"
    BY <2>2 DEF LastRuns, Aggregated, Committed, Begun
  <2>5. ASSUME NEW t \in Tenants
        PROVE  LogOf(t, d)' \ missed'[m] \subseteq daily'[t][d]
    <3>1. LogOf(t, d) \ missed[m] \subseteq daily[t][d]
      BY <2>2 DEF Covers
    <3>2. missed[m] \subseteq missed'[m] /\ LogOf(t, d)' \subseteq LogOf(t, d) \cup missed'[m]
      BY <1>2, <2>4, LogGrows
    <3> QED
      BY <1>1, <3>1, <3>2
  <2> QED
    BY <2>3, <2>5 DEF Covers
<1> QED
  BY <1>3, <1>4, <1>5 DEF DayInv

\* A step that moves the message x alone, and commits no run of a day, leaves
\* the days and the other runs as they were.
OthersKept(x) ==
  /\ UNCHANGED <<callVars, daily>>
  /\ ~ Committed(x)
  /\ task'[x].state = "committed" => task'[x].kind = "rollup"
  /\ \A n \in Messages \ {x} : task'[n] = task[n] /\ run'[n] = run[n] /\ missed'[n] = missed[n]
  /\ \A p, n \in Messages : n # x /\ <<p, n>> \in before' => <<p, n>> \in before

LEMMA DaysKept ==
  ASSUME DayInv, NEW x \in Messages, OthersKept(x),
         task'[x].state = "running" /\ task'[x].kind # "rollup" =>
           \A t \in Tenants : SumsOf(x, t)'
  PROVE  DayInv'
<1>1. UNCHANGED <<call, made, daily>>
  BY DEF OthersKept, callVars
<1>2. DaysLogged'
  BY <1>1 DEF DayInv, DaysLogged, LogOf
<1>3. DayRuns'
  <2>1. ASSUME NEW m \in Messages \ {x}, NEW t \in Tenants, SumsOf(m, t)
        PROVE  SumsOf(m, t)'
    BY <1>1, <2>1 DEF SumsOf, LogOf, OthersKept
  <2>2. \A m \in Messages \ {x} : task'[m] = task[m]
    BY DEF OthersKept
  <2> QED
    BY <2>1, <2>2 DEF DayInv, DayRuns
<1>4. DaysCovered'
  <2> SUFFICES ASSUME NEW d \in Days, NEW n \in Messages, Aggregated(n, d)'
               PROVE  \E m \in LastRuns(d)' : Covers(m, d)'
    BY DEF DaysCovered
  <2>1. \A m \in Messages : Aggregated(m, d)' <=> Aggregated(m, d)
    BY DEF OthersKept, Aggregated, Committed
  <2>2. PICK m \in LastRuns(d) : Covers(m, d)
    BY <2>1 DEF DayInv, DaysCovered
  <2>3. x # m /\ ~Aggregated(x, d)
    BY <2>2 DEF OthersKept, LastRuns, Aggregated
  <2>4. m \in LastRuns(d)'
    BY <2>1, <2>2, <2>3 DEF LastRuns, OthersKept
  <2>5. missed'[m] = missed[m]
    BY <2>2, <2>3 DEF OthersKept, LastRuns
  <2> QED
    BY <1>1, <2>2, <2>4, <2>5 DEF Covers, LogOf
<1> QED
  BY <1>2, <1>3, <1>4 DEF DayInv

LEMMA SendDays ==
  ASSUME LedgerTypeOK, MessageInv, DayInv, Sends
  PROVE  DayInv'
<1>1. PICK s \in Messages, kind \in Kinds, date \in Days :
        /\ task[s].state = "unsent"
        /\ task'[s] = [kind |-> kind, date |-> date, state |-> "queued"]
        /\ \A m \in Messages \ {s} : task'[m] = task[m]
        /\ UNCHANGED <<today, callVars, tableVars, run, before, missed>>
  BY SendMoves
<1>2. OthersKept(s)
  BY <1>1 DEF OthersKept, Committed, tableVars
<1> QED
  BY <1>1, <1>2, DaysKept

LEMMA BeginDays ==
  ASSUME LedgerTypeOK, MessageInv, DayInv, NEW m \in Messages, BeginDay(m) \/ BeginMonth(m)
  PROVE  DayInv'
<1>1. OthersKept(m)
  <2>1. \A p, n \in Messages : n # m /\ <<p, n>> \in before' => <<p, n>> \in before
    <3>1. PICK P : before' = before \cup {<<p, m>> : p \in P}
      BY BeginRun
    <3> QED
      BY <3>1
  <2>2. task[m].state = "queued" /\ task'[m].state = "running"
    BY BeginRun
  <2>3. UNCHANGED <<callVars, daily, missed>>
    BY BeginRun DEF tableVars
  <2>4. \A n \in Messages \ {m} : task'[n] = task[n] /\ run'[n] = run[n]
    BY BeginRun
  <2> QED
    BY <2>1, <2>2, <2>3, <2>4 DEF OthersKept, Committed
<1>2. ASSUME task[m].kind # "rollup", NEW t \in Tenants
      PROVE  SumsOf(m, t)'
  <2>1. PICK d : d = TargetDay(m)
    OBVIOUS
  <2>2. run'[m].of = d /\ run'[m].todo = Active(d) /\ run'[m].summed = {} /\ run'[m].written = {}
    BY <1>2, <2>1, BeginRun
  <2>3. UNCHANGED <<call, made>>
    BY BeginRun DEF callVars
  <2> QED
    BY <2>2, <2>3 DEF SumsOf, Active, LogOf
<1> QED
  BY <1>1, <1>2, BeginRun, DaysKept

LEMMA SumDays ==
  ASSUME LedgerTypeOK, MessageInv, DayInv, NEW m \in Messages, NEW t \in Tenants, Sum(m, t)
  PROVE  DayInv'
<1>1. run \in [Messages -> RunRows] /\ run[m] \in RunRows
  BY DEF LedgerTypeOK
<1>2. m \in Running /\ t \in run[m].todo
        /\ UNCHANGED <<callVars, tableVars, task, before, missed>>
  BY DEF Sum
<1>3. run' = [run EXCEPT ![m] = [run[m] EXCEPT !.todo = run[m].todo \ {t}, !.summed = {t},
                                       !.rows = [run[m].rows EXCEPT ![t] = LogOf(t, run[m].of)]]]
  BY DEF Sum
<1>4. OthersKept(m)
  <2>1. task[m].state = "running" /\ task' = task /\ daily' = daily /\ before' = before
    BY <1>2 DEF Running, tableVars
  <2>2. \A n \in Messages \ {m} : run'[n] = run[n]
    BY <1>1, <1>3
  <2> QED
    BY <1>2, <2>1, <2>2 DEF OthersKept, Committed
<1>5. ASSUME task[m].kind # "rollup", NEW u \in Tenants
      PROVE  SumsOf(m, u)'
  <2>1. PICK d : d = run[m].of
    OBVIOUS
  <2>2. PICK log : log = LogOf(t, d)
    OBVIOUS
  <2>3. run'[m] = [run[m] EXCEPT !.todo = run[m].todo \ {t}, !.summed = {t},
                                 !.rows = [run[m].rows EXCEPT ![t] = log]]
    BY <1>1, <1>3, <2>1, <2>2
  <2>4. /\ run'[m].of = d /\ run'[m].todo = run[m].todo \ {t} /\ run'[m].summed = {t}
        /\ run'[m].written = run[m].written /\ run'[m].rows = [run[m].rows EXCEPT ![t] = log]
    BY <1>1, <2>1, <2>3 DEF RunRows
  <2>5. run[m].rows \in [Tenants -> SUBSET Calls]
    BY <1>1 DEF RunRows
  <2>6. SumsOf(m, u) /\ SumsOf(m, t)
    BY <1>2, <1>5 DEF DayInv, DayRuns, Running
  <2>7. LogOf(u, d)' = LogOf(u, d) /\ missed' = missed
    BY <1>2 DEF LogOf, callVars
  <2>8. CASE u = t
    <3>1. run'[m].rows[t] = log /\ log # {}
      BY <1>2, <2>1, <2>2, <2>4, <2>5, <2>6 DEF SumsOf
    <3>2. LogOf(t, d)' = log
      BY <2>2, <2>7, <2>8
    <3> QED
      BY <2>4, <2>8, <3>1, <3>2 DEF SumsOf, LogOf
  <2>9. CASE u # t
    <3>1. run'[m].rows[u] = run[m].rows[u]
      BY <2>4, <2>5, <2>9
    <3>2. u \in run'[m].summed \cup run'[m].written => u \in run[m].written
      BY <2>4, <2>9
    <3>3. u \notin run'[m].todo => u \notin run[m].todo
      BY <2>4, <2>9
    <3>4. run[m].summed = {}
      BY DEF Sum
    <3> QED
      BY <2>1, <2>4, <2>6, <2>7, <2>9, <3>1, <3>2, <3>3, <3>4 DEF SumsOf, LogOf
  <2> QED
    BY <2>8, <2>9
<1> QED
  BY <1>2, <1>4, <1>5, DaysKept

LEMMA UpsertDays ==
  ASSUME LedgerTypeOK, MessageInv, DayInv, NEW m \in Messages, Upsert(m)
  PROVE  DayInv'
<1>1. run \in [Messages -> RunRows] /\ run[m] \in RunRows
  BY DEF LedgerTypeOK
<1>2. m \in Running /\ UNCHANGED <<callVars, tableVars, task, before, missed>>
  BY DEF Upsert
<1>3. run' = [run EXCEPT ![m] = [run[m] EXCEPT !.summed = {}, !.written = run[m].written \cup run[m].summed]]
  BY DEF Upsert
<1>4. OthersKept(m)
  <2>1. task[m].state = "running" /\ task' = task /\ daily' = daily /\ before' = before
    BY <1>2 DEF Running, tableVars
  <2>2. \A n \in Messages \ {m} : run'[n] = run[n]
    BY <1>1, <1>3
  <2> QED
    BY <1>2, <2>1, <2>2 DEF OthersKept, Committed
<1>5. ASSUME task[m].kind # "rollup", NEW u \in Tenants
      PROVE  SumsOf(m, u)'
  <2>1. /\ run'[m].of = run[m].of /\ run'[m].todo = run[m].todo /\ run'[m].summed = {}
        /\ run'[m].written = run[m].written \cup run[m].summed /\ run'[m].rows = run[m].rows
    BY <1>1, <1>3 DEF RunRows
  <2>2. SumsOf(m, u)
    BY <1>2, <1>5 DEF DayInv, DayRuns, Running
  <2> QED
    BY <1>2, <2>1, <2>2 DEF SumsOf, LogOf, callVars
<1> QED
  BY <1>2, <1>4, <1>5, DaysKept

LEMMA EndDays ==
  ASSUME LedgerTypeOK, MessageInv, DayInv, NEW m \in Messages,
         NoActivity(m) \/ Deadlock(m) \/ Fails(m) \/ WorkerLost(m)
  PROVE  DayInv'
<1>1. OthersKept(m)
  BY EndRun DEF OthersKept, Committed, tableVars
<1> QED
  BY <1>1, EndRun, DaysKept

LEMMA CommitMonthDays ==
  ASSUME LedgerTypeOK, MessageInv, DayInv, NEW m \in Messages, CommitMonth(m)
  PROVE  DayInv'
<1>1. task[m].kind = "rollup" /\ daily' = daily
  BY DEF CommitMonth
<1>2. OthersKept(m)
  BY <1>1, CommitRun DEF OthersKept, Committed
<1> QED
  BY <1>1, <1>2, CommitRun, DaysKept

\* Nothing has followed a run that commits.
LEMMA CommitDayDays ==
  ASSUME LedgerTypeOK, MessageInv, DayInv, NEW m \in Messages, CommitDay(m)
  PROVE  DayInv'
<1>1. /\ task[m].state = "running" /\ task[m].kind # "rollup"
      /\ run[m].todo = {} /\ run[m].summed = {}
      /\ daily' = [t \in Tenants |-> IF t \in run[m].written
                                     THEN [daily[t] EXCEPT ![run[m].of] = run[m].rows[t]]
                                     ELSE daily[t]]
  BY DEF CommitDay, Stored, Running
<1>2. PICK d \in Days : d = run[m].of
  BY <1>1, RunDay DEF Begun
<1>3. /\ \A t \in Tenants : daily[t] \in [Days -> SUBSET Calls]
      /\ run[m] \in RunRows
  BY DEF LedgerTypeOK
<1>4. \A t \in Tenants, e \in Days :
        daily'[t][e] = IF e = d /\ t \in run[m].written THEN run[m].rows[t] ELSE daily[t][e]
  BY <1>1, <1>2, <1>3
<1>5. \A t \in Tenants :
        /\ t \in run[m].written =>
             run[m].rows[t] \subseteq LogOf(t, d) /\ LogOf(t, d) \ missed[m] \subseteq run[m].rows[t]
        /\ t \notin run[m].written => LogOf(t, d) \subseteq missed[m]
  BY <1>1, <1>2 DEF DayInv, DayRuns, SumsOf
<1>6. /\ task'[m].state = "committed" /\ task'[m].kind = task[m].kind /\ task'[m].date = task[m].date
      /\ run'[m].began = run[m].began /\ run'[m].of = d
      /\ \A n \in Messages \ {m} : task'[n] = task[n] /\ run'[n] = run[n]
      /\ UNCHANGED <<today, callVars, lost, before, missed>>
  BY <1>2, CommitRun
<1>7. UNCHANGED <<call, made>>
  BY <1>6 DEF callVars
<1>8. DaysLogged'
  <2>1. \A t \in Tenants, e \in Days : daily'[t][e] \subseteq LogOf(t, e)
    BY <1>4, <1>5 DEF DayInv, DaysLogged
  <2> QED
    BY <1>7, <2>1 DEF DaysLogged, LogOf
<1>9. DayRuns'
  <2>1. ASSUME NEW n \in Messages \ {m}, NEW t \in Tenants, SumsOf(n, t)
        PROVE  SumsOf(n, t)'
    BY <1>6, <1>7, <2>1 DEF SumsOf, LogOf
  <2> QED
    BY <1>6, <2>1 DEF DayInv, DayRuns
<1>10. DaysCovered'
  <2> SUFFICES ASSUME NEW e \in Days, NEW n \in Messages, Aggregated(n, e)'
               PROVE  \E p \in LastRuns(e)' : Covers(p, e)'
    BY DEF DaysCovered
  <2>1. CASE e = d
    <3>1. \A p \in Messages : <<m, p>> \notin before'
      BY <1>1, <1>6 DEF MessageInv, Past, Committed
    <3>2. m \in LastRuns(e)'
      BY <1>1, <1>6, <2>1, <3>1 DEF LastRuns, Aggregated, Committed
    <3>3. \A t \in Tenants : LogOf(t, d) \ missed[m] \subseteq daily'[t][d]
      BY <1>4, <1>5
    <3> QED
      BY <1>6, <1>7, <2>1, <3>2, <3>3 DEF Covers, LogOf
  <2>2. CASE e # d
    <3>1. \A p \in Messages : Aggregated(p, e)' <=> Aggregated(p, e)
      BY <1>1, <1>6, <2>2 DEF Aggregated, Committed
    <3>2. PICK p \in LastRuns(e) : Covers(p, e)
      BY <3>1 DEF DayInv, DaysCovered
    <3>3. p \in LastRuns(e)'
      BY <1>6, <3>1, <3>2 DEF LastRuns
    <3>4. \A t \in Tenants : daily'[t][e] = daily[t][e]
      BY <1>4, <2>2
    <3> QED
      BY <1>6, <1>7, <3>2, <3>3, <3>4 DEF Covers, LogOf
  <2> QED
    BY <2>1, <2>2
<1> QED
  BY <1>8, <1>9, <1>10 DEF DayInv

LEMMA DaysStep == LedgerTypeOK /\ MessageInv /\ DayInv /\ [Next]_vars => DayInv'
BY CallDays, SendDays, BeginDays, SumDays, UpsertDays, CommitDayDays, CommitMonthDays, EndDays DEF Next

\* A day has the calls that were saved when one of its last runs began, and no
\* others: for any number of runs, tenants and calls, however runs overlap,
\* whatever is sent, dies or is delivered again.
THEOREM DaysMatch == Spec => []DailyMatchesLog
<1>1. LedgerTypeOK /\ MessageInv /\ DayInv => DailyMatchesLog
  <2> SUFFICES ASSUME LedgerTypeOK, MessageInv, DayInv
               PROVE  DailyMatchesLog
    OBVIOUS
  <2>1. ASSUME NEW m \in Messages, Committed(m), task[m].kind # "rollup", OnTime(m)
        PROVE  Aggregated(m, DayOf(m))
    BY <2>1, RunDay DEF Aggregated, Begun, Committed
  <2>2. \A d \in Days :
          (\E n \in Messages : Aggregated(n, d)) =>
            \E m \in LastRuns(d) : \A t \in Tenants : LogOf(t, d) \ missed[m] \subseteq daily[t][d]
    BY DEF DayInv, DaysCovered, Covers
  <2> QED
    BY <2>1, <2>2 DEF DayInv, DaysLogged, DailyMatchesLog
<1> QED
  BY <1>1, InitTypes, InitMessages, InitDays, TypesStep, MessagesStep, DaysStep, PTL DEF Spec

----------------------------------------------------------------------------
(* Months *)

About(n) == IF task[n].kind = "rollup" THEN run[n].of ELSE Month(run[n].of)

\* Something else about the month of a roll-up was committed after the roll-up
\* had begun.
Disturbed(m) ==
  \E n \in Messages : Committed(n) /\ n # m /\ About(n) = run[m].of /\ <<n, m>> \notin before

\* A roll-up has read, and then written, what its days are now, unless it was
\* disturbed.
RollUps ==
  \A m \in Messages : Begun(m) /\ task[m].kind = "rollup" =>
    \/ Disturbed(m)
    \/ /\ task[m].state = "running"
       /\ \A t \in Tenants : run[m].rows[t] = DaysOf(t, run[m].of)
    \/ /\ task[m].state = "committed"
       /\ run[m].of \in Months => \A t \in Tenants : monthly[t][run[m].of] = DaysOf(t, run[m].of)

\* Days once filled stay filled: a roll-up that skips a tenant without days
\* does not leave an older sum behind.
MonthsFilled ==
  \A t \in Tenants, mo \in Months : monthly[t][mo] # {} => DaysOf(t, mo) # {}

RollUpRows ==
  \A m \in Messages : task[m].state = "running" /\ task[m].kind = "rollup" =>
    /\ run[m].todo = {} /\ run[m].summed = {}
    /\ \A t \in Tenants : run[m].rows[t] # {} => DaysOf(t, run[m].of) # {}

MonthInv == RollUps /\ MonthsFilled /\ RollUpRows

LEMMA InitMonths == Init => MonthInv
<1> SUFFICES ASSUME Init
             PROVE  MonthInv
  OBVIOUS
<1>1. \A m \in Messages : task[m].state = "unsent"
  BY DEF Init, Unsent
<1>2. MonthsFilled
  BY DEF Init, MonthsFilled
<1> QED
  BY <1>1, <1>2 DEF MonthInv, RollUps, RollUpRows, Begun

\* A step that moves the message x alone, and commits nothing.
Uncommitted(x) ==
  /\ UNCHANGED <<daily, monthly>>
  /\ ~ Committed(x) /\ task'[x].state # "committed"
  /\ \A n \in Messages \ {x} : task'[n] = task[n] /\ run'[n] = run[n]
  /\ \A p, n \in Messages : n # x /\ <<p, n>> \in before' => <<p, n>> \in before

LEMMA MonthsKept ==
  ASSUME MonthInv, NEW x \in Messages, Uncommitted(x),
         task'[x].state = "running" /\ task'[x].kind = "rollup" =>
           /\ run'[x].todo = {} /\ run'[x].summed = {}
           /\ \A t \in Tenants : run'[x].rows[t] = DaysOf(t, run[x].of)'
  PROVE  MonthInv'
<1>1. daily' = daily /\ monthly' = monthly
  BY DEF Uncommitted
<1>2. MonthsFilled'
  BY <1>1 DEF MonthInv, MonthsFilled, DaysOf
<1>3. RollUpRows'
  <2> SUFFICES ASSUME NEW m \in Messages, task'[m].state = "running", task'[m].kind = "rollup"
               PROVE  /\ run'[m].todo = {} /\ run'[m].summed = {}
                      /\ \A t \in Tenants : run'[m].rows[t] # {} => DaysOf(t, run[m].of)' # {}
    BY DEF RollUpRows
  <2>1. CASE m = x
    BY <2>1
  <2>2. CASE m # x
    BY <1>1, <2>2 DEF MonthInv, RollUpRows, Uncommitted, DaysOf
  <2> QED
    BY <2>1, <2>2
<1>4. RollUps'
  <2> SUFFICES ASSUME NEW m \in Messages, Begun(m)', task'[m].kind = "rollup", ~ Disturbed(m)'
               PROVE  \/ /\ task'[m].state = "running"
                         /\ \A t \in Tenants : run'[m].rows[t] = DaysOf(t, run[m].of)'
                      \/ /\ task'[m].state = "committed"
                         /\ run'[m].of \in Months =>
                              \A t \in Tenants : monthly'[t][run'[m].of] = DaysOf(t, run[m].of)'
    BY DEF RollUps, Months, Month
  <2>1. CASE m = x
    BY <2>1 DEF Begun, Uncommitted
  <2>2. CASE m # x
    <3>1. task'[m] = task[m] /\ run'[m] = run[m]
      BY <2>2 DEF Uncommitted
    <3>2. \A n \in Messages : Committed(n) => task'[n] = task[n] /\ run'[n] = run[n]
      BY DEF Uncommitted
    <3>3. ~ Disturbed(m)
      BY <2>2, <3>1, <3>2 DEF Disturbed, Committed, About, Uncommitted, Month
    <3>4. \/ /\ task[m].state = "running"
             /\ \A t \in Tenants : run[m].rows[t] = DaysOf(t, run[m].of)
          \/ /\ task[m].state = "committed"
             /\ run[m].of \in Months => \A t \in Tenants : monthly[t][run[m].of] = DaysOf(t, run[m].of)
      BY <3>1, <3>3 DEF MonthInv, RollUps, Begun
    <3> QED
      BY <1>1, <3>1, <3>4 DEF DaysOf
  <2> QED
    BY <2>1, <2>2
<1> QED
  BY <1>2, <1>3, <1>4 DEF MonthInv

LEMMA CallMonths ==
  ASSUME MonthInv,
         \/ UNCHANGED vars \/ NextDay
         \/ \E c \in Calls : Serve(c) \/ OpenTransaction(c) \/ CommitCall(c) \/ LoseCall(c)
  PROVE  MonthInv'
<1>1. UNCHANGED <<daily, monthly, task, run, before>>
  BY CallsElsewhere DEF vars, tableVars
<1>2. MonthsFilled'
  BY <1>1 DEF MonthInv, MonthsFilled, DaysOf
<1>3. RollUpRows'
  BY <1>1 DEF MonthInv, RollUpRows, DaysOf
<1>4. RollUps'
  BY <1>1 DEF MonthInv, RollUps, Begun, Disturbed, Committed, About, DaysOf
<1> QED
  BY <1>2, <1>3, <1>4 DEF MonthInv

LEMMA SendMonths ==
  ASSUME LedgerTypeOK, MessageInv, MonthInv, Sends
  PROVE  MonthInv'
<1>1. PICK s \in Messages, kind \in Kinds, date \in Days :
        /\ task[s].state = "unsent"
        /\ task'[s] = [kind |-> kind, date |-> date, state |-> "queued"]
        /\ \A m \in Messages \ {s} : task'[m] = task[m]
        /\ UNCHANGED <<today, callVars, tableVars, run, before, missed>>
  BY SendMoves
<1>2. Uncommitted(s)
  BY <1>1 DEF Uncommitted, Committed, tableVars
<1> QED
  BY <1>1, <1>2, MonthsKept

LEMMA BeginMonths ==
  ASSUME LedgerTypeOK, MonthInv, NEW m \in Messages, BeginDay(m) \/ BeginMonth(m)
  PROVE  MonthInv'
<1>1. Uncommitted(m)
  <2>1. \A p, n \in Messages : n # m /\ <<p, n>> \in before' => <<p, n>> \in before
    <3>1. PICK P : before' = before \cup {<<p, m>> : p \in P}
      BY BeginRun
    <3> QED
      BY <3>1
  <2>2. task[m].state = "queued" /\ task'[m].state = "running"
    BY BeginRun
  <2>3. UNCHANGED <<daily, monthly>>
    BY BeginRun DEF tableVars
  <2>4. \A n \in Messages \ {m} : task'[n] = task[n] /\ run'[n] = run[n]
    BY BeginRun
  <2> QED
    BY <2>1, <2>2, <2>3, <2>4 DEF Uncommitted, Committed
<1>2. ASSUME task'[m].kind = "rollup"
      PROVE  /\ run'[m].todo = {} /\ run'[m].summed = {}
             /\ \A t \in Tenants : run'[m].rows[t] = DaysOf(t, run[m].of)'
  <2>1. task[m].kind = "rollup"
    BY <1>2, BeginRun
  <2>2. PICK mo : mo = LastMonth
    OBVIOUS
  <2>3. /\ run'[m].of = mo /\ run'[m].todo = {} /\ run'[m].summed = {}
        /\ run'[m].rows = [t \in Tenants |-> DaysOf(t, mo)]
    BY <2>1, <2>2, BeginRun
  <2>4. daily' = daily
    BY <1>1 DEF Uncommitted
  <2> QED
    BY <2>3, <2>4 DEF DaysOf
<1> QED
  BY <1>1, <1>2, MonthsKept

\* Roll-ups have no statements between the one that reads and those that write.
LEMMA StatementMonths ==
  ASSUME LedgerTypeOK, MonthInv, NEW m \in Messages, Upsert(m) \/ \E t \in Tenants : Sum(m, t)
  PROVE  MonthInv'
<1>1. task[m].state = "running" /\ UNCHANGED <<daily, monthly, task, before>>
  BY DEF Sum, Upsert, Running, tableVars
<1>2. task[m].kind # "rollup"
  BY <1>1 DEF Sum, Upsert, MonthInv, RollUpRows
<1>3. run \in [Messages -> RunRows]
  BY DEF LedgerTypeOK
<1>4. \A n \in Messages \ {m} : run'[n] = run[n]
  BY <1>3 DEF Sum, Upsert
<1>5. Uncommitted(m)
  BY <1>1, <1>4 DEF Uncommitted, Committed
<1> QED
  BY <1>1, <1>2, <1>5, MonthsKept

LEMMA EndMonths ==
  ASSUME LedgerTypeOK, MonthInv, NEW m \in Messages,
         NoActivity(m) \/ Deadlock(m) \/ Fails(m) \/ WorkerLost(m)
  PROVE  MonthInv'
<1>1. Uncommitted(m)
  BY EndRun DEF Uncommitted, Committed, tableVars
<1> QED
  BY <1>1, EndRun, MonthsKept

\* A call of a month is one of one of its days.
LEMMA MonthMember ==
  ASSUME NEW D, NEW mo, NEW c
  PROVE  c \in UNION {D[d] : d \in {e \in Days : Month(e) = mo}}
           <=> \E d \in Days : Month(d) = mo /\ c \in D[d]
OBVIOUS

\* A day that is written again changes no other month, and empties none.
LEMMA DayWritten ==
  ASSUME LedgerTypeOK, MessageInv, DayInv, NEW m \in Messages, CommitDay(m)
  PROVE  \A t \in Tenants, mo \in Int :
           /\ Month(run[m].of) # mo => DaysOf(t, mo)' = DaysOf(t, mo)
           /\ DaysOf(t, mo) # {} => DaysOf(t, mo)' # {}
<1>1. /\ task[m].state = "running" /\ task[m].kind # "rollup"
      /\ daily' = [t \in Tenants |-> IF t \in run[m].written
                                     THEN [daily[t] EXCEPT ![run[m].of] = run[m].rows[t]]
                                     ELSE daily[t]]
  BY DEF CommitDay, Stored, Running
<1>2. PICK d \in Days : d = run[m].of
  BY <1>1, RunDay DEF Begun
<1>3. \A t \in Tenants : daily[t] \in [Days -> SUBSET Calls]
  BY DEF LedgerTypeOK
<1>4. \A t \in Tenants, e \in Days :
        daily'[t][e] = IF e = d /\ t \in run[m].written THEN run[m].rows[t] ELSE daily[t][e]
  BY <1>1, <1>2, <1>3
<1>5. \A t \in Tenants : t \in run[m].written => run[m].rows[t] # {}
  BY <1>1 DEF DayInv, DayRuns, SumsOf
<1> SUFFICES ASSUME NEW t \in Tenants, NEW mo \in Int
             PROVE  /\ Month(run[m].of) # mo => DaysOf(t, mo)' = DaysOf(t, mo)
                    /\ DaysOf(t, mo) # {} => DaysOf(t, mo)' # {}
  OBVIOUS
<1> DEFINE New == UNION {daily'[t][e] : e \in {f \in Days : Month(f) = mo}}
           Old == UNION {daily[t][e] : e \in {f \in Days : Month(f) = mo}}
<1>6. DaysOf(t, mo) = Old /\ DaysOf(t, mo)' = New
  BY DEF DaysOf, Month
<1>7. \A c : c \in New <=> \E e \in Days : Month(e) = mo /\ c \in daily'[t][e]
  BY MonthMember
<1>8. \A c : c \in Old <=> \E e \in Days : Month(e) = mo /\ c \in daily[t][e]
  BY MonthMember
<1> HIDE DEF New, Old
<1>9. ASSUME Month(d) # mo
      PROVE  New = Old
  <2>1. \A e \in Days : Month(e) = mo => daily'[t][e] = daily[t][e]
    BY <1>4, <1>9
  <2>2. \A c : c \in New <=> c \in Old
    BY <1>7, <1>8, <2>1
  <2> QED
    BY <2>2
<1>10. ASSUME Old # {}
       PROVE  New # {}
  <2>1. PICK e \in Days : Month(e) = mo /\ daily[t][e] # {}
    <3>1. PICK c : c \in Old
      BY <1>10
    <3> QED
      BY <1>8, <3>1
  <2>2. daily'[t][e] # {}
    BY <1>4, <1>5, <2>1
  <2> QED
    BY <1>7, <2>1, <2>2
<1> QED
  BY <1>2, <1>6, <1>9, <1>10

LEMMA CommitDayMonths ==
  ASSUME LedgerTypeOK, MessageInv, DayInv, MonthInv, NEW m \in Messages, CommitDay(m)
  PROVE  MonthInv'
<1>1. task[m].state = "running" /\ task[m].kind # "rollup" /\ monthly' = monthly
  BY DEF CommitDay, Running
<1>2. /\ task'[m].state = "committed" /\ task'[m].kind = task[m].kind
      /\ run'[m].of = run[m].of
      /\ \A n \in Messages \ {m} : task'[n] = task[n] /\ run'[n] = run[n]
      /\ before' = before
  BY CommitRun
<1>3. \A mo \in Months : mo \in Int
  BY MonthType DEF Months
<1>4. \A n \in Messages : run[n].of \in Int
  <2>1. \A n \in Messages : run[n] \in RunRows
    BY DEF LedgerTypeOK
  <2> QED
    BY <2>1 DEF RunRows
<1>5. MonthsFilled'
  <2>1. \A t \in Tenants, mo \in Months : monthly[t][mo] # {} => DaysOf(t, mo)' # {}
    BY <1>3, DayWritten DEF MonthInv, MonthsFilled
  <2> QED
    BY <1>1, <2>1 DEF MonthsFilled, Months, Month
<1>6. RollUpRows'
  <2> SUFFICES ASSUME NEW n \in Messages, task'[n].state = "running", task'[n].kind = "rollup"
               PROVE  /\ run'[n].todo = {} /\ run'[n].summed = {}
                      /\ \A t \in Tenants : run'[n].rows[t] # {} => DaysOf(t, run[n].of)' # {}
    BY DEF RollUpRows
  <2>1. task'[n] = task[n] /\ run'[n] = run[n]
    BY <1>2
  <2>2. PICK mo \in Int : mo = run[n].of
    BY <1>4
  <2>3. \A t \in Tenants : run[n].rows[t] # {} => DaysOf(t, mo)' # {}
    BY <2>1, <2>2, DayWritten DEF MonthInv, RollUpRows
  <2>4. run[n].todo = {} /\ run[n].summed = {}
    BY <2>1 DEF MonthInv, RollUpRows
  <2> QED
    BY <2>1, <2>2, <2>3, <2>4 DEF DaysOf
<1>7. RollUps'
  <2> SUFFICES ASSUME NEW n \in Messages, Begun(n)', task'[n].kind = "rollup", ~ Disturbed(n)'
               PROVE  \/ /\ task'[n].state = "running"
                         /\ \A t \in Tenants : run'[n].rows[t] = DaysOf(t, run[n].of)'
                      \/ /\ task'[n].state = "committed"
                         /\ run'[n].of \in Months =>
                              \A t \in Tenants : monthly'[t][run'[n].of] = DaysOf(t, run[n].of)'
    BY DEF RollUps, Months, Month
  <2>1. n # m /\ task'[n] = task[n] /\ run'[n] = run[n] /\ Begun(n)
    BY <1>1, <1>2 DEF Begun
  <2>2. PICK mo \in Int : mo = run[n].of
    BY <1>4
  <2>3. ~ Disturbed(n)
    BY <1>1, <1>2, <2>1 DEF Disturbed, Committed, About, Month
  <2>4. Month(run[m].of) # mo
    <3>1. <<m, n>> \notin before
      BY <1>1 DEF MessageInv, Past, Committed
    <3> QED
      BY <1>1, <1>2, <2>1, <2>2, <3>1 DEF Disturbed, Committed, About, Month
  <2>5. \A t \in Tenants : DaysOf(t, mo)' = DaysOf(t, mo)
    BY <2>4, DayWritten
  <2>6. \/ /\ task[n].state = "running"
           /\ \A t \in Tenants : run[n].rows[t] = DaysOf(t, mo)
        \/ /\ task[n].state = "committed"
           /\ mo \in Months => \A t \in Tenants : monthly[t][mo] = DaysOf(t, mo)
    BY <2>1, <2>2, <2>3 DEF MonthInv, RollUps
  <2>7. \/ /\ task'[n].state = "running"
           /\ \A t \in Tenants : run'[n].rows[t] = DaysOf(t, mo)'
        \/ /\ task'[n].state = "committed"
           /\ mo \in Months => \A t \in Tenants : monthly'[t][mo] = DaysOf(t, mo)'
    BY <1>1, <2>1, <2>5, <2>6
  <2> QED
    BY <2>1, <2>2, <2>7 DEF DaysOf
<1> QED
  BY <1>5, <1>6, <1>7 DEF MonthInv

LEMMA CommitMonthMonths ==
  ASSUME LedgerTypeOK, MessageInv, MonthInv, NEW m \in Messages, CommitMonth(m)
  PROVE  MonthInv'
<1>1. /\ task[m].state = "running" /\ task[m].kind = "rollup" /\ daily' = daily
      /\ monthly' = [t \in Tenants |-> IF run[m].rows[t] # {}
                                       THEN [monthly[t] EXCEPT ![run[m].of] = run[m].rows[t]]
                                       ELSE monthly[t]]
  BY DEF CommitMonth, Running
<1>2. /\ task'[m].state = "committed" /\ task'[m].kind = task[m].kind
      /\ run'[m].of = run[m].of
      /\ \A n \in Messages \ {m} : task'[n] = task[n] /\ run'[n] = run[n]
      /\ before' = before
  BY CommitRun
<1>3. \A t \in Tenants : monthly[t] \in [Months -> SUBSET Calls]
  BY DEF LedgerTypeOK
<1>4. \A t \in Tenants, mo \in Months :
        monthly'[t][mo] = IF mo = run[m].of /\ run[m].rows[t] # {} THEN run[m].rows[t] ELSE monthly[t][mo]
  BY <1>1, <1>3
<1>5. MonthsFilled'
  <2>1. \A t \in Tenants, mo \in Months : monthly'[t][mo] # {} => DaysOf(t, mo) # {}
    BY <1>1, <1>4 DEF MonthInv, MonthsFilled, RollUpRows
  <2> QED
    BY <1>1, <2>1 DEF MonthsFilled, Months, Month, DaysOf
<1>6. RollUpRows'
  BY <1>1, <1>2 DEF MonthInv, RollUpRows, DaysOf
<1>7. RollUps'
  <2> SUFFICES ASSUME NEW n \in Messages, Begun(n)', task'[n].kind = "rollup", ~ Disturbed(n)'
               PROVE  \/ /\ task'[n].state = "running"
                         /\ \A t \in Tenants : run'[n].rows[t] = DaysOf(t, run[n].of)'
                      \/ /\ task'[n].state = "committed"
                         /\ run'[n].of \in Months =>
                              \A t \in Tenants : monthly'[t][run'[n].of] = DaysOf(t, run[n].of)'
    BY DEF RollUps, Months, Month
  <2>1. PICK mo : mo = run[n].of
    OBVIOUS
  <2>2. run'[n].of = mo
    BY <1>2, <2>1
  <2>3. ~ Disturbed(n)
    BY <1>1, <1>2 DEF Disturbed, Committed, About, Month
  <2>4. CASE n = m
    <3>1. \A t \in Tenants : run[m].rows[t] = DaysOf(t, mo)
      BY <1>1, <2>1, <2>3, <2>4 DEF MonthInv, RollUps, Begun
    <3>2. ASSUME mo \in Months, NEW t \in Tenants
          PROVE  monthly'[t][mo] = DaysOf(t, mo)
      <4>1. CASE run[m].rows[t] # {}
        BY <1>4, <2>1, <2>4, <3>1, <3>2, <4>1
      <4>2. CASE run[m].rows[t] = {}
        <5>1. monthly'[t][mo] = monthly[t][mo]
          BY <1>4, <3>2, <4>2
        <5>2. DaysOf(t, mo) = {}
          BY <3>1, <4>2
        <5> QED
          BY <3>2, <5>1, <5>2 DEF MonthInv, MonthsFilled
      <4> QED
        BY <4>1, <4>2
    <3> QED
      BY <1>1, <1>2, <2>2, <2>4, <3>2 DEF DaysOf
  <2>5. CASE n # m
    <3>1. task'[n] = task[n] /\ run'[n] = run[n] /\ Begun(n)
      BY <1>2, <2>5 DEF Begun
    <3>2. mo # run[m].of
      <4>1. <<m, n>> \notin before
        BY <1>1 DEF MessageInv, Past, Committed
      <4> QED
        BY <1>1, <1>2, <2>2, <2>5, <4>1 DEF Disturbed, Committed, About
    <3>3. \/ /\ task[n].state = "running"
             /\ \A t \in Tenants : run[n].rows[t] = DaysOf(t, mo)
          \/ /\ task[n].state = "committed"
             /\ mo \in Months => \A t \in Tenants : monthly[t][mo] = DaysOf(t, mo)
      BY <2>1, <2>3, <3>1 DEF MonthInv, RollUps
    <3>4. mo \in Months => \A t \in Tenants : monthly'[t][mo] = monthly[t][mo]
      BY <1>4, <3>2
    <3> QED
      BY <1>1, <2>2, <3>1, <3>3, <3>4 DEF DaysOf
  <2> QED
    BY <2>4, <2>5
<1> QED
  BY <1>5, <1>6, <1>7 DEF MonthInv

LEMMA MonthsStep ==
  LedgerTypeOK /\ MessageInv /\ DayInv /\ MonthInv /\ [Next]_vars => MonthInv'
BY CallMonths, SendMonths, BeginMonths, StatementMonths, CommitDayMonths, CommitMonthMonths, EndMonths DEF Next

LEMMA MonthsHold == LedgerTypeOK /\ MessageInv /\ MonthInv => MonthMatchesDays
<1> SUFFICES ASSUME LedgerTypeOK, MessageInv, MonthInv, NEW m \in Messages,
                    LastOfMonth(m, Month(task[m].date) - 1),
                    Month(run[m].began) = Month(task[m].date), NEW t \in Tenants
             PROVE  monthly[t][Month(task[m].date) - 1] = DaysOf(t, Month(task[m].date) - 1)
  BY DEF MonthMatchesDays
<1>1. task[m].state = "committed" /\ task[m].kind = "rollup"
  BY DEF LastOfMonth, Committed
<1>2. run[m].of = Month(task[m].date) - 1
  BY <1>1 DEF MessageInv, Targets, Begun
<1>3. run[m].of \in Months
  <2>1. task[m] \in TaskRows
    BY DEF LedgerTypeOK
  <2>2. task[m].date \in Days
    BY <2>1 DEF TaskRows
  <2> QED
    BY <1>1, <1>2, <2>2, MonthBefore DEF MessageInv, Dated
<1>4. ~ Disturbed(m)
  BY <1>2 DEF LastOfMonth, Disturbed, About
<1> QED
  BY <1>1, <1>2, <1>3, <1>4 DEF MonthInv, RollUps, Begun

\* A roll-up that nothing overlaps or follows leaves the sum of the month's
\* days, whatever calls, retries and other days come in between.
THEOREM MonthsMatch == Spec => []MonthMatchesDays
BY InitTypes, InitMessages, InitDays, InitMonths, TypesStep, MessagesStep, DaysStep, MonthsStep,
   MonthsHold, PTL DEF Spec


----------------------------------------------------------------------------
(* Waiting *)

\* A step of one run that does not write a row, or writes one that is free,
\* leaves every row with one holder.
LEMMA HoldersKept ==
  ASSUME OneHolder, NEW m \in Messages,
         \A n \in Messages \ {m} :
           /\ n \in Running' => n \in Running
           /\ n \in Running' => run'[n] = run[n] /\ task'[n].kind = task[n].kind,
         m \in Running' =>
           \/ run'[m].written = {}
           \/ /\ m \in Running /\ run'[m].of = run[m].of /\ task'[m].kind = task[m].kind
              /\ \A n \in Running \ {m} :
                   run[n].of = run[m].of /\ task[n].kind # "rollup" /\ task[m].kind # "rollup"
                     => run[n].written \cap run'[m].written = {}
  PROVE  OneHolder'
<1> SUFFICES ASSUME NEW p \in Running', NEW n \in Running', p # n, run'[p].of = run'[n].of,
                    task'[p].kind # "rollup", task'[n].kind # "rollup"
             PROVE  run'[p].written \cap run'[n].written = {}
  BY DEF OneHolder
<1>1. p \in Messages /\ n \in Messages
  BY DEF Running
<1>2. CASE p # m /\ n # m
  BY <1>1, <1>2 DEF OneHolder
<1>3. CASE p = m
  BY <1>1, <1>3
<1>4. CASE n = m
  BY <1>1, <1>4
<1> QED
  BY <1>2, <1>3, <1>4

LEMMA UpsertHolders ==
  ASSUME LedgerTypeOK, OneHolder, NEW m \in Messages, Upsert(m)
  PROVE  OneHolder'
<1>1. run \in [Messages -> RunRows]
  BY DEF LedgerTypeOK
<1>2. run' = [run EXCEPT ![m] = [run[m] EXCEPT !.summed = {}, !.written = run[m].written \cup run[m].summed]]
  BY DEF Upsert
<1>3. /\ run'[m].of = run[m].of /\ run'[m].written = run[m].written \cup run[m].summed
      /\ \A n \in Messages \ {m} : run'[n] = run[n]
  BY <1>1, <1>2 DEF RunRows
<1>4. task' = task /\ m \in Running /\ Running' = Running
  BY DEF Upsert, Running
<1>5. ASSUME NEW n \in Running \ {m}, run[n].of = run[m].of,
             task[n].kind # "rollup", task[m].kind # "rollup"
      PROVE  run[n].written \cap run'[m].written = {}
  <2>1. run[n].written \cap run[m].written = {}
    BY <1>4, <1>5 DEF OneHolder
  <2>2. ~Holds(n, m)
    BY <1>5 DEF Upsert, Running
  <2>3. run[m].summed \cap run[n].written = {}
    BY <1>4, <1>5, <2>2 DEF Holds
  <2> QED
    BY <1>3, <2>1, <2>3
<1> QED
  BY <1>3, <1>4, <1>5, HoldersKept

LEMMA HoldersStep == LedgerTypeOK /\ MessageInv /\ OneHolder /\ [Next]_vars => OneHolder'
<1> SUFFICES ASSUME LedgerTypeOK, MessageInv, OneHolder, [Next]_vars
             PROVE  OneHolder'
  OBVIOUS
<1>1. CASE \/ UNCHANGED vars \/ NextDay
           \/ \E c \in Calls : Serve(c) \/ OpenTransaction(c) \/ CommitCall(c) \/ LoseCall(c)
  <2>1. UNCHANGED <<task, run>>
    BY <1>1, CallsElsewhere DEF vars
  <2> QED
    BY <2>1 DEF OneHolder, Running
<1>2. CASE Sends
  <2>1. PICK s \in Messages, kind \in Kinds, date \in Days :
          /\ task'[s] = [kind |-> kind, date |-> date, state |-> "queued"]
          /\ \A m \in Messages \ {s} : task'[m] = task[m]
          /\ run' = run
    BY <1>2, SendMoves
  <2>2. s \notin Running'
    BY <2>1 DEF Running
  <2>3. \A n \in Messages \ {s} : n \in Running' => n \in Running
    BY <2>1 DEF Running
  <2> QED
    BY <2>1, <2>2, <2>3, HoldersKept
<1>3. ASSUME NEW m \in Messages, BeginDay(m) \/ BeginMonth(m)
      PROVE  OneHolder'
  <2>1. \A n \in Messages \ {m} : task'[n] = task[n] /\ run'[n] = run[n]
    BY <1>3, BeginRun
  <2>2. \A n \in Messages \ {m} : n \in Running' => n \in Running
    BY <2>1 DEF Running
  <2>3. run'[m].written = {}
    BY <1>3, BeginRun
  <2> QED
    BY <2>1, <2>2, <2>3, HoldersKept
<1>4. ASSUME NEW m \in Messages, NEW t \in Tenants, Sum(m, t)
      PROVE  OneHolder'
  <2>1. run \in [Messages -> RunRows]
    BY DEF LedgerTypeOK
  <2>2. run' = [run EXCEPT ![m] = [run[m] EXCEPT !.todo = run[m].todo \ {t}, !.summed = {t},
                                     !.rows = [run[m].rows EXCEPT ![t] = LogOf(t, run[m].of)]]]
    BY <1>4 DEF Sum
  <2>3. /\ run'[m].of = run[m].of /\ run'[m].written = run[m].written
        /\ \A n \in Messages \ {m} : run'[n] = run[n]
    BY <2>1, <2>2 DEF RunRows
  <2>4. task' = task
    BY <1>4 DEF Sum
  <2> QED
    BY <2>3, <2>4 DEF OneHolder, Running
<1>5. ASSUME NEW m \in Messages, CommitDay(m) \/ CommitMonth(m)
      PROVE  OneHolder'
  BY <1>5, CommitRun, HoldersKept DEF Running
<1>6. ASSUME NEW m \in Messages, NoActivity(m) \/ Deadlock(m) \/ Fails(m) \/ WorkerLost(m)
      PROVE  OneHolder'
  BY <1>6, EndRun, HoldersKept DEF Running
<1> QED
  BY <1>1, <1>2, <1>3, <1>4, <1>5, <1>6, UpsertHolders DEF Next

\* However many runs there are and in whatever order they take the tenants, no
\* two of them have both written the row of a day and a tenant: whoever waits,
\* waits for one run (ON CONFLICT DO UPDATE in _aggregate_date).
THEOREM RowsHeldOnce == Spec => []OneHolder
<1>1. Init => OneHolder
  BY DEF Init, OneHolder, Running, Unsent
<1> QED
  BY <1>1, InitTypes, InitMessages, TypesStep, MessagesStep, HoldersStep, PTL DEF Spec

\* A run has one tenant's sums in hand.
OneSummed == \A m \in Messages : \A t, u \in run[m].summed : t = u

LEMMA SummedStep == LedgerTypeOK /\ MessageInv /\ OneSummed /\ [Next]_vars => OneSummed'
<1> SUFFICES ASSUME LedgerTypeOK, MessageInv, OneSummed, [Next]_vars
             PROVE  OneSummed'
  OBVIOUS
<1>1. run \in [Messages -> RunRows]
  BY DEF LedgerTypeOK
<1>2. CASE \/ UNCHANGED vars \/ NextDay
           \/ \E c \in Calls : Serve(c) \/ OpenTransaction(c) \/ CommitCall(c) \/ LoseCall(c)
  BY <1>2, CallsElsewhere DEF vars, OneSummed
<1>3. CASE Sends
  <2>1. run' = run
    BY <1>3, SendMoves
  <2> QED
    BY <2>1 DEF OneSummed
<1>4. ASSUME NEW m \in Messages, BeginDay(m) \/ BeginMonth(m)
      PROVE  OneSummed'
  <2>1. run'[m].summed = {} /\ \A n \in Messages \ {m} : run'[n] = run[n]
    BY <1>4, BeginRun
  <2> QED
    BY <2>1 DEF OneSummed
<1>5. ASSUME NEW m \in Messages, NEW t \in Tenants, Sum(m, t)
      PROVE  OneSummed'
  <2>1. run' = [run EXCEPT ![m] = [run[m] EXCEPT !.todo = run[m].todo \ {t}, !.summed = {t},
                                     !.rows = [run[m].rows EXCEPT ![t] = LogOf(t, run[m].of)]]]
    BY <1>5 DEF Sum
  <2>2. run'[m].summed = {t} /\ \A n \in Messages \ {m} : run'[n] = run[n]
    BY <1>1, <2>1 DEF RunRows
  <2> QED
    BY <2>2 DEF OneSummed
<1>6. ASSUME NEW m \in Messages, Upsert(m)
      PROVE  OneSummed'
  <2>1. run' = [run EXCEPT ![m] = [run[m] EXCEPT !.summed = {}, !.written = run[m].written \cup run[m].summed]]
    BY <1>6 DEF Upsert
  <2>2. run'[m].summed = {} /\ \A n \in Messages \ {m} : run'[n] = run[n]
    BY <1>1, <2>1 DEF RunRows
  <2> QED
    BY <2>2 DEF OneSummed
<1>7. ASSUME NEW m \in Messages, CommitDay(m) \/ CommitMonth(m)
      PROVE  OneSummed'
  <2>1. run'[m].summed = {} /\ \A n \in Messages \ {m} : run'[n] = run[n]
    BY <1>1, <1>7 DEF CommitDay, CommitMonth, Commit, Idle
  <2> QED
    BY <2>1 DEF OneSummed
<1>8. ASSUME NEW m \in Messages, NoActivity(m) \/ Deadlock(m) \/ Fails(m) \/ WorkerLost(m)
      PROVE  OneSummed'
  <2>1. PICK s \in {"failed", "queued"} : End(m, s)
    BY <1>8, EndsHow
  <2>2. run'[m].summed = {} /\ \A n \in Messages \ {m} : run'[n] = run[n]
    BY <1>1, <2>1 DEF End, Idle
  <2> QED
    BY <2>2 DEF OneSummed
<1> QED
  BY <1>2, <1>3, <1>4, <1>5, <1>6, <1>7, <1>8 DEF Next

\* Nobody waits for two.
LEMMA WaitsForOne ==
  ASSUME OneHolder, OneSummed, NEW m \in Messages, NEW n \in Messages, NEW p \in Messages,
         Holds(n, m), Holds(p, m)
  PROVE  n = p
<1>1. PICK t \in run[m].summed : t \in run[n].written
  BY DEF Holds
<1>2. PICK u \in run[m].summed : u \in run[p].written
  BY DEF Holds
<1>3. t \in run[n].written \cap run[p].written
  BY <1>1, <1>2 DEF OneSummed
<1>4. {n, p} \subseteq Running /\ run[n].of = run[p].of /\ task[n].kind # "rollup" /\ task[p].kind # "rollup"
  BY DEF Holds
<1> QED
  BY <1>3, <1>4 DEF OneHolder

\* Where everybody of a set waits for somebody of it, a part of it waits in a
\* circle: a part as small as it can be in which everybody does.
LEMMA WaitingEndsInCircle ==
  ASSUME OneHolder, OneSummed,
         NEW S \in SUBSET Messages, S # {}, \A m \in S : \E n \in S : Holds(n, m)
  PROVE  \E T \in SUBSET S : T # {} /\ Circular(T)
<1> DEFINE Waits(T) == T # {} /\ \A m \in T : \E n \in T : Holds(n, m)
           Parts == {T \in SUBSET S : Waits(T)}
<1>1. IsFiniteSet(Messages)
  BY FS_Interval, LedgerAssumption
<1>2. IsFiniteSet(S)
  BY <1>1, FS_Subset
<1>3. IsWellFoundedOn(StrictSubsetOrdering(S), SUBSET S)
  BY <1>2, FS_StrictSubsetOrderingWellFounded, FS_FiniteSubsetsOfFinite
<1>4. S \in Parts
  OBVIOUS
<1>5. PICK T \in Parts : \A U \in Parts : <<U, T>> \notin StrictSubsetOrdering(S)
  BY <1>3, <1>4, WFMin
<1> DEFINE U == {n \in T : \E m \in T : Holds(n, m)}
<1>6. U \subseteq T /\ U \in SUBSET S
  OBVIOUS
<1>7. Waits(U)
  <2>1. U # {}
    OBVIOUS
  <2>2. ASSUME NEW m \in U PROVE \E n \in U : Holds(n, m)
    BY <2>2
  <2> QED
    BY <2>1, <2>2
<1>8. U = T
  BY <1>5, <1>6, <1>7 DEF StrictSubsetOrdering
<1>9. ASSUME NEW m \in T, NEW n \in Messages, Holds(n, m)
      PROVE  n \in T
  <2>1. PICK p \in T : Holds(p, m)
    OBVIOUS
  <2>2. m \in Messages /\ p \in Messages
    OBVIOUS
  <2> QED
    BY <1>9, <2>1, <2>2, WaitsForOne
<1>10. Circular(T)
  <2>1. \A m \in T : \E n \in T : Holds(n, m)
    OBVIOUS
  <2>2. \A m \in T : \E n \in T : Holds(m, n)
    BY <1>8
  <2> HIDE DEF Messages
  <2> QED
    BY <1>9, <2>1, <2>2 DEF Circular
<1> QED
  BY <1>10

LEMMA SomebodyGoes == OneHolder /\ OneSummed => NobodyStuck
<1> SUFFICES ASSUME OneHolder, OneSummed, NEW S \in SUBSET Running, S # {},
                    \A m \in S, n \in Messages : Holds(n, m) => n \in S,
                    \A m \in S : ~CanGo(m)
             PROVE  FALSE
  BY DEF NobodyStuck
<1>1. S \in SUBSET Messages
  BY DEF Running
<1>2. \A m \in S : \E n \in S : Holds(n, m)
  BY DEF CanGo
<1>3. PICK T \in SUBSET S : T # {} /\ Circular(T)
  BY <1>1, <1>2, WaitingEndsInCircle
<1>4. PICK m \in T : TRUE
  BY <1>3
<1> QED
  BY <1>1, <1>3, <1>4 DEF CanGo

\* Among the runs of any number of processes that wait for each other, one can
\* make its next statement, or they wait in a circle, which nobody but the
\* database ends and which it sees (the safety under the liveness of the tasks).
THEOREM NobodyWaitsForever == Spec => []NobodyStuck
<1>1. Init => OneSummed
  BY DEF Init, OneSummed, Idle
<1> QED
  BY <1>1, RowsHeldOnce, InitTypes, InitMessages, TypesStep, MessagesStep, SummedStep, SomebodyGoes,
     PTL DEF Spec
=============================================================================
