------------------------ MODULE PortfolioServiceProofs -------------------------
(***************************************************************************)
(* Theorems about the portfolio tables, for any number of requests: a      *)
(* portfolio is that of one save, nothing refers to one that is gone, and  *)
(* no lock outlives its transaction.                                       *)
(***************************************************************************)
EXTENDS PortfolioService, TLAPS

-----------------------------------------------------------------------------
(* The inductive invariant. *)

InTransaction(r) == call[r].step \in {"replace", "commit"}

\* Each row lock belongs to the one request inside its transaction on that row.
LockInv ==
  \A id, r \in Requests : lock[id] = r <=> InTransaction(r) /\ call[r].id = id

\* A request past its reads knows what it writes and where.
WriterInv ==
  \A r \in Requests :
    /\ call[r].step \in {"header", "rows"} => call[r].kind \in {"update", "analyze"}
    /\ call[r].step \in {"header", "rows", "upsert", "replace", "commit"} =>
         call[r].id \in Requests
    /\ call[r].step \in {"upsert", "replace", "commit"} =>
         /\ call[r].kind \in {"create", "update"}
         /\ call[r].benchmark \in Benchmarks
    /\ call[r].step \in {"upsert", "replace", "commit"} \/ call[r].kind = "update" =>
         call[r].holdings \in HoldingSets
    /\ call[r].step = "rows" => call[r].benchmark \in Benchmarks
    /\ call[r].step \in {"engine", "report"} =>
         call[r].benchmark \in Benchmarks /\ call[r].holdings \in HoldingSets

\* The writer of each portfolio as it stands is over: nothing changes what it wrote.
WholeInv ==
  \A id \in DOMAIN header :
    \E w \in Requests :
      /\ call[w].step \in Closed
      /\ call[w].kind \in {"create", "update"} /\ call[w].id = id
      /\ call[w].benchmark = header[id] /\ call[w].holdings = positions[id]

IInv == TypeOK /\ LockInv /\ WriterInv /\ NoOrphans /\ WholeInv

-----------------------------------------------------------------------------
(* Lemmas about the progress of a request. *)

Steps == {"new"} \cup Open \cup Closed

\* A step of one request changes its own call record and no other.
LEMMA CallChanges ==
  ASSUME TypeOK, NEW r \in Requests, NEW c \in Calls, call' = [call EXCEPT ![r] = c]
  PROVE  /\ call' \in [Requests -> Calls]
         /\ call'[r] = c
         /\ \A q \in Requests \ {r} : call'[q] = call[q]
BY DEF TypeOK

\* A request that goes on changes nothing of its record but the step.
LEMMA GoesOn ==
  ASSUME TypeOK, NEW r \in Requests, NEW to \in Steps,
         call' = [call EXCEPT ![r].step = to]
  PROVE  /\ call' \in [Requests -> Calls]
         /\ call'[r].step = to
         /\ call'[r].kind = call[r].kind /\ call'[r].id = call[r].id
         /\ call'[r].benchmark = call[r].benchmark
         /\ call'[r].holdings = call[r].holdings
         /\ call'[r].named = call[r].named
         /\ \A q \in Requests \ {r} : call'[q] = call[q]
<1>1. call[r] \in Calls
  BY DEF TypeOK
<1>2. [call[r] EXCEPT !.step = to] \in Calls
  BY <1>1 DEF Calls, Steps
<1>3. call' = [call EXCEPT ![r] = [call[r] EXCEPT !.step = to]]
  OBVIOUS
<1>4. call'[r] = [call[r] EXCEPT !.step = to]
  BY <1>2, <1>3, CallChanges
<1>5. /\ call'[r].step = to
      /\ call'[r].kind = call[r].kind /\ call'[r].id = call[r].id
      /\ call'[r].benchmark = call[r].benchmark
      /\ call'[r].holdings = call[r].holdings /\ call'[r].named = call[r].named
  BY <1>1, <1>4 DEF Calls
<1>. QED
  BY <1>2, <1>3, <1>5, CallChanges

\* What a portfolio was saved as stays on record while requests that are over
\* keep theirs and the portfolio is not touched.
LEMMA WholeKept ==
  ASSUME WholeInv, NEW ids, DOMAIN header' = ids, ids \subseteq DOMAIN header,
         \A id \in ids : header'[id] = header[id] /\ positions'[id] = positions[id],
         \A w \in Requests : call[w].step \in Closed =>
           /\ call'[w].step = call[w].step /\ call'[w].kind = call[w].kind
           /\ call'[w].id = call[w].id /\ call'[w].benchmark = call[w].benchmark
           /\ call'[w].holdings = call[w].holdings
  PROVE  WholeInv'
BY DEF WholeInv

-----------------------------------------------------------------------------
(* The invariant is inductive. *)

\* The empty database satisfies the invariant.
LEMMA InitIInv == Init => IInv
<1>. SUFFICES ASSUME Init PROVE IInv
  OBVIOUS
<1>. USE PortfolioAssumption
<1>1. TypeOK
  BY DEF Init, TypeOK, Calls, Kinds
<1>2. LockInv /\ WriterInv
  BY DEF Init, LockInv, WriterInv, InTransaction
<1>3. NoOrphans /\ WholeInv
  BY DEF Init, NoOrphans, WholeInv
<1>. QED
  BY <1>1, <1>2, <1>3 DEF IInv

\* A request starts: it has touched no table and holds no lock.
LEMMA StartKeeps ==
  ASSUME IInv, NEW r \in Requests,
         NEW kind \in {"create", "update", "analyze"}, NEW step \in {"header", "upsert", "engine"},
         NEW id \in Requests \cup {Nothing}, NEW benchmark \in Benchmarks \cup {Unset},
         NEW holdings \in HoldingSets \cup {Nothing},
         step = "header" => kind # "create" /\ id \in Requests,
         step = "upsert" => kind = "create" /\ id \in Requests,
         step \in {"upsert", "engine"} => benchmark \in Benchmarks,
         step \in {"upsert", "engine"} \/ kind = "update" => holdings \in HoldingSets,
         Starts(r, kind, step, id, benchmark, holdings)
  PROVE  IInv'
<1>. DEFINE c == [kind |-> kind, step |-> step, id |-> id, benchmark |-> benchmark,
                  named |-> benchmark # Unset, holdings |-> holdings]
<1>1. /\ TypeOK /\ c \in Calls /\ call' = [call EXCEPT ![r] = c]
      /\ call[r].step = "new" /\ UNCHANGED <<tables, lock, restarts>>
  BY DEF IInv, Starts, Calls, Kinds, Open
<1>2. /\ call' \in [Requests -> Calls] /\ call'[r] = c
      /\ \A q \in Requests \ {r} : call'[q] = call[q]
  BY <1>1, CallChanges
<1>3. TypeOK'
  BY <1>1, <1>2 DEF TypeOK, tables
<1>4. LockInv'
  BY <1>1, <1>2 DEF IInv, LockInv, InTransaction
<1>5. WriterInv'
  BY <1>1, <1>2 DEF IInv, WriterInv
<1>6. NoOrphans'
  BY <1>1 DEF IInv, NoOrphans, tables
<1>7. WholeInv'
  BY <1>1, <1>2, WholeKept DEF IInv, tables, Closed
<1>. QED
  BY <1>3, <1>4, <1>5, <1>6, <1>7 DEF IInv

\* A step that only moves a request on, between steps that hold the same locks and
\* promise the same of its record, keeps the invariant.
LEMMA MoveKeeps ==
  ASSUME IInv, NEW r \in Requests, NEW to \in Steps,
         call' = [call EXCEPT ![r].step = to],
         call[r].step \notin Closed,
         UNCHANGED <<lock, restarts, header, positions>>,
         TypeOK /\ call' \in [Requests -> Calls] => TypeOK',
         NoOrphans',
         to \in {"replace", "commit"} <=> InTransaction(r),
         to \notin {"header", "rows", "upsert", "engine"},
         to = "report" => call[r].step = "engine"
  PROVE  IInv'
<1>1. /\ call' \in [Requests -> Calls] /\ call'[r].step = to
      /\ call'[r].kind = call[r].kind /\ call'[r].id = call[r].id
      /\ call'[r].benchmark = call[r].benchmark
      /\ call'[r].holdings = call[r].holdings
      /\ \A q \in Requests \ {r} : call'[q] = call[q]
  BY GoesOn DEF IInv
<1>2. LockInv'
  BY <1>1 DEF IInv, LockInv, InTransaction
<1>3. WriterInv'
  BY <1>1 DEF IInv, WriterInv, InTransaction
<1>4. WholeInv'
  BY <1>1, WholeKept DEF IInv
<1>. QED
  BY <1>1, <1>2, <1>3, <1>4 DEF IInv

\* The reads of a portfolio.
LEMMA ReadKeeps ==
  ASSUME IInv, NEW r \in Requests, ReadHeader(r) \/ ReadRows(r)
  PROVE  IInv'
<1>. USE PortfolioAssumption
<1>. DEFINE c == call'[r]
<1>1. /\ TypeOK /\ call[r] \in Calls /\ call[r].step \in {"header", "rows"}
      /\ UNCHANGED <<tables, lock, restarts>>
  BY DEF IInv, TypeOK, ReadHeader, ReadRows
<1>2. /\ c \in Calls /\ call' = [call EXCEPT ![r] = c]
      /\ c.step \in {"rows", "upsert", "engine", "error"}
      /\ c.kind = call[r].kind /\ c.id = call[r].id
      /\ c.kind = "update" => c.holdings = call[r].holdings
      /\ c.step = "upsert" => c.kind = "update" /\ c.benchmark \in Benchmarks
      /\ c.step = "rows" => c.benchmark \in Benchmarks
      /\ c.step = "engine" => c.benchmark \in Benchmarks /\ c.holdings \in HoldingSets
  <2>1. CASE ReadHeader(r)
    <3>1. CASE call[r].id \in DOMAIN header
      <4>1. header[call[r].id] \in Benchmarks
        BY <1>1, <3>1 DEF TypeOK
      <4>2. OrDefault(call[r].benchmark, header[call[r].id]) \in Benchmarks
        BY <1>1, <4>1 DEF OrDefault, Calls
      <4>3. c = [call[r] EXCEPT !.step = "rows",
                   !.benchmark = OrDefault(call[r].benchmark, header[call[r].id])]
        BY <1>1, <2>1, <3>1 DEF ReadHeader, TypeOK
      <4>4. call' = [call EXCEPT ![r] = c]
        BY <1>1, <2>1, <3>1, <4>3 DEF ReadHeader, TypeOK
      <4>5. [call[r] EXCEPT !.step = "rows",
               !.benchmark = OrDefault(call[r].benchmark, header[call[r].id])] \in Calls
        BY <1>1, <4>2 DEF Calls, Open
      <4>6. /\ c.step = "rows" /\ c.kind = call[r].kind /\ c.id = call[r].id
            /\ c.holdings = call[r].holdings /\ c.benchmark \in Benchmarks
        BY <1>1, <4>2, <4>3 DEF Calls
      <4>7. c \in Calls
        BY <4>3, <4>5
      <4>. HIDE DEF c
      <4>. QED
        BY <4>4, <4>6, <4>7
    <3>2. CASE call[r].id \notin DOMAIN header
      <4>1. c = [call[r] EXCEPT !.step = "error"]
        BY <1>1, <2>1, <3>2 DEF ReadHeader, TypeOK
      <4>. QED
        BY <1>1, <2>1, <3>2, <4>1 DEF ReadHeader, Calls, Closed, TypeOK
    <3>. QED
      BY <3>1, <3>2
  <2>2. CASE ReadRows(r)
    <3>1. /\ call[r].step = "rows" /\ call[r].id \in Requests
          /\ call[r].kind \in {"update", "analyze"} /\ call[r].benchmark \in Benchmarks
          /\ positions[call[r].id] \in HoldingSets \cup {Nothing}
      BY <1>1, <2>2 DEF ReadRows, IInv, WriterInv, TypeOK
    <3>2. CASE call[r].kind = "update"
      <4>1. c = [call[r] EXCEPT !.step = "upsert"]
        BY <1>1, <2>2, <3>2 DEF ReadRows, TypeOK
      <4>. QED
        BY <1>1, <2>2, <3>1, <3>2, <4>1 DEF ReadRows, Calls, Open, TypeOK
    <3>3. CASE call[r].kind # "update" /\ positions[call[r].id] = Nothing
      <4>1. c = [call[r] EXCEPT !.step = "error"]
        BY <1>1, <2>2, <3>3 DEF ReadRows, TypeOK
      <4>. QED
        BY <1>1, <2>2, <3>1, <3>3, <4>1 DEF ReadRows, Calls, Closed, TypeOK
    <3>4. CASE call[r].kind # "update" /\ positions[call[r].id] # Nothing
      <4>1. c = [call[r] EXCEPT !.step = "engine", !.holdings = positions[call[r].id]]
        BY <1>1, <2>2, <3>4 DEF ReadRows, TypeOK
      <4>. QED
        BY <1>1, <2>2, <3>1, <3>4, <4>1 DEF ReadRows, Calls, Open, TypeOK
    <3>. QED
      BY <3>2, <3>3, <3>4
  <2>. QED
    BY <2>1, <2>2
<1>. HIDE DEF c
<1>3. /\ call' \in [Requests -> Calls] /\ call'[r] = c
      /\ \A q \in Requests \ {r} : call'[q] = call[q]
  BY <1>1, <1>2, CallChanges
<1>4. TypeOK'
  BY <1>1, <1>3 DEF TypeOK, tables
<1>5. LockInv'
  BY <1>1, <1>2, <1>3 DEF IInv, LockInv, InTransaction
<1>6. WriterInv'
  BY <1>1, <1>2, <1>3 DEF IInv, WriterInv
<1>7. NoOrphans' /\ WholeInv'
  BY <1>1, <1>3, WholeKept DEF IInv, NoOrphans, tables, Closed
<1>. QED
  BY <1>4, <1>5, <1>6, <1>7 DEF IInv

\* A transaction begins: it takes the lock of a row that is free.
LEMMA UpsertKeeps ==
  ASSUME IInv, NEW r \in Requests, Upsert(r)
  PROVE  IInv'
<1>. DEFINE id == call[r].id
<1>1. /\ TypeOK /\ call[r].step = "upsert" /\ id \in Requests /\ lock[id] = Nothing
      /\ call' = [call EXCEPT ![r].step = "replace"]
      /\ lock' = [lock EXCEPT ![id] = r] /\ lock \in [Requests -> Requests \cup {Nothing}]
      /\ UNCHANGED <<tables, restarts>>
  BY DEF IInv, TypeOK, WriterInv, Upsert, Goes
<1>2. /\ call' \in [Requests -> Calls] /\ call'[r].step = "replace"
      /\ call'[r].kind = call[r].kind /\ call'[r].id = call[r].id
      /\ call'[r].benchmark = call[r].benchmark
      /\ call'[r].holdings = call[r].holdings
      /\ \A q \in Requests \ {r} : call'[q] = call[q]
  BY <1>1, GoesOn DEF Steps, Open
<1>3. /\ lock' \in [Requests -> Requests \cup {Nothing}] /\ lock'[id] = r
      /\ \A x \in Requests \ {id} : lock'[x] = lock[x]
  BY <1>1
<1>4. TypeOK'
  BY <1>1, <1>2, <1>3 DEF TypeOK, tables
<1>5. LockInv'
  <2>. SUFFICES ASSUME NEW x \in Requests, NEW q \in Requests
                PROVE  lock'[x] = q <=> InTransaction(q)' /\ call'[q].id = x
    BY DEF LockInv
  <2>1. CASE q = r
    BY <1>1, <1>2, <1>3, <2>1 DEF IInv, LockInv, InTransaction
  <2>2. CASE q # r
    BY <1>1, <1>2, <1>3, <2>2, PortfolioAssumption DEF IInv, LockInv, InTransaction
  <2>. QED
    BY <2>1, <2>2
<1>6. WriterInv'
  BY <1>1, <1>2 DEF IInv, WriterInv
<1>7. NoOrphans' /\ WholeInv'
  BY <1>1, <1>2, WholeKept DEF IInv, NoOrphans, tables, Closed
<1>. QED
  BY <1>4, <1>5, <1>6, <1>7 DEF IInv

\* A transaction ends, with or without effect: it gives up the one lock it holds.
LEMMA UnlockKeeps ==
  ASSUME IInv, NEW r \in Requests, InTransaction(r), NEW to \in Closed,
         call' = [call EXCEPT ![r].step = to], Unlocked(r)
  PROVE  /\ LockInv' /\ WriterInv'
         /\ call' \in [Requests -> Calls]
         /\ lock' \in [Requests -> Requests \cup {Nothing}]
<1>. DEFINE id == call[r].id
<1>1. /\ TypeOK /\ id \in Requests /\ lock[id] = r
      /\ lock' = [lock EXCEPT ![id] = Nothing]
      /\ lock \in [Requests -> Requests \cup {Nothing}]
  BY DEF IInv, TypeOK, WriterInv, LockInv, InTransaction, Unlocked
<1>2. /\ call' \in [Requests -> Calls] /\ call'[r].step = to
      /\ call'[r].kind = call[r].kind /\ call'[r].id = call[r].id
      /\ call'[r].benchmark = call[r].benchmark
      /\ call'[r].holdings = call[r].holdings
      /\ \A q \in Requests \ {r} : call'[q] = call[q]
  BY <1>1, GoesOn DEF Steps
<1>3. /\ lock' \in [Requests -> Requests \cup {Nothing}] /\ lock'[id] = Nothing
      /\ \A x \in Requests \ {id} : lock'[x] = lock[x]
  BY <1>1
<1>4. LockInv'
  <2>. SUFFICES ASSUME NEW x \in Requests, NEW q \in Requests
                PROVE  lock'[x] = q <=> InTransaction(q)' /\ call'[q].id = x
    BY DEF LockInv
  <2>1. CASE q = r
    BY <1>1, <1>2, <1>3, <2>1, PortfolioAssumption
       DEF IInv, LockInv, InTransaction, Closed
  <2>2. CASE q # r
    BY <1>1, <1>2, <1>3, <2>2, PortfolioAssumption DEF IInv, LockInv, InTransaction
  <2>. QED
    BY <2>1, <2>2
<1>5. WriterInv'
  BY <1>2 DEF IInv, WriterInv, InTransaction, Closed
<1>. QED
  BY <1>2, <1>3, <1>4, <1>5

\* A transaction is rolled back: the tables are as before it.
LEMMA RollbackKeeps ==
  ASSUME IInv, NEW r \in Requests, Rollback(r)
  PROVE  IInv'
<1>1. /\ TypeOK /\ InTransaction(r) /\ call' = [call EXCEPT ![r].step = "error"]
      /\ Unlocked(r) /\ UNCHANGED <<tables, restarts>>
  BY DEF IInv, Rollback, InTransaction
<1>2. /\ LockInv' /\ WriterInv' /\ call' \in [Requests -> Calls]
      /\ lock' \in [Requests -> Requests \cup {Nothing}]
  BY <1>1, UnlockKeeps DEF Closed
<1>3. TypeOK'
  BY <1>1, <1>2 DEF TypeOK, tables
<1>4. \A q \in Requests \ {r} : call'[q] = call[q]
  BY <1>1, GoesOn DEF Steps, Closed
<1>5. NoOrphans' /\ WholeInv'
  BY <1>1, <1>4, WholeKept DEF IInv, NoOrphans, tables, InTransaction, Closed
<1>. QED
  BY <1>2, <1>3, <1>5 DEF IInv

\* A transaction commits, heard or not: its request, which is over, is the writer
\* of the portfolio's header and of its positions.
LEMMA CommitKeeps ==
  ASSUME IInv, NEW r \in Requests, Commit(r) \/ CommitUnheard(r)
  PROVE  IInv'
<1>. DEFINE id == call[r].id
<1>1. PICK to \in {"saved", "error"} : Goes(r, "commit", to)
  BY DEF Commit, CommitUnheard
<1>2. /\ TypeOK /\ InTransaction(r) /\ call' = [call EXCEPT ![r].step = to]
      /\ Written(r) /\ Unlocked(r) /\ UNCHANGED <<reports, restarts>>
  BY <1>1 DEF IInv, Commit, CommitUnheard, Goes, InTransaction
<1>3. /\ id \in Requests /\ call[r].kind \in {"create", "update"}
      /\ call[r].benchmark \in Benchmarks /\ call[r].holdings \in HoldingSets
  BY <1>2 DEF IInv, WriterInv, InTransaction
<1>4. /\ LockInv' /\ WriterInv' /\ call' \in [Requests -> Calls]
      /\ lock' \in [Requests -> Requests \cup {Nothing}]
  BY <1>2, UnlockKeeps DEF Closed
<1>5. /\ call'[r].step = to
      /\ call'[r].kind = call[r].kind /\ call'[r].id = call[r].id
      /\ call'[r].benchmark = call[r].benchmark
      /\ call'[r].holdings = call[r].holdings
      /\ \A q \in Requests \ {r} : call'[q] = call[q]
  BY <1>2, GoesOn DEF Steps, Closed
<1>6. /\ DOMAIN header' = DOMAIN header \cup {id} /\ header'[id] = call[r].benchmark
      /\ \A x \in DOMAIN header \ {id} : header'[x] = header[x]
  BY <1>2 DEF Written
<1>7. /\ positions' \in [Requests -> HoldingSets \cup {Nothing}]
      /\ positions'[id] = call[r].holdings
      /\ \A x \in Requests \ {id} : positions'[x] = positions[x]
  BY <1>2, <1>3 DEF Written, TypeOK
<1>8. TypeOK'
  BY <1>2, <1>3, <1>4, <1>6, <1>7 DEF TypeOK
<1>9. NoOrphans'
  BY <1>2, <1>6, <1>7 DEF IInv, NoOrphans
<1>10. WholeInv'
  <2>. SUFFICES ASSUME NEW x \in DOMAIN header'
                PROVE  \E w \in Requests :
                         /\ call'[w].step \in Closed
                         /\ call'[w].kind \in {"create", "update"} /\ call'[w].id = x
                         /\ call'[w].benchmark = header'[x]
                         /\ call'[w].holdings = positions'[x]
    BY DEF WholeInv
  <2>1. CASE x = id
    BY <1>3, <1>5, <1>6, <1>7, <2>1 DEF Closed
  <2>2. CASE x # id
    <3>1. x \in DOMAIN header /\ x \in Requests
      BY <1>2, <1>6, <2>2 DEF TypeOK
    <3>2. PICK w \in Requests :
            /\ call[w].step \in Closed
            /\ call[w].kind \in {"create", "update"} /\ call[w].id = x
            /\ call[w].benchmark = header[x] /\ call[w].holdings = positions[x]
      BY <3>1 DEF IInv, WholeInv
    <3>3. w # r
      BY <1>2, <3>2 DEF InTransaction, Closed
    <3>. QED
      BY <1>5, <1>6, <1>7, <2>2, <3>1, <3>2, <3>3
  <2>. QED
    BY <2>1, <2>2
<1>. QED
  BY <1>4, <1>8, <1>9, <1>10 DEF IInv

\* A deleted portfolio takes its positions and its reports along, and nobody was in
\* a transaction on it.
LEMMA DeleteKeeps ==
  ASSUME IInv, NEW r \in Requests, NEW id \in Requests, Delete(r, id)
  PROVE  IInv'
<1>. DEFINE to == IF id \in DOMAIN header THEN "deleted" ELSE "error"
            c == [call[r] EXCEPT !.kind = "delete", !.id = id, !.step = to]
<1>1. /\ TypeOK /\ call[r] \in Calls /\ call[r].step = "new" /\ lock[id] = Nothing
      /\ header' = [x \in DOMAIN header \ {id} |-> header[x]]
      /\ positions' = [positions EXCEPT ![id] = Nothing]
      /\ reports' = [x \in {y \in DOMAIN reports : reports[y].portfolio # id} |-> reports[x]]
      /\ UNCHANGED <<lock, restarts>>
  BY DEF IInv, TypeOK, Delete, Restrict
<1>2. c \in Calls /\ call' = [call EXCEPT ![r] = c]
  <2>1. c \in Calls
    BY <1>1 DEF Calls, Kinds, Closed
  <2>2. call' = [call EXCEPT ![r] = c]
    BY <1>1 DEF Delete, TypeOK
  <2>. QED
    BY <2>1, <2>2
<1>3. c.kind = "delete" /\ c.step \in Closed
  BY <1>1 DEF Calls, Closed
<1>. HIDE DEF c
<1>4. /\ call' \in [Requests -> Calls] /\ call'[r] = c
      /\ \A q \in Requests \ {r} : call'[q] = call[q]
  BY <1>1, <1>2, CallChanges
<1>5. TypeOK'
  BY <1>1, <1>4 DEF TypeOK
<1>6. LockInv'
  BY <1>1, <1>3, <1>4 DEF IInv, LockInv, InTransaction, Closed
<1>7. WriterInv'
  BY <1>1, <1>3, <1>4 DEF IInv, WriterInv, Closed
<1>8. NoOrphans'
  BY <1>1 DEF IInv, NoOrphans, TypeOK
<1>9. WholeInv'
  <2>1. DOMAIN header' = DOMAIN header \ {id}
    BY <1>1
  <2>2. \A x \in DOMAIN header \ {id} :
          header'[x] = header[x] /\ positions'[x] = positions[x]
    BY <1>1 DEF TypeOK
  <2>3. \A w \in Requests : call[w].step \in Closed => call'[w] = call[w]
    BY <1>1, <1>4 DEF Closed
  <2>. QED
    BY <2>1, <2>2, <2>3, WholeKept DEF IInv
<1>. QED
  BY <1>5, <1>6, <1>7, <1>8, <1>9 DEF IInv

\* Steps that write no portfolio: the insert of the positions inside the
\* transaction, the engine's outcome, and the outcome of saving the report.
LEMMA OtherMovesKeep ==
  ASSUME IInv, NEW r \in Requests,
         Replace(r) \/ EngineAnswers(r) \/ EngineErrs(r) \/ SaveReport(r) \/ SaveReportErrs(r)
  PROVE  IInv'
<1>1. CASE Replace(r)
  <2>1. PICK to \in {"commit"} :
        /\ call' = [call EXCEPT ![r].step = to] /\ call[r].step = "replace"
        /\ UNCHANGED <<header, positions, reports, lock, restarts>>
    BY <1>1 DEF Replace, Goes, tables
  <2>2. (TypeOK /\ call' \in [Requests -> Calls] => TypeOK') /\ NoOrphans'
    BY <2>1 DEF TypeOK, IInv, NoOrphans
  <2>. QED
    BY <2>1, <2>2, MoveKeeps DEF InTransaction, Steps, Open, Closed
<1>2. CASE EngineAnswers(r) \/ EngineErrs(r) \/ SaveReportErrs(r)
  <2>1. PICK to \in {"answered", "report", "error"} :
          /\ call' = [call EXCEPT ![r].step = to]
          /\ call[r].step \in {"engine", "report"}
          /\ to = "report" => call[r].step = "engine"
    BY <1>2 DEF EngineAnswers, EngineErrs, SaveReportErrs, Goes
  <2>2. UNCHANGED <<header, positions, reports, lock, restarts>>
    BY <1>2 DEF EngineAnswers, EngineErrs, SaveReportErrs, tables
  <2>3. (TypeOK /\ call' \in [Requests -> Calls] => TypeOK') /\ NoOrphans'
    BY <2>2 DEF TypeOK, IInv, NoOrphans
  <2>. QED
    BY <2>1, <2>2, <2>3, MoveKeeps DEF InTransaction, Steps, Open, Closed
<1>3. CASE SaveReport(r)
  <2>. DEFINE report == [portfolio |-> call[r].id, benchmark |-> call[r].benchmark,
                         named |-> call[r].named, holdings |-> call[r].holdings]
  <2>1. PICK to \in {"answered"} :
        /\ call' = [call EXCEPT ![r].step = to] /\ call[r].step = "report"
        /\ call[r].id \in DOMAIN header \cup {Nothing}
        /\ reports' = [x \in DOMAIN reports \cup {r} |-> IF x = r THEN report ELSE reports[x]]
        /\ UNCHANGED <<header, positions, lock, restarts>>
    BY <1>3 DEF SaveReport, Goes
  <2>2. report \in Reports
    BY <2>1 DEF IInv, TypeOK, WriterInv, Reports, Calls
  <2>3. report.portfolio \in DOMAIN header \cup {Nothing}
    BY <2>1
  <2>. HIDE DEF report
  <2>4. TypeOK /\ call' \in [Requests -> Calls] => TypeOK'
    BY <2>1, <2>2 DEF TypeOK
  <2>5. NoOrphans'
    BY <2>1, <2>3 DEF IInv, NoOrphans
  <2>. QED
    BY <2>1, <2>4, <2>5, MoveKeeps DEF InTransaction, Steps, Open, Closed
<1>. QED
  BY <1>1, <1>2, <1>3

\* A restart of the API process cuts every request off and frees every row.
LEMMA RestartKeeps == IInv /\ Restart => IInv'
<1>. SUFFICES ASSUME IInv, Restart PROVE IInv'
  OBVIOUS
<1>. USE PortfolioAssumption
<1>1. /\ TypeOK /\ restarts' \in 0..MaxRestarts
      /\ lock' = [id \in Requests |-> Nothing] /\ UNCHANGED tables
  BY DEF IInv, TypeOK, Restart
<1>2. /\ call' \in [Requests -> Calls]
      /\ \A q \in Requests :
           /\ call'[q].step \in {"new"} \cup Closed
           /\ call[q].step \in Closed => call'[q] = call[q]
           /\ call'[q].kind = call[q].kind /\ call'[q].holdings = call[q].holdings
  <2>1. \A q \in Requests : call[q] \in Calls
    BY <1>1 DEF TypeOK
  <2>2. \A q \in Requests : [call[q] EXCEPT !.step = "lost"] \in Calls
    BY <2>1 DEF Calls, Closed
  <2>3. \A q \in Requests :
          call'[q] = IF call[q].step \in Open THEN [call[q] EXCEPT !.step = "lost"] ELSE call[q]
    BY DEF Restart
  <2>4. call' \in [Requests -> Calls]
    BY <2>1, <2>2 DEF Restart
  <2>5. ASSUME NEW q \in Requests
        PROVE  /\ call'[q].step \in {"new"} \cup Closed
               /\ call[q].step \in Closed => call'[q] = call[q]
               /\ call'[q].kind = call[q].kind /\ call'[q].holdings = call[q].holdings
    BY <2>1, <2>3 DEF Calls, Open, Closed
  <2>. QED
    BY <2>4, <2>5
<1>3. TypeOK'
  BY <1>1, <1>2 DEF TypeOK, tables
<1>4. LockInv'
  BY <1>1, <1>2 DEF LockInv, InTransaction, Closed
<1>5. WriterInv'
  BY <1>2 DEF IInv, WriterInv, Closed
<1>6. NoOrphans'
  BY <1>1 DEF IInv, NoOrphans, tables
<1>7. WholeInv'
  BY <1>1, <1>2, WholeKept DEF IInv, tables
<1>. QED
  BY <1>3, <1>4, <1>5, <1>6, <1>7 DEF IInv

\* Every step of the service keeps the invariant.
LEMMA StepIInv == IInv /\ [Next]_vars => IInv'
<1>. SUFFICES ASSUME IInv, [Next]_vars PROVE IInv'
  OBVIOUS
<1>1. CASE \E r \in Requests : Proceeds(r)
  BY <1>1, ReadKeeps, UpsertKeeps, RollbackKeeps, CommitKeeps, OtherMovesKeep DEF Proceeds
<1>2. ASSUME NEW r \in Requests, NEW b \in Benchmarks \cup {Unset}, NEW h \in HoldingSets,
             Create(r, b, h) \/ AnalyzeInline(r, b, h)
      PROVE  IInv'
  <2>1. OrDefault(b, DefaultBenchmark) \in Benchmarks
    BY PortfolioAssumption DEF OrDefault
  <2>2. CASE Create(r, b, h)
    BY <2>1, <2>2, StartKeeps DEF Create
  <2>3. CASE AnalyzeInline(r, b, h)
    BY <2>1, <2>3, StartKeeps DEF AnalyzeInline
  <2>. QED
    BY <1>2, <2>2, <2>3
<1>3. ASSUME NEW r \in Requests, NEW id \in Requests \ {r},
             NEW b \in Benchmarks \cup {Unset}, Analyze(r, id, b)
      PROVE  IInv'
  BY <1>3, StartKeeps DEF Analyze
<1>4. ASSUME NEW r \in Requests, NEW id \in Requests \ {r},
             NEW b \in Benchmarks \cup {Unset}, NEW h \in HoldingSets, Update(r, id, b, h)
      PROVE  IInv'
  BY <1>4, StartKeeps DEF Update
<1>5. CASE \E r \in Requests : \E id \in Requests \ {r} : Delete(r, id)
  BY <1>5, DeleteKeeps
<1>6. CASE Restart
  BY <1>6, RestartKeeps
<1>7. CASE UNCHANGED vars
  BY <1>7 DEF vars, IInv, TypeOK, LockInv, InTransaction, WriterInv, NoOrphans, WholeInv
<1>. QED
  BY <1>1, <1>2, <1>3, <1>4, <1>5, <1>6, <1>7 DEF Next

-----------------------------------------------------------------------------
(* The theorems. *)

\* The invariant holds in every state of the service.
LEMMA Invariance == Spec => []IInv
  BY InitIInv, StepIInv, PTL DEF Spec

\* The tables and the requests keep their shapes.
THEOREM TypeCorrect == Spec => []TypeOK
<1>1. IInv => TypeOK
  BY DEF IInv
<1>. QED
  BY <1>1, Invariance, PTL

\* SavePortfolio is all or nothing: whatever fails, header and positions of a
\* portfolio are those of one save.
THEOREM Wholeness == Spec => []PortfolioWhole
<1>1. IInv => PortfolioWhole
  BY DEF IInv, WholeInv, PortfolioWhole, SavedPair
<1>. QED
  BY <1>1, Invariance, PTL

\* No position and no saved report refers to a portfolio that is gone.
THEOREM References == Spec => []NoOrphans
<1>1. IInv => NoOrphans
  BY DEF IInv
<1>. QED
  BY <1>1, Invariance, PTL

\* A row is locked only by a request inside its transaction on that row.
THEOREM Locking == Spec => []LocksAreReleased
<1>1. IInv => LocksAreReleased
  BY DEF IInv, TypeOK, LockInv, InTransaction, LocksAreReleased
<1>. QED
  BY <1>1, Invariance, PTL
=============================================================================
