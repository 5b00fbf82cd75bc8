--------------------------- MODULE PortfolioService ----------------------------
(***************************************************************************)
(* Saved portfolios and the risk reports made from them                    *)
(* (apps/api/internal/portfolio/service.go) over PostgreSQL                *)
(* (storage/postgres/portfolios.go, db/migrations).                        *)
(*                                                                         *)
(* A request is one HTTP call, and what it creates has its identity.  The  *)
(* statements of concurrent requests interleave: each sees what was        *)
(* committed before it (READ COMMITTED), an upsert holds the lock of its   *)
(* row until its transaction ends, and a read of a portfolio is two        *)
(* statements outside any transaction.  The benchmark stands for the       *)
(* header row and a set of holdings for the position rows.                 *)
(***************************************************************************)
EXTENDS Naturals, FiniteSets, Functions

CONSTANTS
  Requests,
  Benchmarks,
  DefaultBenchmark,   \* used where a new portfolio or inline analysis names none
  Unset,              \* a request that names no benchmark
  HoldingSets,        \* non-empty sets of holdings a request can carry
  Refused,            \* those the database refuses, such as a quantity it rounds to 0
  Nothing,            \* no holdings, no portfolio, no lock holder
  MaxRestarts         \* bound: restarts of the API process

ASSUME PortfolioAssumption ==
  /\ DefaultBenchmark \in Benchmarks
  /\ Unset \notin Benchmarks
  /\ Refused \subseteq HoldingSets
  /\ Nothing \notin Requests \cup HoldingSets
  /\ MaxRestarts \in Nat

VARIABLES
  header,      \* portfolios: the benchmark of each committed row
  positions,   \* positions: the committed holdings of each portfolio
  reports,     \* risk_reports: the committed rows
  lock,        \* the request whose transaction holds each portfolio's row
  call,        \* where each request stands
  restarts

vars == <<header, positions, reports, lock, call, restarts>>

Kinds == {"create", "update", "delete", "analyze"}
Open == {"header", "rows", "upsert", "replace", "commit", "engine", "report"}
Closed == {"saved", "deleted", "answered", "error", "lost"}

\* A request's portfolio, and the benchmark and holdings it writes or analyses.
Calls ==
  [kind: Kinds, step: {"new"} \cup Open \cup Closed, id: Requests \cup {Nothing},
   benchmark: Benchmarks \cup {Unset}, named: BOOLEAN,
   holdings: HoldingSets \cup {Nothing}]

Reports ==
  [portfolio: Requests \cup {Nothing}, benchmark: Benchmarks, named: BOOLEAN,
   holdings: HoldingSets]

TypeOK ==
  /\ DOMAIN header \subseteq Requests
  /\ \A id \in DOMAIN header : header[id] \in Benchmarks
  /\ positions \in [Requests -> HoldingSets \cup {Nothing}]
  /\ DOMAIN reports \subseteq Requests
  /\ \A r \in DOMAIN reports : reports[r] \in Reports
  /\ lock \in [Requests -> Requests \cup {Nothing}]
  /\ call \in [Requests -> Calls]
  /\ restarts \in 0..MaxRestarts

Init ==
  /\ header = <<>>
  /\ positions = [id \in Requests |-> Nothing]
  /\ reports = <<>>
  /\ lock = [id \in Requests |-> Nothing]
  /\ call = [r \in Requests |->
               [kind |-> "analyze", step |-> "new", id |-> Nothing,
                benchmark |-> Unset, named |-> FALSE, holdings |-> Nothing]]
  /\ restarts = 0

tables == <<header, positions, reports>>

Starts(r, kind, step, id, benchmark, holdings) ==
  /\ call[r].step = "new"
  /\ call' = [call EXCEPT ![r] =
                [kind |-> kind, step |-> step, id |-> id, benchmark |-> benchmark,
                 named |-> benchmark # Unset, holdings |-> holdings]]
  /\ UNCHANGED <<tables, lock, restarts>>

Goes(r, from, to) ==
  /\ call[r].step = from
  /\ call' = [call EXCEPT ![r].step = to]

OrDefault(benchmark, fallback) == IF benchmark = Unset THEN fallback ELSE benchmark

-----------------------------------------------------------------------------
(* The requests. *)

Create(r, benchmark, holdings) ==
  Starts(r, "create", "upsert", r, OrDefault(benchmark, DefaultBenchmark), holdings)

Update(r, id, benchmark, holdings) ==
  Starts(r, "update", "header", id, benchmark, holdings)

Analyze(r, id, benchmark) ==
  Starts(r, "analyze", "header", id, benchmark, Nothing)

\* Faulty variant: the default is left to the engine.
AnalyzeInlineUndefaulted(r, benchmark, holdings) ==
  Starts(r, "analyze", "engine", Nothing, benchmark, holdings)

\* Holdings posted with the request: no portfolio is read.
AnalyzeInline(r, benchmark, holdings) ==
  Starts(r, "analyze", "engine", Nothing, OrDefault(benchmark, DefaultBenchmark), holdings)

-----------------------------------------------------------------------------
(* GetPortfolio: the header row, then the position rows. *)

ReadHeader(r) ==
  LET id == call[r].id
  IN /\ call[r].step = "header"
     /\ \/ /\ id \in DOMAIN header
           /\ call' = [call EXCEPT ![r].step = "rows",
                                  ![r].benchmark = OrDefault(@, header[id])]
        \/ /\ id \notin DOMAIN header
           /\ call' = [call EXCEPT ![r].step = "error"]
     /\ UNCHANGED <<tables, lock, restarts>>

\* An update replaces the holdings it reads; an analysis refuses to run on none.
ReadRows(r) ==
  LET rows == positions[call[r].id]
  IN /\ call[r].step = "rows"
     /\ \/ /\ call[r].kind = "update"
           /\ call' = [call EXCEPT ![r].step = "upsert"]
        \/ /\ call[r].kind # "update" /\ rows = Nothing
           /\ call' = [call EXCEPT ![r].step = "error"]
        \/ /\ call[r].kind # "update" /\ rows # Nothing
           /\ call' = [call EXCEPT ![r].step = "engine", ![r].holdings = rows]
     /\ UNCHANGED <<tables, lock, restarts>>

-----------------------------------------------------------------------------
(* SavePortfolio: one transaction.  What it writes is seen by others only    *)
(* when it commits.                                                          *)

Upsert(r) ==
  /\ Goes(r, "upsert", "replace")
  /\ lock[call[r].id] = Nothing
  /\ lock' = [lock EXCEPT ![call[r].id] = r]
  /\ UNCHANGED <<tables, restarts>>

\* The position rows are deleted and those of the request inserted.
Replace(r) ==
  /\ Goes(r, "replace", "commit")
  /\ call[r].holdings \notin Refused
  /\ UNCHANGED <<tables, lock, restarts>>

Written(r) ==
  /\ header' = [id \in DOMAIN header \cup {call[r].id} |->
                  IF id = call[r].id THEN call[r].benchmark ELSE header[id]]
  /\ positions' = [positions EXCEPT ![call[r].id] = call[r].holdings]

Unlocked(r) == lock' = [lock EXCEPT ![call[r].id] = Nothing]

Commit(r) ==
  /\ Goes(r, "commit", "saved")
  /\ Written(r)
  /\ Unlocked(r)
  /\ UNCHANGED <<reports, restarts>>

\* The commit is done, but the connection breaks before the API hears of it.
CommitUnheard(r) ==
  /\ Goes(r, "commit", "error")
  /\ Written(r)
  /\ Unlocked(r)
  /\ UNCHANGED <<reports, restarts>>

\* Faulty variant: the header is written outside the transaction.
RollbackKeepsHeader(r) ==
  /\ call[r].step \in {"replace", "commit"}
  /\ call' = [call EXCEPT ![r].step = "error"]
  /\ header' = [id \in DOMAIN header \cup {call[r].id} |->
                  IF id = call[r].id THEN call[r].benchmark ELSE header[id]]
  /\ Unlocked(r)
  /\ UNCHANGED <<positions, reports, restarts>>

\* Faulty variant: an early return without the deferred rollback.
RollbackKeepsLock(r) ==
  /\ call[r].step \in {"replace", "commit"}
  /\ call' = [call EXCEPT ![r].step = "error"]
  /\ UNCHANGED <<tables, lock, restarts>>

\* A statement is refused or the connection breaks: the deferred Rollback.
Rollback(r) ==
  /\ call[r].step \in {"replace", "commit"}
  /\ call' = [call EXCEPT ![r].step = "error"]
  /\ Unlocked(r)
  /\ UNCHANGED <<tables, restarts>>

-----------------------------------------------------------------------------
(* DeletePortfolio: one statement, which waits for the row's lock.  The      *)
(* schema's ON DELETE CASCADE takes the positions and the reports along.     *)

\* Faulty variant: the reports do not cascade.
DeleteKeepsReports(r, id) ==
  /\ call[r].step = "new"
  /\ lock[id] = Nothing
  /\ call' = [call EXCEPT ![r].kind = "delete", ![r].id = id,
                ![r].step = IF id \in DOMAIN header THEN "deleted" ELSE "error"]
  /\ header' = Restrict(header, DOMAIN header \ {id})
  /\ positions' = [positions EXCEPT ![id] = Nothing]
  /\ UNCHANGED <<reports, lock, restarts>>

Delete(r, id) ==
  /\ call[r].step = "new"
  /\ lock[id] = Nothing
  /\ call' = [call EXCEPT ![r].kind = "delete", ![r].id = id,
                ![r].step = IF id \in DOMAIN header THEN "deleted" ELSE "error"]
  /\ header' = Restrict(header, DOMAIN header \ {id})
  /\ positions' = [positions EXCEPT ![id] = Nothing]
  /\ reports' = Restrict(reports, {x \in DOMAIN reports : reports[x].portfolio # id})
  /\ UNCHANGED <<lock, restarts>>

-----------------------------------------------------------------------------
(* Analyze and Scenario, once the engine is asked. *)

\* The answer is returned as it is, or saved as a report first.
EngineAnswers(r) ==
  /\ Goes(r, "engine", "answered") \/ Goes(r, "engine", "report")
  /\ UNCHANGED <<tables, lock, restarts>>

EngineErrs(r) ==
  /\ Goes(r, "engine", "error")
  /\ UNCHANGED <<tables, lock, restarts>>

\* The foreign key demands that the portfolio, if there is one, still exists.
SaveReport(r) ==
  /\ Goes(r, "report", "answered")
  /\ call[r].id \in DOMAIN header \cup {Nothing}
  /\ reports' = [x \in DOMAIN reports \cup {r} |->
                   IF x = r THEN [portfolio |-> call[r].id, benchmark |-> call[r].benchmark,
                                  named |-> call[r].named, holdings |-> call[r].holdings]
                   ELSE reports[x]]
  /\ UNCHANGED <<header, positions, lock, restarts>>

\* The insert is refused, by the foreign key or because the connection breaks.
SaveReportErrs(r) ==
  /\ Goes(r, "report", "error")
  /\ UNCHANGED <<tables, lock, restarts>>

-----------------------------------------------------------------------------
\* The API process restarts: its requests are cut off and the database rolls
\* their transactions back.
Restart ==
  /\ restarts < MaxRestarts
  /\ restarts' = restarts + 1
  /\ call' = [r \in Requests |->
                IF call[r].step \in Open THEN [call[r] EXCEPT !.step = "lost"] ELSE call[r]]
  /\ lock' = [id \in Requests |-> Nothing]
  /\ UNCHANGED tables

Proceeds(r) ==
  \/ ReadHeader(r) \/ ReadRows(r)
  \/ Upsert(r) \/ Replace(r) \/ Commit(r) \/ CommitUnheard(r) \/ Rollback(r)
  \/ EngineAnswers(r) \/ EngineErrs(r)
  \/ SaveReport(r) \/ SaveReportErrs(r)

Next ==
  \/ \E r \in Requests :
       \/ Proceeds(r)
       \/ \E b \in Benchmarks \cup {Unset}, h \in HoldingSets :
            Create(r, b, h) \/ AnalyzeInline(r, b, h)
       \/ \E id \in Requests \ {r}, b \in Benchmarks \cup {Unset} :
            Analyze(r, id, b) \/ \E h \in HoldingSets : Update(r, id, b, h)
       \/ \E id \in Requests \ {r} : Delete(r, id)
  \/ Restart

Spec == Init /\ [][Next]_vars

-----------------------------------------------------------------------------
\* The saves of a portfolio: what one request wrote, or may have written.
SavedPair(id, benchmark, holdings) ==
  \E w \in Requests :
    /\ call[w].kind \in {"create", "update"} /\ call[w].id = id
    /\ call[w].benchmark = benchmark /\ call[w].holdings = holdings

\* SavePortfolio is all or nothing: header and positions of a portfolio are those
\* of one and the same save, whatever fails in between.
PortfolioWhole ==
  \A id \in DOMAIN header : SavedPair(id, header[id], positions[id])

\* Nothing refers to a portfolio that no longer exists: no position, and no saved
\* report, however long ago its analysis read the portfolio.
NoOrphans ==
  /\ \A id \in Requests : positions[id] # Nothing => id \in DOMAIN header
  /\ \A x \in DOMAIN reports : reports[x].portfolio \in DOMAIN header \cup {Nothing}

\* What the comments on SavePortfolio and Update say: a report of a saved
\* portfolio that takes the portfolio's benchmark describes a portfolio as the
\* user saved it.
ReportsDescribeASave ==
  \A x \in DOMAIN reports :
    LET report == reports[x]
    IN report.portfolio # Nothing /\ ~report.named
         => SavedPair(report.portfolio, report.benchmark, report.holdings)

\* A row is locked only by a request that is inside its transaction on it, on
\* every path out of SavePortfolio: no update or delete waits for a request that
\* is over.
LocksAreReleased ==
  \A id \in Requests :
    lock[id] # Nothing => /\ call[lock[id]].step \in {"replace", "commit"}
                          /\ call[lock[id]].id = id
=============================================================================
