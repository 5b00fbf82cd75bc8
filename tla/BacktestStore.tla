---------------------------- MODULE BacktestStore -----------------------------
(***************************************************************************)
(* Completed backtests in the API process: the backtest service's Run      *)
(* (apps/api/internal/backtest/service.go) and the bounded in-memory store *)
(* behind it (memory_store.go).                                            *)
(*                                                                         *)
(* Requests run concurrently.  Each obtains an ID, waits for the engine,   *)
(* builds its record and saves it under the store's lock; the lock is what *)
(* makes saving one step, and nothing orders the answers the requests got  *)
(* against their saves.  The engine's answer is arbitrary here.            *)
(***************************************************************************)
EXTENDS Naturals, FiniteSets, SequencesExt

CONSTANTS
  Ids,          \* the IDs newID hands out, one per request
  Capacity,     \* NewMemoryStore(capacity)
  Payloads,     \* result contracts the engine can answer with
  NoPayload,
  MaxRestarts   \* bound: restarts of the API process

ASSUME StoreAssumption ==
  /\ Capacity \in Nat \ {0}
  /\ NoPayload \notin Payloads
  /\ MaxRestarts \in Nat

VARIABLES
  stage,     \* how far each request has come
  answer,    \* the payload of each request between the engine and the store
  records,   \* MemoryStore.records: the stored records by ID
  order,     \* MemoryStore.order: the stored IDs as they came
  restarts

storeVars == <<stage, answer, records, order, restarts>>

Stages == {"new", "running", "answered", "stored", "failed", "lost"}

Records == [id: Ids, result: Payloads]

TypeOK ==
  /\ stage \in [Ids -> Stages]
  /\ answer \in [Ids -> Payloads \cup {NoPayload}]
  /\ DOMAIN records \subseteq Ids
  /\ \A id \in DOMAIN records : records[id] \in Records
  /\ order \in Seq(Ids)
  /\ restarts \in 0..MaxRestarts

Init ==
  /\ stage = [id \in Ids |-> "new"]
  /\ answer = [id \in Ids |-> NoPayload]
  /\ records = <<>>
  /\ order = <<>>
  /\ restarts = 0

-----------------------------------------------------------------------------
(* MemoryStore.  Each operation holds the lock throughout. *)

\* Faulty variant: the newest record makes room for itself.
EvictedFromTheEnd(listed) ==
  {listed[i] : i \in (Capacity + 1)..Len(listed)}

\* The IDs the eviction loop takes from the front until the rest fits.
Evicted(listed) ==
  {listed[i] : i \in 1..(Len(listed) - Capacity)}

\* Faulty variant: the loop leaves room for the next record.
ShortenedTooFar(listed) ==
  IF Len(listed) < Capacity THEN listed
  ELSE SubSeq(listed, Len(listed) - Capacity + 2, Len(listed))

Shortened(listed) ==
  IF Len(listed) <= Capacity THEN listed
  ELSE SubSeq(listed, Len(listed) - Capacity + 1, Len(listed))

\* An ID already stored keeps its place in the order.
Listed(id) == IF id \in DOMAIN records THEN order ELSE Append(order, id)

Save(record) ==
  LET listed == Listed(record.id)
  IN /\ order' = Shortened(listed)
     /\ records' = [id \in (DOMAIN records \cup {record.id}) \ Evicted(listed) |->
                      IF id = record.id THEN record ELSE records[id]]

-----------------------------------------------------------------------------
(* Service.Run. *)

StartRun(id) ==
  /\ stage[id] = "new"
  /\ stage' = [stage EXCEPT ![id] = "running"]
  /\ UNCHANGED <<answer, records, order, restarts>>

\* Faulty variant: the record is built without the engine's answer.
AnswerDropped(id, payload) ==
  /\ stage[id] = "running"
  /\ stage' = [stage EXCEPT ![id] = "answered"]
  /\ UNCHANGED <<answer, records, order, restarts>>

\* The engine answers; the record is built from its payload.
AnswerRun(id, payload) ==
  /\ stage[id] = "running"
  /\ stage' = [stage EXCEPT ![id] = "answered"]
  /\ answer' = [answer EXCEPT ![id] = payload]
  /\ UNCHANGED <<records, order, restarts>>

\* Faulty variant: the client waits for the engine without a timeout.
FailRunNever(id) ==
  /\ stage[id] = "running"
  /\ UNCHANGED storeVars

\* The engine rejects the request, is unreachable, or exceeds the client's timeout.
FailRun(id) ==
  /\ stage[id] = "running"
  /\ stage' = [stage EXCEPT ![id] = "failed"]
  /\ UNCHANGED <<answer, records, order, restarts>>

StoreRun(id) ==
  /\ stage[id] = "answered"
  /\ stage' = [stage EXCEPT ![id] = "stored"]
  /\ Save([id |-> id, result |-> answer[id]])
  /\ answer' = [answer EXCEPT ![id] = NoPayload]
  /\ UNCHANGED restarts

\* The process restarts: the store is empty and requests in flight are cut off.
Restart ==
  /\ restarts < MaxRestarts
  /\ restarts' = restarts + 1
  /\ records' = <<>>
  /\ order' = <<>>
  /\ stage' = [id \in Ids |->
                 IF stage[id] \in {"running", "answered"} THEN "lost" ELSE stage[id]]
  /\ answer' = [id \in Ids |-> NoPayload]

-----------------------------------------------------------------------------
Next ==
  \/ \E id \in Ids :
       \/ StartRun(id) \/ FailRun(id) \/ StoreRun(id)
       \/ \E payload \in Payloads : AnswerRun(id, payload)
  \/ Restart

Spec == Init /\ [][Next]_storeVars

\* The client's timeout ends every call the engine does not answer, and the API's
\* own code runs on.  Nothing obliges the engine to answer, a request to start or
\* the process to restart.
FairSpec ==
  /\ Spec
  /\ \A id \in Ids : WF_storeVars(FailRun(id)) /\ WF_storeVars(StoreRun(id))

-----------------------------------------------------------------------------
\* The index and the records agree: every stored ID is listed once, in the order
\* it came, and there are no more than Capacity of them.  The two are changed
\* separately by Save and by its eviction loop.
IndexMatchesRecords ==
  /\ ToSet(order) = DOMAIN records
  /\ Cardinality(DOMAIN records) = Len(order)
  /\ Len(order) <= Capacity
  /\ \A id \in DOMAIN records : records[id].id = id

\* The results the store holds, in the order their records came.
Held == [i \in 1..Len(order) |-> <<order[i], records[order[i]].result>>]

\* The store implements a window on the most recent results: the loop evicts
\* those saved first, and as few as will do.
Window == INSTANCE RecentResults WITH Results <- Ids \X Payloads, kept <- Held

KeepsTheMostRecent == Window!Spec

\* A request that has started ends: its record is stored, or it fails, or the
\* process is restarted under it.
RunsEnd ==
  \A id \in Ids :
    stage[id] = "running" ~> stage[id] \in {"stored", "failed", "lost"}
=============================================================================
