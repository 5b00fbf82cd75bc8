-------------------------- MODULE BacktestStoreProofs --------------------------
(***************************************************************************)
(* Theorems about the session's backtest store, for any number of          *)
(* requests, capacity and restarts: the index and the records never        *)
(* disagree, and the store is a window on the most recent results.         *)
(***************************************************************************)
EXTENDS BacktestStore, FiniteSetTheorems, SequenceTheorems, TLAPS

-----------------------------------------------------------------------------
(* The inductive invariant.  Saving relies on what the request is carrying  *)
(* and on its ID not being stored yet, so the stages are part of it.        *)

IndexInv ==
  /\ ToSet(order) = DOMAIN records
  /\ \A i, j \in 1..Len(order) : order[i] = order[j] => i = j
  /\ Len(order) <= Capacity
  /\ \A id \in DOMAIN records : records[id].id = id

StageInv ==
  /\ \A id \in Ids : stage[id] = "answered" => answer[id] \in Payloads
  /\ \A id \in Ids : stage[id] \in {"new", "running", "answered"} => id \notin DOMAIN records

IInv == TypeOK /\ IndexInv /\ StageInv

-----------------------------------------------------------------------------
\* The effect of saving a record under an ID that is not stored: it is appended
\* and the first drop records go.
Appended(record, drop) ==
  /\ Len(order) + 1 - drop <= Capacity
  /\ drop = 1 => Len(order) = Capacity
  /\ order' \in Seq(Ids)
  /\ Len(order') = Len(order) + 1 - drop
  /\ \A i \in 1..Len(order') : order'[i] = Append(order, record.id)[i + drop]
  /\ records' = [id \in (DOMAIN records \cup {record.id})
                          \ {Append(order, record.id)[i] : i \in 1..drop} |->
                   IF id = record.id THEN record ELSE records[id]]

\* At most one record goes.
LEMMA SaveEffect ==
  ASSUME IInv, NEW record \in Records, record.id \notin DOMAIN records, Save(record)
  PROVE  Appended(record, 0) \/ Appended(record, 1)
<1>. USE StoreAssumption
<1>. DEFINE listed == Append(order, record.id)
<1>1. /\ order \in Seq(Ids) /\ record.id \in Ids
      /\ listed \in Seq(Ids) /\ Len(listed) = Len(order) + 1
      /\ Len(order) \in Nat /\ Len(order) <= Capacity
  <2>1. order \in Seq(Ids) /\ record.id \in Ids /\ Len(order) <= Capacity
    BY DEF IInv, TypeOK, IndexInv, Records
  <2>. QED
    BY <2>1, AppendProperties, LenProperties
<1>2. /\ order' = Shortened(listed)
      /\ records' = [id \in (DOMAIN records \cup {record.id}) \ Evicted(listed) |->
                       IF id = record.id THEN record ELSE records[id]]
  BY DEF Save, Listed
<1>. HIDE DEF listed
<1>3. CASE Len(listed) <= Capacity
  <2>1. order' = listed
    BY <1>2, <1>3 DEF Shortened
  <2>2. 1..(Len(listed) - Capacity) = {} /\ 1..0 = {}
    BY <1>1, <1>3
  <2>3. Evicted(listed) = {listed[i] : i \in 1..0}
    BY <2>2 DEF Evicted
  <2>4. \A i \in 1..Len(order') : i + 0 = i
    BY <1>1, <2>1
  <2>. QED
    BY <1>1, <1>2, <1>3, <2>1, <2>3, <2>4 DEF listed, Appended
<1>4. CASE Len(listed) > Capacity
  <2>1. Len(order) = Capacity /\ Len(listed) - Capacity = 1
    BY <1>1, <1>4
  <2>2. order' = SubSeq(listed, 2, Len(listed))
    BY <1>1, <1>2, <1>4, <2>1 DEF Shortened
  <2>3. /\ order' \in Seq(Ids) /\ Len(order') = Len(order)
        /\ \A i \in 1..Len(order') : order'[i] = listed[i + 1]
    BY <1>1, <2>1, <2>2, SubSeqProperties
  <2>4. Evicted(listed) = {listed[i] : i \in 1..1}
    BY <2>1 DEF Evicted
  <2>. QED
    BY <1>1, <1>2, <2>1, <2>3, <2>4 DEF listed, Appended
<1>. QED
  BY <1>1, <1>3, <1>4

\* The elements of a sequence of IDs that has lost its first ones and gained
\* one, in the form the index invariant needs.
LEMMA AppendedIndex ==
  ASSUME IInv, NEW record \in Records, record.id \notin DOMAIN records,
         NEW drop \in {0, 1}, Appended(record, drop)
  PROVE  /\ DOMAIN records' = (DOMAIN records \cup {record.id})
                                 \ {Append(order, record.id)[i] : i \in 1..drop}
         /\ IndexInv'
         /\ DOMAIN records' \subseteq DOMAIN records \cup {record.id}
         /\ \A id \in DOMAIN records' : records'[id] \in Records
<1>. USE StoreAssumption
<1>. DEFINE listed == Append(order, record.id)
<1>1. /\ order \in Seq(Ids) /\ Len(order) \in Nat /\ DOMAIN order = 1..Len(order)
      /\ record.id \in Ids
  <2>1. order \in Seq(Ids) /\ record.id \in Ids
    BY DEF IInv, TypeOK, Records
  <2>. QED
    BY <2>1, LenProperties
<1>2. /\ \A i \in 1..Len(order) : listed[i] = order[i]
      /\ listed[Len(order) + 1] = record.id
  BY <1>1, AppendProperties
<1>. HIDE DEF listed
<1>3. \A i, j \in 1..(Len(order) + 1) : listed[i] = listed[j] => i = j
  <2>1. \A i \in 1..Len(order) : listed[i] \in DOMAIN records
    BY <1>1, <1>2 DEF IInv, IndexInv, ToSet
  <2>2. \A i \in 1..(Len(order) + 1) : i \in 1..Len(order) \/ i = Len(order) + 1
    BY <1>1
  <2>3. \A i, j \in 1..Len(order) : listed[i] = listed[j] => i = j
    BY <1>2 DEF IInv, IndexInv
  <2>. QED
    BY <1>2, <2>1, <2>2, <2>3
<1>4. DOMAIN records \cup {record.id} = {listed[i] : i \in 1..(Len(order) + 1)}
  <2>1. DOMAIN records = {listed[i] : i \in 1..Len(order)}
    <3>1. DOMAIN records = {order[i] : i \in 1..Len(order)}
      BY <1>1 DEF IInv, IndexInv, ToSet
    <3>. QED
      BY <1>2, <3>1
  <2>2. 1..(Len(order) + 1) = 1..Len(order) \cup {Len(order) + 1}
    BY <1>1
  <2>. QED
    BY <1>2, <2>1, <2>2
<1>5. /\ Len(order') = Len(order) + 1 - drop /\ Len(order') <= Capacity
      /\ \A i \in 1..Len(order') : order'[i] = listed[i + drop]
      /\ DOMAIN order' = 1..Len(order')
  <2>1. order' \in Seq(Ids)
    BY DEF Appended
  <2>. QED
    BY <2>1, LenProperties DEF Appended, listed
<1>6. /\ DOMAIN records' = (DOMAIN records \cup {record.id}) \ {listed[i] : i \in 1..drop}
      /\ \A id \in DOMAIN records' :
           records'[id] = IF id = record.id THEN record ELSE records[id]
  BY DEF Appended, listed
<1>7. ToSet(order') = DOMAIN records'
  <2>1. ToSet(order') = {listed[i + drop] : i \in 1..Len(order')}
    BY <1>5 DEF ToSet
  <2>2. \A i \in 1..Len(order') : i + drop \in 1..(Len(order) + 1) /\ i + drop \notin 1..drop
    BY <1>1, <1>5
  <2>3. \A k \in 1..(Len(order) + 1) :
          k \in 1..drop \/ (k - drop \in 1..Len(order') /\ (k - drop) + drop = k)
    BY <1>1, <1>5
  <2>4. \A k \in 1..drop : k \in 1..(Len(order) + 1)
    BY <1>1
  <2>5. ToSet(order') \subseteq DOMAIN records'
    <3>1. \A i \in 1..Len(order') : listed[i + drop] \notin {listed[k] : k \in 1..drop}
      BY <1>3, <2>2, <2>4
    <3>. QED
      BY <1>4, <1>6, <2>1, <2>2, <3>1
  <2>6. DOMAIN records' \subseteq ToSet(order')
    BY <1>4, <1>6, <2>1, <2>3
  <2>. QED
    BY <2>5, <2>6
<1>8. \A i, j \in 1..Len(order') : order'[i] = order'[j] => i = j
  <2>1. \A i \in 1..Len(order') : i + drop \in 1..(Len(order) + 1)
    BY <1>1, <1>5
  <2>2. \A i, j \in 1..Len(order') : i + drop = j + drop => i = j
    BY <1>1, <1>5
  <2>. QED
    BY <1>3, <1>5, <2>1, <2>2
<1>9. \A id \in DOMAIN records' : records'[id].id = id /\ records'[id] \in Records
  BY <1>6 DEF IInv, IndexInv, TypeOK
<1>10. IndexInv'
  BY <1>5, <1>7, <1>8, <1>9 DEF IndexInv
<1>. QED
  BY <1>6, <1>9, <1>10 DEF listed

-----------------------------------------------------------------------------
(* The invariant is inductive. *)

\* An empty store satisfies it.
LEMMA EmptyIndex ==
  ASSUME order = <<>>, records = <<>>
  PROVE  IndexInv /\ order \in Seq(Ids) /\ DOMAIN records = {}
BY StoreAssumption DEF IndexInv, ToSet

LEMMA InitIInv == Init => IInv
<1>. SUFFICES ASSUME Init PROVE IInv
  OBVIOUS
<1>1. IndexInv /\ order \in Seq(Ids) /\ DOMAIN records = {}
  BY EmptyIndex DEF Init
<1>2. TypeOK
  BY <1>1, StoreAssumption DEF Init, TypeOK, Stages
<1>3. StageInv
  BY <1>1 DEF Init, StageInv
<1>. QED
  BY <1>1, <1>2, <1>3 DEF IInv

\* A step that leaves the store alone leaves the index alone.
LEMMA IndexUntouched ==
  ASSUME IndexInv, UNCHANGED <<records, order>>
  PROVE  IndexInv'
BY DEF IndexInv

LEMMA StepIInv == IInv /\ [Next]_storeVars => IInv'
<1>. SUFFICES ASSUME IInv, [Next]_storeVars PROVE IInv'
  OBVIOUS
<1>. USE StoreAssumption
<1>1. ASSUME NEW id \in Ids, StartRun(id) PROVE IInv'
  BY <1>1, IndexUntouched DEF StartRun, IInv, TypeOK, StageInv, Stages
<1>2. ASSUME NEW id \in Ids, FailRun(id) PROVE IInv'
  BY <1>2, IndexUntouched DEF FailRun, IInv, TypeOK, StageInv, Stages
<1>3. ASSUME NEW id \in Ids, NEW payload \in Payloads, AnswerRun(id, payload) PROVE IInv'
  BY <1>3, IndexUntouched DEF AnswerRun, IInv, TypeOK, StageInv, Stages
<1>4. ASSUME NEW id \in Ids, StoreRun(id) PROVE IInv'
  <2>. DEFINE record == [id |-> id, result |-> answer[id]]
  <2>1. record \in Records /\ record.id = id /\ id \notin DOMAIN records
    BY <1>4 DEF StoreRun, IInv, StageInv, Records
  <2>2. PICK drop \in {0, 1} : Appended(record, drop)
    BY <1>4, <2>1, SaveEffect DEF StoreRun
  <2>. HIDE DEF record
  <2>3. /\ IndexInv' /\ DOMAIN records' \subseteq DOMAIN records \cup {id}
        /\ \A other \in DOMAIN records' : records'[other] \in Records
    BY <2>1, <2>2, AppendedIndex
  <2>4. order' \in Seq(Ids)
    BY <2>2 DEF Appended
  <2>5. TypeOK'
    BY <1>4, <2>3, <2>4 DEF StoreRun, IInv, TypeOK, Stages
  <2>6. StageInv'
    BY <1>4, <2>3 DEF StoreRun, IInv, TypeOK, StageInv
  <2>. QED
    BY <2>3, <2>5, <2>6 DEF IInv
<1>5. CASE Restart
  <2>1. IndexInv' /\ order' \in Seq(Ids) /\ DOMAIN records' = {}
    BY <1>5 DEF Restart, IndexInv, ToSet
  <2>2. TypeOK'
    BY <1>5, <2>1 DEF Restart, IInv, TypeOK, Stages
  <2>3. StageInv'
    BY <1>5, <2>1 DEF Restart, IInv, TypeOK, StageInv
  <2>. QED
    BY <2>1, <2>2, <2>3 DEF IInv
<1>6. CASE UNCHANGED storeVars
  BY <1>6 DEF storeVars, IInv, TypeOK, StageInv, IndexInv
<1>. QED
  BY <1>1, <1>2, <1>3, <1>4, <1>5, <1>6 DEF Next

\* The inductive invariant holds in every state the store can reach.
LEMMA Invariance == Spec => []IInv
BY InitIInv, StepIInv, PTL DEF Spec

-----------------------------------------------------------------------------
(* The theorems. *)

\* Type correctness.
THEOREM TypeCorrect == Spec => []TypeOK
<1>1. IInv => TypeOK
  BY DEF IInv
<1>. QED
  BY <1>1, Invariance, PTL

\* The index lists every stored record once, and never more than the capacity
\* (memory_store.go: records and order are changed separately).
THEOREM IndexAgrees == Spec => []IndexMatchesRecords
<1>1. IInv => IndexMatchesRecords
  <2>. SUFFICES ASSUME IInv PROVE IndexMatchesRecords
    OBVIOUS
  <2>1. Len(order) \in Nat /\ order \in [1..Len(order) -> Ids]
    BY LenProperties DEF IInv, TypeOK
  <2>2. order \in Bijection(1..Len(order), DOMAIN records)
    <3>1. order \in [1..Len(order) -> DOMAIN records]
      BY <2>1 DEF IInv, IndexInv, ToSet
    <3>2. \A id \in DOMAIN records : \E i \in 1..Len(order) : order[i] = id
      BY <2>1 DEF IInv, IndexInv, ToSet
    <3>3. order \in Injection(1..Len(order), DOMAIN records)
      BY <3>1 DEF Injection, IsInjective, IInv, IndexInv
    <3>4. order \in Surjection(1..Len(order), DOMAIN records)
      BY <3>1, <3>2 DEF Surjection
    <3>. QED
      BY <3>3, <3>4 DEF Bijection
  <2>3. Cardinality(DOMAIN records) = Len(order)
    BY <2>1, <2>2, FS_CountingElements DEF ExistsBijection
  <2>. QED
    BY <2>3 DEF IInv, IndexInv, IndexMatchesRecords
<1>. QED
  BY <1>1, Invariance, PTL

-----------------------------------------------------------------------------
(* The store implements the window on the most recent results.  What it     *)
(* holds is a sequence of results, a save remembers one more and a restart  *)
(* forgets them all.                                                        *)

HeldInv ==
  /\ Len(order) \in Nat /\ order \in Seq(Ids)
  /\ Held \in Seq(Ids \X Payloads) /\ Len(Held) = Len(order)
  /\ \A i \in 1..Len(order) : /\ order[i] \in DOMAIN records
                              /\ Held[i] = <<order[i], records[order[i]].result>>

LEMMA HeldType == IInv => HeldInv
<1>. SUFFICES ASSUME IInv PROVE HeldInv
  OBVIOUS
<1>1. Len(order) \in Nat /\ DOMAIN order = 1..Len(order) /\ order \in Seq(Ids)
  BY LenProperties DEF IInv, TypeOK
<1>2. \A i \in 1..Len(order) : order[i] \in DOMAIN records
  BY <1>1 DEF IInv, IndexInv, ToSet
<1>3. \A i \in 1..Len(order) : <<order[i], records[order[i]].result>> \in Ids \X Payloads
  BY <1>2 DEF IInv, TypeOK, Records
<1>4. Held \in [1..Len(order) -> Ids \X Payloads]
  BY <1>3 DEF Held
<1>5. Held \in Seq(Ids \X Payloads)
  BY <1>1, <1>4, SeqDef
<1>6. Len(Held) = Len(order)
  BY <1>1, <1>4, <1>5, LenProperties
<1>. QED
  BY <1>1, <1>2, <1>5, <1>6 DEF Held, HeldInv

\* A stored result keeps its payload while it stays in the store.
LEMMA SaveRemembers ==
  ASSUME IInv, IInv', NEW id \in Ids, StoreRun(id)
  PROVE  \E result \in Ids \X Payloads : Window!Remember(result)
<1>. USE StoreAssumption
<1>. DEFINE record == [id |-> id, result |-> answer[id]]
            result == <<id, answer[id]>>
            longer == Append(Held, result)
<1>1. /\ record \in Records /\ record.id = id /\ record.result = answer[id]
      /\ id \notin DOMAIN records /\ result \in Ids \X Payloads
  BY DEF StoreRun, IInv, StageInv, Records
<1>2. PICK drop \in {0, 1} : Appended(record, drop)
  BY <1>1, SaveEffect DEF StoreRun
<1>. HIDE DEF record, result
<1>3. HeldInv
  BY HeldType
<1>4. HeldInv'
  BY HeldType, PTL
<1>5. /\ longer \in Seq(Ids \X Payloads) /\ Len(longer) = Len(order) + 1
      /\ \A i \in 1..Len(order) : longer[i] = Held[i]
      /\ longer[Len(order) + 1] = result
  BY <1>1, <1>3, AppendProperties DEF HeldInv
<1>. HIDE DEF longer
<1>6. /\ Len(order') = Len(order) + 1 - drop /\ Len(order') \in Nat
      /\ Len(order') <= Capacity
      /\ drop = 1 => Len(order) = Capacity
  BY <1>2, <1>3 DEF Appended, HeldInv
<1>7. \A i \in 1..Len(order') : Held'[i] = longer[i + drop]
  <2>. SUFFICES ASSUME NEW i \in 1..Len(order') PROVE Held'[i] = longer[i + drop]
    OBVIOUS
  <2>1. order'[i] = Append(order, id)[i + drop]
    BY <1>1, <1>2 DEF Appended
  <2>2. order'[i] \in DOMAIN records'
    BY <1>4 DEF HeldInv
  <2>3. records'[order'[i]] = IF order'[i] = id THEN record ELSE records[order'[i]]
    BY <1>1, <1>2, <2>2 DEF Appended
  <2>4. CASE i + drop \in 1..Len(order)
    <3>1. order'[i] = order[i + drop]
      BY <1>1, <1>3, <2>1, <2>4, AppendProperties DEF HeldInv
    <3>2. order'[i] \in DOMAIN records /\ order'[i] # id
      BY <1>1, <1>3, <2>4, <3>1 DEF HeldInv
    <3>. QED
      BY <1>3, <1>4, <1>5, <2>3, <2>4, <3>1, <3>2 DEF HeldInv
  <2>5. CASE i + drop = Len(order) + 1
    <3>1. order'[i] = id
      BY <1>1, <1>3, <2>1, <2>5, AppendProperties DEF HeldInv
    <3>. QED
      BY <1>1, <1>4, <1>5, <2>3, <2>5, <3>1 DEF result, HeldInv
  <2>. QED
    BY <1>3, <1>6, <2>4, <2>5 DEF HeldInv
<1>8. Held' = Window!LastN(longer, Capacity)
  <2>1. CASE drop = 0
    <3>1. Held' = longer
      BY <1>4, <1>5, <1>6, <1>7, <2>1, SeqEqual DEF HeldInv
    <3>. QED
      BY <1>3, <1>5, <1>6, <2>1, <3>1 DEF Window!LastN, HeldInv
  <2>2. CASE drop = 1
    <3>. DEFINE shorter == SubSeq(longer, 2, Len(longer))
    <3>1. \A i \in 2..Len(longer) : longer[i] \in Ids \X Payloads
      BY <1>3, <1>5, ElementOfSeq DEF HeldInv
    <3>2. /\ shorter \in Seq(Ids \X Payloads) /\ Len(shorter) = Len(order)
          /\ \A i \in 1..Len(order) : shorter[i] = longer[i + 1]
      BY <1>3, <1>5, <1>6, <2>2, <3>1, SubSeqProperties DEF HeldInv
    <3>3. Window!LastN(longer, Capacity) = shorter
      <4>1. Len(longer) = Capacity + 1 /\ ~(Len(longer) <= Capacity)
        BY <1>3, <1>5, <1>6, <2>2 DEF HeldInv
      <4>2. Len(longer) - Capacity + 1 = 2
        BY <4>1
      <4>3. Window!LastN(longer, Capacity)
              = SubSeq(longer, Len(longer) - Capacity + 1, Len(longer))
        BY <4>1 DEF Window!LastN
      <4>. QED
        BY <4>2, <4>3
    <3>. HIDE DEF shorter
    <3>4. Held' = shorter
      BY <1>4, <1>6, <1>7, <2>2, <3>2, SeqEqual DEF HeldInv
    <3>. QED
      BY <3>3, <3>4
  <2>. QED
    BY <2>1, <2>2
<1>. QED
  BY <1>1, <1>8 DEF Window!Remember, longer

\* The refinement: a window that keeps the most recent results, at most Capacity
\* of them (memory_store.go: Save and its eviction loop).
THEOREM StoreIsAWindow == Spec => KeepsTheMostRecent
<1>1. Init => Window!Init
  BY DEF Init, Window!Init, Held
<1>2. IInv /\ IInv' /\ [Next]_storeVars => [Window!Next]_Held
  <2>. SUFFICES ASSUME IInv, IInv', [Next]_storeVars PROVE [Window!Next]_Held
    OBVIOUS
  <2>1. CASE UNCHANGED <<records, order>>
    BY <2>1 DEF Held
  <2>2. ASSUME NEW id \in Ids, StoreRun(id) PROVE Window!Next
    BY <2>2, SaveRemembers DEF Window!Next
  <2>3. CASE Restart
    <3>1. Held' = <<>>
      BY <2>3 DEF Restart, Held
    <3>. QED
      BY <3>1 DEF Window!Next, Window!Forget
  <2>. QED
    BY <2>1, <2>2, <2>3 DEF Next, StartRun, FailRun, AnswerRun, storeVars
<1>. QED
  BY <1>1, <1>2, Invariance, PTL DEF Spec, KeepsTheMostRecent, Window!Spec
=============================================================================
