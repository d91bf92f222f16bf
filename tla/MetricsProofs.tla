----------------------------- MODULE MetricsProofs -----------------------------
(***************************************************************************)
(* Theorems about Metrics, for every Retention and set of requests.        *)
(* MetricsInv is inductive.  It adds to the properties that what           *)
(* GetPerformance holds are records of completed requests, which is why    *)
(* they stand still: a request records nothing after its end.              *)
(***************************************************************************)
EXTENDS Metrics, SequenceTheorems, FiniteSetTheorems, TLAPS

Records == [id : Requests \cup {Event}, status : Statuses]

Completed == {r \in Requests : life[r] = "complete"}

MetricsInv == MetricsTypeOK /\ RecordsExact /\ CountsExact /\ computing \subseteq Completed

\* Each request has at most one record in b.
Single(b) ==
    \A i, j \in DOMAIN b : b[i].id = b[j].id /\ b[i].id # Event => i = j

-----------------------------------------------------------------------------
(* The ring *)

LEMMA RebuildExact ==
    ASSUME NEW b \in Seq(Records), Single(b)
    PROVE  /\ DOMAIN RebuildByID(b) = IDs(b) /\ IDs(b) \subseteq Requests
           /\ \A i \in DOMAIN b : b[i].id # Event => RebuildByID(b)[b[i].id] = i
<1>1. IDs(b) \subseteq Requests
  <2>1. \A i \in DOMAIN b : b[i] \in Records
    OBVIOUS
  <2> QED
    BY <2>1 DEF IDs, Records
<1>2. ASSUME NEW i \in DOMAIN b, b[i].id # Event
      PROVE  RebuildByID(b)[b[i].id] = i
  <2> DEFINE IsLast(k) == b[k].id = b[i].id /\ \A j \in DOMAIN b : b[j].id = b[i].id => j <= k
  <2>1. b[i].id \in IDs(b)
    BY <1>2 DEF IDs
  <2>2. RebuildByID(b)[b[i].id] = CHOOSE k \in DOMAIN b : IsLast(k)
    BY <2>1 DEF RebuildByID
  <2>3. IsLast(i)
    BY <1>2 DEF Single
  <2>4. \A k \in DOMAIN b : IsLast(k) => k = i
    BY <1>2 DEF Single
  <2> HIDE DEF IsLast
  <2> QED
    BY <2>2, <2>3, <2>4
<1> QED
  BY <1>1, <1>2 DEF RebuildByID

\* What is left of b is a part of it, in the same order.
LEMMA TrimKeeps ==
    ASSUME NEW b \in Seq(Records), Single(b)
    PROVE  /\ TrimBuffer(b) \in Seq(Records) /\ Single(TrimBuffer(b))
           /\ Len(b) <= Retention + 1 => Len(TrimBuffer(b)) <= Retention
           /\ \A i \in DOMAIN TrimBuffer(b) : \E j \in DOMAIN b : TrimBuffer(b)[i] = b[j]
<1>1. CASE ~(Len(b) > Retention)
  BY <1>1, MetricsAssumption DEF TrimBuffer
<1>2. CASE Len(b) > Retention
  <2> DEFINE m == Len(b) - Retention + 1
             t == TrimBuffer(b)
  <2>1. /\ t = SubSeq(b, m, Len(b)) /\ Retention \in Nat /\ Len(b) \in Nat /\ m \in 1 .. Len(b) + 1
        /\ \A i \in m .. Len(b) : b[i] \in Records
    BY <1>2, MetricsAssumption DEF TrimBuffer
  <2>2. /\ t \in Seq(Records)
        /\ Len(t) = IF m <= Len(b) THEN Len(b) - m + 1 ELSE 0
        /\ \A i \in 1 .. Len(b) - m + 1 : t[i] = b[m + i - 1]
    <3> HIDE DEF m, t
    <3> QED
      BY <2>1, SubSeqProperties
  <2>3. Len(t) = Retention /\ Len(b) - m + 1 = Retention
    BY <2>1, <2>2
  <2>4. \A i \in DOMAIN t : m + i - 1 \in DOMAIN b /\ t[i] = b[m + i - 1]
    BY <2>1, <2>2, <2>3
  <2>5. Single(t)
    <3> SUFFICES ASSUME NEW i \in DOMAIN t, NEW j \in DOMAIN t,
                        t[i].id = t[j].id, t[i].id # Event
                 PROVE  i = j
      BY DEF Single
    <3>1. m + i - 1 = m + j - 1
      BY <2>4 DEF Single
    <3>2. i \in Int /\ j \in Int /\ m \in Int
      BY <2>1, <2>2
    <3> HIDE DEF m
    <3> QED
      BY <3>1, <3>2
  <2> QED
    BY <2>1, <2>2, <2>3, <2>4, <2>5
<1> QED
  BY <1>1, <1>2
\* A record that is appended, when the request has none.
LEMMA AppendKeeps ==
    ASSUME MetricsTypeOK, RecordsExact, NEW id \in (Requests \cup {Event}) \ DOMAIN byID,
           NEW status \in Statuses, AppendRecord(id, status)
    PROVE  /\ buffer' \in Seq(Records) /\ Len(buffer') <= Retention
           /\ DOMAIN byID' = IDs(buffer') /\ IDs(buffer') \subseteq Requests
           /\ \A i \in DOMAIN buffer' : buffer'[i].id # Event => byID'[buffer'[i].id] = i
           /\ \A i \in DOMAIN buffer' : \/ buffer'[i] = [id |-> id, status |-> status]
                                        \/ \E j \in DOMAIN buffer : buffer'[i] = buffer[j]
<1> DEFINE e == [id |-> id, status |-> status]
           b == Append(buffer, e)
<1>1. buffer \in Seq(Records) /\ Len(buffer) <= Retention /\ e \in Records
  BY DEF MetricsTypeOK, Records
<1>2. /\ b \in Seq(Records) /\ Len(b) = Len(buffer) + 1
      /\ \A i \in 1 .. Len(buffer) : b[i] = buffer[i]
      /\ b[Len(buffer) + 1] = e
  <2> HIDE DEF e
  <2> QED
    BY <1>1, AppendProperties
<1>3. DOMAIN buffer = 1 .. Len(buffer) /\ DOMAIN b = 1 .. Len(buffer) + 1 /\ Len(buffer) \in Nat
  BY <1>1, <1>2
<1>4. Single(buffer)
  BY DEF RecordsExact, Single
<1>5. \A i \in DOMAIN buffer : buffer[i].id # Event => buffer[i].id # id
  BY DEF RecordsExact, IDs
<1>6. \A i \in DOMAIN b : i \in DOMAIN buffer \/ i = Len(buffer) + 1
  BY <1>3
<1>7. Single(b)
  <2> SUFFICES ASSUME NEW i \in DOMAIN b, NEW j \in DOMAIN b, b[i].id = b[j].id, b[i].id # Event
               PROVE  i = j
    BY DEF Single
  <2>1. e.id = id
    OBVIOUS
  <2> HIDE DEF b, e
  <2> QED
    BY <2>1, <1>2, <1>3, <1>4, <1>5, <1>6 DEF Single
<1>8. buffer' = TrimBuffer(b) /\ byID' = RebuildByID(buffer')
  BY DEF AppendRecord
<1>9. /\ buffer' \in Seq(Records) /\ Single(buffer') /\ Len(buffer') <= Retention
      /\ \A i \in DOMAIN buffer' : \E j \in DOMAIN b : buffer'[i] = b[j]
  <2>1. Len(b) <= Retention + 1
    BY <1>1, <1>2, <1>3, MetricsAssumption
  <2> HIDE DEF b
  <2> QED
    BY <2>1, <1>2, <1>7, <1>8, TrimKeeps
<1>10. \A i \in DOMAIN buffer' : buffer'[i] = e \/ \E j \in DOMAIN buffer : buffer'[i] = buffer[j]
  <2> HIDE DEF b, e
  <2> QED
    BY <1>2, <1>3, <1>6, <1>9
<1> QED
  BY <1>8, <1>9, <1>10, RebuildExact

\* Recording a request keeps the ring exact, when the request's stage is moved
\* on with it.
LEMMA RecordKeeps ==
    ASSUME MetricsTypeOK, RecordsExact, NEW r \in Requests, NEW stage \in Lives,
           NEW hit \in BOOLEAN, NEW recompute \in BOOLEAN,
           life' = [life EXCEPT ![r] = stage], Record(r, StatusIn(stage), hit, recompute)
    PROVE  /\ buffer' \in Seq(Records) /\ Len(buffer') <= Retention
           /\ DOMAIN byID' \subseteq Requests
           /\ \A q \in DOMAIN byID' : byID'[q] \in 1 .. Len(buffer')
           /\ RecordsExact'
<1> DEFINE s == StatusIn(stage)
<1>1. /\ s \in Statuses /\ life' \in [Requests -> Lives]
      /\ buffer \in Seq(Records) /\ Event \notin Requests
  BY MetricsAssumption DEF StatusIn, Statuses, Terminal, MetricsTypeOK, Records
<1>2. \A q \in Requests \ {r} : life'[q] = life[q]
  BY DEF MetricsTypeOK
<1>3. life'[r] = stage
  BY DEF MetricsTypeOK
<1>4. CASE r \in DOMAIN byID
  <2> DEFINE k == byID[r]
  <2>1. k \in DOMAIN buffer /\ buffer[k].id = r
    BY <1>1, <1>4 DEF RecordsExact, IDs
  <2>2. buffer' = [buffer EXCEPT ![k].status = s] /\ byID' = byID
    BY <1>4 DEF Record
  <2>3. /\ buffer' \in Seq(Records) /\ Len(buffer') = Len(buffer)
        /\ DOMAIN buffer' = DOMAIN buffer
        /\ buffer'[k] = [buffer[k] EXCEPT !.status = s]
        /\ \A i \in DOMAIN buffer \ {k} : buffer'[i] = buffer[i]
    <3>1. [buffer[k] EXCEPT !.status = s] \in Records
      <4>1. buffer[k] \in Records
        BY <1>1, <2>1
      <4> HIDE DEF k, s
      <4> QED
        BY <1>1, <4>1 DEF Records
    <3> HIDE DEF k, s
    <3> QED
      BY <1>1, <2>1, <2>2, <3>1
  <2>4. \A i \in DOMAIN buffer : buffer'[i].id = buffer[i].id
    <3>1. [buffer[k] EXCEPT !.status = s].id = buffer[k].id
      <4>1. buffer[k] \in Records
        BY <1>1, <2>1
      <4> HIDE DEF k, s
      <4> QED
        BY <4>1 DEF Records
    <3> HIDE DEF k, s
    <3> QED
      BY <2>3, <3>1
  <2>5. IDs(buffer') = IDs(buffer)
    BY <2>3, <2>4 DEF IDs
  <2>6. buffer'[k].status = s
    BY <1>1, <2>1, <2>3 DEF Records
  <2>7. ASSUME NEW i \in DOMAIN buffer', buffer'[i].id # Event
        PROVE  byID'[buffer'[i].id] = i /\ buffer'[i].status = StatusIn(life'[buffer'[i].id])
    <3>1. byID'[buffer'[i].id] = i
      BY <2>2, <2>3, <2>4, <2>7 DEF RecordsExact
    <3>2. CASE i = k
      BY <2>1, <2>4, <2>6, <1>3, <3>1, <3>2
    <3>3. CASE i # k
      <4>1. buffer'[i] = buffer[i] /\ i \in DOMAIN buffer
        BY <2>3, <3>3
      <4>2. buffer[i].id # r /\ buffer[i].id \in Requests
        <5>1. byID[buffer[i].id] = i
          BY <4>1, <2>7 DEF RecordsExact
        <5>2. buffer[i] \in Records
          BY <1>1, <4>1
        <5> QED
          BY <5>1, <5>2, <3>3, <2>7, <4>1 DEF Records
      <4> QED
        BY <3>1, <4>1, <4>2, <1>2, <2>7 DEF RecordsExact
    <3> QED
      BY <3>2, <3>3
  <2>8. RecordsExact'
    BY <2>2, <2>5, <2>7 DEF RecordsExact
  <2> QED
    BY <2>2, <2>3, <2>8 DEF MetricsTypeOK
<1>5. CASE r \notin DOMAIN byID
  <2>1. /\ buffer' \in Seq(Records) /\ Len(buffer') <= Retention
        /\ DOMAIN byID' = IDs(buffer') /\ IDs(buffer') \subseteq Requests
        /\ \A i \in DOMAIN buffer' : buffer'[i].id # Event => byID'[buffer'[i].id] = i
        /\ \A i \in DOMAIN buffer' : \/ buffer'[i] = [id |-> r, status |-> s]
                                     \/ \E j \in DOMAIN buffer : buffer'[i] = buffer[j]
    <3>1. AppendRecord(r, s)
      BY <1>5 DEF Record
    <3>2. r \in (Requests \cup {Event}) \ DOMAIN byID
      BY <1>5
    <3> HIDE DEF s
    <3> QED
      BY <1>1, <3>1, <3>2, AppendKeeps
  <2>2. ASSUME NEW i \in DOMAIN buffer', buffer'[i].id # Event
        PROVE  buffer'[i].status = StatusIn(life'[buffer'[i].id])
    <3>1. CASE buffer'[i] = [id |-> r, status |-> s]
      BY <3>1, <1>3
    <3>2. ASSUME NEW j \in DOMAIN buffer, buffer'[i] = buffer[j]
          PROVE  buffer'[i].status = StatusIn(life'[buffer'[i].id])
      <4>1. buffer[j].id \in Requests \ {r}
        <5>1. buffer[j] \in Records
          BY <1>1
        <5>2. buffer[j].id \in IDs(buffer)
          BY <3>2, <2>2 DEF IDs
        <5> QED
          BY <5>1, <5>2, <1>5, <3>2, <2>2 DEF Records, RecordsExact
      <4> QED
        BY <4>1, <3>2, <1>2, <2>2 DEF RecordsExact
    <3> QED
      BY <2>1, <3>1, <3>2
  <2>3. \A q \in DOMAIN byID' : byID'[q] \in 1 .. Len(buffer')
    BY <2>1 DEF IDs
  <2> QED
    BY <2>1, <2>2, <2>3 DEF RecordsExact
<1> QED
  BY <1>4, <1>5
-----------------------------------------------------------------------------
(* The counters *)

\* One more request is completed.
LEMMA OneMoreCompleted ==
    ASSUME life \in [Requests -> Lives], NEW r \in Requests, life[r] # "complete",
           life' = [life EXCEPT ![r] = "complete"]
    PROVE  Cardinality(Completed') = Cardinality(Completed) + 1
<1>1. Completed' = Completed \cup {r} /\ r \notin Completed
  BY DEF Completed
<1>2. IsFiniteSet(Completed)
  <2>1. Completed \in SUBSET Requests /\ IsFiniteSet(Requests)
    BY MetricsAssumption DEF Completed
  <2> HIDE DEF Completed
  <2> QED
    BY <2>1, FS_Subset
<1> HIDE DEF Completed
<1> QED
  BY <1>1, <1>2, FS_AddElement

-----------------------------------------------------------------------------
(* The invariant *)

LEMMA MetricsInit == Init => MetricsInv
<1> SUFFICES ASSUME Init PROVE MetricsInv
  OBVIOUS
<1>1. MetricsTypeOK
  BY MetricsAssumption DEF Init, MetricsTypeOK, Lives
<1>2. RecordsExact
  BY DEF Init, RecordsExact, IDs
<1>3. Completed = {} /\ computing \subseteq Completed
  BY DEF Init, Completed
<1>4. CountsExact
  <2>1. Cardinality(Completed) = 0
    BY <1>3, FS_EmptySet
  <2> QED
    BY <2>1 DEF Init, CountsExact, Completed
<1> QED
  BY <1>1, <1>2, <1>3, <1>4 DEF MetricsInv

\* A step of a request, whatever it records: the stage it comes to and the status
\* recorded belong together, and only an answer counts.
LEMMA RequestStep ==
    ASSUME MetricsInv, NEW r \in Requests, NEW stage \in Lives,
           NEW hit \in BOOLEAN, NEW recompute \in BOOLEAN,
           life[r] \notin Terminal, life' = [life EXCEPT ![r] = stage],
           Record(r, StatusIn(stage), hit, recompute)
    PROVE  MetricsInv'
<1>1. /\ buffer' \in Seq(Records) /\ Len(buffer') <= Retention
      /\ DOMAIN byID' \subseteq Requests
      /\ \A q \in DOMAIN byID' : byID'[q] \in 1 .. Len(buffer')
      /\ RecordsExact'
  BY RecordKeeps DEF MetricsInv
<1>2. life' \in [Requests -> Lives] /\ UNCHANGED <<computing, events>>
  BY DEF MetricsInv, MetricsTypeOK, Record
<1>3. counts' \in [total : Nat, hits : Nat, recomputes : Nat] /\ CountsExact'
  <2>1. /\ counts \in [total : Nat, hits : Nat, recomputes : Nat]
        /\ counts.total = Cardinality(Completed)
        /\ counts.recomputes <= counts.hits /\ counts.hits <= counts.total
    BY DEF MetricsInv, MetricsTypeOK, CountsExact, Completed
  <2>2. CASE stage = "complete"
    <3>1. Cardinality(Completed') = Cardinality(Completed) + 1
      BY <2>2, OneMoreCompleted DEF MetricsInv, MetricsTypeOK, Terminal
    <3>2. /\ counts' = [total |-> counts.total + 1,
                        hits |-> counts.hits + (IF hit THEN 1 ELSE 0),
                        recomputes |-> counts.recomputes
                                          + (IF hit /\ recompute THEN 1 ELSE 0)]
      BY <2>2 DEF Record, Count, StatusIn, Terminal
    <3>3. /\ counts'.total = Cardinality(Completed')
          /\ counts' \in [total : Nat, hits : Nat, recomputes : Nat]
      BY <2>1, <3>1, <3>2
    <3>4. counts'.recomputes <= counts'.hits /\ counts'.hits <= counts'.total
      BY <2>1, <3>2
    <3> QED
      BY <3>3, <3>4 DEF CountsExact, Completed
  <2>3. CASE stage # "complete"
    <3>1. Completed' = Completed
      BY <2>3 DEF Completed, MetricsInv, MetricsTypeOK, Terminal
    <3>2. counts' = counts
      BY <2>3 DEF Record, Count, StatusIn
    <3> QED
      BY <2>1, <3>1, <3>2 DEF CountsExact, Completed
  <2> QED
    BY <2>2, <2>3
<1>4. computing' \subseteq Completed'
  BY <1>2 DEF MetricsInv, MetricsTypeOK, Completed, Terminal
<1>5. MetricsTypeOK'
  BY <1>1, <1>2, <1>3 DEF MetricsInv, MetricsTypeOK, Records
<1> QED
  BY <1>1, <1>3, <1>4, <1>5 DEF MetricsInv

LEMMA EventKeeps == MetricsInv /\ RecordEvent => MetricsInv'
<1> SUFFICES ASSUME MetricsInv, RecordEvent PROVE MetricsInv'
  OBVIOUS
<1>1. /\ AppendRecord(Event, "incomplete") /\ UNCHANGED <<counts, computing, life>>
      /\ events' = events + 1 /\ events < MaxEvents
  BY DEF RecordEvent
<1>2. Event \in (Requests \cup {Event}) \ DOMAIN byID /\ "incomplete" \in Statuses
  BY MetricsAssumption DEF MetricsInv, MetricsTypeOK, Statuses
<1>3. /\ buffer' \in Seq(Records) /\ Len(buffer') <= Retention
      /\ DOMAIN byID' = IDs(buffer') /\ IDs(buffer') \subseteq Requests
      /\ \A i \in DOMAIN buffer' : buffer'[i].id # Event => byID'[buffer'[i].id] = i
      /\ \A i \in DOMAIN buffer' : \/ buffer'[i] = [id |-> Event, status |-> "incomplete"]
                                   \/ \E j \in DOMAIN buffer : buffer'[i] = buffer[j]
  BY <1>1, <1>2, AppendKeeps DEF MetricsInv
<1>4. \A q \in DOMAIN byID' : byID'[q] \in 1 .. Len(buffer')
  BY <1>3 DEF IDs
<1>5. MetricsTypeOK'
  BY <1>1, <1>3, <1>4, MetricsAssumption DEF MetricsInv, MetricsTypeOK, Records
<1>6. RecordsExact'
  BY <1>1, <1>3 DEF MetricsInv, RecordsExact
<1>7. CountsExact' /\ computing' \subseteq Completed'
  BY <1>1 DEF MetricsInv, CountsExact, Completed
<1> QED
  BY <1>5, <1>6, <1>7 DEF MetricsInv

LEMMA PerformanceKeeps ==
    ASSUME MetricsInv, BeginPerformance \/ EndPerformance \/ UNCHANGED vars
    PROVE  MetricsInv'
<1>1. UNCHANGED <<buffer, byID, counts, life, events>>
  BY DEF BeginPerformance, EndPerformance, vars
<1>2. ASSUME NEW i \in DOMAIN buffer, Chosen(buffer[i])
      PROVE  buffer[i].id \in Completed
  <2>1. buffer \in Seq(Records)
    BY DEF MetricsInv, MetricsTypeOK, Records
  <2>2. buffer[i] \in Records
    BY <2>1
  <2>3. buffer[i].id \in Requests /\ buffer[i].status = "complete"
    BY <1>2, <2>2 DEF Chosen, Records
  <2> QED
    BY <1>2, <2>3 DEF Chosen, MetricsInv, RecordsExact, Completed, StatusIn
<1>3. computing' \subseteq Completed
  BY <1>2 DEF BeginPerformance, EndPerformance, vars, MetricsInv
<1>4. computing' \subseteq Requests /\ Completed' = Completed
  BY <1>1, <1>3 DEF Completed
<1>5. MetricsTypeOK' /\ RecordsExact' /\ CountsExact'
  BY <1>1, <1>4 DEF MetricsInv, MetricsTypeOK, RecordsExact, CountsExact
<1> QED
  BY <1>3, <1>4, <1>5 DEF MetricsInv

LEMMA MetricsStep == MetricsInv /\ [Next]_vars => MetricsInv'
<1> SUFFICES ASSUME MetricsInv, [Next]_vars PROVE MetricsInv'
  OBVIOUS
<1>1. ASSUME NEW r \in Requests, Arrive(r)
      PROVE  MetricsInv'
  BY <1>1, RequestStep DEF Arrive, StatusIn, Terminal, Lives
<1>2. ASSUME NEW r \in Requests, NEW hit \in BOOLEAN, Route(r, hit)
      PROVE  MetricsInv'
  BY <1>2, RequestStep DEF Route, StatusIn, Terminal, Lives
<1>3. ASSUME NEW r \in Requests, NEW hit \in BOOLEAN, NEW recompute \in BOOLEAN,
             Complete(r, hit, recompute)
      PROVE  MetricsInv'
  BY <1>3, RequestStep DEF Complete, StatusIn, Terminal, Lives
<1>4. ASSUME NEW r \in Requests, NEW status \in Terminal, Fail(r, status)
      PROVE  MetricsInv'
  BY <1>4, RequestStep DEF Fail, StatusIn, Terminal, Lives
<1> QED
  BY <1>1, <1>2, <1>3, <1>4, EventKeeps, PerformanceKeeps DEF Next

LEMMA MetricsInvariant == MetricsSpec => []MetricsInv
  BY MetricsInit, MetricsStep, PTL DEF MetricsSpec

\* MetricsTypeOK: in particular the buffer never exceeds METRICS_RETENTION.
THEOREM MetricsTypeCorrect == MetricsSpec => []MetricsTypeOK
<1>1. MetricsInv => MetricsTypeOK
  BY DEF MetricsInv
<1> QED
  BY <1>1, MetricsInvariant, PTL

\* RecordsExact: ByID and the records stay exact through every trimming.
THEOREM RecordsStayExact == MetricsSpec => []RecordsExact
<1>1. MetricsInv => RecordsExact
  BY DEF MetricsInv
<1> QED
  BY <1>1, MetricsInvariant, PTL

\* CountsExact: the counters count each completed request once.
THEOREM CountsStayExact == MetricsSpec => []CountsExact
<1>1. MetricsInv => CountsExact
  BY DEF MetricsInv
<1> QED
  BY <1>1, MetricsInvariant, PTL

\* NoWriteWhileRead: the records that GetPerformance reads unlocked stand still.
THEOREM UnlockedReadsSafe == MetricsSpec => NoWriteWhileRead
<1>1. MetricsInv /\ [Next]_vars => \A r \in computing : life'[r] = life[r]
  <2> SUFFICES ASSUME MetricsInv, [Next]_vars, NEW r \in computing
               PROVE  life'[r] = life[r]
    OBVIOUS
  <2>1. r \in Requests /\ life[r] = "complete" /\ life \in [Requests -> Lives]
    BY DEF MetricsInv, MetricsTypeOK, Completed
  <2> QED
    BY <2>1 DEF Next, vars, Arrive, Route, Complete, Fail, RecordEvent, BeginPerformance,
                EndPerformance
<1> QED
  BY <1>1, MetricsInvariant, PTL DEF MetricsSpec, NoWriteWhileRead
===============================================================================
