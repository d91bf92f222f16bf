-------------------------------- MODULE Metrics --------------------------------
(***************************************************************************)
(* The metrics collector, metrics.go.                                      *)
(*                                                                         *)
(* A request is recorded on arrival, when it has a slot, and at its end;   *)
(* each time its record in the buffer is updated in place.  The buffer is  *)
(* trimmed from the front, and diagnostic events share it, so that a       *)
(* request may find its record gone, and is then appended anew.  ByID says *)
(* where the records are.  The dashboard computes from complete records    *)
(* after it has let go of the lock, although records are shared maps.      *)
(*                                                                         *)
(* A step is one section of Mu.  What calls Record when is the handlers',  *)
(* the dispatcher's and the workers' part: life.                           *)
(*                                                                         *)
(* An operator X_Something, just before X, is X with a plausible bug: see  *)
(* Dispatcher.                                                             *)
(***************************************************************************)
EXTENDS Naturals, Sequences, FiniteSets

CONSTANTS
    Requests,
    Retention,  (* METRICS_RETENTION                                        *)
    Event,      (* id of a diagnostic event: no request                     *)
    MaxEvents   (* bound: diagnostic events                                 *)

ASSUME MetricsAssumption ==
    /\ IsFiniteSet(Requests) /\ Event \notin Requests
    /\ Retention \in Nat /\ MaxEvents \in Nat

VARIABLES
    buffer,     (* the records: who, and the status recorded last           *)
    byID,       (* ByID                                                     *)
    counts,     (* totalRequests, cacheHits, cacheRecomputes                *)
    computing,  (* requests whose records GetPerformance holds, unlocked    *)
    life,       (* what each request has come to                            *)
    events      (* diagnostic events so far                                 *)

vars == <<buffer, byID, counts, computing, life, events>>

Terminal == {"complete", "cancelled", "backend_error"}
Statuses == {"incomplete"} \cup Terminal
Lives == {"new", "arrived", "routed"} \cup Terminal

\* The status that a request in this stage has recorded.
StatusIn(stage) == IF stage \in Terminal THEN stage ELSE "incomplete"

Init ==
    /\ buffer = <<>> /\ byID = [r \in {} |-> 0]
    /\ counts = [total |-> 0, hits |-> 0, recomputes |-> 0]
    /\ computing = {}
    /\ life = [r \in Requests |-> "new"] /\ events = 0

-----------------------------------------------------------------------------
(* The ring *)

TrimBuffer_OneMore(b) ==
    IF Len(b) > Retention THEN SubSeq(b, Len(b) - Retention, Len(b)) ELSE b

\* trimBuffer: the newest Retention records stay.
TrimBuffer(b) ==
    IF Len(b) > Retention THEN SubSeq(b, Len(b) - Retention + 1, Len(b)) ELSE b

IDs(b) == {b[i].id : i \in DOMAIN b} \ {Event}

\* rebuildByID: a later record of the same request would win.
RebuildByID(b) ==
    [r \in IDs(b) |-> CHOOSE i \in DOMAIN b :
                         b[i].id = r /\ \A j \in DOMAIN b : b[j].id = r => j <= i]

AppendRecord_StaleByID(id, status) ==
    /\ buffer' = TrimBuffer(Append(buffer, [id |-> id, status |-> status]))
    /\ byID' = [r \in IDs(buffer') |-> IF r \in DOMAIN byID THEN byID[r] ELSE Len(buffer')]

AppendRecord(id, status) ==
    /\ buffer' = TrimBuffer(Append(buffer, [id |-> id, status |-> status]))
    /\ byID' = RebuildByID(buffer')

Count_AnyEnd(status, hit, recompute) ==
    counts' = IF status \in Terminal
                THEN [total |-> counts.total + 1,
                      hits |-> counts.hits + (IF hit THEN 1 ELSE 0),
                      recomputes |-> counts.recomputes + (IF hit /\ recompute THEN 1 ELSE 0)]
                ELSE counts

\* incrementCounters, for complete records only
Count(status, hit, recompute) ==
    counts' = IF status = "complete"
                THEN [total |-> counts.total + 1,
                      hits |-> counts.hits + (IF hit THEN 1 ELSE 0),
                      recomputes |-> counts.recomputes + (IF hit /\ recompute THEN 1 ELSE 0)]
                ELSE counts

\* Record, for a request
Record(r, status, hit, recompute) ==
    /\ IF r \in DOMAIN byID
         THEN /\ buffer' = [buffer EXCEPT ![byID[r]].status = status]
              /\ UNCHANGED byID
         ELSE AppendRecord(r, status)
    /\ Count(status, hit, recompute)
    /\ UNCHANGED <<computing, events>>

-----------------------------------------------------------------------------
(* Who records *)

\* ChatHandler
Arrive(r) ==
    /\ life[r] = "new"
    /\ life' = [life EXCEPT ![r] = "arrived"]
    /\ Record(r, "incomplete", FALSE, FALSE)

\* processWorkerRequest, once the request has its slot
Route(r, hit) ==
    /\ life[r] = "arrived"
    /\ life' = [life EXCEPT ![r] = "routed"]
    /\ Record(r, "incomplete", hit, FALSE)

\* An answer: processNonStream or the end of a stream
Complete(r, hit, recompute) ==
    /\ life[r] = "routed"
    /\ life' = [life EXCEPT ![r] = "complete"]
    /\ Record(r, "complete", hit, recompute)

\* recordEarlyError, recordChatError, discard, or a stream that was cut off
Fail(r, status) ==
    /\ life[r] \in {"arrived", "routed"} /\ status \in Terminal \ {"complete"}
    /\ life' = [life EXCEPT ![r] = status]
    /\ Record(r, status, FALSE, FALSE)

\* Record of liveness and transfer events
RecordEvent ==
    /\ events < MaxEvents
    /\ events' = events + 1
    /\ AppendRecord(Event, "incomplete")
    /\ UNCHANGED <<counts, computing, life>>

Chosen_AllRequests(record) == record.id # Event

\* The records GetPerformance computes from.
Chosen(record) == record.id # Event /\ record.status = "complete"

\* GetPerformance under the lock: it keeps the records, not copies.
BeginPerformance ==
    /\ computing = {}
    /\ computing' = {buffer[i].id : i \in {j \in DOMAIN buffer : Chosen(buffer[j])}}
    /\ UNCHANGED <<buffer, byID, counts, life, events>>

\* GetPerformance has computed its rates and percentiles.
EndPerformance ==
    /\ computing # {}
    /\ computing' = {}
    /\ UNCHANGED <<buffer, byID, counts, life, events>>

Next ==
    \/ \E r \in Requests :
          \/ Arrive(r)
          \/ \E hit \in BOOLEAN : Route(r, hit)
          \/ \E hit, recompute \in BOOLEAN : Complete(r, hit, recompute)
          \/ \E status \in Terminal : Fail(r, status)
    \/ RecordEvent
    \/ BeginPerformance \/ EndPerformance

MetricsSpec == Init /\ [][Next]_vars

-----------------------------------------------------------------------------
(* Properties *)

MetricsTypeOK ==
    /\ buffer \in Seq([id : Requests \cup {Event}, status : Statuses])
    /\ Len(buffer) <= Retention
    /\ DOMAIN byID \subseteq Requests /\ \A r \in DOMAIN byID : byID[r] \in 1 .. Len(buffer)
    /\ counts \in [total : Nat, hits : Nat, recomputes : Nat]
    /\ computing \subseteq Requests
    /\ life \in [Requests -> Lives] /\ events \in 0 .. MaxEvents

\* However records are trimmed away and come back, ByID finds exactly the requests
\* in the buffer, each has one record, and it says what became of the request
\* ("stale indices ... cause completion records to create duplicate entries").
RecordsExact ==
    /\ DOMAIN byID = IDs(buffer)
    /\ \A i \in DOMAIN buffer :
          buffer[i].id # Event =>
             /\ byID[buffer[i].id] = i
             /\ buffer[i].status = StatusIn(life[buffer[i].id])

\* Each completed request is counted once, also when its record was trimmed away,
\* and no other is ("Only complete increments counters").
CountsExact ==
    /\ counts.total = Cardinality({r \in Requests : life[r] = "complete"})
    /\ counts.recomputes <= counts.hits /\ counts.hits <= counts.total

\* GetPerformance reads records without the lock: nobody writes them meanwhile.
\* (Every write to a request's record is a step of that request.)
NoWriteWhileRead == [][\A r \in computing : life'[r] = life[r]]_vars
=============================================================================
