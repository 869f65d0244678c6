---------------------------- MODULE Calculations ----------------------------
(***************************************************************************)
(* CostCalculator.calculate and the persistence and evidence it drives,    *)
(* for the calculations of one series (one calculation_id: every row key   *)
(* below embeds it, so series do not meet).  Callers run concurrently and  *)
(* are split at their calls to the Meridian executor.  Boundary says which *)
(* transaction encloses the writes: none, the repository's own around the  *)
(* records and their calculation, or one the host opens around the call.   *)
(***************************************************************************)
EXTENDS Integers, FiniteSets

CONSTANTS
    Clients,      \* callers of calculate
    Inputs,       \* fingerprints of usage, rate-card pricing and calculator
    Allocations,  \* fingerprints of allocation specifications
    Keys,         \* Keys[a]: the allocation keys of a, numbered by cost_id
    Instants,     \* values of occurred_at
    Requests,     \* the calculations a client may ask for
    Boundary,
    StaleReads,   \* TRUE: a scan may miss rows, as pages read at different times may
    None

ASSUME KeysAssumption == Keys \in [Allocations -> (SUBSET Nat) \ {{}}]
ASSUME BoundaryAssumption == Boundary \in {"none", "repository", "host"}
ASSUME ReadAssumption == StaleReads \in BOOLEAN

Request == [input : Inputs, allocation : Allocations, at : Instants]

ASSUME RequestAssumption == Requests \subseteq Request

\* supersedes is the revision of the superseded row, 0 for None.
Calculation == [revision : Nat \ {0}, input : Inputs, allocation : Allocations,
                at : Instants, supersedes : Nat]
Record == [revision : Nat \ {0}, input : Inputs, allocation : Allocations,
           at : Instants, supersedes : Nat, key : Nat]

ASSUME NoneAssumption == None \notin Calculation /\ None \notin Request

Tables == {"calculations", "records", "audit", "lineage"}
Empty == [t \in Tables |-> {}]

VARIABLES
    db,       \* committed rows of each table; evidence is kept by revision
    open,     \* rows each client has written in its open transaction
    pc,       \* the next executor call of each client
    request,  \* what it calculates
    calc,     \* the calculation it holds: found, previous, or its own
    rows,     \* the records it holds
    todo,     \* those of them still to put
    status,   \* how its last call ended
    begun     \* history: the calculations committed when its call began

vars == <<db, open, pc, request, calc, rows, todo, status, begun>>

-----------------------------------------------------------------------------
(* The executor: reads see committed rows and the transaction's own.       *)

AroundRecords(c) == Boundary # "none" /\ pc[c] = "record"
AroundRepository(c) == Boundary # "none" /\ pc[c] \in {"record", "calculation"}
InTransaction(c) ==
    \/ Boundary = "host"
    \/ Boundary = "repository" /\ pc[c] \in {"record", "calculation"}

Sees(c, table) == db[table] \cup open[c][table]
\* A scan is read page by page, and its expression names neither an order nor a
\* consistency (CostQuery.expression); what it can miss is up to the executor.
Scanned(rowsThere) == IF StaleReads THEN SUBSET rowsThere ELSE {rowsThere}

\* The unique indexes: costId; calculationVersionId and calculationIdentity.
SameInput(k, l) == k.input = l.input
SameIdentity(k, l) == k.input = l.input /\ k.allocation = l.allocation

ClashRevisionOnly(table, r, s) ==
    CASE table = "records" ->
           r.revision = s.revision /\ r.allocation = s.allocation /\ r.key = s.key
      [] table = "calculations" -> r.revision = s.revision
      [] OTHER -> r = s
Clash(table, r, s) ==
    CASE table = "records" ->
           r.revision = s.revision /\ r.allocation = s.allocation /\ r.key = s.key
      [] table = "calculations" -> r.revision = s.revision \/ SameIdentity(r, s)
      [] OTHER -> r = s

\* A unique index makes a writer wait for the transaction that holds its key.
Blocked(c, table, row) ==
    \E d \in Clients \ {c} : \E r \in open[d][table] : Clash(table, r, row)

Write(c, table, row) ==
    IF InTransaction(c)
    THEN /\ open' = [open EXCEPT ![c][table] = open[c][table] \cup {row}]
         /\ UNCHANGED db
    ELSE /\ db' = [db EXCEPT ![table] = db[table] \cup {row}]
         /\ UNCHANGED open

Commit(c) ==
    /\ db' = [t \in Tables |-> db[t] \cup open[c][t]]
    /\ open' = [open EXCEPT ![c] = Empty]

-----------------------------------------------------------------------------
Init ==
    /\ db = Empty
    /\ open = [c \in Clients |-> Empty]
    /\ pc = [c \in Clients |-> "idle"]
    /\ request = [c \in Clients |-> None]
    /\ calc = [c \in Clients |-> None]
    /\ rows = [c \in Clients |-> {}]
    /\ todo = [c \in Clients |-> {}]
    /\ status = [c \in Clients |-> "none"]
    /\ begun = [c \in Clients |-> {}]

\* The card and the usage have been read: they are the input of the request.
Begin(c, q) ==
    /\ pc[c] = "idle"
    /\ pc' = [pc EXCEPT ![c] = "find"]
    /\ request' = [request EXCEPT ![c] = q]
    /\ calc' = [calc EXCEPT ![c] = None]
    /\ rows' = [rows EXCEPT ![c] = {}]
    /\ status' = [status EXCEPT ![c] = "none"]
    /\ begun' = [begun EXCEPT ![c] = db["calculations"]]
    /\ UNCHANGED <<db, open, todo>>

\* c goes on to its next executor call.
Goto(c, next) ==
    /\ pc' = [pc EXCEPT ![c] = next]
    /\ UNCHANGED <<request, status, begun>>

\* The call of c ends, with a calculation and its records or with an error.
Reply(c, how, k, R) ==
    /\ pc' = [pc EXCEPT ![c] = "idle"]
    /\ status' = [status EXCEPT ![c] = how]
    /\ calc' = [calc EXCEPT ![c] = k]
    /\ rows' = [rows EXCEPT ![c] = R]
    /\ todo' = [todo EXCEPT ![c] = {}]
    /\ UNCHANGED <<request, begun>>

\* What a call raises rolls its transaction back.
RaiseKeepingRows(c, how) == Reply(c, how, None, {}) /\ UNCHANGED <<db, open>>
Raise(c, how) ==
    /\ Reply(c, how, None, {})
    /\ open' = [open EXCEPT ![c] = Empty]
    /\ UNCHANGED db

Find(c) ==
    /\ pc[c] = "find"
    /\ \E found \in Scanned({k \in Sees(c, "calculations") : SameIdentity(k, request[c])}) :
          IF found = {} THEN Goto(c, "latest") /\ UNCHANGED <<db, open, calc, rows, todo>>
          ELSE \E k \in found :
                 IF found # {k} THEN Raise(c, "conflict")
                 ELSE /\ Goto(c, "replay")
                      /\ calc' = [calc EXCEPT ![c] = k]
                      /\ UNCHANGED <<db, open, rows, todo>>

RecordScans(c, revision) == Scanned({r \in Sees(c, "records") : r.revision = revision})

\* The records a calculation names: one for each key of its allocation.
Names(k, R) == {<<r.allocation, r.key>> : r \in R} = {k.allocation} \X Keys[k.allocation]

\* CostCalculationResult refuses records other than those the parent names.
ReplayWithoutEvidence(c) ==
    /\ pc[c] = "replay"
    /\ \E found \in RecordScans(c, calc[c].revision) :
          IF Names(calc[c], found)
          THEN /\ Goto(c, "finish")
               /\ rows' = [rows EXCEPT ![c] = found]
               /\ UNCHANGED <<db, open, calc, todo>>
          ELSE Raise(c, "invalid")
Replay(c) ==
    /\ pc[c] = "replay"
    /\ \E found \in RecordScans(c, calc[c].revision) :
          IF Names(calc[c], found)
          THEN /\ Goto(c, "audit")
               /\ rows' = [rows EXCEPT ![c] = found]
               /\ UNCHANGED <<db, open, calc, todo>>
          ELSE Raise(c, "invalid")

Oldest(S) == {k \in S : \A l \in S : k.revision =< l.revision}
Newest(S) == {k \in S : \A l \in S : l.revision =< k.revision}

Latest(c) ==
    /\ pc[c] = "latest"
    /\ \E seen \in Scanned(Sees(c, "calculations")) :
          IF seen = {} THEN UNCHANGED calc
          ELSE \E k \in Newest(seen) : calc' = [calc EXCEPT ![c] = k]
    /\ Goto(c, "previous") /\ UNCHANGED <<db, open, rows, todo>>

\* _records: one record per key, superseding the record of the previous
\* revision with the same allocation fingerprint (specification and key).
ProposedSameInput(q, revision, previous) ==
    {[revision |-> revision, input |-> q.input, allocation |-> q.allocation, at |-> q.at,
      key |-> k,
      supersedes |-> IF \E p \in previous : /\ p.input = q.input
                                            /\ p.allocation = q.allocation /\ p.key = k
                     THEN revision - 1 ELSE 0] : k \in Keys[q.allocation]}
Proposed(q, revision, previous) ==
    {[revision |-> revision, input |-> q.input, allocation |-> q.allocation, at |-> q.at,
      key |-> k,
      supersedes |-> IF \E p \in previous : p.allocation = q.allocation /\ p.key = k
                     THEN revision - 1 ELSE 0] : k \in Keys[q.allocation]}

Propose(c) ==
    LET q == request[c]
        last == IF calc[c] = None THEN 0 ELSE calc[c].revision
    IN  /\ pc[c] = "previous"
        /\ calc' = [calc EXCEPT ![c] =
               [revision |-> last + 1, input |-> q.input, allocation |-> q.allocation,
                at |-> q.at, supersedes |-> last]]
        /\ \E previous \in IF last = 0 THEN {{}} ELSE RecordScans(c, last) :
              LET proposed == Proposed(q, last + 1, previous)
              IN  rows' = [rows EXCEPT ![c] = proposed] /\ todo' = [todo EXCEPT ![c] = proposed]
        /\ Goto(c, "record") /\ UNCHANGED <<db, open>>

-----------------------------------------------------------------------------
(* persist_calculation.  A put first gets the row, and gets it again after *)
(* a ConflictError; rows never change, so the put alone decides: an equal  *)
(* row is kept, another row under one of its keys is a CostConflict.       *)

Put(c, table, row) ==
    /\ ~Blocked(c, table, row)
    /\ IF row \in Sees(c, table) THEN UNCHANGED <<db, open>> ELSE Write(c, table, row)

Refused(c, table, row) ==
    /\ ~Blocked(c, table, row)
    /\ row \notin Sees(c, table)
    /\ \E r \in Sees(c, table) : Clash(table, r, row)

\* Records are put in the order of their cost_id.
AnyOrder(R) == R
First(R) == {r \in R : \A s \in R : r.key =< s.key}

PutOneRecord(c) ==
    /\ pc[c] = "record"
    /\ \E r \in First(todo[c]) :
          IF Refused(c, "records", r) THEN Raise(c, "conflict")
          ELSE /\ Put(c, "records", r) /\ todo' = [todo EXCEPT ![c] = {}]
               /\ Goto(c, "calculation") /\ UNCHANGED <<calc, rows>>
PutRecord(c) ==
    /\ pc[c] = "record"
    /\ \E r \in First(todo[c]) :
          IF Refused(c, "records", r) THEN Raise(c, "conflict")
          ELSE /\ Put(c, "records", r)
               /\ todo' = [todo EXCEPT ![c] = todo[c] \ {r}]
               /\ Goto(c, IF todo[c] = {r} THEN "calculation" ELSE "record")
               /\ UNCHANGED <<calc, rows>>

PutCalculation(c) ==
    /\ pc[c] = "calculation"
    /\ IF Refused(c, "calculations", calc[c]) THEN Raise(c, "conflict")
       ELSE /\ Put(c, "calculations", calc[c])
            /\ Goto(c, "leave")
            /\ UNCHANGED <<calc, rows, todo>>

\* The end of the with block.  A nested transaction joins the host's.
Leave(c) ==
    /\ pc[c] = "leave"
    /\ IF Boundary = "repository" THEN Commit(c) ELSE UNCHANGED <<db, open>>
    /\ Goto(c, "audit") /\ UNCHANGED <<calc, rows, todo>>

-----------------------------------------------------------------------------
(* MeridianEvidenceSink.emit: two appends, idempotent by version_id.       *)

Append(c, table, next) ==
    /\ pc[c] = table
    /\ Put(c, table, calc[c].revision)
    /\ Goto(c, next) /\ UNCHANGED <<calc, rows, todo>>

SkipAudit(c) ==
    /\ pc[c] = "audit"
    /\ Goto(c, "lineage") /\ UNCHANGED <<db, open, calc, rows, todo>>
AppendAudit(c) == Append(c, "audit", "lineage")
AppendLineage(c) == Append(c, "lineage", "finish")

Finish(c) ==
    /\ pc[c] = "finish"
    /\ IF Boundary = "host" THEN Commit(c) ELSE UNCHANGED <<db, open>>
    /\ Reply(c, "ok", calc[c], rows[c])

\* An executor call fails, or the process stops; a write may have been applied.
Fail(c) == pc[c] # "idle" /\ Raise(c, "failed")

Step(c) ==
    \/ Find(c) \/ Replay(c) \/ Latest(c) \/ Propose(c)
    \/ PutRecord(c) \/ PutCalculation(c) \/ Leave(c)
    \/ AppendAudit(c) \/ AppendLineage(c) \/ Finish(c)

Next == \E c \in Clients : Step(c) \/ Fail(c) \/ \E q \in Requests : Begin(c, q)

Spec == Init /\ [][Next]_vars

\* The executor answers and threads run, so a call that can go on does, and a
\* writer that waits for a row gets its turn when the row's transaction ends.
\* No caller need call again, and none need fail.
FairSpec == Spec /\ \A c \in Clients : SF_vars(Step(c))
-----------------------------------------------------------------------------
(* What the calculator promises.                                           *)

TypeOK ==
    /\ db["calculations"] \subseteq Calculation /\ db["records"] \subseteq Record
    /\ db["audit"] \subseteq Nat /\ db["lineage"] \subseteq Nat
    /\ DOMAIN db = Tables /\ DOMAIN open = Clients
    /\ pc \in [Clients -> {"idle", "find", "replay", "latest", "previous", "record",
                           "calculation", "leave", "audit", "lineage", "finish"}]
    /\ request \in [Clients -> Request \cup {None}]
    /\ calc \in [Clients -> Calculation \cup {None}]
    /\ rows \in [Clients -> SUBSET Record] /\ todo \in [Clients -> SUBSET Record]
    /\ status \in [Clients -> {"none", "ok", "conflict", "invalid", "failed"}]
    /\ begun \in [Clients -> SUBSET Calculation]
    /\ \A c \in Clients : /\ pc[c] = "idle" => open[c] = Empty
                          /\ todo[c] \subseteq rows[c]

RecordsOf(k) == {r \in db["records"] : r.revision = k.revision}

\* A stored calculation has exactly the records it names, made from its own
\* input, and no record is without its calculation: what a reader sums is the
\* parent's amount (calculation.md:28-29).
RecordsMatchParents ==
    /\ \A k \in db["calculations"] :
          /\ Names(k, RecordsOf(k))
          /\ \A r \in RecordsOf(k) : r.input = k.input /\ r.at = k.at
    /\ \A r \in db["records"] : \E k \in db["calculations"] : k.revision = r.revision

\* Even without a transaction no calculation is stored before all the records
\* it names, each made from its own input: the records are put first.
RecordsPrecedeParent ==
    \A k \in db["calculations"] : \A key \in Keys[k.allocation] :
        \E r \in RecordsOf(k) : /\ r.allocation = k.allocation /\ r.key = key
                                /\ r.input = k.input /\ r.at = k.at

\* However stale the scans, the calculations of the series are one chain: no
\* revision is missing, each supersedes the one before, and no identity and no
\* revision is stored twice (calculation.md:22-24).
OneChain ==
    \A k \in db["calculations"] :
        /\ k.supersedes = k.revision - 1
        /\ k.revision > 1 => \E p \in db["calculations"] : p.revision = k.revision - 1
        /\ \A l \in db["calculations"] :
              k.revision = l.revision \/ (k.input = l.input /\ k.allocation = l.allocation) => k = l

\* A correction links its records: what one specification gave a key in two
\* revisions running is superseded by the later, and a record that supersedes
\* another names the revision before its own, of which a record is stored.  The
\* document says it of a changed allocation, too (calculation.md:23-24), whose
\* records the code never links; nothing is claimed of those.
RecordsSupersede ==
    \A r \in db["records"] :
        /\ \A p \in db["records"] :
              p.revision = r.revision - 1 /\ p.allocation = r.allocation /\ p.key = r.key
                => r.supersedes = p.revision
        /\ r.supersedes # 0 =>
              /\ r.supersedes = r.revision - 1
              /\ \E p \in db["records"] : p.revision = r.supersedes

\* A call whose identity was stored when it began returns that calculation and
\* stores no other (calculation.md:22-23).
RepeatReplays ==
    \A c \in Clients : status[c] = "ok" =>
        /\ calc[c] \in db["calculations"] /\ rows[c] = RecordsOf(calc[c])
        /\ calc[c].input = request[c].input /\ calc[c].allocation = request[c].allocation
        /\ \A k \in begun[c] :
              k.input = request[c].input /\ k.allocation = request[c].allocation => calc[c] = k

\* Repeating a stored identity is never refused as an inconsistent result.
ReplayNotRefused == \A c \in Clients : status[c] # "invalid"

\* A call conflicts only if a calculation was stored since it began: trying
\* again makes progress (calculation.md:23-24).
ConflictMeansProgress ==
    \A c \in Clients : status[c] = "conflict" => db["calculations"] # begun[c]

\* Evidence names stored calculations, lineage follows audit, and a call that
\* succeeds leaves both, also when an earlier call died before them.
EvidenceBacked ==
    /\ db["lineage"] \subseteq db["audit"]
    /\ db["audit"] \subseteq {k.revision : k \in db["calculations"]}
    /\ \A c \in Clients : status[c] = "ok" => calc[c].revision \in db["lineage"]

\* In a host transaction a calculation and its evidence commit together
\* (integration.md:52-58).
EvidenceAtomic ==
    /\ db["audit"] = {k.revision : k \in db["calculations"]}
    /\ db["lineage"] = db["audit"]

\* Every call ends although writers wait for each other's rows: records are
\* put in one order, so no two transactions wait in a circle.
CallsFinish == \A c \in Clients : pc[c] # "idle" ~> pc[c] = "idle"

-----------------------------------------------------------------------------
Ledger == INSTANCE CostLedger WITH
    ledger <- {[calculation |-> k, records |-> RecordsOf(k)] : k \in db["calculations"]}

\* With a transaction the store is an append-only ledger of whole results.
LedgerSpec == Ledger!Spec
=============================================================================
