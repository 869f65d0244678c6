------------------------- MODULE CalculationsProofs -------------------------
(* The calculations of one series, for any number of clients, requests and  *)
(* allocations, with or without a transaction around the writes and with or *)
(* without stale scans.                                                     *)
EXTENDS Calculations, TLAPS

(* What the rows of a store are to each other.  A store is the committed    *)
(* tables, or those as the transaction of a client sees them.               *)

View(c) == [t \in Tables |-> Sees(c, t)]

\* Every revision up to a stored one is stored, and a calculation supersedes
\* the revision before its own.
Chained(calculations) ==
    \A k \in calculations :
        /\ k.supersedes = k.revision - 1
        /\ \A n \in 1 .. k.revision : \E p \in calculations : p.revision = n

Serves(r, k, key) ==
    /\ r.revision = k.revision /\ r.allocation = k.allocation /\ r.key = key
    /\ r.input = k.input /\ r.at = k.at

Recorded(calculations, records) ==
    \A k \in calculations : \A key \in Keys[k.allocation] :
        \E r \in records : Serves(r, k, key)

Revisions(calculations) == {k.revision : k \in calculations}

Coherent(store) ==
    /\ Chained(store["calculations"])
    /\ Recorded(store["calculations"], store["records"])
    /\ store["lineage"] \subseteq store["audit"]
    /\ store["audit"] \subseteq Revisions(store["calculations"])

\* The unique indexes hold.
Distinct(store) == \A t \in Tables : \A r, s \in store[t] : Clash(t, r, s) => r = s

\* No two transactions hold rows that meet under an index.
Apart ==
    \A c, d \in Clients : c # d =>
        \A t \in Tables : \A r \in open[c][t] : \A s \in open[d][t] : ~Clash(t, r, s)

StoreInv ==
    /\ Coherent(db) /\ Distinct(db)
    /\ \A c \in Clients : Coherent(View(c)) /\ Distinct(View(c))
    /\ Apart

(* What one client holds.                                                   *)

\* Outside its transaction a client has no uncommitted rows.
Outside(c) ==
    \/ Boundary = "none"
    \/ Boundary = "repository" /\ pc[c] \notin {"record", "calculation", "leave"}

\* The calculation it is about to store continues the chain it sees, and those
\* of its records that are no longer to put are stored.
Proposing(c) ==
    LET k == calc[c]
    IN  /\ k \in Calculation /\ k.supersedes = k.revision - 1
        /\ \A n \in 1 .. k.revision - 1 : \E p \in Sees(c, "calculations") : p.revision = n
        /\ \A r \in rows[c] : Serves(r, k, r.key)
        /\ \A key \in Keys[k.allocation] : \E r \in rows[c] : r.key = key
        /\ \A r \in rows[c] : r \in todo[c] \/ r \in Sees(c, "records")

ClientInv(c) ==
    /\ Outside(c) => open[c] = Empty
    /\ pc[c] \in {"find", "latest"} => calc[c] = None
    /\ pc[c] = "previous" => calc[c] = None \/ calc[c] \in Sees(c, "calculations")
    /\ pc[c] \in {"record", "calculation"} => Proposing(c)
    /\ pc[c] # "record" => todo[c] = {}
    /\ pc[c] \in {"replay", "leave", "audit", "lineage", "finish"} =>
          calc[c] \in Sees(c, "calculations")
    /\ pc[c] \in {"lineage", "finish"} => calc[c].revision \in Sees(c, "audit")
    /\ pc[c] = "finish" => calc[c].revision \in Sees(c, "lineage")
    /\ pc[c] # "idle" => status[c] = "none" /\ request[c] \in Request
    /\ status[c] = "ok" => /\ calc[c] \in db["calculations"]
                           /\ calc[c].revision \in db["lineage"]

ClientsInv == \A c \in Clients : ClientInv(c)

RowsOf(t) == CASE t = "calculations" -> Calculation [] t = "records" -> Record [] OTHER -> Nat

TypeInv ==
    /\ TypeOK
    /\ \A c \in Clients : DOMAIN open[c] = Tables
    /\ \A c \in Clients, t \in Tables : open[c][t] \subseteq RowsOf(t)

IInv == TypeInv /\ StoreInv /\ ClientsInv
-----------------------------------------------------------------------------
(* Stores.                                                                  *)

\* Meeting under an index is symmetric, and every row meets itself.
LEMMA ClashSymmetric ==
    ASSUME NEW t \in Tables, NEW r, NEW s
    PROVE  Clash(t, r, s) <=> Clash(t, s, r)
  BY DEF Clash, SameIdentity, Tables

LEMMA ClashReflexive ==
    ASSUME NEW t \in Tables, NEW r
    PROVE  Clash(t, r, r)
  BY DEF Clash, SameIdentity, Tables

\* Two coherent stores are one when a transaction commits into another's view.
LEMMA CoherentMerge ==
    ASSUME NEW u, NEW v, NEW w, Coherent(u), Coherent(v),
           \A t \in Tables : w[t] = u[t] \cup v[t]
    PROVE  Coherent(w)
  BY DEF Coherent, Chained, Recorded, Revisions, Tables

LEMMA CoherentSame ==
    ASSUME NEW u, NEW w, Coherent(u), \A t \in Tables : w[t] = u[t]
    PROVE  Coherent(w)
  BY DEF Coherent, Chained, Recorded, Revisions, Tables

LEMMA DistinctSame ==
    ASSUME NEW u, NEW w, Distinct(u), \A t \in Tables : w[t] = u[t]
    PROVE  Distinct(w)
  BY DEF Distinct

\* Another record, and the evidence of a stored calculation, keep a store coherent.
LEMMA CoherentRow ==
    ASSUME NEW u, NEW w, NEW t \in Tables, NEW row, Coherent(u),
           \A x \in Tables : w[x] = u[x] \cup (IF x = t THEN {row} ELSE {}),
           \/ t = "records"
           \/ t = "audit" /\ row \in Revisions(u["calculations"])
           \/ t = "lineage" /\ row \in u["audit"]
    PROVE  Coherent(w)
  BY DEF Coherent, Chained, Recorded, Revisions, Tables

\* So does the next calculation of the chain once its records are there.
LEMMA CoherentNext ==
    ASSUME NEW u, NEW w, NEW k \in Calculation, Coherent(u),
           \A x \in Tables : w[x] = u[x] \cup (IF x = "calculations" THEN {k} ELSE {}),
           k.supersedes = k.revision - 1,
           \A n \in 1 .. k.revision - 1 : \E p \in u["calculations"] : p.revision = n,
           \A key \in Keys[k.allocation] : \E r \in u["records"] : Serves(r, k, key)
    PROVE  Coherent(w)
  <1>0. /\ w["calculations"] = u["calculations"] \cup {k}
        /\ w["records"] = u["records"]
        /\ w["audit"] = u["audit"]
        /\ w["lineage"] = u["lineage"]
    BY DEF Tables
  <1>1. Chained(w["calculations"])
    <2> SUFFICES ASSUME NEW j \in w["calculations"]
                 PROVE  /\ j.supersedes = j.revision - 1
                        /\ \A n \in 1 .. j.revision : \E p \in w["calculations"] : p.revision = n
      BY DEF Chained
    <2>1. CASE j = k
      <3>1. k.revision \in Nat
        BY DEF Calculation
      <3>2. ASSUME NEW n \in 1 .. k.revision
            PROVE  \E p \in w["calculations"] : p.revision = n
        <4>1. n = k.revision \/ n \in 1 .. k.revision - 1
          BY <3>1
        <4> QED  BY <4>1, <1>0
      <3> QED  BY <2>1, <3>2
    <2>2. CASE j \in u["calculations"]
      BY <2>2, <1>0 DEF Coherent, Chained
    <2> QED  BY <2>1, <2>2, <1>0
  <1>2. Recorded(w["calculations"], w["records"])
    BY <1>0 DEF Coherent, Recorded
  <1>3. /\ w["lineage"] \subseteq w["audit"]
        /\ w["audit"] \subseteq Revisions(w["calculations"])
    BY <1>0 DEF Coherent, Revisions
  <1> QED  BY <1>1, <1>2, <1>3 DEF Coherent

\* A row that meets none of the others keeps the indexes unique.
LEMMA DistinctRow ==
    ASSUME NEW u, NEW w, NEW t \in Tables, NEW row, Distinct(u),
           \A x \in Tables : w[x] = u[x] \cup (IF x = t THEN {row} ELSE {}),
           row \in u[t] \/ \A r \in u[t] : ~Clash(t, r, row)
    PROVE  Distinct(w)
  <1> SUFFICES ASSUME NEW x \in Tables, NEW r \in w[x], NEW s \in w[x], Clash(x, r, s)
               PROVE  r = s
    BY DEF Distinct
  <1>1. Clash(x, s, r)
    BY ClashSymmetric
  <1> QED  BY <1>1 DEF Distinct

\* The union of two stores is unique when the rows they do not share are apart.
LEMMA DistinctMerge ==
    ASSUME NEW u, NEW v, NEW w, Distinct(u), Distinct(v),
           \A t \in Tables : w[t] = u[t] \cup v[t],
           \A t \in Tables : \A r \in u[t] : \A s \in v[t] :
               r \in v[t] \/ s \in u[t] \/ ~Clash(t, r, s)
    PROVE  Distinct(w)
  <1> SUFFICES ASSUME NEW t \in Tables, NEW r \in w[t], NEW s \in w[t], Clash(t, r, s)
               PROVE  r = s
    BY DEF Distinct
  <1>1. Clash(t, s, r)
    BY ClashSymmetric
  <1> QED  BY <1>1 DEF Distinct
-----------------------------------------------------------------------------
(* What a step of one client does to the store.                             *)

\* The rows of other clients stay as they are.  Committed rows stay, and if
\* more are committed they are what the client saw: nothing of it is left open.
Effect(c) ==
    /\ DOMAIN db' = Tables /\ DOMAIN open' = Clients /\ DOMAIN open'[c] = Tables
    /\ \A d \in Clients \ {c} : open'[d] = open[d]
    /\ \A t \in Tables : db[t] \subseteq db'[t]
    /\ db' = db \/ open'[c] = Empty
    /\ \A t \in Tables : db'[t] \subseteq RowsOf(t) /\ open'[c][t] \subseteq RowsOf(t)

LEMMA TypedStore ==
    ASSUME TypeInv
    PROVE  /\ DOMAIN db = Tables /\ DOMAIN open = Clients
           /\ \A t \in Tables : db[t] \subseteq RowsOf(t)
           /\ \A c \in Clients : DOMAIN open[c] = Tables
           /\ \A c \in Clients, t \in Tables : open[c][t] \subseteq RowsOf(t)
           /\ \A c \in Clients : Sees(c, "calculations") \subseteq Calculation
           /\ \A c \in Clients : Sees(c, "records") \subseteq Record
  BY DEF TypeInv, TypeOK, RowsOf, Tables, Sees

LEMMA QuietEffect ==
    ASSUME TypeInv, NEW c \in Clients, UNCHANGED <<db, open>>
    PROVE  Effect(c) /\ \A t \in Tables : Sees(c, t)' = Sees(c, t)
  BY TypedStore DEF Effect, Sees

LEMMA RolledBackEffect ==
    ASSUME TypeInv, NEW c \in Clients,
           UNCHANGED db, open' = [open EXCEPT ![c] = Empty]
    PROVE  Effect(c) /\ \A t \in Tables : Sees(c, t)' = db[t]
  BY TypedStore DEF Effect, Sees, Empty

LEMMA CommitEffect ==
    ASSUME TypeInv, NEW c \in Clients, Commit(c)
    PROVE  /\ Effect(c) /\ open'[c] = Empty
           /\ \A t \in Tables : Sees(c, t)' = Sees(c, t) /\ db'[t] = Sees(c, t)
  BY TypedStore DEF Effect, Sees, Empty, Commit

\* A put that is not refused adds its row to what the client sees, and the row
\* is apart from the open rows of the others.
LEMMA PutEffect ==
    ASSUME TypeInv, NEW c \in Clients, NEW t \in Tables, NEW row \in RowsOf(t),
           ~InTransaction(c) => open[c] = Empty,
           Put(c, t, row)
    PROVE  /\ Effect(c)
           /\ \A x \in Tables : Sees(c, x)' = Sees(c, x) \cup (IF x = t THEN {row} ELSE {})
           /\ \A d \in Clients \ {c} : \A r \in open[d][t] : ~Clash(t, r, row)
           /\ \A x \in Tables : open'[c][x] \subseteq
                                open[c][x] \cup (IF x = t THEN {row} ELSE {})
  <1> USE TypedStore
  <1>1. \A d \in Clients \ {c} : \A r \in open[d][t] : ~Clash(t, r, row)
    BY DEF Put, Blocked
  <1>2. CASE row \in Sees(c, t)
    <2>1. UNCHANGED <<db, open>>
      BY <1>2 DEF Put
    <2> QED  BY <2>1, <1>1, <1>2, QuietEffect
  <1>3. CASE row \notin Sees(c, t) /\ InTransaction(c)
    <2>1. UNCHANGED db /\ open' = [open EXCEPT ![c][t] = open[c][t] \cup {row}]
      BY <1>3 DEF Put, Write
    <2>2. \A x \in Tables : open'[c][x] = open[c][x] \cup (IF x = t THEN {row} ELSE {})
      BY <2>1
    <2>3. Effect(c)
      BY <2>1, <2>2 DEF Effect
    <2> QED  BY <2>1, <2>2, <2>3, <1>1, <1>3 DEF Sees
  <1>4. CASE row \notin Sees(c, t) /\ ~InTransaction(c)
    <2>1. UNCHANGED open /\ db' = [db EXCEPT ![t] = db[t] \cup {row}] /\ open[c] = Empty
      BY <1>4 DEF Put, Write
    <2>2. \A x \in Tables : db'[x] = db[x] \cup (IF x = t THEN {row} ELSE {})
      BY <2>1
    <2>3. Effect(c)
      BY <2>1, <2>2 DEF Effect
    <2> QED  BY <2>1, <2>2, <2>3, <1>1, <1>4 DEF Sees
  <1> QED  BY <1>2, <1>3, <1>4

\* Any step whose own view of the store stays coherent, and which adds no row
\* that meets an open row of another client, keeps every view so.
LEMMA StoreStep ==
    ASSUME TypeInv, StoreInv, NEW c \in Clients, Effect(c),
           Coherent(View(c))', Distinct(View(c))',
           \A t \in Tables : \A r \in Sees(c, t)' : \A d \in Clients \ {c} :
               \A s \in open[d][t] :
                   (r \in db[t] /\ r \notin open'[c][t]) \/ ~Clash(t, s, r)
    PROVE  StoreInv'
  <1> DEFINE mine == View(c)'
  <1>0. /\ \A t \in Tables : mine[t] = Sees(c, t)'
        /\ Coherent(mine) /\ Distinct(mine)
    BY DEF View, Coherent, Distinct
  <1>1. db' = db \/ \A t \in Tables : db'[t] = mine[t]
    BY <1>0 DEF Effect, Sees, Empty
  <1> HIDE DEF mine
  <1>2. Coherent(db)' /\ Distinct(db)'
    <2>1. Coherent(db') /\ Distinct(db')
      BY <1>0, <1>1, CoherentSame, DistinctSame DEF StoreInv
    <2> QED  BY <2>1 DEF Coherent, Distinct
  <1>3. ASSUME NEW d \in Clients \ {c}
        PROVE  Coherent(View(d))' /\ Distinct(View(d))'
    <2> DEFINE theirs == View(d)'
    <2>1. \A t \in Tables : View(d)[t] = db[t] \cup open[d][t] /\ theirs[t] = db'[t] \cup open[d][t]
      BY <1>3 DEF View, Sees, Effect
    <2>2. Coherent(View(d)) /\ Distinct(View(d)) /\ Coherent(db) /\ Distinct(db)
      BY <1>3 DEF StoreInv
    <2>9. Coherent(theirs) /\ Distinct(theirs) => Coherent(View(d))' /\ Distinct(View(d))'
      BY DEF Coherent, Distinct
    <2> HIDE DEF theirs
    <2>3. CASE db' = db
      BY <2>1, <2>2, <2>3, <2>9, CoherentSame, DistinctSame
    <2>4. CASE \A t \in Tables : db'[t] = mine[t]
      <3>1. \A t \in Tables : theirs[t] = mine[t] \cup View(d)[t]
        BY <2>1, <2>4 DEF Effect
      <3>2. Coherent(theirs)
        BY <3>1, <1>0, <2>2, CoherentMerge
      <3>3. \A t \in Tables : \A r \in mine[t] : \A s \in View(d)[t] :
                r \in View(d)[t] \/ s \in mine[t] \/ ~Clash(t, r, s)
        BY <2>1, <2>4, <1>0, <1>3, ClashSymmetric DEF Effect
      <3>4. Distinct(theirs)
        BY <3>1, <3>3, <1>0, <2>2, DistinctMerge
      <3> QED  BY <3>2, <3>4, <2>9
    <2> QED  BY <1>1, <2>3, <2>4
  <1>4. Apart'
    <2> SUFFICES ASSUME NEW d \in Clients, NEW e \in Clients, d # e, NEW t \in Tables,
                        NEW r \in open'[d][t], NEW s \in open'[e][t]
                 PROVE  ~Clash(t, r, s)
      BY DEF Apart
    <2>1. CASE d # c /\ e # c
      BY <2>1 DEF Effect, StoreInv, Apart
    <2>2. ASSUME NEW f \in Clients \ {c}, NEW x \in open'[c][t], NEW y \in open'[f][t]
          PROVE  ~Clash(t, y, x)
      BY <2>2 DEF Effect, Sees
    <2> QED  BY <2>1, <2>2, ClashSymmetric
  <1> QED  BY <1>0, <1>2, <1>3, <1>4 DEF StoreInv
-----------------------------------------------------------------------------
(* What a step of one client does to the clients.                           *)

\* What the other clients hold stays as it is.
Others(c) ==
    \A d \in Clients \ {c} :
        /\ pc'[d] = pc[d] /\ request'[d] = request[d] /\ calc'[d] = calc[d]
        /\ rows'[d] = rows[d] /\ todo'[d] = todo[d]
        /\ status'[d] = status[d] /\ begun'[d] = begun[d]

\* A client sees no less after the steps of others, so what holds of it stays.
LEMMA OthersKeep ==
    ASSUME NEW c \in Clients, NEW d \in Clients \ {c}, Effect(c), Others(c), ClientInv(d)
    PROVE  ClientInv(d)'
  <1>1. /\ pc'[d] = pc[d] /\ calc'[d] = calc[d] /\ rows'[d] = rows[d]
        /\ todo'[d] = todo[d] /\ status'[d] = status[d] /\ open'[d] = open[d]
        /\ request'[d] = request[d]
        /\ \A t \in Tables : db[t] \subseteq db'[t] /\ Sees(d, t) \subseteq Sees(d, t)'
    BY DEF Others, Effect, Sees
  <1>2. Proposing(d) => Proposing(d)'
    BY <1>1 DEF Proposing, Tables
  <1> QED  BY <1>1, <1>2 DEF ClientInv, Outside, Tables

LEMMA ClientStep ==
    ASSUME IInv, NEW c \in Clients, Effect(c), Others(c),
           TypeInv', StoreInv', ClientInv(c)'
    PROVE  IInv'
  <1>1. \A d \in Clients : ClientInv(d)'
    BY OthersKeep DEF IInv, ClientsInv
  <1> QED  BY <1>1 DEF IInv, ClientsInv

LEMMA QuietStore ==
    ASSUME TypeInv, StoreInv, UNCHANGED <<db, open>>
    PROVE  StoreInv'
  <1>1. \A c \in Clients : View(c)' = View(c)
    BY DEF View, Sees
  <1>2. Coherent(db)' /\ Distinct(db)'
    BY DEF StoreInv, Coherent, Distinct
  <1>3. \A c \in Clients : Coherent(View(c))' /\ Distinct(View(c))'
    BY <1>1 DEF StoreInv, Coherent, Distinct
  <1>4. Apart'
    BY DEF StoreInv, Apart
  <1> QED  BY <1>2, <1>3, <1>4 DEF StoreInv

\* A call that raises gives up its rows.
LEMMA Raised ==
    ASSUME IInv, NEW c \in Clients, NEW how \in {"conflict", "invalid", "failed"}, Raise(c, how)
    PROVE  IInv'
  <1>1. /\ pc' = [pc EXCEPT ![c] = "idle"] /\ status' = [status EXCEPT ![c] = how]
        /\ calc' = [calc EXCEPT ![c] = None] /\ rows' = [rows EXCEPT ![c] = {}]
        /\ todo' = [todo EXCEPT ![c] = {}] /\ UNCHANGED <<request, begun>>
        /\ UNCHANGED db /\ open' = [open EXCEPT ![c] = Empty]
    BY DEF Raise, Reply
  <1>2. Effect(c) /\ \A t \in Tables : Sees(c, t)' = db[t]
    BY <1>1, RolledBackEffect DEF IInv
  <1>3. open'[c] = Empty
    BY <1>1, TypedStore DEF IInv
  <1>4. Others(c) /\ TypeInv'
    <2>1. Others(c)
      BY <1>1 DEF IInv, TypeInv, TypeOK, Others
    <2>2. TypeOK'
      BY <1>1, <1>2, <1>3 DEF IInv, TypeInv, TypeOK, Effect
    <2>3. \A d \in Clients : /\ DOMAIN open'[d] = Tables
                             /\ \A t \in Tables : open'[d][t] \subseteq RowsOf(t)
      BY <1>2 DEF Effect, IInv, TypeInv
    <2> QED  BY <2>1, <2>2, <2>3 DEF TypeInv
  <1>5. StoreInv'
    <2> DEFINE mine == View(c)'
    <2>1. \A t \in Tables : mine[t] = db[t]
      BY <1>2 DEF View
    <2>2. Coherent(mine) /\ Distinct(mine)
      <3> HIDE DEF mine
      <3> QED  BY <2>1, CoherentSame, DistinctSame DEF IInv, StoreInv
    <2>3. Coherent(View(c))' /\ Distinct(View(c))'
      BY <2>2 DEF Coherent, Distinct
    <2>4. \A t \in Tables : \A r \in Sees(c, t)' : r \in db[t] /\ r \notin open'[c][t]
      BY <1>2, <1>3 DEF Empty
    <2> QED  BY <1>2, <2>3, <2>4, StoreStep DEF IInv
  <1>6. ClientInv(c)'
    <2>1. pc'[c] = "idle" /\ status'[c] = how /\ todo'[c] = {}
      BY <1>1 DEF IInv, TypeInv, TypeOK
    <2> QED  BY <1>3, <2>1 DEF ClientInv, Outside
  <1> QED  BY <1>2, <1>4, <1>5, <1>6, ClientStep
-----------------------------------------------------------------------------
(* The steps.                                                               *)

\* A step that leaves the store alone: types and the client's own part remain.
LEMMA QuietStep ==
    ASSUME IInv, NEW c \in Clients, UNCHANGED <<db, open>>, Others(c),
           TypeOK', ClientInv(c)'
    PROVE  IInv'
  <1>1. Effect(c)
    BY QuietEffect DEF IInv
  <1>2. StoreInv'
    BY QuietStore DEF IInv
  <1>3. TypeInv'
    BY DEF IInv, TypeInv
  <1> QED  BY <1>1, <1>2, <1>3, ClientStep

LEMMA BeginStep ==
    ASSUME IInv, NEW c \in Clients, NEW q \in Requests, Begin(c, q)
    PROVE  IInv'
  <1> USE DEF IInv, TypeInv, TypeOK
  <1>1. Others(c)
    BY DEF Begin, Others
  <1>2. TypeOK'
    <2>1. todo[c] = {}
      BY DEF ClientsInv, ClientInv, Begin
    <2> QED  BY <2>1, RequestAssumption DEF Begin
  <1>3. ClientInv(c)'
    <2>1. /\ pc'[c] = "find" /\ status'[c] = "none" /\ calc'[c] = None /\ UNCHANGED <<db, open, todo>>
          /\ open[c] = Empty /\ pc[c] = "idle"
      BY DEF Begin
    <2>2. request'[c] \in Request
      BY RequestAssumption DEF Begin
    <2> QED  BY <2>1, <2>2 DEF ClientsInv, ClientInv, Outside
  <1> QED  BY <1>1, <1>2, <1>3, QuietStep DEF Begin

LEMMA FindStep ==
    ASSUME IInv, NEW c \in Clients, Find(c)
    PROVE  IInv'
  <1> USE DEF IInv, TypeInv, TypeOK
  <1>0. PICK found \in Scanned({k \in Sees(c, "calculations") : SameIdentity(k, request[c])}) :
           IF found = {} THEN Goto(c, "latest") /\ UNCHANGED <<db, open, calc, rows, todo>>
           ELSE \E k \in found :
                  IF found # {k} THEN Raise(c, "conflict")
                  ELSE /\ Goto(c, "replay")
                       /\ calc' = [calc EXCEPT ![c] = k]
                       /\ UNCHANGED <<db, open, rows, todo>>
    BY DEF Find
  <1>1. found \subseteq Sees(c, "calculations")
    BY DEF Scanned
  <1>2. CASE Raise(c, "conflict")
    BY <1>2, Raised
  <1>3. CASE Goto(c, "latest") /\ UNCHANGED <<db, open, calc, rows, todo>>
    <2>1. pc'[c] = "latest" /\ status'[c] = status[c] /\ pc[c] = "find" /\ request'[c] = request[c]
      BY <1>3 DEF Goto, Find
    <2>2. Others(c) /\ TypeOK'
      BY <1>3 DEF Goto, Others, Find
    <2>3. ClientInv(c)'
      BY <1>3, <2>1 DEF ClientsInv, ClientInv, Outside
    <2> QED  BY <1>3, <2>2, <2>3, QuietStep
  <1>4. ASSUME NEW k \in found, Goto(c, "replay"), calc' = [calc EXCEPT ![c] = k],
               UNCHANGED <<db, open, rows, todo>>
        PROVE  IInv'
    <2>1. /\ pc'[c] = "replay" /\ status'[c] = status[c] /\ pc[c] = "find"
          /\ calc'[c] = k /\ k \in Sees(c, "calculations")' /\ request'[c] = request[c]
      BY <1>1, <1>4 DEF Goto, Find, Sees
    <2>2. Others(c) /\ TypeOK'
      BY <1>1, <1>4, TypedStore DEF Goto, Others, Find
    <2>3. ClientInv(c)'
      BY <1>4, <2>1 DEF ClientsInv, ClientInv, Outside
    <2> QED  BY <1>4, <2>2, <2>3, QuietStep
  <1> QED  BY <1>0, <1>2, <1>3, <1>4

LEMMA ReplayStep ==
    ASSUME IInv, NEW c \in Clients, Replay(c)
    PROVE  IInv'
  <1> USE DEF IInv, TypeInv, TypeOK
  <1>0. PICK found \in RecordScans(c, calc[c].revision) :
           IF Names(calc[c], found)
           THEN /\ Goto(c, "audit")
                /\ rows' = [rows EXCEPT ![c] = found]
                /\ UNCHANGED <<db, open, calc, todo>>
           ELSE Raise(c, "invalid")
    BY DEF Replay
  <1>1. found \subseteq Sees(c, "records")
    BY DEF RecordScans, Scanned
  <1>2. CASE Raise(c, "invalid")
    BY <1>2, Raised
  <1>3. CASE /\ Goto(c, "audit") /\ rows' = [rows EXCEPT ![c] = found]
             /\ UNCHANGED <<db, open, calc, todo>>
    <2>1. /\ pc'[c] = "audit" /\ status'[c] = status[c] /\ pc[c] = "replay"
          /\ Sees(c, "calculations")' = Sees(c, "calculations")
          /\ request'[c] = request[c]
      BY <1>3 DEF Goto, Replay, Sees
    <2>2. Others(c) /\ TypeOK'
      <3>1. todo[c] = {}
        BY DEF ClientsInv, ClientInv, Replay
      <3> QED  BY <3>1, <1>1, <1>3, TypedStore DEF Goto, Others, Replay
    <2>3. ClientInv(c)'
      BY <1>3, <2>1 DEF ClientsInv, ClientInv, Outside
    <2> QED  BY <1>3, <2>2, <2>3, QuietStep
  <1> QED  BY <1>0, <1>2, <1>3

LEMMA LatestStep ==
    ASSUME IInv, NEW c \in Clients, Latest(c)
    PROVE  IInv'
  <1> USE DEF IInv, TypeInv, TypeOK
  <1>1. /\ pc[c] = "latest" /\ pc' = [pc EXCEPT ![c] = "previous"]
        /\ UNCHANGED <<db, open, rows, todo, request, status, begun>>
    BY DEF Latest, Goto
  <1>2. ClientInv(c)
    BY DEF ClientsInv
  <1>3. CASE UNCHANGED calc
    <2>1. pc'[c] = "previous" /\ status'[c] = status[c] /\ calc'[c] = None
      BY <1>1, <1>2, <1>3 DEF ClientInv
    <2>2. Others(c) /\ TypeOK'
      BY <1>1, <1>3 DEF Others
    <2>3. ClientInv(c)'
      BY <1>1, <1>2, <2>1 DEF ClientInv, Outside
    <2> QED  BY <1>1, <2>2, <2>3, QuietStep
  <1>4. ASSUME NEW k \in Sees(c, "calculations"), calc' = [calc EXCEPT ![c] = k]
        PROVE  IInv'
    <2>1. /\ pc'[c] = "previous" /\ status'[c] = status[c] /\ calc'[c] = k
          /\ k \in Sees(c, "calculations")'
      BY <1>1, <1>4 DEF Sees
    <2>2. Others(c) /\ TypeOK'
      BY <1>1, <1>4, TypedStore DEF Others
    <2>3. ClientInv(c)'
      BY <1>1, <1>2, <2>1 DEF ClientInv, Outside
    <2> QED  BY <1>1, <2>2, <2>3, QuietStep
  <1>5. PICK seen \in Scanned(Sees(c, "calculations")) :
           IF seen = {} THEN UNCHANGED calc
           ELSE \E k \in Newest(seen) : calc' = [calc EXCEPT ![c] = k]
    BY DEF Latest
  <1>6. seen \subseteq Sees(c, "calculations")
    BY DEF Scanned
  <1>7. CASE seen = {}
    BY <1>3, <1>5, <1>7
  <1>8. CASE seen # {}
    <2>1. PICK k \in Newest(seen) : calc' = [calc EXCEPT ![c] = k]
      BY <1>5, <1>8
    <2> QED  BY <2>1, <1>4, <1>6 DEF Newest
  <1> QED  BY <1>7, <1>8

\* The revision whose record with a key is superseded, 0 for none.
Link(q, n, previous, key) ==
    IF \E p \in previous : p.allocation = q.allocation /\ p.key = key THEN n - 1 ELSE 0

\* The records proposed for a request are records, one for each key it asks.
LEMMA ProposedRecords ==
    ASSUME NEW q \in Request, NEW n \in Nat \ {0}, NEW previous
    PROVE  /\ Proposed(q, n, previous) \subseteq Record
           /\ \A r \in Proposed(q, n, previous) :
                 /\ r.revision = n /\ r.input = q.input /\ r.allocation = q.allocation
                 /\ r.at = q.at /\ r.key \in Keys[q.allocation]
           /\ \A key \in Keys[q.allocation] : \E r \in Proposed(q, n, previous) : r.key = key
           /\ \A r, s \in Proposed(q, n, previous) : r.key = s.key => r = s
           /\ \A r \in Proposed(q, n, previous) :
                 r.supersedes = Link(q, n, previous, r.key)
  <1>1. q.allocation \in Allocations /\ q.input \in Inputs /\ q.at \in Instants
    BY DEF Request
  <1>2. Keys[q.allocation] \subseteq Nat
    BY <1>1, KeysAssumption
  <1> DEFINE link(key) == Link(q, n, previous, key)
             rec(key) == [revision |-> n, input |-> q.input, allocation |-> q.allocation,
                          at |-> q.at, key |-> key, supersedes |-> link(key)]
  <1>3. Proposed(q, n, previous) = {rec(key) : key \in Keys[q.allocation]}
    BY DEF Proposed, Link
  <1>4. \A key : link(key) \in Nat
    BY DEF Link
  <1> HIDE DEF link
  <1>5. \A key \in Keys[q.allocation] :
            /\ rec(key) \in Record /\ rec(key).revision = n /\ rec(key).input = q.input
            /\ rec(key).allocation = q.allocation /\ rec(key).at = q.at /\ rec(key).key = key
            /\ rec(key).supersedes = link(key)
    BY <1>1, <1>2, <1>4 DEF Record
  <1> HIDE DEF rec
  <1> QED  BY <1>3, <1>5 DEF link

LEMMA ProposeStep ==
    ASSUME IInv, NEW c \in Clients, Propose(c)
    PROVE  IInv'
  <1> DEFINE q == request[c]
             last == IF calc[c] = None THEN 0 ELSE calc[c].revision
             k == [revision |-> last + 1, input |-> q.input, allocation |-> q.allocation,
                   at |-> q.at, supersedes |-> last]
  <1> USE DEF IInv, TypeInv, TypeOK
  <1>1. /\ pc[c] = "previous" /\ pc' = [pc EXCEPT ![c] = "record"]
        /\ calc' = [calc EXCEPT ![c] = k]
        /\ UNCHANGED <<db, open, request, status, begun>>
    BY DEF Propose, Goto
  <1>2. PICK previous : /\ rows' = [rows EXCEPT ![c] = Proposed(q, last + 1, previous)]
                        /\ todo' = [todo EXCEPT ![c] = Proposed(q, last + 1, previous)]
    BY DEF Propose
  <1>3. ClientInv(c)
    BY DEF ClientsInv
  <1>4. q \in Request
    BY <1>1, <1>3 DEF ClientInv
  <1>5. calc[c] = None \/ calc[c] \in Sees(c, "calculations")
    BY <1>1, <1>3 DEF ClientInv
  <1>6. last \in Nat /\ \A n \in 1 .. last : \E p \in Sees(c, "calculations") : p.revision = n
    <2>1. CASE calc[c] = None
      BY <2>1
    <2>2. CASE calc[c] # None
      <3>1. calc[c] \in Sees(c, "calculations") /\ calc[c] \in Calculation /\ last = calc[c].revision
        BY <2>2, <1>5
      <3>2. Chained(Sees(c, "calculations"))
        BY DEF StoreInv, Coherent, View, Tables
      <3> QED  BY <3>1, <3>2 DEF Chained, Calculation
    <2> QED  BY <2>1, <2>2
  <1>7. k \in Calculation /\ k.revision = last + 1 /\ k.supersedes = last /\ k.input = q.input
          /\ k.allocation = q.allocation /\ k.at = q.at
    BY <1>4, <1>6 DEF Calculation, Request
  <1> DEFINE R == Proposed(q, last + 1, previous)
  <1>8. /\ R \subseteq Record
        /\ \A r \in R : /\ r.revision = last + 1 /\ r.input = q.input
                        /\ r.allocation = q.allocation /\ r.at = q.at
        /\ \A key \in Keys[q.allocation] : \E r \in R : r.key = key
    <2>1. last + 1 \in Nat \ {0}
      BY <1>6
    <2> HIDE DEF last, k, q
    <2> QED  BY <2>1, <1>4, ProposedRecords
  <1> HIDE DEF R, k, last
  <1>9. /\ R \subseteq Record
        /\ rows' = [rows EXCEPT ![c] = R] /\ todo' = [todo EXCEPT ![c] = R]
        /\ \A r \in R : Serves(r, k, r.key)
        /\ \A key \in Keys[k.allocation] : \E r \in R : r.key = key
    BY <1>2, <1>7, <1>8 DEF R, Serves
  <1>10. Others(c) /\ TypeOK'
    BY <1>1, <1>7, <1>9 DEF Others
  <1>11. ClientInv(c)'
    <2>1. /\ pc'[c] = "record" /\ calc'[c] = k /\ rows'[c] = R /\ todo'[c] = R
          /\ status'[c] = status[c] /\ request'[c] = request[c]
          /\ Sees(c, "calculations")' = Sees(c, "calculations")
          /\ k.revision - 1 = last
      BY <1>1, <1>6, <1>7, <1>9 DEF Sees
    <2>2. Proposing(c)'
      BY <2>1, <1>6, <1>7, <1>9 DEF Proposing
    <2>3. Outside(c)' => Outside(c)
      BY <1>1, <2>1 DEF Outside
    <2> QED  BY <1>1, <1>3, <2>1, <2>2, <2>3 DEF ClientInv
  <1> QED  BY <1>1, <1>10, <1>11, QuietStep

\* A put of the client's own row, on to the next call.
LEMMA PutStep ==
    ASSUME IInv, NEW c \in Clients, NEW t \in Tables, NEW row \in RowsOf(t),
           ~InTransaction(c) => open[c] = Empty,
           Put(c, t, row), ~Refused(c, t, row),
           Coherent(View(c))', Others(c), TypeOK', ClientInv(c)'
    PROVE  IInv'
  <1>1. /\ Effect(c)
        /\ \A x \in Tables : Sees(c, x)' = Sees(c, x) \cup (IF x = t THEN {row} ELSE {})
        /\ \A d \in Clients \ {c} : \A r \in open[d][t] : ~Clash(t, r, row)
        /\ \A x \in Tables : open'[c][x] \subseteq open[c][x] \cup (IF x = t THEN {row} ELSE {})
    BY PutEffect DEF IInv
  <1>2. Distinct(View(c))'
    <2> DEFINE before == View(c)
               after == View(c)'
    <2>1. /\ \A x \in Tables : before[x] = Sees(c, x)
          /\ \A x \in Tables : after[x] = before[x] \cup (IF x = t THEN {row} ELSE {})
      BY <1>1 DEF View
    <2>2. row \in before[t] \/ \A r \in before[t] : ~Clash(t, r, row)
      BY <2>1 DEF Put, Refused
    <2>3. Distinct(before)
      BY DEF IInv, StoreInv
    <2>4. Distinct(after)
      <3> HIDE DEF before, after
      <3> QED  BY <2>1, <2>2, <2>3, DistinctRow
    <2> QED  BY <2>4 DEF Distinct
  <1>3. ASSUME NEW x \in Tables, NEW r \in Sees(c, x)', NEW d \in Clients \ {c},
               NEW s \in open[d][x]
        PROVE  (r \in db[x] /\ r \notin open'[c][x]) \/ ~Clash(x, s, r)
    <2>1. CASE r \in open[c][x]
      BY <2>1 DEF IInv, StoreInv, Apart
    <2>2. CASE x = t /\ r = row
      BY <2>2, <1>1
    <2>3. CASE r \notin open[c][x] /\ ~(x = t /\ r = row)
      BY <2>3, <1>1 DEF Sees
    <2> QED  BY <2>1, <2>2, <2>3
  <1>4. StoreInv'
    BY <1>1, <1>2, <1>3, StoreStep DEF IInv
  <1>5. TypeInv'
    BY <1>1 DEF IInv, TypeInv, Effect
  <1> QED  BY <1>1, <1>4, <1>5, ClientStep

LEMMA PutRecordStep ==
    ASSUME IInv, NEW c \in Clients, PutRecord(c)
    PROVE  IInv'
  <1>0. PICK r \in First(todo[c]) :
           IF Refused(c, "records", r) THEN Raise(c, "conflict")
           ELSE /\ Put(c, "records", r)
                /\ todo' = [todo EXCEPT ![c] = todo[c] \ {r}]
                /\ Goto(c, IF todo[c] = {r} THEN "calculation" ELSE "record")
                /\ UNCHANGED <<calc, rows>>
    BY DEF PutRecord
  <1>1. CASE Refused(c, "records", r)
    BY <1>0, <1>1, Raised
  <1>2. CASE ~Refused(c, "records", r)
    <2> DEFINE next == IF todo[c] = {r} THEN "calculation" ELSE "record"
    <2>1. /\ Put(c, "records", r) /\ pc[c] = "record"
          /\ todo' = [todo EXCEPT ![c] = todo[c] \ {r}]
          /\ pc' = [pc EXCEPT ![c] = next]
          /\ UNCHANGED <<calc, rows, request, status, begun>>
      BY <1>0, <1>2 DEF PutRecord, Goto
    <2>2. ClientInv(c) /\ r \in todo[c] /\ r \in rows[c] /\ r \in Record
      BY DEF IInv, ClientsInv, First, TypeInv, TypeOK
    <2>3. ~InTransaction(c) => open[c] = Empty
      BY <2>1, <2>2, BoundaryAssumption DEF InTransaction, ClientInv, Outside
    <2>4. "records" \in Tables /\ r \in RowsOf("records")
      BY <2>2 DEF Tables, RowsOf
    <2>5. /\ Effect(c)
          /\ \A x \in Tables : Sees(c, x)' = Sees(c, x) \cup (IF x = "records" THEN {r} ELSE {})
      BY <2>1, <2>3, <2>4, PutEffect DEF IInv
    <2>6. Coherent(View(c))'
      <3> DEFINE before == View(c)
                 after == View(c)'
      <3>1. \A x \in Tables : after[x] = before[x] \cup (IF x = "records" THEN {r} ELSE {})
        BY <2>5 DEF View
      <3>2. Coherent(before)
        BY DEF IInv, StoreInv
      <3>3. Coherent(after)
        <4> HIDE DEF before, after
        <4> QED  BY <2>4, <3>1, <3>2, CoherentRow
      <3> QED  BY <3>3 DEF Coherent
    <2>7. Others(c)
      BY <2>1 DEF Others, IInv, TypeInv, TypeOK
    <2>8. TypeOK'
      BY <2>1, <2>5 DEF IInv, TypeInv, TypeOK, Effect, RowsOf, Tables
    <2>9. ClientInv(c)'
      <3>1. /\ pc'[c] = next /\ todo'[c] = todo[c] \ {r} /\ calc'[c] = calc[c]
            /\ rows'[c] = rows[c] /\ status'[c] = status[c] /\ request'[c] = request[c]
        BY <2>1 DEF IInv, TypeInv, TypeOK
      <3>2. /\ Sees(c, "calculations")' = Sees(c, "calculations")
            /\ Sees(c, "records")' = Sees(c, "records") \cup {r}
        BY <2>5 DEF Tables
      <3>3. Proposing(c)'
        BY <2>1, <2>2, <3>1, <3>2 DEF ClientInv, Proposing
      <3>4. Outside(c)' => open'[c] = Empty
        <4>1. Outside(c)' => Boundary = "none"
          BY <3>1 DEF Outside
        <4>2. Boundary = "none" => ~InTransaction(c) /\ open[c] = Empty
          BY <2>3 DEF InTransaction
        <4> QED  BY <2>1, <4>1, <4>2 DEF Put, Write
      <3> QED  BY <2>1, <2>2, <3>1, <3>3, <3>4 DEF ClientInv
    <2> QED  BY <1>2, <2>1, <2>3, <2>4, <2>6, <2>7, <2>8, <2>9, PutStep
  <1> QED  BY <1>1, <1>2

LEMMA PutCalculationStep ==
    ASSUME IInv, NEW c \in Clients, PutCalculation(c)
    PROVE  IInv'
  <1> DEFINE k == calc[c]
  <1>1. CASE Refused(c, "calculations", k)
    BY <1>1, Raised DEF PutCalculation
  <1>2. CASE ~Refused(c, "calculations", k)
    <2>1. /\ Put(c, "calculations", k) /\ pc[c] = "calculation"
          /\ pc' = [pc EXCEPT ![c] = "leave"]
          /\ UNCHANGED <<calc, rows, todo, request, status, begun>>
      BY <1>2 DEF PutCalculation, Goto
    <2>2. ClientInv(c) /\ Proposing(c) /\ k \in Calculation
      BY <2>1 DEF IInv, ClientsInv, ClientInv, Proposing
    <2>3. ~InTransaction(c) => open[c] = Empty
      BY <2>1, <2>2, BoundaryAssumption DEF InTransaction, ClientInv, Outside
    <2>4. "calculations" \in Tables /\ k \in RowsOf("calculations")
      BY <2>2 DEF Tables, RowsOf
    <2>5. /\ Effect(c)
          /\ \A x \in Tables : Sees(c, x)' = Sees(c, x) \cup (IF x = "calculations" THEN {k} ELSE {})
      BY <2>1, <2>3, <2>4, PutEffect DEF IInv
    <2>6. Coherent(View(c))'
      <3> DEFINE before == View(c)
                 after == View(c)'
      <3>1. \A x \in Tables : after[x] = before[x] \cup (IF x = "calculations" THEN {k} ELSE {})
        BY <2>5 DEF View
      <3>2. Coherent(before)
        BY DEF IInv, StoreInv
      <3>3. before["calculations"] = Sees(c, "calculations") /\ before["records"] = Sees(c, "records")
        BY DEF View, Tables
      <3>4. todo[c] = {}
        BY <2>1, <2>2 DEF ClientInv
      <3>5. \A key \in Keys[k.allocation] : \E r \in before["records"] : Serves(r, k, key)
        BY <2>2, <3>3, <3>4 DEF Proposing
      <3>6. Coherent(after)
        <4>1. /\ k.supersedes = k.revision - 1
              /\ \A n \in 1 .. k.revision - 1 : \E p \in before["calculations"] : p.revision = n
          BY <2>2, <3>3 DEF Proposing
        <4> HIDE DEF before, after, k
        <4> QED  BY <2>2, <3>1, <3>2, <3>5, <4>1, CoherentNext
      <3> QED  BY <3>6 DEF Coherent
    <2>7. Others(c)
      BY <2>1 DEF Others, IInv, TypeInv, TypeOK
    <2>8. TypeOK'
      BY <2>1, <2>5 DEF IInv, TypeInv, TypeOK, Effect, RowsOf, Tables
    <2>9. ClientInv(c)'
      <3>1. /\ pc'[c] = "leave" /\ todo'[c] = todo[c] /\ calc'[c] = k
            /\ status'[c] = status[c] /\ request'[c] = request[c]
        BY <2>1 DEF IInv, TypeInv, TypeOK
      <3>2. calc'[c] \in Sees(c, "calculations")'
        BY <2>5, <3>1 DEF Tables
      <3>3. Outside(c)' => open'[c] = Empty
        <4>1. Outside(c)' => Boundary = "none"
          BY <3>1 DEF Outside
        <4>2. Boundary = "none" => ~InTransaction(c) /\ open[c] = Empty
          BY <2>3 DEF InTransaction
        <4> QED  BY <2>1, <4>1, <4>2 DEF Put, Write
      <3> QED  BY <2>1, <2>2, <3>1, <3>2, <3>3 DEF ClientInv
    <2> QED  BY <1>2, <2>1, <2>3, <2>4, <2>6, <2>7, <2>8, <2>9, PutStep
  <1> QED  BY <1>1, <1>2

\* A commit shows the others what the client saw.
LEMMA CommitStep ==
    ASSUME IInv, NEW c \in Clients, Commit(c), Others(c), TypeOK', ClientInv(c)'
    PROVE  IInv'
  <1>1. /\ Effect(c) /\ open'[c] = Empty
        /\ \A t \in Tables : Sees(c, t)' = Sees(c, t) /\ db'[t] = Sees(c, t)
    BY CommitEffect DEF IInv
  <1>2. Coherent(View(c))' /\ Distinct(View(c))'
    <2>1. View(c)' = View(c)
      BY <1>1 DEF View
    <2> QED  BY <2>1 DEF IInv, StoreInv, Coherent, Distinct
  <1>3. ASSUME NEW t \in Tables, NEW r \in Sees(c, t)', NEW d \in Clients \ {c},
               NEW s \in open[d][t]
        PROVE  (r \in db[t] /\ r \notin open'[c][t]) \/ ~Clash(t, s, r)
    BY <1>1 DEF Sees, Empty, IInv, StoreInv, Apart
  <1>4. StoreInv'
    BY <1>1, <1>2, <1>3, StoreStep DEF IInv
  <1>5. TypeInv'
    BY <1>1 DEF IInv, TypeInv, Effect
  <1> QED  BY <1>1, <1>4, <1>5, ClientStep

LEMMA LeaveStep ==
    ASSUME IInv, NEW c \in Clients, Leave(c)
    PROVE  IInv'
  <1>1. /\ pc[c] = "leave" /\ pc' = [pc EXCEPT ![c] = "audit"]
        /\ UNCHANGED <<calc, rows, todo, request, status, begun>>
    BY DEF Leave, Goto
  <1>2. ClientInv(c)
    BY DEF IInv, ClientsInv
  <1>3. /\ pc'[c] = "audit" /\ todo'[c] = todo[c] /\ calc'[c] = calc[c]
        /\ status'[c] = status[c] /\ request'[c] = request[c]
    BY <1>1 DEF IInv, TypeInv, TypeOK
  <1>4. Others(c)
    BY <1>1 DEF Others, IInv, TypeInv, TypeOK
  <1>5. CASE Boundary = "repository"
    <2>1. Commit(c)
      BY <1>5 DEF Leave
    <2>2. /\ Effect(c) /\ open'[c] = Empty
          /\ Sees(c, "calculations")' = Sees(c, "calculations")
      BY <2>1, CommitEffect DEF IInv, Tables
    <2>3. TypeOK'
      BY <1>1, <2>2 DEF IInv, TypeInv, TypeOK, Effect, RowsOf, Tables
    <2>4. ClientInv(c)'
      BY <1>1, <1>2, <1>3, <2>2 DEF ClientInv
    <2> QED  BY <1>4, <2>1, <2>3, <2>4, CommitStep
  <1>6. CASE Boundary # "repository"
    <2>1. UNCHANGED <<db, open>>
      BY <1>6 DEF Leave
    <2>2. TypeOK'
      BY <1>1, <2>1 DEF IInv, TypeInv, TypeOK
    <2>3. ClientInv(c)'
      <3>1. Outside(c)' => Outside(c)
        BY <1>6 DEF Outside
      <3> QED  BY <1>1, <1>2, <1>3, <2>1, <3>1 DEF ClientInv, Sees
    <2> QED  BY <1>4, <2>1, <2>2, <2>3, QuietStep
  <1> QED  BY <1>5, <1>6

\* Two appends of one revision are the same row: an append is never refused.
LEMMA AppendStep ==
    ASSUME IInv, NEW c \in Clients, NEW table, NEW next, Append(c, table, next),
           \/ table = "audit" /\ next = "lineage"
           \/ table = "lineage" /\ next = "finish"
    PROVE  IInv'
  <1> DEFINE n == calc[c].revision
  <1>1. /\ Put(c, table, n) /\ pc[c] = table /\ pc' = [pc EXCEPT ![c] = next]
        /\ UNCHANGED <<calc, rows, todo, request, status, begun>>
    BY DEF Append, Goto
  <1>2. ClientInv(c) /\ calc[c] \in Sees(c, "calculations")
    BY <1>1 DEF IInv, ClientsInv, ClientInv
  <1>3. table \in Tables /\ n \in RowsOf(table)
    BY <1>2, TypedStore DEF Tables, RowsOf, IInv, Calculation
  <1>4. ~InTransaction(c) => open[c] = Empty
    BY <1>1, <1>2, BoundaryAssumption DEF InTransaction, ClientInv, Outside
  <1>5. ~Refused(c, table, n)
    BY DEF Refused, Clash
  <1>6. /\ Effect(c)
        /\ \A x \in Tables : Sees(c, x)' = Sees(c, x) \cup (IF x = table THEN {n} ELSE {})
    BY <1>1, <1>3, <1>4, PutEffect DEF IInv
  <1>7. Coherent(View(c))'
    <2> DEFINE before == View(c)
               after == View(c)'
    <2>1. \A x \in Tables : after[x] = before[x] \cup (IF x = table THEN {n} ELSE {})
      BY <1>6 DEF View
    <2>2. Coherent(before)
      BY DEF IInv, StoreInv
    <2>3. table = "audit" => n \in Revisions(before["calculations"])
      BY <1>2 DEF View, Tables, Revisions
    <2>4. table = "lineage" => n \in before["audit"]
      BY <1>1, <1>2 DEF ClientInv, View, Tables
    <2>5. Coherent(after)
      <3> HIDE DEF before, after, n
      <3> QED  BY <1>3, <2>1, <2>2, <2>3, <2>4, CoherentRow
    <2> QED  BY <2>5 DEF Coherent
  <1>8. Others(c) /\ TypeOK'
    <2>1. Others(c)
      BY <1>1 DEF Others, IInv, TypeInv, TypeOK
    <2>2. TypeOK'
      BY <1>1, <1>6 DEF IInv, TypeInv, TypeOK, Effect, RowsOf, Tables
    <2> QED  BY <2>1, <2>2
  <1>9. ClientInv(c)'
    <2>1. /\ pc'[c] = next /\ todo'[c] = todo[c] /\ calc'[c] = calc[c]
          /\ status'[c] = status[c] /\ request'[c] = request[c]
      BY <1>1 DEF IInv, TypeInv, TypeOK
    <2>2. /\ Sees(c, "calculations")' = Sees(c, "calculations")
          /\ Sees(c, "audit") \subseteq Sees(c, "audit")'
          /\ n \in Sees(c, table)'
      BY <1>3, <1>6 DEF Tables
    <2>3. Outside(c)' => open'[c] = Empty
      <3>1. Outside(c)' => ~InTransaction(c)
        BY <1>1 DEF Outside, InTransaction
      <3>2. ~InTransaction(c) => UNCHANGED open /\ open[c] = Empty
        BY <1>1, <1>4 DEF Put, Write
      <3> QED  BY <3>1, <3>2
    <2> QED  BY <1>1, <1>2, <2>1, <2>2, <2>3 DEF ClientInv
  <1> QED  BY <1>1, <1>3, <1>4, <1>5, <1>7, <1>8, <1>9, PutStep

LEMMA FinishStep ==
    ASSUME IInv, NEW c \in Clients, Finish(c)
    PROVE  IInv'
  <1>1. /\ pc[c] = "finish" /\ pc' = [pc EXCEPT ![c] = "idle"]
        /\ status' = [status EXCEPT ![c] = "ok"] /\ calc' = [calc EXCEPT ![c] = calc[c]]
        /\ rows' = [rows EXCEPT ![c] = rows[c]] /\ todo' = [todo EXCEPT ![c] = {}]
        /\ UNCHANGED <<request, begun>>
    BY DEF Finish, Reply
  <1>2. ClientInv(c)
    BY DEF IInv, ClientsInv
  <1>3. /\ pc'[c] = "idle" /\ todo'[c] = {} /\ calc'[c] = calc[c] /\ status'[c] = "ok"
    BY <1>1 DEF IInv, TypeInv, TypeOK
  <1>4. Others(c)
    BY <1>1 DEF Others, IInv, TypeInv, TypeOK
  <1>5. CASE Boundary = "host"
    <2>1. Commit(c)
      BY <1>5 DEF Finish
    <2>2. /\ Effect(c) /\ open'[c] = Empty
          /\ db'["calculations"] = Sees(c, "calculations")
          /\ db'["lineage"] = Sees(c, "lineage")
      BY <2>1, CommitEffect DEF IInv, Tables
    <2>3. TypeOK'
      BY <1>1, <2>2 DEF IInv, TypeInv, TypeOK, Effect, RowsOf, Tables
    <2>4. ClientInv(c)'
      BY <1>1, <1>2, <1>3, <2>2 DEF ClientInv
    <2> QED  BY <1>4, <2>1, <2>3, <2>4, CommitStep
  <1>6. CASE Boundary # "host"
    <2>1. UNCHANGED <<db, open>>
      BY <1>6 DEF Finish
    <2>2. open[c] = Empty
      BY <1>1, <1>2, <1>6, BoundaryAssumption DEF ClientInv, Outside
    <2>3. TypeOK'
      BY <1>1, <2>1, <2>2 DEF IInv, TypeInv, TypeOK
    <2>4. ClientInv(c)'
      BY <1>1, <1>2, <1>3, <2>1, <2>2 DEF ClientInv, Sees, Empty, Tables
    <2> QED  BY <1>4, <2>1, <2>3, <2>4, QuietStep
  <1> QED  BY <1>5, <1>6

LEMMA UnchangedStep ==
    ASSUME IInv, UNCHANGED vars
    PROVE  IInv'
  <1> USE DEF vars
  <1>1. TypeInv'
    BY DEF IInv, TypeInv, TypeOK
  <1>2. StoreInv'
    BY QuietStore DEF IInv
  <1>3. ClientsInv'
    BY DEF IInv, ClientsInv, ClientInv, Outside, Proposing, Sees
  <1> QED  BY <1>1, <1>2, <1>3 DEF IInv

LEMMA InvInit == Init => IInv
  <1> SUFFICES ASSUME Init PROVE IInv
    OBVIOUS
  <1>1. \A t \in Tables : db[t] = {}
    BY DEF Init, Empty
  <1>2. \A c \in Clients : DOMAIN open[c] = Tables /\ \A t \in Tables : open[c][t] = {}
    BY DEF Init, Empty
  <1>3. TypeInv
    BY <1>1, <1>2 DEF TypeInv, TypeOK, Init, Empty, Tables
  <1>4. Coherent(db) /\ Distinct(db)
    BY <1>1 DEF Coherent, Distinct, Chained, Recorded, Tables
  <1>5. \A c \in Clients : Coherent(View(c)) /\ Distinct(View(c))
    <2> SUFFICES ASSUME NEW c \in Clients
                 PROVE  Coherent(View(c)) /\ Distinct(View(c))
      OBVIOUS
    <2>1. \A t \in Tables : View(c)[t] = {}
      BY <1>1, <1>2 DEF View, Sees
    <2> QED  BY <2>1 DEF Coherent, Distinct, Chained, Recorded, Tables
  <1>6. Apart
    BY <1>2 DEF Apart
  <1>7. ClientsInv
    BY DEF Init, ClientsInv, ClientInv
  <1> QED  BY <1>3, <1>4, <1>5, <1>6, <1>7 DEF IInv, StoreInv

LEMMA InvStep == IInv /\ [Next]_vars => IInv'
  <1> SUFFICES ASSUME IInv, [Next]_vars
               PROVE  IInv'
    OBVIOUS
  <1>1. CASE UNCHANGED vars
    BY <1>1, UnchangedStep
  <1>2. ASSUME NEW c \in Clients, Step(c)
        PROVE  IInv'
    <2>1. CASE AppendAudit(c)
      BY <2>1, AppendStep DEF AppendAudit
    <2>2. CASE AppendLineage(c)
      BY <2>2, AppendStep DEF AppendLineage
    <2> QED
      BY <1>2, <2>1, <2>2, FindStep, ReplayStep, LatestStep, ProposeStep, PutRecordStep,
         PutCalculationStep, LeaveStep, FinishStep DEF Step
  <1>3. ASSUME NEW c \in Clients, Fail(c)
        PROVE  IInv'
    BY <1>3, Raised DEF Fail
  <1> QED  BY <1>1, <1>2, <1>3, BeginStep DEF Next
-----------------------------------------------------------------------------
(* The theorems.                                                            *)

THEOREM Invariance == Spec => []IInv
  BY InvInit, InvStep, PTL DEF Spec

\* Every row and every answer has the shape the code gives it, and between its
\* calls a client leaves no transaction open.
THEOREM TypeCorrect == Spec => []TypeOK
  <1>1. IInv => TypeOK
    BY DEF IInv, TypeInv
  <1> QED  BY Invariance, <1>1, PTL

\* The stored calculations of a series are one chain without gaps or forks,
\* with or without transactions, however stale the scans (calculate,
\* persist_calculation and the unique indexes of the calculations).
THEOREM Chain == Spec => []OneChain
  <1>1. IInv => OneChain
    <2> SUFFICES ASSUME IInv, NEW k \in db["calculations"]
                 PROVE  /\ k.supersedes = k.revision - 1
                        /\ k.revision > 1 =>
                              \E p \in db["calculations"] : p.revision = k.revision - 1
                        /\ \A l \in db["calculations"] :
                              k.revision = l.revision
                                \/ (k.input = l.input /\ k.allocation = l.allocation) => k = l
      BY DEF OneChain
    <2>1. Chained(db["calculations"]) /\ Distinct(db) /\ k \in Calculation
      BY DEF IInv, StoreInv, Coherent, TypeInv, TypeOK
    <2>2. ASSUME k.revision > 1
          PROVE  \E p \in db["calculations"] : p.revision = k.revision - 1
      <3>1. k.revision - 1 \in 1 .. k.revision
        BY <2>1, <2>2 DEF Calculation
      <3> QED  BY <2>1, <3>1 DEF Chained
    <2>3. \A l \in db["calculations"] :
              k.revision = l.revision
                \/ (k.input = l.input /\ k.allocation = l.allocation) => k = l
      BY <2>1 DEF Distinct, Clash, SameIdentity, Tables
    <2> QED  BY <2>1, <2>2, <2>3 DEF Chained
  <1> QED  BY Invariance, <1>1, PTL

\* No calculation is stored before every record it names, made from its own
\* input, whether or not a transaction encloses them (persist_calculation puts
\* the records first).
THEOREM RecordsFirst == Spec => []RecordsPrecedeParent
  <1>1. IInv => RecordsPrecedeParent
    BY DEF IInv, StoreInv, Coherent, Recorded, Serves, RecordsPrecedeParent, RecordsOf
  <1> QED  BY Invariance, <1>1, PTL

\* Audit and lineage name stored calculations, lineage follows audit, and a
\* call that succeeds leaves both (MeridianEvidenceSink.emit after replay and
\* after persist_calculation).
THEOREM Evidence == Spec => []EvidenceBacked
  <1>1. IInv => EvidenceBacked
    BY DEF IInv, StoreInv, Coherent, Revisions, ClientsInv, ClientInv, EvidenceBacked
  <1> QED  BY Invariance, <1>1, PTL
-----------------------------------------------------------------------------
(* What a transaction around the writes adds, whether the repository opens  *)
(* it or the host does: Boundary # "none" throughout.  What depends on      *)
(* current scans says so.                                                   *)

\* Whether the records of k supersede those of the calculation before it.
LinkOf(k, calculations) ==
    IF \E p \in calculations : p.revision = k.revision - 1 /\ p.allocation = k.allocation
    THEN k.revision - 1 ELSE 0

\* Every record is one its calculation names, made from the same input.
Whole(store) ==
    /\ \A k \in store["calculations"] : \A r \in store["records"] :
          r.revision = k.revision => Serves(r, k, r.key) /\ r.key \in Keys[k.allocation]
    /\ \A r \in store["records"] : \E k \in store["calculations"] : k.revision = r.revision

Linked(store) ==
    \A k \in store["calculations"] : \A r \in store["records"] :
        r.revision = k.revision => r.supersedes = LinkOf(k, store["calculations"])

Sound(store) == Whole(store) /\ (~StaleReads => Linked(store))

Storing(c) == pc[c] \in {"record", "calculation"}
Stored(c) == pc[c] \in {"leave", "audit", "lineage", "finish"}

\* Only a client between its first record and its calculation sees records
\* without their calculation: its own.
Stores == Sound(db) /\ \A c \in Clients : ~Storing(c) => Sound(View(c))

\* The records it holds are those its calculation names, one for each key.
HoldsRows(c) ==
    /\ \A r \in rows[c] : Serves(r, calc[c], r.key) /\ r.key \in Keys[calc[c].allocation]
    /\ \A key \in Keys[calc[c].allocation] : \E r \in rows[c] : r.key = key
    /\ \A r, s \in rows[c] : r.key = s.key => r = s

\* Nothing begun has the identity of the request, or a revision from n on.
NewSince(c, n) ==
    \A k \in begun[c] : ~SameIdentity(k, request[c]) /\ k.revision < n

Held(c) ==
    /\ pc[c] \in {"find", "replay", "latest", "previous"} => open[c] = Empty
    /\ Storing(c) => open[c]["calculations"] = {} /\ open[c]["records"] \subseteq rows[c]
    /\ open[c]["calculations"] \subseteq {calc[c]}
    /\ Storing(c) \/ Stored(c) \/ status[c] = "ok" => HoldsRows(c)
    /\ Stored(c) => rows[c] \subseteq Sees(c, "records")
    /\ status[c] = "ok" => rows[c] \subseteq db["records"]
    /\ pc[c] = "replay" \/ Storing(c) \/ Stored(c) \/ status[c] = "ok" =>
          SameIdentity(calc[c], request[c])
    /\ begun[c] \subseteq db["calculations"]

\* With current scans: what a call proposes is newer than all it began with.
Current(c) ==
    /\ Storing(c) => \A r \in rows[c] : r.supersedes = LinkOf(calc[c], db["calculations"])
    /\ pc[c] = "latest" => \A k \in begun[c] : ~SameIdentity(k, request[c])
    /\ pc[c] = "previous" =>
          NewSince(c, IF calc[c] = None THEN 1 ELSE calc[c].revision + 1)
    /\ Storing(c) => NewSince(c, calc[c].revision)
    /\ status[c] = "conflict" => \E k \in db["calculations"] : k \notin begun[c]
    /\ status[c] # "invalid"

\* In a host transaction only the calculation being stored lacks its lineage.
Evidenced(c) ==
    Revisions(Sees(c, "calculations")) \subseteq
        Sees(c, "lineage") \cup
        (IF pc[c] \in {"leave", "audit", "lineage"} THEN {calc[c].revision} ELSE {})

TInv ==
    /\ Stores
    /\ \A c \in Clients : Held(c)
    /\ ~StaleReads => \A c \in Clients : Current(c)
    /\ Boundary = "host" => /\ Revisions(db["calculations"]) \subseteq db["lineage"]
                            /\ \A c \in Clients : Evidenced(c)
-----------------------------------------------------------------------------
(* Stores.                                                                  *)

LEMMA SoundSame ==
    ASSUME NEW u, NEW w, Sound(u), \A t \in Tables : w[t] = u[t]
    PROVE  Sound(w)
  BY DEF Sound, Whole, Linked, Tables

\* The calculation before a chained one is settled: more rows do not change
\* what it is linked to.
LEMMA LinkStable ==
    ASSUME NEW u, NEW w \in SUBSET Calculation, u \subseteq w, NEW k \in Calculation,
           \A n \in 1 .. k.revision - 1 : \E p \in u : p.revision = n,
           \A p, q \in w : p.revision = q.revision => p = q
    PROVE  LinkOf(k, w) = LinkOf(k, u)
  <1> SUFFICES ASSUME NEW p \in w, p.revision = k.revision - 1
               PROVE  p \in u
    BY DEF LinkOf
  <1>1. p.revision \in Nat \ {0} /\ k.revision \in Nat \ {0}
    BY DEF Calculation
  <1>2. PICK q \in u : q.revision = p.revision
    BY <1>1
  <1> QED  BY <1>2

LEMMA UniqueRevision ==
    ASSUME NEW w, Distinct(w)
    PROVE  \A p, q \in w["calculations"] : p.revision = q.revision => p = q
  BY DEF Distinct, Clash, Tables

LEMMA SoundMerge ==
    ASSUME NEW u, NEW v, NEW w, Sound(u), Sound(v), Coherent(u), Coherent(v), Distinct(w),
           w["calculations"] \subseteq Calculation,
           \A t \in Tables : w[t] = u[t] \cup v[t]
    PROVE  Sound(w)
  <1>0. /\ w["calculations"] = u["calculations"] \cup v["calculations"]
        /\ w["records"] = u["records"] \cup v["records"]
        /\ \A p, q \in w["calculations"] : p.revision = q.revision => p = q
    BY UniqueRevision DEF Tables
  <1>1. Whole(w)
    <2>1. ASSUME NEW k \in w["calculations"], NEW r \in w["records"], r.revision = k.revision
          PROVE  \/ k \in u["calculations"] /\ r \in u["records"]
                 \/ k \in v["calculations"] /\ r \in v["records"]
      <3>1. CASE r \in u["records"]
        <4>1. PICK j \in u["calculations"] : j.revision = r.revision
          BY <3>1 DEF Sound, Whole
        <4> QED  BY <2>1, <3>1, <4>1, <1>0
      <3>2. CASE r \in v["records"]
        <4>1. PICK j \in v["calculations"] : j.revision = r.revision
          BY <3>2 DEF Sound, Whole
        <4> QED  BY <2>1, <3>2, <4>1, <1>0
      <3> QED  BY <3>1, <3>2, <1>0
    <2> QED  BY <2>1, <1>0 DEF Sound, Whole
  <1>2. ASSUME ~StaleReads
        PROVE  Linked(w)
    <2> SUFFICES ASSUME NEW k \in w["calculations"], NEW r \in w["records"],
                        r.revision = k.revision
                 PROVE  r.supersedes = LinkOf(k, w["calculations"])
      BY DEF Linked
    <2>1. ASSUME NEW x, Sound(x), Coherent(x), r \in x["records"],
                 x["calculations"] \subseteq w["calculations"]
          PROVE  r.supersedes = LinkOf(k, w["calculations"])
      <3>1. PICK j \in x["calculations"] : j.revision = r.revision
        BY <2>1 DEF Sound, Whole
      <3>2. j = k /\ k \in Calculation
        BY <3>1, <2>1, <1>0
      <3>3. r.supersedes = LinkOf(k, x["calculations"])
        BY <1>2, <2>1, <3>1, <3>2 DEF Sound, Linked
      <3>4. \A n \in 1 .. k.revision - 1 : \E p \in x["calculations"] : p.revision = n
        BY <2>1, <3>1, <3>2 DEF Coherent, Chained, Calculation
      <3> QED  BY <3>2, <3>3, <3>4, <2>1, <1>0, LinkStable
    <2> QED  BY <2>1, <1>0
  <1> QED  BY <1>1, <1>2 DEF Sound

\* A row of another table leaves a store sound.
LEMMA SoundEvidence ==
    ASSUME NEW u, NEW w, Sound(u), w["calculations"] = u["calculations"],
           w["records"] = u["records"]
    PROVE  Sound(w)
  BY DEF Sound, Whole, Linked

\* After a step of c every store but that of a storing client is sound.
LEMMA StoresStep ==
    ASSUME IInv, IInv', Stores, NEW c \in Clients, Effect(c), Others(c),
           pc'[c] \notin {"record", "calculation"} => Sound(View(c))',
           \/ /\ db'["calculations"] = db["calculations"]
              /\ db'["records"] = db["records"]
           \/ Sound(View(c))'
    PROVE  Stores'
  <1> DEFINE mine == View(c)'
             now == db'
  <1>0. /\ Sound(mine) <=> Sound(View(c))'
        /\ Coherent(mine) /\ Distinct(mine) /\ Coherent(now) /\ Distinct(now)
        /\ \A t \in Tables : mine[t] = now[t] \cup open'[c][t]
    BY DEF Sound, Whole, Linked, IInv, StoreInv, Coherent, Distinct, View, Sees
  <1>1. \/ now["calculations"] = db["calculations"] /\ now["records"] = db["records"]
        \/ (\A t \in Tables : now[t] = mine[t]) /\ Sound(mine)
    BY <1>0 DEF Effect, Empty
  <1>2. Sound(db)'
    <2>1. Sound(now)
      <3> HIDE DEF mine, now
      <3> QED  BY <1>1, SoundSame, SoundEvidence DEF Stores
    <2> QED  BY <2>1 DEF Sound, Whole, Linked
  <1>3. ASSUME NEW d \in Clients \ {c}, ~Storing(d)'
        PROVE  Sound(View(d))'
    <2> DEFINE theirs == View(d)'
    <2>1. /\ \A t \in Tables : View(d)[t] = db[t] \cup open[d][t]
          /\ \A t \in Tables : theirs[t] = now[t] \cup open[d][t]
      BY <1>3 DEF View, Sees, Effect
    <2>2. Sound(View(d)) /\ Coherent(View(d))
      BY <1>3 DEF Stores, Storing, Others, IInv, StoreInv
    <2>3. /\ Distinct(theirs) /\ theirs["calculations"] \subseteq Calculation
          /\ Sound(theirs) => Sound(View(d))'
      <3>1. Distinct(theirs)
        BY <1>3 DEF IInv, StoreInv, Distinct
      <3>2. theirs["calculations"] = Sees(d, "calculations")'
        BY DEF View, Tables
      <3>3. Sees(d, "calculations")' \subseteq Calculation
        BY <1>3 DEF IInv, TypeInv, TypeOK, RowsOf, Tables, Sees
      <3>4. Sound(theirs) => Sound(View(d))'
        BY DEF Sound, Whole, Linked
      <3> QED  BY <3>1, <3>2, <3>3, <3>4
    <2>4. CASE now["calculations"] = db["calculations"] /\ now["records"] = db["records"]
      <3>1. /\ theirs["calculations"] = View(d)["calculations"]
            /\ theirs["records"] = View(d)["records"]
        BY <2>1, <2>4 DEF Tables
      <3>2. Sound(theirs)
        <4> HIDE DEF theirs, now
        <4> QED  BY <3>1, <2>2, SoundEvidence
      <3> QED  BY <3>2, <2>3
    <2>5. CASE (\A t \in Tables : now[t] = mine[t]) /\ Sound(mine)
      <3>1. \A t \in Tables : db[t] \subseteq now[t]
        BY DEF Effect
      <3>2. \A t \in Tables : theirs[t] = mine[t] \cup View(d)[t]
        BY <2>1, <2>5, <3>1
      <3>3. Sound(theirs)
        <4> HIDE DEF theirs, now, mine
        <4> QED  BY <1>0, <2>2, <2>3, <2>5, <3>2, SoundMerge
      <3> QED  BY <3>3, <2>3
    <2> QED  BY <1>1, <2>4, <2>5
  <1>4. ~Storing(c)' => Sound(View(c))'
    BY DEF Storing
  <1> QED  BY <1>2, <1>3, <1>4 DEF Stores
-----------------------------------------------------------------------------
(* Clients.                                                                 *)

HostEvidenced == Boundary = "host" => Revisions(db["calculations"]) \subseteq db["lineage"]

LEMMA OthersHeld ==
    ASSUME IInv, IInv', TInv, NEW c \in Clients, NEW d \in Clients \ {c},
           Effect(c), Others(c), HostEvidenced'
    PROVE  /\ Held(d)'
           /\ ~StaleReads => Current(d)'
           /\ Boundary = "host" => Evidenced(d)'
  <1>1. /\ pc'[d] = pc[d] /\ calc'[d] = calc[d] /\ rows'[d] = rows[d]
        /\ status'[d] = status[d] /\ open'[d] = open[d]
        /\ request'[d] = request[d] /\ begun'[d] = begun[d]
        /\ \A t \in Tables : db[t] \subseteq db'[t] /\ Sees(d, t) \subseteq Sees(d, t)'
    BY DEF Others, Effect, Sees
  <1>2. Held(d)'
    BY <1>1 DEF TInv, Held, HoldsRows, Storing, Stored, Tables
  <1>3. ASSUME ~StaleReads
        PROVE  Current(d)'
    <2>1. ASSUME Storing(d)
          PROVE  LinkOf(calc[d], db["calculations"])' = LinkOf(calc[d], db["calculations"])
      <3>1. Proposing(d) /\ open[d]["calculations"] = {}
        BY <2>1 DEF IInv, ClientsInv, ClientInv, Storing, TInv, Held
      <3>2. \A n \in 1 .. calc[d].revision - 1 : \E p \in db["calculations"] : p.revision = n
        BY <3>1 DEF Proposing, Sees
      <3>3. calc[d] \in Calculation /\ db'["calculations"] \subseteq Calculation
        BY <3>1 DEF Proposing, IInv, TypeInv, TypeOK
      <3>4. \A p, q \in db'["calculations"] : p.revision = q.revision => p = q
        BY UniqueRevision DEF IInv, StoreInv, Distinct, Tables, Clash
      <3>5. db["calculations"] \subseteq db'["calculations"]
        BY <1>1 DEF Tables
      <3>6. LinkOf(calc[d], db'["calculations"]) = LinkOf(calc[d], db["calculations"])
        BY <3>2, <3>3, <3>4, <3>5, LinkStable
      <3> QED  BY <3>6, <1>1 DEF LinkOf
    <2>2. Current(d)
      BY <1>3 DEF TInv
    <2>3. Storing(d)' = Storing(d) /\ \A n : NewSince(d, n)' = NewSince(d, n)
      BY <1>1 DEF Storing, NewSince
    <2>4. Storing(d)' => \A r \in rows'[d] : r.supersedes = LinkOf(calc[d], db["calculations"])'
      BY <1>1, <2>1, <2>2, <2>3 DEF Current
    <2>5. Storing(d)' => NewSince(d, calc[d].revision)'
      BY <1>1, <2>2, <2>3 DEF Current, NewSince
    <2>6. /\ pc'[d] = "latest" => \A k \in begun'[d] : ~SameIdentity(k, request'[d])
          /\ pc'[d] = "previous" =>
                NewSince(d, IF calc[d] = None THEN 1 ELSE calc[d].revision + 1)'
      BY <1>1, <2>2 DEF Current, NewSince
    <2>7. /\ status'[d] = "conflict" => \E k \in db'["calculations"] : k \notin begun'[d]
          /\ status'[d] # "invalid"
      BY <1>1, <2>2 DEF Current, Tables
    <2> QED  BY <2>4, <2>5, <2>6, <2>7 DEF Current
  <1>4. ASSUME Boundary = "host"
        PROVE  Evidenced(d)'
    <2>1. \A t \in Tables : Sees(d, t)' = Sees(d, t) \cup db'[t]
      BY <1>1 DEF Sees, Effect
    <2> QED
      BY <1>1, <1>4, <2>1 DEF TInv, Evidenced, HostEvidenced, Revisions, Tables
  <1> QED  BY <1>2, <1>3, <1>4

LEMMA TransactionStep ==
    ASSUME IInv, IInv', TInv, NEW c \in Clients, Effect(c), Others(c),
           pc'[c] \notin {"record", "calculation"} => Sound(View(c))',
           \/ /\ db'["calculations"] = db["calculations"]
              /\ db'["records"] = db["records"]
           \/ Sound(View(c))',
           HostEvidenced', Held(c)',
           ~StaleReads => Current(c)',
           Boundary = "host" => Evidenced(c)'
    PROVE  TInv'
  <1>1. Stores'
    BY StoresStep DEF TInv
  <1>2. \A d \in Clients \ {c} : /\ Held(d)'
                                 /\ ~StaleReads => Current(d)'
                                 /\ Boundary = "host" => Evidenced(d)'
    BY OthersHeld
  <1> QED  BY <1>1, <1>2 DEF TInv, HostEvidenced

LEMMA QuietTransaction ==
    ASSUME IInv, IInv', TInv, NEW c \in Clients, UNCHANGED <<db, open>>, Others(c),
           ~Storing(c), Held(c)',
           ~StaleReads => Current(c)',
           Boundary = "host" => Evidenced(c)'
    PROVE  TInv'
  <1>1. Effect(c)
    BY QuietEffect DEF IInv
  <1>2. HostEvidenced'
    BY DEF TInv, HostEvidenced
  <1>3. View(c)' = View(c)
    BY DEF View, Sees
  <1>4. Sound(View(c))'
    BY <1>3 DEF TInv, Stores, Sound, Whole, Linked
  <1> QED  BY <1>1, <1>2, <1>4, TransactionStep

\* A call that raises leaves nothing behind.
LEMMA RaisedTransaction ==
    ASSUME IInv, IInv', TInv, NEW c \in Clients,
           NEW how \in {"conflict", "invalid", "failed"}, Raise(c, how),
           ~StaleReads => how # "invalid",
           ~StaleReads /\ how = "conflict" => \E k \in db["calculations"] : k \notin begun[c]
    PROVE  TInv'
  <1>1. /\ pc' = [pc EXCEPT ![c] = "idle"] /\ status' = [status EXCEPT ![c] = how]
        /\ calc' = [calc EXCEPT ![c] = None] /\ rows' = [rows EXCEPT ![c] = {}]
        /\ todo' = [todo EXCEPT ![c] = {}] /\ UNCHANGED <<request, begun>>
        /\ UNCHANGED db /\ open' = [open EXCEPT ![c] = Empty]
    BY DEF Raise, Reply
  <1>2. Effect(c) /\ \A t \in Tables : Sees(c, t)' = db[t]
    BY <1>1, RolledBackEffect DEF IInv
  <1>3. /\ pc'[c] = "idle" /\ status'[c] = how /\ open'[c] = Empty
        /\ begun'[c] = begun[c] /\ db' = db
    BY <1>1, TypedStore DEF IInv, TypeInv, TypeOK
  <1>4. Others(c)
    BY <1>1 DEF Others, IInv, TypeInv, TypeOK
  <1>5. Sound(View(c))'
    <2> DEFINE mine == View(c)'
    <2>1. \A t \in Tables : mine[t] = db[t]
      BY <1>2 DEF View
    <2>2. Sound(mine)
      <3> HIDE DEF mine
      <3> QED  BY <2>1, SoundSame DEF TInv, Stores
    <2> QED  BY <2>2 DEF Sound, Whole, Linked
  <1>6. HostEvidenced'
    BY <1>3 DEF TInv, HostEvidenced
  <1>7. Held(c)'
    BY <1>3 DEF TInv, Held, Storing, Stored, Empty, Tables
  <1>8. ~StaleReads => Current(c)'
    BY <1>3 DEF Current, Storing
  <1>9. Boundary = "host" => Evidenced(c)'
    BY <1>2, <1>3, <1>6 DEF Evidenced, HostEvidenced, Tables
  <1> QED  BY <1>2, <1>4, <1>5, <1>6, <1>7, <1>8, <1>9, TransactionStep
-----------------------------------------------------------------------------
(* The steps.                                                               *)

LEMMA BeginTransaction ==
    ASSUME IInv, IInv', TInv, NEW c \in Clients, NEW q \in Requests, Begin(c, q)
    PROVE  TInv'
  <1>1. /\ pc[c] = "idle" /\ pc'[c] = "find" /\ status'[c] = "none" /\ UNCHANGED <<db, open>>
        /\ begun'[c] = db["calculations"] /\ open[c] = Empty
    BY DEF Begin, IInv, TypeInv, TypeOK
  <1>2. Others(c)
    BY DEF Begin, Others, IInv, TypeInv, TypeOK
  <1>3. Held(c)' /\ Current(c)'
    BY <1>1 DEF Held, Current, Storing, Stored, Empty, Tables
  <1>4. Boundary = "host" => Evidenced(c)'
    BY <1>1 DEF TInv, Evidenced, Sees
  <1>5. ~Storing(c)
    BY <1>1 DEF Storing
  <1> QED  BY <1>1, <1>2, <1>3, <1>4, <1>5, QuietTransaction

LEMMA FindTransaction ==
    ASSUME IInv, IInv', TInv, NEW c \in Clients, Find(c)
    PROVE  TInv'
  <1> DEFINE same == {k \in Sees(c, "calculations") : SameIdentity(k, request[c])}
  <1>0. /\ pc[c] = "find" /\ open[c] = Empty /\ begun[c] \subseteq Sees(c, "calculations")
        /\ ~Storing(c) /\ status[c] = "none" /\ begun[c] \subseteq db["calculations"]
    BY DEF Find, TInv, Held, Storing, Sees, IInv, ClientsInv, ClientInv
  <1>1. PICK found \in Scanned(same) :
           IF found = {} THEN Goto(c, "latest") /\ UNCHANGED <<db, open, calc, rows, todo>>
           ELSE \E k \in found :
                  IF found # {k} THEN Raise(c, "conflict")
                  ELSE /\ Goto(c, "replay")
                       /\ calc' = [calc EXCEPT ![c] = k]
                       /\ UNCHANGED <<db, open, rows, todo>>
    BY DEF Find
  <1>2. found \subseteq same /\ (~StaleReads => found = same)
    BY DEF Scanned
  <1>3. \A j, k \in same : j = k
    <2> SUFFICES ASSUME NEW j \in same, NEW k \in same PROVE j = k
      OBVIOUS
    <2>1. j \in View(c)["calculations"] /\ k \in View(c)["calculations"]
      BY DEF View, Tables
    <2>2. Clash("calculations", j, k)
      BY DEF Clash, SameIdentity
    <2>3. Distinct(View(c)) /\ "calculations" \in Tables
      BY DEF IInv, StoreInv, Tables
    <2> QED  BY <2>1, <2>2, <2>3 DEF Distinct
  <1>4. CASE Goto(c, "latest") /\ UNCHANGED <<db, open, calc, rows, todo>> /\ found = {}
    <2>1. /\ pc'[c] = "latest" /\ status'[c] = "none" /\ begun'[c] = begun[c]
          /\ request'[c] = request[c] /\ UNCHANGED <<db, open>>
      BY <1>0, <1>4 DEF Goto, IInv, TypeInv, TypeOK
    <2>2. Others(c)
      BY <1>4 DEF Goto, Others, IInv, TypeInv, TypeOK
    <2>3. Held(c)'
      BY <1>0, <2>1 DEF Held, Storing, Stored, Empty, Tables
    <2>4. ~StaleReads => Current(c)'
      BY <1>0, <1>2, <1>4, <2>1 DEF Current, Storing
    <2>5. Boundary = "host" => Evidenced(c)'
      BY <1>0, <2>1 DEF TInv, Evidenced, Sees
    <2> QED  BY <1>0, <2>1, <2>2, <2>3, <2>4, <2>5, QuietTransaction
  <1>5. ASSUME NEW k \in found, Goto(c, "replay"), calc' = [calc EXCEPT ![c] = k],
               UNCHANGED <<db, open, rows, todo>>
        PROVE  TInv'
    <2>1. /\ pc'[c] = "replay" /\ status'[c] = "none" /\ begun'[c] = begun[c]
          /\ request'[c] = request[c] /\ UNCHANGED <<db, open>> /\ calc'[c] = k
      BY <1>0, <1>5 DEF Goto, IInv, TypeInv, TypeOK
    <2>2. Others(c)
      BY <1>5 DEF Goto, Others, IInv, TypeInv, TypeOK
    <2>3. Held(c)'
      BY <1>0, <1>2, <2>1 DEF Held, Storing, Stored, Empty, Tables
    <2>4. Current(c)'
      BY <2>1 DEF Current, Storing
    <2>5. Boundary = "host" => Evidenced(c)'
      BY <1>0, <2>1 DEF TInv, Evidenced, Sees
    <2> QED  BY <1>0, <2>1, <2>2, <2>3, <2>4, <2>5, QuietTransaction
  <1> QED  BY <1>1, <1>2, <1>3, <1>4, <1>5

\* The records a sound store holds for a calculation are those it names.
LEMMA SoundNames ==
    ASSUME NEW u, NEW k \in u["calculations"], Sound(u), Coherent(u)
    PROVE  Names(k, {r \in u["records"] : r.revision = k.revision})
  BY DEF Names, Sound, Whole, Coherent, Recorded, Serves

\* Rows of a sound store with the names of a calculation are all its records.
LEMMA NamedRows ==
    ASSUME NEW u, NEW k \in u["calculations"], Sound(u), Distinct(u),
           NEW R \in SUBSET {r \in u["records"] : r.revision = k.revision},
           Names(k, R)
    PROVE  /\ \A r \in R : Serves(r, k, r.key) /\ r.key \in Keys[k.allocation]
           /\ \A key \in Keys[k.allocation] : \E r \in R : r.key = key
           /\ \A r, s \in R : r.key = s.key => r = s
  <1>1. \A r \in R : Serves(r, k, r.key) /\ r.key \in Keys[k.allocation]
    BY DEF Sound, Whole
  <1>2. \A key \in Keys[k.allocation] : \E r \in R : r.key = key
    <2> SUFFICES ASSUME NEW key \in Keys[k.allocation]
                 PROVE  \E r \in R : r.key = key
      OBVIOUS
    <2>1. <<k.allocation, key>> \in {<<r.allocation, r.key>> : r \in R}
      BY DEF Names
    <2> QED  BY <2>1
  <1>3. \A r, s \in R : r.key = s.key => r = s
    BY <1>1 DEF Distinct, Clash, Tables, Serves
  <1> QED  BY <1>1, <1>2, <1>3

LEMMA ReplayTransaction ==
    ASSUME IInv, IInv', TInv, NEW c \in Clients, Replay(c)
    PROVE  TInv'
  <1> DEFINE k == calc[c]
             u == View(c)
             mine == {r \in u["records"] : r.revision = k.revision}
  <1>0. /\ pc[c] = "replay" /\ open[c] = Empty /\ ~Storing(c) /\ status[c] = "none"
        /\ begun[c] \subseteq db["calculations"] /\ SameIdentity(k, request[c])
    BY DEF Replay, TInv, Held, Storing, IInv, ClientsInv, ClientInv
  <1>1. /\ u["calculations"] = Sees(c, "calculations") /\ u["records"] = Sees(c, "records")
        /\ Sound(u) /\ Coherent(u) /\ Distinct(u) /\ k \in u["calculations"]
    BY <1>0 DEF TInv, Stores, IInv, StoreInv, ClientsInv, ClientInv, View, Tables
  <1> HIDE DEF u
  <1>2. PICK found \in RecordScans(c, k.revision) :
           IF Names(k, found)
           THEN /\ Goto(c, "audit")
                /\ rows' = [rows EXCEPT ![c] = found]
                /\ UNCHANGED <<db, open, calc, todo>>
           ELSE Raise(c, "invalid")
    BY DEF Replay
  <1>3. found \subseteq mine /\ (~StaleReads => found = mine)
    BY <1>1 DEF RecordScans, Scanned
  <1>4. ~StaleReads => Names(k, found)
    BY <1>1, <1>3, SoundNames
  <1>5. CASE Raise(c, "invalid") /\ StaleReads
    BY <1>5, RaisedTransaction
  <1>6. CASE /\ Goto(c, "audit") /\ rows' = [rows EXCEPT ![c] = found] /\ Names(k, found)
             /\ UNCHANGED <<db, open, calc, todo>>
    <2>1. /\ pc'[c] = "audit" /\ status'[c] = "none" /\ begun'[c] = begun[c] /\ rows'[c] = found
          /\ request'[c] = request[c] /\ UNCHANGED <<db, open>> /\ calc'[c] = k
      BY <1>0, <1>6 DEF Goto, IInv, TypeInv, TypeOK
    <2>2. Others(c)
      BY <1>6 DEF Goto, Others, IInv, TypeInv, TypeOK
    <2>3. HoldsRows(c)'
      <3>1. /\ \A r \in found : Serves(r, k, r.key) /\ r.key \in Keys[k.allocation]
            /\ \A key \in Keys[k.allocation] : \E r \in found : r.key = key
            /\ \A r, s \in found : r.key = s.key => r = s
        <4> HIDE DEF k
        <4> QED  BY <1>1, <1>3, <1>6, NamedRows
      <3> QED  BY <3>1, <2>1 DEF HoldsRows
    <2>4. rows'[c] \subseteq Sees(c, "records")'
      BY <1>1, <1>3, <2>1 DEF Sees
    <2>5. Held(c)'
      BY <1>0, <2>1, <2>3, <2>4 DEF Held, Storing, Stored, Empty, Tables
    <2>6. Current(c)'
      BY <2>1 DEF Current, Storing
    <2>7. Boundary = "host" => Evidenced(c)'
      BY <1>0, <2>1 DEF TInv, Evidenced, Sees
    <2> QED  BY <1>0, <2>1, <2>2, <2>5, <2>6, <2>7, QuietTransaction
  <1> QED  BY <1>2, <1>4, <1>5, <1>6, ReadAssumption

LEMMA LatestTransaction ==
    ASSUME IInv, IInv', TInv, NEW c \in Clients, Latest(c)
    PROVE  TInv'
  <1>0. /\ pc[c] = "latest" /\ open[c] = Empty /\ ~Storing(c) /\ status[c] = "none"
        /\ begun[c] \subseteq db["calculations"] /\ calc[c] = None
    BY DEF Latest, TInv, Held, Storing, IInv, ClientsInv, ClientInv
  <1>1. PICK seen \in Scanned(Sees(c, "calculations")) :
           IF seen = {} THEN UNCHANGED calc
           ELSE \E k \in Newest(seen) : calc' = [calc EXCEPT ![c] = k]
    BY DEF Latest
  <1>2. /\ seen \subseteq Sees(c, "calculations") /\ seen \subseteq Calculation
        /\ ~StaleReads => begun[c] \subseteq seen
    BY <1>0, TypedStore DEF Scanned, Sees, IInv
  <1>3. /\ pc' = [pc EXCEPT ![c] = "previous"]
        /\ UNCHANGED <<db, open, rows, todo, request, status, begun>>
    BY DEF Latest, Goto
  <1>4. /\ pc'[c] = "previous" /\ status'[c] = "none" /\ begun'[c] = begun[c]
        /\ request'[c] = request[c]
    BY <1>0, <1>3 DEF IInv, TypeInv, TypeOK
  <1>5. \/ seen = {} /\ calc' = calc
        \/ \E k \in seen : calc' = [calc EXCEPT ![c] = k] /\ \A l \in seen : l.revision =< k.revision
    BY <1>1 DEF Newest
  <1>6. \A d \in Clients \ {c} : calc'[d] = calc[d]
    BY <1>5 DEF IInv, TypeInv, TypeOK
  <1>7. \/ seen = {} /\ calc'[c] = None
        \/ /\ calc'[c] \in seen /\ calc'[c] # None
           /\ \A l \in seen : l.revision =< calc'[c].revision
    BY <1>0, <1>2, <1>5, NoneAssumption DEF IInv, TypeInv, TypeOK
  <1>8. Others(c)
    BY <1>3, <1>6 DEF Others, IInv, TypeInv, TypeOK
  <1>9. Held(c)'
    BY <1>0, <1>3, <1>4 DEF Held, Storing, Stored, Empty, Tables
  <1>10. ASSUME ~StaleReads
         PROVE  Current(c)'
    <2>1. \A k \in begun[c] : ~SameIdentity(k, request[c])
      BY <1>0, <1>10 DEF TInv, Current
    <2>2. begun[c] \subseteq seen
      BY <1>2, <1>10
    <2>3. \A k \in begun[c] : k.revision < IF calc'[c] = None THEN 1 ELSE calc'[c].revision + 1
      BY <1>2, <1>7, <2>2 DEF Calculation
    <2> QED  BY <1>4, <2>1, <2>3 DEF Current, Storing, NewSince
  <1>11. Boundary = "host" => Evidenced(c)'
    BY <1>0, <1>3, <1>4 DEF TInv, Evidenced, Sees
  <1> QED  BY <1>0, <1>3, <1>8, <1>9, <1>10, <1>11, QuietTransaction

LEMMA ProposeTransaction ==
    ASSUME IInv, IInv', TInv, NEW c \in Clients, Propose(c)
    PROVE  TInv'
  <1> DEFINE q == request[c]
             last == IF calc[c] = None THEN 0 ELSE calc[c].revision
             k == [revision |-> last + 1, input |-> q.input, allocation |-> q.allocation,
                   at |-> q.at, supersedes |-> last]
  <1>0. /\ pc[c] = "previous" /\ open[c] = Empty /\ ~Storing(c) /\ status[c] = "none"
        /\ begun[c] \subseteq db["calculations"] /\ q \in Request
        /\ calc[c] = None \/ calc[c] \in db["calculations"]
    BY DEF Propose, TInv, Held, Storing, IInv, ClientsInv, ClientInv, Sees, Empty, Tables
  <1>1. /\ pc' = [pc EXCEPT ![c] = "record"] /\ calc' = [calc EXCEPT ![c] = k]
        /\ UNCHANGED <<db, open, request, status, begun>>
    BY DEF Propose, Goto
  <1>2. PICK previous :
           /\ previous \in IF last = 0 THEN {{}} ELSE RecordScans(c, last)
           /\ rows' = [rows EXCEPT ![c] = Proposed(q, last + 1, previous)]
           /\ todo' = [todo EXCEPT ![c] = Proposed(q, last + 1, previous)]
    BY DEF Propose
  <1>3. last \in Nat /\ db["calculations"] \subseteq Calculation
    BY <1>0 DEF IInv, TypeInv, TypeOK, Calculation
  <1>4. /\ k.revision = last + 1 /\ k.supersedes = last /\ k.input = q.input
        /\ k.allocation = q.allocation /\ k.at = q.at
    OBVIOUS
  <1> DEFINE R == Proposed(q, last + 1, previous)
  <1>5. /\ \A r \in R : /\ r.revision = last + 1 /\ r.input = q.input
                        /\ r.allocation = q.allocation /\ r.at = q.at
                        /\ r.key \in Keys[q.allocation]
        /\ \A key \in Keys[q.allocation] : \E r \in R : r.key = key
        /\ \A r, s \in R : r.key = s.key => r = s
        /\ \A r \in R : r.supersedes = Link(q, last + 1, previous, r.key)
    <2> DEFINE n == last + 1
    <2>1. n \in Nat \ {0} /\ q \in Request
      BY <1>0, <1>3
    <2>2. R = Proposed(q, n, previous)
      OBVIOUS
    <2> HIDE DEF last, n, k, q, R
    <2>3. /\ \A r \in R : /\ r.revision = n /\ r.input = q.input
                          /\ r.allocation = q.allocation /\ r.at = q.at
                          /\ r.key \in Keys[q.allocation]
          /\ \A key \in Keys[q.allocation] : \E r \in R : r.key = key
      BY <2>1, <2>2, ProposedRecords
    <2>4. \A r, s \in R : r.key = s.key => r = s
      BY <2>1, <2>2, ProposedRecords
    <2>5. \A r \in R : r.supersedes = Link(q, n, previous, r.key)
      BY <2>1, <2>2, ProposedRecords
    <2> QED  BY <2>3, <2>4, <2>5 DEF n
  <1> HIDE DEF R, k
  <1>6. /\ pc'[c] = "record" /\ status'[c] = "none" /\ begun'[c] = begun[c]
        /\ request'[c] = q /\ calc'[c] = k /\ rows'[c] = R
    BY <1>0, <1>1, <1>2 DEF IInv, TypeInv, TypeOK, R
  <1>7. Others(c)
    BY <1>1, <1>2 DEF Others, IInv, TypeInv, TypeOK
  <1>8. Held(c)'
    <2>1. HoldsRows(c)'
      BY <1>4, <1>5, <1>6 DEF HoldsRows, Serves
    <2> QED
      BY <1>0, <1>1, <1>4, <1>6, <2>1 DEF Held, Storing, Stored, Empty, Tables, SameIdentity
  <1>9. ASSUME ~StaleReads
        PROVE  Current(c)'
    <2>1. NewSince(c, last + 1)
      BY <1>0, <1>9 DEF TInv, Current
    <2>2. ASSUME NEW r \in R
          PROVE  r.supersedes = LinkOf(k, db["calculations"])
      <3>1. CASE last = 0
        <4>1. previous = {} /\ \A p \in db["calculations"] : p.revision # 0
          BY <1>2, <1>3, <3>1 DEF Calculation
        <4>2. LinkOf(k, db["calculations"]) = 0
          BY <1>4, <3>1 DEF LinkOf
        <4> QED  BY <4>1, <4>2, <1>5 DEF Link
      <3>2. CASE last # 0
        <4> DEFINE j == calc[c]
        <4>1. j \in db["calculations"] /\ j.revision = last
          BY <1>0, <3>2
        <4>2. previous = {s \in db["records"] : s.revision = last}
          BY <1>0, <1>2, <1>9, <3>2 DEF RecordScans, Scanned, Sees, Empty, Tables
        <4>3. \A s \in previous : s.allocation = j.allocation
          BY <4>1, <4>2 DEF TInv, Stores, Sound, Whole, Serves
        <4>4. \A key \in Keys[j.allocation] : \E s \in previous : s.allocation = j.allocation /\ s.key = key
          BY <4>1, <4>2 DEF IInv, StoreInv, Coherent, Recorded, Serves
        <4>5. \A p \in db["calculations"] : p.revision = last => p = j
          BY <4>1, UniqueRevision DEF IInv, StoreInv
        <4>6. LinkOf(k, db["calculations"]) = IF j.allocation = q.allocation THEN last ELSE 0
          <5>1. k.revision - 1 = last
            BY <1>3, <1>4
          <5> HIDE DEF last, j
          <5> QED  BY <5>1, <1>4, <4>1, <4>5 DEF LinkOf
        <4>7. (\E p \in previous : p.allocation = q.allocation /\ p.key = r.key)
                <=> j.allocation = q.allocation
          BY <4>3, <4>4, <1>5
        <4>8. Link(q, last + 1, previous, r.key) = IF j.allocation = q.allocation THEN last ELSE 0
          <5>1. Link(q, last + 1, previous, r.key) =
                   IF j.allocation = q.allocation THEN last + 1 - 1 ELSE 0
            <6> HIDE DEF last, j, q
            <6> QED  BY <4>7, <1>3 DEF Link
          <5> QED  BY <5>1, <1>3
        <4> HIDE DEF last, j
        <4> QED  BY <4>6, <4>8, <1>5
      <3> QED  BY <3>1, <3>2
    <2>3. LinkOf(calc[c], db["calculations"])' = LinkOf(k, db["calculations"])
      BY <1>1, <1>6 DEF LinkOf
    <2>4. NewSince(c, calc[c].revision)'
      BY <2>1, <1>4, <1>6 DEF NewSince
    <2> QED  BY <1>6, <2>2, <2>3, <2>4 DEF Current
  <1>10. Boundary = "host" => Evidenced(c)'
    BY <1>0, <1>1, <1>6 DEF TInv, Evidenced, Sees
  <1> QED  BY <1>0, <1>1, <1>7, <1>8, <1>9, <1>10, QuietTransaction

LEMMA PutRecordTransaction ==
    ASSUME Boundary # "none", IInv, IInv', TInv, NEW c \in Clients, PutRecord(c)
    PROVE  TInv'
  <1>0. /\ pc[c] = "record" /\ Storing(c) /\ status[c] = "none" /\ InTransaction(c)
        /\ HoldsRows(c) /\ open[c]["calculations"] = {} /\ open[c]["records"] \subseteq rows[c]
        /\ begun[c] \subseteq db["calculations"] /\ todo[c] \subseteq rows[c]
        /\ SameIdentity(calc[c], request[c])
    BY BoundaryAssumption
       DEF PutRecord, TInv, Held, Storing, InTransaction, IInv, ClientsInv, ClientInv, TypeInv, TypeOK
  <1>1. PICK r \in First(todo[c]) :
           IF Refused(c, "records", r) THEN Raise(c, "conflict")
           ELSE /\ Put(c, "records", r)
                /\ todo' = [todo EXCEPT ![c] = todo[c] \ {r}]
                /\ Goto(c, IF todo[c] = {r} THEN "calculation" ELSE "record")
                /\ UNCHANGED <<calc, rows>>
    BY DEF PutRecord
  <1>2. r \in rows[c] /\ r.revision = calc[c].revision /\ r.allocation = calc[c].allocation
    BY <1>0 DEF First, HoldsRows, Serves
  <1>3. CASE Refused(c, "records", r)
    <2>1. PICK s \in Sees(c, "records") : s # r /\ Clash("records", s, r)
      BY <1>3 DEF Refused
    <2>2. s.revision = calc[c].revision /\ s.key = r.key
      BY <2>1, <1>2 DEF Clash
    <2>3. s \in db["records"]
      BY <2>1, <2>2, <1>0, <1>2 DEF HoldsRows, Sees
    <2>4. PICK k \in db["calculations"] : k.revision = calc[c].revision
      BY <2>2, <2>3 DEF TInv, Stores, Sound, Whole
    <2>5. ~StaleReads => k \notin begun[c]
      <3>1. k.revision \in Nat
        BY DEF IInv, TypeInv, TypeOK, Calculation
      <3> QED  BY <1>0, <2>4, <3>1 DEF TInv, Current, NewSince
    <2> QED  BY <1>1, <1>3, <2>5, RaisedTransaction
  <1>4. CASE ~Refused(c, "records", r)
    <2>1. /\ Put(c, "records", r)
          /\ todo' = [todo EXCEPT ![c] = todo[c] \ {r}]
          /\ pc' = [pc EXCEPT ![c] = IF todo[c] = {r} THEN "calculation" ELSE "record"]
          /\ UNCHANGED <<calc, rows, request, status, begun>>
      BY <1>1, <1>4 DEF Goto
    <2>2. r \in RowsOf("records") /\ "records" \in Tables
      BY <1>2 DEF IInv, TypeInv, TypeOK, RowsOf, Tables
    <2>3. /\ Effect(c)
          /\ \A x \in Tables : Sees(c, x)' = Sees(c, x) \cup (IF x = "records" THEN {r} ELSE {})
          /\ \A x \in Tables :
                open'[c][x] \subseteq open[c][x] \cup (IF x = "records" THEN {r} ELSE {})
      BY <1>0, <2>1, <2>2, PutEffect DEF IInv
    <2>4. db' = db
      BY <1>0, <2>1 DEF Put, Write
    <2>5. Others(c)
      BY <2>1 DEF Others, IInv, TypeInv, TypeOK
    <2>6. /\ pc'[c] \in {"record", "calculation"} /\ calc'[c] = calc[c] /\ rows'[c] = rows[c]
          /\ status'[c] = "none" /\ request'[c] = request[c] /\ begun'[c] = begun[c]
      BY <1>0, <2>1 DEF IInv, TypeInv, TypeOK
    <2>7. Held(c)'
      <3>1. open'[c]["calculations"] = {} /\ open'[c]["records"] \subseteq rows'[c]
        BY <1>0, <1>2, <2>3, <2>6 DEF Tables
      <3>2. HoldsRows(c)'
        BY <1>0, <2>6 DEF HoldsRows
      <3> QED  BY <1>0, <2>4, <2>6, <3>1, <3>2 DEF Held, Storing, Stored
    <2>8. ASSUME ~StaleReads
          PROVE  Current(c)'
      <3>1. Current(c)
        BY <2>8 DEF TInv
      <3>2. LinkOf(calc[c], db["calculations"])' = LinkOf(calc[c], db["calculations"])
        BY <2>4, <2>6 DEF LinkOf
      <3> QED  BY <1>0, <2>6, <3>1, <3>2 DEF Current, NewSince, Storing
    <2>9. Boundary = "host" => Evidenced(c)'
      BY <1>0, <2>3, <2>6 DEF TInv, Evidenced, Tables
    <2>10. HostEvidenced'
      BY <2>4 DEF TInv, HostEvidenced
    <2> QED  BY <2>3, <2>4, <2>5, <2>6, <2>7, <2>8, <2>9, <2>10, TransactionStep
  <1> QED  BY <1>3, <1>4

\* The next calculation makes whole what its client sees: its records are
\* there, and no others of its revision.
LEMMA SoundNext ==
    ASSUME NEW u, NEW w, NEW k \in Calculation, NEW own,
           Sound(u), Coherent(u), Distinct(w), w["calculations"] \subseteq Calculation,
           w["calculations"] = u["calculations"] \cup {k},
           w["records"] = u["records"] \cup own,
           \A r \in own : Serves(r, k, r.key) /\ r.key \in Keys[k.allocation],
           ~StaleReads => \A r \in own : r.supersedes = LinkOf(k, u["calculations"]),
           \A n \in 1 .. k.revision - 1 : \E p \in u["calculations"] : p.revision = n
    PROVE  Sound(w)
  <1>0. \A p, q \in w["calculations"] : p.revision = q.revision => p = q
    BY UniqueRevision
  <1>1. Whole(w)
    <2>1. ASSUME NEW j \in w["calculations"], NEW r \in w["records"], r.revision = j.revision
          PROVE  Serves(r, j, r.key) /\ r.key \in Keys[j.allocation]
      <3>1. CASE r \in u["records"]
        <4>1. PICK l \in u["calculations"] : l.revision = r.revision
          BY <3>1 DEF Sound, Whole
        <4> QED  BY <4>1, <3>1, <2>1, <1>0 DEF Sound, Whole
      <3>2. CASE r \in own
        BY <3>2, <2>1, <1>0 DEF Serves
      <3> QED  BY <3>1, <3>2
    <2>2. \A r \in w["records"] : \E j \in w["calculations"] : j.revision = r.revision
      BY DEF Sound, Whole, Serves
    <2> QED  BY <2>1, <2>2 DEF Whole
  <1>2. ASSUME ~StaleReads
        PROVE  Linked(w)
    <2> SUFFICES ASSUME NEW j \in w["calculations"], NEW r \in w["records"],
                        r.revision = j.revision
                 PROVE  r.supersedes = LinkOf(j, w["calculations"])
      BY DEF Linked
    <2>1. CASE r \in u["records"]
      <3>1. j \in u["calculations"] /\ j \in Calculation
        <4>1. PICK l \in u["calculations"] : l.revision = r.revision
          BY <2>1 DEF Sound, Whole
        <4> QED  BY <4>1, <1>0
      <3>2. r.supersedes = LinkOf(j, u["calculations"])
        BY <1>2, <2>1, <3>1 DEF Sound, Linked
      <3>3. \A n \in 1 .. j.revision - 1 : \E p \in u["calculations"] : p.revision = n
        BY <3>1 DEF Coherent, Chained, Calculation
      <3> QED  BY <3>1, <3>2, <3>3, <1>0, LinkStable
    <2>2. CASE r \in own
      <3>1. j = k
        BY <2>2, <1>0 DEF Serves
      <3> QED  BY <1>2, <2>2, <3>1, <1>0, LinkStable
    <2> QED  BY <2>1, <2>2
  <1> QED  BY <1>1, <1>2 DEF Sound

LEMMA PutCalculationTransaction ==
    ASSUME Boundary # "none", IInv, IInv', TInv, NEW c \in Clients, PutCalculation(c)
    PROVE  TInv'
  <1> DEFINE k == calc[c]
  <1>0. /\ pc[c] = "calculation" /\ Storing(c) /\ status[c] = "none" /\ InTransaction(c)
        /\ HoldsRows(c) /\ open[c]["calculations"] = {} /\ open[c]["records"] \subseteq rows[c]
        /\ begun[c] \subseteq db["calculations"] /\ todo[c] = {}
        /\ SameIdentity(k, request[c]) /\ Proposing(c)
    BY BoundaryAssumption
       DEF PutCalculation, TInv, Held, Storing, InTransaction, IInv, ClientsInv, ClientInv
  <1>1. /\ Sees(c, "calculations") = db["calculations"]
        /\ Sees(c, "records") = db["records"] \cup open[c]["records"]
        /\ k \in Calculation /\ rows[c] \subseteq Sees(c, "records")
    BY <1>0 DEF Sees, Proposing
  <1>2. CASE Refused(c, "calculations", k)
    <2>1. PICK j \in db["calculations"] : Clash("calculations", j, k)
      BY <1>1, <1>2 DEF Refused
    <2>2. j.revision = k.revision \/ SameIdentity(j, request[c])
      BY <2>1, <1>0 DEF Clash, SameIdentity
    <2>3. ~StaleReads => j \notin begun[c]
      <3>1. j.revision \in Nat
        BY DEF IInv, TypeInv, TypeOK, Calculation
      <3> QED  BY <1>0, <2>2, <3>1 DEF TInv, Current, NewSince
    <2>4. Raise(c, "conflict")
      BY <1>2 DEF PutCalculation
    <2> QED  BY <2>3, <2>4, RaisedTransaction
  <1>3. CASE ~Refused(c, "calculations", k)
    <2>1. /\ Put(c, "calculations", k)
          /\ pc' = [pc EXCEPT ![c] = "leave"]
          /\ UNCHANGED <<calc, rows, todo, request, status, begun>>
      BY <1>3 DEF PutCalculation, Goto
    <2>2. k \in RowsOf("calculations") /\ "calculations" \in Tables
      BY <1>1 DEF RowsOf, Tables
    <2>3. /\ Effect(c)
          /\ \A x \in Tables :
                Sees(c, x)' = Sees(c, x) \cup (IF x = "calculations" THEN {k} ELSE {})
          /\ \A x \in Tables :
                open'[c][x] \subseteq open[c][x] \cup (IF x = "calculations" THEN {k} ELSE {})
      BY <1>0, <2>1, <2>2, PutEffect DEF IInv
    <2>4. db' = db
      BY <1>0, <2>1 DEF Put, Write
    <2>5. Others(c)
      BY <2>1 DEF Others, IInv, TypeInv, TypeOK
    <2>6. /\ pc'[c] = "leave" /\ calc'[c] = k /\ rows'[c] = rows[c]
          /\ status'[c] = "none" /\ request'[c] = request[c] /\ begun'[c] = begun[c]
      BY <1>0, <2>1 DEF IInv, TypeInv, TypeOK
    <2>7. Sound(View(c))'
      <3> DEFINE w == View(c)'
      <3>1. /\ w["calculations"] = db["calculations"] \cup {k}
            /\ w["records"] = db["records"] \cup open[c]["records"]
        BY <1>1, <2>3 DEF View, Tables
      <3>2. Distinct(w) /\ w["calculations"] \subseteq Calculation
        BY <1>1, <3>1 DEF IInv, StoreInv, Distinct, TypeInv, TypeOK
      <3>3. Sound(db) /\ Coherent(db)
        BY DEF TInv, Stores, IInv, StoreInv
      <3>4. /\ \A r \in open[c]["records"] : Serves(r, k, r.key) /\ r.key \in Keys[k.allocation]
            /\ ~StaleReads =>
                  \A r \in open[c]["records"] : r.supersedes = LinkOf(k, db["calculations"])
        BY <1>0 DEF HoldsRows, TInv, Current
      <3>5. \A n \in 1 .. k.revision - 1 : \E p \in db["calculations"] : p.revision = n
        BY <1>0, <1>1 DEF Proposing
      <3>6. Sound(w)
        <4> HIDE DEF w, k
        <4> QED  BY <1>1, <3>1, <3>2, <3>3, <3>4, <3>5, SoundNext
      <3> QED  BY <3>6 DEF Sound, Whole, Linked
    <2>8. Held(c)'
      <3>1. open'[c]["calculations"] \subseteq {calc'[c]}
        BY <1>0, <2>3, <2>6 DEF Tables
      <3>2. HoldsRows(c)'
        BY <1>0, <2>6 DEF HoldsRows
      <3>3. rows'[c] \subseteq Sees(c, "records")'
        BY <1>1, <2>3, <2>6 DEF Tables
      <3> QED  BY <1>0, <2>4, <2>6, <3>1, <3>2, <3>3 DEF Held, Storing, Stored
    <2>9. Current(c)'
      BY <2>6 DEF Current, Storing
    <2>10. Boundary = "host" => Evidenced(c)'
      BY <1>0, <2>3, <2>6 DEF TInv, Evidenced, Tables, Revisions
    <2>11. HostEvidenced'
      BY <2>4 DEF TInv, HostEvidenced
    <2> QED  BY <2>3, <2>4, <2>5, <2>7, <2>8, <2>9, <2>10, <2>11, TransactionStep
  <1> QED  BY <1>2, <1>3

\* A commit shows all what the client has put.
LEMMA CommitTransaction ==
    ASSUME IInv, IInv', TInv, NEW c \in Clients, Commit(c), Others(c), ~Storing(c),
           pc'[c] \notin {"record", "calculation"},
           Boundary = "host" =>
               Revisions(Sees(c, "calculations")) \subseteq Sees(c, "lineage"),
           Held(c)', Current(c)'
    PROVE  TInv'
  <1>1. /\ Effect(c)
        /\ \A t \in Tables : Sees(c, t)' = Sees(c, t) /\ db'[t] = Sees(c, t)
    BY CommitEffect DEF IInv
  <1>2. Sound(View(c))'
    <2>1. View(c)' = View(c)
      BY <1>1 DEF View
    <2> QED  BY <2>1 DEF TInv, Stores, Sound, Whole, Linked
  <1>3. HostEvidenced'
    BY <1>1 DEF HostEvidenced, Tables
  <1>4. Boundary = "host" => Evidenced(c)'
    BY <1>1 DEF Evidenced, Tables
  <1> QED  BY <1>1, <1>2, <1>3, <1>4, TransactionStep

LEMMA LeaveTransaction ==
    ASSUME IInv, IInv', TInv, NEW c \in Clients, Leave(c)
    PROVE  TInv'
  <1>0. /\ pc[c] = "leave" /\ ~Storing(c) /\ Stored(c) /\ status[c] = "none" /\ Held(c)
    BY DEF Leave, Storing, Stored, IInv, ClientsInv, ClientInv, TInv
  <1>1. /\ pc' = [pc EXCEPT ![c] = "audit"]
        /\ UNCHANGED <<calc, rows, todo, request, status, begun>>
    BY DEF Leave, Goto
  <1>2. /\ pc'[c] = "audit" /\ calc'[c] = calc[c] /\ rows'[c] = rows[c]
        /\ status'[c] = "none" /\ request'[c] = request[c] /\ begun'[c] = begun[c]
    BY <1>0, <1>1 DEF IInv, TypeInv, TypeOK
  <1>3. Others(c)
    BY <1>1 DEF Others, IInv, TypeInv, TypeOK
  <1>4. HoldsRows(c)' /\ Current(c)'
    BY <1>0, <1>2 DEF Held, HoldsRows, Current, Storing
  <1>5. CASE Boundary = "repository"
    <2>1. Commit(c)
      BY <1>5 DEF Leave
    <2>2. /\ open'[c] = Empty /\ Sees(c, "records")' = Sees(c, "records")
          /\ db["calculations"] \subseteq db'["calculations"]
      BY <2>1, CommitEffect DEF IInv, Tables, Effect
    <2>3. Held(c)'
      BY <1>0, <1>2, <1>4, <2>2 DEF Held, Storing, Stored, Empty, Tables
    <2> QED  BY <1>0, <1>2, <1>3, <1>4, <1>5, <2>1, <2>3, CommitTransaction
  <1>6. CASE Boundary # "repository"
    <2>1. UNCHANGED <<db, open>>
      BY <1>6 DEF Leave
    <2>2. Held(c)'
      BY <1>0, <1>2, <1>4, <2>1 DEF Held, Storing, Stored, Sees
    <2>3. Boundary = "host" => Evidenced(c)'
      BY <1>0, <1>2, <2>1 DEF TInv, Evidenced, Sees
    <2> QED  BY <1>0, <1>3, <1>4, <2>1, <2>2, <2>3, QuietTransaction
  <1> QED  BY <1>5, <1>6

LEMMA AppendTransaction ==
    ASSUME Boundary # "none", IInv, IInv', TInv, NEW c \in Clients, NEW table, NEW next,
           Append(c, table, next),
           \/ table = "audit" /\ next = "lineage"
           \/ table = "lineage" /\ next = "finish"
    PROVE  TInv'
  <1> DEFINE n == calc[c].revision
  <1>0. /\ pc[c] = table /\ ~Storing(c) /\ Stored(c) /\ status[c] = "none" /\ Held(c)
        /\ ClientInv(c) /\ calc[c] \in Sees(c, "calculations")
    BY DEF Append, Storing, Stored, IInv, ClientsInv, ClientInv, TInv
  <1>1. /\ Put(c, table, n) /\ pc' = [pc EXCEPT ![c] = next]
        /\ UNCHANGED <<calc, rows, todo, request, status, begun>>
    BY DEF Append, Goto
  <1>2. /\ pc'[c] = next /\ calc'[c] = calc[c] /\ rows'[c] = rows[c]
        /\ status'[c] = "none" /\ request'[c] = request[c] /\ begun'[c] = begun[c]
    BY <1>0, <1>1 DEF IInv, TypeInv, TypeOK
  <1>3. table \in Tables /\ n \in RowsOf(table)
    BY <1>0, TypedStore DEF Tables, RowsOf, IInv, Calculation
  <1>4. ~InTransaction(c) => open[c] = Empty
    BY <1>0, BoundaryAssumption DEF InTransaction, ClientInv, Outside
  <1>5. /\ Effect(c)
        /\ \A x \in Tables : Sees(c, x)' = Sees(c, x) \cup (IF x = table THEN {n} ELSE {})
        /\ \A x \in Tables : open'[c][x] \subseteq open[c][x] \cup (IF x = table THEN {n} ELSE {})
    BY <1>1, <1>3, <1>4, PutEffect DEF IInv
  <1>6. Others(c)
    BY <1>1 DEF Others, IInv, TypeInv, TypeOK
  <1>7. /\ db'["calculations"] = db["calculations"] /\ db'["records"] = db["records"]
        /\ Boundary = "host" => db' = db
    <2>1. \/ db' = db
          \/ /\ db' = [db EXCEPT ![table] = db[table] \cup {n}]
             /\ ~InTransaction(c)
      BY <1>1 DEF Put, Write
    <2>2. DOMAIN db = Tables
      BY TypedStore DEF IInv
    <2> QED  BY <2>1, <2>2 DEF InTransaction, Tables
  <1>8. Sound(View(c))'
    <2> DEFINE u == View(c)
               w == View(c)'
    <2>1. w["calculations"] = u["calculations"] /\ w["records"] = u["records"]
      BY <1>5 DEF View, Tables
    <2>2. Sound(u)
      BY <1>0 DEF TInv, Stores
    <2>3. Sound(w)
      <3> HIDE DEF u, w
      <3> QED  BY <2>1, <2>2, SoundEvidence
    <2> QED  BY <2>3 DEF Sound, Whole, Linked
  <1>9. Held(c)'
    <2>1. open'[c]["calculations"] \subseteq {calc'[c]}
      BY <1>0, <1>2, <1>5 DEF Held, Tables
    <2>2. HoldsRows(c)' /\ rows'[c] \subseteq Sees(c, "records")'
      BY <1>0, <1>2, <1>5 DEF Held, HoldsRows, Tables
    <2> QED  BY <1>0, <1>2, <1>7, <2>1, <2>2 DEF Held, Storing, Stored
  <1>10. Current(c)'
    BY <1>2 DEF Current, Storing
  <1>11. HostEvidenced'
    BY <1>7 DEF TInv, HostEvidenced
  <1>12. Boundary = "host" => Evidenced(c)'
    BY <1>0, <1>2, <1>5 DEF TInv, Evidenced, Tables
  <1> QED  BY <1>5, <1>6, <1>7, <1>8, <1>9, <1>10, <1>11, <1>12, TransactionStep

LEMMA FinishTransaction ==
    ASSUME Boundary # "none", IInv, IInv', TInv, NEW c \in Clients, Finish(c)
    PROVE  TInv'
  <1>0. /\ pc[c] = "finish" /\ ~Storing(c) /\ Stored(c) /\ Held(c) /\ ClientInv(c)
    BY DEF Finish, Storing, Stored, IInv, ClientsInv, TInv
  <1>1. /\ pc' = [pc EXCEPT ![c] = "idle"]
        /\ status' = [status EXCEPT ![c] = "ok"] /\ calc' = [calc EXCEPT ![c] = calc[c]]
        /\ rows' = [rows EXCEPT ![c] = rows[c]] /\ todo' = [todo EXCEPT ![c] = {}]
        /\ UNCHANGED <<request, begun>>
    BY <1>0 DEF Finish, Reply
  <1>2. /\ pc'[c] = "idle" /\ calc'[c] = calc[c] /\ rows'[c] = rows[c]
        /\ status'[c] = "ok" /\ request'[c] = request[c] /\ begun'[c] = begun[c]
    BY <1>1 DEF IInv, TypeInv, TypeOK
  <1>3. Others(c)
    BY <1>1 DEF Others, IInv, TypeInv, TypeOK
  <1>4. HoldsRows(c)' /\ Current(c)'
    BY <1>0, <1>2 DEF Held, HoldsRows, Current, Storing
  <1>5. CASE Boundary = "host"
    <2>1. Commit(c)
      BY <1>5 DEF Finish
    <2>2. /\ open'[c] = Empty /\ db'["records"] = Sees(c, "records")
          /\ db["calculations"] \subseteq db'["calculations"]
      BY <2>1, CommitEffect DEF IInv, Tables, Effect
    <2>3. Held(c)'
      BY <1>0, <1>2, <1>4, <2>2 DEF Held, Storing, Stored, Empty, Tables
    <2>4. Revisions(Sees(c, "calculations")) \subseteq Sees(c, "lineage")
      BY <1>0, <1>5 DEF TInv, Evidenced
    <2> QED  BY <1>0, <1>2, <1>3, <1>4, <2>1, <2>3, <2>4, CommitTransaction
  <1>6. CASE Boundary # "host"
    <2>1. UNCHANGED <<db, open>>
      BY <1>6 DEF Finish
    <2>2. open[c] = Empty
      BY <1>0, <1>6, BoundaryAssumption DEF ClientInv, Outside
    <2>3. Held(c)'
      BY <1>0, <1>2, <1>4, <2>1, <2>2 DEF Held, Storing, Stored, Sees, Empty, Tables
    <2> QED  BY <1>0, <1>3, <1>4, <1>6, <2>1, <2>3, QuietTransaction
  <1> QED  BY <1>5, <1>6

LEMMA UnchangedTransaction ==
    ASSUME TInv, UNCHANGED vars
    PROVE  TInv'
  <1> USE DEF vars
  <1>1. \A c \in Clients : View(c)' = View(c)
    BY DEF View, Sees
  <1>2. Stores'
    BY <1>1 DEF TInv, Stores, Sound, Whole, Linked, Storing
  <1>3. \A c \in Clients : Held(c)'
    BY DEF TInv, Held, HoldsRows, Storing, Stored, Sees
  <1>4. ~StaleReads => \A c \in Clients : Current(c)'
    BY DEF TInv, Current, Storing, NewSince, LinkOf
  <1>5. Boundary = "host" => /\ (Revisions(db["calculations"]) \subseteq db["lineage"])'
                             /\ \A c \in Clients : Evidenced(c)'
    BY DEF TInv, Evidenced, Sees
  <1> QED  BY <1>2, <1>3, <1>4, <1>5 DEF TInv

LEMMA TInvInit == Init => TInv
  <1> SUFFICES ASSUME Init PROVE TInv
    OBVIOUS
  <1>1. /\ \A t \in Tables : db[t] = {}
        /\ \A c \in Clients, t \in Tables : open[c][t] = {} /\ View(c)[t] = {}
        /\ \A c \in Clients, t \in Tables : Sees(c, t) = {}
    BY DEF Init, Empty, View, Sees
  <1>2. Stores
    BY <1>1 DEF Stores, Sound, Whole, Linked, Tables
  <1>3. \A c \in Clients : /\ pc[c] = "idle" /\ status[c] = "none" /\ begun[c] = {}
    BY DEF Init
  <1>4. \A c \in Clients : Held(c) /\ Current(c)
    BY <1>1, <1>3 DEF Held, Current, Storing, Stored, Tables
  <1>5. /\ Revisions(db["calculations"]) \subseteq db["lineage"]
        /\ \A c \in Clients : Evidenced(c)
    BY <1>1 DEF Evidenced, Revisions, Tables
  <1> QED  BY <1>2, <1>4, <1>5 DEF TInv

LEMMA TInvStep ==
    ASSUME Boundary # "none", IInv, IInv', TInv, [Next]_vars
    PROVE  TInv'
  <1>1. CASE UNCHANGED vars
    BY <1>1, UnchangedTransaction
  <1>2. ASSUME NEW c \in Clients, Step(c)
        PROVE  TInv'
    <2>1. CASE AppendAudit(c)
      BY <2>1, AppendTransaction DEF AppendAudit
    <2>2. CASE AppendLineage(c)
      BY <2>2, AppendTransaction DEF AppendLineage
    <2> QED
      BY <1>2, <2>1, <2>2, FindTransaction, ReplayTransaction, LatestTransaction,
         ProposeTransaction, PutRecordTransaction, PutCalculationTransaction,
         LeaveTransaction, FinishTransaction DEF Step
  <1>3. ASSUME NEW c \in Clients, Fail(c)
        PROVE  TInv'
    BY <1>3, RaisedTransaction DEF Fail
  <1> QED  BY <1>1, <1>2, <1>3, BeginTransaction DEF Next
-----------------------------------------------------------------------------
(* The theorems.                                                            *)

THEOREM TransactionInvariance == Boundary # "none" => (Spec => []TInv)
  <1> SUFFICES ASSUME Boundary # "none"
               PROVE  Spec => []TInv
    OBVIOUS
  <1>1. IInv /\ IInv' /\ TInv /\ [Next]_vars => TInv'
    BY TInvStep
  <1> QED  BY TInvInit, <1>1, Invariance, PTL DEF Spec

\* With a transaction around the writes a stored calculation has exactly the
\* records it names, and every stored record has its calculation, however
\* stale the scans.
THEOREM WholeResults == Boundary # "none" => (Spec => []RecordsMatchParents)
  <1> SUFFICES ASSUME Boundary # "none"
               PROVE  Spec => []RecordsMatchParents
    OBVIOUS
  <1>1. IInv /\ TInv => RecordsMatchParents
    <2> SUFFICES ASSUME IInv, TInv
                 PROVE  RecordsMatchParents
      OBVIOUS
    <2>1. Sound(db) /\ Coherent(db)
      BY DEF IInv, StoreInv, TInv, Stores
    <2>2. \A k \in db["calculations"] : Names(k, RecordsOf(k))
      BY <2>1, SoundNames DEF RecordsOf
    <2> QED  BY <2>1, <2>2 DEF Sound, Whole, Serves, RecordsOf, RecordsMatchParents
  <1> QED  BY Invariance, TransactionInvariance, <1>1, PTL

\* With a transaction and current scans a correction links its records: what
\* one specification gave a key in two revisions running is superseded by the
\* later, and no link names anything but records of the revision before.
THEOREM Superseding ==
    Boundary # "none" /\ ~StaleReads => (Spec => []RecordsSupersede)
  <1> SUFFICES ASSUME Boundary # "none", ~StaleReads
               PROVE  Spec => []RecordsSupersede
    OBVIOUS
  <1>1. IInv /\ TInv => RecordsSupersede
    <2> SUFFICES ASSUME IInv, TInv, NEW r \in db["records"]
                 PROVE  /\ \A p \in db["records"] :
                              /\ p.revision = r.revision - 1
                              /\ p.allocation = r.allocation /\ p.key = r.key
                              => r.supersedes = p.revision
                        /\ r.supersedes # 0 =>
                              /\ r.supersedes = r.revision - 1
                              /\ \E p \in db["records"] : p.revision = r.supersedes
      BY DEF RecordsSupersede
    <2>1. Whole(db) /\ Linked(db) /\ Recorded(db["calculations"], db["records"])
      BY DEF IInv, StoreInv, Coherent, TInv, Stores, Sound
    <2>2. PICK k \in db["calculations"] : k.revision = r.revision
      BY <2>1 DEF Whole
    <2>3. /\ r.allocation = k.allocation /\ r.key \in Keys[k.allocation]
          /\ r.supersedes = LinkOf(k, db["calculations"])
      BY <2>1, <2>2 DEF Whole, Linked, Serves
    <2>4. ASSUME NEW p \in db["calculations"], p.revision = r.revision - 1,
                 p.allocation = r.allocation
          PROVE  \E s \in db["records"] : s.revision = r.revision - 1
      BY <2>1, <2>3, <2>4 DEF Recorded, Serves
    <2>5. ASSUME NEW s \in db["records"], s.revision = r.revision - 1,
                 s.allocation = r.allocation
          PROVE  \E p \in db["calculations"] : /\ p.revision = r.revision - 1
                                               /\ p.allocation = r.allocation
      BY <2>1, <2>5 DEF Whole, Serves
    <2>6. r.supersedes = IF \E p \in db["calculations"] : /\ p.revision = r.revision - 1
                                                          /\ p.allocation = r.allocation
                         THEN r.revision - 1 ELSE 0
      BY <2>2, <2>3 DEF LinkOf
    <2> QED  BY <2>4, <2>5, <2>6
  <1> QED  BY Invariance, TransactionInvariance, <1>1, PTL

\* With a transaction a call whose identity was stored when it began returns
\* that calculation with all its records, however stale the scans.
THEOREM Replays == Boundary # "none" => (Spec => []RepeatReplays)
  <1> SUFFICES ASSUME Boundary # "none"
               PROVE  Spec => []RepeatReplays
    OBVIOUS
  <1>1. IInv /\ TInv => RepeatReplays
    <2> SUFFICES ASSUME IInv, TInv, NEW c \in Clients, status[c] = "ok"
                 PROVE  /\ calc[c] \in db["calculations"] /\ rows[c] = RecordsOf(calc[c])
                        /\ SameIdentity(calc[c], request[c])
                        /\ \A k \in begun[c] : SameIdentity(k, request[c]) => calc[c] = k
      BY DEF RepeatReplays, SameIdentity
    <2>1. /\ calc[c] \in db["calculations"] /\ HoldsRows(c) /\ rows[c] \subseteq db["records"]
          /\ SameIdentity(calc[c], request[c]) /\ begun[c] \subseteq db["calculations"]
      BY DEF IInv, ClientsInv, ClientInv, TInv, Held
    <2>2. Whole(db) /\ Distinct(db)
      BY DEF IInv, StoreInv, TInv, Stores, Sound
    <2>3. \A k \in begun[c] : SameIdentity(k, request[c]) => calc[c] = k
      BY <2>1, <2>2 DEF Distinct, Clash, SameIdentity, Tables
    <2>4. rows[c] \subseteq RecordsOf(calc[c])
      BY <2>1 DEF HoldsRows, Serves, RecordsOf
    <2>5. ASSUME NEW r \in RecordsOf(calc[c])
          PROVE  r \in rows[c]
      <3>1. r \in db["records"] /\ Serves(r, calc[c], r.key) /\ r.key \in Keys[calc[c].allocation]
        BY <2>1, <2>2 DEF RecordsOf, Whole
      <3>2. PICK s \in rows[c] : s.key = r.key
        BY <2>1, <3>1 DEF HoldsRows
      <3>3. s \in db["records"] /\ Clash("records", r, s)
        BY <2>1, <3>1, <3>2 DEF HoldsRows, Serves, Clash
      <3> QED  BY <2>2, <3>1, <3>2, <3>3 DEF Distinct, Tables
    <2> QED  BY <2>1, <2>3, <2>4, <2>5
  <1> QED  BY Invariance, TransactionInvariance, <1>1, PTL

\* With a transaction and current scans a call conflicts only with a
\* calculation stored since it began, so trying again makes progress.
THEOREM Progress ==
    Boundary # "none" /\ ~StaleReads => (Spec => []ConflictMeansProgress)
  <1> SUFFICES ASSUME Boundary # "none", ~StaleReads
               PROVE  Spec => []ConflictMeansProgress
    OBVIOUS
  <1>1. TInv => ConflictMeansProgress
    BY DEF TInv, Current, ConflictMeansProgress
  <1> QED  BY TransactionInvariance, <1>1, PTL

\* With a transaction and current scans no stored calculation is refused for
\* its records: what orphan records lead to is the missing transaction's work.
THEOREM NeverRefused ==
    Boundary # "none" /\ ~StaleReads => (Spec => []ReplayNotRefused)
  <1> SUFFICES ASSUME Boundary # "none", ~StaleReads
               PROVE  Spec => []ReplayNotRefused
    OBVIOUS
  <1>1. TInv => ReplayNotRefused
    BY DEF TInv, Current, ReplayNotRefused
  <1> QED  BY TransactionInvariance, <1>1, PTL

\* In a transaction of the host a calculation, its audit and its lineage are
\* committed together.
THEOREM EvidenceCommitted == Boundary = "host" => (Spec => []EvidenceAtomic)
  <1> SUFFICES ASSUME Boundary = "host"
               PROVE  Spec => []EvidenceAtomic
    OBVIOUS
  <1>1. IInv /\ TInv => EvidenceAtomic
    BY DEF IInv, StoreInv, Coherent, TInv, Revisions, EvidenceAtomic
  <1>2. Boundary # "none"
    OBVIOUS
  <1> QED  BY Invariance, TransactionInvariance, <1>1, <1>2, PTL

-----------------------------------------------------------------------------
(* With a transaction and current scans, the calculations of a series       *)
(* implement CostLedger: what others see of the store is an append-only     *)
(* ledger of whole results.                                                 *)

\* What one step commits: nothing, or one calculation with its records.
LEMMA CommittedStep ==
    ASSUME Boundary # "none", IInv, IInv', TInv, [Next]_vars
    PROVE  \/ /\ db'["calculations"] = db["calculations"]
              /\ db'["records"] = db["records"]
           \/ \E k \in Calculation :
                 /\ db'["calculations"] \subseteq db["calculations"] \cup {k}
                 /\ db["calculations"] \subseteq db'["calculations"]
                 /\ db["records"] \subseteq db'["records"]
  <1> DEFINE Same == /\ db'["calculations"] = db["calculations"]
                     /\ db'["records"] = db["records"]
  <1>1. CASE UNCHANGED db
    BY <1>1
  <1>2. ASSUME NEW c \in Clients, Commit(c), Stored(c)
        PROVE  \E k \in Calculation :
                 /\ db'["calculations"] \subseteq db["calculations"] \cup {k}
                 /\ db["calculations"] \subseteq db'["calculations"]
                 /\ db["records"] \subseteq db'["records"]
    <2>1. calc[c] \in Calculation /\ open[c]["calculations"] \subseteq {calc[c]}
      BY <1>2, TypedStore DEF TInv, Held, Stored, IInv, ClientsInv, ClientInv
    <2>2. /\ db'["calculations"] = Sees(c, "calculations")
          /\ db'["records"] = Sees(c, "records")
      BY <1>2, CommitEffect DEF IInv, Tables
    <2> QED  BY <2>1, <2>2 DEF Sees
  <1>3. ASSUME NEW c \in Clients, NEW t \in Tables, NEW row, Put(c, t, row),
               t \in {"audit", "lineage"} \/ InTransaction(c)
        PROVE  Same
    <2>1. db' = db \/ (db' = [db EXCEPT ![t] = db[t] \cup {row}] /\ ~InTransaction(c))
      BY <1>3 DEF Put, Write
    <2>2. DOMAIN db = Tables
      BY TypedStore DEF IInv
    <2> QED  BY <1>3, <2>1, <2>2 DEF Tables
  <1>4. ASSUME NEW c \in Clients, Step(c)
        PROVE  \/ Same
               \/ \E k \in Calculation :
                    /\ db'["calculations"] \subseteq db["calculations"] \cup {k}
                    /\ db["calculations"] \subseteq db'["calculations"]
                    /\ db["records"] \subseteq db'["records"]
    <2>1. CASE Find(c)
      BY <2>1 DEF Find, Raise
    <2>2. CASE Replay(c)
      BY <2>2 DEF Replay, Raise
    <2>3. CASE Latest(c) \/ Propose(c)
      BY <2>3 DEF Latest, Propose
    <2>4. CASE PutRecord(c)
      <3>1. InTransaction(c)
        BY <2>4, BoundaryAssumption DEF PutRecord, InTransaction
      <3> QED  BY <2>4, <3>1, <1>3 DEF PutRecord, Raise, Tables
    <2>5. CASE PutCalculation(c)
      <3>1. InTransaction(c)
        BY <2>5, BoundaryAssumption DEF PutCalculation, InTransaction
      <3> QED  BY <2>5, <3>1, <1>3 DEF PutCalculation, Raise, Tables
    <2>6. CASE Leave(c)
      BY <2>6, <1>2 DEF Leave, Stored
    <2>7. CASE AppendAudit(c)
      BY <2>7, <1>3 DEF AppendAudit, Append, Tables
    <2>8. CASE AppendLineage(c)
      BY <2>8, <1>3 DEF AppendLineage, Append, Tables
    <2>9. CASE Finish(c)
      BY <2>9, <1>2 DEF Finish, Stored
    <2> QED
      BY <1>4, <2>1, <2>2, <2>3, <2>4, <2>5, <2>6, <2>7, <2>8, <2>9 DEF Step
  <1>5. ASSUME NEW c \in Clients, Fail(c)
        PROVE  UNCHANGED db
    BY <1>5 DEF Fail, Raise
  <1>6. ASSUME NEW c \in Clients, NEW q \in Requests, Begin(c, q)
        PROVE  UNCHANGED db
    BY <1>6 DEF Begin
  <1> QED  BY <1>1, <1>4, <1>5, <1>6 DEF Next, vars

\* The results others see: the ledger that Calculations puts in its place.
Results == {[calculation |-> k, records |-> RecordsOf(k)] : k \in db["calculations"]}

\* A stored calculation keeps just the records it was stored with.
LEMMA RecordsFrozen ==
    ASSUME IInv, IInv', TInv', db["records"] \subseteq db'["records"],
           db["calculations"] \subseteq db'["calculations"],
           NEW k \in db["calculations"]
    PROVE  RecordsOf(k)' = RecordsOf(k)
  <1>1. Recorded(db["calculations"], db["records"])
    BY DEF IInv, StoreInv, Coherent
  <1>2. \A r, s \in db'["records"] : Clash("records", r, s) => r = s
    BY DEF IInv, StoreInv, Distinct, Tables
  <1>3. \A r \in db'["records"] : r.revision = k.revision =>
            Serves(r, k, r.key) /\ r.key \in Keys[k.allocation]
    BY DEF TInv, Stores, Sound, Whole
  <1>4. ASSUME NEW r \in db'["records"], r.revision = k.revision
        PROVE  r \in db["records"]
    <2>1. Serves(r, k, r.key) /\ r.key \in Keys[k.allocation]
      BY <1>3, <1>4
    <2>2. PICK s \in db["records"] : Serves(s, k, r.key)
      BY <1>1, <2>1 DEF Recorded
    <2>3. Clash("records", r, s)
      BY <2>1, <2>2 DEF Clash, Serves
    <2> QED  BY <1>2, <2>2, <2>3
  <1> QED  BY <1>4 DEF RecordsOf

\* A record is the sum of its parts.
LEMMA RecordIs ==
    ASSUME NEW r \in Record
    PROVE  r = [revision |-> r.revision, input |-> r.input, allocation |-> r.allocation,
                at |-> r.at, key |-> r.key, supersedes |-> r.supersedes]
  BY DEF Record

LEMMA CalculationIs ==
    ASSUME NEW k \in Calculation
    PROVE  k = [revision |-> k.revision, input |-> k.input, allocation |-> k.allocation,
                at |-> k.at, supersedes |-> k.supersedes]
  BY DEF Calculation

\* The records a store holds for a calculation, spelt out.
LEMMA RecordsSpelt ==
    ASSUME ~StaleReads, NEW u, Sound(u), Coherent(u), u["records"] \subseteq Record,
           NEW k \in u["calculations"]
    PROVE  {r \in u["records"] : r.revision = k.revision} =
             {[revision |-> k.revision, input |-> k.input, allocation |-> k.allocation,
               at |-> k.at, key |-> key, supersedes |-> LinkOf(k, u["calculations"])]
                : key \in Keys[k.allocation]}
  <1> DEFINE link == LinkOf(k, u["calculations"])
             own == {r \in u["records"] : r.revision = k.revision}
             Rec(key) == [revision |-> k.revision, input |-> k.input,
                          allocation |-> k.allocation, at |-> k.at, key |-> key,
                          supersedes |-> link]
  <1> HIDE DEF link
  <1>1. ASSUME NEW r \in own
        PROVE  r.key \in Keys[k.allocation] /\ r = Rec(r.key)
    <2>1. /\ Serves(r, k, r.key) /\ r.key \in Keys[k.allocation]
          /\ r.supersedes = link /\ r \in Record
      BY <1>1 DEF Sound, Whole, Linked, link
    <2> QED  BY <2>1, RecordIs DEF Serves
  <1>2. ASSUME NEW key \in Keys[k.allocation]
        PROVE  Rec(key) \in own
    <2>1. PICK r \in u["records"] : Serves(r, k, key)
      BY DEF Coherent, Recorded
    <2>2. r \in own /\ r.key = key
      BY <2>1 DEF Serves
    <2> QED  BY <1>1, <2>2
  <1>3. own = {Rec(key) : key \in Keys[k.allocation]}
    <2> HIDE DEF Rec, own
    <2>1. \A r \in own : r.key \in Keys[k.allocation] /\ r = Rec(r.key)
      BY <1>1
    <2>2. \A key \in Keys[k.allocation] : Rec(key) \in own
      BY <1>2
    <2> QED  BY <2>1, <2>2
  <1> QED  BY <1>3 DEF link

\* The step that commits a calculation appends its result to the ledger.
LEMMA AppendsResult ==
    ASSUME IInv, IInv', TInv, TInv', ~StaleReads, NEW k \in Calculation,
           k \in db'["calculations"], k \notin db["calculations"],
           db'["calculations"] = db["calculations"] \cup {k},
           db["records"] \subseteq db'["records"]
    PROVE  Ledger!Next
  <1> DEFINE n == k.revision
             new == [calculation |-> k, records |-> RecordsOf(k)']
  <1>0. n \in Nat \ {0} /\ k.input \in Inputs /\ k.allocation \in Allocations /\ k.at \in Instants
    BY DEF Calculation
  <1>1. Results' = Results \cup {new}
    <2>1. \A j \in db["calculations"] : RecordsOf(j)' = RecordsOf(j)
      BY RecordsFrozen
    <2> QED  BY <2>1 DEF Results
  <1>2. /\ Chained(db["calculations"]) /\ Chained(db'["calculations"])
        /\ db["calculations"] \subseteq Calculation
        /\ \A j \in db["calculations"] : ~Clash("calculations", j, k)
    BY DEF IInv, StoreInv, Coherent, TypeInv, TypeOK, Distinct, Tables
  <1>3. \A j \in db["calculations"] : j.revision # n /\ ~SameIdentity(j, k)
    BY <1>2 DEF Clash
  <1>4. \A j \in db["calculations"] : j.revision < n
    <2> SUFFICES ASSUME NEW j \in db["calculations"], j.revision >= n
                 PROVE  FALSE
      BY <1>0, <1>2 DEF Calculation
    <2>1. n \in 1 .. j.revision
      BY <1>0, <1>2 DEF Calculation
    <2> QED  BY <1>2, <1>3, <2>1 DEF Chained
  <1>5. \A e \in Results : <<e.calculation.input, e.calculation.allocation>> # <<k.input, k.allocation>>
    BY <1>3 DEF Results, SameIdentity
  <1>6. k.supersedes = n - 1
    BY <1>2 DEF Chained
  <1>7. /\ Sound(db') /\ Coherent(db') /\ db'["records"] \subseteq Record
    BY DEF TInv, Stores, IInv, StoreInv, TypeInv, TypeOK, Sound, Whole, Linked, Coherent
  <1>8. RecordsOf(k)' =
          {[revision |-> n, input |-> k.input, allocation |-> k.allocation, at |-> k.at,
            key |-> key, supersedes |-> LinkOf(k, db'["calculations"])]
             : key \in Keys[k.allocation]}
    <2>1. RecordsOf(k)' = {r \in db'["records"] : r.revision = k.revision}
      BY DEF RecordsOf
    <2> DEFINE u == db'
    <2>2. Sound(u) /\ Coherent(u) /\ u["records"] \subseteq Record /\ k \in u["calculations"]
      BY <1>7
    <2> HIDE DEF u
    <2>3. {r \in u["records"] : r.revision = k.revision} =
             {[revision |-> k.revision, input |-> k.input, allocation |-> k.allocation,
               at |-> k.at, key |-> key, supersedes |-> LinkOf(k, u["calculations"])]
                : key \in Keys[k.allocation]}
      BY <2>2, RecordsSpelt
    <2> QED  BY <2>1, <2>3 DEF u
  <1>9. ASSUME NEW before, LinkOf(k, db'["calculations"]) =
                 IF \E e \in before : e.calculation.allocation = k.allocation THEN n - 1 ELSE 0
        PROVE  new = Ledger!Result(n, k.input, k.allocation, k.at, before)
    <2> DEFINE link == LinkOf(k, db'["calculations"])
    <2>1. k = [revision |-> n, input |-> k.input, allocation |-> k.allocation,
               at |-> k.at, supersedes |-> n - 1]
      BY <1>6, CalculationIs
    <2> QED  BY <1>8, <1>9, <2>1 DEF Ledger!Result
  <1>10. CASE n = 1
    <2>1. db["calculations"] = {}
      BY <1>2, <1>4, <1>10 DEF Calculation
    <2>2. LinkOf(k, db'["calculations"]) = 0
      BY <1>10, <2>1 DEF LinkOf
    <2>3. new = Ledger!Result(1, k.input, k.allocation, k.at, {})
      BY <1>9, <1>10, <2>2
    <2>4. Results = {} /\ Results' = {new}
      BY <1>1, <2>1 DEF Results
    <2>5. Ledger!Append(k.input, k.allocation, k.at)
      BY <1>5, <2>3, <2>4 DEF Ledger!Append, Results
    <2> QED  BY <1>0, <2>5 DEF Ledger!Next
  <1>11. CASE n # 1
    <2>1. PICK p \in db["calculations"] : p.revision = n - 1
      <3>1. n - 1 \in 1 .. n /\ n - 1 # n
        BY <1>0, <1>11
      <3> QED  BY <1>2, <3>1 DEF Chained
    <2> DEFINE e == [calculation |-> p, records |-> RecordsOf(p)]
    <2>2. e \in Results /\ \A f \in Results : f.calculation.revision =< e.calculation.revision
      BY <1>0, <1>2, <1>4, <2>1 DEF Results, Calculation
    <2>3. \A q \in db'["calculations"] : q.revision = n - 1 => q = p
      <3>1. n - 1 # n
        BY <1>0
      <3> QED  BY <1>2, <2>1, <3>1 DEF IInv, StoreInv, Distinct, Clash, Tables
    <2>4. LinkOf(k, db'["calculations"]) =
             IF \E f \in {e} : f.calculation.allocation = k.allocation THEN n - 1 ELSE 0
      BY <2>1, <2>3 DEF LinkOf
    <2>5. new = Ledger!Result(n, k.input, k.allocation, k.at, {e})
      BY <1>9, <2>4
    <2>6. e \in Ledger!Last
      BY <2>2 DEF Ledger!Last, Results
    <2>7. e.calculation.revision + 1 = n
      BY <1>0, <2>1
    <2>8. Ledger!Append(k.input, k.allocation, k.at)
      BY <1>1, <1>5, <2>5, <2>6, <2>7 DEF Ledger!Append, Results
    <2> QED  BY <1>0, <2>8 DEF Ledger!Next
  <1> QED  BY <1>10, <1>11

LEMMA LedgerStep ==
    ASSUME Boundary # "none", ~StaleReads, IInv, IInv', TInv, TInv', [Next]_vars
    PROVE  Ledger!Next \/ Results' = Results
  <1>1. CASE /\ db'["calculations"] = db["calculations"]
             /\ db'["records"] = db["records"]
    BY <1>1 DEF Results, RecordsOf
  <1>2. ASSUME NEW k \in Calculation,
               db'["calculations"] \subseteq db["calculations"] \cup {k},
               db["calculations"] \subseteq db'["calculations"],
               db["records"] \subseteq db'["records"]
        PROVE  Ledger!Next \/ Results' = Results
    <2>1. CASE db'["calculations"] = db["calculations"]
      <3>1. \A j \in db["calculations"] : RecordsOf(j)' = RecordsOf(j)
        BY <1>2, RecordsFrozen
      <3> QED  BY <2>1, <3>1 DEF Results
    <2>2. CASE db'["calculations"] # db["calculations"]
      <3>1. /\ k \in db'["calculations"] /\ k \notin db["calculations"]
            /\ db'["calculations"] = db["calculations"] \cup {k}
        BY <1>2, <2>2
      <3> QED  BY <1>2, <3>1, AppendsResult
    <2> QED  BY <2>1, <2>2
  <1> QED  BY <1>1, <1>2, CommittedStep

\* Where the writes are in a transaction and no scan is stale, others see of
\* the store just what CostLedger lets happen to a ledger: results appended
\* whole, one at a time, each superseding the one before, none ever changed.
THEOREM ImplementsLedger == Boundary # "none" /\ ~StaleReads => (Spec => LedgerSpec)
  <1> SUFFICES ASSUME Boundary # "none", ~StaleReads
               PROVE  Spec => LedgerSpec
    OBVIOUS
  <1>1. Init => Ledger!Init
    BY DEF Init, Empty, Tables, Ledger!Init
  <1>2. IInv /\ IInv' /\ TInv /\ TInv' /\ [Next]_vars =>
            [Ledger!Next]_({[calculation |-> k, records |-> RecordsOf(k)]
                              : k \in db["calculations"]})
    BY LedgerStep DEF Results
  <1>3. Boundary # "none"
    OBVIOUS
  <1>4. Spec => []TInv
    BY <1>3, TransactionInvariance
  <1> QED  BY <1>1, <1>2, <1>4, Invariance, PTL DEF Spec, LedgerSpec, Ledger!Spec
=============================================================================
