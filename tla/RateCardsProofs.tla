--------------------------- MODULE RateCardsProofs ---------------------------
(* The lifecycle of rate cards, for any number of clients, cards, prices and *)
(* requests, with or without stale reads.                                    *)
EXTENDS RateCards, TLAPS

Calling(c) == pc[c] \in {"put", "conflict"}

\* The store has no gaps: a card's revisions run from 1 to its newest.
Contiguous ==
    \A s \in snapshots : \A r \in 1 .. s.revision : At(s.card, r) # {}

HasNewest == \A card \in Cards : Of(card) # {} => Newest(Of(card)) # {}

Supported(s) == Starts(s) \/ \E p \in snapshots : Follows(p, s)

StoreInv == LifecycleChain /\ OneSnapshotPerRevision /\ PricingFrozen
              /\ Contiguous /\ HasNewest

\* What holds of one client.  Its proposal is an outcome of its request and
\* follows a stored snapshot; a change refused after its put lost its revision
\* to another snapshot.
ClientInv(c) ==
    /\ pc[c] # "idle" => status[c] = "none"
    /\ pc[c] \in {"read", "scan"} => new[c] = None
    /\ pc[c] = "scan" => request[c].op = "publish"
    /\ Calling(c) => AsAsked(request[c], new[c]) /\ Supported(new[c])
    /\ status[c] \in {"stale", "conflict"} =>
          new[c] = None \/ \E s \in At(new[c].card, new[c].revision) : s # new[c]
    /\ status[c] = "ok" => returned[c] \in snapshots /\ AsAsked(request[c], returned[c])

ClientsInv == \A c \in Clients : ClientInv(c)

IInv == TypeOK /\ StoreInv /\ ClientsInv
-----------------------------------------------------------------------------
(* The operators the calls are built from.                                 *)

\* Whatever a read returns is stored, as a snapshot of the card asked for.
LEMMA ReadStored ==
    ASSUME NEW card, NEW s \in Read(card)
    PROVE  s \in snapshots /\ s.card = card
  BY DEF Read, Newest, Of

\* An offered draft is a snapshot.
LEMMA OfferedSnapshot ==
    ASSUME NEW q \in Requests, q.state = "draft"
    PROVE  Offered(q) \in Snapshot
  BY RequestAssumption, TimeAssumption DEF Request, Offered, Snapshot, Rows, States

\* A permitted transition makes a snapshot that may follow its source.
LEMMA TransitionedSnapshot ==
    ASSUME NEW s \in Snapshot, NEW at \in Times, NEW to,
           <<s.state, to>> \in Allowed
    PROVE  /\ Transitioned(s, to, at) \in Snapshot
           /\ Follows(s, Transitioned(s, to, at))
           /\ Transitioned(s, to, at).card = s.card
           /\ Transitioned(s, to, at).revision = s.revision + 1
           /\ Transitioned(s, to, at).state = to
  <1> DEFINE t == Transitioned(s, to, at)
  <1>1. s \in Rows /\ (s.publishedAt = 0 <=> s.state \in {"draft", "validated"})
    BY DEF Snapshot
  <1>2. t = [card |-> s.card, revision |-> s.revision + 1, state |-> to, pricing |-> s.pricing,
             publishedAt |-> IF to = "published" THEN at ELSE s.publishedAt]
    BY DEF Transitioned
  <1>3. \/ s.state = "draft" /\ to = "validated"
        \/ s.state = "validated" /\ to = "published"
        \/ s.state = "published" /\ to = "retired"
    BY DEF Allowed
  <1>4. at # 0
    BY TimeAssumption
  <1> HIDE DEF t
  <1>5. t \in Rows
    BY <1>1, <1>2, <1>3 DEF Rows, States
  <1>6. t.publishedAt = 0 <=> t.state \in {"draft", "validated"}
    <2>1. t.state = to /\ t.publishedAt = IF to = "published" THEN at ELSE s.publishedAt
      BY <1>2
    <2> QED BY <1>1, <1>3, <1>4, <2>1
  <1>7. Follows(s, t)
    BY <1>1, <1>2, <1>3 DEF Follows, Rows
  <1>8. t.card = s.card /\ t.revision = s.revision + 1 /\ t.state = to
    BY <1>2
  <1> QED BY <1>5, <1>6, <1>7, <1>8 DEF Snapshot, t

-----------------------------------------------------------------------------
(* Types.                                                                  *)

LEMMA InitType == Init => TypeOK
  BY DEF Init, CallersIdle, TypeOK

LEMMA NextType == TypeOK /\ [Next]_vars => TypeOK'
  <1> SUFFICES ASSUME TypeOK, [Next]_vars PROVE TypeOK'
    OBVIOUS
  <1> USE NoneAssumption
  <1>1. CASE UNCHANGED vars
    BY <1>1 DEF vars, TypeOK
  <1>2. ASSUME NEW c \in Clients, NEW q \in Requests, Begin(c, q) PROVE TypeOK'
    <2>1. q # None
      BY RequestAssumption
    <2> QED BY <1>2, <2>1 DEF Begin, TypeOK
  <1>3. ASSUME NEW c \in Clients, NEW how, NEW r, Reply(c, how, r),
               r \in Snapshot \cup {None}, snapshots' \subseteq Snapshot,
               how \in {"ok", "invalid", "stale", "conflict", "missing", "overlap", "failed"}
        PROVE  TypeOK'
    BY <1>3 DEF Reply, TypeOK
  <1>4. ASSUME NEW c \in Clients, NEW how, Refuse(c, how),
               how \in {"ok", "invalid", "stale", "conflict", "missing", "overlap", "failed"}
        PROVE  TypeOK'
    BY <1>3, <1>4 DEF Refuse, TypeOK
  <1>5. ASSUME NEW c \in Clients, NEW s \in Snapshot, Propose(c, s), pc[c] # "idle"
        PROVE  TypeOK'
    BY <1>5 DEF Propose, TypeOK
  <1>6. ASSUME NEW c \in Clients, pc[c] # "idle" PROVE request[c] \in Requests
    BY <1>6 DEF TypeOK
  <1>7. ASSUME NEW c \in Clients, Create(c) PROVE TypeOK'
    <2>1. At(request[c].card, 1) \subseteq Snapshot
      BY DEF At, Of, TypeOK
    <2>2. request[c] \in Requests
      BY <1>6, <1>7 DEF Create
    <2> QED BY <1>3, <1>4, <1>5, <1>7, <2>1, <2>2, OfferedSnapshot DEF Create, Offered, TypeOK
  <1>8. ASSUME NEW c \in Clients, ReplaceDraft(c) PROVE TypeOK'
    <2>1. request[c] \in Requests
      BY <1>6, <1>8 DEF ReplaceDraft
    <2> QED BY <1>4, <1>5, <1>8, <2>1, OfferedSnapshot DEF ReplaceDraft, MayReplace
  <1>9. ASSUME NEW c \in Clients, PublishRead(c) PROVE TypeOK'
    <2>1. PICK s \in Read(request[c].card) :
              \/ Refuse(c, "stale") \/ Refuse(c, "invalid")
              \/ /\ pc' = [pc EXCEPT ![c] = "scan"]
                 /\ current' = [current EXCEPT ![c] = s]
                 /\ todo' = [todo EXCEPT ![c] = Cards \ {request[c].card}]
                 /\ UNCHANGED <<snapshots, request, new, status, returned, begun>>
      BY <1>9 DEF PublishRead
    <2>2. s \in Snapshot
      BY ReadStored DEF TypeOK
    <2>3. request[c] # None
      BY <1>9 DEF PublishRead, TypeOK
    <2> QED BY <1>4, <2>1, <2>2, <2>3 DEF TypeOK
  <1>10. ASSUME NEW c \in Clients, PublishScan(c) PROVE TypeOK'
    BY <1>4, <1>10 DEF PublishScan, TypeOK
  <1>11. ASSUME NEW c \in Clients, Transition(c) PROVE TypeOK'
    <2>1. PICK s \in Read(request[c].card) :
              \/ Refuse(c, "stale") \/ Refuse(c, "invalid")
              \/ /\ <<s.state, Target[request[c].op]>> \in Allowed
                 /\ Propose(c, Transitioned(s, Target[request[c].op], request[c].at))
      BY <1>11 DEF Transition
    <2>2. s \in Snapshot
      BY ReadStored DEF TypeOK
    <2>3. request[c].at \in Times /\ pc[c] # "idle"
      BY <1>6, <1>11, RequestAssumption DEF Transition, Request
    <2> QED BY <1>4, <1>5, <2>1, <2>2, <2>3, TransitionedSnapshot
  <1>12. ASSUME NEW c \in Clients, Missing(c) \/ Fail(c) PROVE TypeOK'
    BY <1>4, <1>12 DEF Missing, Fail
  <1>13. ASSUME NEW c \in Clients, PutStored(c) \/ PutUnanswered(c) PROVE TypeOK'
    <2>1. new[c] \in Snapshot
      BY <1>13 DEF PutStored, PutUnanswered, TypeOK
    <2>2. snapshots \cup {new[c]} \subseteq Snapshot
      BY <2>1 DEF TypeOK
    <2> QED BY <1>3, <1>13, <2>1, <2>2 DEF PutStored, PutUnanswered
  <1>14. ASSUME NEW c \in Clients, PutRepeated(c) \/ PutConflict(c) PROVE TypeOK'
    BY <1>14 DEF PutRepeated, PutConflict, TypeOK
  <1>15. ASSUME NEW c \in Clients, ResolveConflict(c) PROVE TypeOK'
    <2>1. At(new[c].card, new[c].revision) \subseteq Snapshot
      BY DEF At, Of, TypeOK
    <2> QED BY <1>3, <1>15, <2>1 DEF ResolveConflict, TypeOK
  <1> QED
    BY <1>1, <1>2, <1>7, <1>8, <1>9, <1>10, <1>11, <1>12, <1>13, <1>14, <1>15
    DEF Next, Step

\* Type correctness: snapshots are well formed, and carry publishedAt exactly
\* from their publication on (RateCardV1._validate_lifecycle_state).
THEOREM TypeCorrect == Spec => []TypeOK
  BY InitType, NextType, PTL DEF Spec

-----------------------------------------------------------------------------
(* The store.  Only a put on a free revision changes it.                   *)

StoreStep ==
    \/ UNCHANGED snapshots
    \/ \E c \in Clients : /\ pc[c] = "put"
                           /\ At(new[c].card, new[c].revision) = {}
                           /\ snapshots' = snapshots \cup {new[c]}

LEMMA NextStores == [Next]_vars => StoreStep
  <1> SUFFICES ASSUME [Next]_vars PROVE StoreStep
    OBVIOUS
  <1>1. CASE UNCHANGED vars
    BY <1>1 DEF vars, StoreStep
  <1>2. ASSUME NEW c \in Clients, NEW q \in Requests, Begin(c, q) PROVE StoreStep
    BY <1>2 DEF Begin, StoreStep
  <1>3. ASSUME NEW c \in Clients, Step(c) PROVE StoreStep
    <2>1. CASE PutStored(c) \/ PutUnanswered(c) \/ PutRepeated(c)
      BY <2>1 DEF PutStored, PutUnanswered, PutRepeated, StoreStep
    <2>2. CASE Create(c)
      BY <2>2 DEF Create, Refuse, Propose, StoreStep
    <2>3. CASE ReplaceDraft(c)
      BY <2>3 DEF ReplaceDraft, Refuse, Propose, StoreStep
    <2>4. CASE PublishRead(c)
      BY <2>4 DEF PublishRead, Refuse, StoreStep
    <2>5. CASE PublishScan(c)
      BY <2>5 DEF PublishScan, Refuse, StoreStep
    <2>6. CASE Transition(c)
      BY <2>6 DEF Transition, Refuse, Propose, StoreStep
    <2>7. CASE Missing(c) \/ Fail(c)
      BY <2>7 DEF Missing, Fail, Refuse, StoreStep
    <2>8. CASE PutConflict(c) \/ ResolveConflict(c)
      BY <2>8 DEF PutConflict, ResolveConflict, StoreStep
    <2> QED BY <1>3, <2>1, <2>2, <2>3, <2>4, <2>5, <2>6, <2>7, <2>8 DEF Step
  <1> QED BY <1>1, <1>2, <1>3 DEF Next

\* A supported snapshot on a free revision becomes the newest of its card, and
\* every property of the store survives it.
LEMMA AppendNewest ==
    ASSUME TypeOK, StoreInv, NEW n \in Snapshot, Supported(n),
           At(n.card, n.revision) = {}
    PROVE  \A s \in Of(n.card) : s.revision < n.revision
  <1> SUFFICES ASSUME NEW s \in Of(n.card), ~(s.revision < n.revision) PROVE FALSE
    OBVIOUS
  <1>1. s \in snapshots /\ s.card = n.card /\ s \in Snapshot
    BY DEF Of, TypeOK
  <1>2. s.revision \in Nat /\ n.revision \in Nat \ {0}
    BY <1>1 DEF Snapshot, Rows
  <1>3. n.revision \in 1 .. s.revision
    BY <1>2
  <1> QED BY <1>1, <1>3 DEF StoreInv, Contiguous

LEMMA AppendKeeps ==
    ASSUME TypeOK, StoreInv, NEW n \in Snapshot, Supported(n),
           At(n.card, n.revision) = {}, snapshots' = snapshots \cup {n}
    PROVE  StoreInv'
  <1>1. \A s \in snapshots \cup {n} : s.revision \in Nat \ {0} /\ s \in Snapshot
    BY DEF TypeOK, Snapshot, Rows
  <1>2. \A s \in snapshots : s.card = n.card => s.revision < n.revision
    BY AppendNewest DEF Of
  <1>3. LifecycleChain'
    BY DEF StoreInv, LifecycleChain, Supported
  <1>4. OneSnapshotPerRevision'
    BY DEF StoreInv, OneSnapshotPerRevision, At, Of
  <1>5. PricingFrozen'
    <2>1. SUFFICES ASSUME NEW s \in snapshots, s.card = n.card, s.state # "draft"
                   PROVE  /\ n.pricing = s.pricing
                          /\ n.state \notin {"draft", "validated"}
                          /\ s.publishedAt # 0 => n.publishedAt = s.publishedAt
      BY <1>1, <1>2 DEF StoreInv, PricingFrozen
    <2>2. ~Starts(n)
      BY <1>1, <1>2, <2>1 DEF Starts
    <2>3. PICK p \in snapshots : Follows(p, n)
      BY <2>2 DEF Supported
    <2>4. p.card = s.card /\ n.revision = p.revision + 1
      BY <2>1, <2>3 DEF Follows
    <2>5. s.revision < n.revision
      BY <1>2, <2>1
    <2>6. s.revision < p.revision \/ s.revision = p.revision
      BY <1>1, <2>4, <2>5
    <2>7. CASE s = p
      BY <1>1, <2>1, <2>3, <2>7 DEF Follows, Snapshot
    <2>8. CASE s.revision < p.revision
      <3>1. /\ p.pricing = s.pricing /\ p.state \notin {"draft", "validated"}
            /\ s.publishedAt # 0 => p.publishedAt = s.publishedAt
        BY <2>1, <2>4, <2>8 DEF StoreInv, PricingFrozen
      <3> QED BY <2>3, <3>1 DEF Follows
    <2> QED BY <2>4, <2>6, <2>7, <2>8 DEF StoreInv, OneSnapshotPerRevision
  <1>6. Contiguous'
    <2>1. SUFFICES ASSUME NEW r \in 1 .. n.revision
                   PROVE  \E t \in snapshots \cup {n} : t.card = n.card /\ t.revision = r
      BY DEF StoreInv, Contiguous, At, Of
    <2>2. CASE r = n.revision
      BY <2>2
    <2>3. CASE r # n.revision
      <3>1. ~Starts(n)
        BY <1>1, <2>3 DEF Starts
      <3>2. PICK p \in snapshots : Follows(p, n)
        BY <3>1 DEF Supported
      <3>3. p.card = n.card /\ r \in 1 .. p.revision
        BY <1>1, <2>3, <3>2 DEF Follows
      <3> QED BY <3>3 DEF StoreInv, Contiguous, At, Of
    <2> QED BY <2>2, <2>3
  <1>7. HasNewest'
    <2>1. SUFFICES ASSUME NEW card \in Cards, Of(card)' # {} PROVE Newest(Of(card)') # {}
      BY DEF HasNewest, Newest
    <2>2. CASE card = n.card
      <3>1. \A s \in Of(card)' : s = n \/ (s \in snapshots /\ s.card = n.card)
        BY <2>2 DEF Of
      <3>2. \A s \in Of(card)' : s.revision =< n.revision
        BY <1>1, <1>2, <3>1
      <3> QED BY <2>2, <3>2 DEF Newest, Of
    <2>3. CASE card # n.card
      BY <2>1, <2>3 DEF StoreInv, HasNewest, Of
    <2> QED BY <2>2, <2>3
  <1> QED BY <1>3, <1>4, <1>5, <1>6, <1>7 DEF StoreInv

\* A step keeps what it proposed on, because the store only grows.
LEMMA StoreStepKeeps ==
    ASSUME IInv, StoreStep
    PROVE  StoreInv' /\ snapshots \subseteq snapshots'
  <1>1. CASE UNCHANGED snapshots
    BY <1>1 DEF IInv, StoreInv, LifecycleChain, OneSnapshotPerRevision, PricingFrozen,
                Contiguous, HasNewest, At, Of
  <1>2. ASSUME NEW c \in Clients, pc[c] = "put", At(new[c].card, new[c].revision) = {},
               snapshots' = snapshots \cup {new[c]}
        PROVE  StoreInv'
    <2>1. new[c] \in Snapshot
      BY <1>2 DEF IInv, TypeOK
    <2>2. Supported(new[c])
      BY <1>2 DEF IInv, ClientsInv, ClientInv, Calling
    <2> QED BY <1>2, <2>1, <2>2, AppendKeeps DEF IInv
  <1> QED BY <1>1, <1>2 DEF StoreStep

-----------------------------------------------------------------------------
(* The clients.  A step of one leaves what is known of the others true.    *)

LEMMA OthersKeep ==
    ASSUME NEW d \in Clients, ClientInv(d), snapshots \subseteq snapshots',
           pc'[d] = pc[d], request'[d] = request[d], new'[d] = new[d],
           status'[d] = status[d], returned'[d] = returned[d]
    PROVE  ClientInv(d)'
  BY DEF ClientInv, Calling, Supported, At, Of

LEMMA ReplyKeeps ==
    ASSUME IInv, NEW c \in Clients, NEW how, NEW r, Reply(c, how, r),
           snapshots \subseteq snapshots',
           how = "ok" => r \in snapshots' /\ AsAsked(request[c], r),
           how \in {"stale", "conflict"} =>
               new[c] = None \/ \E s \in At(new[c].card, new[c].revision) : s # new[c]
    PROVE  ClientsInv'
  <1>1. ASSUME NEW d \in Clients, d # c PROVE ClientInv(d)'
    BY <1>1, OthersKeep DEF Reply, IInv, ClientsInv, TypeOK
  <1>2. /\ pc'[c] = "idle" /\ status'[c] = how /\ returned'[c] = r
        /\ request'[c] = request[c] /\ new'[c] = new[c]
    BY DEF Reply, IInv, TypeOK
  <1>3. ClientInv(c)'
    BY <1>2 DEF ClientInv, Calling, At, Of
  <1> QED BY <1>1, <1>3 DEF ClientsInv

LEMMA RefuseKeeps ==
    ASSUME IInv, NEW c \in Clients, NEW how, Refuse(c, how), how # "ok",
           how \in {"stale", "conflict"} => new[c] = None
    PROVE  ClientsInv'
  BY ReplyKeeps DEF Refuse

LEMMA ProposeKeeps ==
    ASSUME IInv, NEW c \in Clients, NEW s, Propose(c, s), pc[c] # "idle",
           AsAsked(request[c], s), Supported(s)
    PROVE  ClientsInv'
  <1>1. ASSUME NEW d \in Clients, d # c PROVE ClientInv(d)'
    BY <1>1, OthersKeep DEF Propose, IInv, ClientsInv, TypeOK
  <1>2. /\ pc'[c] = "put" /\ new'[c] = s /\ request'[c] = request[c]
        /\ status'[c] = "none"
    BY DEF Propose, IInv, TypeOK, ClientsInv, ClientInv
  <1>3. ClientInv(c)'
    BY <1>2 DEF Propose, ClientInv, Calling, Supported
  <1> QED BY <1>1, <1>3 DEF ClientsInv

LEMMA NextClients == IInv /\ [Next]_vars => ClientsInv'
  <1> SUFFICES ASSUME IInv, [Next]_vars PROVE ClientsInv'
    OBVIOUS
  <1>0. snapshots \subseteq snapshots'
    BY NextStores, StoreStepKeeps
  <1>1. CASE UNCHANGED vars
    BY <1>1, OthersKeep DEF vars, IInv, ClientsInv
  <1>2. ASSUME NEW c \in Clients, NEW q \in Requests, Begin(c, q) PROVE ClientsInv'
    <2>1. ASSUME NEW d \in Clients, d # c PROVE ClientInv(d)'
      BY <1>2, <2>1, OthersKeep DEF Begin, IInv, ClientsInv, TypeOK
    <2>2. pc'[c] = "read" /\ new'[c] = None /\ status'[c] = "none"
      BY <1>2 DEF Begin, IInv, TypeOK
    <2>3. ClientInv(c)'
      BY <2>2 DEF ClientInv, Calling
    <2> QED BY <2>1, <2>3 DEF ClientsInv
  <1>3. ASSUME NEW c \in Clients, pc[c] \in {"read", "scan"} PROVE new[c] = None
    BY <1>3 DEF IInv, ClientsInv, ClientInv
  <1>4. ASSUME NEW c \in Clients, pc[c] # "idle" PROVE request[c] \in Requests
    BY <1>4 DEF IInv, TypeOK
  <1>5. ASSUME NEW c \in Clients, Create(c) PROVE ClientsInv'
    <2> DEFINE q == request[c]
    <2>1. q.op = "create" /\ pc[c] = "read" /\ new[c] = None
      BY <1>3, <1>5 DEF Create
    <2>2. AsAsked(q, Offered(q))
      BY <2>1 DEF AsAsked, Offered
    <2>3. \/ Refuse(c, "invalid")
          \/ \E s \in At(q.card, 1) :
                IF SameFingerprint(s, Offered(q)) THEN Reply(c, "ok", s) ELSE Refuse(c, "conflict")
          \/ /\ Offered(q).revision = 1 /\ Offered(q).state = "draft"
             /\ Propose(c, Offered(q))
      BY <1>5 DEF Create
    <2>4. CASE Refuse(c, "invalid") \/ Refuse(c, "conflict")
      BY <2>1, <2>4, RefuseKeeps
    <2>5. ASSUME NEW s \in At(q.card, 1), s = Offered(q), Reply(c, "ok", s) PROVE ClientsInv'
      BY <1>0, <2>2, <2>5, ReplyKeeps DEF At, Of
    <2>6. CASE /\ Offered(q).revision = 1 /\ Offered(q).state = "draft"
               /\ Propose(c, Offered(q))
      BY <2>1, <2>2, <2>6, ProposeKeeps DEF Supported, Starts
    <2> QED BY <2>3, <2>4, <2>5, <2>6 DEF SameFingerprint
  <1>6. ASSUME NEW c \in Clients, ReplaceDraft(c) PROVE ClientsInv'
    <2> DEFINE q == request[c]
    <2>1. q.op = "replace" /\ pc[c] = "read" /\ new[c] = None
      BY <1>3, <1>6 DEF ReplaceDraft
    <2>2. PICK s \in Read(q.card) :
              \/ Refuse(c, "stale") \/ Refuse(c, "invalid")
              \/ s.revision = q.expected /\ MayReplace(s, q) /\ Propose(c, Offered(q))
      BY <1>6 DEF ReplaceDraft
    <2>3. CASE Refuse(c, "stale") \/ Refuse(c, "invalid")
      BY <2>1, <2>3, RefuseKeeps
    <2>4. CASE s.revision = q.expected /\ MayReplace(s, q) /\ Propose(c, Offered(q))
      <3>1. AsAsked(q, Offered(q))
        BY <2>1, <2>4 DEF AsAsked, Offered, MayReplace
      <3>2. s \in snapshots /\ Follows(s, Offered(q))
        BY <2>4, ReadStored DEF Follows, Offered, MayReplace
      <3> QED BY <2>1, <2>4, <3>1, <3>2, ProposeKeeps DEF Supported
    <2> QED BY <2>2, <2>3, <2>4
  <1>7. ASSUME NEW c \in Clients, PublishRead(c) PROVE ClientsInv'
    <2>1. pc[c] = "read" /\ request[c].op = "publish" /\ new[c] = None
      BY <1>3, <1>7 DEF PublishRead
    <2>2. CASE Refuse(c, "stale") \/ Refuse(c, "invalid")
      BY <2>1, <2>2, RefuseKeeps
    <2>3. CASE /\ pc' = [pc EXCEPT ![c] = "scan"]
               /\ UNCHANGED <<snapshots, request, new, status, returned, begun>>
      <3>1. ASSUME NEW d \in Clients, d # c PROVE ClientInv(d)'
        BY <2>3, <3>1, OthersKeep DEF IInv, ClientsInv, TypeOK
      <3>2. pc'[c] = "scan" /\ status'[c] = "none"
        BY <2>1, <2>3 DEF IInv, ClientsInv, ClientInv, TypeOK
      <3>3. ClientInv(c)'
        BY <2>1, <2>3, <3>2 DEF ClientInv, Calling
      <3> QED BY <3>1, <3>3 DEF ClientsInv
    <2> QED BY <1>7, <2>2, <2>3 DEF PublishRead
  <1>8. ASSUME NEW c \in Clients, PublishScan(c) PROVE ClientsInv'
    <2>1. CASE Refuse(c, "overlap")
      BY <2>1, RefuseKeeps
    <2>2. CASE UNCHANGED <<snapshots, pc, request, current, new, status, returned, begun>>
      BY <2>2, OthersKeep DEF IInv, ClientsInv
    <2> QED BY <1>8, <2>1, <2>2 DEF PublishScan
  <1>9. ASSUME NEW c \in Clients, Transition(c) PROVE ClientsInv'
    <2> DEFINE q == request[c]
               to == Target[q.op]
    <2>1. pc[c] \in {"read", "scan"} /\ q.op \in {"validate", "publish", "retire"}
      BY <1>9 DEF Transition, IInv, ClientsInv, ClientInv
    <2>2. PICK s \in Read(q.card) :
              \/ Refuse(c, "stale") \/ Refuse(c, "invalid")
              \/ /\ s.revision = q.expected /\ <<s.state, to>> \in Allowed
                 /\ Propose(c, Transitioned(s, to, q.at))
      BY <1>9 DEF Transition
    <2>3. CASE Refuse(c, "stale") \/ Refuse(c, "invalid")
      BY <1>3, <2>1, <2>3, RefuseKeeps
    <2>4. CASE /\ s.revision = q.expected /\ <<s.state, to>> \in Allowed
               /\ Propose(c, Transitioned(s, to, q.at))
      <3>1. s \in snapshots /\ s \in Snapshot /\ s.card = q.card
        BY ReadStored DEF IInv, TypeOK
      <3>2. q.at \in Times
        BY <1>4, <2>1, RequestAssumption DEF Request
      <3>3. AsAsked(q, Transitioned(s, to, q.at))
        BY <2>1, <2>4, <3>1, <3>2, TransitionedSnapshot DEF AsAsked
      <3>4. Supported(Transitioned(s, to, q.at))
        BY <2>4, <3>1, <3>2, TransitionedSnapshot DEF Supported
      <3> QED BY <2>1, <2>4, <3>3, <3>4, ProposeKeeps
    <2> QED BY <2>2, <2>3, <2>4
  <1>10. ASSUME NEW c \in Clients, Missing(c) \/ Fail(c) PROVE ClientsInv'
    BY <1>10, RefuseKeeps DEF Missing, Fail
  <1>11. ASSUME NEW c \in Clients, PutStored(c) \/ PutUnanswered(c) PROVE ClientsInv'
    <2>1. AsAsked(request[c], new[c]) /\ new[c] \in snapshots'
      BY <1>11 DEF PutStored, PutUnanswered, IInv, ClientsInv, ClientInv, Calling
    <2> QED BY <1>0, <1>11, <2>1, ReplyKeeps DEF PutStored, PutUnanswered
  <1>12. ASSUME NEW c \in Clients, PutRepeated(c) \/ PutConflict(c) PROVE ClientsInv'
    <2>1. /\ pc[c] = "put" /\ pc' = [pc EXCEPT ![c] = "conflict"]
          /\ UNCHANGED <<request, new, status, returned>>
      BY <1>12 DEF PutRepeated, PutConflict
    <2>2. ASSUME NEW d \in Clients, d # c PROVE ClientInv(d)'
      BY <1>0, <2>1, <2>2, OthersKeep DEF IInv, ClientsInv, TypeOK
    <2>3. pc'[c] = "conflict" /\ status'[c] = "none"
      BY <2>1 DEF IInv, ClientsInv, ClientInv, TypeOK
    <2>4. ClientInv(c)'
      BY <1>0, <2>1, <2>3 DEF ClientInv, Calling, Supported, IInv, ClientsInv
    <2> QED BY <2>2, <2>4 DEF ClientsInv
  <1>13. ASSUME NEW c \in Clients, ResolveConflict(c) PROVE ClientsInv'
    <2> DEFINE persisted == At(new[c].card, new[c].revision)
    <2>1. AsAsked(request[c], new[c])
      BY <1>13 DEF ResolveConflict, IInv, ClientsInv, ClientInv, Calling
    <2>2. ASSUME NEW s \in persisted, s = new[c], Reply(c, "ok", s) PROVE ClientsInv'
      BY <1>0, <2>1, <2>2, ReplyKeeps DEF At, Of
    <2>3. ASSUME NEW s \in persisted, s # new[c], NEW how \in {"conflict", "stale"},
                 Reply(c, how, None)
          PROVE  ClientsInv'
      BY <1>0, <2>3, ReplyKeeps
    <2>4. CASE Reply(c, "missing", None)
      BY <1>0, <2>4, ReplyKeeps
    <2> QED BY <1>13, <2>2, <2>3, <2>4 DEF ResolveConflict, SameFingerprint
  <1> QED
    BY <1>1, <1>2, <1>5, <1>6, <1>7, <1>8, <1>9, <1>10, <1>11, <1>12, <1>13 DEF Next, Step

-----------------------------------------------------------------------------
LEMMA InitIInv == Init => IInv
  <1> SUFFICES ASSUME Init PROVE IInv
    OBVIOUS
  <1>1. StoreInv
    BY DEF Init, CallersIdle, StoreInv, LifecycleChain, OneSnapshotPerRevision, PricingFrozen,
           Contiguous, HasNewest, Of
  <1>2. ClientsInv
    BY DEF Init, CallersIdle, ClientsInv, ClientInv, Calling
  <1> QED BY <1>1, <1>2, InitType DEF IInv

LEMMA NextIInv == IInv /\ [Next]_vars => IInv'
  <1> SUFFICES ASSUME IInv, [Next]_vars PROVE IInv'
    OBVIOUS
  <1>1. TypeOK' /\ ClientsInv'
    BY NextType, NextClients DEF IInv
  <1>2. StoreInv'
    BY NextStores, StoreStepKeeps
  <1> QED BY <1>1, <1>2 DEF IInv

\* The inductive invariant holds in every reachable state.
THEOREM Invariance == Spec => []IInv
  BY InitIInv, NextIInv, PTL DEF Spec

\* Every card's history is one chain of drafts and permitted transitions.
THEOREM ChainHolds == Spec => []LifecycleChain
  <1>1. IInv => LifecycleChain
    BY DEF IInv, StoreInv
  <1> QED BY <1>1, Invariance, PTL

\* if_absent puts and the conflict read leave one snapshot per revision.
THEOREM RevisionsUnique == Spec => []OneSnapshotPerRevision
  <1>1. IInv => OneSnapshotPerRevision
    BY DEF IInv, StoreInv
  <1> QED BY <1>1, Invariance, PTL

\* Pricing is frozen from validation on, as is publishedAt from publication.
THEOREM PricingIsFrozen == Spec => []PricingFrozen
  <1>1. IInv => PricingFrozen
    BY DEF IInv, StoreInv
  <1> QED BY <1>1, Invariance, PTL

\* A call that succeeds returns a stored outcome of its own request.
THEOREM AnswersAsAsked == Spec => []ReturnedAsAsked
  <1>1. IInv => ReturnedAsAsked
    BY DEF IInv, ClientsInv, ClientInv, ReturnedAsAsked
  <1> QED BY <1>1, Invariance, PTL

\* A call told stale or conflict after its put has stored nothing.
THEOREM RefusalsStoreNothing == Spec => []RefusedNotStored
  <1>1. IInv => RefusedNotStored
    <2> SUFFICES ASSUME IInv, NEW c \in Clients, status[c] \in {"stale", "conflict"},
                        new[c] \in snapshots
                 PROVE  FALSE
      BY DEF RefusedNotStored
    <2>1. new[c] # None
      BY NoneAssumption DEF IInv, TypeOK
    <2>2. PICK s \in At(new[c].card, new[c].revision) : s # new[c]
      BY <2>1 DEF IInv, ClientsInv, ClientInv
    <2> QED BY <2>2 DEF IInv, StoreInv, OneSnapshotPerRevision, At, Of
  <1> QED BY <1>1, Invariance, PTL

\* Optimistic concurrency: successes from one expected revision agree.
THEOREM OneEffectPerExpectedRevision == Spec => []ExpectedRevisionExclusive
  <1>1. IInv => ExpectedRevisionExclusive
    BY DEF IInv, StoreInv, OneSnapshotPerRevision, ClientsInv, ClientInv, AsAsked,
           ExpectedRevisionExclusive
  <1> QED BY <1>1, Invariance, PTL

-----------------------------------------------------------------------------
(* The store implements the register of CardLifecycle.                     *)

LEMMA NewestIs ==
    ASSUME TypeOK, StoreInv, NEW card, NEW s \in Newest(Of(card))
    PROVE  NewestOf(card) = s
  <1>1. s \in Of(card) /\ s.revision \in Nat
    BY DEF Newest, TypeOK, Snapshot, Rows, Of
  <1>2. ASSUME NEW t \in Newest(Of(card)) PROVE t = s
    <2>1. t \in Of(card) /\ t.revision \in Nat
      BY <1>2 DEF Newest, TypeOK, Snapshot, Rows, Of
    <2>2. t.revision = s.revision
      BY <1>1, <1>2, <2>1 DEF Newest
    <2> QED BY <1>1, <2>1, <2>2 DEF StoreInv, OneSnapshotPerRevision, Of
  <1>3. Newest(Of(card)) = {s}
    BY <1>2
  <1>4. NewestOf(card) = CHOOSE t \in {s} : TRUE
    BY <1>1, <1>3, Zenon DEF NewestOf
  <1> QED BY <1>4

\* The register only shows what the store holds.
LEMMA RegisterFrame ==
    ASSUME NEW card, Of(card)' = Of(card) PROVE NewestOf(card)' = NewestOf(card)
  BY DEF NewestOf, Newest

LEMMA AppendAdvances ==
    ASSUME TypeOK, StoreInv, TypeOK', StoreInv', NEW n \in Snapshot, Supported(n),
           At(n.card, n.revision) = {}, snapshots' = snapshots \cup {n}
    PROVE  Register!Next
  <1> DEFINE card == n.card
             old == [k \in Cards |-> NewestOf(k)]
  <1>1. n \in Rows
    BY DEF Snapshot
  <1>2. /\ card \in Cards /\ n.pricing \in Pricings /\ n.revision \in Nat \ {0}
        /\ n = [card |-> card, revision |-> n.revision, state |-> n.state,
                pricing |-> n.pricing, publishedAt |-> n.publishedAt]
    BY <1>1 DEF Rows
  <1>3. \A s \in snapshots : s.revision \in Nat \ {0} /\ s \in Snapshot
    BY <1>1 DEF TypeOK, Snapshot, Rows
  <1>4. \A s \in Of(card) : s.revision < n.revision
    BY <1>1, AppendNewest
  <1>5. NewestOf(card)' = n
    <2>1. Of(card)' = Of(card) \cup {n}
      BY DEF Of
    <2>2. n \in Newest(Of(card)')
      BY <1>2, <1>3, <1>4, <2>1 DEF Newest, Of
    <2>3. \A s \in Of(card)' : s \in Newest(Of(card)') => s = n
      BY <1>2, <1>3, <1>4, <2>1 DEF Newest, Of
    <2> QED BY <2>1, <2>2, <2>3 DEF NewestOf, Newest
  <1>6. \A k \in Cards : k # card => NewestOf(k)' = NewestOf(k)
    <2>1. \A k \in Cards : k # card => Of(k)' = Of(k)
      BY DEF Of
    <2> QED BY <2>1, RegisterFrame
  <1>7. [k \in Cards |-> NewestOf(k)]' = [old EXCEPT ![card] =
            [card |-> card, revision |-> n.revision, state |-> n.state,
             pricing |-> n.pricing, publishedAt |-> n.publishedAt]]
    BY <1>2, <1>5, <1>6
  <1>8. CASE Of(card) = {}
    <2>1. Starts(n)
      BY <1>8 DEF Supported, Follows, Of
    <2>2. n.publishedAt = 0
      BY <1>1, <2>1 DEF Starts, Snapshot
    <2>3. NewestOf(card) = None
      BY <1>8 DEF NewestOf
    <2>4. Register!Create(card, n.pricing)
      BY <1>2, <1>7, <2>1, <2>2, <2>3 DEF Register!Create, Register!Move, Starts
    <2> QED BY <1>2, <2>4 DEF Register!Next
  <1>9. CASE Of(card) # {}
    <2>1. ~Starts(n)
      BY <1>3, <1>4, <1>9 DEF Starts, Of
    <2>2. PICK p \in snapshots : Follows(p, n)
      BY <1>1, <2>1 DEF Supported
    <2>3. p \in Newest(Of(card))
      BY <1>2, <1>3, <1>4, <2>2 DEF Newest, Of, Follows
    <2>4. NewestOf(card) = p
      BY <1>1, <2>3, NewestIs
    <2>5. old[card] = p /\ p # None /\ p \in Snapshot
      BY <1>2, <1>3, <2>4, NoneAssumption
    <2>6. n.revision = p.revision + 1
      BY <2>2 DEF Follows
    <2>7. ASSUME NEW from, p.state = from
          PROVE  Register!Advance(card, from, n.state, n.pricing, n.publishedAt)
      BY <1>7, <2>5, <2>6, <2>7 DEF Register!Advance, Register!Move
    <2>8. CASE p.state = "draft" /\ n.state = "draft"
      <3>1. n.publishedAt = 0
        BY <1>1, <2>8 DEF Snapshot
      <3>2. Register!Replace(card, n.pricing)
        BY <2>7, <2>8, <3>1 DEF Register!Replace
      <3> QED BY <1>2, <3>2 DEF Register!Next
    <2>9. CASE p.state = "draft" /\ n.state = "validated" /\ n.pricing = p.pricing
      <3>1. n.publishedAt = 0
        BY <1>1, <2>9 DEF Snapshot
      <3>2. Register!Validate(card)
        BY <2>5, <2>7, <2>9, <3>1 DEF Register!Validate
      <3> QED BY <1>2, <3>2 DEF Register!Next
    <2>10. CASE p.state = "validated" /\ n.state = "published" /\ n.pricing = p.pricing
      <3>1. n.publishedAt \in Times
        BY <1>1, <2>10 DEF Snapshot, Rows
      <3>2. Register!Publish(card, n.publishedAt)
        BY <2>5, <2>7, <2>10 DEF Register!Publish
      <3> QED BY <1>2, <3>1, <3>2 DEF Register!Next
    <2>11. CASE /\ p.state = "published" /\ n.state = "retired"
                /\ n.pricing = p.pricing /\ n.publishedAt = p.publishedAt
      <3>1. Register!Retire(card)
        BY <2>5, <2>7, <2>11 DEF Register!Retire
      <3> QED BY <1>2, <3>1 DEF Register!Next
    <2> QED BY <2>2, <2>8, <2>9, <2>10, <2>11 DEF Follows
  <1> QED BY <1>8, <1>9

\* Readers of the newest snapshots see the register of CardLifecycle.
THEOREM ImplementsRegister == Spec => RegisterSpec
  <1>1. Init => Register!Init
    BY DEF Init, CallersIdle, Register!Init, NewestOf, Of
  <1>2. IInv /\ IInv' /\ [Next]_vars =>
            [Register!Next]_[card \in Cards |-> NewestOf(card)]
    <2> SUFFICES ASSUME IInv, IInv', [Next]_vars
                 PROVE  \/ Register!Next
                        \/ UNCHANGED [card \in Cards |-> NewestOf(card)]
      OBVIOUS
    <2>1. StoreStep
      BY NextStores
    <2>2. CASE UNCHANGED snapshots
      BY <2>2 DEF NewestOf, Newest, Of
    <2>3. ASSUME NEW c \in Clients, pc[c] = "put", At(new[c].card, new[c].revision) = {},
                 snapshots' = snapshots \cup {new[c]}
          PROVE  Register!Next
      <3>1. new[c] \in Snapshot /\ Supported(new[c])
        BY <2>3 DEF IInv, TypeOK, ClientsInv, ClientInv, Calling
      <3> QED BY <2>3, <3>1, AppendAdvances DEF IInv
    <2> QED BY <2>1, <2>2, <2>3 DEF StoreStep
  <1> QED BY <1>1, <1>2, Invariance, PTL DEF Spec, RegisterSpec, Register!Spec
-----------------------------------------------------------------------------
(* What a caller may conclude from a refusal and from a publication when    *)
(* reads are current.                                                       *)

\* What was published before the call of c began, and is still: it can only
\* shrink while the call lasts.
Settled(c) == PublishedNow \cap begun[c]

\* None of it on the given cards meets a pricing.
Clear(c, others, pricing) ==
    \A t \in Settled(c) : t.card \in others => ~Overlap(t.pricing, pricing)

\* Whoever held the newest revision and was refused lost it to a change that
\* was stored since.
Overtaken(c) ==
    /\ status[c] = "stale"
    /\ \E s \in begun[c] : /\ s.card = request[c].card
                            /\ s.revision = request[c].expected
                            /\ \A t \in begun[c] : t.card = s.card => t.revision =< s.revision
    => Of(request[c].card) \ (begun[c] \cup {new[c]}) # {}

Others(c) == Cards \ {request[c].card}

\* The scan has cleared the cards it has read for the snapshot publish found
\* first, the second read finds the same, and so the rest of the call stands
\* on what the scan saw.
Publishing(c) ==
    /\ pc[c] = "scan" =>
          /\ current[c] \in Of(request[c].card) /\ current[c].revision = request[c].expected
          /\ Clear(c, Others(c) \ todo[c], current[c].pricing)
    /\ Calling(c) /\ request[c].op = "publish" => Clear(c, Others(c), new[c].pricing)
    /\ status[c] = "ok" /\ request[c].op = "publish" => Clear(c, Others(c), returned[c].pricing)

ReadInv == \A c \in Clients : begun[c] \subseteq snapshots /\ Overtaken(c) /\ Publishing(c)
-----------------------------------------------------------------------------
(* What a growing store leaves true of a call.                              *)

LEMMA SettledShrinks ==
    ASSUME IInv, snapshots \subseteq snapshots', NEW c \in Clients,
           begun[c] \subseteq snapshots, begun'[c] = begun[c]
    PROVE  Settled(c)' \subseteq Settled(c)
  <1> SUFFICES ASSUME NEW t \in Settled(c)'
               PROVE  t \in Settled(c)
    OBVIOUS
  <1>1. /\ t \in begun[c] /\ t \in snapshots /\ t.state = "published"
        /\ \A u \in snapshots' : u.card = t.card => u.revision =< t.revision
    BY DEF Settled, PublishedNow, Newest, Of
  <1> QED  BY <1>1 DEF Settled, PublishedNow, Newest, Of

LEMMA Waits ==
    ASSUME IInv, ReadInv, snapshots \subseteq snapshots', NEW c \in Clients,
           pc'[c] = pc[c], request'[c] = request[c], current'[c] = current[c],
           todo'[c] = todo[c], new'[c] = new[c], status'[c] = status[c],
           returned'[c] = returned[c], begun'[c] = begun[c]
    PROVE  (begun[c] \subseteq snapshots /\ Overtaken(c) /\ Publishing(c))'
  <1>1. begun[c] \subseteq snapshots /\ Overtaken(c) /\ Publishing(c)
    BY DEF ReadInv
  <1>2. Settled(c)' \subseteq Settled(c)
    BY <1>1, SettledShrinks
  <1>3. Overtaken(c)'
    BY <1>1 DEF Overtaken, Of
  <1>4. Publishing(c)'
    BY <1>1, <1>2 DEF Publishing, Clear, Others, Calling, Of
  <1> QED  BY <1>1, <1>3, <1>4

\* The caller held the newest revision there was when its call began.
HeldNewest(c) ==
    \E s \in begun[c] : /\ s.card = request[c].card /\ s.revision = request[c].expected
                        /\ \A t \in begun[c] : t.card = s.card => t.revision =< s.revision

LEMMA Replies ==
    ASSUME IInv, ReadInv, snapshots \subseteq snapshots', NEW c \in Clients, NEW how, NEW r,
           Reply(c, how, r),
           how = "stale" /\ HeldNewest(c) =>
               \E s \in Of(request[c].card) : s \notin begun[c] /\ s # new[c],
           how = "ok" /\ request[c].op = "publish" => Clear(c, Others(c), r.pricing)
    PROVE  ReadInv'
  <1>1. /\ pc'[c] = "idle" /\ status'[c] = how /\ returned'[c] = r
        /\ request'[c] = request[c] /\ new'[c] = new[c] /\ begun'[c] = begun[c]
    BY DEF Reply, IInv, TypeOK
  <1>2. begun[c] \subseteq snapshots /\ Settled(c)' \subseteq Settled(c)
    BY <1>1, SettledShrinks DEF ReadInv
  <1>3. Overtaken(c)'
    BY <1>1 DEF Overtaken, HeldNewest, Of
  <1>4. Publishing(c)'
    BY <1>1, <1>2 DEF Publishing, Clear, Others, Calling
  <1>5. ASSUME NEW d \in Clients, d # c
        PROVE  (begun[d] \subseteq snapshots /\ Overtaken(d) /\ Publishing(d))'
    BY <1>5, Waits DEF Reply, IInv, TypeOK
  <1> QED  BY <1>1, <1>2, <1>3, <1>4, <1>5 DEF ReadInv

LEMMA Refuses ==
    ASSUME IInv, ReadInv, NEW c \in Clients, NEW how, how \notin {"ok", "stale"}, Refuse(c, how)
    PROVE  ReadInv'
  BY Replies DEF Refuse

\* A caller whose expected revision is not the newest now, though it was when
\* the call began, finds a snapshot that was not there.
LEMMA RefusesStale ==
    ASSUME IInv, ReadInv, NEW c \in Clients, Refuse(c, "stale"), new[c] = None,
           NEW s \in Newest(Of(request[c].card)), s.revision # request[c].expected
    PROVE  ReadInv'
  <1>1. ASSUME HeldNewest(c)
        PROVE  \E t \in Of(request[c].card) : t \notin begun[c] /\ t # new[c]
    <2>1. s \in Of(request[c].card) /\ s \in Snapshot
      BY DEF Newest, Of, IInv, TypeOK
    <2>2. s # new[c]
      BY <2>1, NoneAssumption
    <2>3. PICK e \in begun[c] :
             /\ e.card = request[c].card /\ e.revision = request[c].expected
             /\ \A t \in begun[c] : t.card = e.card => t.revision =< e.revision
      BY <1>1 DEF HeldNewest
    <2>4. e \in Of(request[c].card) /\ e \in Snapshot
      BY <2>3 DEF ReadInv, Of, IInv, TypeOK
    <2>5. e.revision \in Nat /\ s.revision \in Nat /\ e.revision =< s.revision
      BY <2>1, <2>4 DEF Newest, Snapshot, Rows
    <2>6. s \notin begun[c]
      BY <2>1, <2>3, <2>5 DEF Of
    <2> QED  BY <2>1, <2>2, <2>6
  <1> QED  BY <1>1, Replies DEF Refuse

LEMMA Proposes ==
    ASSUME IInv, ReadInv, NEW c \in Clients, NEW s, Propose(c, s), pc[c] # "idle",
           request[c].op = "publish" => Clear(c, Others(c), s.pricing)
    PROVE  ReadInv'
  <1>1. /\ pc'[c] = "put" /\ new'[c] = s /\ status'[c] = "none"
        /\ UNCHANGED <<snapshots, request, begun, current, todo>>
    BY DEF Propose, IInv, TypeOK, ClientsInv, ClientInv
  <1>2. begun[c] \subseteq snapshots /\ Settled(c)' \subseteq Settled(c)
    BY <1>1, SettledShrinks DEF ReadInv
  <1>3. Overtaken(c)' /\ Publishing(c)'
    BY <1>1, <1>2 DEF Overtaken, Publishing, Clear, Others, Calling
  <1>4. ASSUME NEW d \in Clients, d # c
        PROVE  (begun[d] \subseteq snapshots /\ Overtaken(d) /\ Publishing(d))'
    BY <1>4, Waits DEF Propose, IInv, TypeOK
  <1> QED  BY <1>1, <1>2, <1>3, <1>4 DEF ReadInv

-----------------------------------------------------------------------------
(* The steps.                                                               *)

\* What list_rate_cards shows of a card leaves nothing settled of it to meet.
LEMMA ScanClears ==
    ASSUME IInv, ~StaleReads, NEW c \in Clients, NEW other, NEW s,
           LET seen == Listed(other, s.pricing.key)
           IN  seen = {} \/ \E t \in seen : ~Blocks(s, t)
    PROVE  Clear(c, {other}, s.pricing)
  <1> SUFFICES ASSUME NEW t \in Settled(c), t.card = other, Overlap(t.pricing, s.pricing)
               PROVE  FALSE
    BY DEF Clear
  <1> DEFINE matching == {u \in Of(other) : u.pricing.key = s.pricing.key}
  <1>1. t \in Of(other) /\ t.state = "published" /\ \A u \in Of(other) : u.revision =< t.revision
    BY DEF Settled, PublishedNow, Newest, Of
  <1>2. t \in matching
    BY <1>1 DEF Overlap
  <1>3. Listed(other, s.pricing.key) = Newest(matching)
    BY DEF Listed
  <1>4. t \in Newest(matching)
    BY <1>1, <1>2 DEF Newest
  <1>5. PICK u \in Newest(matching) : ~Blocks(s, u)
    BY <1>3, <1>4
  <1>6. u \in Of(other) /\ u.revision =< t.revision /\ t.revision =< u.revision
    BY <1>1, <1>2, <1>5 DEF Newest
  <1>7. u.revision = t.revision
    <2>1. t \in Snapshot /\ u \in Snapshot
      BY <1>1, <1>6 DEF IInv, TypeOK, Of
    <2>2. t.revision \in Nat /\ u.revision \in Nat
      BY <2>1 DEF Snapshot, Rows
    <2> QED  BY <1>6, <2>2
  <1>8. u = t
    BY <1>1, <1>6, <1>7 DEF IInv, StoreInv, OneSnapshotPerRevision, Of
  <1> QED  BY <1>1, <1>5, <1>8 DEF Blocks, Overlap

LEMMA PublishReadKeeps ==
    ASSUME IInv, ReadInv, ~StaleReads, NEW c \in Clients, PublishRead(c)
    PROVE  ReadInv'
  <1>1. pc[c] = "read" /\ new[c] = None /\ status[c] = "none"
    BY DEF PublishRead, IInv, ClientsInv, ClientInv
  <1>2. PICK s \in Newest(Of(request[c].card)) :
            \/ s.revision # request[c].expected /\ Refuse(c, "stale")
            \/ Refuse(c, "invalid")
            \/ /\ s.revision = request[c].expected
               /\ pc' = [pc EXCEPT ![c] = "scan"]
               /\ current' = [current EXCEPT ![c] = s]
               /\ todo' = [todo EXCEPT ![c] = Cards \ {request[c].card}]
               /\ UNCHANGED <<snapshots, request, new, status, returned, begun>>
    BY DEF PublishRead, Read
  <1>3. CASE s.revision # request[c].expected /\ Refuse(c, "stale")
    BY <1>1, <1>3, RefusesStale
  <1>4. CASE Refuse(c, "invalid")
    BY <1>4, Refuses
  <1>5. CASE /\ s.revision = request[c].expected
             /\ pc' = [pc EXCEPT ![c] = "scan"]
             /\ current' = [current EXCEPT ![c] = s]
             /\ todo' = [todo EXCEPT ![c] = Cards \ {request[c].card}]
             /\ UNCHANGED <<snapshots, request, new, status, returned, begun>>
    <2>1. pc'[c] = "scan" /\ current'[c] = s /\ todo'[c] = Others(c)
      BY <1>5 DEF IInv, TypeOK, Others
    <2>2. s \in Of(request[c].card)
      BY DEF Newest
    <2>3. begun[c] \subseteq snapshots
      BY DEF ReadInv
    <2>4. Overtaken(c)'
      BY <1>1, <1>5 DEF Overtaken
    <2>5. Publishing(c)'
      BY <1>1, <1>5, <2>1, <2>2 DEF Publishing, Clear, Others, Calling, Of
    <2>6. ASSUME NEW d \in Clients, d # c
          PROVE  (begun[d] \subseteq snapshots /\ Overtaken(d) /\ Publishing(d))'
      BY <1>5, <2>6, Waits DEF IInv, TypeOK
    <2> QED  BY <1>5, <2>3, <2>4, <2>5, <2>6 DEF ReadInv
  <1> QED  BY <1>2, <1>3, <1>4, <1>5

LEMMA PublishScanKeeps ==
    ASSUME IInv, ReadInv, ~StaleReads, NEW c \in Clients, PublishScan(c)
    PROVE  ReadInv'
  <1>0. pc[c] = "scan" /\ status[c] = "none"
    BY DEF PublishScan, IInv, ClientsInv, ClientInv
  <1>1. CASE Refuse(c, "overlap")
    BY <1>1, Refuses
  <1>2. CASE ~Refuse(c, "overlap")
    <2>1. PICK other \in todo[c] :
             /\ LET seen == Listed(other, current[c].pricing.key)
                IN  seen = {} \/ \E t \in seen : ~Blocks(current[c], t)
             /\ todo' = [todo EXCEPT ![c] = todo[c] \ {other}]
             /\ UNCHANGED <<snapshots, pc, request, current, new, status, returned, begun>>
      BY <1>2 DEF PublishScan, MayMiss
    <2>2. Clear(c, {other}, current[c].pricing)
      BY <2>1, ScanClears
    <2>3. todo'[c] = todo[c] \ {other}
      BY <2>1 DEF IInv, TypeOK
    <2>4. begun[c] \subseteq snapshots /\ Settled(c)' \subseteq Settled(c)
      BY <2>1, SettledShrinks DEF ReadInv
    <2>5. Publishing(c)'
      BY <1>0, <2>1, <2>2, <2>3, <2>4 DEF ReadInv, Publishing, Clear, Others, Calling, Of
    <2>6. Overtaken(c)'
      BY <1>0, <2>1 DEF Overtaken
    <2>7. ASSUME NEW d \in Clients, d # c
          PROVE  (begun[d] \subseteq snapshots /\ Overtaken(d) /\ Publishing(d))'
      BY <2>1, <2>7, Waits DEF IInv, TypeOK
    <2> QED  BY <2>1, <2>4, <2>5, <2>6, <2>7 DEF ReadInv
  <1> QED  BY <1>1, <1>2

\* The second read of publish finds the snapshot the scan was about.
LEMMA TransitionKeeps ==
    ASSUME IInv, ReadInv, ~StaleReads, NEW c \in Clients, Transition(c)
    PROVE  ReadInv'
  <1> DEFINE q == request[c]
             to == Target[q.op]
  <1>1. /\ pc[c] \in {"read", "scan"} /\ new[c] = None
        /\ pc[c] = "read" => q.op # "publish"
        /\ pc[c] = "scan" => todo[c] = {}
    BY DEF Transition, IInv, ClientsInv, ClientInv
  <1>2. PICK s \in Newest(Of(q.card)) :
            \/ s.revision # q.expected /\ Refuse(c, "stale")
            \/ Refuse(c, "invalid")
            \/ s.revision = q.expected /\ Propose(c, Transitioned(s, to, q.at))
    BY DEF Transition, Read
  <1>3. CASE s.revision # q.expected /\ Refuse(c, "stale")
    BY <1>1, <1>3, RefusesStale
  <1>4. CASE Refuse(c, "invalid")
    BY <1>4, Refuses
  <1>5. CASE s.revision = q.expected /\ Propose(c, Transitioned(s, to, q.at))
    <2>1. Transitioned(s, to, q.at).pricing = s.pricing
      BY DEF Transitioned
    <2>2. ASSUME q.op = "publish"
          PROVE  Clear(c, Others(c), s.pricing)
      <3>1. /\ current[c] \in Of(q.card) /\ current[c].revision = q.expected
            /\ Clear(c, Others(c), current[c].pricing)
        BY <1>1, <2>2 DEF ReadInv, Publishing, Clear
      <3>2. s \in Of(q.card)
        BY DEF Newest
      <3>3. current[c] = s
        BY <1>5, <3>1, <3>2 DEF IInv, StoreInv, OneSnapshotPerRevision, Of
      <3> QED  BY <3>1, <3>3
    <2> QED  BY <1>1, <1>5, <2>1, <2>2, Proposes
  <1> QED  BY <1>2, <1>3, <1>4, <1>5

\* A put that conflicts met a snapshot that someone else stored.
LEMMA ResolveKeeps ==
    ASSUME IInv, ReadInv, NEW c \in Clients, ResolveConflict(c)
    PROVE  ReadInv'
  <1>1. pc[c] = "conflict" /\ UNCHANGED snapshots /\ AsAsked(request[c], new[c])
    BY DEF ResolveConflict, IInv, ClientsInv, ClientInv, Calling
  <1>2. ASSUME NEW s \in At(new[c].card, new[c].revision), s = new[c], Reply(c, "ok", s)
        PROVE  ReadInv'
    <2>1. request[c].op = "publish" => Clear(c, Others(c), s.pricing)
      BY <1>1, <1>2 DEF ReadInv, Publishing, Calling
    <2> QED  BY <1>1, <1>2, <2>1, Replies
  <1>3. ASSUME NEW s \in At(new[c].card, new[c].revision), s # new[c],
               request[c].op # "create", Reply(c, "stale", None)
        PROVE  ReadInv'
    <2>1. s \in Of(request[c].card) /\ s.revision = request[c].expected + 1
      BY <1>1, <1>3 DEF AsAsked, At
    <2>2. request[c].expected \in Nat
      BY <1>1, RequestAssumption DEF IInv, TypeOK, Request
    <2>3. HeldNewest(c) => s \notin begun[c]
      BY <2>1, <2>2 DEF HeldNewest, Of
    <2> QED  BY <1>1, <1>3, <2>1, <2>3, Replies
  <1>4. ASSUME NEW how \in {"conflict", "missing"}, Reply(c, how, None)
        PROVE  ReadInv'
    BY <1>1, <1>4, Replies
  <1> QED  BY <1>2, <1>3, <1>4 DEF ResolveConflict, SameFingerprint

LEMMA ReadInvInit == Init => ReadInv
  <1> SUFFICES ASSUME Init PROVE ReadInv
    OBVIOUS
  <1> QED  BY DEF Init, CallersIdle, ReadInv, Overtaken, Publishing, Calling

LEMMA ReadInvStep ==
    ASSUME IInv, IInv', ReadInv, ~StaleReads, [Next]_vars
    PROVE  ReadInv'
  <1>0. snapshots \subseteq snapshots'
    BY NextStores, StoreStepKeeps
  <1>1. CASE UNCHANGED vars
    BY <1>1, Waits DEF vars, ReadInv
  <1>2. ASSUME NEW c \in Clients, NEW q \in Requests, Begin(c, q)
        PROVE  ReadInv'
    <2>1. pc'[c] = "read" /\ status'[c] = "none" /\ begun'[c] = snapshots /\ snapshots' = snapshots
      BY <1>2 DEF Begin, IInv, TypeOK
    <2>2. Overtaken(c)' /\ Publishing(c)'
      BY <2>1 DEF Overtaken, Publishing, Calling
    <2>3. ASSUME NEW d \in Clients, d # c
          PROVE  (begun[d] \subseteq snapshots /\ Overtaken(d) /\ Publishing(d))'
      BY <1>2, <2>3, Waits DEF Begin, IInv, TypeOK
    <2> QED  BY <2>1, <2>2, <2>3 DEF ReadInv
  <1>3. ASSUME NEW c \in Clients, Create(c)
        PROVE  ReadInv'
    <2>1. request[c].op # "publish" /\ pc[c] # "idle"
      BY <1>3 DEF Create
    <2>2. CASE Refuse(c, "invalid") \/ Refuse(c, "conflict")
      BY <2>2, Refuses
    <2>3. ASSUME NEW s, Reply(c, "ok", s) /\ UNCHANGED snapshots
          PROVE  ReadInv'
      BY <2>1, <2>3, Replies
    <2>4. ASSUME NEW s, Propose(c, s)
          PROVE  ReadInv'
      BY <2>1, <2>4, Proposes
    <2> QED  BY <1>3, <2>2, <2>3, <2>4 DEF Create
  <1>4. ASSUME NEW c \in Clients, ReplaceDraft(c)
        PROVE  ReadInv'
    <2>1. pc[c] = "read" /\ request[c].op # "publish" /\ new[c] = None
      BY <1>4 DEF ReplaceDraft, IInv, ClientsInv, ClientInv
    <2>2. PICK s \in Newest(Of(request[c].card)) :
              \/ s.revision # request[c].expected /\ Refuse(c, "stale")
              \/ Refuse(c, "invalid") \/ Propose(c, Offered(request[c]))
      BY <1>4 DEF ReplaceDraft, Read
    <2> QED  BY <2>1, <2>2, RefusesStale, Refuses, Proposes
  <1>5. ASSUME NEW c \in Clients, Missing(c) \/ Fail(c)
        PROVE  ReadInv'
    BY <1>5, Refuses DEF Missing, Fail
  <1>6. ASSUME NEW c \in Clients, NEW how \in {"ok", "failed"}, NEW r,
               pc[c] = "put", r = new[c] \/ how = "failed", Reply(c, how, r)
        PROVE  ReadInv'
    <2>1. request[c].op = "publish" => Clear(c, Others(c), new[c].pricing)
      BY <1>6 DEF ReadInv, Publishing, Calling
    <2> QED  BY <1>0, <1>6, <2>1, Replies
  <1>7. ASSUME NEW c \in Clients, PutRepeated(c) \/ PutConflict(c)
        PROVE  ReadInv'
    <2>1. /\ pc[c] = "put" /\ pc' = [pc EXCEPT ![c] = "conflict"]
          /\ UNCHANGED <<request, current, todo, new, status, returned, begun>>
      BY <1>7 DEF PutRepeated, PutConflict
    <2>2. pc'[c] = "conflict" /\ status[c] = "none"
      BY <2>1 DEF IInv, TypeOK, ClientsInv, ClientInv
    <2>3. begun[c] \subseteq snapshots /\ Settled(c)' \subseteq Settled(c)
      BY <1>0, <2>1, SettledShrinks DEF ReadInv
    <2>4. Overtaken(c)' /\ Publishing(c)'
      BY <2>1, <2>2, <2>3 DEF ReadInv, Overtaken, Publishing, Clear, Others, Calling
    <2>5. ASSUME NEW d \in Clients, d # c
          PROVE  (begun[d] \subseteq snapshots /\ Overtaken(d) /\ Publishing(d))'
      BY <1>0, <2>1, <2>5, Waits DEF IInv, TypeOK
    <2> QED  BY <1>0, <2>1, <2>3, <2>4, <2>5 DEF ReadInv
  <1>8. ASSUME NEW c \in Clients, Step(c)
        PROVE  ReadInv'
    <2>1. CASE Create(c) \/ ReplaceDraft(c) \/ Missing(c) \/ Fail(c)
      BY <2>1, <1>3, <1>4, <1>5
    <2>2. CASE PublishRead(c) \/ PublishScan(c) \/ Transition(c)
      BY <2>2, PublishReadKeeps, PublishScanKeeps, TransitionKeeps
    <2>3. CASE PutStored(c)
      BY <2>3, <1>6 DEF PutStored
    <2>4. CASE PutUnanswered(c)
      BY <2>4, <1>6 DEF PutUnanswered
    <2>5. CASE PutRepeated(c) \/ PutConflict(c)
      BY <2>5, <1>7
    <2>6. CASE ResolveConflict(c)
      BY <2>6, ResolveKeeps
    <2> QED  BY <1>8, <2>1, <2>2, <2>3, <2>4, <2>5, <2>6 DEF Step
  <1> QED  BY <1>1, <1>2, <1>8 DEF Next

-----------------------------------------------------------------------------
(* The theorems.                                                            *)

THEOREM ReadInvariance == ~StaleReads => (Spec => []ReadInv)
  <1> SUFFICES ASSUME ~StaleReads
               PROVE  Spec => []ReadInv
    OBVIOUS
  <1>1. IInv /\ IInv' /\ ReadInv /\ [Next]_vars => ReadInv'
    BY ReadInvStep
  <1> QED  BY ReadInvInit, <1>1, Invariance, PTL DEF Spec

\* While reads are current, a caller that acted on the newest revision is told
\* stale only if another change to the card was stored meanwhile, so that
\* of the callers of one card someone always gets on.
THEOREM StaleIsProgress == ~StaleReads => (Spec => []StaleMeansProgress)
  <1> SUFFICES ASSUME ~StaleReads
               PROVE  Spec => []StaleMeansProgress
    OBVIOUS
  <1>1. ReadInv => StaleMeansProgress
    BY DEF ReadInv, Overtaken, StaleMeansProgress
  <1>2. ~StaleReads
    OBVIOUS
  <1>3. Spec => []ReadInv
    BY <1>2, ReadInvariance
  <1> QED  BY <1>1, <1>3, PTL

\* While reads are current, no publication overlaps one that was there before
\* the call began and still is, whatever is stored between the pages of the
\* scan and between the scan and the put.
THEOREM PublicationsRespectSettled == ~StaleReads => (Spec => []SettledPublicationsRespected)
  <1> SUFFICES ASSUME ~StaleReads
               PROVE  Spec => []SettledPublicationsRespected
    OBVIOUS
  <1>1. IInv /\ ReadInv => SettledPublicationsRespected
    <2> SUFFICES ASSUME IInv, ReadInv, NEW c \in Clients, status[c] = "ok",
                        request[c].op = "publish", NEW t \in PublishedNow \cap begun[c],
                        t.card # request[c].card
                 PROVE  ~Overlap(t.pricing, returned[c].pricing)
      BY DEF SettledPublicationsRespected
    <2>1. t.card \in Cards
      BY DEF PublishedNow, IInv, TypeOK, Snapshot, Rows
    <2> QED  BY <2>1 DEF ReadInv, Publishing, Clear, Settled, Others
  <1>2. ~StaleReads
    OBVIOUS
  <1>3. Spec => []ReadInv
    BY <1>2, ReadInvariance
  <1> QED  BY <1>1, <1>3, Invariance, PTL
=============================================================================
