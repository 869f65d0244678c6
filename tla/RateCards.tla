------------------------------ MODULE RateCards ------------------------------
(***************************************************************************)
(* The rate-card half of CostRepository: an append-only store of immutable *)
(* lifecycle snapshots, and clients that create, replace, validate,        *)
(* publish and retire (delete is retire) cards through it.  Every call is  *)
(* split at its calls to the Meridian executor, so the calls of several    *)
(* clients interleave between a read and the put that relies on it.        *)
(***************************************************************************)
EXTENDS Integers, FiniteSets

CONSTANTS
    Clients,     \* callers of the repository
    Cards,       \* rate-card identities, rateCardId@version
    Pricings,    \* what a card charges: [key, from, until, terms]
    Times,       \* instants a call may carry as `now`
    Requests,    \* the calls a client may make
    StaleReads,  \* TRUE: a read may miss the newest snapshots of a card
    None

States == {"draft", "validated", "published", "retired"}
Ops == {"create", "replace", "validate", "publish", "retire"}

Rows == [card : Cards, revision : Nat \ {0}, state : States,
         pricing : Pricings, publishedAt : Times \cup {0}]

\* A card carries publishedAt, here not 0, from its publication on.
Snapshot == {s \in Rows : s.publishedAt = 0 <=> s.state \in {"draft", "validated"}}

\* card and expected name the snapshot the caller acts on; pricing, revision
\* and state are those of the card handed to create and replace, at is `now`.
Request == [op : Ops, card : Cards, expected : Nat, pricing : Pricings,
            revision : Nat \ {0}, state : States, at : Times]

ASSUME PricingAssumption ==
    \A p \in Pricings : p.from \in Int /\ p.until \in Int /\ p.from < p.until
ASSUME TimeAssumption == Times \subseteq Nat \ {0}
ASSUME RequestAssumption == Requests \subseteq Request
ASSUME ReadAssumption == StaleReads \in BOOLEAN
ASSUME NoneAssumption == None \notin Snapshot /\ None \notin Request

VARIABLES
    snapshots,  \* the rows of structured:cost.rate-cards
    pc,         \* where each client is in its call
    request,    \* the call it is making or last made
    current,    \* the snapshot publish read first
    todo,       \* the cards the overlap scan of publish has yet to read
    new,        \* the snapshot it is appending
    status,     \* how its last call ended
    returned,   \* the card its last call returned
    begun       \* history: the store as its call found it

vars == <<snapshots, pc, request, current, todo, new, status, returned, begun>>

-----------------------------------------------------------------------------
(* The store.  A put is if_absent on (rateCardId, version, revision).      *)

Of(card) == {s \in snapshots : s.card = card}
At(card, revision) == {s \in Of(card) : s.revision = revision}
Oldest(S) == {s \in S : \A t \in S : s.revision =< t.revision}
Newest(S) == {s \in S : \A t \in S : t.revision =< s.revision}

\* get_rate_card without a revision: the greatest revision among the rows read.
Read(card) == IF StaleReads THEN Of(card) ELSE Newest(Of(card))
MayMiss(S) == S = {} \/ StaleReads

-----------------------------------------------------------------------------
(* Snapshots.                                                              *)

AllowedRetireUnpublished == {<<"draft", "validated">>, <<"validated", "published">>,
                             <<"validated", "retired">>, <<"published", "retired">>}
Allowed == {<<"draft", "validated">>, <<"validated", "published">>,
            <<"published", "retired">>}

Target == [validate |-> "validated", publish |-> "published", retire |-> "retired"]

TransitionedUndated(s, state, at) ==
    [card |-> s.card, revision |-> s.revision + 1, state |-> state,
     pricing |-> s.pricing, publishedAt |-> s.publishedAt]
Transitioned(s, state, at) ==
    [card |-> s.card, revision |-> s.revision + 1, state |-> state, pricing |-> s.pricing,
     publishedAt |-> IF state = "published" THEN at ELSE s.publishedAt]

\* The card handed to create and replace; both refuse one that is not a draft.
Offered(q) == [card |-> q.card, revision |-> q.revision, state |-> q.state,
               pricing |-> q.pricing, publishedAt |-> 0]

\* Fingerprints cover the whole snapshot.
PricingFingerprint(s, t) == s.card = t.card /\ s.pricing = t.pricing
NeverSame(s, t) == FALSE
SameFingerprint(s, t) == s = t

\* What replace_draft asks of the newest snapshot once its revision is right.
ReplacesAnyState(s, q) == q.state = "draft" /\ q.revision = q.expected + 1
MayReplace(s, q) == /\ s.state = "draft" /\ q.state = "draft"
                    /\ q.revision = q.expected + 1

Overlap(p, q) == p.key = q.key /\ p.from < q.until /\ q.from < p.until

-----------------------------------------------------------------------------
CallersIdle ==
    /\ pc = [c \in Clients |-> "idle"]
    /\ request = [c \in Clients |-> None]
    /\ current = [c \in Clients |-> None]
    /\ todo = [c \in Clients |-> {}]
    /\ new = [c \in Clients |-> None]
    /\ status = [c \in Clients |-> "none"]
    /\ returned = [c \in Clients |-> None]
    /\ begun = [c \in Clients |-> {}]

Init == snapshots = {} /\ CallersIdle

Begin(c, q) ==
    /\ pc[c] = "idle"
    /\ pc' = [pc EXCEPT ![c] = "read"]
    /\ request' = [request EXCEPT ![c] = q]
    /\ new' = [new EXCEPT ![c] = None]
    /\ status' = [status EXCEPT ![c] = "none"]
    /\ returned' = [returned EXCEPT ![c] = None]
    /\ begun' = [begun EXCEPT ![c] = snapshots]
    /\ UNCHANGED <<snapshots, current, todo>>

\* The call of c returns card r or raises the error how names.
Reply(c, how, r) ==
    /\ pc' = [pc EXCEPT ![c] = "idle"]
    /\ status' = [status EXCEPT ![c] = how]
    /\ returned' = [returned EXCEPT ![c] = r]
    /\ current' = [current EXCEPT ![c] = None]
    /\ todo' = [todo EXCEPT ![c] = {}]
    /\ UNCHANGED <<request, new, begun>>

\* The call of c goes on to append s.
Propose(c, s) ==
    /\ pc' = [pc EXCEPT ![c] = "put"]
    /\ new' = [new EXCEPT ![c] = s]
    /\ UNCHANGED <<snapshots, request, current, todo, status, returned, begun>>

Refuse(c, how) == Reply(c, how, None) /\ UNCHANGED snapshots

Create(c) ==
    LET q == request[c]
        card == Offered(q)
        existing == At(q.card, 1)
    IN  /\ pc[c] = "read" /\ q.op = "create"
        /\ \/ /\ card.revision # 1 \/ card.state # "draft"
              /\ Refuse(c, "invalid")
           \/ /\ card.revision = 1 /\ card.state = "draft"
              /\ \/ \E s \in existing :
                       IF SameFingerprint(s, card)
                       THEN Reply(c, "ok", s) /\ UNCHANGED snapshots
                       ELSE Refuse(c, "conflict")
                 \/ MayMiss(existing) /\ Propose(c, card)

ReplaceDraft(c) ==
    LET q == request[c]
    IN  /\ pc[c] = "read" /\ q.op = "replace"
        /\ \E s \in Read(q.card) :
              \/ /\ s.revision # q.expected
                 /\ Refuse(c, "stale")
              \/ /\ s.revision = q.expected
                 /\ IF MayReplace(s, q) THEN Propose(c, Offered(q)) ELSE Refuse(c, "invalid")

PublishRead(c) ==
    LET q == request[c]
    IN  /\ pc[c] = "read" /\ q.op = "publish"
        /\ \E s \in Read(q.card) :
              \/ s.revision # q.expected /\ Refuse(c, "stale")
              \/ /\ s.revision = q.expected /\ s.state # "validated"
                 /\ Refuse(c, "invalid")
              \/ /\ s.revision = q.expected /\ s.state = "validated"
                 /\ pc' = [pc EXCEPT ![c] = "scan"]
                 /\ current' = [current EXCEPT ![c] = s]
                 /\ todo' = [todo EXCEPT ![c] = Cards \ {q.card}]
                 /\ UNCHANGED <<snapshots, request, new, status, returned, begun>>

\* list_rate_cards selects the snapshots with the pricing key, keeps the
\* newest of each card, then those published.  Pages are read at different
\* times, so cards are.
Listed(card, key) ==
    LET matching == {s \in Of(card) : s.pricing.key = key}
    IN  IF StaleReads THEN matching ELSE Newest(matching)

BlocksContained(s, t) ==
    /\ t.state = "published" /\ t.pricing.key = s.pricing.key
    /\ t.pricing.from =< s.pricing.from /\ s.pricing.until =< t.pricing.until
Blocks(s, t) == t.state = "published" /\ Overlap(s.pricing, t.pricing)

PublishScan(c) ==
    /\ pc[c] = "scan"
    /\ \E other \in todo[c] :
         LET seen == Listed(other, current[c].pricing.key)
         IN  \/ \E t \in seen : Blocks(current[c], t) /\ Refuse(c, "overlap")
             \/ /\ MayMiss(seen) \/ \E t \in seen : ~Blocks(current[c], t)
                /\ todo' = [todo EXCEPT ![c] = todo[c] \ {other}]
                /\ UNCHANGED <<snapshots, pc, request, current, new, status, returned, begun>>

\* _transition; for publish, its second read, after the scan.
Transition(c) ==
    LET q == request[c]
    IN  /\ \/ pc[c] = "read" /\ q.op \in {"validate", "retire"}
           \/ pc[c] = "scan" /\ todo[c] = {}
        /\ \E s \in Read(q.card) :
              \/ s.revision # q.expected /\ Refuse(c, "stale")
              \/ /\ s.revision = q.expected
                 /\ IF <<s.state, Target[q.op]>> \in Allowed
                    THEN Propose(c, Transitioned(s, Target[q.op], q.at))
                    ELSE Refuse(c, "invalid")

\* A read of an existing card that finds no snapshot raises MissingRateCard.
Missing(c) ==
    /\ \/ pc[c] = "read" /\ request[c].op # "create"
       \/ pc[c] = "scan" /\ todo[c] = {}
    /\ MayMiss(Of(request[c].card))
    /\ Refuse(c, "missing")

-----------------------------------------------------------------------------
(* _append_card: the put, and the read that explains a ConflictError.      *)

PutAppending(c) ==
    /\ pc[c] = "put"
    /\ snapshots' = snapshots \cup {new[c]}
    /\ Reply(c, "ok", new[c])
PutStored(c) ==
    /\ pc[c] = "put" /\ At(new[c].card, new[c].revision) = {}
    /\ snapshots' = snapshots \cup {new[c]}
    /\ Reply(c, "ok", new[c])

\* The executor stores the row and fails before it answers.
PutUnanswered(c) ==
    /\ pc[c] = "put" /\ At(new[c].card, new[c].revision) = {}
    /\ snapshots' = snapshots \cup {new[c]}
    /\ Reply(c, "failed", None)

\* The executor stores the row and repeats the put, which conflicts with it.
PutRepeated(c) ==
    /\ pc[c] = "put" /\ At(new[c].card, new[c].revision) = {}
    /\ snapshots' = snapshots \cup {new[c]}
    /\ pc' = [pc EXCEPT ![c] = "conflict"]
    /\ UNCHANGED <<request, current, todo, new, status, returned, begun>>

PutConflict(c) ==
    /\ pc[c] = "put" /\ At(new[c].card, new[c].revision) # {}
    /\ pc' = [pc EXCEPT ![c] = "conflict"]
    /\ UNCHANGED <<snapshots, request, current, todo, new, status, returned, begun>>

ResolveConflict(c) ==
    LET persisted == At(new[c].card, new[c].revision)
    IN  /\ pc[c] = "conflict"
        /\ \/ \E s \in persisted :
                 IF SameFingerprint(s, new[c]) THEN Reply(c, "ok", s)
                 ELSE Reply(c, IF request[c].op = "create" THEN "conflict" ELSE "stale", None)
           \/ MayMiss(persisted) /\ Reply(c, "missing", None)
        /\ UNCHANGED snapshots

\* A read or a put fails, or the client stops waiting, with nothing stored.
Fail(c) == pc[c] # "idle" /\ Refuse(c, "failed")

Step(c) ==
    \/ Create(c) \/ ReplaceDraft(c) \/ PublishRead(c) \/ PublishScan(c)
    \/ Transition(c) \/ Missing(c)
    \/ PutStored(c) \/ PutUnanswered(c) \/ PutRepeated(c) \/ PutConflict(c)
    \/ ResolveConflict(c) \/ Fail(c)

Next == \E c \in Clients : Step(c) \/ \E q \in Requests : Begin(c, q)

Spec == Init /\ [][Next]_vars
-----------------------------------------------------------------------------
(* What the repository promises.                                           *)

TypeOK ==
    /\ snapshots \subseteq Snapshot
    /\ pc \in [Clients -> {"idle", "read", "scan", "put", "conflict"}]
    /\ request \in [Clients -> Requests \cup {None}]
    /\ current \in [Clients -> Snapshot \cup {None}]
    /\ todo \in [Clients -> SUBSET Cards]
    /\ new \in [Clients -> Snapshot \cup {None}]
    /\ status \in [Clients -> {"none", "ok", "invalid", "stale", "conflict",
                               "missing", "overlap", "failed"}]
    /\ returned \in [Clients -> Snapshot \cup {None}]
    /\ begun \in [Clients -> SUBSET Snapshot]
    /\ \A c \in Clients : /\ pc[c] # "idle" => request[c] # None
                          /\ pc[c] \in {"put", "conflict"} => new[c] # None
                          /\ pc[c] = "scan" => current[c] # None

\* s may be the snapshot after p: a draft with new pricing, or the same
\* pricing in the next state.
Follows(p, s) ==
    /\ p.card = s.card /\ s.revision = p.revision + 1
    /\ \/ p.state = "draft" /\ s.state = "draft"
       \/ p.state = "draft" /\ s.state = "validated" /\ s.pricing = p.pricing
       \/ p.state = "validated" /\ s.state = "published" /\ s.pricing = p.pricing
       \/ /\ p.state = "published" /\ s.state = "retired"
          /\ s.pricing = p.pricing /\ s.publishedAt = p.publishedAt

Starts(s) == s.revision = 1 /\ s.state = "draft"

\* Whatever clients race, and however stale their reads, a card's history is
\* one chain: every snapshot is a first draft or follows a stored snapshot by
\* a draft replacement or a permitted transition (rate-cards.md:11-18).
LifecycleChain == \A s \in snapshots : Starts(s) \/ \E p \in snapshots : Follows(p, s)

\* No two snapshots share a card and a revision, so the newest is unique.
OneSnapshotPerRevision ==
    \A s, t \in snapshots : s.card = t.card /\ s.revision = t.revision => s = t

\* From validation on no later snapshot of the card changes what it charges,
\* and none goes back to draft; publishedAt is fixed by publication.
PricingFrozen ==
    \A s, t \in snapshots :
        s.card = t.card /\ s.revision < t.revision /\ s.state # "draft" =>
            /\ t.pricing = s.pricing
            /\ t.state \notin {"draft", "validated"}
            /\ s.publishedAt # 0 => t.publishedAt = s.publishedAt

\* Two calls that succeed from the same expected revision return the same
\* snapshot: at most one effect of an expected_revision is ever acknowledged.
ExpectedRevisionExclusive ==
    \A c, d \in Clients :
        /\ status[c] = "ok" /\ request[c].op # "create"
        /\ status[d] = "ok" /\ request[d].op # "create"
        /\ request[c].card = request[d].card
        /\ request[c].expected = request[d].expected
        => returned[c] = returned[d]

\* r is an outcome of q: the draft it offers, or the card one revision on in
\* the state it asks for.
AsAsked(q, r) ==
    /\ r.card = q.card
    /\ q.op # "create" => r.revision = q.expected + 1
    /\ IF q.op \in {"create", "replace"} THEN r = Offered(q) ELSE r.state = Target[q.op]

\* A returned card is stored and is an outcome of the caller's own request,
\* also when the put conflicted and the card was read back.
ReturnedAsAsked ==
    \A c \in Clients : status[c] = "ok" =>
        returned[c] \in snapshots /\ AsAsked(request[c], returned[c])

\* A caller told its change is stale or conflicting did not store it, even
\* when the executor repeated the put: the conflict read compares fingerprints.
RefusedNotStored ==
    \A c \in Clients : status[c] \in {"stale", "conflict"} => new[c] \notin snapshots

\* A caller that held the newest revision is told stale only because someone
\* else's change to the card was stored during its call.
StaleMeansProgress ==
    \A c \in Clients :
        /\ status[c] = "stale"
        /\ \E s \in begun[c] : /\ s.card = request[c].card
                                /\ s.revision = request[c].expected
                                /\ \A t \in begun[c] : t.card = s.card => t.revision =< s.revision
        => Of(request[c].card) \ (begun[c] \cup {new[c]}) # {}

PublishedNow == {s \in snapshots : s \in Newest(Of(s.card)) /\ s.state = "published"}

\* A publication never overlaps a card that was published before the call
\* began and still is, although the scan reads the cards at different times.
SettledPublicationsRespected ==
    \A c \in Clients : status[c] = "ok" /\ request[c].op = "publish" =>
        \A t \in PublishedNow \cap begun[c] :
            t.card # request[c].card => ~Overlap(t.pricing, returned[c].pricing)

\* Published cards with the same pricing key never overlap in time, so that a
\* pricing interval resolves to one card (rate-cards.md:22-23).
NoPublishedOverlap ==
    \A s, t \in PublishedNow : s.card # t.card => ~Overlap(s.pricing, t.pricing)

-----------------------------------------------------------------------------
(* The store seen through get_rate_card is the register of CardLifecycle.  *)

NewestOf(card) ==
    IF Of(card) = {} THEN None ELSE CHOOSE s \in Newest(Of(card)) : TRUE

Register == INSTANCE CardLifecycle WITH newest <- [card \in Cards |-> NewestOf(card)]

\* However calls interleave, readers of the newest snapshot of each card see
\* a register that moves only by draft replacements and permitted transitions.
RegisterSpec == Register!Spec
=============================================================================
