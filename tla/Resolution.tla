------------------------------ MODULE Resolution ------------------------------
(***************************************************************************)
(* resolve_rate_card while rate cards move through their lifecycle: the    *)
(* one published card that covers a window and has the dimensions asked    *)
(* for.  The store is the register that RateCards implements.  The cards   *)
(* are those of one provider, product and meter version; their pricing     *)
(* keys differ in the matching dimensions.                                 *)
(***************************************************************************)
EXTENDS Integers, FiniteSets

CONSTANTS
    Cards, Times, None,
    Pricings,          \* [key, from, until] of a card, as in RateCards
    Resolvers,         \* callers of resolve_rate_card
    Queries,           \* [keys, from, until]: the keys that match the
                       \*   dimensions asked for, and the window
    MaxDraftRevision   \* bound on draft replacements

ASSUME PricingAssumption == \A p \in Pricings : p.from \in Int /\ p.until \in Int
ASSUME QueryAssumption == \A q \in Queries : q.from \in Int /\ q.until \in Int
ASSUME NoneAssumption == None \notin Queries

VARIABLES
    cards,   \* the newest snapshot of each card
    query,   \* what each resolver asks while it reads
    unread,  \* the cards it has yet to read
    found,   \* the candidates among the cards it has read; then what it returned
    answer,  \* "reading", or how its last call ended
    ever,    \* history: the snapshots published at some time of its call
    always   \* history: those published throughout

resolving == <<query, unread, found, answer>>
vars == <<cards, query, unread, found, answer, ever, always>>

Register == INSTANCE CardLifecycle WITH newest <- cards

-----------------------------------------------------------------------------
\* What list_rate_cards keeps of the snapshots it reads: the newest of a card,
\* if it is published.
Listed(card) == {s \in {cards[card]} : s # None /\ s.state = "published"}
PublishedNow == UNION {Listed(card) : card \in Cards}

CoversStart(q, s) == s.pricing.from =< q.from /\ q.from < s.pricing.until
Covers(q, s) == s.pricing.from =< q.from /\ q.until =< s.pricing.until
Matches(q, s) == s.pricing.key \in q.keys
Candidates(q, S) == {s \in S : Covers(q, s) /\ Matches(q, s)}

\* MissingRateCard, the card, or InvalidCost.
Conclusion(S) ==
    IF S = {} THEN "missing"
    ELSE IF \E s \in S : S = {s} THEN "ok" ELSE "ambiguous"

-----------------------------------------------------------------------------
Init ==
    /\ Register!Init
    /\ query = [r \in Resolvers |-> None]
    /\ unread = [r \in Resolvers |-> {}]
    /\ found = [r \in Resolvers |-> {}]
    /\ answer = [r \in Resolvers |-> "none"]
    /\ ever = [r \in Resolvers |-> {}]
    /\ always = [r \in Resolvers |-> {}]

Resolve(r, q) ==
    /\ answer[r] # "reading"
    /\ answer' = [answer EXCEPT ![r] = "reading"]
    /\ query' = [query EXCEPT ![r] = q]
    /\ unread' = [unread EXCEPT ![r] = Cards]
    /\ found' = [found EXCEPT ![r] = {}]
    /\ ever' = [ever EXCEPT ![r] = PublishedNow]
    /\ always' = [always EXCEPT ![r] = PublishedNow]
    /\ UNCHANGED cards

\* The call of r returns the only card of S, or raises an error.
Answer(r, how, S) ==
    /\ answer' = [answer EXCEPT ![r] = how]
    /\ found' = [found EXCEPT ![r] = IF how = "ok" THEN S ELSE {}]
    /\ query' = [query EXCEPT ![r] = None]
    /\ unread' = [unread EXCEPT ![r] = {}]
    /\ ever' = [ever EXCEPT ![r] = {}]
    /\ always' = [always EXCEPT ![r] = {}]

\* The scan reads page after page, so cards at different times.
ReadFirstPage(r) ==
    /\ answer[r] = "reading"
    /\ \E card \in unread[r] :
         LET now == Candidates(query[r], Listed(card)) IN Answer(r, Conclusion(now), now)
    /\ UNCHANGED cards
ReadPage(r) ==
    /\ answer[r] = "reading"
    /\ \E card \in unread[r] :
         LET now == found[r] \cup Candidates(query[r], Listed(card))
         IN  IF unread[r] = {card} THEN Answer(r, Conclusion(now), now)
             ELSE /\ found' = [found EXCEPT ![r] = now]
                  /\ unread' = [unread EXCEPT ![r] = unread[r] \ {card}]
                  /\ UNCHANGED <<query, answer, ever, always>>
    /\ UNCHANGED cards

\* A page cannot be read, or the process stops.
Fail(r) == answer[r] = "reading" /\ Answer(r, "failed", {}) /\ UNCHANGED cards

\* Some call on a card takes effect.
MoveCard ==
    /\ Register!Next
    /\ \A card \in Cards :
          cards'[card] # None /\ cards'[card].state = "draft" =>
              cards'[card].revision =< MaxDraftRevision
    /\ ever' = [r \in Resolvers |->
           IF answer[r] = "reading" THEN ever[r] \cup PublishedNow' ELSE ever[r]]
    /\ always' = [r \in Resolvers |->
           IF answer[r] = "reading" THEN always[r] \cap PublishedNow' ELSE always[r]]
    /\ UNCHANGED resolving

Next ==
    \/ MoveCard
    \/ \E r \in Resolvers : ReadPage(r) \/ Fail(r) \/ \E q \in Queries : Resolve(r, q)

Spec == Init /\ [][Next]_vars
-----------------------------------------------------------------------------
Ends(r, how) == answer[r] = "reading" /\ answer'[r] = how

\* The card that is returned was published at some moment of the call, for the
\* whole window and with matching dimensions, although it was read at one
\* moment and returned at another (repository.py:416-427).
ResolvedWasPublished ==
    [][\A r \in Resolvers : Ends(r, "ok") =>
          \E s \in ever[r] : /\ found'[r] = {s} /\ s.pricing.key \in query[r].keys
                             /\ s.pricing.from =< query[r].from
                             /\ query[r].until =< s.pricing.until]_vars

\* Whatever is published and retired meanwhile, a card that could be resolved
\* throughout the call is: no resolver misses it or returns another, and one
\* that is told of two has seen two (rate-cards.md:24-25).
SettledCardsResolved ==
    [][\A r \in Resolvers :
          LET settled == {s \in always[r] : Covers(query[r], s) /\ Matches(query[r], s)}
          IN  /\ Ends(r, "missing") => settled = {}
              /\ Ends(r, "ok") => settled \subseteq found'[r]
              /\ Ends(r, "ambiguous") => \E s, t \in ever[r] : s.card # t.card]_vars
=============================================================================
