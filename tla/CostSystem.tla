------------------------------ MODULE CostSystem ------------------------------
(***************************************************************************)
(* CostCalculator.calculate in its surroundings.  Rate cards move through  *)
(* their lifecycle and Usage appends revisions of its aggregates while     *)
(* callers read a card, page through the usage of one closed window and    *)
(* store a calculation.  The rate-card store is the register CardLifecycle *)
(* that RateCards implements, and the calculator from find_calculation on  *)
(* is Calculations.                                                        *)
(***************************************************************************)
EXTENDS Integers, FiniteSets

CONSTANTS
    Clients, Cards, Pricings, Times, Allocations, Keys, Instants, Boundary, None,
    Aggregates,  \* the aggregates of the meter in the scope and the window
    Closed,      \* Closed[a]: the first revision of a whose watermark is not
                 \*   before the end of the window
    Matching,    \* Matching[p]: the aggregates with the dimensions p prices
    Covering,    \* the pricings whose effective interval covers the window
    Asks,        \* the calculations a client may ask for
    MaxDraftRevision, MaxUsageRevision, MaxFaults  \* bounds of what happens around the calls

ASSUME BoundsAssumption == {MaxDraftRevision, MaxUsageRevision, MaxFaults} \subseteq Nat
ASSUME AggregatesAssumption ==
    /\ Closed \in [Aggregates -> Nat]
    /\ Matching \in [Pricings -> SUBSET Aggregates] /\ Covering \subseteq Pricings

\* card and pricing are those of the RateCardRef the caller holds.
Ask == [card : Cards, pricing : Pricings, allocation : Allocations, at : Instants]

ASSUME AskAssumption == Asks \subseteq Ask

\* What the calculation identity covers besides the allocation: the card with
\* its pricing, and the revision of every aggregate that is priced.
Usages == UNION {[A -> 1 .. MaxUsageRevision] : A \in (SUBSET Aggregates) \ {{}}}
Input == [card : Cards, pricing : Pricings, usage : Usages]

VARIABLES
    cards,    \* the newest snapshot of each rate card
    usage,    \* the number of revisions of each aggregate, 0 for none
    stage,    \* where each client is before its calculation has an input
    ask,      \* what it asked for
    fetched,  \* the newest revisions among the usage rows it has read
    known,    \* history: the usage, and whether its card was retired, as it asked
    faults,   \* failures so far
    db, open, pc, request, calc, rows, todo, status, begun

calculating == <<db, open, pc, request, calc, rows, todo, status, begun>>
reading == <<stage, ask, fetched, known>>
environment == <<cards, usage>>
vars == <<cards, usage, stage, ask, fetched, known, faults,
          db, open, pc, request, calc, rows, todo, status, begun>>

Register == INSTANCE CardLifecycle WITH newest <- cards
Calls == INSTANCE Calculations WITH
    Inputs <- Input, StaleReads <- FALSE,
    Requests <- [input : Input, allocation : Allocations, at : Instants]

Snapshot == [card : Cards, revision : Nat \ {0},
             state : {"draft", "validated", "published", "retired"},
             pricing : Pricings, publishedAt : Times \cup {0}]

ASSUME NoneAssumption ==
    None \notin Snapshot /\ None \notin Calls!Calculation /\ None \notin Calls!Request
ASSUME KeysAssumption == Keys \in [Allocations -> (SUBSET Nat) \ {{}}]
ASSUME BoundaryAssumption == Boundary \in {"none", "repository", "host"}

-----------------------------------------------------------------------------
(* The environment.                                                        *)

Init ==
    /\ Register!Init /\ Calls!Init
    /\ usage = [a \in Aggregates |-> 0]
    /\ stage = [c \in Clients |-> "idle"]
    /\ ask = [c \in Clients |-> None]
    /\ fetched = [c \in Clients |-> <<>>]
    /\ known = [c \in Clients |-> None]
    /\ faults = 0

\* Some call on a rate card takes effect.
MoveCard ==
    /\ Register!Next
    /\ \A card \in Cards :
          cards'[card] # None /\ cards'[card].state = "draft" =>
              cards'[card].revision =< MaxDraftRevision
    /\ UNCHANGED <<usage, faults>> /\ UNCHANGED reading /\ UNCHANGED calculating

\* Usage stores the next revision of an aggregate.
AppendUsage(a) ==
    /\ usage[a] < MaxUsageRevision
    /\ usage' = [usage EXCEPT ![a] = usage[a] + 1]
    /\ UNCHANGED <<cards, faults>> /\ UNCHANGED reading /\ UNCHANGED calculating

-----------------------------------------------------------------------------
(* A call until its usage is read.                                         *)

\* The call of c ends, with a result or with an error of any kind.
Rest(c) ==
    /\ stage' = [stage EXCEPT ![c] = "idle"]
    /\ ask' = [ask EXCEPT ![c] = None]
    /\ fetched' = [fetched EXCEPT ![c] = <<>>]
    /\ known' = [known EXCEPT ![c] = None]

Call(c, q) ==
    /\ stage[c] = "idle"
    /\ stage' = [stage EXCEPT ![c] = "card"]
    /\ ask' = [ask EXCEPT ![c] = q]
    /\ known' = [known EXCEPT ![c] =
           [usage |-> usage,
            retired |-> cards[q.card] # None /\ cards[q.card].state = "retired"]]
    /\ UNCHANGED <<fetched, faults, environment, calculating>>

\* What _card asks of the newest snapshot of the card it reads.
PricesUnpublished(s, q) ==
    s # None /\ s.pricing = q.pricing /\ s.pricing \in Covering
PricesRetired(s, q) ==
    /\ s # None /\ s.pricing = q.pricing
    /\ s.state \in {"published", "retired"}
    /\ s.pricing \in Covering
Prices(s, q) ==
    /\ s # None /\ s.pricing = q.pricing
    /\ s.state = "published"
    /\ s.pricing \in Covering

\* MissingRateCard, or InvalidCost, unless it does.
ReadCard(c) ==
    /\ stage[c] = "card"
    /\ IF Prices(cards[ask[c].card], ask[c])
       THEN stage' = [stage EXCEPT ![c] = "usage"] /\ UNCHANGED <<ask, fetched, known>>
       ELSE Rest(c)
    /\ UNCHANGED <<faults, environment, calculating>>

\* Of the rows of an aggregate fetch keeps the newest revision; 0 if none.
OldestRow(revisions) ==
    IF revisions = {} THEN 0 ELSE CHOOSE r \in revisions : \A s \in revisions : r =< s
NewestRow(revisions) ==
    IF revisions = {} THEN 0 ELSE CHOOSE r \in revisions : \A s \in revisions : s =< r

\* The aggregates a card prices, of those that have rows.
Selected(q, rowsOf) ==
    [a \in {a \in Matching[q.pricing] : rowsOf[a] > 0} |-> rowsOf[a]]

\* UsageInputV1: at least one aggregate, and none of a window still open.
Accepts(u) == DOMAIN u # {} /\ \A a \in DOMAIN u : Closed[a] =< u[a]

\* One page of the aggregates, as it is when it is read.  After the last page
\* the input is complete and calculate goes on to find_calculation.
FetchPage(c) ==
    /\ stage[c] = "usage"
    /\ \E a \in Aggregates \ DOMAIN fetched[c] :
         LET q == ask[c]
             seen == [b \in DOMAIN fetched[c] \cup {a} |->
                        IF b = a THEN NewestRow(1 .. usage[a]) ELSE fetched[c][b]]
             used == Selected(q, seen)
         IN  IF DOMAIN seen # Aggregates
             THEN /\ fetched' = [fetched EXCEPT ![c] = seen]
                  /\ UNCHANGED <<stage, ask, known, calculating>>
             ELSE IF ~Accepts(used) THEN Rest(c) /\ UNCHANGED calculating
             ELSE /\ stage' = [stage EXCEPT ![c] = "priced"]
                  /\ fetched' = [fetched EXCEPT ![c] = <<>>]
                  /\ UNCHANGED <<ask, known>>
                  /\ Calls!Begin(c, [input |-> [card |-> q.card, pricing |-> q.pricing,
                                                usage |-> used],
                                     allocation |-> q.allocation, at |-> q.at])
    /\ UNCHANGED <<faults, environment>>

\* An executor call fails or the process stops, before or after the input.
Fail(c) ==
    /\ faults < MaxFaults /\ faults' = faults + 1
    /\ stage[c] # "idle" /\ Rest(c)
    /\ IF stage[c] = "priced" THEN Calls!Fail(c) ELSE UNCHANGED calculating
    /\ UNCHANGED environment

Calculate(c) ==
    /\ Calls!Step(c)
    /\ IF pc'[c] = "idle" THEN Rest(c) ELSE UNCHANGED reading
    /\ UNCHANGED <<faults, environment>>

Step(c) == ReadCard(c) \/ FetchPage(c) \/ Calculate(c)

Next ==
    \/ MoveCard
    \/ \E a \in Aggregates : AppendUsage(a)
    \/ \E c \in Clients : Step(c) \/ Fail(c) \/ \E q \in Asks : Call(c, q)

Spec == Init /\ [][Next]_vars

\* Calls that can go on do, and what may be asked is asked again and again.
\* Cards and usage need not move, and no call need fail.
FairSpec ==
    /\ Spec
    /\ \A c \in Clients : SF_vars(Step(c))
    /\ \A q \in Asks : SF_vars(\E c \in Clients : Call(c, q))
-----------------------------------------------------------------------------
(* What the system promises.                                               *)

\* However cards move while calculations run, every stored calculation used a
\* card that had been published, with the pricing it was published with, for
\* an interval that covers the window (calculation.md:14-15).
PricedAsPublished ==
    \A k \in db["calculations"] :
        LET s == cards[k.input.card]
        IN  /\ s # None /\ s.state \in {"published", "retired"}
            /\ s.pricing = k.input.pricing /\ s.pricing \in Covering

\* Once a card is retired no later call is answered with it, a stored
\* calculation included: only calls begun before still are.
RetiredCardsPriceNothing ==
    \A c \in Clients : stage[c] = "priced" => ~known[c].retired

\* Each aggregate is priced at a revision not older than the newest one when
\* the caller asked, at one that exists, and at a closed one, although its
\* pages are read at different times (calculation.md:4-7).
UsageNotOlderThanAsked ==
    \A c \in Clients : stage[c] = "priced" =>
        LET used == request[c].input.usage
        IN  /\ \A a \in Matching[ask[c].pricing] : known[c].usage[a] > 0 => a \in DOMAIN used
            /\ \A a \in DOMAIN used : /\ used[a] \in known[c].usage[a] .. usage[a]
                                      /\ Closed[a] =< used[a]

Current(q) == Selected(q, usage)

Stored(q) ==
    \E k \in db["calculations"] :
        /\ k.allocation = q.allocation
        /\ k.input = [card |-> q.card, pricing |-> q.pricing, usage |-> Current(q)]
        /\ k.revision \in db["audit"] \cap db["lineage"]

\* While a published card and closed usage stay as they are, asking again ends
\* with the calculation of just that usage and its evidence stored, whatever
\* failed before and whichever corrections were priced on the way.
CurrentUsageSettles ==
    \A q \in Asks : []<>(Prices(cards[q.card], q) /\ Accepts(Current(q)) => Stored(q))
=============================================================================
