# Verification of the Meridian Cost plugin

TLA+ models of the Cost plugin (`src/src/meridian_storage/plugins/cost`), the TLC runs that check
them on small instances, and TLAPS proofs of what the runs check, for every value of the constants:
of the rate-card store, the resolution of cards, calculations and their transactions, the composed
system, pricing, allocation, the records of a price and decimals. Line numbers below are those of
the files in that directory unless a path is given.

## 1. The system

The plugin is a library. A host process gives it a Meridian *executor*; the library sends it
expressions (`get`, `put` with mode `if_absent`, paged `query`, evidence `append`) over five
logical resources and keeps no state of its own between calls. Everything concurrent or fallible
happens between two executor calls: other callers run, the executor refuses, fails, or applies a
write and does not answer, the process stops.

| Component | State | Operations | Meets others through |
|---|---|---|---|
| Rate-card repository (`repository.py` 192-437) | rows of `structured:cost.rate-cards`, one per lifecycle snapshot, never changed | create, replace_draft, validate, publish, retire (delete is retire), get, list, resolve | scans, then one put that is `if_absent` on (id, version, revision) |
| Rate-card snapshot (`models.py` 268-557) | immutable value: state, revision, pricing, published_at | transition, fingerprints | built and compared by the repository |
| Calculator (`calculator.py`) | none | calculate | reads a card and usage, prices, allocates, persists, emits evidence |
| Calculation repository (`repository.py` 439-576) | rows of `cost.calculations` and `cost.records` | find, latest, records, persist | a transaction, if the executor has one, around the record puts and the calculation put |
| Evidence sink (`evidence.py`) | rows of the audit and the lineage resource | emit | two appends after persistence or replay, in the host's transaction if it opened one |
| Allocation (`allocation.py`) | none | AllocationSpecV1, allocate_amount | three amounts are divided per calculation |
| Pricing (`pricing.py`, `models.py` 56-264) | none | calculate_price, RoundingPolicy | |
| Decimals (`_canonical.py` 76-103) | the context of Python's decimal module | decimal_value, fit_decimal | every amount and quantity |
| Cost records (`calculator.py` 197-280, `models.py` 833-910) | rows of `cost.records` | _records, the checks of CostRecordV1 | composes pricing and allocation |
| Usage provider (`usage.py`) | none | fetch, UsageInputV1 | pages over the Usage plugin's aggregates, which grow revisions meanwhile |
| Query builder, schemas, facade, errors | none | | the schemas declare the unique indexes the puts rely on |

What makes each part correct, and what is hard about it:

- **Rate cards.** History of a card is one chain of permitted moves; pricing freezes at validation;
  an `expected_revision` has one effect; answers agree with the store; published cards with one
  pricing key do not overlap; a card that can be resolved throughout a call is. Hard: every call is
  read-then-put, publish reads twice and scans in between, pages are read at different times, and a
  put may be repeated by the executor and conflict with itself.
- **Calculations.** Results are stored whole; a repeated identity replays; a changed one becomes
  the next revision with links to the last; evidence names what is stored. Hard: concurrent calls
  compute one revision; records, calculation, audit and lineage are four kinds of writes with
  failures between them, under three possible transaction boundaries, and pages of a scan may come
  from different times.
- **A calculation in its surroundings.** What is priced was published, with just that pricing; no
  aggregate is older than when the caller asked; what stays as it is gets stored. Hard: the card is
  read first, the usage page after page, and both are moved by others until the calculation is
  stored and after.
- **Money.** Shares add up and are fair; prices stay within their roundings; a price has records,
  none of them refused, while what is divided fits the default context; values stay within
  Decimal(76,18). Hard: boundaries, ties, two rounding stages, adjustments that are differences of
  two divisions, and a context of 28 digits in which shares, too, are added.

`PROJECT.json` lists the hazards line by line with the properties that cover them.

## 2. Modules

| Module | Models | Role |
|---|---|---|
| `RateCards` | rate-card repository, snapshots | state machine of concurrent callers over the store |
| `CardLifecycle` | what a reader of one card is promised | abstract register, refined by `RateCards` |
| `RateCardsProofs` | | theorems about `RateCards` |
| `Resolution` | resolve_rate_card | a scan over the register `CardLifecycle` while it moves |
| `ResolutionProofs` | | theorems about `Resolution` |
| `Calculations` | calculator, calculation repository, evidence sink | state machine of concurrent calculations of one series |
| `CostLedger` | what a reader of a series is promised | abstract ledger, refined by `Calculations` |
| `CalculationsProofs` | | theorems about `Calculations`, whatever encloses its writes, and in transactions, the refinement of `CostLedger` among them |
| `CostSystem` | calculate from the card to the evidence, usage provider | composes `CardLifecycle` and `Calculations` |
| `CostSystemProofs` | | theorems about `CostSystem`; takes over those about `Calculations` |
| `LargestRemainder` | AllocationSpecV1, allocate_amount | operators |
| `LargestRemainderProofs` | | lemmas: sums, orders, rounding to digits, what a division adds up to and how close it is |
| `Allocation` | a caller of both | weights as listed, then amounts divided under them |
| `AllocationProofs` | | theorems about `Allocation` |
| `Pricing` | calculate_price, RoundingPolicy, tiers | a card, then quantities priced under it |
| `CostRecords` | CostCalculator._records, CostRecordV1 | composes `Pricing` and `LargestRemainder` |
| `PricingProofs` | | theorems about `CostRecords`, and so about `Pricing` |
| `Decimals` | decimal_value, fit_decimal, sums, products | values judged and added in a decimal context |
| `DecimalsProofs` | | theorems about `Decimals` |
| `MC*` | | requests, prices, tiers and weights of the small instances |

Definitions named like `Oldest`, `AroundRecords`, `PutAppending` or `ContainsEnd` that stand just
before the definition they vary are not part of the models: they are the mistakes each property is
tried against (`PROJECT.json`, "mutants").

### RateCards and the code

A client is a caller inside one repository method. `pc` says which executor call it makes next:
`read` (the first `get_rate_card`), `scan` (the overlap scan of publish), `put`, `conflict` (the
read after a ConflictError). Each action is the code from one executor call to the next, with every
early return: `Create`, `ReplaceDraft`, `PublishRead`, `PublishScan` (one other card per step, as
pages are read at different times), `Transition` (with publish's second read), `Missing`, the four
outcomes of a put (`PutStored`, `PutConflict`, `PutUnanswered`: stored but the caller gets an error,
`PutRepeated`: stored, repeated by the executor, conflicting with itself), `ResolveConflict`, and
`Fail` (an executor error or a caller that gives up).

Pricing is a record of a key, an interval and opaque terms. The key stands for provider, product,
meter version and matching dimensions. Fingerprints are modelled by what they cover: the snapshot
fingerprint is equality of snapshots. `StaleReads` lets a scan miss rows. It is an
over-approximation: the query sent to the executor (`query.py` 186-194) names no consistency, the
schemas declare `strong` (`schema.py` 62), and the `eventual` of `query.py` 206 is part of a
fingerprint only. What holds with it needs nothing of the executor's scans. With it FALSE a scan of
one card is one atomic read.

### Calculations and the code

One series (one `calculation_id`): the id is part of every key, so series do not meet. An input is
the fingerprint of usage, card pricing, window and calculator version; an allocation is a
specification with its keys. `pc` again names the next executor call: find, replay, latest,
previous, one put per record in the order of cost ids, the calculation put, the end of the
transaction, audit, lineage. `Boundary` selects what encloses the writes: `none`
(`nullcontext`, line 570), `repository` (line 566), or `host` (docs/integration.md 52-58, where the
repository's transaction joins the host's). Rows written in an open transaction are kept apart in
`open`, are seen by their writer only, and make another writer of a clashing key wait, as a unique
index of a relational store does. What a call raises rolls its transaction back. Row equality
stands for fingerprint equality; the `get` before a put and the one after a ConflictError are
folded into the put, because rows never change and the put alone decides. A record's
`supersedes` is what `_records` finds under the fingerprint of specification and key, so
`CostLedger` promises links between results of one specification and no others (4.4).

### Resolution, CostSystem and the code

`Resolution` and `CostSystem` take the rate-card store as the register `CardLifecycle`, which
`RateCards` is proved to implement: its moves are the effects that calls on cards can have, however
these calls race. `Resolution` reads one card per step, since `_scan` (line 181) reads its pages at
different times, and concludes with none, one or several candidates as lines 428-437 do. Its cards
are those of one provider, product and meter version; their keys differ in the matching dimensions.
Its scans are current: nothing is promised of rows that a scan misses.

A client of `CostSystem` is in `stage` `card` (`_card`, one scan of one card), `usage` (the pages of
`fetch`), or `priced` (from find_calculation on), where the actions of `Calculations` move it. An
aggregate is a number of revisions; `Closed[a]` is the first whose watermark reaches the end of the
window. One aggregate is read per step, so pages that split the aggregates anywhere are covered. The
input handed to `Calculations` is the card, its pricing and the revision of each selected aggregate,
which is what the calculation identity covers. The cards are versions of one rate_card_id, so that
all calculations are of one series. `ever`, `always` and `known` are history: no action reads them.

### Allocation, Pricing, CostRecords, Decimals

Amounts are integers: quanta of the requested scale in `LargestRemainder`, the smallest product of a
quantity and a price in `Pricing`, with rounding to multiples of the two quanta. Allocation keys are
numbered by fingerprint, and a quotient keeps `Digits` significant digits (100 in the code), of
which at most `Digits` + 2 are places after the point: a bound of the model that only quotients
below a hundredth would exceed, which the weights of the runs do not make. Powers of ten are the
recursive function `Tens`. The context of 100 digits ends before the shares are added
(`allocation.py` 180), so `Summed` adds them in the default context, which rounds every partial sum
to `SumDigits` digits (28 in the code). An amount *fits* that context if the quanta of its scale are
a number of no more digits, zeros at the end counted. If the sum is not the amount, the
AssertionError leaves `Allocation` "undivided" and `CostRecords` without records. `CostRecords`
divides the charge before adjustment, the amount due and the quantity each on its own and checks
what CostRecordV1 checks, its differences and sums taken in the default context too. In `Decimals` a
value is coefficient and exponent, and the context is part of the model: `fit_decimal` judges a copy
rounded to `Precision` digits (28), half to even, while `_multiply` works with `WidePrecision`
(100), which rounds longer products too. `Input` is `decimal_value` of a caller's value, `Quantity`
the sum over one more aggregate, judged, and `Multiply` a product of an accepted quantity and an
accepted price. Aggregates are not negative: pricing refuses a negative quantity, and `quantity`
itself is not stated for aggregates of both signs, whose partial sums may need more digits than
their sum.

## 3. Runs

| Run | Shows |
|---|---|
| `lifecycle` | two clients, every call on one card, reads that may miss the newest snapshots, failed, unanswered and repeated puts: chain, uniqueness, frozen pricing, answers that agree with the store, one effect per expected revision, refinement of `CardLifecycle` |
| `publish_race` | two clients, two cards of overlapping intervals, current reads: a publication respects every card published before it began, and a stale refusal means the card has moved since the call began |
| `publish_overlap` | **violation**: two publications at once overlap (4.1) |
| `resolution` | a scan of three cards while they move: the card returned was published during the call, a card that could be resolved throughout is never missed or passed over, and who is told of two cards has seen two |
| `ledger_repository` | two clients, a correction and a re-allocation, repository transaction: whole results, replay, conflicts mean progress, refinement of `CostLedger` |
| `host_calls` | host transaction: calculation and evidence commit together, and waiting writers never wait in a circle (liveness) |
| `stale_scans` | no transaction, and scans that miss rows: the series stays one chain, records precede their calculation, evidence follows it |
| `orphan_records` | **violation** without a transaction (4.2) |
| `cost_system` | calculations while the card moves, usage is corrected and calls fail: what is priced was published, a card retired before the call prices nothing, no aggregate is older than the request, and the current usage under a card that stays published is stored with its evidence in the end (liveness) |
| `allocation` | all lists of up to three entries of three keys and four weights, repeats included, amounts -4..7, 20 and -11: shares add up, are fair, do not depend on the order of the list, and are returned of every amount that fits the default context |
| `records` | all models, 16 pairs of rounding modes, valid and invalid tiers, quantities 0..12 and 24, each price divided under five specifications: prices stay within their roundings, a price has no records only if it or its quantity does not fit the default context, and records add up and are close to their exact shares |
| `decimals` | values that the context can hold are judged by the bound, sums whose numeral it can hold are exact, and products of values within the bound are judged by the bound |

**Bounds.** Rate cards: two clients are the smallest race, and every property relates at most two
calls. No request expects a revision above `MaxExpected` = 3, so no snapshot has a revision above 4:
a draft, its replacement or validation, publication, retirement, which is every lifecycle path with
one replacement. Of two replacements in a row the first takes the other pricing and the second takes
the first one back, so a draft is repriced in both directions. `Times` has one instant: the
properties ask only whether a publication instant is there and whether it changes. A second card
exists only where overlap matters, with two intervals that overlap without either containing the
other. Calculations: identities bound the store, since each is stored once; three requests give a
correction that shares record keys and a re-allocation that shares none; `stale_scans` has the
correction only, `host_calls` one identity with two values of `occurred_at` and a correction. Two
record keys are the smallest set that two transactions can take in opposite orders. Resolution:
three cards give a pair that overlaps, a third of other dimensions, and a page before, between and
after two moves; one resolver suffices, as resolvers share nothing. `cost_system`: one client, since
racing calculations are the question of the runs of `Calculations`; a card whose draft is replaced
once, so that the pricing a caller holds may be an older one; three pricings (of one aggregate, of
both, and of an interval that does not cover the window); two aggregates of two revisions, one
closed at once and one by its correction, so that every page order meets every correction; two
failures (`MaxFaults`), so that a call fails, is repeated and fails again. Allocation: three entries
are the smallest list with two remainders to rank and one tie; three digits make quotients that are
rounded and remainders that would tie but do not; with `SumDigits` = 1 the amount -11 never passes
the final check, and 20, which does not fit either, passes unless weights like 5, 1, 1 make shares
of 14, 3, 3. Records: five equal keys give divisions whose choice of keys moves an adjustment by two
quanta, and weights 3, 3, 1 a key that loses a quantum when a minimum raises ten quanta to eleven;
with `SumDigits` = 2 the quantities from 10 on, in tenths, and the amount 12345, 123 quanta, take
three digits, so that divisions fail and succeed beyond the bound of `RecordsAddUp`, and the rest is
below it. Pricing: quantum ratios of 10 and 100 as in decimal scales, with prices chosen so that
both stages meet exact halves. Decimals: three context digits against two plus four digits of bound
keep the order FractionDigits < Precision < IntegerDigits of 18, 28 and 58, and eight digits in
`_multiply` are those four and twice the two, as 100 is at least 58 + 2 * 18. One price makes
products of nine digits, which the wide context rounds, and one is within the bound only once it is
rounded. Two aggregates (`MaxAggregates`) are the smallest sum with a partial sum that may round.

**Symmetry.** Clients are interchangeable, cards too, and so are the two inputs of `stale_scans`.
Every run of `RateCards` uses it, and of `Calculations` the runs with two clients but `host_calls`,
whose property is liveness. The refinement properties are safety properties, for which it is sound.

**Deadlock** is checked everywhere except in `allocation` and `records`, where a refused
specification or card, or the records of a price, are where the caller stops.

**Fairness.** `host_calls` and `cost_system` need it: strong fairness of each client's next
step. A thread runs and the executor answers, and a writer that waits for a row of a unique index
is queued by the database and gets its turn when the transaction that holds the row ends, although
others may take and release it meanwhile; that is what makes it strong. Nothing is assumed of
`Begin` or `Fail`. The property is checked with the host transaction, the one that holds rows
longest. Reversing or dropping the record order of `calculator.py` 280 makes two calls wait for
each other. `cost_system` also assumes that what may be asked is asked again and again (strong
fairness of each ask): the property is what a scheduler that repeats its calculations gets. It does
not assume that cards or usage ever move or rest; the property speaks of those that do rest, and
failures are bounded, as a call that fails every time stores nothing.

## 4. Where code and documents disagree

1. `publish_overlap`: docs/rate-cards.md 22 says publication rejects overlapping cards. Two
   publications at once both scan, then both put; nothing in the put depends on the other card.
   A publication that began after the other was stored is always refused (`publish_race`).
2. `orphan_records`: without a transaction, records of an interrupted calculation stay. If a
   calculation with other allocation keys then takes that version, the rows of both have its
   version id, and repeating it raises InvalidCost instead of replaying. By the same orphans a
   corrected input with the same allocation computes cost ids that are taken, and gets CostConflict
   each time though no calculation was stored.
3. `allocate_amount` adds the shares after its 100-digit context has ended. A share may have more
   than 28 digits although the amount is written with few: at scale 18, which `calculator.py` 219
   takes for quantities, 100000000000 under three equal weights adds up to
   99999999999.99999999999999999, and the AssertionError of `allocation.py` 181 ("largest-remainder
   allocation changed the total") is raised though nothing was lost. calculation.md 35-36 says the
   rule preserves the exact input total. The models have the error as the status "undivided", which
   the runs `allocation` (20 under 5, 1, 1 in one digit) and `records` reach; amounts that fit the
   28 digits at their scale, quantities below 10^10, are always divided (`SharesAddUp`,
   `NothingLost`).
4. calculation.md 23-24 says that a changed allocation creates the next revision and records
   `supersedes` links. `calculator.py` 251 looks the previous record up by the
   fingerprint of specification and key (224-226), so no record of a changed specification has a
   link, whichever keys they share; only the calculation names its predecessor. A record of the run
   `ledger_repository` whose calculation changes the allocation has `supersedes` = 0. What is left
   of the promise, that results of one specification are linked, is `RecordsSupersede`.

Observed while modelling, where the models show what the code does and no run claims more:

- With a scan that misses the previous records (`StaleReads`), `calculator.py` 139 stores new ones
  without their supersedes links (calculation.md 23-24), for good.
- Aggregates whose sum, written at their least exponent, needs more than 28 digits may be priced as
  a rounded quantity (`models.py` 636), even if the sum itself is short: in three digits 12.05 and
  0.45 make 12.4 and not 12.5. `ShortSumsExact` covers the sums whose numeral, trailing zeros
  counted, is no longer than the context.
- A caller that got no answer to a replacement or transition and repeats it is told that its
  revision is stale, though the snapshot it asked for is stored (`repository.py` 303). The
  properties of rate cards speak of one call each, and a repetition is another call.
- Keys that tie are served by fingerprint (calculation.md 33-35) only if their quotients have
  integers of one length: with 100 digits, of weights 4, 1, 4 and three quanta the second key is
  served first, since 3*4/9 = 1.33... keeps one fraction digit less than 3*1/9 = 0.33....
- If a calculation is stored, its call dies before the evidence, and then the card is retired or the
  usage is corrected, no call reaches that calculation any more and its evidence is never written.
- resolve_rate_card may refuse for two candidates that were never published together, or find
  neither: one is retired and the other published between two pages.
- Of two calls with different usage the one with the older may persist last, and is then the newest
  revision of the series.

`Decimals` states what holds of values that fit the context. Of others the model shows what the code
does, and no run claims more: `fit_decimal` (`_canonical.py` 89) judges the copy that `normalize`
rounded to 28 digits, so a longer value with more than 18 fraction digits can pass, as an amount or
as a price, and it judges a zero by the exponent it was written with, so `0E-18 * 0.01` raises
DecimalOverflow.

## 5. Proofs

Everything below holds for every value of the constants that the ASSUMEs of the modules allow, which
are the types of the constants, that `None` is none of the values it stands beside, and the digits
of the two contexts of `Decimals`. No set of clients, cards, requests, keys or amounts is assumed
finite. TLC evaluates the assumptions in the runs. A theorem that needs more says so in its
statement: that scans are current (`~StaleReads`), that a transaction encloses the writes
(`Boundary # "none"`, or the host's), or that the digits of a division suffice (`DigitsSuffice`).

### Rate cards (`RateCardsProofs`)

| Theorem | Statement |
|---|---|
| `TypeCorrect`, `Invariance` | `TypeOK` and `IInv` always hold |
| `ChainHolds`, `RevisionsUnique`, `PricingIsFrozen` | `LifecycleChain`, `OneSnapshotPerRevision`, `PricingFrozen` |
| `AnswersAsAsked`, `RefusalsStoreNothing` | `ReturnedAsAsked`, `RefusedNotStored` |
| `OneEffectPerExpectedRevision` | `ExpectedRevisionExclusive` |
| `ImplementsRegister` | `Spec => RegisterSpec`: the store implements `CardLifecycle` |
| `ReadInvariance` | with current reads, `ReadInv` always holds |
| `StaleIsProgress`, `PublicationsRespectSettled` | with current reads, `StaleMeansProgress` and `SettledPublicationsRespected` |

None of these invariants is inductive alone: that a put keeps the chain needs that the proposal of
the client still follows a stored snapshot, although other clients moved the store since the client
read. `IInv` adds what makes it so. `StoreInv`: chain, uniqueness, frozen pricing, `Contiguous`
(every revision below a stored one is stored) and `HasNewest`. `ClientsInv`, for each client by
itself: its proposal is as its request asked and follows a snapshot that is stored, for good; if it
was refused, the revision it wanted holds something else; if it succeeded, what it returned is
stored. Rows are only added, so a client's part survives the steps of others (`StoreStepKeeps`,
`OthersKeep`), and every put adds the row right above the newest of its card (`AppendNewest`), so
the store keeps its own part (`AppendKeeps`). For the refinement, `NewestIs` identifies the newest
snapshot, `RegisterFrame` maps steps that store nothing to stutters, and `AppendAdvances` maps each
put to the register's move. Staleness of reads is nowhere used: a stale proposal finds its revision
taken and is not stored.

`ReadInv` is about what a call knows of the time it began, and needs current reads. `Overtaken`: who
held the newest revision at the start and was told stale finds a snapshot stored since. `Publishing`
follows a publication from read to put: no card it has scanned that was published when it began, and
still is, overlaps it. Settled cards only become fewer while a call runs (`SettledShrinks`), which
is why the scan need not be repeated before the put.

### Resolution (`ResolutionProofs`)

| Theorem | Statement |
|---|---|
| `Invariance` | `IInv` always holds |
| `ResolvedCardWasPublished` | `Spec => ResolvedWasPublished` |
| `SettledCardsAreResolved` | `Spec => SettledCardsResolved` |

Both properties speak of a step that ends a scan, but a scan is many steps, between which cards
move. The invariant says what a partial scan knows: everything found suits the query, was published
during the call and is of a card already read, one snapshot of each card; and a snapshot that was
published all along, suits the query and is of a card already read is found. `FoundAfterPage`
carries this over one page, whatever moved since the last one; the moves themselves only add to what
was ever published and take from what always was. `EndIsLastPage` shows that only the last page ends
a scan with an answer, and `LastPage` reads the invariant there.

### Calculations (`CalculationsProofs`)

| Theorem | Needs | Statement |
|---|---|---|
| `TypeCorrect`, `Invariance` | | `TypeOK` and `IInv` always hold |
| `Chain` | | `OneChain` |
| `RecordsFirst` | | `RecordsPrecedeParent` |
| `Evidence` | | `EvidenceBacked` |
| `TransactionInvariance` | transaction | `TInv` always holds |
| `WholeResults`, `Replays` | transaction | `RecordsMatchParents`, `RepeatReplays` |
| `Superseding`, `Progress` | transaction, current scans | `RecordsSupersede`, `ConflictMeansProgress` |
| `NeverRefused` | transaction, current scans | `ReplayNotRefused`, which `orphan_records` violates without a transaction |
| `EvidenceCommitted` | host transaction | `EvidenceAtomic` |
| `ImplementsLedger` | transaction, current scans | `Spec => LedgerSpec`: the store implements `CostLedger` |

The difficulty is that there is not one store: each client with an open transaction sees its own.
`IInv` therefore speaks of views. Each view is `Coherent` (revisions without gaps, each calculation
with its records, evidence of stored calculations only) and `Distinct` (the unique indexes hold),
and open rows of two clients never meet under an index (`Apart`). A commit merges one view into all
others, and `CoherentMerge` and `DistinctMerge` are about that; every other step adds one row to one
view (`CoherentRow`, `CoherentNext`, `DistinctRow`). `ClientInv` says what a client may rely on: the
calculation it is about to store continues the chain it sees, and each of its records is stored or
still to be put. Others only add to what it sees (`OthersKeep`). This holds without any transaction
and however stale the scans: the unique index on the revision alone makes the chain.

`TInv` adds what a transaction gives. Committed tables are `Sound`: each record is one its
calculation names, of the same input. A view is sound too, except of a client between its first
record and its calculation, and what is open there is that client's alone (`Held`). With current
scans records are also linked to the calculation before (`Linked`, stable by `LinkStable`), and what
a call proposes is newer than all it began with (`Current`), which is where a conflict is known to
mean progress. In a host transaction only the calculation being stored lacks its lineage
(`Evidenced`). `ImplementsLedger` maps the committed tables: the commit of a calculation is the
ledger's append, and every other step a stutter.

### The composed system (`CostSystemProofs`)

| Theorem | Statement |
|---|---|
| `Invariance` | `IInv` always holds |
| `Priced`, `Retired`, `Fresh` | `PricedAsPublished`, `RetiredCardsPriceNothing`, `UsageNotOlderThanAsked` |
| `CardsAreRegister`, `CallsAreCalculations` | `CostSystem` implements `CardLifecycle` and `Calculations` |
| `ChainInSystem` | the calculations of the system are one chain |
| `LedgerInSystem` | in a transaction, the system implements `CostLedger` |

The invariant has a part for each thing that is read early and used late. `PricedInv`: whatever is
stored, in an open transaction or in a client's hands has a pricing its card was published with;
cards only move on (`CardsMove`), so this survives retirement. `RetiredInv`: a call begun after its
card was retired never leaves the stage that reads it. `UsageInv`: an aggregate already read has a
revision between that when the caller asked and the present one. What a step of the calculator can
do to these is one lemma (`CalculatorStep`), whatever the step. `CallsAreCalculations` shows that
the surroundings only choose what is asked and when; the last two theorems follow from those about
`Calculations` by instantiation.

### Money (`LargestRemainderProofs`, `AllocationProofs`, `PricingProofs`)

| Theorem | Needs | Statement |
|---|---|---|
| `AllocationProofs!Invariance`, `ListingIrrelevant` | | `IInv`; `CallerOrderIrrelevant` |
| `TypeCorrect`, `NothingLost` | digits | `TypeOK`, `SharesAddUp` |
| `Optimal` | digits | `Fairest` |
| `PricingProofs!Invariance`, `CardsCover` | | `IInv`; `AcceptedCardsPriceAll` |
| `Roundings`, `Monotone`, `AdjustmentsWithin` | | `WithinRounding`, `MoreNeverCheaper`, `AdjustmentsBounded` |
| `RecordsExact`, `AdjustmentsNear` | digits | `RecordsAddUp`, `AdjustmentsNearExact` |

Here the state says little and the arithmetic everything: the invariants only say that shares,
prices and records are those of the operators. What is proved is about the operators.

*Sums.* What a sum of any length is needs induction. In place of a predicate, which no theorem of
the library can take here, the lemmas take a family of finite sets and a least member of it
(`LeastSet`): if an equation failed of some set it would fail of a least one, and one element less
contradicts it. `SumTakes`, `SumsOrdered`, `SumsClose`, `SumLinear` and `SumRenamed` are all proved
this way and are all that the rest uses of sums.

*Order.* A specification has one order, whichever way it is listed (`SortedAscends`, `OrderUnique`),
which is `ListingIrrelevant`. Places in an order are a bijection (`RanksFill`), so each unit left
over goes to another entry (`ServedSum`).

*Division.* `EnoughDigits(units, s)` says that every product of the units and a weight has fewer
digits than a quotient keeps, and that one over the sum of the weights is more than the last place.
Then a quotient has the integer part of the exact one (`QuotientIs`) and is closer to it than half
of one over the divisor (`QuotientClose`). Hence fewer units are left over than there are entries
(`LeftOver`), they add up (`AllocatedAddsUp`), rounded remainders are ordered as the exact ones
(`RemaindersOrdered`), and no unit goes to an entry with a whole share (`WholeUnserved`).
`DigitsSuffice` is this for the amounts and weights of the instance. It is a hypothesis, not an
assumption, because the code does not check it; with one digit TLC finds shares that do not add up.
The instances of `allocation` and `records` satisfy it. With the code's 100 digits it holds of
amounts and weights with no more than 99 digits between them, say an amount of 28 digits at its
scale and weights of 71.

*The final sum.* `Running` is a sum in the default context, step by step. While all partial sums
fit, it is the exact sum (`SummedExact`); shares of one sign have no partial sum longer than the
amount (`PartialSums`). Hence an amount of at most `SumDigits` digits at its scale passes the check
(`AllocatedSummed`), which is the second half of `SharesAddUp` and the first of `RecordsAddUp`. Of
a longer amount nothing is promised but that shares, if they are returned, add up to it.

*Fairness.* Served entries have no less left of a unit than the others, so there is a threshold
between them (`Threshold`). Whatever a division gives an entry more or less than largest remainder
does, its distance from the exact share grows by no less than the threshold says (`Tangent`). As the
differences add up to zero, so do these bounds (`SignlessFairest`).

*Prices.* Rounding to a quantum is within its mode's distance (`Rounded`) and keeps order
(`RoundingMonotone`). Accepted tiers contain each quantity exactly once (`TierOf`), and the charge
of a graduated card is the sum of its units' prices (`SlicesAreUnits`), each unit extending one
slice (`SlicesAdd`); the slices only grow with the quantity (`SlicesGrow`). The adjustment of a
record is the difference of two shares, each within a unit of its own exact share (`ShareNear`),
which is the two quanta of `AdjustmentsNear`. The default context gives differences and sums of
shares exactly while both amounts fit it (`DifferenceHeld`, `AdjustmentsHeld`), so CostRecordV1
refuses nothing.

### Decimals (`DecimalsProofs`)

| Theorem | Statement |
|---|---|
| `Invariance` | `IInv` always holds |
| `TypeCorrect` | `TypeOK`: a sum has no more digits than the context |
| `ValuesJudged` | `ShortValuesJudged` |
| `ProductsJudged` | a product of two values within the bound is accepted exactly if it is within the bound |
| `SumsExact` | `ShortSumsExact` |

`DigitsAssumption` is what 28, 100, 18 and 58 satisfy: the context of `_multiply` is no smaller than
the other, and holds the integer digits of the bound and twice its fraction digits.

*Digits.* That `Tens` is a function at all, that it multiplies (`TensAdd`), and that each number has
one count of digits (`DigitCountIs`, `NumeralUnique`) are proved by the induction of
`LargestRemainderProofs` over sets of numbers. A number other than zero is its significant digits
and its zeros in one way (`PartsExist`, `StrippedIs`), so what `normalize` leaves is known
(`StrippedValue`).

*Judging.* A context that holds the significant digits takes away zeros only (`RoundedZeros`). One
that does not may change the last digit, but never moves the first one down (`RoundedLong`). Hence
`Judged`: if the context holds all integer digits of the bound beside the fraction digits of a
value, then a value that is too long for it is too large, and so is what it is rounded to. A product
ends in no fewer zeros than its factors together (`ProductZeros`), so `_multiply` is always in that
case.

*Adding.* `IInv` says that the sum equals the exact sum while the numeral of that is short. It is
inductive because sums only grow: if the new exact sum is short the one before was (`PlusIs`,
`FewerDigits`), so it had been added exactly, and adding to it rounds nothing.

### Only model-checked

`CallsFinish` and `CurrentUsageSettles` are liveness under fairness, which the prover does not
reach. `NoPublishedOverlap` and `ReplayNotRefused` do not hold in general (section 4).

## 6. Not modelled

Field validation, serialization, canonical JSON, error texts, the query builder, the facade and the
release tooling hold no state that the properties tell apart. Replay of an input that returns to an
old value, a retry after an unanswered put, older usage that is stored last, page cursors over
unordered scans, and what the executor does with an idempotency key it has seen are listed as
hazards with the reason no property covers them. `get_cost_record`, `get_calculation` and the list
methods only read what one scan returns. Meters are not modelled: `get_meter` reads a definition of
the Usage plugin that never changes. Money is counted in integers. Of the default context,
`Decimals` has the sum of aggregates and the judging of values, and `LargestRemainder` and
`CostRecords` the sums and differences of shares; the sum of price components (`pricing.py` 140),
the subtraction of a credit and that of a slice's start are taken there too, and `Pricing` has them
exact. `CostSystem` leaves out that pricing or allocation may refuse: its runs and theorems are of
inputs that are priced and divided.

## 7. Plan

Order of work, most important behaviour first; all of it is done.

1. `RateCards` with `CardLifecycle`: runs, inductive invariant, refinement proof.
2. `Calculations` with `CostLedger`: the three transaction boundaries, liveness, refinement by TLC.
3. `LargestRemainder`, `Allocation`: largest remainder against a brute-force reference.
4. `Pricing`: five models against unit-by-unit reference.
5. `Decimals`: the bound and the context.
6. `CostSystem`: the card, the usage and the calculation in one system.
7. `CostRecords`: when a priced quantity has records, and that they are accepted.
8. `Resolution` with `ResolutionProofs`.
9. Proofs of the safety properties and refinements of all of these.
10. `DecimalsProofs`, with powers of ten as a recursive function.
