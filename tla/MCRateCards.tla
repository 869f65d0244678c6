----------------------------- MODULE MCRateCards -----------------------------
(* Small instances of RateCards for TLC.  The revisions the requests name   *)
(* bound the store: no call carries an expected revision above MaxExpected. *)
EXTENDS RateCards, TLC

CONSTANT MaxExpected

Price(key, from, until, terms) ==
    [key |-> key, from |-> from, until |-> until, terms |-> terms]

\* Two drafts of one card that differ in what they charge.
RepricedTerms == {Price("vm", 0, 2, "low"), Price("vm", 0, 2, "high")}

\* Two intervals that overlap without either containing the other.
OverlappingIntervals == {Price("vm", 0, 2, "low"), Price("vm", 1, 3, "low")}
OneInterval == {Price("vm", 0, 2, "low")}

Call(op, card, expected, pricing, revision, state, at) ==
    [op |-> op, card |-> card, expected |-> expected, pricing |-> pricing,
     revision |-> revision, state |-> state, at |-> at]

AnyPrice == CHOOSE p \in Pricings : TRUE
AnyTime == CHOOSE t \in Times : TRUE

Creations == {Call("create", a, 0, p, 1, "draft", AnyTime) : a \in Cards, p \in Pricings}
Replacements(revisions, prices) ==
    {Call("replace", a, r, p, r + 1, "draft", AnyTime) :
        a \in Cards, p \in prices, r \in revisions}
Transitions(op, revisions, times) ==
    {Call(op, a, r, AnyPrice, 1, "draft", t) : a \in Cards, r \in revisions, t \in times}

\* Calls the repository refuses for the card they carry.
Malformed ==
    {Call("create", a, 0, AnyPrice, 1, "validated", AnyTime) : a \in Cards} \cup
    {Call("replace", a, 1, AnyPrice, 3, "draft", AnyTime) : a \in Cards}

LifecycleRequests ==
    Creations \cup Malformed \cup Replacements({1}, Pricings \ {AnyPrice})
      \cup Replacements({2}, {AnyPrice})
      \cup Transitions("validate", 1 .. 2, {AnyTime})
      \cup Transitions("publish", {MaxExpected - 1}, Times)
      \cup Transitions("retire", {MaxExpected}, {AnyTime})

PublicationRequests ==
    Creations \cup Transitions("validate", {1}, {AnyTime})
      \cup Transitions("publish", {2}, {AnyTime})
      \cup Transitions("retire", {3}, {AnyTime})

Symmetry == Permutations(Clients) \cup Permutations(Cards)
=============================================================================
