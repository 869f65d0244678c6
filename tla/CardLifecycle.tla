---------------------------- MODULE CardLifecycle ----------------------------
(***************************************************************************)
(* What the rate-card store promises a reader of one card: a register that *)
(* holds its newest snapshot and moves only along                          *)
(* draft -> ... -> draft -> validated -> published -> retired.             *)
(***************************************************************************)
EXTENDS Integers

CONSTANTS Cards, Pricings, Times, None

VARIABLE newest   \* card -> its newest snapshot, None before creation

Move(card, revision, state, pricing, publishedAt) ==
    newest' = [newest EXCEPT ![card] =
        [card |-> card, revision |-> revision, state |-> state,
         pricing |-> pricing, publishedAt |-> publishedAt]]

Create(card, p) == newest[card] = None /\ Move(card, 1, "draft", p, 0)

\* The card holds a snapshot in state from and takes its next revision.
Advance(card, from, to, p, at) ==
    /\ newest[card] # None /\ newest[card].state = from
    /\ Move(card, newest[card].revision + 1, to, p, at)

Replace(card, p) == Advance(card, "draft", "draft", p, 0)
Validate(card) == Advance(card, "draft", "validated", newest[card].pricing, 0)
Publish(card, at) == Advance(card, "validated", "published", newest[card].pricing, at)
Retire(card) ==
    Advance(card, "published", "retired", newest[card].pricing, newest[card].publishedAt)

Init == newest = [card \in Cards |-> None]

Next == \E card \in Cards :
    \/ \E p \in Pricings : Create(card, p) \/ Replace(card, p)
    \/ Validate(card)
    \/ \E at \in Times : Publish(card, at)
    \/ Retire(card)

Spec == Init /\ [][Next]_newest
=============================================================================
