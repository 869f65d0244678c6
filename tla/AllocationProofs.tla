-------------------------- MODULE AllocationProofs --------------------------
(* Proofs about Allocation: the specification of accepted weights is the    *)
(* same however the caller lists them, and so are the shares; and these add *)
(* up to the amount.                                                       *)
EXTENDS Allocation, LargestRemainderProofs

\* A specification is the order of accepted weights, the shares are what
\* allocate_amount makes of it, and it makes none only if they do not sum to
\* the amount in the default context.
IInv ==
    /\ offered \in Offers
    /\ status \in {"offered", "invalid", "specified", "allocated", "undivided"}
    /\ IF status \in {"specified", "allocated", "undivided"}
       THEN Accepted(offered) /\ spec = Sorted(offered) ELSE spec = <<>>
    /\ IF status \in {"allocated", "undivided"} THEN total \in Totals ELSE total = 0
    /\ IF status = "allocated" THEN shares = Allocated(total, spec) ELSE shares = <<>>
    /\ status = "undivided" => ~AddsUp(total, spec)

LEMMA InitIInv == Init => IInv
  BY DEF Init, IInv

LEMMA NextIInv == IInv /\ [Next]_vars => IInv'
  <1> SUFFICES ASSUME IInv, [Next]_vars PROVE IInv'
    OBVIOUS
  <1>1. CASE Specify
    <2>1. CASE Accepted(offered)
      BY <1>1, <2>1 DEF Specify, IInv
    <2>2. CASE ~Accepted(offered)
      BY <1>1, <2>2 DEF Specify, IInv
    <2> QED  BY <2>1, <2>2
  <1>2. ASSUME NEW amount \in Totals, Allocate(amount) PROVE IInv'
    <2>1. CASE AddsUp(amount, spec)
      BY <1>2, <2>1 DEF Allocate, IInv
    <2>2. CASE ~AddsUp(amount, spec)
      BY <1>2, <2>2 DEF Allocate, IInv
    <2> QED  BY <2>1, <2>2
  <1>3. CASE UNCHANGED vars
    BY <1>3 DEF vars, IInv
  <1> QED  BY <1>1, <1>2, <1>3 DEF Next

\* The inductive invariant: a specification is the order of accepted weights,
\* and the shares last given are the division under it
\* (AllocationSpecV1 and allocate_amount).
THEOREM Invariance == Spec => []IInv
  BY InitIInv, NextIInv, PTL DEF Spec

-----------------------------------------------------------------------------
\* An order of accepted weights, as the calculator uses it.
LEMMA SpecWeighted ==
    ASSUME NEW s \in Offers, Accepted(s)
    PROVE  \E n \in 1 .. Parties :
              /\ n \in Nat /\ s \in [1 .. n -> Entry]
              /\ Listed(s, n) /\ Weighted(s, n) /\ Weighted(Sorted(s), n)
              /\ Ascending(Sorted(s), n) /\ Range(Sorted(s)) = Range(s)
  <1>1. PICK n \in 1 .. Parties : s \in [1 .. n -> Entry]
    BY DEF Offers
  <1>2. n \in Nat
    BY <1>1, AllocationAssumption
  <1>3. \A i \in 1 .. n : s[i].key \in Int /\ s[i].weight \in Nat
    BY <1>1, AllocationAssumption DEF Entry
  <1>4. Listed(s, n) /\ Weighted(s, n)
    BY <1>1, <1>2, <1>3 DEF Listed, Weighted, Accepted
  <1> QED  BY <1>1, <1>2, <1>4, SortedWeighted, SortedAscends

\* Two lists of the same entries have the same order.
LEMMA OneOrder ==
    ASSUME NEW s, NEW t, NEW n, Listed(s, n), Listed(t, n), Range(s) = Range(t)
    PROVE  Sorted(s) = Sorted(t)
  <1>1. /\ Ascending(Sorted(s), n) /\ Range(Sorted(s)) = Range(s)
        /\ Ascending(Sorted(t), n) /\ Range(Sorted(t)) = Range(t)
    BY SortedAscends
  <1>2. \A i \in 1 .. n : Sorted(s)[i] = Sorted(t)[i]
    BY <1>1, OrderUnique
  <1>3. DOMAIN s = 1 .. n /\ DOMAIN t = 1 .. n
    BY DEF Listed
  <1>4. /\ Sorted(s) = [i \in 1 .. n |-> Sorted(s)[i]]
        /\ Sorted(t) = [i \in 1 .. n |-> Sorted(t)[i]]
    BY <1>3 DEF Sorted
  <1> QED  BY <1>2, <1>4

LEMMA OrderIrrelevant == IInv => CallerOrderIrrelevant
  <1> SUFFICES ASSUME IInv, status = "allocated",
                      NEW p \in [DOMAIN offered -> DOMAIN offered],
                      Accepted([i \in DOMAIN offered |-> offered[p[i]]]),
                      Range([i \in DOMAIN offered |-> offered[p[i]]]) = Range(offered),
                      NEW i \in DOMAIN spec, NEW j \in DOMAIN spec,
                      spec[i] = Sorted([l \in DOMAIN offered |-> offered[p[l]]])[j]
               PROVE  shares[i] =
                      Allocated(total, Sorted([l \in DOMAIN offered |-> offered[p[l]]]))[j]
    BY DEF CallerOrderIrrelevant
  <1> DEFINE relisted == [l \in DOMAIN offered |-> offered[p[l]]]
  <1>1. /\ offered \in Offers /\ Accepted(offered) /\ spec = Sorted(offered)
        /\ shares = Allocated(total, spec)
    BY DEF IInv
  <1>2. PICK n : Listed(offered, n)
    BY <1>1, SpecWeighted
  <1>3. Listed(relisted, n)
    <2>1. n \in Nat /\ DOMAIN offered = 1 .. n /\ \A l \in 1 .. n : offered[l].key \in Int
      BY <1>2 DEF Listed
    <2>2. DOMAIN relisted = 1 .. n /\ \A l \in 1 .. n : relisted[l].key \in Int
      BY <2>1
    <2>3. \A l, m \in 1 .. n : relisted[l].key = relisted[m].key => l = m
      BY <2>2 DEF Accepted
    <2> QED  BY <2>1, <2>2, <2>3 DEF Listed
  <1>4. Sorted(relisted) = spec
    <2>1. Range(relisted) = Range(offered)
      OBVIOUS
    <2> HIDE DEF relisted
    <2>2. Sorted(relisted) = Sorted(offered)
      BY <1>2, <1>3, <2>1, OneOrder
    <2> QED  BY <1>1, <2>2
  <1>5. Ascending(spec, n)
    BY <1>1, <1>2, SortedAscends
  <1>6. i = j
    <2>1. spec[i].key = spec[j].key
      BY <1>4
    <2>2. /\ n \in Nat /\ i \in 1 .. n /\ j \in 1 .. n
          /\ spec[i].key \in Int
          /\ i < j => spec[i].key < spec[j].key
          /\ j < i => spec[j].key < spec[i].key
      BY <1>5 DEF Ascending
    <2> QED  BY <2>1, <2>2
  <1> QED  BY <1>1, <1>4, <1>6

\* However the caller lists given weights, every key gets the same shares:
\* the specification orders them by fingerprint, and keys are distinct
\* (allocation.py, AllocationSpecV1; calculation.md:34-35).
THEOREM ListingIrrelevant == Spec => []CallerOrderIrrelevant
  BY Invariance, OrderIrrelevant, PTL

-----------------------------------------------------------------------------
\* The digits are enough for the amounts and weights that are allocated.
DigitsSuffice ==
    \A s \in Offers, amount \in Totals : Accepted(s) => EnoughDigits(Abs(amount), s)

\* What an allocation returns, what it adds up to, and that it returns.
LEMMA SharesAre ==
    ASSUME DigitsSuffice, IInv, status \in {"allocated", "undivided"}
    PROVE  /\ status = "allocated" =>
                shares \in [DOMAIN spec -> Int] /\ Total(shares) = total
           /\ Fits(total) => status = "allocated"
  <1>1. /\ offered \in Offers /\ Accepted(offered) /\ spec = Sorted(offered)
        /\ total \in Totals
        /\ status = "allocated" => shares = Allocated(total, spec)
        /\ status = "undivided" => ~AddsUp(total, spec)
    BY DEF IInv
  <1>2. PICK n \in 1 .. Parties : /\ Listed(offered, n) /\ Weighted(offered, n)
                                  /\ Weighted(spec, n)
    BY <1>1, SpecWeighted
  <1>3. total \in Int /\ Abs(total) \in Nat
    BY <1>1, AllocationAssumption DEF Abs
  <1>4. EnoughDigits(Abs(total), spec)
    BY <1>1, <1>2, <1>3, SortedWeighted DEF DigitsSuffice
  <1>5. DOMAIN spec = 1 .. n
    BY <1>2 DEF Weighted
  <1>6. Allocated(total, spec) \in [1 .. n -> Int] /\ Total(Allocated(total, spec)) = total
    BY <1>2, <1>3, <1>4, AllocatedAddsUp
  <1>7. Fits(total) => AddsUp(total, spec)
    BY <1>2, <1>3, <1>4, AllocatedSummed
  <1> QED  BY <1>1, <1>5, <1>6, <1>7

LEMMA TypesOf == DigitsSuffice /\ IInv => TypeOK
  <1> SUFFICES ASSUME DigitsSuffice, IInv PROVE TypeOK
    OBVIOUS
  <1>1. status \in {"specified", "allocated", "undivided"} =>
          /\ spec \in Offers
          /\ DOMAIN spec = DOMAIN offered /\ Range(spec) = Range(offered)
          /\ \A i, j \in DOMAIN spec : i < j => spec[i].key < spec[j].key
    <2> SUFFICES ASSUME status \in {"specified", "allocated", "undivided"}
                 PROVE  /\ spec \in Offers
                        /\ DOMAIN spec = DOMAIN offered /\ Range(spec) = Range(offered)
                        /\ \A i, j \in DOMAIN spec : i < j => spec[i].key < spec[j].key
      OBVIOUS
    <2>1. offered \in Offers /\ Accepted(offered) /\ spec = Sorted(offered)
      BY DEF IInv
    <2>2. PICK n \in 1 .. Parties : /\ n \in Nat /\ offered \in [1 .. n -> Entry]
                                    /\ Ascending(spec, n) /\ Range(spec) = Range(offered)
      BY <2>1, SpecWeighted
    <2>3. DOMAIN spec = 1 .. n /\ DOMAIN offered = 1 .. n
      BY <2>2 DEF Ascending
    <2>4. spec = [i \in 1 .. n |-> spec[i]]
      BY <2>1, <2>3 DEF Sorted
    <2>5. \A i \in 1 .. n : spec[i] \in Entry
      BY <2>2, <2>3 DEF Range
    <2>6. spec \in [1 .. n -> Entry]
      BY <2>4, <2>5
    <2>7. spec \in Offers
      BY <2>2, <2>6 DEF Offers
    <2> QED  BY <2>2, <2>3, <2>7 DEF Ascending
  <1>2. /\ offered \in Offers
        /\ status \in {"offered", "invalid", "specified", "allocated", "undivided"}
    BY DEF IInv
  <1>3. spec \in Offers \cup {<<>>}
    BY <1>1 DEF IInv
  <1>4. total \in Totals \cup {0}
    BY DEF IInv
  <1>5. IF status = "allocated" THEN shares \in [DOMAIN spec -> Int] ELSE shares = <<>>
    BY SharesAre DEF IInv
  <1> QED  BY <1>1, <1>2, <1>3, <1>4, <1>5 DEF TypeOK

\* Every variable keeps its type, and a specification has the entries listed,
\* in the order of their keys (AllocationSpecV1.__post_init__).
THEOREM TypeCorrect ==
    ASSUME DigitsSuffice
    PROVE  Spec => []TypeOK
  <1>1. DigitsSuffice
    OBVIOUS
  <1>2. IInv => TypeOK
    BY <1>1, TypesOf
  <1> QED  BY Invariance, <1>2, PTL

\* Whatever the amount, its sign and the weights, the shares add up to it: the
\* integer parts of the quotients leave fewer units over than there are
\* entries, and each goes to another entry.  The AssertionError of
\* allocate_amount (allocation.py:180) is out of reach of amounts that take no
\* more digits, at their scale, than the default context has: shares have one
\* sign, so that no part of their sum takes more.
THEOREM NothingLost ==
    ASSUME DigitsSuffice
    PROVE  Spec => []SharesAddUp
  <1>1. DigitsSuffice
    OBVIOUS
  <1>2. IInv => SharesAddUp
    BY <1>1, SharesAre DEF SharesAddUp
  <1> QED  BY Invariance, <1>2, PTL

\* Largest remainder is optimal: whichever way else an amount is divided into
\* whole quanta, the shares together are no closer to the exact ones.
THEOREM Optimal ==
    ASSUME DigitsSuffice
    PROVE  Spec => []Fairest
  <1>1. DigitsSuffice
    OBVIOUS
  <1>2. IInv => Fairest
    <2> SUFFICES ASSUME IInv, status = "allocated",
                        NEW f \in [DOMAIN spec -> IF total < 0 THEN total .. 0 ELSE 0 .. total],
                        Total(f) = total
                 PROVE  Deviation(shares) =< Deviation(f)
      BY DEF Fairest
    <2>1. /\ offered \in Offers /\ Accepted(offered) /\ spec = Sorted(offered)
          /\ total \in Totals /\ shares = Allocated(total, spec)
      BY DEF IInv
    <2>2. PICK n \in 1 .. Parties : /\ Listed(offered, n) /\ Weighted(offered, n)
                                    /\ Weighted(spec, n)
      BY <2>1, SpecWeighted
    <2>3. total \in Int /\ Abs(total) \in Nat
      BY <2>1, AllocationAssumption DEF Abs
    <2>4. EnoughDigits(Abs(total), spec)
      BY <1>1, <2>1, <2>2, <2>3, SortedWeighted DEF DigitsSuffice
    <2>5. DOMAIN spec = 1 .. n
      BY <2>2 DEF Weighted
    <2>6. \A g : Deviation(g) = Sum(Distances(g, spec, n, total), 1 .. n)
      <3> TAKE g
      <3>1. Deviation(g) = Total(Distances(g, spec, n, total))
        BY <2>5 DEF Deviation, Distances
      <3>2. DOMAIN Distances(g, spec, n, total) = 1 .. n
        BY DEF Distances
      <3> QED  BY <3>1, <3>2, TotalIsSum
    <2>7. \A i \in 1 .. n : f[i] \in Int
      BY <2>3, <2>5
    <2>8. Sum(f, 1 .. n) = total
      BY <2>5, TotalIsSum
    <2>9. Sum(Distances(Allocated(total, spec), spec, n, total), 1 .. n)
            =< Sum(Distances(f, spec, n, total), 1 .. n)
      BY <2>2, <2>3, <2>4, <2>7, <2>8, AllocatedFairest
    <2> QED  BY <2>1, <2>6, <2>9
  <1> QED  BY Invariance, <1>2, PTL
=============================================================================
