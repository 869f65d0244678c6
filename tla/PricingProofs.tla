---------------------------- MODULE PricingProofs ----------------------------
(* What calculate_price returns, for every card, quantity and quantum.       *)
EXTENDS CostRecords, LargestRemainderProofs

-----------------------------------------------------------------------------
(* Rounding.                                                               *)

\* Rounding goes to the multiple below, and to the one above only with a rest.
RoundsTo(r, n, q, mode, down) ==
    /\ \/ r = down
       \/ r = down + q /\ down < n
    /\ mode = "down" => r = down
    /\ mode = "up" /\ down < n => r = down + q
    /\ mode \in {"half_even", "half_up"} =>
         /\ r = down => 2 * (n - down) =< q
         /\ r = down + q => q =< 2 * (n - down)

LEMMA Rounds ==
    ASSUME NEW n \in Nat, NEW q \in Nat \ {0}, NEW mode \in Modes
    PROVE  RoundsTo(Quantize(n, q, mode), n, q, mode, (n \div q) * q)
  <1>0. PICK down \in Nat : down = (n \div q) * q
    BY Division
  <1> DEFINE even == (down \div q) % 2 = 0
             up == IF n - down = 0 THEN down ELSE down + q
  <1>1. down =< n /\ n < down + q
    BY <1>0, Division
  <1>2. Quantize(n, q, mode) =
          CASE mode = "down" -> down
            [] mode = "up" -> up
            [] mode = "half_up" -> IF 2 * (n - down) < q THEN down ELSE up
            [] mode = "half_even" ->
                 IF 2 * (n - down) < q \/ (2 * (n - down) = q /\ even) THEN down ELSE up
    BY <1>0 DEF Quantize
  <1>3. PICK r : r = Quantize(n, q, mode)
    OBVIOUS
  <1> HIDE DEF even
  <1>4. RoundsTo(r, n, q, mode, down)
    <2>1. CASE mode \in {"down", "up"}
      BY <1>1, <1>2, <1>3, <2>1 DEF RoundsTo
    <2>2. CASE mode = "half_up"
      BY <1>1, <1>2, <1>3, <2>2 DEF RoundsTo
    <2>3. CASE mode = "half_even"
      BY <1>1, <1>2, <1>3, <2>3 DEF RoundsTo
    <2> QED  BY <2>1, <2>2, <2>3 DEF Modes
  <1> QED  BY <1>0, <1>3, <1>4

\* What rounding returns is a multiple of the quantum, no further off than its
\* mode allows, and nothing stays nothing.
LEMMA Rounded ==
    ASSUME NEW n \in Nat, NEW q \in Nat \ {0}, NEW mode \in Modes
    PROVE  /\ Quantize(n, q, mode) \in Nat
           /\ \E m \in Nat : Quantize(n, q, mode) = m * q
           /\ 2 * Quantize(n, q, mode) =< 2 * n + Doubt(q, mode)
           /\ 2 * n =< 2 * Quantize(n, q, mode) + Doubt(q, mode)
           /\ n = 0 => Quantize(n, q, mode) = 0
  <1>1. PICK d \in Nat : d = n \div q
    BY Division
  <1>2. PICK down \in Nat : down = d * q /\ down =< n /\ n < down + q
    BY <1>1, Division
  <1>3. PICK r : r = Quantize(n, q, mode)
    OBVIOUS
  <1>4. RoundsTo(r, n, q, mode, down)
    BY <1>1, <1>2, <1>3, Rounds
  <1>5. r \in Nat
    BY <1>4 DEF RoundsTo
  <1>6. \E m \in Nat : r = m * q
    <2>1. (d + 1) * q = d * q + q
      BY Multiple
    <2>2. d \in Nat /\ d + 1 \in Nat
      OBVIOUS
    <2>3. r = d * q \/ r = (d + 1) * q
      BY <1>2, <1>4, <2>1 DEF RoundsTo
    <2> QED  BY <2>2, <2>3
  <1>7. /\ 2 * r =< 2 * n + Doubt(q, mode)
        /\ 2 * n =< 2 * r + Doubt(q, mode)
        /\ n = 0 => r = 0
    <2>1. CASE mode \in {"down", "up"}
      <3>1. Doubt(q, mode) = 2 * (q - 1)
        BY <2>1 DEF Doubt
      <3> QED  BY <1>2, <1>4, <1>5, <2>1, <3>1 DEF RoundsTo
    <2>2. CASE mode \in {"half_even", "half_up"}
      <3>1. Doubt(q, mode) = q
        BY <2>2 DEF Doubt
      <3> QED  BY <1>2, <1>4, <1>5, <2>2, <3>1 DEF RoundsTo
    <2> QED  BY <2>1, <2>2 DEF Modes
  <1> QED  BY <1>3, <1>5, <1>6, <1>7

\* Rounding keeps order.
LEMMA RoundingMonotone ==
    ASSUME NEW m \in Nat, NEW n \in Nat, m =< n, NEW q \in Nat \ {0}, NEW mode \in Modes
    PROVE  Quantize(m, q, mode) =< Quantize(n, q, mode)
  <1> DEFINE a == m \div q
             b == n \div q
  <1>1. CASE a = b
    <2> DEFINE down == a * q
               even == (down \div q) % 2 = 0
               r == Quantize(m, q, mode)
               t == Quantize(n, q, mode)
    <2>1. down \in Nat /\ down =< m /\ n < down + q
      BY <1>1, Division
    <2>2. /\ r = CASE mode = "down" -> down
                   [] mode = "up" -> IF m - down = 0 THEN down ELSE down + q
                   [] mode = "half_up" -> IF 2 * (m - down) < q THEN down
                                          ELSE IF m - down = 0 THEN down ELSE down + q
                   [] mode = "half_even" ->
                        IF 2 * (m - down) < q \/ (2 * (m - down) = q /\ even) THEN down
                        ELSE IF m - down = 0 THEN down ELSE down + q
          /\ t = CASE mode = "down" -> down
                   [] mode = "up" -> IF n - down = 0 THEN down ELSE down + q
                   [] mode = "half_up" -> IF 2 * (n - down) < q THEN down
                                          ELSE IF n - down = 0 THEN down ELSE down + q
                   [] mode = "half_even" ->
                        IF 2 * (n - down) < q \/ (2 * (n - down) = q /\ even) THEN down
                        ELSE IF n - down = 0 THEN down ELSE down + q
      BY <1>1 DEF Quantize
    <2> HIDE DEF down, even, r, t
    <2>3. r =< t
      <3>1. CASE mode \in {"down", "up"}
        BY <2>1, <2>2, <3>1
      <3>2. CASE mode = "half_up"
        BY <2>1, <2>2, <3>2
      <3>3. CASE mode = "half_even"
        BY <2>1, <2>2, <3>3
      <3> QED  BY <3>1, <3>2, <3>3 DEF Modes
    <2> QED  BY <2>3 DEF r, t
  <1>2. CASE a # b
    <2>1. a \in Nat /\ b \in Nat /\ a =< b
      BY Division, DivisionMonotone
    <2>2. a * q \in Nat /\ b * q \in Nat
      BY Division
    <2>3. a * q + q =< b * q
      <3> HIDE DEF a, b
      <3> QED  BY <1>2, <2>1, MultiplesApart
    <2>4. PICK low \in Nat : low = a * q
      BY <2>2
    <2>5. PICK high \in Nat : high = b * q
      BY <2>2
    <2>6. RoundsTo(Quantize(m, q, mode), m, q, mode, low)
      BY <2>4, Rounds
    <2>7. RoundsTo(Quantize(n, q, mode), n, q, mode, high)
      BY <2>5, Rounds
    <2>8. low + q =< high
      BY <2>3, <2>4, <2>5
    <2> QED  BY <2>6, <2>7, <2>8 DEF RoundsTo
  <1> QED  BY <1>1, <1>2

-----------------------------------------------------------------------------
(* Tiers.                                                                  *)

\* What ValidTiers says of m tiers.
Tiered(ts, m) ==
    /\ m \in Nat \ {0} /\ DOMAIN ts = 1 .. m
    /\ ts[1].start = 0
    /\ \A i \in 1 .. m : ts[i].start \in Nat /\ ts[i].price \in Nat
    /\ \A i \in 1 .. m - 1 : /\ ts[i].end = ts[i + 1].start
                             /\ ts[i].start < ts[i].end
    /\ ts[m].end = Unbounded

LEMMA TiersOfCard ==
    ASSUME NEW k \in Card, ValidTiers(k.tiers)
    PROVE  Tiered(k.tiers, Len(k.tiers))
  <1> DEFINE ts == k.tiers
             m == Len(ts)
             Tier == [start : Nat, end : Nat \cup {Unbounded}, price : Nat]
  <1>1. ts \in Seq(Tier)
    BY DEF Card
  <1>2. m \in Nat /\ DOMAIN ts = 1 .. m /\ m # 0
    BY <1>1 DEF ValidTiers
  <1>3. \A i \in 1 .. m : ts[i] \in Tier
    <2> HIDE DEF Tier, ts
    <2> QED  BY <1>1, <1>2
  <1>4. \A i \in 1 .. m : /\ ts[i].start \in Nat /\ ts[i].price \in Nat
                          /\ Within(ts[i].start, ts[i].end)
    BY <1>2, <1>3 DEF ValidTiers
  <1>5. \A i \in 1 .. m - 1 : ts[i].end = ts[i + 1].start /\ i \in 1 .. m /\ i + 1 \in 1 .. m
    BY <1>2 DEF ValidTiers
  <1>6. \A i \in 1 .. m - 1 : ts[i].start < ts[i].end
    BY <1>4, <1>5, CardAssumption DEF Within
  <1>7. ts[1].start = 0 /\ ts[m].end = Unbounded
    BY DEF ValidTiers
  <1> QED  BY <1>2, <1>4, <1>5, <1>6, <1>7 DEF Tiered

\* A tier ends before any later one starts.
LEMMA TiersApart ==
    ASSUME NEW ts, NEW m, Tiered(ts, m)
    PROVE  \A j \in 1 .. m : \A i \in 1 .. j - 1 :
              ts[i].end \in Nat /\ ts[i].start < ts[i].end /\ ts[i].end =< ts[j].start
  <1> DEFINE Apart(j) == \A i \in 1 .. j - 1 : ts[i].end =< ts[j].start
             T == {j \in Nat : j \in 1 .. m => Apart(j)}
  <1>1. m \in Nat
    BY DEF Tiered
  <1>2. \A i \in 1 .. m : ts[i].start \in Nat
    BY DEF Tiered
  <1>3. \A i \in 1 .. m - 1 : /\ ts[i].end = ts[i + 1].start /\ ts[i].end \in Nat
                              /\ ts[i].start < ts[i].end
    <2> TAKE i \in 1 .. m - 1
    <2>1. i \in 1 .. m /\ i + 1 \in 1 .. m
      BY <1>1
    <2> QED  BY <1>2, <2>1 DEF Tiered
  <1>4. 0 \in T
    OBVIOUS
  <1>5. ASSUME NEW j \in Nat, j \in T PROVE j + 1 \in T
    <2>1. SUFFICES ASSUME j + 1 \in 1 .. m, NEW i \in 1 .. j
                   PROVE  ts[i].end =< ts[j + 1].start
      OBVIOUS
    <2>2. CASE i = j
      <3>1. i \in 1 .. m - 1 /\ ts[j + 1].start \in Nat
        BY <1>1, <1>2, <2>1
      <3> QED  BY <1>3, <2>2, <3>1
    <2>3. CASE i # j
      <3>1. j \in 1 .. m /\ j \in 1 .. m - 1 /\ i \in 1 .. j - 1 /\ i \in 1 .. m - 1
        BY <1>1, <2>1, <2>3
      <3>2. ts[i].end =< ts[j].start
        BY <1>5, <3>1
      <3>3. ts[j].start < ts[j + 1].start
        BY <1>3, <3>1
      <3>4. ts[i].end \in Nat /\ ts[j].start \in Nat /\ ts[j + 1].start \in Nat
        BY <1>2, <1>3, <2>1, <3>1
      <3> QED  BY <3>2, <3>3, <3>4
    <2> QED  BY <2>2, <2>3
  <1>6. Nat \subseteq T
    <2> HIDE DEF T
    <2> QED  BY <1>4, <1>5, Induct
  <1>7. ASSUME NEW j \in 1 .. m, NEW i \in 1 .. j - 1
        PROVE  ts[i].end \in Nat /\ ts[i].start < ts[i].end /\ ts[i].end =< ts[j].start
    <2>1. i \in 1 .. m - 1 /\ j \in Nat
      BY <1>1
    <2>2. Apart(j)
      BY <1>6, <2>1
    <2> QED  BY <1>3, <2>1, <2>2
  <1> QED  BY <1>7

\* Exactly one tier contains a quantity.
LEMMA TierOf ==
    ASSUME NEW ts, NEW m, Tiered(ts, m), NEW n \in Nat
    PROVE  \E i \in 1 .. m : /\ Contains(ts[i], n)
                             /\ \A j \in 1 .. m : Contains(ts[j], n) => j = i
  <1> DEFINE Last(i) == i = m \/ n < ts[i + 1].start
             T == {i \in 1 .. m : Last(i)}
  <1>1. m \in Nat \ {0} /\ ts[1].start = 0 /\ ts[m].end = Unbounded
    BY DEF Tiered
  <1>2. \A i \in 1 .. m : ts[i].start \in Nat
    BY DEF Tiered
  <1>3. T \subseteq Nat /\ T # {}
    BY <1>1
  <1>4. PICK i \in T : \A j \in T : i =< j
    <2> HIDE DEF T
    <2> QED  BY <1>3, Least
  <1>5. ts[i].start =< n
    <2>1. CASE i = 1
      BY <1>1, <2>1
    <2>2. CASE i # 1
      <3>1. i - 1 \in 1 .. m /\ i - 1 # m /\ i - 1 \notin T /\ (i - 1) + 1 = i
        BY <1>1, <1>4, <2>2
      <3>2. ~(n < ts[i].start)
        BY <3>1
      <3> QED  BY <1>2, <3>2
    <2> QED  BY <2>1, <2>2
  <1>6. Within(n, ts[i].end)
    <2>1. i # m => i \in 1 .. m - 1 /\ n < ts[i + 1].start
      BY <1>1
    <2>2. i # m => ts[i].end = ts[i + 1].start
      BY <2>1 DEF Tiered
    <2> QED  BY <1>1, <2>1, <2>2 DEF Within
  <1>7. ASSUME NEW j \in 1 .. m, NEW l \in 1 .. m, j < l, Contains(ts[j], n), Contains(ts[l], n)
        PROVE  FALSE
    <2>1. j \in 1 .. l - 1
      BY <1>7, <1>1
    <2>2. ts[j].end \in Nat /\ ts[j].end =< ts[l].start
      BY <2>1, TiersApart
    <2> QED  BY <1>2, <1>7, <2>2, CardAssumption DEF Contains, Within
  <1>8. Contains(ts[i], n)
    BY <1>5, <1>6 DEF Contains
  <1>9. ASSUME NEW j \in 1 .. m, Contains(ts[j], n) PROVE j = i
    <2>1. ~(j < i) /\ ~(i < j)
      BY <1>7, <1>8, <1>9
    <2> QED  BY <1>1, <2>1
  <1> QED  BY <1>8, <1>9

-----------------------------------------------------------------------------
(* Components and their sum.                                               *)

\* The sum of the components, before final rounding.
Charge(k, n) == Sum(Components(k, n), DOMAIN Components(k, n))

LEMMA PricedIs ==
    ASSUME NEW k, NEW n
    PROVE  Priced(k, n) =
             [components |-> Components(k, n),
              before |-> FinalOf(k, Charge(k, n)),
              due |-> CASE k.model = "minimum_charge" -> Minimum(k, Charge(k, n))
                        [] k.model = "commitment_credit" -> Credited(k, Charge(k, n))
                        [] OTHER -> FinalOf(k, Charge(k, n))]
  <1>1. \A f : FoldFunction(LAMBDA a, b : a + b, 0, f) = Sum(f, DOMAIN f)
    BY DEF Sum, Adds, FoldFunction, FoldFunctionOnSet, MapThenFoldSet
  <1> QED  BY <1>1 DEF Priced, Charge

\* The tiers of a graduated card that a quantity reaches, and its exact charge.
Reached(k, n) == {i \in DOMAIN k.tiers : k.tiers[i].start < n}
SliceCharge(k, n) == [i \in Reached(k, n) |-> Slice(k.tiers[i], n) * k.tiers[i].price]

LEMMA FlatComponents ==
    ASSUME NEW k, NEW n, k.model \in Flat
    PROVE  DOMAIN Components(k, n) = {1} /\ Components(k, n)[1] = IntermediateOf(k, n * k.price)
  <1>1. Components(k, n) = [i \in {1} |-> IntermediateOf(k, n * k.price)]
    BY DEF Components, Flat
  <1> QED  BY <1>1

LEMMA VolumeComponents ==
    ASSUME NEW k \in Card, ValidCard(k), k.model = "volume_tier", NEW n \in Nat
    PROVE  \E i \in DOMAIN k.tiers :
              /\ Contains(k.tiers[i], n)
              /\ DOMAIN Components(k, n) = {i}
              /\ Components(k, n)[i] = IntermediateOf(k, n * k.tiers[i].price)
  <1>1. Tiered(k.tiers, Len(k.tiers)) /\ DOMAIN k.tiers = 1 .. Len(k.tiers)
    BY TiersOfCard DEF ValidCard, Tiered
  <1>2. PICK i \in DOMAIN k.tiers :
          /\ Contains(k.tiers[i], n)
          /\ \A j \in DOMAIN k.tiers : Contains(k.tiers[j], n) => j = i
    <2> DEFINE ts == k.tiers
               m == Len(k.tiers)
    <2>1. Tiered(ts, m) /\ DOMAIN ts = 1 .. m
      BY <1>1
    <2> HIDE DEF ts, m
    <2>2. \E i \in 1 .. m : /\ Contains(ts[i], n)
                            /\ \A j \in 1 .. m : Contains(ts[j], n) => j = i
      BY <2>1, TierOf
    <2> QED  BY <2>1, <2>2 DEF ts
  <1>3. {j \in DOMAIN k.tiers : Contains(k.tiers[j], n)} = {i}
    BY <1>2
  <1>4. i \in Nat
    BY <1>1
  <1>5. Components(k, n) = Volume(k, n)
    BY DEF Components, Flat
  <1>6. Volume(k, n) = [j \in {i} |-> IntermediateOf(k, n * k.tiers[j].price)]
    BY <1>3, <1>4 DEF Volume
  <1> QED  BY <1>2, <1>5, <1>6

LEMMA GraduatedComponents ==
    ASSUME NEW k \in Card, ValidCard(k), k.model = "graduated_tier", NEW n \in Nat
    PROVE  /\ IsFiniteSet(Reached(k, n))
           /\ n > 0 => Reached(k, n) # {}
           /\ DOMAIN Components(k, n) = Reached(k, n)
           /\ \A i \in Reached(k, n) :
                 /\ SliceCharge(k, n)[i] \in Nat
                 /\ Components(k, n)[i] = IntermediateOf(k, SliceCharge(k, n)[i])
  <1>1. Tiered(k.tiers, Len(k.tiers))
    BY TiersOfCard DEF ValidCard
  <1>2. DOMAIN k.tiers = 1 .. Len(k.tiers) /\ Len(k.tiers) \in Nat \ {0} /\ k.tiers[1].start = 0
    BY <1>1 DEF Tiered
  <1>3. IsFiniteSet(Reached(k, n))
    <2>1. IsFiniteSet(1 .. Len(k.tiers))
      BY <1>2, FS_Interval
    <2>2. Reached(k, n) \in SUBSET (1 .. Len(k.tiers))
      BY <1>2 DEF Reached
    <2> QED  BY <2>1, <2>2, FS_Subset
  <1>4. n > 0 => 1 \in Reached(k, n)
    BY <1>2 DEF Reached
  <1>5. Components(k, n) = [i \in Reached(k, n) |->
            IntermediateOf(k, Slice(k.tiers[i], n) * k.tiers[i].price)]
    BY DEF Components, Flat, Graduated, Reached
  <1>6. ASSUME NEW i \in Reached(k, n) PROVE Slice(k.tiers[i], n) * k.tiers[i].price \in Nat
    <2>1. /\ i \in 1 .. Len(k.tiers) /\ k.tiers[i].start < n
          /\ k.tiers[i].start \in Nat /\ k.tiers[i].price \in Nat
      BY <1>1, <1>2 DEF Reached, Tiered
    <2>2. CASE Within(n, k.tiers[i].end)
      BY <2>1, <2>2 DEF Slice
    <2>3. CASE ~Within(n, k.tiers[i].end)
      <3>1. i # Len(k.tiers) /\ i \in 1 .. Len(k.tiers) - 1
        BY <1>1, <1>2, <2>1, <2>3 DEF Tiered, Within
      <3>2. /\ k.tiers[i].end = k.tiers[i + 1].start /\ k.tiers[i + 1].start \in Nat
            /\ k.tiers[i].start < k.tiers[i].end
        BY <1>1, <3>1 DEF Tiered
      <3>3. Slice(k.tiers[i], n) = k.tiers[i].end - k.tiers[i].start
        BY <2>3 DEF Slice
      <3>4. PICK size \in Nat : size = Slice(k.tiers[i], n)
        BY <2>1, <3>2, <3>3
      <3>5. PICK unitPrice \in Nat : unitPrice = k.tiers[i].price
        BY <2>1
      <3> QED  BY <3>4, <3>5
    <2> QED  BY <2>2, <2>3
  <1> QED  BY <1>3, <1>4, <1>5, <1>6 DEF SliceCharge

\* A valid card has components for every quantity that must have one.
LEMMA ValidCardsCover ==
    ASSUME NEW k \in Card, ValidCard(k), NEW n \in Nat
    PROVE  ~Uncovered(k, n)
  <1>1. CASE k.model \in Flat
    BY <1>1, FlatComponents DEF Uncovered
  <1>2. CASE k.model = "volume_tier"
    BY <1>2, VolumeComponents DEF Uncovered
  <1>3. CASE k.model = "graduated_tier"
    BY <1>3, GraduatedComponents DEF Uncovered
  <1>4. k.model \in Models
    BY DEF Card
  <1> QED  BY <1>1, <1>2, <1>3, <1>4 DEF Models, Flat

LEMMA RoundingsOfCard ==
    ASSUME NEW k \in Card, NEW n \in Nat
    PROVE  /\ IntermediateOf(k, n) \in Nat
           /\ 2 * IntermediateOf(k, n) =< 2 * n + Doubt(Intermediate, k.intermediate)
           /\ 2 * n =< 2 * IntermediateOf(k, n) + Doubt(Intermediate, k.intermediate)
           /\ FinalOf(k, n) \in Nat /\ \E m \in Nat : FinalOf(k, n) = m * Final
           /\ 2 * FinalOf(k, n) =< 2 * n + Doubt(Final, k.final)
           /\ 2 * n =< 2 * FinalOf(k, n) + Doubt(Final, k.final)
           /\ Doubt(Intermediate, k.intermediate) \in Nat /\ Doubt(Final, k.final) \in Nat
           /\ n = 0 => FinalOf(k, n) = 0
  <1>1. k.intermediate \in Modes /\ k.final \in Modes
    BY DEF Card
  <1>2. Intermediate \in Nat \ {0} /\ Final \in Nat \ {0}
    BY QuantumAssumption
  <1>3. Doubt(Intermediate, k.intermediate) \in Nat /\ Doubt(Final, k.final) \in Nat
    BY <1>2 DEF Doubt
  <1> QED  BY <1>1, <1>2, <1>3, Rounded DEF IntermediateOf, FinalOf

LEMMA ComponentsFinite ==
    ASSUME NEW k \in Card, ValidCard(k), NEW n \in Nat
    PROVE  /\ IsFiniteSet(DOMAIN Components(k, n))
           /\ \A i \in DOMAIN Components(k, n) : Components(k, n)[i] \in Nat
           /\ Charge(k, n) \in Nat
  <1>1. \A i \in DOMAIN Components(k, n) : Components(k, n)[i] \in Nat
    <2>1. CASE k.model \in Flat
      <3>1. n * k.price \in Nat
        BY DEF Card
      <3> QED  BY <2>1, <3>1, FlatComponents, RoundingsOfCard
    <2>2. CASE k.model = "volume_tier"
      <3>1. PICK i \in DOMAIN k.tiers :
              /\ DOMAIN Components(k, n) = {i}
              /\ Components(k, n)[i] = IntermediateOf(k, n * k.tiers[i].price)
        BY <2>2, VolumeComponents
      <3>2. k.tiers[i].price \in Nat
        BY <2>2, TiersOfCard DEF ValidCard, Tiered
      <3>3. n * k.tiers[i].price \in Nat
        BY <3>2
      <3> QED  BY <3>1, <3>3, RoundingsOfCard
    <2>3. CASE k.model = "graduated_tier"
      <3>1. /\ DOMAIN Components(k, n) = Reached(k, n)
            /\ \A i \in Reached(k, n) :
                 /\ SliceCharge(k, n)[i] \in Nat
                 /\ Components(k, n)[i] = IntermediateOf(k, SliceCharge(k, n)[i])
        BY <2>3, GraduatedComponents
      <3>2. \A x \in Nat : IntermediateOf(k, x) \in Nat
        BY RoundingsOfCard
      <3> QED  BY <3>1, <3>2
    <2> QED  BY <2>1, <2>2, <2>3 DEF Card, Models, Flat
  <1>2. IsFiniteSet(DOMAIN Components(k, n))
    <2>0. \A x : IsFiniteSet({x})
      BY FS_Singleton
    <2>1. CASE k.model \in Flat
      BY <2>0, <2>1, FlatComponents
    <2>2. CASE k.model = "volume_tier"
      <3>1. \E i : DOMAIN Components(k, n) = {i}
        BY <2>2, VolumeComponents
      <3> QED  BY <2>0, <3>1
    <2>3. CASE k.model = "graduated_tier"
      BY <2>3, GraduatedComponents
    <2> QED  BY <2>1, <2>2, <2>3 DEF Card, Models, Flat
  <1>3. Charge(k, n) \in Int
    BY <1>1, <1>2, SumAdds DEF Charge
  <1>4. 0 =< Charge(k, n)
    <2> DEFINE f == Components(k, n)
               D == DOMAIN f
    <2>1. Sum(f, {}) = 0
      BY SumEmpty
    <2>2. {} \in SUBSET D /\ \A i \in D : f[i] \in Int /\ 0 =< f[i]
      BY <1>1
    <2> HIDE DEF f
    <2>3. Sum(f, {}) =< Sum(f, D)
      BY <1>2, <2>2, SumsOrdered DEF f
    <2> QED  BY <2>1, <2>3 DEF f, Charge
  <1> QED  BY <1>1, <1>2, <1>3, <1>4

-----------------------------------------------------------------------------
(* More is never cheaper.                                                  *)

LEMMA CardRoundingMonotone ==
    ASSUME NEW k \in Card, NEW m \in Nat, NEW n \in Nat, m =< n
    PROVE  IntermediateOf(k, m) =< IntermediateOf(k, n) /\ FinalOf(k, m) =< FinalOf(k, n)
  <1>1. k.intermediate \in Modes /\ k.final \in Modes
    BY DEF Card
  <1>2. Intermediate \in Nat \ {0} /\ Final \in Nat \ {0}
    BY QuantumAssumption
  <1> QED  BY <1>1, <1>2, RoundingMonotone DEF IntermediateOf, FinalOf

\* A larger quantity reaches no less of any tier.
LEMMA SlicesGrow ==
    ASSUME NEW k \in Card, ValidCard(k), k.model = "graduated_tier",
           NEW m \in Nat, NEW n \in Nat, m =< n, NEW i \in Reached(k, m)
    PROVE  i \in Reached(k, n) /\ SliceCharge(k, m)[i] =< SliceCharge(k, n)[i]
  <1>1. Tiered(k.tiers, Len(k.tiers))
    BY TiersOfCard DEF ValidCard
  <1> DEFINE start == k.tiers[i].start
             end == k.tiers[i].end
             unit == k.tiers[i].price
             a == Slice(k.tiers[i], m)
             b == Slice(k.tiers[i], n)
  <1>2. i \in 1 .. Len(k.tiers) /\ start \in Nat /\ unit \in Nat /\ start < m
    BY <1>1 DEF Tiered, Reached
  <1>3. i \in Reached(k, n)
    BY <1>2 DEF Reached
  <1>4. end = Unbounded \/ end \in Nat
    <2>1. Len(k.tiers) \in Nat
      BY <1>1 DEF Tiered
    <2>2. CASE i = Len(k.tiers)
      BY <1>1, <2>2 DEF Tiered
    <2>3. CASE i # Len(k.tiers)
      <3>1. i \in 1 .. Len(k.tiers) - 1 /\ i + 1 \in 1 .. Len(k.tiers)
        BY <1>2, <2>1, <2>3
      <3> QED  BY <1>1, <3>1 DEF Tiered
    <2> QED  BY <2>2, <2>3
  <1>5. SliceCharge(k, m)[i] = a * unit /\ SliceCharge(k, n)[i] = b * unit
    BY <1>3 DEF SliceCharge
  <1>6. Within(start, end)
    BY DEF ValidCard, ValidTiers, Reached
  <1>7. a \in Nat /\ b \in Nat /\ a =< b
    <2>1. /\ a = (IF Within(m, end) THEN m ELSE end) - start
          /\ b = (IF Within(n, end) THEN n ELSE end) - start
      BY DEF Slice
    <2> HIDE DEF a, b, start, end
    <2> QED  BY <1>2, <1>4, <1>6, <2>1, CardAssumption DEF Within
  <1>8. a * unit =< b * unit
    <2> HIDE DEF a, b, unit, end, start
    <2> QED  BY <1>2, <1>7, Times
  <1> QED  BY <1>3, <1>5, <1>8

LEMMA ChargeMonotone ==
    ASSUME NEW k \in Card, ValidCard(k), k.model # "volume_tier",
           NEW m \in Nat, NEW n \in Nat, m =< n
    PROVE  Charge(k, m) =< Charge(k, n)
  <1>1. CASE k.model \in Flat
    <2>1. m * k.price \in Nat /\ n * k.price \in Nat /\ m * k.price =< n * k.price
      BY Times DEF Card
    <2>2. Components(k, m)[1] \in Int /\ Components(k, n)[1] \in Int
      BY <1>1, <2>1, FlatComponents, RoundingsOfCard
    <2>3. Charge(k, m) = Components(k, m)[1] /\ Charge(k, n) = Components(k, n)[1]
      BY <1>1, <2>2, FlatComponents, SumOfOne DEF Charge
    <2> QED  BY <1>1, <2>1, <2>3, FlatComponents, CardRoundingMonotone
  <1>2. CASE k.model = "graduated_tier"
    <2> DEFINE f == Components(k, m)
               g == Components(k, n)
               R == Reached(k, m)
               S == Reached(k, n)
    <2>1. /\ DOMAIN f = R /\ DOMAIN g = S /\ IsFiniteSet(S)
          /\ \A i \in R : SliceCharge(k, m)[i] \in Nat
                            /\ f[i] = IntermediateOf(k, SliceCharge(k, m)[i])
          /\ \A i \in S : SliceCharge(k, n)[i] \in Nat
                            /\ g[i] = IntermediateOf(k, SliceCharge(k, n)[i])
      BY <1>2, GraduatedComponents
    <2>2. \A i \in R : i \in S /\ SliceCharge(k, m)[i] =< SliceCharge(k, n)[i]
      BY <1>2, SlicesGrow
    <2>3. /\ \A i \in R : f[i] \in Nat
          /\ \A i \in S : g[i] \in Nat
      BY <2>1, ComponentsFinite
    <2>4. \A i \in R : f[i] =< g[i]
      <3> HIDE DEF f, g, R, S
      <3> QED  BY <2>1, <2>2, CardRoundingMonotone
    <2>5. Sum(f, R) =< Sum(g, S)
      <3> HIDE DEF f, g, R, S
      <3>1. R \in SUBSET S
        BY <2>2
      <3>2. /\ \A i \in R : f[i] \in Int
            /\ \A i \in S : g[i] \in Int
            /\ \A i \in S \ R : 0 =< g[i]
        BY <2>3
      <3> QED  BY <2>1, <2>4, <3>1, <3>2, SumsOrdered
    <2> QED  BY <2>1, <2>5 DEF Charge
  <1> QED  BY <1>1, <1>2 DEF Card, Models, Flat

LEMMA DueMonotone ==
    ASSUME NEW k \in Card, ValidCard(k), k.model # "volume_tier",
           NEW m \in Nat, NEW n \in Nat, m =< n
    PROVE  Priced(k, m).due =< Priced(k, n).due
  <1> DEFINE c == Charge(k, m)
             d == Charge(k, n)
  <1>1. c \in Nat /\ d \in Nat /\ c =< d
    BY ComponentsFinite, ChargeMonotone
  <1>2. k.amount \in Nat
    BY DEF Card
  <1>3. \A x, y \in Nat : x =< y => FinalOf(k, x) =< FinalOf(k, y)
    BY CardRoundingMonotone
  <1>4. \A x \in Nat : FinalOf(k, x) \in Nat
    BY RoundingsOfCard
  <1> HIDE DEF c, d
  <1>5. FinalOf(k, c) =< FinalOf(k, d)
    BY <1>1, <1>3
  <1>6. Minimum(k, c) =< Minimum(k, d)
    BY <1>1, <1>2, <1>4, <1>5 DEF Minimum, Max
  <1>7. Credited(k, c) =< Credited(k, d)
    <2>1. /\ Max(c - k.amount, 0) \in Nat /\ Max(d - k.amount, 0) \in Nat
          /\ Max(c - k.amount, 0) =< Max(d - k.amount, 0)
      BY <1>1, <1>2 DEF Max
    <2> QED  BY <1>3, <2>1 DEF Credited
  <1>8. \A x \in Nat : Priced(k, x).due =
            CASE k.model = "minimum_charge" -> Minimum(k, Charge(k, x))
              [] k.model = "commitment_credit" -> Credited(k, Charge(k, x))
              [] OTHER -> FinalOf(k, Charge(k, x))
    BY PricedIs
  <1> QED  BY <1>5, <1>6, <1>7, <1>8 DEF c, d

-----------------------------------------------------------------------------
(* The exact charge.                                                       *)

LEMMA TierPriceIs ==
    ASSUME NEW k, NEW m, Tiered(k.tiers, m), NEW n \in Nat,
           NEW i \in 1 .. m, Contains(k.tiers[i], n)
    PROVE  TierPrice(k, n) = k.tiers[i].price
  <1> DEFINE ts == k.tiers
             Newest(t) == t.start =< n /\ \A u \in Range(ts) : u.start =< n => u.start =< t.start
  <1>1. m \in Nat /\ DOMAIN ts = 1 .. m /\ \A j \in 1 .. m : ts[j].start \in Nat
    BY DEF Tiered
  <1>2. Range(ts) = {ts[j] : j \in 1 .. m}
    BY <1>1 DEF Range
  <1>3. ts[i].start =< n /\ Within(n, ts[i].end)
    BY DEF Contains
  <1>4. ASSUME NEW j \in 1 .. m, ts[j].start =< n PROVE ts[j].start =< ts[i].start
    <2>1. CASE j =< i
      <3>1. j = i \/ j \in 1 .. i - 1
        BY <1>1, <2>1
      <3>2. j \in 1 .. i - 1 => /\ ts[j].end \in Nat /\ ts[j].start < ts[j].end
                                /\ ts[j].end =< ts[i].start
        BY TiersApart
      <3>3. ts[j].start \in Nat /\ ts[i].start \in Nat
        BY <1>1
      <3> HIDE DEF ts
      <3> QED  BY <3>1, <3>2, <3>3
    <2>2. CASE i < j
      <3>1. i \in 1 .. j - 1
        BY <1>1, <2>2
      <3>2. ts[i].end \in Nat /\ ts[i].end =< ts[j].start
        BY <3>1, TiersApart
      <3>3. n < ts[i].end
        BY <1>3, <3>2, CardAssumption DEF Within
      <3> QED  BY <1>1, <1>4, <3>2, <3>3
    <2> QED  BY <1>1, <2>1, <2>2
  <1>5. ts[i] \in Range(ts) /\ Newest(ts[i])
    BY <1>2, <1>3, <1>4
  <1>6. ASSUME NEW t \in Range(ts), Newest(t) PROVE t = ts[i]
    <2>1. PICK j \in 1 .. m : t = ts[j]
      BY <1>2
    <2>2. ts[j].start =< n /\ ts[i].start =< ts[j].start
      BY <1>5, <1>3, <1>6, <2>1
    <2>3. CASE j < i
      <3>1. j \in 1 .. i - 1
        BY <1>1, <2>3
      <3>2. ts[j].end \in Nat /\ ts[j].start < ts[j].end /\ ts[j].end =< ts[i].start
        BY <3>1, TiersApart
      <3> QED  BY <1>1, <2>2, <3>2
    <2>4. CASE i < j
      <3>1. i \in 1 .. j - 1
        BY <1>1, <2>4
      <3>2. ts[i].end \in Nat /\ ts[i].end =< ts[j].start
        BY <3>1, TiersApart
      <3>3. n < ts[i].end
        BY <1>3, <3>2, CardAssumption DEF Within
      <3> QED  BY <1>1, <2>2, <3>2, <3>3
    <2> QED  BY <1>1, <2>1, <2>3, <2>4
  <1>7. (CHOOSE t \in Range(ts) : Newest(t)) = ts[i]
    <2> HIDE DEF ts, Newest
    <2> QED  BY <1>5, <1>6
  <1> QED  BY <1>7 DEF TierPrice

\* What a graduated card charges for n units, before any rounding.
UnitByUnit(k, n) == Sum([x \in 0 .. n - 1 |-> TierPrice(k, x)], 0 .. n - 1)

LEMMA ExactIs ==
    ASSUME NEW k, NEW n
    PROVE  Exact(k, n) =
             CASE k.model \in Flat -> n * k.price
               [] k.model = "volume_tier" -> n * TierPrice(k, n)
               [] k.model = "graduated_tier" -> UnitByUnit(k, n)
  <1>1. \A f : FoldFunction(LAMBDA a, b : a + b, 0, f) = Sum(f, DOMAIN f)
    BY DEF Sum, Adds, FoldFunction, FoldFunctionOnSet, MapThenFoldSet
  <1>2. DOMAIN [x \in 0 .. n - 1 |-> TierPrice(k, x)] = 0 .. n - 1
    OBVIOUS
  <1> QED  BY <1>1, <1>2 DEF Exact, UnitByUnit

LEMMA UnitsAdd ==
    ASSUME NEW k, NEW n \in Nat, \A x \in Nat : TierPrice(k, x) \in Nat
    PROVE  /\ UnitByUnit(k, n) \in Int
           /\ UnitByUnit(k, n + 1) = TierPrice(k, n) + UnitByUnit(k, n)
  <1> DEFINE f == [x \in 0 .. n - 1 |-> TierPrice(k, x)]
             g == [x \in 0 .. (n + 1) - 1 |-> TierPrice(k, x)]
  <1>1. 0 .. (n + 1) - 1 = 0 .. n /\ (0 .. n) \ {n} = 0 .. n - 1 /\ n \in 0 .. n
    OBVIOUS
  <1>2. IsFiniteSet(0 .. n) /\ IsFiniteSet(0 .. n - 1)
    BY FS_Interval
  <1>3. /\ \A x \in 0 .. n : g[x] \in Int
        /\ \A x \in 0 .. n - 1 : f[x] \in Int /\ g[x] = f[x]
        /\ g[n] = TierPrice(k, n)
    BY <1>1
  <1> HIDE DEF f, g
  <1>4. Sum(f, 0 .. n - 1) \in Int
    BY <1>2, <1>3, SumAdds
  <1>5. Sum(g, 0 .. n) = g[n] + Sum(g, (0 .. n) \ {n})
    <2> DEFINE U == 0 .. n
    <2>1. Summable(g, U) /\ n \in U
      BY <1>2, <1>3 DEF Summable
    <2> HIDE DEF U
    <2>2. Sum(g, U) = g[n] + Sum(g, U \ {n})
      BY <2>1, SumTakes
    <2> QED  BY <2>2 DEF U
  <1>6. Sum(f, 0 .. n - 1) = Sum(g, 0 .. n - 1)
    BY <1>2, <1>3, SumsEqual
  <1> QED  BY <1>1, <1>3, <1>4, <1>5, <1>6 DEF UnitByUnit, f, g

\* The unit that follows the first n ones adds its tier's price to the slices.
LEMMA SlicesAdd ==
    ASSUME NEW k \in Card, ValidCard(k), k.model = "graduated_tier", NEW n \in Nat
    PROVE  /\ Sum(SliceCharge(k, n), Reached(k, n)) \in Int
           /\ TierPrice(k, n) \in Nat
           /\ Sum(SliceCharge(k, n + 1), Reached(k, n + 1))
                = TierPrice(k, n) + Sum(SliceCharge(k, n), Reached(k, n))
  <1> DEFINE f == SliceCharge(k, n)
             g == SliceCharge(k, n + 1)
             R == Reached(k, n)
             S == Reached(k, n + 1)
             ts == k.tiers
             m == Len(k.tiers)
  <1>1. Tiered(ts, m) /\ DOMAIN ts = 1 .. m /\ m \in Nat
    BY TiersOfCard DEF ValidCard, Tiered
  <1>2. \A j \in 1 .. m : /\ ts[j].start \in Nat /\ ts[j].price \in Nat
                          /\ Within(ts[j].start, ts[j].end)
    BY <1>1 DEF Tiered, ValidCard, ValidTiers
  <1>3. \A j \in 1 .. m : ts[j].end = Unbounded \/ ts[j].end \in Nat
    <2> TAKE j \in 1 .. m
    <2>1. CASE j = m
      BY <1>1, <2>1 DEF Tiered
    <2>2. CASE j # m
      <3>1. j \in 1 .. m - 1 /\ j + 1 \in 1 .. m
        BY <1>1, <2>2
      <3> QED  BY <1>1, <3>1 DEF Tiered
    <2> QED  BY <2>1, <2>2
  <1>4. PICK i \in 1 .. m : /\ Contains(ts[i], n)
                            /\ \A j \in 1 .. m : Contains(ts[j], n) => j = i
    <2> HIDE DEF ts, m
    <2> QED  BY <1>1, TierOf
  <1>5. TierPrice(k, n) = ts[i].price
    BY <1>1, <1>4, TierPriceIs
  <1>6. i \in S
    BY <1>1, <1>2, <1>4 DEF Reached, Contains
  <1>7. ASSUME NEW j \in S, j # i PROVE j \in R
    <2>1. j \in 1 .. m /\ ts[j].start \in Nat /\ ts[j].start =< n
      BY <1>1, <1>2 DEF Reached
    <2>2. ts[j].start # n
      BY <1>2, <1>4, <1>7, <2>1 DEF Contains
    <2> QED  BY <1>1, <2>1, <2>2 DEF Reached
  <1>8. ASSUME NEW j \in R PROVE j \in S /\ j \in 1 .. m /\ ts[j].start < n
    BY <1>1, <1>2 DEF Reached
  <1>9. S \ {i} = R \ {i}
    BY <1>7, <1>8
  <1>10. ASSUME NEW j \in R, j # i PROVE g[j] = f[j]
    <2>1. ~Within(n, ts[j].end)
      BY <1>2, <1>4, <1>8, <1>10 DEF Contains
    <2>2. ~Within(n + 1, ts[j].end)
      BY <1>3, <1>8, <2>1 DEF Within
    <2>3. Slice(ts[j], n + 1) = Slice(ts[j], n)
      BY <2>1, <2>2 DEF Slice
    <2> QED  BY <1>8, <1>10, <2>3 DEF SliceCharge
  <1>11. g[i] = ((n + 1) - ts[i].start) * ts[i].price
    <2>1. Slice(ts[i], n + 1) = (n + 1) - ts[i].start
      <3>1. ts[i].end = Unbounded \/ (ts[i].end \in Nat /\ n < ts[i].end)
        BY <1>3, <1>4, CardAssumption DEF Contains, Within
      <3> QED  BY <1>2, <3>1 DEF Slice, Within
    <2> QED  BY <1>6, <2>1 DEF SliceCharge
  <1>12. i \in R => f[i] = (n - ts[i].start) * ts[i].price
    BY <1>4 DEF SliceCharge, Slice, Contains
  <1>13. i \notin R => ts[i].start = n
    BY <1>1, <1>2, <1>4 DEF Reached, Contains
  <1>14. /\ IsFiniteSet(R) /\ \A j \in R : f[j] \in Int
         /\ IsFiniteSet(S) /\ \A j \in S : g[j] \in Int
    <2>1. IsFiniteSet(R) /\ \A j \in R : f[j] \in Nat
      BY GraduatedComponents
    <2>2. IsFiniteSet(S) /\ \A j \in S : g[j] \in Nat
      <3>1. n + 1 \in Nat
        OBVIOUS
      <3> QED  BY <3>1, GraduatedComponents
    <2> QED  BY <2>1, <2>2
  <1>15. Sum(g, S) = g[i] + Sum(g, S \ {i}) /\ Sum(f, R) \in Int
    <2>1. Summable(f, R) /\ Summable(g, S)
      BY <1>14 DEF Summable
    <2> HIDE DEF f, g, R, S
    <2> QED  BY <1>6, <2>1, SumTakes
  <1>16. Sum(f, R \ {i}) = Sum(g, S \ {i}) /\ Sum(f, R \ {i}) \in Int
    <2> HIDE DEF f, g, R, S
    <2>1. IsFiniteSet(R \ {i}) /\ \A j \in R \ {i} : f[j] \in Int /\ g[j] = f[j]
      BY <1>10, <1>14, FS_Difference
    <2>2. Sum(f, R \ {i}) = Sum(g, R \ {i}) /\ Sum(f, R \ {i}) \in Int
      BY <2>1, SumsEqual, SumAdds
    <2> QED  BY <1>9, <2>2
  <1>17. Sum(g, S) = ts[i].price + Sum(f, R)
    <2>1. PICK start \in Nat, unit \in Nat : start = ts[i].start /\ unit = ts[i].price
      BY <1>2
    <2>2. CASE i \in R
      <3>1. Sum(f, R) = f[i] + Sum(f, R \ {i})
        <4>1. Summable(f, R)
          BY <1>14 DEF Summable
        <4> HIDE DEF f, R
        <4> QED  BY <2>2, <4>1, SumTakes
      <3>2. g[i] = unit + f[i] /\ f[i] \in Int
        <4>1. ((n + 1) - start) * unit = unit + (n - start) * unit
          OBVIOUS
        <4> QED  BY <1>11, <1>12, <1>14, <2>1, <2>2, <4>1
      <3> HIDE DEF f, g, R, S, ts
      <3> QED  BY <1>15, <1>16, <2>1, <3>1, <3>2
    <2>3. CASE i \notin R
      <3>1. R \ {i} = R
        BY <2>3
      <3>2. g[i] = unit
        <4>1. ((n + 1) - n) * unit = unit
          OBVIOUS
        <4> QED  BY <1>11, <1>13, <2>1, <2>3, <4>1
      <3> HIDE DEF f, g, R, S, ts
      <3> QED  BY <1>15, <1>16, <2>1, <3>1, <3>2
    <2> QED  BY <2>2, <2>3
  <1>18. ts[i].price \in Nat
    BY <1>2
  <1> QED  BY <1>5, <1>15, <1>17, <1>18

\* The exact charge of a graduated card is that of its slices.
LEMMA SlicesAreUnits ==
    ASSUME NEW k \in Card, ValidCard(k), k.model = "graduated_tier"
    PROVE  \A n \in Nat : Exact(k, n) = Sum(SliceCharge(k, n), Reached(k, n))
  <1> DEFINE charge(n) == Sum(SliceCharge(k, n), Reached(k, n))
             T == {n \in Nat : UnitByUnit(k, n) = charge(n)}
  <1>1. 0 \in T
    <2>1. Tiered(k.tiers, Len(k.tiers))
      BY TiersOfCard DEF ValidCard
    <2>2. Reached(k, 0) = {}
      BY <2>1 DEF Tiered, Reached
    <2>3. 0 .. 0 - 1 = {}
      OBVIOUS
    <2>4. charge(0) = 0 /\ UnitByUnit(k, 0) = 0
      BY <2>2, <2>3, SumEmpty DEF UnitByUnit
    <2> QED  BY <2>4
  <1>2. \A n \in Nat : TierPrice(k, n) \in Nat
    BY SlicesAdd
  <1>3. ASSUME NEW n \in Nat, n \in T PROVE n + 1 \in T
    <2>1. UnitByUnit(k, n + 1) = TierPrice(k, n) + UnitByUnit(k, n)
      BY <1>2, UnitsAdd
    <2>2. charge(n + 1) = TierPrice(k, n) + charge(n)
      BY SlicesAdd
    <2> HIDE DEF charge
    <2> QED  BY <1>3, <2>1, <2>2
  <1>4. Nat \subseteq T
    <2> HIDE DEF T
    <2> QED  BY <1>1, <1>3, Induct
  <1>5. ASSUME NEW n \in Nat PROVE Exact(k, n) = UnitByUnit(k, n)
    BY ExactIs DEF Flat
  <1> QED  BY <1>4, <1>5

\* The sum of the components is as close to the exact charge as one rounding
\* of each allows.
ComponentDoubt(k, n) ==
    Cardinality(DOMAIN Components(k, n)) * Doubt(Intermediate, k.intermediate)

LEMMA ChargeClose ==
    ASSUME NEW k \in Card, ValidCard(k), NEW n \in Nat
    PROVE  /\ ComponentDoubt(k, n) \in Nat /\ Exact(k, n) \in Int
           /\ 2 * Charge(k, n) =< 2 * Exact(k, n) + ComponentDoubt(k, n)
           /\ 2 * Exact(k, n) =< 2 * Charge(k, n) + ComponentDoubt(k, n)
  <1> DEFINE one == Doubt(Intermediate, k.intermediate)
             f == Components(k, n)
             D == DOMAIN f
             doubt == ComponentDoubt(k, n)
  <1>1. one \in Nat
    BY RoundingsOfCard
  <1>2. IsFiniteSet(D) /\ \A i \in D : f[i] \in Int
    BY ComponentsFinite
  <1>3. Cardinality(D) \in Nat
    BY <1>2, FS_CardinalityType
  <1>4. doubt \in Nat
    <2>1. doubt = Cardinality(D) * one
      BY DEF ComponentDoubt
    <2> HIDE DEF one, D, doubt
    <2> QED  BY <1>1, <1>3, <2>1
  <1>5. ASSUME NEW x, D = {x}, NEW exact \in Nat, f[x] = IntermediateOf(k, exact),
               Exact(k, n) = exact
        PROVE  /\ Exact(k, n) \in Int
               /\ 2 * Charge(k, n) =< 2 * Exact(k, n) + doubt
               /\ 2 * Exact(k, n) =< 2 * Charge(k, n) + doubt
    <2>1. Cardinality(D) = 1
      BY <1>5, FS_Singleton
    <2>2. Charge(k, n) = f[x]
      BY <1>2, <1>5, SumOfOne DEF Charge
    <2>3. doubt = one
      <3>1. doubt = Cardinality(D) * one
        BY DEF ComponentDoubt
      <3> HIDE DEF one, D, doubt
      <3> QED  BY <1>1, <2>1, <3>1
    <2>4. 2 * f[x] =< 2 * exact + one /\ 2 * exact =< 2 * f[x] + one
      BY <1>5, RoundingsOfCard
    <2> QED  BY <1>5, <2>2, <2>3, <2>4
  <1>6. CASE k.model \in Flat
    <2>1. k.price \in Nat /\ Exact(k, n) = n * k.price
      BY <1>6, ExactIs DEF Card, Flat
    <2>2. n * k.price \in Nat
      BY <2>1
    <2> QED  BY <1>4, <1>5, <1>6, <2>1, <2>2, FlatComponents
  <1>7. CASE k.model = "volume_tier"
    <2>1. PICK i \in DOMAIN k.tiers :
            /\ Contains(k.tiers[i], n)
            /\ D = {i} /\ f[i] = IntermediateOf(k, n * k.tiers[i].price)
      BY <1>7, VolumeComponents
    <2>2. Tiered(k.tiers, Len(k.tiers)) /\ DOMAIN k.tiers = 1 .. Len(k.tiers)
      BY <1>7, TiersOfCard DEF ValidCard, Tiered
    <2>3. TierPrice(k, n) = k.tiers[i].price
      BY <2>1, <2>2, TierPriceIs
    <2>4. k.tiers[i].price \in Nat
      BY <2>2 DEF Tiered
    <2>5. Exact(k, n) = n * k.tiers[i].price /\ n * k.tiers[i].price \in Nat
      BY <1>7, <2>3, <2>4, ExactIs DEF Flat
    <2> QED  BY <1>4, <1>5, <2>1, <2>5
  <1>8. CASE k.model = "graduated_tier"
    <2> DEFINE g == SliceCharge(k, n)
    <2>1. /\ D = Reached(k, n)
          /\ \A i \in D : g[i] \in Nat /\ f[i] = IntermediateOf(k, g[i])
      BY <1>8, GraduatedComponents
    <2>2. Exact(k, n) = Sum(g, D)
      BY <1>8, <2>1, SlicesAreUnits
    <2>3. \A i \in D : /\ f[i] \in Int /\ g[i] \in Int
                       /\ 2 * f[i] =< 2 * g[i] + one /\ 2 * g[i] =< 2 * f[i] + one
      <3>1. \A x \in Nat : /\ IntermediateOf(k, x) \in Int
                           /\ 2 * IntermediateOf(k, x) =< 2 * x + one
                           /\ 2 * x =< 2 * IntermediateOf(k, x) + one
        BY RoundingsOfCard
      <3> HIDE DEF f, g, D, one
      <3> QED  BY <2>1, <3>1
    <2> HIDE DEF f, g, D, one
    <2>4. Sum(g, D) \in Int
      BY <1>2, <2>3, SumAdds
    <2>5. 2 * Sum(f, D) =< 2 * Sum(g, D) + Cardinality(D) * one
      BY <1>1, <1>2, <2>3, SumsClose
    <2>6. 2 * Sum(g, D) =< 2 * Sum(f, D) + Cardinality(D) * one
      BY <1>1, <1>2, <2>3, SumsClose
    <2> QED  BY <1>4, <2>2, <2>4, <2>5, <2>6 DEF Charge, ComponentDoubt, f, D, one
  <1> QED  BY <1>4, <1>6, <1>7, <1>8 DEF Card, Models, Flat

-----------------------------------------------------------------------------
(* What a price promises.                                                  *)

LEMMA ChargeBounded ==
    ASSUME NEW k \in Card, ValidCard(k), NEW n \in Nat
    PROVE  LET off == FinalOf(k, Charge(k, n)) - Exact(k, n)
           IN  2 * (IF off < 0 THEN -off ELSE off) =<
                  Cardinality(DOMAIN Components(k, n)) * Doubt(Intermediate, k.intermediate)
                  + Doubt(Final, k.final)
  <1>1. PICK c \in Nat : c = Charge(k, n)
    BY ComponentsFinite
  <1>2. PICK doubt \in Nat : doubt = ComponentDoubt(k, n)
    BY ChargeClose
  <1>3. PICK exact \in Int : exact = Exact(k, n)
    BY ChargeClose
  <1>4. 2 * c =< 2 * exact + doubt /\ 2 * exact =< 2 * c + doubt
    BY <1>1, <1>2, <1>3, ChargeClose
  <1>5. PICK last \in Nat : last = Doubt(Final, k.final)
    BY RoundingsOfCard
  <1>6. PICK before \in Nat : before = FinalOf(k, c)
    BY RoundingsOfCard
  <1>7. 2 * before =< 2 * c + last /\ 2 * c =< 2 * before + last
    BY <1>5, <1>6, RoundingsOfCard
  <1>8. 2 * (IF before - exact < 0 THEN -(before - exact) ELSE before - exact) =< doubt + last
    BY <1>4, <1>7
  <1> QED  BY <1>1, <1>2, <1>3, <1>5, <1>6, <1>8 DEF ComponentDoubt

\* Two roundings of one card differ by what they round, to within a quantum.
LEMMA RoundingsDiffer ==
    ASSUME NEW k \in Card, NEW m \in Nat, NEW n \in Nat, m =< n
    PROVE  /\ FinalOf(k, n) - FinalOf(k, m) =< (n - m) + Final
           /\ (n - m) - Final =< FinalOf(k, n) - FinalOf(k, m)
  <1> DEFINE q == Final
             a == (m \div q) * q
             b == (n \div q) * q
             x == FinalOf(k, m)
             y == FinalOf(k, n)
             mode == k.final
  <1>1. q \in Nat \ {0} /\ mode \in Modes
    BY QuantumAssumption DEF Card
  <1>2. a \in Nat /\ b \in Nat /\ a =< m /\ m < a + q /\ b =< n /\ n < b + q
    <2> HIDE DEF q
    <2> QED  BY <1>1, Division
  <1>3. RoundsTo(x, m, q, mode, a) /\ RoundsTo(y, n, q, mode, b)
    <2>1. x = Quantize(m, q, mode) /\ y = Quantize(n, q, mode)
      BY DEF FinalOf
    <2> HIDE DEF q, mode, x, y
    <2> QED  BY <1>1, <2>1, Rounds
  <1> HIDE DEF q, a, b, x, y, mode
  <1>4. (x = a \/ x = a + q) /\ (y = b \/ y = b + q)
    BY <1>3 DEF RoundsTo
  <1>5. y - x =< (n - m) + q /\ (n - m) - q =< y - x
    <2>1. CASE mode = "down"
      BY <1>1, <1>2, <1>3, <1>4, <2>1 DEF RoundsTo
    <2>2. CASE mode = "up"
      BY <1>1, <1>2, <1>3, <1>4, <2>2 DEF RoundsTo
    <2>3. CASE mode \in {"half_even", "half_up"}
      BY <1>1, <1>2, <1>3, <1>4, <2>3 DEF RoundsTo
    <2> QED  BY <1>1, <2>1, <2>2, <2>3 DEF Modes
  <1> QED  BY <1>5 DEF q, x, y

LEMMA AdjustmentOf ==
    ASSUME NEW k \in Card, ValidCard(k), NEW n \in Nat, NEW before, NEW due,
           before = Priced(k, n).before, due = Priced(k, n).due
    PROVE  CASE k.model = "minimum_charge" ->
                  /\ before =< due
                  /\ before < due => due - k.amount \in -Final .. Final
             [] k.model = "commitment_credit" ->
                  /\ 0 =< due /\ due =< before
                  /\ before - due =< k.amount + Final
                  /\ 0 < due => k.amount - Final =< before - due
             [] OTHER -> due = before
  <1>1. PICK c \in Nat : c = Charge(k, n)
    BY ComponentsFinite
  <1>2. /\ before = FinalOf(k, c)
        /\ due = CASE k.model = "minimum_charge" -> Minimum(k, c)
                   [] k.model = "commitment_credit" -> Credited(k, c)
                   [] OTHER -> FinalOf(k, c)
    BY <1>1, PricedIs
  <1>3. k.amount \in Nat /\ Final \in Nat
    BY QuantumAssumption DEF Card
  <1>4. \A x \in Nat : FinalOf(k, x) \in Nat /\ (x = 0 => FinalOf(k, x) = 0)
    BY RoundingsOfCard
  <1>5. \A x, y \in Nat : x =< y =>
            /\ FinalOf(k, x) =< FinalOf(k, y)
            /\ FinalOf(k, y) - FinalOf(k, x) =< (y - x) + Final
            /\ (y - x) - Final =< FinalOf(k, y) - FinalOf(k, x)
    BY CardRoundingMonotone, RoundingsDiffer
  <1>6. CASE k.model = "minimum_charge"
    <2>1. due = Max(before, FinalOf(k, k.amount))
      BY <1>2, <1>6 DEF Minimum
    <2>2. FinalOf(k, k.amount) - k.amount \in -Final .. Final
      <3>1. 0 \in Nat /\ FinalOf(k, 0) = 0 /\ FinalOf(k, k.amount) \in Nat
        BY <1>3, <1>4
      <3>2. /\ FinalOf(k, k.amount) - FinalOf(k, 0) =< (k.amount - 0) + Final
            /\ (k.amount - 0) - Final =< FinalOf(k, k.amount) - FinalOf(k, 0)
        BY <1>3, <1>5
      <3> QED  BY <1>3, <3>1, <3>2
    <2>3. before \in Nat /\ FinalOf(k, k.amount) \in Nat
      BY <1>2, <1>3, <1>4
    <2> QED  BY <1>6, <2>1, <2>2, <2>3 DEF Max
  <1>7. CASE k.model = "commitment_credit"
    <2>1. PICK rest \in Nat : rest = Max(c - k.amount, 0)
      BY <1>3 DEF Max
    <2>2. rest =< c /\ (rest = c - k.amount \/ (rest = 0 /\ c =< k.amount))
      BY <1>3, <2>1 DEF Max
    <2>3. due = FinalOf(k, rest) /\ before = FinalOf(k, c)
      BY <1>2, <1>7, <2>1 DEF Credited
    <2>4. due \in Nat /\ before \in Nat /\ (rest = 0 => due = 0)
      BY <1>4, <2>3
    <2>5. due =< before /\ before - due =< (c - rest) + Final /\ (c - rest) - Final =< before - due
      BY <1>5, <2>2, <2>3
    <2> QED  BY <1>3, <1>7, <2>2, <2>4, <2>5
  <1>8. CASE k.model \notin {"minimum_charge", "commitment_credit"}
    BY <1>2, <1>8
  <1> QED  BY <1>6, <1>7, <1>8

-----------------------------------------------------------------------------
(* The state machine.                                                      *)

Recording == {"recorded", "unrecorded", "undivided"}
Pricing == {"accepted", "priced"} \cup Recording

\* Only accepted cards price anything, what was priced is the price of the
\* quantity at hand, and the records are those of that price; without them, an
\* amount was not divided or a record was refused.
IInv ==
    /\ card \in Cards /\ quantity \in Nat
    /\ status \in Pricing \cup {"offered", "refused"}
    /\ status \in Pricing => ValidCard(card)
    /\ status \in {"priced"} \cup Recording =>
           quantity \in Quantities /\ price = Priced(card, quantity)
    /\ status \in Recording => spec \in Specs
    /\ status = "undivided" => ~Divisible(spec)
    /\ status = "recorded" => records = RecordsOf(spec)
    /\ status = "unrecorded" => \E i \in DOMAIN spec : ~AcceptsRecord(RecordsOf(spec)[i])

LEMMA InvStep == IInv /\ [RecordsNext]_recordVars => IInv'
  <1> SUFFICES ASSUME IInv, [RecordsNext]_recordVars PROVE IInv'
    OBVIOUS
  <1>1. CASE Accept
    BY <1>1 DEF IInv, Accept, Pricing, Recording
  <1>2. ASSUME NEW n \in Quantities, CalculatePrice(n) PROVE IInv'
    <2>1. n \in Nat /\ status \in Pricing
      BY <1>2, QuantityAssumption DEF CalculatePrice, IInv, Pricing, Recording
    <2>2. ~Uncovered(card, n)
      BY <2>1, CardAssumption, ValidCardsCover DEF IInv
    <2> QED  BY <1>2, <2>1, <2>2 DEF IInv, CalculatePrice, Pricing, Recording
  <1>3. ASSUME NEW s \in Specs, Record(s) PROVE IInv'
    <2>1. /\ status = "priced" /\ spec' = s /\ UNCHANGED <<card, quantity, price>>
      BY <1>3 DEF Record
    <2>2. RecordsOf(spec)' = RecordsOf(s) /\ Divisible(spec)' = Divisible(s)
      BY <2>1 DEF RecordsOf, Adjustments, QuantityShares, Divisible, Divisions
    <2>3. CASE ~Divisible(s)
      <3>1. status' = "undivided"
        BY <1>3, <2>3 DEF Record
      <3> QED  BY <2>1, <2>2, <2>3, <3>1 DEF IInv, Pricing, Recording
    <2>4. CASE Divisible(s)
      <3>1. IF \A i \in DOMAIN s : AcceptsRecord(RecordsOf(s)[i])
            THEN status' = "recorded" /\ records' = RecordsOf(s)
            ELSE status' = "unrecorded"
        BY <1>3, <2>4 DEF Record
      <3> QED  BY <2>1, <2>2, <3>1 DEF IInv, Pricing, Recording, AcceptsRecord
    <2> QED  BY <2>3, <2>4
  <1>4. CASE UNCHANGED recordVars
    <2>1. RecordsOf(spec)' = RecordsOf(spec) /\ Divisible(spec)' = Divisible(spec)
      BY <1>4 DEF recordVars, vars, RecordsOf, Adjustments, QuantityShares,
                  Divisible, Divisions
    <2> QED  BY <1>4, <2>1 DEF IInv, recordVars, vars, AcceptsRecord
  <1> QED  BY <1>1, <1>2, <1>3, <1>4 DEF RecordsNext, Price, Next

\* Whatever cards and quantities are offered, accepted cards price all of them
\* and a price is that of its card and quantity.
THEOREM Invariance == RecordsSpec => []IInv
  <1>1. RecordsInit => IInv
    BY DEF RecordsInit, Init, IInv, Pricing, Recording
  <1> QED  BY <1>1, InvStep, PTL DEF RecordsSpec

\* Tiers that RateCardV1 accepts leave no quantity without a price: neither
\* InvalidTier branch of the pricing functions can run.
THEOREM CardsCover == RecordsSpec => []AcceptedCardsPriceAll
  <1>1. IInv => AcceptedCardsPriceAll
    BY DEF IInv, AcceptedCardsPriceAll, Pricing, Recording
  <1> QED  BY <1>1, Invariance, PTL

\* For any tiers, prices, quanta and modes, the charge before adjustment is as
\* near to the exact one as its roundings allow.
THEOREM Roundings == RecordsSpec => []WithinRounding
  <1>1. IInv => WithinRounding
    <2> SUFFICES ASSUME IInv, status = "priced" PROVE WithinRounding
      BY DEF WithinRounding
    <2>1. card \in Card /\ ValidCard(card) /\ quantity \in Nat /\ price = Priced(card, quantity)
      BY CardAssumption DEF IInv, Pricing
    <2>2. /\ price.before = FinalOf(card, Charge(card, quantity))
          /\ price.components = Components(card, quantity)
      BY <2>1, PricedIs
    <2> QED  BY <2>1, <2>2, ChargeBounded DEF WithinRounding
  <1> QED  BY <1>1, Invariance, PTL

\* Whoever uses more never pays less, but under volume tiers.
THEOREM Monotone == RecordsSpec => []MoreNeverCheaper
  <1>1. IInv => MoreNeverCheaper
    BY CardAssumption, QuantityAssumption, DueMonotone DEF IInv, MoreNeverCheaper, Pricing
  <1> QED  BY <1>1, Invariance, PTL

\* Minimums only top up, to themselves; credits take their own worth and no
\* more than is due.
THEOREM AdjustmentsWithin == RecordsSpec => []AdjustmentsBounded
  <1>1. IInv => AdjustmentsBounded
    <2> SUFFICES ASSUME IInv, status = "priced" PROVE AdjustmentsBounded
      BY DEF AdjustmentsBounded
    <2>1. card \in Card /\ ValidCard(card) /\ quantity \in Nat /\ price = Priced(card, quantity)
      BY CardAssumption DEF IInv, Pricing
    <2> QED  BY <2>1, AdjustmentOf DEF AdjustmentsBounded
  <1> QED  BY <1>1, Invariance, PTL

-----------------------------------------------------------------------------
(* The records of a price.                                                 *)

\* The digits are enough for the amounts that are divided into records.
DigitsSuffice ==
    \A k \in Cards, n \in Quantities, s \in Specs : ValidCard(k) =>
        /\ EnoughDigits(n * PerUnit, s)
        /\ EnoughDigits(Quanta(Priced(k, n).before), s)
        /\ EnoughDigits(Quanta(Priced(k, n).due), s)

\* An amount is a whole number of currency quanta.
LEMMA QuantaOf ==
    ASSUME NEW a \in Int
    PROVE  Quanta(a * Final) = a
  <1>1. PICK q \in Nat \ {0} : q = Final
    BY QuantumAssumption
  <1>2. (a * q) \div q = a
    OBVIOUS
  <1> QED  BY <1>1, <1>2 DEF Quanta

LEMMA PricedInQuanta ==
    ASSUME NEW k \in Card, ValidCard(k), NEW n \in Nat
    PROVE  /\ \E m \in Nat : Priced(k, n).before = m * Final
           /\ \E m \in Nat : Priced(k, n).due = m * Final
  <1>1. PICK c \in Nat : c = Charge(k, n)
    BY ComponentsFinite
  <1>2. PICK p : p = Priced(k, n)
    OBVIOUS
  <1>3. /\ p.before = FinalOf(k, c)
        /\ p.due = CASE k.model = "minimum_charge" -> Minimum(k, c)
                     [] k.model = "commitment_credit" -> Credited(k, c)
                     [] OTHER -> FinalOf(k, c)
    BY <1>1, <1>2, PricedIs
  <1>4. \A x \in Nat : \E m \in Nat : FinalOf(k, x) = m * Final
    BY RoundingsOfCard
  <1>5. k.amount \in Nat
    BY DEF Card
  <1>6. \E x \in Nat : p.due = FinalOf(k, x)
    <2>1. Minimum(k, c) \in {FinalOf(k, c), FinalOf(k, k.amount)}
      BY DEF Minimum, Max
    <2>2. PICK x \in Nat : x = Max(c - k.amount, 0)
      BY <1>5 DEF Max
    <2>3. Credited(k, c) = FinalOf(k, x)
      BY <2>2 DEF Credited
    <2>4. p.due \in {FinalOf(k, c), FinalOf(k, k.amount), FinalOf(k, x)}
      BY <1>3, <2>1, <2>3
    <2> QED  BY <1>5, <2>4
  <1> QED  BY <1>2, <1>3, <1>4, <1>6

LEMMA SpecsWeighted ==
    ASSUME NEW s \in Specs
    PROVE  \E n \in Nat : Weighted(s, n) /\ n # 0
  <1>1. s \in Seq([key : Int, weight : Nat]) /\ Accepted(s)
    BY SpecAssumption
  <1>2. Len(s) \in Nat /\ DOMAIN s = 1 .. Len(s)
    BY <1>1
  <1>3. \A i \in 1 .. Len(s) : s[i].key \in Int /\ s[i].weight \in Nat
    <2> DEFINE E == [key : Int, weight : Nat]
    <2>1. s \in Seq(E)
      BY <1>1
    <2>2. \A e \in E : e.key \in Int /\ e.weight \in Nat
      OBVIOUS
    <2> HIDE DEF E
    <2>3. \A i \in 1 .. Len(s) : s[i] \in E
      BY <2>1
    <2> QED  BY <2>2, <2>3
  <1>4. Weighted(s, Len(s))
    BY <1>1, <1>2, <1>3 DEF Weighted, Accepted
  <1> QED  BY <1>2, <1>4, WeightTotalIs

\* What is known of a price and of the amounts divided, in quanta.
Divided(s, n, used, before, due) ==
    /\ n \in Nat \ {0} /\ Weighted(s, n)
    /\ used \in Nat /\ used = quantity * PerUnit /\ EnoughDigits(used, s)
    /\ before \in Nat /\ price.before = before * Final /\ EnoughDigits(before, s)
    /\ due \in Nat /\ price.due = due * Final /\ EnoughDigits(due, s)

LEMMA DividedPrice ==
    ASSUME DigitsSuffice, IInv, status \in Recording, NEW s \in Specs
    PROVE  \E n, used, before, due : Divided(s, n, used, before, due)
  <1>1. /\ card \in Cards /\ card \in Card /\ ValidCard(card)
        /\ quantity \in Quantities /\ quantity \in Nat /\ price = Priced(card, quantity)
    BY CardAssumption DEF IInv, Pricing
  <1>2. PICK n \in Nat : Weighted(s, n) /\ n # 0
    BY SpecsWeighted
  <1>3. PICK used \in Nat : used = quantity * PerUnit
    BY <1>1, SpecAssumption
  <1>4. PICK before \in Nat : price.before = before * Final
    BY <1>1, PricedInQuanta
  <1>5. PICK due \in Nat : price.due = due * Final
    BY <1>1, PricedInQuanta
  <1>6. Quanta(price.before) = before /\ Quanta(price.due) = due
    BY <1>4, <1>5, QuantaOf
  <1>7. EnoughDigits(used, s) /\ EnoughDigits(before, s) /\ EnoughDigits(due, s)
    BY <1>1, <1>3, <1>6 DEF DigitsSuffice
  <1>8. Divided(s, n, used, before, due)
    BY <1>2, <1>3, <1>4, <1>5, <1>7 DEF Divided
  <1> QED  BY <1>8

\* The records divide each amount on its own; a single record as well.
LEMMA RecordsAre ==
    ASSUME NEW s, NEW n, NEW used, NEW before, NEW due, Divided(s, n, used, before, due)
    PROVE  /\ DOMAIN RecordsOf(s) = 1 .. n
           /\ \A i \in 1 .. n :
                 /\ RecordsOf(s)[i].quantity = Allocated(used, s)[i]
                 /\ RecordsOf(s)[i].before = Allocated(before, s)[i]
                 /\ RecordsOf(s)[i].due = Allocated(due, s)[i]
                 /\ RecordsOf(s)[i].adjustments =
                      InContext(Allocated(due, s)[i] - Allocated(before, s)[i])
  <1>1. DOMAIN s = 1 .. n /\ n \in Nat \ {0}
    BY DEF Divided, Weighted
  <1>2. Quanta(price.before) = before /\ Quanta(price.due) = due
    BY QuantaOf DEF Divided
  <1>3. RecordsOf(s) =
          [i \in 1 .. n |->
             [key |-> s[i].key, quantity |-> Allocated(used, s)[i],
              before |-> Allocated(before, s)[i],
              adjustments |-> Adjustments(s, Allocated(before, s), Allocated(due, s), i),
              due |-> Allocated(due, s)[i]]]
    BY <1>1, <1>2 DEF RecordsOf, QuantityShares, Divided
  <1>4. \A i \in 1 .. n : Adjustments(s, Allocated(before, s), Allocated(due, s), i)
                            = InContext(Allocated(due, s)[i] - Allocated(before, s)[i])
    <2>1. CASE 1 .. n # {1}
      BY <1>1, <2>1 DEF Adjustments
    <2>2. CASE 1 .. n = {1}
      <3>1. \A a \in Nat : EnoughDigits(a, s) => Allocated(a, s)[1] = a
        <4> SUFFICES ASSUME NEW a \in Nat, EnoughDigits(a, s) PROVE Allocated(a, s)[1] = a
          OBVIOUS
        <4>1. Abs(a) = a
          BY DEF Abs
        <4>2. Allocated(a, s) \in [1 .. n -> Int] /\ Total(Allocated(a, s)) = a
          BY <4>1, AllocatedAddsUp DEF Divided
        <4>3. Total(Allocated(a, s)) = Sum(Allocated(a, s), {1})
          BY <2>2, <4>2, TotalIsSum
        <4>4. Allocated(a, s)[1] \in Int
          BY <2>2, <4>2
        <4> QED  BY <4>2, <4>3, <4>4, SumOfOne
      <3>2. Allocated(due, s)[1] = due /\ Allocated(before, s)[1] = before
        BY <3>1 DEF Divided
      <3> QED  BY <1>1, <1>2, <2>2, <3>2 DEF Adjustments
    <2> QED  BY <2>1, <2>2
  <1> QED  BY <1>3, <1>4

\* The difference of two amounts that fit the default context fits it.
LEMMA DifferenceHeld ==
    ASSUME NEW due \in Nat, NEW before \in Nat, Fits(due), Fits(before),
           NEW d \in 0 .. due, NEW b \in 0 .. before
    PROVE  Fits(d) /\ InContext(d - b) = d - b
  <1>1. PICK limit \in Nat : limit = Tens[SumDigits] /\ due < limit /\ before < limit
    <2>1. Tens[SumDigits] \in Nat
      BY DigitsAssumption, TensValues
    <2> QED  BY <2>1 DEF Fits, Abs
  <1>2. d - b \in Int /\ Abs(d) < limit /\ Abs(d - b) < limit
    BY <1>1 DEF Abs
  <1> QED  BY <1>1, <1>2, HeldExactly DEF Fits

\* Of amounts that fit, each share fits, and so does the difference of two.
LEMMA AdjustmentsHeld ==
    ASSUME NEW s, NEW n, NEW used, NEW before, NEW due, Divided(s, n, used, before, due),
           Fits(due), Fits(before), NEW i \in 1 .. n
    PROVE  /\ Fits(Allocated(due, s)[i])
           /\ InContext(Allocated(due, s)[i] - Allocated(before, s)[i])
                = Allocated(due, s)[i] - Allocated(before, s)[i]
  <1>1. PICK d \in 0 .. due : d = Allocated(due, s)[i]
    BY ShareBounded DEF Divided
  <1>2. PICK b \in 0 .. before : b = Allocated(before, s)[i]
    BY ShareBounded DEF Divided
  <1>3. due \in Nat /\ before \in Nat
    BY DEF Divided
  <1> QED  BY <1>1, <1>2, <1>3, DifferenceHeld

\* What fits is divided.
LEMMA HeldDivided ==
    ASSUME NEW s, NEW n, Weighted(s, n), NEW amount \in Nat, EnoughDigits(amount, s),
           Fits(amount)
    PROVE  AddsUp(amount, s)
  <1>1. Abs(amount) = amount /\ amount \in Int
    BY DEF Abs
  <1> QED  BY <1>1, AllocatedSummed

\* Records add up to what is divided.  They are accepted, and their adjustments
\* add up, if the amounts fit.
LEMMA RecordsAddUpTo ==
    ASSUME NEW s, NEW n, NEW used, NEW before, NEW due, Divided(s, n, used, before, due),
           NEW made, made = RecordsOf(s)
    PROVE  /\ Total([i \in DOMAIN made |-> made[i].quantity]) = used
           /\ Total([i \in DOMAIN made |-> made[i].before]) = before
           /\ Total([i \in DOMAIN made |-> made[i].due]) = due
           /\ Fits(due) /\ Fits(before) =>
                 /\ \A i \in DOMAIN s : AcceptsRecord(made[i])
                 /\ Total([i \in DOMAIN made |-> made[i].adjustments]) = due - before
  <1> DEFINE U == 1 .. n
  <1>1. /\ DOMAIN made = U
        /\ \A i \in U :
              /\ made[i].quantity = Allocated(used, s)[i]
              /\ made[i].before = Allocated(before, s)[i]
              /\ made[i].due = Allocated(due, s)[i]
              /\ made[i].adjustments =
                   InContext(Allocated(due, s)[i] - Allocated(before, s)[i])
    BY RecordsAre
  <1>2. DOMAIN s = U /\ IsFiniteSet(U)
    <2>1. DOMAIN s = U /\ n \in Nat
      BY DEF Divided, Weighted
    <2> QED  BY <2>1, FS_Interval
  <1>3. ASSUME NEW a \in Nat, EnoughDigits(a, s)
        PROVE  /\ Allocated(a, s) \in [U -> Int] /\ Total(Allocated(a, s)) = a
               /\ \A i \in U : Allocated(a, s)[i] >= 0
    <2>1. Abs(a) = a
      BY DEF Abs
    <2> QED  BY <1>3, <2>1, AllocatedAddsUp DEF Divided
  <1> DEFINE u == Allocated(used, s)
             b == Allocated(before, s)
             d == Allocated(due, s)
             adjusted == [i \in U |-> d[i] - b[i]]
  <1>4. /\ u \in [U -> Int] /\ Total(u) = used /\ \A i \in U : u[i] >= 0
        /\ b \in [U -> Int] /\ Total(b) = before /\ \A i \in U : b[i] >= 0
        /\ d \in [U -> Int] /\ Total(d) = due /\ \A i \in U : d[i] >= 0
    BY <1>3 DEF Divided
  <1> HIDE DEF u, b, d
  <1>5. \A i \in U : u[i] \in Int /\ b[i] \in Int /\ d[i] \in Int
    BY <1>4
  <1>6. /\ [i \in DOMAIN made |-> made[i].quantity] = u
        /\ [i \in DOMAIN made |-> made[i].before] = b
        /\ [i \in DOMAIN made |-> made[i].due] = d
    BY <1>1, <1>4 DEF u, b, d
  <1>7. ASSUME Fits(due), Fits(before), NEW i \in U
        PROVE  Fits(d[i]) /\ made[i].adjustments = d[i] - b[i]
    <2>1. Fits(d[i]) /\ InContext(d[i] - b[i]) = d[i] - b[i]
      BY <1>7, AdjustmentsHeld DEF d, b
    <2> QED  BY <1>1, <2>1 DEF d, b
  <1>8. ASSUME Fits(due), Fits(before), NEW i \in U PROVE AcceptsRecord(made[i])
    <2>1. /\ made[i].quantity = u[i] /\ made[i].before = b[i] /\ made[i].due = d[i]
      BY <1>1 DEF u, b, d
    <2>2. made[i].adjustments = d[i] - b[i] /\ InContext(d[i]) = d[i]
      BY <1>5, <1>7, <1>8, HeldExactly
    <2>3. b[i] + (d[i] - b[i]) = d[i]
      BY <1>5
    <2> QED  BY <1>4, <2>1, <2>2, <2>3 DEF AcceptsRecord
  <1>9. Fits(due) /\ Fits(before) =>
            [i \in DOMAIN made |-> made[i].adjustments] = adjusted
    BY <1>1, <1>7
  <1>10. Total(adjusted) = due - before
    <2>1. Total(adjusted) = Sum(adjusted, U) /\ Total(d) = Sum(d, U) /\ Total(b) = Sum(b, U)
      BY <1>4, TotalIsSum
    <2>2. \A i \in U : adjusted[i] = 1 * d[i] + (-1) * b[i]
      BY <1>5
    <2> HIDE DEF adjusted, U
    <2>3. Combined(adjusted, 1, d, -1, b, U)
      BY <1>2, <1>5, <2>2 DEF Combined
    <2>4. Sum(adjusted, U) = 1 * Sum(d, U) + (-1) * Sum(b, U)
      BY <2>3, SumLinear
    <2> QED  BY <1>4, <2>1, <2>4 DEF Divided
  <1> QED  BY <1>2, <1>4, <1>6, <1>8, <1>9, <1>10

\* Whatever card, quantity, roundings and weights: if the quantity and the
\* amounts fit the default context, each is divided and the records are accepted
\* by CostRecordV1; and all records that there are add up to the price and to
\* the quantity, and, of amounts that fit, to the adjustment
\* (CostCalculator._records, calculator.py:207-240).
THEOREM RecordsExact ==
    ASSUME DigitsSuffice
    PROVE  RecordsSpec => []RecordsAddUp
  <1>1. DigitsSuffice
    OBVIOUS
  <1>2. IInv => RecordsAddUp
    <2> SUFFICES ASSUME IInv PROVE RecordsAddUp
      OBVIOUS
    <2>1. ASSUME status \in Recording PROVE RecordsAddUp
      <3>1. spec \in Specs
        BY <2>1 DEF IInv
      <3>2. PICK n, used, before, due : Divided(spec, n, used, before, due)
        BY <1>1, <2>1, <3>1, DividedPrice
      <3>3. PICK made : made = RecordsOf(spec)
        OBVIOUS
      <3>4. /\ Total([i \in DOMAIN made |-> made[i].quantity]) = used
            /\ Total([i \in DOMAIN made |-> made[i].before]) = before
            /\ Total([i \in DOMAIN made |-> made[i].due]) = due
            /\ Fits(due) /\ Fits(before) =>
                  /\ \A i \in DOMAIN spec : AcceptsRecord(made[i])
                  /\ Total([i \in DOMAIN made |-> made[i].adjustments]) = due - before
        BY <3>2, <3>3, RecordsAddUpTo
      <3>5. /\ used = quantity * PerUnit
            /\ price.before = before * Final /\ price.due = due * Final
            /\ (due - before) * Final = price.due - price.before
            /\ Quanta(price.before) = before /\ Quanta(price.due) = due
        BY <3>2, QuantumAssumption, QuantaOf DEF Divided
      <3>6. Fits(due) /\ Fits(before) /\ Fits(used) => Divisible(spec)
        BY <3>2, <3>5, HeldDivided DEF Divided, Divisible, Divisions
      <3>7. status \in {"undivided", "unrecorded"} => ~MoneyFits \/ ~Fits(quantity * PerUnit)
        BY <3>3, <3>4, <3>5, <3>6 DEF IInv, MoneyFits
      <3>8. status = "recorded" => records = made
        BY <3>3 DEF IInv
      <3>9. status = "recorded" =>
              /\ Total([i \in DOMAIN records |-> records[i].due]) * Final = price.due
              /\ Total([i \in DOMAIN records |-> records[i].before]) * Final = price.before
              /\ Total([i \in DOMAIN records |-> records[i].quantity]) = quantity * PerUnit
        BY <3>4, <3>5, <3>8
      <3>10. status = "recorded" /\ MoneyFits =>
               Total([i \in DOMAIN records |-> records[i].adjustments]) * Final
                 = price.due - price.before
        BY <3>4, <3>5, <3>8 DEF MoneyFits
      <3> QED  BY <3>7, <3>9, <3>10 DEF RecordsAddUp
    <2>2. CASE status \notin Recording
      BY <2>2 DEF RecordsAddUp, Recording
    <2> QED  BY <2>1, <2>2
  <1> QED  BY <1>2, Invariance, PTL

\* An adjustment is the difference of two shares, each within a unit of its own.
LEMMA AdjustmentNear ==
    ASSUME NEW s, NEW n, NEW used, NEW before, NEW due, Divided(s, n, used, before, due),
           NEW i \in 1 .. n, NEW a, a = Allocated(due, s)[i] - Allocated(before, s)[i]
    PROVE  /\ Abs(a * WeightTotal(s) - (due - before) * s[i].weight) < 2 * WeightTotal(s)
           /\ s[i].weight = 0 => Allocated(due, s)[i] = 0 /\ a = 0
  <1>1. PICK w \in Nat \ {0}, v \in Nat : w = WeightTotal(s) /\ v = s[i].weight
    BY WeightTotalIs DEF Divided, Weighted
  <1>2. ASSUME NEW x \in Nat, EnoughDigits(x, s)
        PROVE  \E y \in Int : /\ Allocated(x, s)[i] = y
                              /\ y * w - x * v =< w /\ x * v - y * w < w
                              /\ v = 0 => y = 0
    <2>1. /\ Weighted(s, n) /\ DOMAIN s = 1 .. n /\ Abs(x) = x
          /\ Signless(x, s) \in [1 .. n -> Nat]
      <3>1. Weighted(s, n)
        BY DEF Divided
      <3>2. DOMAIN s = 1 .. n
        BY <3>1 DEF Weighted
      <3>3. Signless(x, s) \in [1 .. n -> Nat]
        BY <1>2, <3>1, SignlessAddsUp
      <3> QED  BY <3>1, <3>2, <3>3 DEF Abs
    <2>2. Allocated(x, s)[i] = Signless(x, s)[i]
      BY <2>1 DEF Allocated
    <2>3. PICK y \in Nat : y = Signless(x, s)[i]
      BY <2>1
    <2>4. y * w - x * v =< w /\ x * v - y * w < w /\ (v = 0 => y = 0)
      BY <1>1, <1>2, <2>1, <2>3, ShareNear
    <2> QED  BY <2>2, <2>3, <2>4
  <1>3. due \in Nat /\ before \in Nat /\ EnoughDigits(due, s) /\ EnoughDigits(before, s)
    BY DEF Divided
  <1>4. PICK d \in Int : /\ Allocated(due, s)[i] = d
                         /\ d * w - due * v =< w /\ due * v - d * w < w
                         /\ v = 0 => d = 0
    BY <1>2, <1>3
  <1>5. PICK b \in Int : /\ Allocated(before, s)[i] = b
                         /\ b * w - before * v =< w /\ before * v - b * w < w
                         /\ v = 0 => b = 0
    BY <1>2, <1>3
  <1>6. a = d - b /\ (v = 0 => d = 0 /\ a = 0)
    BY <1>4, <1>5
  <1>7. PICK off \in Int : off = a * w - (due - before) * v /\ -(2 * w) < off /\ off < 2 * w
    <2>1. PICK dw \in Int, bw \in Int, dv \in Int, bv \in Int :
             dw = d * w /\ bw = b * w /\ dv = due * v /\ bv = before * v
      BY <1>3
    <2>2. (d - b) * w - (due - before) * v = (d * w - due * v) - (b * w - before * v)
      BY <1>3
    <2>3. a * w - (due - before) * v = (dw - dv) - (bw - bv)
      BY <1>6, <2>1, <2>2
    <2> QED  BY <1>4, <1>5, <2>1, <2>3
  <1>8. Abs(off) < 2 * w
    BY <1>7 DEF Abs
  <1> QED  BY <1>1, <1>4, <1>6, <1>7, <1>8

\* A key bears its part of an adjustment to within two quanta, if the amounts
\* fit the default context, though what it bears is the difference of two
\* divisions made separately; and a key without weight bears nothing, as no
\* unit left over goes to it.
THEOREM AdjustmentsNear ==
    ASSUME DigitsSuffice
    PROVE  RecordsSpec => []AdjustmentsNearExact
  <1>1. DigitsSuffice
    OBVIOUS
  <1>2. IInv => AdjustmentsNearExact
    <2> SUFFICES ASSUME IInv, status = "recorded", MoneyFits, NEW i \in DOMAIN spec
                 PROVE  /\ Abs(records[i].adjustments * WeightTotal(spec)
                               - Quanta(price.due - price.before) * spec[i].weight)
                             < 2 * WeightTotal(spec)
                        /\ spec[i].weight = 0 => records[i].due = 0 /\ records[i].adjustments = 0
      BY DEF AdjustmentsNearExact
    <2>1. spec \in Specs /\ records = RecordsOf(spec)
      BY DEF IInv, Recording
    <2>2. PICK n, used, before, due : Divided(spec, n, used, before, due)
      <3>1. status \in Recording
        BY DEF Recording
      <3> QED  BY <1>1, <2>1, <3>1, DividedPrice
    <2>3. i \in 1 .. n
      BY <2>2 DEF Divided, Weighted
    <2>4. PICK a : /\ a = Allocated(due, spec)[i] - Allocated(before, spec)[i]
                   /\ records[i].adjustments = a
                   /\ records[i].due = Allocated(due, spec)[i]
      <3>1. Fits(due) /\ Fits(before)
        BY <2>2, QuantaOf DEF Divided, MoneyFits
      <3>2. InContext(Allocated(due, spec)[i] - Allocated(before, spec)[i])
              = Allocated(due, spec)[i] - Allocated(before, spec)[i]
        BY <2>2, <2>3, <3>1, AdjustmentsHeld
      <3>3. /\ records[i].adjustments =
                 InContext(Allocated(due, spec)[i] - Allocated(before, spec)[i])
            /\ records[i].due = Allocated(due, spec)[i]
        BY <2>1, <2>2, <2>3, RecordsAre
      <3> QED  BY <3>2, <3>3
    <2>5. Quanta(price.due - price.before) = due - before
      <3>1. due - before \in Int /\ price.due - price.before = (due - before) * Final
        BY <2>2, QuantumAssumption DEF Divided
      <3> QED  BY <3>1, QuantaOf
    <2>6. /\ Abs(a * WeightTotal(spec) - (due - before) * spec[i].weight)
                < 2 * WeightTotal(spec)
          /\ spec[i].weight = 0 => Allocated(due, spec)[i] = 0 /\ a = 0
      BY <2>2, <2>3, <2>4, AdjustmentNear
    <2> QED  BY <2>4, <2>5, <2>6
  <1> QED  BY <1>2, Invariance, PTL
=============================================================================
