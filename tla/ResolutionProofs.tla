--------------------------- MODULE ResolutionProofs ---------------------------
(***************************************************************************)
(* Theorems about Resolution, for every set of cards, pricings, resolvers  *)
(* and queries.  What a resolver returns is computed from pages read at    *)
(* different times, so the invariant says, for each resolver by itself,    *)
(* how what it has found so far relates to what has been published since   *)
(* its call began.                                                         *)
(***************************************************************************)
EXTENDS Resolution, TLAPS

Suits(r, s) == Covers(query[r], s) /\ Matches(query[r], s)

\* Every snapshot is kept under its own card.
CardsNamed ==
    /\ DOMAIN cards = Cards
    /\ \A card \in Cards : cards[card] # None => cards[card].card = card

Domains ==
    /\ DOMAIN query = Resolvers /\ DOMAIN unread = Resolvers /\ DOMAIN found = Resolvers
    /\ DOMAIN answer = Resolvers /\ DOMAIN ever = Resolvers /\ DOMAIN always = Resolvers

\* What r has found was published during its call and suits its query, one
\* snapshot of each card at most; and of the cards it has read, whatever suits
\* the query and was never anything but published is found.
ResolverInv(r) ==
    answer[r] = "reading" =>
        /\ unread[r] \subseteq Cards
        /\ PublishedNow \subseteq ever[r] /\ always[r] \subseteq PublishedNow
        /\ \A s \in found[r] : s \in ever[r] /\ Suits(r, s) /\ s.card \notin unread[r]
        /\ \A s, t \in found[r] : s.card = t.card => s = t
        /\ \A s \in always[r] : Suits(r, s) /\ s.card \notin unread[r] => s \in found[r]

IInv == CardsNamed /\ Domains /\ \A r \in Resolvers : ResolverInv(r)
-----------------------------------------------------------------------------
\* A move of the register keeps every snapshot under its own card.
LEMMA MoveKeepsNames == CardsNamed /\ Register!Next => CardsNamed'
  <1> SUFFICES ASSUME CardsNamed, Register!Next PROVE CardsNamed'
    OBVIOUS
  <1>1. PICK card \in Cards : \E revision, state, pricing, publishedAt :
            Register!Move(card, revision, state, pricing, publishedAt)
    BY DEF Register!Next, Register!Create, Register!Replace, Register!Validate,
           Register!Publish, Register!Retire, Register!Advance
  <1> QED BY <1>1 DEF CardsNamed, Register!Move

\* What a page shows is published now, and under the card it is of.
LEMMA PageShowsNow ==
    ASSUME CardsNamed, NEW card \in Cards
    PROVE  /\ \A s \in Listed(card) : s \in PublishedNow /\ s.card = card
           /\ \A s \in PublishedNow : s.card = card => s \in Listed(card)
           /\ \A s, t \in Listed(card) : s = t
  BY DEF CardsNamed, PublishedNow, Listed

\* What a resolver has found once it has read one more page.
LEMMA FoundAfterPage ==
    ASSUME IInv, NEW r \in Resolvers, answer[r] = "reading",
           NEW card \in unread[r],
           NEW now, now = found[r] \cup Candidates(query[r], Listed(card))
    PROVE  /\ \A s \in now : /\ s \in ever[r] /\ Suits(r, s)
                             /\ s.card \notin unread[r] \ {card}
           /\ \A s, t \in now : s.card = t.card => s = t
           /\ \A s \in always[r] :
                  Suits(r, s) /\ s.card \notin unread[r] \ {card} => s \in now
  <1>1. card \in Cards
    BY DEF IInv, ResolverInv
  <1>2. CardsNamed /\ ResolverInv(r)
    BY DEF IInv
  <1>3. \A s \in Candidates(query[r], Listed(card)) :
            /\ s \in PublishedNow /\ s.card = card /\ Suits(r, s)
            /\ s \in Listed(card)
    BY <1>1, <1>2, PageShowsNow DEF Candidates, Suits
  <1>4. \A s \in now : /\ s \in ever[r] /\ Suits(r, s)
                       /\ s.card \notin unread[r] \ {card}
    BY <1>2, <1>3 DEF ResolverInv
  <1>5. \A s, t \in now : s.card = t.card => s = t
    BY <1>1, <1>2, <1>3, PageShowsNow DEF ResolverInv
  <1>6. ASSUME NEW s \in always[r], Suits(r, s), s.card \notin unread[r] \ {card}
        PROVE  s \in now
    <2>1. CASE s.card = card
      BY <1>1, <1>2, <1>6, <2>1, PageShowsNow DEF ResolverInv, Candidates, Suits
    <2>2. CASE s.card # card
      BY <1>2, <1>6, <2>2 DEF ResolverInv
    <2> QED BY <2>1, <2>2
  <1> QED BY <1>4, <1>5, <1>6

-----------------------------------------------------------------------------
LEMMA InitIInv == Init => IInv
  BY DEF Init, IInv, CardsNamed, Domains, ResolverInv, Register!Init

\* A resolver whose part of the state a step leaves alone keeps its invariant.
LEMMA OthersKeep ==
    ASSUME NEW r \in Resolvers, ResolverInv(r), UNCHANGED cards,
           answer'[r] = answer[r], query'[r] = query[r], unread'[r] = unread[r],
           found'[r] = found[r], ever'[r] = ever[r], always'[r] = always[r]
    PROVE  ResolverInv(r)'
  BY DEF ResolverInv, PublishedNow, Listed, Suits, Covers, Matches

\* The end of a call, however it ends.
LEMMA AnswerKeeps ==
    ASSUME IInv, UNCHANGED cards, NEW r \in Resolvers, NEW how, how # "reading", NEW S,
           Answer(r, how, S)
    PROVE  IInv'
  <1>1. CardsNamed' /\ Domains'
    BY DEF IInv, CardsNamed, Domains, Answer
  <1>2. ASSUME NEW q \in Resolvers, q # r PROVE ResolverInv(q)'
    BY <1>2, OthersKeep DEF IInv, Answer, Domains
  <1>3. ResolverInv(r)'
    BY DEF IInv, Answer, Domains, ResolverInv
  <1> QED BY <1>1, <1>2, <1>3 DEF IInv

\* The three conclusions are answers.
LEMMA ConclusionEnds == \A S : Conclusion(S) \in {"missing", "ok", "ambiguous"}
  BY DEF Conclusion

LEMMA NextIInv == IInv /\ [Next]_vars => IInv'
  <1> SUFFICES ASSUME IInv, [Next]_vars PROVE IInv'
    OBVIOUS
  <1>1. CASE UNCHANGED vars
    <2>1. \A r \in Resolvers : ResolverInv(r)'
      BY <1>1, OthersKeep DEF IInv, vars
    <2> QED BY <1>1, <2>1 DEF IInv, CardsNamed, Domains, vars
  <1>2. CASE MoveCard
    <2>1. CardsNamed'
      BY <1>2, MoveKeepsNames DEF IInv, MoveCard
    <2>2. Domains'
      BY <1>2 DEF IInv, Domains, MoveCard, resolving
    <2>3. ASSUME NEW r \in Resolvers PROVE ResolverInv(r)'
      BY <1>2, <2>3 DEF IInv, ResolverInv, MoveCard, resolving, Suits, Covers, Matches
    <2> QED BY <2>1, <2>2, <2>3 DEF IInv
  <1>3. ASSUME NEW r \in Resolvers, NEW q \in Queries, Resolve(r, q) PROVE IInv'
    <2>1. CardsNamed' /\ Domains'
      BY <1>3 DEF IInv, CardsNamed, Domains, Resolve
    <2>2. ASSUME NEW p \in Resolvers, p # r PROVE ResolverInv(p)'
      BY <1>3, <2>2, OthersKeep DEF IInv, Resolve, Domains
    <2>3. ResolverInv(r)'
      <3>1. PublishedNow' = PublishedNow
        BY <1>3 DEF Resolve, PublishedNow, Listed
      <3>2. /\ ever'[r] = PublishedNow /\ always'[r] = PublishedNow
            /\ found'[r] = {} /\ unread'[r] = Cards
        BY <1>3 DEF IInv, Domains, Resolve
      <3>3. \A s \in PublishedNow : s.card \in Cards
        BY DEF IInv, CardsNamed, PublishedNow, Listed
      <3> QED BY <3>1, <3>2, <3>3 DEF ResolverInv
    <2> QED BY <2>1, <2>2, <2>3 DEF IInv
  <1>4. ASSUME NEW r \in Resolvers, ReadPage(r) PROVE IInv'
    <2>1. PICK card \in unread[r] :
            LET now == found[r] \cup Candidates(query[r], Listed(card))
            IN  IF unread[r] = {card} THEN Answer(r, Conclusion(now), now)
                ELSE /\ found' = [found EXCEPT ![r] = now]
                     /\ unread' = [unread EXCEPT ![r] = unread[r] \ {card}]
                     /\ UNCHANGED <<query, answer, ever, always>>
      BY <1>4 DEF ReadPage
    <2> DEFINE now == found[r] \cup Candidates(query[r], Listed(card))
    <2>2. answer[r] = "reading" /\ UNCHANGED cards
      BY <1>4 DEF ReadPage
    <2>3. CASE unread[r] = {card}
      <3>1. Answer(r, Conclusion(now), now)
        BY <2>1, <2>3
      <3>2. Conclusion(now) # "reading"
        BY ConclusionEnds
      <3> HIDE DEF now
      <3> QED BY <2>2, <3>1, <3>2, AnswerKeeps
    <2>4. CASE unread[r] # {card}
      <3>1. /\ found' = [found EXCEPT ![r] = now]
            /\ unread' = [unread EXCEPT ![r] = unread[r] \ {card}]
            /\ UNCHANGED <<query, answer, ever, always>>
        BY <2>1, <2>4
      <3>2. now = found[r] \cup Candidates(query[r], Listed(card))
        OBVIOUS
      <3> HIDE DEF now
      <3>3. /\ \A s \in now : /\ s \in ever[r] /\ Suits(r, s)
                              /\ s.card \notin unread[r] \ {card}
            /\ \A s, t \in now : s.card = t.card => s = t
            /\ \A s \in always[r] :
                  Suits(r, s) /\ s.card \notin unread[r] \ {card} => s \in now
        BY <2>2, <3>2, FoundAfterPage
      <3>4. CardsNamed' /\ Domains'
        BY <2>2, <3>1 DEF IInv, CardsNamed, Domains
      <3>5. ASSUME NEW p \in Resolvers, p # r PROVE ResolverInv(p)'
        BY <2>2, <3>1, <3>5, OthersKeep DEF IInv, Domains
      <3>6. ResolverInv(r)'
        <4>1. /\ found'[r] = now /\ unread'[r] = unread[r] \ {card}
          BY <3>1 DEF IInv, Domains
        <4>2. PublishedNow' = PublishedNow /\ \A s : Suits(r, s)' <=> Suits(r, s)
          BY <2>2, <3>1 DEF PublishedNow, Listed, Suits, Covers, Matches
        <4>3. /\ unread[r] \subseteq Cards
              /\ PublishedNow \subseteq ever[r] /\ always[r] \subseteq PublishedNow
          BY <2>2 DEF IInv, ResolverInv
        <4> QED BY <3>1, <3>3, <4>1, <4>2, <4>3 DEF ResolverInv, Suits, Covers, Matches
      <3> QED BY <3>4, <3>5, <3>6 DEF IInv
    <2> QED BY <2>3, <2>4
  <1>5. ASSUME NEW r \in Resolvers, Fail(r) PROVE IInv'
    BY <1>5, AnswerKeeps DEF Fail
  <1> QED BY <1>1, <1>2, <1>3, <1>4, <1>5 DEF Next

\* The invariant of the scan: what is found, and what cannot have been missed.
THEOREM Invariance == Spec => []IInv
  BY InitIInv, NextIInv, PTL DEF Spec

-----------------------------------------------------------------------------
(* The end of a scan.                                                      *)

LEMMA EndIsLastPage ==
    ASSUME IInv, Next, NEW r \in Resolvers, NEW how \in {"missing", "ok", "ambiguous"},
           Ends(r, how)
    PROVE  \E card \in unread[r] :
              LET now == found[r] \cup Candidates(query[r], Listed(card))
              IN  /\ unread[r] = {card} /\ how = Conclusion(now)
                  /\ found'[r] = IF how = "ok" THEN now ELSE {}
  <1>1. answer[r] = "reading" /\ answer'[r] = how /\ how # "reading" /\ how # "failed"
    BY DEF Ends
  <1>2. ~MoveCard
    BY <1>1 DEF MoveCard, resolving
  <1>3. ASSUME NEW p \in Resolvers, NEW q \in Queries, Resolve(p, q) PROVE FALSE
    BY <1>1, <1>3 DEF IInv, Domains, Resolve
  <1>4. ASSUME NEW p \in Resolvers, Fail(p) PROVE FALSE
    BY <1>1, <1>4 DEF IInv, Domains, Fail, Answer
  <1>5. PICK p \in Resolvers : ReadPage(p)
    BY <1>2, <1>3, <1>4 DEF Next
  <1>6. p = r
    BY <1>1, <1>5 DEF IInv, Domains, ReadPage, Answer
  <1>7. PICK card \in unread[r] :
            LET now == found[r] \cup Candidates(query[r], Listed(card))
            IN  IF unread[r] = {card} THEN Answer(r, Conclusion(now), now)
                ELSE UNCHANGED answer
    BY <1>5, <1>6 DEF ReadPage
  <1> DEFINE now == found[r] \cup Candidates(query[r], Listed(card))
  <1>8. unread[r] = {card} /\ Answer(r, Conclusion(now), now)
    BY <1>1, <1>7
  <1> HIDE DEF now
  <1>9. how = Conclusion(now) /\ found'[r] = IF how = "ok" THEN now ELSE {}
    BY <1>1, <1>8 DEF IInv, Domains, Answer
  <1> QED BY <1>8, <1>9 DEF now

\* What is known when a scan has read its last page.
LEMMA LastPage ==
    ASSUME IInv, Next, NEW r \in Resolvers, NEW how \in {"missing", "ok", "ambiguous"},
           Ends(r, how)
    PROVE  \E now : /\ how = Conclusion(now) /\ found'[r] = IF how = "ok" THEN now ELSE {}
                    /\ \A s \in now : s \in ever[r] /\ Suits(r, s)
                    /\ \A s, t \in now : s.card = t.card => s = t
                    /\ \A s \in always[r] : Suits(r, s) => s \in now
  <1>1. PICK card \in unread[r] :
            LET now == found[r] \cup Candidates(query[r], Listed(card))
            IN  /\ unread[r] = {card} /\ how = Conclusion(now)
                /\ found'[r] = IF how = "ok" THEN now ELSE {}
    BY EndIsLastPage
  <1>2. answer[r] = "reading" /\ unread[r] \ {card} = {}
    BY <1>1 DEF Ends
  <1> DEFINE now == found[r] \cup Candidates(query[r], Listed(card))
  <1>3. now = found[r] \cup Candidates(query[r], Listed(card))
    OBVIOUS
  <1>4. how = Conclusion(now) /\ found'[r] = IF how = "ok" THEN now ELSE {}
    BY <1>1
  <1> HIDE DEF now
  <1>5. /\ \A s \in now : s \in ever[r] /\ Suits(r, s)
        /\ \A s, t \in now : s.card = t.card => s = t
        /\ \A s \in always[r] : Suits(r, s) => s \in now
    BY <1>2, <1>3, FoundAfterPage
  <1> QED BY <1>4, <1>5

\* Whichever cards move while a scan reads, the card it returns was published
\* during the call, for the whole window and with matching dimensions.
THEOREM ResolvedCardWasPublished == Spec => ResolvedWasPublished
  <1> DEFINE A == \A r \in Resolvers : Ends(r, "ok") =>
                    \E s \in ever[r] : /\ found'[r] = {s} /\ s.pricing.key \in query[r].keys
                                       /\ s.pricing.from =< query[r].from
                                       /\ query[r].until =< s.pricing.until
  <1>1. IInv /\ [Next]_vars => [A]_vars
    <2> SUFFICES ASSUME IInv, Next, NEW r \in Resolvers, Ends(r, "ok")
                 PROVE  \E s \in ever[r] : /\ found'[r] = {s}
                                           /\ s.pricing.key \in query[r].keys
                                           /\ s.pricing.from =< query[r].from
                                           /\ query[r].until =< s.pricing.until
      OBVIOUS
    <2>1. PICK now : /\ "ok" = Conclusion(now) /\ found'[r] = now
                     /\ \A s \in now : s \in ever[r] /\ Suits(r, s)
      BY LastPage
    <2>2. PICK s : now = {s}
      BY <2>1 DEF Conclusion
    <2> QED BY <2>1, <2>2 DEF Suits, Covers, Matches
  <1> QED BY <1>1, Invariance, PTL DEF Spec, ResolvedWasPublished

\* A card that can be resolved throughout a call is never missed, nor is
\* another one returned, and of two cards that are refused both were seen.
THEOREM SettledCardsAreResolved == Spec => SettledCardsResolved
  <1> DEFINE settled(r) == {s \in always[r] : Covers(query[r], s) /\ Matches(query[r], s)}
             A == \A r \in Resolvers :
                    /\ Ends(r, "missing") => settled(r) = {}
                    /\ Ends(r, "ok") => settled(r) \subseteq found'[r]
                    /\ Ends(r, "ambiguous") => \E s, t \in ever[r] : s.card # t.card
  <1>1. IInv /\ [Next]_vars => [A]_vars
    <2> SUFFICES ASSUME IInv, Next, NEW r \in Resolvers
                 PROVE  /\ Ends(r, "missing") => settled(r) = {}
                        /\ Ends(r, "ok") => settled(r) \subseteq found'[r]
                        /\ Ends(r, "ambiguous") => \E s, t \in ever[r] : s.card # t.card
      OBVIOUS
    <2>1. ASSUME Ends(r, "missing") PROVE settled(r) = {}
      <3>1. PICK now : /\ "missing" = Conclusion(now)
                       /\ \A s \in always[r] : Suits(r, s) => s \in now
        BY <2>1, LastPage
      <3> QED BY <3>1 DEF Conclusion, Suits
    <2>2. ASSUME Ends(r, "ok") PROVE settled(r) \subseteq found'[r]
      <3>1. PICK now : /\ found'[r] = now
                       /\ \A s \in always[r] : Suits(r, s) => s \in now
        BY <2>2, LastPage
      <3> QED BY <3>1 DEF Suits
    <2>3. ASSUME Ends(r, "ambiguous") PROVE \E s, t \in ever[r] : s.card # t.card
      <3>1. PICK now : /\ "ambiguous" = Conclusion(now)
                       /\ \A s \in now : s \in ever[r]
                       /\ \A s, t \in now : s.card = t.card => s = t
        BY <2>3, LastPage
      <3>2. now # {} /\ \A s \in now : now # {s}
        BY <3>1 DEF Conclusion
      <3> QED BY <3>1, <3>2
    <2> QED BY <2>1, <2>2, <2>3
  <1> QED BY <1>1, Invariance, PTL DEF Spec, SettledCardsResolved
=============================================================================
