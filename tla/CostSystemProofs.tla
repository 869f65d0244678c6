-------------------------- MODULE CostSystemProofs --------------------------
(* The calculator in its surroundings, for any number of clients, cards and *)
(* aggregates and with any transaction around the writes.                   *)
EXTENDS CostSystem, TLAPS

\* The card of an input or of a question is, or was, published with its
\* pricing, for an interval that covers the window.
Published(i) ==
    /\ i.card \in Cards /\ cards[i.card] # None
    /\ cards[i.card].state \in {"published", "retired"}
    /\ cards[i.card].pricing = i.pricing /\ i.pricing \in Covering

TypeInv ==
    /\ cards \in [Cards -> Snapshot \cup {None}]
    /\ usage \in [Aggregates -> 0 .. MaxUsageRevision]
    /\ ask \in [Clients -> Asks \cup {None}]
    /\ DOMAIN stage = Clients /\ DOMAIN fetched = Clients /\ DOMAIN known = Clients
    /\ DOMAIN db = Calls!Tables /\ DOMAIN open = Clients
    /\ \A c \in Clients : DOMAIN open[c] = Calls!Tables
    /\ DOMAIN pc = Clients /\ DOMAIN request = Clients /\ DOMAIN calc = Clients

\* Whatever is stored, about to be stored or being calculated.
PricedInv ==
    /\ \A k \in db["calculations"] : Published(k.input)
    /\ \A c \in Clients :
          /\ \A k \in open[c]["calculations"] : Published(k.input)
          /\ pc[c] # "idle" => Published(request[c].input)
          /\ pc[c] \in {"record", "calculation"} => Published(calc[c].input)
          /\ stage[c] = "usage" => Published(ask[c])

\* A caller asks before its calculation has an input and calculates after.
StageInv(c) ==
    /\ stage[c] \in {"idle", "card", "usage", "priced"}
    /\ stage[c] = "priced" <=> pc[c] # "idle"
    /\ stage[c] # "idle" => ask[c] \in Asks
    /\ stage[c] # "usage" => fetched[c] = <<>>

\* A card retired when it was asked for is retired still, and not read.
RetiredInv(c) ==
    /\ stage[c] = "card" /\ known[c].retired =>
          cards[ask[c].card] # None /\ cards[ask[c].card].state = "retired"
    /\ stage[c] \in {"usage", "priced"} => ~known[c].retired

\* What was read of an aggregate lies between what was there when it was asked
\* for and what is there now, and so does what is priced.
UsageInv(c) ==
    /\ stage[c] # "idle" =>
          \A a \in Aggregates : known[c].usage[a] \in Nat /\ known[c].usage[a] =< usage[a]
    /\ DOMAIN fetched[c] \subseteq Aggregates
    /\ \A a \in DOMAIN fetched[c] : fetched[c][a] \in known[c].usage[a] .. usage[a]
    /\ stage[c] = "priced" =>
          LET used == request[c].input.usage
          IN  /\ \A a \in Matching[ask[c].pricing] : known[c].usage[a] > 0 => a \in DOMAIN used
              /\ DOMAIN used \subseteq Aggregates
              /\ \A a \in DOMAIN used : /\ used[a] \in known[c].usage[a] .. usage[a]
                                        /\ Closed[a] =< used[a]

IInv ==
    /\ TypeInv /\ PricedInv
    /\ \A c \in Clients : StageInv(c) /\ RetiredInv(c) /\ UsageInv(c)
-----------------------------------------------------------------------------
(* What the parts do to each other.                                         *)

\* Cards move on only: what was published keeps its pricing, what was retired
\* stays so.
Kept ==
    \A x \in Cards : cards[x] # None /\ cards[x].state \in {"published", "retired"} =>
        /\ cards'[x] # None /\ cards'[x].state \in {"published", "retired"}
        /\ cards'[x].pricing = cards[x].pricing
        /\ cards[x].state = "retired" => cards'[x].state = "retired"

LEMMA CardsMove ==
    ASSUME TypeInv, Register!Next
    PROVE  cards' \in [Cards -> Snapshot \cup {None}] /\ Kept
  <1> USE DEF TypeInv
  <1>1. ASSUME NEW x \in Cards, NEW n \in Nat \ {0}, NEW p \in Pricings,
               NEW state \in {"draft", "validated", "published", "retired"},
               NEW at \in Times \cup {0}, Register!Move(x, n, state, p, at)
        PROVE  /\ cards' \in [Cards -> Snapshot \cup {None}]
               /\ \A y \in Cards \ {x} : cards'[y] = cards[y]
               /\ cards'[x] # None /\ cards'[x].state = state /\ cards'[x].pricing = p
    <2> DEFINE s == [card |-> x, revision |-> n, state |-> state,
                     pricing |-> p, publishedAt |-> at]
    <2>1. s \in Snapshot /\ s # None
      BY <1>1, NoneAssumption DEF Snapshot
    <2>2. s.state = state /\ s.pricing = p
      OBVIOUS
    <2>3. cards' = [cards EXCEPT ![x] = s]
      BY <1>1 DEF Register!Move
    <2> HIDE DEF s
    <2> QED  BY <2>1, <2>2, <2>3
  <1>2. ASSUME NEW x \in Cards, NEW p \in Pricings,
               Register!Create(x, p)
        PROVE  cards' \in [Cards -> Snapshot \cup {None}] /\ Kept
    <2>1. Register!Move(x, 1, "draft", p, 0) /\ cards[x] = None
      BY <1>2 DEF Register!Create
    <2>2. /\ cards' \in [Cards -> Snapshot \cup {None}]
          /\ \A y \in Cards \ {x} : cards'[y] = cards[y]
      BY <2>1, <1>1
    <2> QED  BY <2>1, <2>2 DEF Kept
  <1>3. ASSUME NEW x \in Cards, NEW from, NEW p \in Pricings, NEW at \in Times \cup {0},
               NEW to \in {"draft", "validated", "published", "retired"},
               from \in {"published", "retired"} =>
                   to = "retired" /\ p = cards[x].pricing,
               Register!Advance(x, from, to, p, at)
        PROVE  cards' \in [Cards -> Snapshot \cup {None}] /\ Kept
    <2> DEFINE n == cards[x].revision + 1
    <2>1. Register!Move(x, n, to, p, at) /\ cards[x] # None /\ cards[x].state = from
      BY <1>3 DEF Register!Advance
    <2>2. n \in Nat \ {0}
      BY <2>1 DEF Snapshot
    <2> HIDE DEF n
    <2>3. /\ cards' \in [Cards -> Snapshot \cup {None}]
          /\ \A y \in Cards \ {x} : cards'[y] = cards[y]
          /\ cards'[x] # None /\ cards'[x].state = to /\ cards'[x].pricing = p
      BY <2>1, <2>2, <1>1
    <2> QED  BY <1>3, <2>1, <2>3 DEF Kept
  <1>4. PICK x \in Cards :
            \/ \E p \in Pricings : Register!Create(x, p) \/ Register!Replace(x, p)
            \/ Register!Validate(x)
            \/ \E at \in Times : Register!Publish(x, at)
            \/ Register!Retire(x)
    BY DEF Register!Next
  <1>5. cards[x] # None => cards[x].pricing \in Pricings /\ cards[x].publishedAt \in Times \cup {0}
    BY DEF Snapshot
  <1>6. CASE \E p \in Pricings : Register!Create(x, p)
    BY <1>6, <1>2
  <1>7. CASE \E p \in Pricings : Register!Replace(x, p)
    BY <1>7, <1>3 DEF Register!Replace
  <1>8. CASE Register!Validate(x)
    <2>1. Register!Advance(x, "draft", "validated", cards[x].pricing, 0) /\ cards[x] # None
      BY <1>8 DEF Register!Validate, Register!Advance
    <2> QED  BY <2>1, <1>5, <1>3
  <1>9. ASSUME NEW at \in Times, Register!Publish(x, at)
        PROVE  cards' \in [Cards -> Snapshot \cup {None}] /\ Kept
    <2>1. /\ Register!Advance(x, "validated", "published", cards[x].pricing, at)
          /\ cards[x] # None
      BY <1>9 DEF Register!Publish, Register!Advance
    <2> QED  BY <2>1, <1>5, <1>3
  <1>10. CASE Register!Retire(x)
    <2>1. /\ Register!Advance(x, "published", "retired", cards[x].pricing, cards[x].publishedAt)
          /\ cards[x] # None
      BY <1>10 DEF Register!Retire, Register!Advance
    <2> QED  BY <2>1, <1>5, <1>3
  <1> QED  BY <1>4, <1>6, <1>7, <1>8, <1>9, <1>10

LEMMA PublishedKept ==
    ASSUME Kept \/ UNCHANGED cards, NEW i, Published(i)
    PROVE  /\ i.card \in Cards /\ cards'[i.card] # None
           /\ cards'[i.card].state \in {"published", "retired"}
           /\ cards'[i.card].pricing = i.pricing /\ i.pricing \in Covering
  BY DEF Kept, Published

\* What a step of the calculator may store: what it calculates.
Calculating(c) ==
    /\ pc[c] # "idle" /\ request' = request
    /\ DOMAIN db' = Calls!Tables /\ DOMAIN open' = Clients
    /\ \A d \in Clients : DOMAIN open'[d] = Calls!Tables
    /\ DOMAIN pc' = Clients /\ DOMAIN calc' = Clients
    /\ \A d \in Clients \ {c} : pc'[d] = pc[d] /\ calc'[d] = calc[d] /\ open'[d] = open[d]
    /\ db'["calculations"] \cup open'[c]["calculations"] \subseteq
           db["calculations"] \cup open[c]["calculations"] \cup
           (IF pc[c] = "calculation" THEN {calc[c]} ELSE {})
    /\ pc'[c] \in {"record", "calculation"} =>
           \/ calc'[c].input = request[c].input
           \/ calc'[c] = calc[c] /\ pc[c] \in {"record", "calculation"}

LEMMA Raised ==
    ASSUME TypeInv, NEW c \in Clients, NEW how, Calls!Raise(c, how), pc[c] # "idle"
    PROVE  Calculating(c)
  BY DEF TypeInv, Calculating, Calls!Raise, Calls!Reply, Calls!Empty, Calls!Tables

LEMMA Putting ==
    ASSUME TypeInv, NEW c \in Clients, NEW t \in Calls!Tables, NEW row, Calls!Put(c, t, row)
    PROVE  /\ DOMAIN db' = Calls!Tables /\ DOMAIN open' = Clients
           /\ \A d \in Clients : DOMAIN open'[d] = Calls!Tables
           /\ \A d \in Clients \ {c} : open'[d] = open[d]
           /\ db'["calculations"] \cup open'[c]["calculations"] \subseteq
                  db["calculations"] \cup open[c]["calculations"] \cup
                  (IF t = "calculations" THEN {row} ELSE {})
  <1> USE DEF TypeInv, Calls!Tables
  <1>1. CASE UNCHANGED <<db, open>>
    BY <1>1
  <1>2. CASE Calls!InTransaction(c) /\ Calls!Write(c, t, row)
    BY <1>2 DEF Calls!Write
  <1>3. CASE ~Calls!InTransaction(c) /\ Calls!Write(c, t, row)
    BY <1>3 DEF Calls!Write
  <1> QED  BY <1>1, <1>2, <1>3 DEF Calls!Put

LEMMA Committing ==
    ASSUME TypeInv, NEW c \in Clients, Calls!Commit(c)
    PROVE  /\ DOMAIN db' = Calls!Tables /\ DOMAIN open' = Clients
           /\ \A d \in Clients : DOMAIN open'[d] = Calls!Tables
           /\ \A d \in Clients \ {c} : open'[d] = open[d]
           /\ db'["calculations"] \cup open'[c]["calculations"] \subseteq
                  db["calculations"] \cup open[c]["calculations"]
  BY DEF TypeInv, Calls!Tables, Calls!Empty, Calls!Commit

LEMMA CalculatorStep ==
    ASSUME TypeInv, NEW c \in Clients, Calls!Step(c)
    PROVE  Calculating(c)
  <1> USE DEF TypeInv
  <1>1. CASE Calls!Find(c)
    <2>0. pc[c] # "idle"
      BY <1>1 DEF Calls!Find
    <2>1. CASE \E how : Calls!Raise(c, how)
      BY <2>0, <2>1, Raised
    <2>2. CASE /\ UNCHANGED <<db, open, request>>
               /\ \E next \in {"latest", "replay"} : pc' = [pc EXCEPT ![c] = next]
               /\ \E k : calc' = [calc EXCEPT ![c] = k]
      BY <2>0, <2>2 DEF Calculating
    <2>3. CASE UNCHANGED <<db, open, calc, request>> /\ pc' = [pc EXCEPT ![c] = "latest"]
      BY <2>0, <2>3 DEF Calculating
    <2> QED  BY <1>1, <2>1, <2>2, <2>3 DEF Calls!Find, Calls!Goto
  <1>2. CASE Calls!Replay(c)
    <2>0. pc[c] # "idle"
      BY <1>2 DEF Calls!Replay
    <2>1. CASE \E how : Calls!Raise(c, how)
      BY <2>0, <2>1, Raised
    <2>2. CASE UNCHANGED <<db, open, calc, request>> /\ pc' = [pc EXCEPT ![c] = "audit"]
      BY <2>0, <2>2 DEF Calculating
    <2> QED  BY <1>2, <2>1, <2>2 DEF Calls!Replay, Calls!Goto
  <1>3. CASE Calls!Latest(c)
    <2>1. /\ pc[c] = "latest" /\ UNCHANGED <<db, open, request>>
          /\ pc' = [pc EXCEPT ![c] = "previous"]
          /\ calc' = calc \/ \E k : calc' = [calc EXCEPT ![c] = k]
      BY <1>3 DEF Calls!Latest, Calls!Goto
    <2> QED  BY <2>1 DEF Calculating
  <1>4. CASE Calls!Propose(c)
    <2> DEFINE last == IF calc[c] = None THEN 0 ELSE calc[c].revision
               k == [revision |-> last + 1, input |-> request[c].input,
                     allocation |-> request[c].allocation, at |-> request[c].at,
                     supersedes |-> last]
    <2>1. /\ pc[c] = "previous" /\ UNCHANGED <<db, open, request>>
          /\ pc' = [pc EXCEPT ![c] = "record"]
          /\ calc' = [calc EXCEPT ![c] = k]
      BY <1>4 DEF Calls!Propose, Calls!Goto
    <2>2. k.input = request[c].input
      OBVIOUS
    <2> HIDE DEF k
    <2> QED  BY <2>1, <2>2 DEF Calculating
  <1>5. CASE Calls!PutRecord(c)
    <2>0. pc[c] = "record"
      BY <1>5 DEF Calls!PutRecord
    <2>1. CASE \E how : Calls!Raise(c, how)
      BY <2>0, <2>1, Raised
    <2>2. CASE /\ UNCHANGED <<calc, request>>
               /\ \E next \in {"record", "calculation"} : pc' = [pc EXCEPT ![c] = next]
               /\ \E r : Calls!Put(c, "records", r)
      BY <2>0, <2>2, Putting DEF Calculating, Calls!Tables
    <2> QED  BY <1>5, <2>1, <2>2 DEF Calls!PutRecord, Calls!Goto
  <1>6. CASE Calls!PutCalculation(c)
    <2>0. pc[c] = "calculation"
      BY <1>6 DEF Calls!PutCalculation
    <2>1. CASE \E how : Calls!Raise(c, how)
      BY <2>0, <2>1, Raised
    <2>2. CASE /\ UNCHANGED <<calc, request>> /\ pc' = [pc EXCEPT ![c] = "leave"]
               /\ Calls!Put(c, "calculations", calc[c])
      BY <2>0, <2>2, Putting DEF Calculating, Calls!Tables
    <2> QED  BY <1>6, <2>1, <2>2 DEF Calls!PutCalculation, Calls!Goto
  <1>7. CASE Calls!Leave(c)
    <2>1. /\ pc[c] = "leave" /\ pc' = [pc EXCEPT ![c] = "audit"] /\ UNCHANGED <<calc, request>>
          /\ Calls!Commit(c) \/ UNCHANGED <<db, open>>
      BY <1>7 DEF Calls!Leave, Calls!Goto
    <2> QED  BY <2>1, Committing DEF Calculating
  <1>8. ASSUME NEW t \in {"audit", "lineage"}, NEW next \in {"lineage", "finish"},
               Calls!Append(c, t, next)
        PROVE  Calculating(c)
    <2>1. /\ pc[c] = t /\ pc' = [pc EXCEPT ![c] = next] /\ UNCHANGED <<calc, request>>
          /\ Calls!Put(c, t, calc[c].revision)
      BY <1>8 DEF Calls!Append, Calls!Goto
    <2> QED  BY <2>1, Putting DEF Calculating, Calls!Tables
  <1>9. CASE Calls!Finish(c)
    <2>1. /\ pc[c] = "finish" /\ pc' = [pc EXCEPT ![c] = "idle"]
          /\ \E k : calc' = [calc EXCEPT ![c] = k]
          /\ UNCHANGED request /\ (Calls!Commit(c) \/ UNCHANGED <<db, open>>)
      BY <1>9 DEF Calls!Finish, Calls!Reply
    <2> QED  BY <2>1, Committing DEF Calculating
  <1> QED
    BY <1>1, <1>2, <1>3, <1>4, <1>5, <1>6, <1>7, <1>8, <1>9
    DEF Calls!Step, Calls!AppendAudit, Calls!AppendLineage
-----------------------------------------------------------------------------
(* Every step keeps the invariant.                                          *)

\* What is between calls keeps its card priced while cards move.
LEMMA PricedStays ==
    ASSUME PricedInv, Kept \/ UNCHANGED cards,
           UNCHANGED <<stage, ask, db, open, pc, request, calc>>
    PROVE  PricedInv'
  BY PublishedKept DEF PricedInv, Published

LEMMA MoveStep ==
    ASSUME IInv, MoveCard
    PROVE  IInv'
  <1>1. /\ Kept /\ cards' \in [Cards -> Snapshot \cup {None}]
        /\ UNCHANGED <<usage, faults>> /\ UNCHANGED reading /\ UNCHANGED calculating
    BY CardsMove DEF IInv, MoveCard
  <1> USE DEF reading, calculating
  <1>2. TypeInv'
    BY <1>1 DEF IInv, TypeInv
  <1>3. PricedInv'
    BY <1>1, PricedStays DEF IInv
  <1>4. ASSUME NEW d \in Clients
        PROVE  (StageInv(d) /\ RetiredInv(d) /\ UsageInv(d))'
    <2>1. StageInv(d)'
      BY <1>1 DEF IInv, StageInv
    <2>2. UsageInv(d)'
      BY <1>1 DEF IInv, UsageInv
    <2>3. ask[d] \in Asks => ask[d].card \in Cards
      BY AskAssumption DEF Ask
    <2>4. RetiredInv(d)'
      BY <1>1, <2>3 DEF IInv, RetiredInv, StageInv, Kept
    <2> QED  BY <2>1, <2>2, <2>4
  <1> QED  BY <1>2, <1>3, <1>4 DEF IInv

LEMMA UsageStep ==
    ASSUME IInv, NEW a \in Aggregates, AppendUsage(a)
    PROVE  IInv'
  <1>1. /\ usage[a] < MaxUsageRevision /\ usage' = [usage EXCEPT ![a] = usage[a] + 1]
        /\ UNCHANGED <<cards, faults>> /\ UNCHANGED reading /\ UNCHANGED calculating
    BY DEF AppendUsage
  <1> USE DEF reading, calculating
  <1>2. TypeInv' /\ \A x \in Aggregates : usage[x] \in Nat /\ usage'[x] \in Nat /\ usage[x] =< usage'[x]
    BY <1>1, BoundsAssumption DEF IInv, TypeInv
  <1>3. PricedInv'
    BY <1>1, PricedStays DEF IInv
  <1>4. ASSUME NEW d \in Clients
        PROVE  (StageInv(d) /\ RetiredInv(d) /\ UsageInv(d))'
    <2>1. StageInv(d)' /\ RetiredInv(d)'
      BY <1>1 DEF IInv, StageInv, RetiredInv
    <2>2. stage[d] # "idle" =>
             \A x \in Aggregates : known[d].usage[x] \in Nat /\ known[d].usage[x] =< usage'[x]
      BY <1>2 DEF IInv, UsageInv
    <2>3. stage[d] # "usage" => DOMAIN fetched[d] = {}
      BY DEF IInv, StageInv
    <2>4. \A x \in DOMAIN fetched[d] : fetched[d][x] \in known[d].usage[x] .. usage'[x]
      BY <1>2, <2>2, <2>3 DEF IInv, UsageInv
    <2>5. stage[d] = "priced" =>
             \A x \in DOMAIN request[d].input.usage :
                 request[d].input.usage[x] \in known[d].usage[x] .. usage'[x]
      BY <1>2, <2>2 DEF IInv, UsageInv
    <2>6. UsageInv(d)'
      BY <1>1, <2>2, <2>4, <2>5 DEF IInv, UsageInv
    <2> QED  BY <2>1, <2>6
  <1> QED  BY <1>2, <1>3, <1>4 DEF IInv

LEMMA CallStep ==
    ASSUME IInv, NEW c \in Clients, NEW q \in Asks, Call(c, q)
    PROVE  IInv'
  <1> DEFINE k == [usage |-> usage,
                   retired |-> cards[q.card] # None /\ cards[q.card].state = "retired"]
  <1>1. /\ stage[c] = "idle" /\ stage' = [stage EXCEPT ![c] = "card"]
        /\ ask' = [ask EXCEPT ![c] = q] /\ known' = [known EXCEPT ![c] = k]
        /\ UNCHANGED <<fetched, faults, environment, calculating>>
    BY DEF Call
  <1>2. k.usage = usage /\ (k.retired <=> cards[q.card] # None /\ cards[q.card].state = "retired")
    OBVIOUS
  <1> HIDE DEF k
  <1> USE DEF environment, calculating
  <1>3. TypeInv'
    BY <1>1 DEF IInv, TypeInv
  <1>4. PricedInv'
    BY <1>1 DEF IInv, TypeInv, PricedInv, Published
  <1>5. ASSUME NEW d \in Clients
        PROVE  (StageInv(d) /\ RetiredInv(d) /\ UsageInv(d))'
    <2>1. CASE d = c
      <3>1. /\ stage'[c] = "card" /\ ask'[c] = q /\ known'[c] = k
        BY <1>1 DEF IInv, TypeInv
      <3>2. StageInv(c)'
        BY <1>1, <3>1 DEF IInv, StageInv
      <3>3. RetiredInv(c)'
        BY <1>1, <1>2, <3>1 DEF RetiredInv
      <3>4. \A a \in Aggregates : usage[a] \in Nat /\ usage[a] =< usage[a]
        BY BoundsAssumption DEF IInv, TypeInv
      <3>5. fetched[c] = <<>>
        BY <1>1 DEF IInv, StageInv
      <3>6. UsageInv(c)'
        BY <1>1, <1>2, <3>1, <3>4, <3>5 DEF UsageInv
      <3> QED  BY <2>1, <3>2, <3>3, <3>6
    <2>2. CASE d # c
      <3>1. stage'[d] = stage[d] /\ ask'[d] = ask[d] /\ known'[d] = known[d]
        BY <1>1, <2>2 DEF IInv, TypeInv
      <3> QED  BY <1>1, <3>1 DEF IInv, StageInv, RetiredInv, UsageInv
    <2> QED  BY <2>1, <2>2
  <1> QED  BY <1>3, <1>4, <1>5 DEF IInv

\* A call that ends leaves the invariant to the others.
LEMMA RestStep ==
    ASSUME IInv, NEW c \in Clients, Rest(c), UNCHANGED environment,
           \A d \in Clients \ {c} : pc'[d] = pc[d], request' = request, pc'[c] = "idle"
    PROVE  \A d \in Clients : (StageInv(d) /\ RetiredInv(d) /\ UsageInv(d))'
  <1> SUFFICES ASSUME NEW d \in Clients
               PROVE  (StageInv(d) /\ RetiredInv(d) /\ UsageInv(d))'
    OBVIOUS
  <1>1. /\ stage'[c] = "idle" /\ fetched'[c] = <<>>
        /\ d # c => /\ stage'[d] = stage[d] /\ ask'[d] = ask[d]
                    /\ known'[d] = known[d] /\ fetched'[d] = fetched[d]
    BY DEF Rest, IInv, TypeInv
  <1>2. CASE d = c
    BY <1>1, <1>2 DEF StageInv, RetiredInv, UsageInv
  <1>3. CASE d # c
    BY <1>1, <1>3 DEF IInv, StageInv, RetiredInv, UsageInv, environment
  <1> QED  BY <1>2, <1>3

\* A step the calculator takes no part in leaves what it stores and prices as it
\* was: only what the calls read can change.
LEMMA QuietPriced ==
    ASSUME IInv, UNCHANGED environment, UNCHANGED calculating,
           \A d \in Clients : stage'[d] = "usage" => (Published(ask[d]))'
    PROVE  PricedInv'
  <1>1. (\A k \in db["calculations"] : Published(k.input))'
    BY DEF IInv, PricedInv, Published, environment, calculating
  <1>2. ASSUME NEW d \in Clients
        PROVE  (/\ \A k \in open[d]["calculations"] : Published(k.input)
                /\ pc[d] # "idle" => Published(request[d].input)
                /\ pc[d] \in {"record", "calculation"} => Published(calc[d].input)
                /\ stage[d] = "usage" => Published(ask[d]))'
    <2>1. (/\ \A k \in open[d]["calculations"] : Published(k.input)
           /\ pc[d] # "idle" => Published(request[d].input)
           /\ pc[d] \in {"record", "calculation"} => Published(calc[d].input))'
      BY DEF IInv, PricedInv, Published, environment, calculating
    <2> QED  BY <2>1
  <1> QED  BY <1>1, <1>2 DEF PricedInv

\* A call that ends before it reaches the calculator prices nothing.
LEMMA RestPriced ==
    ASSUME IInv, NEW c \in Clients, Rest(c), UNCHANGED environment, UNCHANGED calculating
    PROVE  PricedInv'
  <1>1. \A d \in Clients : stage'[d] = "usage" => stage[d] = "usage" /\ ask'[d] = ask[d]
    BY DEF Rest, IInv, TypeInv
  <1>2. \A d \in Clients : stage'[d] = "usage" => (Published(ask[d]))'
    BY <1>1 DEF IInv, PricedInv, Published, environment
  <1> QED  BY <1>2, QuietPriced

LEMMA ReadStep ==
    ASSUME IInv, NEW c \in Clients, ReadCard(c)
    PROVE  IInv'
  <1> USE DEF environment, calculating
  <1>0. stage[c] = "card" /\ UNCHANGED <<faults, environment, calculating>>
    BY DEF ReadCard
  <1>1. CASE Prices(cards[ask[c].card], ask[c])
    <2>1. stage' = [stage EXCEPT ![c] = "usage"] /\ UNCHANGED <<ask, fetched, known>>
      BY <1>1 DEF ReadCard
    <2>2. ask[c] \in Asks /\ ask[c].card \in Cards
      BY <1>0, AskAssumption DEF IInv, StageInv, Ask
    <2>3. Published(ask[c])
      BY <1>1, <2>2 DEF Prices, Published
    <2>4. TypeInv'
      BY <1>0, <2>1 DEF IInv, TypeInv
    <2>5. PricedInv'
      <3>1. ASSUME NEW d \in Clients, stage'[d] = "usage"
            PROVE  (Published(ask[d]))'
        <4>1. Published(ask[d])
          BY <2>1, <2>3, <3>1 DEF IInv, TypeInv, PricedInv
        <4> QED  BY <1>0, <2>1, <4>1 DEF Published
      <3> QED  BY <1>0, <3>1, QuietPriced
    <2>6. ASSUME NEW d \in Clients
          PROVE  (StageInv(d) /\ RetiredInv(d) /\ UsageInv(d))'
      <3>1. stage'[d] = IF d = c THEN "usage" ELSE stage[d]
        BY <2>1 DEF IInv, TypeInv
      <3>2. StageInv(d)'
        BY <1>0, <2>1, <3>1 DEF IInv, StageInv
      <3>3. RetiredInv(d)'
        BY <1>0, <1>1, <2>1, <3>1 DEF IInv, RetiredInv, Prices
      <3>4. UsageInv(d)'
        BY <1>0, <2>1, <3>1 DEF IInv, UsageInv
      <3> QED  BY <3>2, <3>3, <3>4
    <2> QED  BY <2>4, <2>5, <2>6 DEF IInv
  <1>2. CASE ~Prices(cards[ask[c].card], ask[c])
    <2>1. Rest(c)
      BY <1>2 DEF ReadCard
    <2>2. TypeInv'
      BY <1>0, <2>1 DEF IInv, TypeInv, Rest
    <2>3. PricedInv'
      BY <1>0, <2>1, RestPriced
    <2>4. pc'[c] = "idle"
      BY <1>0 DEF IInv, StageInv
    <2>5. \A d \in Clients : (StageInv(d) /\ RetiredInv(d) /\ UsageInv(d))'
      BY <1>0, <2>1, <2>4, RestStep
    <2> QED  BY <2>2, <2>3, <2>5 DEF IInv
  <1> QED  BY <1>1, <1>2

LEMMA NewestRowIs ==
    ASSUME NEW n \in Nat
    PROVE  NewestRow(1 .. n) = n
  <1>1. CASE n = 0
    BY <1>1 DEF NewestRow
  <1>2. CASE n # 0
    <2>1. /\ 1 .. n # {} /\ n \in 1 .. n /\ \A s \in 1 .. n : s =< n
          /\ \A r \in 1 .. n : (\A s \in 1 .. n : s =< r) => r = n
      BY <1>2
    <2> QED  BY <2>1 DEF NewestRow
  <1> QED  BY <1>1, <1>2

\* What a client has read after one more page.
SeenWith(c, a) ==
    [b \in DOMAIN fetched[c] \cup {a} |->
        IF b = a THEN NewestRow(1 .. usage[a]) ELSE fetched[c][b]]

LEMMA SeenPages ==
    ASSUME IInv, NEW c \in Clients, stage[c] = "usage", NEW a \in Aggregates
    PROVE  /\ DOMAIN SeenWith(c, a) \subseteq Aggregates
           /\ \A b \in DOMAIN SeenWith(c, a) :
                 SeenWith(c, a)[b] \in known[c].usage[b] .. usage[b]
           /\ \A b \in Aggregates : known[c].usage[b] \in Nat /\ usage[b] \in 0 .. MaxUsageRevision
  <1>1. usage[a] \in Nat
    BY BoundsAssumption DEF IInv, TypeInv
  <1>2. NewestRow(1 .. usage[a]) = usage[a]
    BY <1>1, NewestRowIs
  <1> QED  BY <1>1, <1>2, BoundsAssumption DEF IInv, TypeInv, UsageInv, SeenWith

\* The usage a call prices once it has read every page.
LEMMA UsedPages ==
    ASSUME IInv, NEW c \in Clients, stage[c] = "usage", NEW a \in Aggregates,
           DOMAIN SeenWith(c, a) = Aggregates, NEW used,
           used = Selected(ask[c], SeenWith(c, a)), Accepts(used)
    PROVE  /\ used \in Usages
           /\ \A b \in Matching[ask[c].pricing] : known[c].usage[b] > 0 => b \in DOMAIN used
           /\ DOMAIN used \subseteq Aggregates
           /\ \A b \in DOMAIN used : used[b] \in known[c].usage[b] .. usage[b] /\ Closed[b] =< used[b]
  <1> DEFINE seen == SeenWith(c, a)
             Read == {b \in Matching[ask[c].pricing] : seen[b] > 0}
  <1>1. Matching[ask[c].pricing] \subseteq Aggregates
    BY AskAssumption, AggregatesAssumption DEF IInv, StageInv, Ask
  <1>2. /\ DOMAIN seen = Aggregates
        /\ \A b \in Aggregates : seen[b] \in known[c].usage[b] .. usage[b]
        /\ \A b \in Aggregates : known[c].usage[b] \in Nat /\ usage[b] \in 0 .. MaxUsageRevision
    BY SeenPages
  <1> HIDE DEF seen
  <1>3. used = [b \in Read |-> seen[b]]
    BY DEF Selected, seen
  <1>4. Read \in (SUBSET Aggregates) \ {{}}
    BY <1>1, <1>3 DEF Accepts
  <1>5. \A b \in Read : seen[b] \in 1 .. MaxUsageRevision
    BY <1>1, <1>2, BoundsAssumption
  <1>6. used \in [Read -> 1 .. MaxUsageRevision]
    BY <1>3, <1>5
  <1>7. \A b \in Matching[ask[c].pricing] : known[c].usage[b] > 0 => b \in DOMAIN used
    BY <1>1, <1>2, <1>3
  <1>8. \A b \in DOMAIN used : used[b] \in known[c].usage[b] .. usage[b] /\ Closed[b] =< used[b]
    BY <1>1, <1>2, <1>3 DEF Accepts
  <1>9. used \in Usages
    <2> HIDE DEF Read
    <2> QED  BY <1>4, <1>6 DEF Usages
  <1> QED  BY <1>1, <1>3, <1>7, <1>8, <1>9

\* What calculate hands to find_calculation.
Asked(q, used) ==
    [input |-> [card |-> q.card, pricing |-> q.pricing, usage |-> used],
     allocation |-> q.allocation, at |-> q.at]

LEMMA AskedIs ==
    ASSUME NEW q \in Asks, NEW used \in Usages
    PROVE  /\ Asked(q, used) \in Calls!Request
           /\ Asked(q, used) \in [input : Input, allocation : Allocations, at : Instants]
           /\ Asked(q, used).input.usage = used
           /\ Asked(q, used).input.card = q.card /\ Asked(q, used).input.pricing = q.pricing
  BY AskAssumption DEF Ask, Asked, Input, Calls!Request

LEMMA FetchStep ==
    ASSUME IInv, NEW c \in Clients, FetchPage(c)
    PROVE  IInv'
  <1> USE DEF environment
  <1>0. stage[c] = "usage" /\ UNCHANGED <<faults, environment>> /\ ask[c] \in Asks
    BY DEF FetchPage, IInv, StageInv
  <1>1. PICK a \in Aggregates \ DOMAIN fetched[c] :
           LET seen == SeenWith(c, a)
               used == Selected(ask[c], seen)
           IN  IF DOMAIN seen # Aggregates
               THEN /\ fetched' = [fetched EXCEPT ![c] = seen]
                    /\ UNCHANGED <<stage, ask, known, calculating>>
               ELSE IF ~Accepts(used) THEN Rest(c) /\ UNCHANGED calculating
               ELSE /\ stage' = [stage EXCEPT ![c] = "priced"]
                    /\ fetched' = [fetched EXCEPT ![c] = <<>>]
                    /\ UNCHANGED <<ask, known>>
                    /\ Calls!Begin(c, Asked(ask[c], used))
    BY DEF FetchPage, SeenWith, Asked
  <1> DEFINE seen == SeenWith(c, a)
             used == Selected(ask[c], seen)
  <1>2. CASE DOMAIN seen # Aggregates
    <2>1. fetched' = [fetched EXCEPT ![c] = seen] /\ UNCHANGED <<stage, ask, known, calculating>>
      BY <1>1, <1>2
    <2>2. /\ DOMAIN seen \subseteq Aggregates
          /\ \A b \in DOMAIN seen : seen[b] \in known[c].usage[b] .. usage[b]
      BY <1>0, SeenPages
    <2> HIDE DEF seen
    <2>3. fetched'[c] = seen /\ \A d \in Clients \ {c} : fetched'[d] = fetched[d]
      BY <2>1 DEF IInv, TypeInv
    <2> USE DEF calculating
    <2>4. TypeInv'
      BY <1>0, <2>1 DEF IInv, TypeInv
    <2>5. PricedInv'
      BY <1>0, <2>1 DEF IInv, PricedInv, Published
    <2>6. ASSUME NEW d \in Clients
          PROVE  (StageInv(d) /\ RetiredInv(d) /\ UsageInv(d))'
      <3>1. StageInv(d)'
        BY <1>0, <2>1, <2>3 DEF IInv, StageInv
      <3>2. RetiredInv(d)'
        BY <1>0, <2>1 DEF IInv, RetiredInv
      <3>3. UsageInv(d)'
        BY <1>0, <2>1, <2>2, <2>3 DEF IInv, UsageInv
      <3> QED  BY <3>1, <3>2, <3>3
    <2> QED  BY <2>4, <2>5, <2>6 DEF IInv
  <1>3. CASE DOMAIN seen = Aggregates /\ ~Accepts(used)
    <2>1. Rest(c) /\ UNCHANGED calculating
      BY <1>1, <1>3
    <2> USE DEF calculating
    <2>2. TypeInv'
      BY <1>0, <2>1 DEF IInv, TypeInv, Rest
    <2>3. PricedInv'
      BY <1>0, <2>1, RestPriced
    <2>4. pc'[c] = "idle"
      BY <1>0, <2>1 DEF IInv, StageInv
    <2>5. \A d \in Clients : (StageInv(d) /\ RetiredInv(d) /\ UsageInv(d))'
      BY <1>0, <2>1, <2>4, RestStep
    <2> QED  BY <2>2, <2>3, <2>5 DEF IInv
  <1>4. CASE DOMAIN seen = Aggregates /\ Accepts(used)
    <2> DEFINE r == Asked(ask[c], used)
    <2>1. /\ stage' = [stage EXCEPT ![c] = "priced"] /\ fetched' = [fetched EXCEPT ![c] = <<>>]
          /\ UNCHANGED <<ask, known>> /\ Calls!Begin(c, r)
      BY <1>1, <1>4
    <2>2. /\ used \in Usages
          /\ \A b \in Matching[ask[c].pricing] : known[c].usage[b] > 0 => b \in DOMAIN used
          /\ DOMAIN used \subseteq Aggregates
          /\ \A b \in DOMAIN used : used[b] \in known[c].usage[b] .. usage[b] /\ Closed[b] =< used[b]
      BY <1>0, <1>4, UsedPages
    <2> HIDE DEF used
    <2>3. r.input.usage = used /\ r.input.card = ask[c].card /\ r.input.pricing = ask[c].pricing
      BY <1>0, <2>2, AskedIs
    <2>4. Published(r.input)
      BY <1>0, <2>3 DEF IInv, PricedInv, Published
    <2> HIDE DEF r
    <2>5. /\ pc' = [pc EXCEPT ![c] = "find"] /\ request' = [request EXCEPT ![c] = r]
          /\ calc' = [calc EXCEPT ![c] = None] /\ UNCHANGED <<db, open>>
      BY <2>1 DEF Calls!Begin
    <2>6. TypeInv'
      BY <1>0, <2>1, <2>5 DEF IInv, TypeInv
    <2>7. /\ stage'[c] = "priced" /\ fetched'[c] = <<>> /\ pc'[c] = "find" /\ request'[c] = r
          /\ \A d \in Clients \ {c} :
                /\ stage'[d] = stage[d] /\ fetched'[d] = fetched[d]
                /\ pc'[d] = pc[d] /\ request'[d] = request[d] /\ calc'[d] = calc[d]
      BY <2>1, <2>5 DEF IInv, TypeInv
    <2>8. PricedInv'
      <3>1. (\A k \in db["calculations"] : Published(k.input))'
        BY <1>0, <2>5 DEF IInv, PricedInv, Published
      <3>2. ASSUME NEW d \in Clients
            PROVE  (/\ \A k \in open[d]["calculations"] : Published(k.input)
                    /\ pc[d] # "idle" => Published(request[d].input)
                    /\ pc[d] \in {"record", "calculation"} => Published(calc[d].input)
                    /\ stage[d] = "usage" => Published(ask[d]))'
        <4>1. CASE d = c
          BY <1>0, <2>1, <2>4, <2>5, <2>7, <4>1 DEF IInv, PricedInv, Published
        <4>2. CASE d # c
          BY <1>0, <2>1, <2>5, <2>7, <4>2 DEF IInv, PricedInv, Published
        <4> QED  BY <4>1, <4>2
      <3> QED  BY <3>1, <3>2 DEF PricedInv
    <2>9. ASSUME NEW d \in Clients
          PROVE  (StageInv(d) /\ RetiredInv(d) /\ UsageInv(d))'
      <3>1. StageInv(d)'
        BY <1>0, <2>1, <2>7 DEF IInv, StageInv
      <3>2. RetiredInv(d)'
        BY <1>0, <2>1, <2>7 DEF IInv, RetiredInv
      <3>3. UsageInv(d)'
        <4>1. CASE d = c
          BY <1>0, <2>1, <2>2, <2>3, <2>7, <4>1 DEF IInv, UsageInv
        <4>2. CASE d # c
          BY <1>0, <2>1, <2>7, <4>2 DEF IInv, UsageInv
        <4> QED  BY <4>1, <4>2
      <3> QED  BY <3>1, <3>2, <3>3
    <2> QED  BY <2>6, <2>8, <2>9 DEF IInv
  <1> QED  BY <1>2, <1>3, <1>4

\* A step of the calculator stores nothing that is not priced, and its call
\* rests when it ends.
LEMMA CalculatedStep ==
    ASSUME IInv, NEW c \in Clients, Calculating(c), UNCHANGED environment,
           IF pc'[c] = "idle" THEN Rest(c) ELSE UNCHANGED reading
    PROVE  IInv'
  <1> USE DEF environment
  <1>1. /\ pc[c] # "idle" /\ request' = request
        /\ \A d \in Clients \ {c} : pc'[d] = pc[d] /\ calc'[d] = calc[d] /\ open'[d] = open[d]
    BY DEF Calculating
  <1>2. TypeInv'
    <2>1. CASE pc'[c] = "idle"
      BY <2>1 DEF IInv, TypeInv, Calculating, Rest
    <2>2. CASE pc'[c] # "idle"
      BY <2>2 DEF IInv, TypeInv, Calculating, reading
    <2> QED  BY <2>1, <2>2
  <1>3. stage[c] = "priced"
    BY <1>1 DEF IInv, StageInv
  <1>4. /\ \A k \in db["calculations"] \cup open[c]["calculations"] : Published(k.input)
        /\ Published(request[c].input)
        /\ pc[c] \in {"record", "calculation"} => Published(calc[c].input)
    BY <1>1 DEF IInv, PricedInv
  <1>5. /\ \A k \in db'["calculations"] \cup open'[c]["calculations"] : Published(k.input)
        /\ pc'[c] \in {"record", "calculation"} => Published(calc'[c].input)
    BY <1>4 DEF Calculating
  <1>6. \A d \in Clients : stage'[d] = "usage" => stage[d] = "usage" /\ ask'[d] = ask[d]
    <2>1. CASE pc'[c] = "idle"
      BY <2>1 DEF IInv, TypeInv, Rest
    <2>2. CASE pc'[c] # "idle"
      BY <2>2 DEF reading
    <2> QED  BY <2>1, <2>2
  <1>7. PricedInv'
    <2>1. (\A k \in db["calculations"] : Published(k.input))'
      BY <1>5 DEF Published
    <2>2. ASSUME NEW d \in Clients
          PROVE  (/\ \A k \in open[d]["calculations"] : Published(k.input)
                  /\ pc[d] # "idle" => Published(request[d].input)
                  /\ pc[d] \in {"record", "calculation"} => Published(calc[d].input)
                  /\ stage[d] = "usage" => Published(ask[d]))'
      <3>1. (stage[d] = "usage" => Published(ask[d]))'
        BY <1>6 DEF IInv, PricedInv, Published
      <3>2. CASE d = c
        BY <1>1, <1>4, <1>5, <3>1, <3>2 DEF Published
      <3>3. CASE d # c
        BY <1>1, <3>1, <3>3 DEF IInv, PricedInv, Published
      <3> QED  BY <3>2, <3>3
    <2> QED  BY <2>1, <2>2 DEF PricedInv
  <1>8. ASSUME NEW d \in Clients
        PROVE  (StageInv(d) /\ RetiredInv(d) /\ UsageInv(d))'
    <2>1. CASE pc'[c] = "idle"
      BY <1>1, <2>1, RestStep
    <2>2. CASE pc'[c] # "idle"
      <3>1. UNCHANGED <<stage, ask, fetched, known, cards, usage, request>>
        BY <1>1, <2>2 DEF reading
      <3>2. StageInv(d)'
        BY <1>1, <1>3, <2>2, <3>1 DEF IInv, StageInv
      <3> QED  BY <3>1, <3>2 DEF IInv, RetiredInv, UsageInv
    <2> QED  BY <2>1, <2>2
  <1> QED  BY <1>2, <1>7, <1>8 DEF IInv

LEMMA FailStep ==
    ASSUME IInv, NEW c \in Clients, Fail(c)
    PROVE  IInv'
  <1>0. stage[c] # "idle" /\ Rest(c) /\ UNCHANGED environment
    BY DEF Fail
  <1>1. CASE stage[c] = "priced"
    <2>1. pc[c] # "idle" /\ Calls!Raise(c, "failed")
      BY <1>1 DEF Fail, Calls!Fail
    <2>2. Calculating(c)
      BY <2>1, Raised DEF IInv
    <2>3. pc'[c] = "idle"
      BY <2>1 DEF Calls!Raise, Calls!Reply, IInv, TypeInv
    <2> QED  BY <1>0, <2>2, <2>3, CalculatedStep
  <1>2. CASE stage[c] # "priced"
    <2>1. UNCHANGED calculating
      BY <1>2 DEF Fail
    <2> USE DEF calculating, environment
    <2>2. TypeInv'
      BY <1>0, <2>1 DEF IInv, TypeInv, Rest
    <2>3. PricedInv'
      BY <1>0, <2>1, RestPriced
    <2>4. pc'[c] = "idle"
      BY <1>2, <2>1 DEF IInv, StageInv
    <2>5. \A d \in Clients : (StageInv(d) /\ RetiredInv(d) /\ UsageInv(d))'
      BY <1>0, <2>1, <2>4, RestStep
    <2> QED  BY <2>2, <2>3, <2>5 DEF IInv
  <1> QED  BY <1>1, <1>2

LEMMA UnchangedStep ==
    ASSUME IInv, UNCHANGED vars
    PROVE  IInv'
  <1> USE DEF vars
  <1>1. TypeInv'
    BY DEF IInv, TypeInv
  <1>2. PricedInv'
    BY PricedStays DEF IInv
  <1>3. ASSUME NEW d \in Clients
        PROVE  (StageInv(d) /\ RetiredInv(d) /\ UsageInv(d))'
    BY DEF IInv, StageInv, RetiredInv, UsageInv
  <1> QED  BY <1>1, <1>2, <1>3 DEF IInv

LEMMA InvInit == Init => IInv
  <1> SUFFICES ASSUME Init PROVE IInv
    OBVIOUS
  <1>1. TypeInv
    <2>1. 0 \in 0 .. MaxUsageRevision
      BY BoundsAssumption
    <2> QED  BY <2>1 DEF Init, Register!Init, Calls!Init, Calls!Empty, Calls!Tables, TypeInv
  <1>2. PricedInv
    BY DEF Init, Calls!Init, Calls!Empty, Calls!Tables, PricedInv
  <1>3. \A c \in Clients : StageInv(c) /\ RetiredInv(c) /\ UsageInv(c)
    BY DEF Init, Calls!Init, StageInv, RetiredInv, UsageInv
  <1> QED  BY <1>1, <1>2, <1>3 DEF IInv

LEMMA InvStep == IInv /\ [Next]_vars => IInv'
  <1> SUFFICES ASSUME IInv, [Next]_vars
               PROVE  IInv'
    OBVIOUS
  <1>1. CASE UNCHANGED vars
    BY <1>1, UnchangedStep
  <1>2. CASE MoveCard
    BY <1>2, MoveStep
  <1>3. ASSUME NEW a \in Aggregates, AppendUsage(a)
        PROVE  IInv'
    BY <1>3, UsageStep
  <1>4. ASSUME NEW c \in Clients, Step(c)
        PROVE  IInv'
    <2>1. CASE ReadCard(c)
      BY <2>1, ReadStep
    <2>2. CASE FetchPage(c)
      BY <2>2, FetchStep
    <2>3. CASE Calculate(c)
      <3>1. Calculating(c)
        BY <2>3, CalculatorStep DEF Calculate, IInv
      <3> QED  BY <2>3, <3>1, CalculatedStep DEF Calculate, environment
    <2> QED  BY <1>4, <2>1, <2>2, <2>3 DEF Step
  <1>5. ASSUME NEW c \in Clients, Fail(c)
        PROVE  IInv'
    BY <1>5, FailStep
  <1>6. ASSUME NEW c \in Clients, NEW q \in Asks, Call(c, q)
        PROVE  IInv'
    BY <1>6, CallStep
  <1> QED  BY <1>1, <1>2, <1>3, <1>4, <1>5, <1>6 DEF Next

-----------------------------------------------------------------------------
(* The theorems.                                                            *)

\* However calls, cards and usage interleave and whatever fails, the invariant
\* holds.
THEOREM Invariance == Spec => []IInv
  BY InvInit, InvStep, PTL DEF Spec

\* However cards move while calculations run, what is stored used a card that
\* had been published with just that pricing (CostCalculator._card).
THEOREM Priced == Spec => []PricedAsPublished
  <1>1. IInv => PricedAsPublished
    BY DEF IInv, PricedInv, Published, PricedAsPublished
  <1> QED  BY Invariance, <1>1, PTL

\* A call begun after a card was retired is never answered with it: it does
\* not get so far as to look for a stored calculation.
THEOREM Retired == Spec => []RetiredCardsPriceNothing
  <1>1. IInv => RetiredCardsPriceNothing
    BY DEF IInv, RetiredInv, RetiredCardsPriceNothing
  <1> QED  BY Invariance, <1>1, PTL

\* Pages read at different times still make up a usage that is closed, that
\* exists, and that is in no aggregate older than when the caller asked.
THEOREM Fresh == Spec => []UsageNotOlderThanAsked
  <1>1. IInv => UsageNotOlderThanAsked
    BY DEF IInv, UsageInv, UsageNotOlderThanAsked
  <1> QED  BY Invariance, <1>1, PTL

\* In these surroundings the rate-card store is still the register that
\* RateCards implements.
THEOREM CardsAreRegister == Spec => Register!Spec
  <1>1. Init => Register!Init
    BY DEF Init
  <1>2. [Next]_vars => [Register!Next]_cards
    BY DEF Next, vars, MoveCard, AppendUsage, Call, Step, ReadCard, FetchPage, Calculate, Fail, environment
  <1> QED  BY <1>1, <1>2, PTL DEF Spec, Register!Spec
-----------------------------------------------------------------------------
(* The calculator among its surroundings is Calculations, so that what is   *)
(* proved of that module holds of the system.                               *)

Calculator == INSTANCE CalculationsProofs WITH
    Inputs <- Input, StaleReads <- FALSE,
    Requests <- [input : Input, allocation : Allocations, at : Instants]

\* The calculator that CostSystem runs and the one the theorems are about.
LEMMA SameSteps ==
    ASSUME NEW c \in Clients
    PROVE  /\ Calls!Step(c) <=> Calculator!Step(c)
           /\ Calls!Fail(c) <=> Calculator!Fail(c)
           /\ \A q : Calls!Begin(c, q) <=> Calculator!Begin(c, q)
  <1> USE DEF Calls!Tables, Calculator!Tables, Calls!Empty, Calculator!Empty,
             Calls!Sees, Calculator!Sees, Calls!Scanned, Calculator!Scanned,
             Calls!SameIdentity, Calculator!SameIdentity, Calls!Clash,
             Calculator!Clash, Calls!InTransaction, Calculator!InTransaction,
             Calls!Blocked, Calculator!Blocked, Calls!Write, Calculator!Write,
             Calls!Commit, Calculator!Commit, Calls!Goto, Calculator!Goto,
             Calls!Reply, Calculator!Reply, Calls!Raise, Calculator!Raise,
             Calls!RecordScans, Calculator!RecordScans, Calls!Names,
             Calculator!Names, Calls!Newest, Calculator!Newest, Calls!Proposed,
             Calculator!Proposed, Calls!Put, Calculator!Put, Calls!Refused,
             Calculator!Refused, Calls!First, Calculator!First, Calls!Append,
             Calculator!Append
  <1>1. Calls!Find(c) <=> Calculator!Find(c)
    BY DEF Calls!Find, Calculator!Find
  <1>2. Calls!Replay(c) <=> Calculator!Replay(c)
    BY DEF Calls!Replay, Calculator!Replay
  <1>3. Calls!Latest(c) <=> Calculator!Latest(c)
    BY DEF Calls!Latest, Calculator!Latest
  <1>4. Calls!Propose(c) <=> Calculator!Propose(c)
    BY DEF Calls!Propose, Calculator!Propose
  <1>5. Calls!PutRecord(c) <=> Calculator!PutRecord(c)
    BY DEF Calls!PutRecord, Calculator!PutRecord
  <1>6. Calls!PutCalculation(c) <=> Calculator!PutCalculation(c)
    BY DEF Calls!PutCalculation, Calculator!PutCalculation
  <1>7. Calls!Leave(c) <=> Calculator!Leave(c)
    BY DEF Calls!Leave, Calculator!Leave
  <1>8. Calls!AppendAudit(c) <=> Calculator!AppendAudit(c)
    BY DEF Calls!AppendAudit, Calculator!AppendAudit
  <1>9. Calls!AppendLineage(c) <=> Calculator!AppendLineage(c)
    BY DEF Calls!AppendLineage, Calculator!AppendLineage
  <1>10. Calls!Finish(c) <=> Calculator!Finish(c)
    BY DEF Calls!Finish, Calculator!Finish
  <1>11. Calls!Fail(c) <=> Calculator!Fail(c)
    BY DEF Calls!Fail, Calculator!Fail
  <1>12. \A q : Calls!Begin(c, q) <=> Calculator!Begin(c, q)
    BY DEF Calls!Begin, Calculator!Begin
  <1> QED
    BY <1>1, <1>2, <1>3, <1>4, <1>5, <1>6, <1>7, <1>8, <1>9, <1>10, <1>11, <1>12
    DEF Calls!Step, Calculator!Step

LEMMA FetchBegins ==
    ASSUME IInv, NEW c \in Clients, FetchPage(c)
    PROVE  \/ UNCHANGED calculating
           \/ \E q \in [input : Input, allocation : Allocations, at : Instants] :
                 Calls!Begin(c, q)
  <1>0. stage[c] = "usage" /\ ask[c] \in Asks
    BY DEF FetchPage, IInv, StageInv
  <1>1. PICK a \in Aggregates :
           LET seen == SeenWith(c, a)
               used == Selected(ask[c], seen)
           IN  \/ UNCHANGED calculating
               \/ /\ DOMAIN seen = Aggregates /\ Accepts(used)
                  /\ Calls!Begin(c, Asked(ask[c], used))
    BY DEF FetchPage, SeenWith, Asked
  <1> DEFINE used == Selected(ask[c], SeenWith(c, a))
  <1>2. CASE /\ DOMAIN SeenWith(c, a) = Aggregates /\ Accepts(used)
             /\ Calls!Begin(c, Asked(ask[c], used))
    <2>1. used \in Usages
      BY <1>0, <1>2, UsedPages
    <2> HIDE DEF used
    <2> QED  BY <1>0, <1>2, <2>1, AskedIs
  <1> QED  BY <1>1, <1>2

LEMMA CalculatorSteps ==
    ASSUME IInv, [Next]_vars
    PROVE  Calculator!Next \/ UNCHANGED calculating
  <1>1. CASE MoveCard \/ UNCHANGED vars
    BY <1>1 DEF MoveCard, vars, calculating
  <1>2. ASSUME NEW a \in Aggregates, AppendUsage(a)
        PROVE  UNCHANGED calculating
    BY <1>2 DEF AppendUsage
  <1>3. ASSUME NEW c \in Clients, Step(c)
        PROVE  Calculator!Next \/ UNCHANGED calculating
    <2>1. CASE ReadCard(c)
      BY <2>1 DEF ReadCard
    <2>2. CASE FetchPage(c)
      BY <2>2, FetchBegins, SameSteps DEF Calculator!Next
    <2>3. CASE Calculate(c)
      BY <2>3, SameSteps DEF Calculate, Calculator!Next
    <2> QED  BY <1>3, <2>1, <2>2, <2>3 DEF Step
  <1>4. ASSUME NEW c \in Clients, Fail(c)
        PROVE  Calculator!Next \/ UNCHANGED calculating
    BY <1>4, SameSteps DEF Fail, Calculator!Next
  <1>5. ASSUME NEW c \in Clients, NEW q \in Asks, Call(c, q)
        PROVE  UNCHANGED calculating
    BY <1>5 DEF Call
  <1> QED  BY <1>1, <1>2, <1>3, <1>4, <1>5 DEF Next

\* Every run of the system is, for the calculator, a run of Calculations over
\* requests of its kind: the surroundings only choose what is asked and when.
THEOREM CallsAreCalculations == Spec => Calls!Spec /\ Calculator!Spec
  <1>1. Init => Calls!Init /\ Calculator!Init
    BY DEF Init, Calls!Init, Calculator!Init, Calls!Empty, Calculator!Empty,
           Calls!Tables, Calculator!Tables
  <1>2. IInv /\ [Next]_vars => [Calculator!Next]_(Calculator!vars)
    BY CalculatorSteps DEF calculating, Calculator!vars
  <1>3. [Calculator!Next]_(Calculator!vars) => [Calls!Next]_(Calls!vars)
    BY SameSteps DEF Calculator!Next, Calls!Next, Calculator!vars, Calls!vars
  <1> QED  BY <1>1, <1>2, <1>3, Invariance, PTL DEF Spec, Calls!Spec, Calculator!Spec

LEMMA CalculatorAssumptions ==
    /\ FALSE \in BOOLEAN
    /\ [input : Input, allocation : Allocations, at : Instants] \subseteq Calculator!Request
    /\ None \notin Calculator!Calculation /\ None \notin Calculator!Request
  BY NoneAssumption DEF Calculator!Request, Calculator!Calculation, Calls!Request, Calls!Calculation

\* Without any transaction, while cards, usage and failures do as they will,
\* the calculations of the series are one chain (calculation.md:22-24).
THEOREM ChainInSystem == Spec => []Calls!OneChain
  <1>1. Calculator!Spec => []Calculator!OneChain
    BY Calculator!Chain, CalculatorAssumptions, KeysAssumption, BoundaryAssumption
  <1>2. Calculator!OneChain => Calls!OneChain
    BY DEF Calculator!OneChain, Calls!OneChain
  <1> QED  BY <1>1, <1>2, CallsAreCalculations, PTL

\* And with a transaction what others see of them is an append-only ledger of
\* whole results.
THEOREM LedgerInSystem == Boundary # "none" => (Spec => Calls!LedgerSpec)
  <1> SUFFICES ASSUME Boundary # "none"
               PROVE  Spec => Calls!LedgerSpec
    OBVIOUS
  <1>1. Calculator!Spec => Calculator!LedgerSpec
    BY Calculator!ImplementsLedger, CalculatorAssumptions, KeysAssumption, BoundaryAssumption
  <1>2. Calculator!LedgerSpec => Calls!LedgerSpec
    <2>1. Calculator!Ledger!Init => Calls!Ledger!Init
      BY DEF Calculator!Ledger!Init, Calls!Ledger!Init, Calls!RecordsOf, Calculator!RecordsOf
    <2>2. [Calculator!Ledger!Next]_({[calculation |-> k, records |-> Calculator!RecordsOf(k)]
                                        : k \in db["calculations"]})
          => [Calls!Ledger!Next]_({[calculation |-> k, records |-> Calls!RecordsOf(k)]
                                        : k \in db["calculations"]})
      BY DEF Calculator!Ledger!Next, Calls!Ledger!Next, Calculator!Ledger!Append,
             Calls!Ledger!Append, Calculator!Ledger!Last, Calls!Ledger!Last,
             Calculator!Ledger!Result, Calls!Ledger!Result,
             Calls!RecordsOf, Calculator!RecordsOf
    <2> QED
      BY <2>1, <2>2, PTL DEF Calculator!LedgerSpec, Calls!LedgerSpec,
                             Calculator!Ledger!Spec, Calls!Ledger!Spec
  <1> QED  BY <1>1, <1>2, CallsAreCalculations, PTL
=============================================================================
