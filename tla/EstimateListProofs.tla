-------------------------- MODULE EstimateListProofs --------------------------
(***************************************************************************)
(* Proofs about the answers to a request as they are listed                *)
(* (EstimateList), for any shops, prices and distances.                    *)
(*                                                                         *)
(* ResultInv says that a reader has each shop in one of its two lists, and *)
(* that answers are complete and numbered as they came; so each sort is by *)
(* at most two keys and a number nobody shares (KeysOrder).                *)
(***************************************************************************)
EXTENDS 
  MCEstimate, ListProofs, EstimateResponseProofs,
  FiniteSetTheorems, WellFoundedInduction, TLAPS

-----------------------------------------------------------------------------
(* Sorting by two keys and an id that nobody shares is a strict order.     *)
LEMMA KeysOrder ==
  ASSUME NEW S, IsFiniteSet(S), NEW R, NEW f \in [S -> Int], NEW g \in [S -> Int],
         NEW id \in [S -> Int], \A s, t \in S : id[s] = id[t] => s = t,
         \A s, t \in S : <<s, t>> \in R <=>
            \/ f[s] < f[t]
            \/ f[s] = f[t] /\ (g[s] < g[t] \/ (g[s] = g[t] /\ id[s] < id[t]))
  PROVE  Orders(R, S)
<1>1. \A s \in S : <<s, s>> \notin R
  OBVIOUS
<1>2. ASSUME NEW s \in S, NEW t \in S
      PROVE  s = t \/ <<s, t>> \in R \/ <<t, s>> \in R
  <2>1. /\ f[s] < f[t] \/ f[s] = f[t] \/ f[t] < f[s]
        /\ g[s] < g[t] \/ g[s] = g[t] \/ g[t] < g[s]
        /\ id[s] < id[t] \/ id[s] = id[t] \/ id[t] < id[s]
    OBVIOUS
  <2>. QED  BY <2>1
<1>3. ASSUME NEW s \in S, NEW t \in S, NEW u \in S, <<s, t>> \in R, <<t, u>> \in R
      PROVE  <<s, u>> \in R
  <2>1. /\ f[s] \in Int /\ f[t] \in Int /\ f[u] \in Int
        /\ g[s] \in Int /\ g[t] \in Int /\ g[u] \in Int
        /\ id[s] \in Int /\ id[t] \in Int /\ id[u] \in Int
    OBVIOUS
  <2>2. \/ f[s] < f[t]
        \/ f[s] = f[t] /\ (g[s] < g[t] \/ (g[s] = g[t] /\ id[s] < id[t]))
    BY <1>3
  <2>3. \/ f[t] < f[u]
        \/ f[t] = f[u] /\ (g[t] < g[u] \/ (g[t] = g[u] /\ id[t] < id[u]))
    BY <1>3
  <2>4. \/ f[s] < f[u]
        \/ f[s] = f[u] /\ (g[s] < g[u] \/ (g[s] = g[u] /\ id[s] < id[u]))
    BY <2>1, <2>2, <2>3
  <2>. QED  BY <2>4
<1>. QED  BY <1>1, <1>2, <1>3 DEF Orders

(* A finite set of numbers has a greatest one.                             *)
LEMMA MaxOfNaturals ==
  ASSUME NEW S \in SUBSET Nat, IsFiniteSet(S), S # {}
  PROVE  Max(S) \in S /\ \A x \in S : Max(S) >= x
<1>. DEFINE R == {p \in S \X S : p[1] < p[2]}
<1>1. \A x, y \in S : <<x, y>> \in R <=> x < y
  OBVIOUS
<1>. HIDE DEF R
<1>2. Orders(R, S)
  BY <1>1 DEF Orders
<1>3. PICK m \in S : \A y \in S : <<m, y>> \notin R
  BY <1>2, FirstAndLast
<1>4. ASSUME NEW y \in S PROVE m >= y
  <2>1. ~(m < y) /\ m \in Nat /\ y \in Nat
    BY <1>1, <1>3
  <2>. QED  BY <2>1
<1>. QED  BY <1>4 DEF Max

(* And, finite or not, a least one.                                        *)
LEMMA MinOfNaturals ==
  ASSUME NEW S \in SUBSET Nat, S # {}
  PROVE  Min(S) \in S /\ \A x \in S : Min(S) <= x
<1>1. \E m \in S : \A y \in S : m <= y
  BY LeastOfNaturals
<1>. QED  BY <1>1 DEF Min

-----------------------------------------------------------------------------
(* Answers are complete and numbered in the order in which they came; a    *)
(* reader has each shop in one of its two lists.                           *)
ResultInv ==
  /\ ResultTypeOK
  /\ \A s \in Asked : Complete(answers[s])
  /\ \A s \in Asked : answers[s].id = 0 => ~answers[s].can
  /\ \A s \in Asked : answers[s].id <= Cardinality(Responded)
  /\ \A c \in Readers : reader[c].pc = "list" => reader[c].listed = {} /\ reader[c].waiting = Asked
  /\ EveryShopOnce

(* Who has answered are finitely many of those asked.                      *)
LEMMA RespondedIsFinite ==
  /\ IsFiniteSet(Responded) /\ Responded \subseteq Asked
  /\ Cardinality(Responded) \in Nat /\ Cardinality(Asked) \in Nat
  /\ Cardinality(Responded) <= Cardinality(Asked)
<1>1. Responded \subseteq Asked
  BY DEF Responded
<1>. QED  BY <1>1, FS_Subset, FS_CardinalityType, ListAssumption

(* Nobody has answered or read a list yet.                                 *)
LEMMA ResultsStart == ResultInit => ResultInv
<1>. SUFFICES ASSUME ResultInit PROVE ResultInv
  OBVIOUS
<1>1. /\ NoAnswer \in AnswerRow /\ NoAnswer.id = 0 /\ ~NoAnswer.can /\ Complete(NoAnswer)
      /\ Unread \in ReaderRecord /\ Unread.pc = "answered" /\ Unread.listed = {}
      /\ Unread.waiting = Asked
  BY RespondedIsFinite DEF NoAnswer, AnswerRow, Complete, Unread, ReaderRecord
<1>2. \A s \in Asked : answers[s] = NoAnswer
  BY DEF ResultInit
<1>3. \A c \in Readers : reader[c] = Unread
  BY DEF ResultInit
<1>4. ResultTypeOK
  BY <1>1, <1>2 DEF ResultInit, ResultTypeOK
<1>5. EveryShopOnce
  BY <1>1, <1>3 DEF EveryShopOnce
<1>. QED  BY <1>1, <1>2, <1>3, <1>4, <1>5, RespondedIsFinite DEF ResultInv

(* An answer gets the next number; no list that is read changes.           *)
LEMMA AnswerSaved ==
  ASSUME ResultInv, NEW s \in Asked, NEW can \in BOOLEAN, NEW price \in Prices \union {Missing},
         NEW first \in OfferTimes \union {Missing}, SaveAnswer(s, can, price, first)
  PROVE  ResultInv'
<1>. DEFINE n == Cardinality(Responded)
            id == IF s \in Responded THEN answers[s].id ELSE n + 1
            a == [id |-> id, can |-> can, price |-> price, first |-> first]
<1>1. Complete(a) /\ answers' = [answers EXCEPT ![s] = a] /\ UNCHANGED <<located, reader>>
  BY DEF SaveAnswer
<1>2. /\ answers \in [Asked -> AnswerRow] /\ n \in Nat /\ IsFiniteSet(Responded)
      /\ Responded = {t \in Asked : answers[t].id # 0}
  BY RespondedIsFinite DEF ResultInv, ResultTypeOK, Responded
<1>3. \A t \in Asked : answers[t].id \in 0..Cardinality(Asked) /\ answers[t].id <= n
  BY <1>2 DEF ResultInv, AnswerRow
<1>. DEFINE m == Cardinality(Responded')
<1>4. /\ id \in 1..Cardinality(Asked) /\ id <= m /\ n <= m /\ m \in Nat
      /\ s \notin Responded => id = n + 1
      /\ s \in Responded => id = answers[s].id
      /\ Responded' = Responded \union {s}
  <2>1. CASE s \in Responded
    <3>1. id = answers[s].id /\ answers[s].id # 0
      BY <1>2, <2>1
    <3>. HIDE DEF id
    <3>2. \A t \in Asked : answers'[t].id = answers[t].id
      BY <1>1, <1>2, <3>1
    <3>3. Responded' = Responded
      BY <3>2 DEF Responded
    <3>4. m = n
      BY <3>3
    <3>. HIDE DEF n, m
    <3>. QED  BY <1>2, <1>3, <2>1, <3>1, <3>3, <3>4, RespondedIsFinite
  <2>2. CASE s \notin Responded
    <3>1. id = n + 1
      BY <2>2
    <3>2. Responded' = Responded \union {s}
      <4>. HIDE DEF id, n
      <4>1. \A t \in Asked : answers'[t].id = IF t = s THEN id ELSE answers[t].id
        BY <1>1, <1>2
      <4>2. id # 0
        BY <1>2, <3>1
      <4>. QED  BY <4>1, <4>2 DEF Responded
    <3>3. m = n + 1
      BY <1>2, <2>2, <3>2, FS_AddElement
    <3>4. m <= Cardinality(Asked)
      <4>1. Responded \union {s} \subseteq Asked
        BY RespondedIsFinite
      <4>. QED  BY <3>2, <4>1, FS_Subset, ListAssumption
    <3>. HIDE DEF id, n, m
    <3>. QED  BY <1>2, <2>2, <3>1, <3>2, <3>3, <3>4, RespondedIsFinite
  <2>. QED  BY <2>1, <2>2
<1>. HIDE DEF id, n, m
<1>5. /\ a \in AnswerRow /\ a.id = id /\ a.can = can
  BY <1>4, RespondedIsFinite DEF AnswerRow
<1>. HIDE DEF a
<1>6. /\ answers' \in [Asked -> AnswerRow]
      /\ \A t \in Asked : answers'[t] = IF t = s THEN a ELSE answers[t]
  BY <1>1, <1>2, <1>5
<1>7. ASSUME NEW t \in Asked, NEW u \in Asked, answers'[t].id = answers'[u].id
      PROVE  answers'[t].id = 0 \/ t = u
  <2>1. \A x, y \in Asked : answers[x].id = answers[y].id => answers[x].id = 0 \/ x = y
    BY DEF ResultInv, ResultTypeOK
  <2>2. ASSUME NEW x \in Asked, x # s, answers[x].id = id
        PROVE  answers[x].id = 0
    <3>1. CASE s \in Responded
      BY <1>4, <2>1, <2>2, <3>1
    <3>2. CASE s \notin Responded
      BY <1>2, <1>3, <1>4, <2>2, <3>2
    <3>. QED  BY <3>1, <3>2
  <2>. QED  BY <1>5, <1>6, <1>7, <2>1, <2>2
<1>8. ResultTypeOK'
  BY <1>1, <1>6, <1>7 DEF ResultInv, ResultTypeOK
<1>9. \A t \in Asked : answers'[t].id <= m
  BY <1>2, <1>3, <1>4, <1>5, <1>6
<1>10. \A t \in Asked : Complete(answers'[t]) /\ (answers'[t].id = 0 => ~answers'[t].can)
  BY <1>1, <1>4, <1>5, <1>6 DEF ResultInv
<1>11. EveryShopOnce'
  BY <1>1 DEF ResultInv, EveryShopOnce
<1>. QED  BY <1>1, <1>8, <1>9, <1>10, <1>11 DEF ResultInv, m, Complete

(* A step of one reader.                                                   *)
LEMMA OneReaderMoves ==
  ASSUME ResultInv, NEW c \in Readers, NEW r \in ReaderRecord, ReaderTo(c, r),
         r.pc = "list" => r.listed = {} /\ r.waiting = Asked,
         r.pc # "list" => r.listed = Asked \ r.waiting,
         UNCHANGED <<located, answers>>
  PROVE  ResultInv'
<1>1. /\ reader' \in [Readers -> ReaderRecord]
      /\ \A x \in Readers : reader'[x] = IF x = c THEN r ELSE reader[x]
  BY DEF ReaderTo, ResultInv, ResultTypeOK
<1>2. EveryShopOnce'
  BY <1>1 DEF EveryShopOnce, ResultInv
<1>3. \A x \in Readers : reader'[x].pc = "list" => reader'[x].listed = {} /\ reader'[x].waiting = Asked
  BY <1>1 DEF ResultInv
<1>4. ResultTypeOK' /\ Responded' = Responded
  BY <1>1 DEF ResultInv, ResultTypeOK, Responded
<1>. QED  BY <1>2, <1>3, <1>4 DEF ResultInv, Complete

(* A reader may look twice, but moves a shop between its lists whole.      *)
LEMMA ReaderSteps ==
  ASSUME ResultInv, NEW c \in Readers,
         BeginList(c) \/ FindList(c) \/ FindAverages(c) \/ FailList(c)
  PROVE  ResultInv'
<1>1. CASE BeginList(c)
  <2>. DEFINE r == [pc |-> "list", listed |-> {}, waiting |-> Asked]
  <2>1. r \in ReaderRecord /\ r.pc = "list" /\ r.listed = {} /\ r.waiting = Asked
    BY DEF ReaderRecord
  <2>2. ReaderTo(c, r)
    BY <1>1 DEF BeginList
  <2>. HIDE DEF r
  <2>. QED  BY <1>1, <2>1, <2>2, OneReaderMoves DEF BeginList
<1>2. CASE FindList(c)
  <2>. DEFINE q == reader[c]
              left == q.waiting \ Responded
              r == [q EXCEPT !.pc = "averages", !.listed = Responded, !.waiting = left]
  <2>1. q \in ReaderRecord /\ q.waiting = Asked
    BY <1>2 DEF FindList, ResultInv, ResultTypeOK
  <2>2. Responded \subseteq Asked
    BY RespondedIsFinite
  <2>3. left = Asked \ Responded
    BY <2>1
  <2>4. ReaderTo(c, r)
    BY <1>2 DEF FindList
  <2>. HIDE DEF q, left
  <2>5. r \in ReaderRecord /\ r.pc = "averages" /\ r.listed = Responded /\ r.waiting = left
    BY <2>1, <2>2, <2>3 DEF ReaderRecord
  <2>. HIDE DEF r
  <2>. QED  BY <1>2, <2>2, <2>3, <2>4, <2>5, OneReaderMoves DEF FindList
<1>3. CASE FindAverages(c)
  <2>. DEFINE q == reader[c]
              r == [q EXCEPT !.pc = "answered"]
  <2>1. q \in ReaderRecord /\ q.listed = Asked \ q.waiting
    BY <1>3 DEF FindAverages, ResultInv, ResultTypeOK, EveryShopOnce
  <2>2. ReaderTo(c, r)
    BY <1>3 DEF FindAverages
  <2>. HIDE DEF q
  <2>3. r \in ReaderRecord /\ r.pc = "answered" /\ r.listed = q.listed /\ r.waiting = q.waiting
    BY <2>1 DEF ReaderRecord
  <2>. HIDE DEF r
  <2>. QED  BY <1>3, <2>1, <2>2, <2>3, OneReaderMoves DEF FindAverages
<1>4. CASE FailList(c)
  <2>1. /\ Unread \in ReaderRecord /\ Unread.pc = "answered" /\ Unread.listed = {}
        /\ Unread.waiting = Asked
    BY DEF Unread, ReaderRecord
  <2>. QED  BY <1>4, <2>1, OneReaderMoves DEF FailList
<1>. QED  BY <1>1, <1>2, <1>3, <1>4

(* So every step keeps ResultInv.                                          *)
LEMMA ResultsMove == ResultInv /\ [ResultNext]_resultVars => ResultInv'
<1>. SUFFICES ASSUME ResultInv, [ResultNext]_resultVars PROVE ResultInv'
  OBVIOUS
<1>1. CASE UNCHANGED resultVars
  BY <1>1 DEF resultVars, ResultInv, ResultTypeOK, EveryShopOnce, Complete, Responded
<1>. QED  BY <1>1, AnswerSaved, ReaderSteps DEF ResultNext

(* Every reader of the list gets each shop that was asked exactly once,    *)
(* with its answer or as still waiting (the two reads of the list).        *)
THEOREM EveryShopIsListed == ResultSpec => []EveryShopOnce
<1>1. ResultInv => EveryShopOnce
  BY DEF ResultInv
<1>. QED  BY <1>1, ResultsStart, ResultsMove, PTL DEF ResultSpec

(* The answers and the lists have their types.                             *)
THEOREM ResultsTyped == ResultSpec => []ResultTypeOK
<1>1. ResultInv => ResultTypeOK
  BY DEF ResultInv
<1>. QED  BY <1>1, ResultsStart, ResultsMove, PTL DEF ResultSpec

-----------------------------------------------------------------------------
(* The list in the order of a sort.                                        *)
SortOrder(sort) == {p \in Asked \X Asked : ListedBefore(sort, p[1], p[2])}

(* The number of the answer, which the first has.                          *)
LEMMA AnAnswer ==
  ASSUME ResultInv, NEW s \in Responded
  PROVE  /\ s \in Asked /\ answers[s] \in AnswerRow
         /\ answers[s].id \in Nat /\ answers[s].id # 0 /\ answers[s].id <= Cardinality(Responded)
         /\ answers[s].price \in Nat \/ answers[s].price = Missing
         /\ answers[s].first \in OfferTimes \/ answers[s].first = Missing
         /\ OnOffer(answers[s]) => answers[s].price \in Nat /\ answers[s].first # Missing
         /\ answers[s].can => OnOffer(answers[s])
         /\ Stars[s] \in Nat /\ Kilometres[s] \in Nat
<1>1. s \in Asked /\ answers[s] \in AnswerRow /\ Complete(answers[s])
  BY DEF Responded, ResultInv, ResultTypeOK
<1>2. /\ answers[s].id \in 0..Cardinality(Asked) /\ answers[s].id # 0
      /\ answers[s].id <= Cardinality(Responded)
  BY <1>1 DEF AnswerRow, Responded, ResultInv
<1>3. /\ answers[s].price \in Prices \union {Missing}
      /\ answers[s].first \in OfferTimes \union {Missing}
  BY <1>1 DEF AnswerRow
<1>4. /\ Cardinality(Asked) \in Nat /\ Cardinality(Responded) \in Nat
      /\ Stars[s] \in Nat /\ Kilometres[s] \in Nat
  BY <1>1, RespondedIsFinite, ListAssumption
<1>5. answers[s].id \in Nat
  BY <1>2, <1>4
<1>. DEFINE price == answers[s].price
            first == answers[s].first
            can == answers[s].can
<1>6. OnOffer(answers[s]) <=> can /\ price # Missing
  BY DEF OnOffer
<1>7. can => price # Missing /\ first # Missing
  BY <1>1 DEF Complete
<1>. HIDE DEF price, first, can
<1>8. /\ price \in Nat \/ price = Missing
      /\ first \in OfferTimes \/ first = Missing
  BY <1>3, ListAssumption DEF price, first
<1>9. /\ OnOffer(answers[s]) => price \in Nat /\ first # Missing
      /\ can => OnOffer(answers[s])
  BY <1>6, <1>7, <1>8
<1>. QED  BY <1>1, <1>2, <1>4, <1>5, <1>8, <1>9 DEF price, first, can

(* The times and the distances that stand for a missing one are beyond     *)
(* those that are there.                                                   *)
LEMMA Beyond ==
  /\ Far \in Nat /\ \A s \in Asked : Kilometres[s] < Far
  /\ Max(OfferTimes) \in Nat /\ \A t \in OfferTimes : t <= Max(OfferTimes)
<1>. DEFINE K == {Kilometres[s] : s \in Asked}
            L == K \union {10}
<1>1. IsFiniteSet(K)
  <2>1. Kilometres \in Surjection(Asked, K)
    BY ListAssumption DEF Surjection
  <2>. QED  BY <2>1, FS_Surjection, ListAssumption
<1>2. L \in SUBSET Nat /\ IsFiniteSet(L) /\ L # {} /\ \A s \in Asked : Kilometres[s] \in L
  BY <1>1, FS_AddElement, ListAssumption
<1>. HIDE DEF L
<1>3. Max(L) \in L /\ \A x \in L : Max(L) >= x
  BY <1>2, MaxOfNaturals
<1>4. Max(L) \in Nat /\ \A s \in Asked : Kilometres[s] \in Nat /\ Max(L) >= Kilometres[s]
  BY <1>2, <1>3
<1>5. Far = 1 + Max(L)
  BY DEF Far, L
<1>6. Max(OfferTimes) \in OfferTimes /\ \A x \in OfferTimes : Max(OfferTimes) >= x
  BY MaxOfNaturals, ListAssumption
<1>7. Max(OfferTimes) \in Nat /\ \A x \in OfferTimes : x \in Nat
  BY <1>6, ListAssumption
<1>. QED  BY <1>4, <1>5, <1>6, <1>7

(* The keys of the four sorts are numbers.                                 *)
LEMMA KeysOfASort ==
  ASSUME ResultInv, NEW s \in Responded
  PROVE  /\ DistanceOr(s, Far) \in Nat /\ FirstTime(s) \in Nat
         /\ OnOffer(answers[s]) => Score(s) \in Int /\ DistanceOr(s, 10) \in Nat
<1>1. DistanceOr(s, Far) \in Nat /\ DistanceOr(s, 10) \in Nat
  BY AnAnswer, Beyond DEF DistanceOr
<1>2. FirstTime(s) \in Nat
  <2>. DEFINE last == Max(OfferTimes)
              first == answers[s].first
  <2>1. last \in Nat /\ (first \in OfferTimes \/ first = Missing)
    BY AnAnswer, Beyond
  <2>2. /\ first = Missing => FirstTime(s) = last + 1
        /\ first # Missing => FirstTime(s) = first
    BY DEF FirstTime
  <2>. HIDE DEF last, first
  <2>3. first \in OfferTimes => first \in Nat
    BY ListAssumption
  <2>4. last + 1 \in Nat
    BY <2>1
  <2>. HIDE DEF FirstTime
  <2>. QED  BY <2>1, <2>2, <2>3, <2>4
<1>3. ASSUME OnOffer(answers[s])
      PROVE  Score(s) \in Int
  <2>. DEFINE d == DistanceOr(s, 10)
  <2>1. answers[s].price \in Nat /\ Stars[s] \in Nat
    BY <1>3, AnAnswer
  <2>2. Score(s) = 20 * Stars[s] - answers[s].price - d
    BY DEF Score
  <2>. HIDE DEF d
  <2>3. d \in Nat
    BY <1>1 DEF d
  <2>. QED  BY <2>1, <2>2, <2>3
<1>. QED  BY <1>1, <1>2, <1>3

(* Prices are compared by the key of the sort by price.                    *)
LEMMA PricesCompared ==
  ASSUME ResultInv, NEW s \in Responded, NEW t \in Responded
  PROVE  /\ OnOffer(answers[s]) /\ OnOffer(answers[t]) =>
              /\ ComparePrices(s, t) = answers[s].price - answers[t].price
              /\ CompareScores(s, t) = Score(t) - Score(s)
         /\ ~OnOffer(answers[s]) /\ OnOffer(answers[t]) =>
              ComparePrices(s, t) = 1 /\ CompareScores(s, t) = 1
         /\ OnOffer(answers[s]) /\ ~OnOffer(answers[t]) =>
              ComparePrices(s, t) = -1 /\ CompareScores(s, t) = -1
         /\ ~OnOffer(answers[s]) /\ ~OnOffer(answers[t]) =>
              ComparePrices(s, t) = 0 /\ CompareScores(s, t) = 0
BY DEF ComparePrices, CompareScores

(* What a sort puts first.                                                 *)
LEMMA SortsCompared ==
  ASSUME ResultInv, NEW s \in Responded, NEW t \in Responded
  PROVE  /\ <<s, t>> \in SortOrder("LOWEST_PRICE") <=>
              \/ ComparePrices(s, t) < 0
              \/ ComparePrices(s, t) = 0 /\ answers[s].id < answers[t].id
         /\ <<s, t>> \in SortOrder("RECOMMENDED") <=>
              \/ CompareScores(s, t) < 0
              \/ CompareScores(s, t) = 0 /\ answers[s].id < answers[t].id
         /\ <<s, t>> \in SortOrder("NEAREST") <=>
              \/ DistanceOr(s, Far) < DistanceOr(t, Far)
              \/ DistanceOr(s, Far) = DistanceOr(t, Far) /\ answers[s].id < answers[t].id
         /\ <<s, t>> \in SortOrder("EARLIEST_AVAILABLE") <=>
              \/ FirstTime(s) < FirstTime(t)
              \/ FirstTime(s) = FirstTime(t) /\ answers[s].id < answers[t].id
<1>1. \A sort : <<s, t>> \in SortOrder(sort) <=> ListedBefore(sort, s, t)
  BY AnAnswer DEF SortOrder
<1>2. /\ DistanceOr(s, Far) \in Nat /\ DistanceOr(t, Far) \in Nat
      /\ FirstTime(s) \in Nat /\ FirstTime(t) \in Nat
  BY KeysOfASort
<1>3. /\ ListedBefore("LOWEST_PRICE", s, t) <=>
           \/ ComparePrices(s, t) < 0
           \/ ComparePrices(s, t) = 0 /\ answers[s].id < answers[t].id
      /\ ListedBefore("RECOMMENDED", s, t) <=>
           \/ CompareScores(s, t) < 0
           \/ CompareScores(s, t) = 0 /\ answers[s].id < answers[t].id
  BY DEF ListedBefore
<1>4. ListedBefore("NEAREST", s, t) <=>
         \/ DistanceOr(s, Far) - DistanceOr(t, Far) < 0
         \/ DistanceOr(s, Far) - DistanceOr(t, Far) = 0 /\ answers[s].id < answers[t].id
  BY DEF ListedBefore
<1>5. ListedBefore("EARLIEST_AVAILABLE", s, t) <=>
         \/ FirstTime(s) - FirstTime(t) < 0
         \/ FirstTime(s) - FirstTime(t) = 0 /\ answers[s].id < answers[t].id
  BY DEF ListedBefore
<1>. DEFINE d == DistanceOr(s, Far)
            e == DistanceOr(t, Far)
            f == FirstTime(s)
            g == FirstTime(t)
<1>. HIDE DEF d, e, f, g
<1>6. (d - e < 0 <=> d < e) /\ (d - e = 0 <=> d = e) /\ (f - g < 0 <=> f < g) /\ (f - g = 0 <=> f = g)
  <2>1. d \in Nat /\ e \in Nat /\ f \in Nat /\ g \in Nat
    BY <1>2 DEF d, e, f, g
  <2>. QED  BY <2>1
<1>7. <<s, t>> \in SortOrder("NEAREST") <=> d < e \/ (d = e /\ answers[s].id < answers[t].id)
  BY <1>1, <1>4, <1>6 DEF d, e
<1>8. <<s, t>> \in SortOrder("EARLIEST_AVAILABLE") <=>
        f < g \/ (f = g /\ answers[s].id < answers[t].id)
  BY <1>1, <1>5, <1>6 DEF f, g
<1>. QED  BY <1>1, <1>3, <1>7, <1>8 DEF d, e, f, g

(* Every sort is an order of the answers: by whether there is an offer, by *)
(* a number, and by which came first.                                      *)
LEMMA SortsAreOrders ==
  ASSUME ResultInv, NEW sort \in Sorts
  PROVE  Orders(SortOrder(sort), Responded)
<1>. DEFINE S == Responded
            R == SortOrder(sort)
            id == [s \in S |-> answers[s].id]
            none == [s \in S |-> 0]
            offer == [s \in S |-> IF OnOffer(answers[s]) THEN 0 ELSE 1]
            price == [s \in S |-> IF OnOffer(answers[s]) THEN answers[s].price ELSE 0]
            score == [s \in S |-> IF OnOffer(answers[s]) THEN 0 - Score(s) ELSE 0]
            near == [s \in S |-> DistanceOr(s, Far)]
            early == [s \in S |-> FirstTime(s)]
<1>1. /\ IsFiniteSet(S) /\ id \in [S -> Int] /\ none \in [S -> Int] /\ offer \in [S -> Int]
      /\ \A s, t \in S : id[s] = id[t] => s = t
  BY RespondedIsFinite, AnAnswer DEF ResultInv, ResultTypeOK
<1>2. price \in [S -> Int] /\ near \in [S -> Int] /\ early \in [S -> Int]
  BY AnAnswer, KeysOfASort
<1>3. score \in [S -> Int]
  BY KeysOfASort
<1>4. CASE sort = "LOWEST_PRICE"
  <2>1. ASSUME NEW s \in S, NEW t \in S
        PROVE  <<s, t>> \in R <=>
                 \/ offer[s] < offer[t]
                 \/ /\ offer[s] = offer[t]
                    /\ price[s] < price[t] \/ (price[s] = price[t] /\ id[s] < id[t])
    <3>1. <<s, t>> \in R <=>
            ComparePrices(s, t) < 0 \/ (ComparePrices(s, t) = 0 /\ id[s] < id[t])
      BY <1>4, SortsCompared
    <3>2. CASE OnOffer(answers[s]) /\ OnOffer(answers[t])
      <4>1. /\ ComparePrices(s, t) = price[s] - price[t] /\ offer[s] = 0 /\ offer[t] = 0
            /\ price[s] \in Nat /\ price[t] \in Nat
        BY <3>2, PricesCompared, AnAnswer
      <4>. HIDE DEF R, id, price, offer
      <4>. QED  BY <3>1, <4>1
    <3>3. CASE ~OnOffer(answers[s]) \/ ~OnOffer(answers[t])
      BY <3>1, <3>3, PricesCompared
    <3>. QED  BY <3>2, <3>3
  <2>. HIDE DEF S, R, id, offer, price
  <2>2. /\ IsFiniteSet(S) /\ offer \in [S -> Int] /\ price \in [S -> Int] /\ id \in [S -> Int]
        /\ \A s, t \in S : id[s] = id[t] => s = t
    BY <1>1, <1>2
  <2>3. Orders(R, S)
    BY ONLY <2>1, <2>2, KeysOrder, SMTT(30)
  <2>. QED  BY <2>3 DEF S, R
<1>5. CASE sort = "RECOMMENDED"
  <2>1. ASSUME NEW s \in S, NEW t \in S
        PROVE  <<s, t>> \in R <=>
                 \/ offer[s] < offer[t]
                 \/ /\ offer[s] = offer[t]
                    /\ score[s] < score[t] \/ (score[s] = score[t] /\ id[s] < id[t])
    BY <1>5, KeysOfASort, PricesCompared, SortsCompared
  <2>. HIDE DEF S, R, id, offer, score
  <2>2. /\ IsFiniteSet(S) /\ offer \in [S -> Int] /\ score \in [S -> Int] /\ id \in [S -> Int]
        /\ \A s, t \in S : id[s] = id[t] => s = t
    BY <1>1, <1>3
  <2>3. Orders(R, S)
    BY ONLY <2>1, <2>2, KeysOrder, SMTT(30)
  <2>. QED  BY <2>3 DEF S, R
<1>6. CASE sort = "NEAREST"
  <2>1. ASSUME NEW s \in S, NEW t \in S
        PROVE  <<s, t>> \in R <=>
                 \/ none[s] < none[t]
                 \/ /\ none[s] = none[t]
                    /\ near[s] < near[t] \/ (near[s] = near[t] /\ id[s] < id[t])
    BY <1>6, SortsCompared
  <2>. HIDE DEF S, R, id, none, near
  <2>2. /\ IsFiniteSet(S) /\ none \in [S -> Int] /\ near \in [S -> Int] /\ id \in [S -> Int]
        /\ \A s, t \in S : id[s] = id[t] => s = t
    BY <1>1, <1>2
  <2>3. Orders(R, S)
    BY ONLY <2>1, <2>2, KeysOrder, SMTT(30)
  <2>. QED  BY <2>3 DEF S, R
<1>7. CASE sort = "EARLIEST_AVAILABLE"
  <2>1. ASSUME NEW s \in S, NEW t \in S
        PROVE  <<s, t>> \in R <=>
                 \/ none[s] < none[t]
                 \/ /\ none[s] = none[t]
                    /\ early[s] < early[t] \/ (early[s] = early[t] /\ id[s] < id[t])
    BY <1>7, SortsCompared
  <2>. HIDE DEF S, R, id, none, early
  <2>2. /\ IsFiniteSet(S) /\ none \in [S -> Int] /\ early \in [S -> Int] /\ id \in [S -> Int]
        /\ \A s, t \in S : id[s] = id[t] => s = t
    BY <1>1, <1>2
  <2>3. Orders(R, S)
    BY ONLY <2>1, <2>2, KeysOrder, SMTT(30)
  <2>. QED  BY <2>3 DEF S, R
<1>. QED  BY <1>4, <1>5, <1>6, <1>7 DEF Sorts

(* The list is sorted: what comes before in the order has a smaller index. *)
LEMMA ResultsAreSorted ==
  ASSUME ResultInv, NEW sort \in Sorts
  PROVE  LET l == Results(sort)
             R == SortOrder(sort)
         IN /\ DOMAIN l = 1..Cardinality(Responded)
            /\ \A i \in DOMAIN l : l[i] \in Responded
                 /\ i = 1 + Cardinality(Before(R, Responded, l[i]))
            /\ \A i, j \in DOMAIN l : <<l[i], l[j]>> \in R => i < j
<1>. DEFINE l == Results(sort)
            R == SortOrder(sort)
            n == Cardinality(Responded)
<1>1. Orders(R, Responded) /\ n \in Nat
  BY SortsAreOrders, RespondedIsFinite
<1>2. DOMAIN l = 1..n
  BY DEF Results
<1>3. ASSUME NEW i \in 1..n
      PROVE  l[i] \in Responded /\ i = 1 + Cardinality(Before(R, Responded, l[i]))
  <2>1. \A s \in Responded :
          {t \in Responded : ListedBefore(sort, t, s)} = Before(R, Responded, s)
    BY RespondedIsFinite DEF Before, SortOrder
  <2>2. l[i] = CHOOSE s \in Responded :
                 i = 1 + Cardinality({t \in Responded : ListedBefore(sort, t, s)})
    BY DEF Results
  <2>. HIDE DEF R, l
  <2>3. i - 1 \in Nat /\ i - 1 < n /\ i \in Nat
    BY <1>1
  <2>4. PICK s \in Responded : Cardinality(Before(R, Responded, s)) = i - 1
    BY <1>1, <2>3, EveryRankIsTaken
  <2>5. i = 1 + Cardinality(Before(R, Responded, s))
    BY <2>3, <2>4
  <2>6. i = 1 + Cardinality({t \in Responded : ListedBefore(sort, t, s)})
    BY <2>1, <2>5
  <2>7. /\ l[i] \in Responded
        /\ i = 1 + Cardinality({t \in Responded : ListedBefore(sort, t, l[i])})
    BY <2>2, <2>6
  <2>. QED  BY <2>1, <2>7
<1>4. ASSUME NEW i \in 1..n, NEW j \in 1..n, <<l[i], l[j]>> \in R
      PROVE  i < j
  <2>. DEFINE b == Cardinality(Before(R, Responded, l[i]))
              c == Cardinality(Before(R, Responded, l[j]))
  <2>1. b \in Nat /\ c \in Nat /\ b < c
    BY <1>1, <1>3, <1>4, FewerBefore
  <2>2. i = 1 + b /\ j = 1 + c
    BY <1>3
  <2>. HIDE DEF b, c
  <2>. QED  BY <2>1, <2>2
<1>. QED  BY <1>2, <1>3, <1>4

(* What lacks the key of a sort is listed after what has it.               *)
LEMMA UnknownIsLast == ResultInv => UnknownLast
<1>. SUFFICES ASSUME ResultInv, NEW sort \in Sorts,
                     NEW i \in DOMAIN Results(sort), NEW j \in DOMAIN Results(sort)
              PROVE  LET s == Results(sort)[i]
                         t == Results(sort)[j]
                         known(x) == CASE sort = "EARLIEST_AVAILABLE" -> answers[x].first # Missing
                                       [] sort = "NEAREST" -> located \/ answers[x].id = 1
                                       [] OTHER -> OnOffer(answers[x])
                     IN known(s) /\ ~known(t) => i < j
  BY DEF UnknownLast
<1>. DEFINE s == Results(sort)[i]
            t == Results(sort)[j]
<1>1. s \in Responded /\ t \in Responded /\ (<<s, t>> \in SortOrder(sort) => i < j)
  BY ResultsAreSorted
<1>. HIDE DEF s, t
<1>2. CASE sort = "EARLIEST_AVAILABLE"
  <2>1. ASSUME answers[s].first # Missing, answers[t].first = Missing
        PROVE  <<s, t>> \in SortOrder("EARLIEST_AVAILABLE")
    <3>. DEFINE last == Max(OfferTimes)
                a == FirstTime(s)
                b == FirstTime(t)
    <3>1. a \in OfferTimes /\ b = last + 1
      BY <1>1, <2>1, AnAnswer DEF FirstTime
    <3>2. a \in Nat /\ a <= last /\ last \in Nat
      BY <3>1, Beyond, ListAssumption
    <3>. HIDE DEF last, a, b
    <3>3. a < b
      BY <3>1, <3>2
    <3>. QED  BY <1>1, <3>3, SortsCompared DEF a, b
  <2>. QED  BY <1>1, <1>2, <2>1 DEF s, t
<1>3. CASE sort = "NEAREST"
  <2>1. ASSUME located \/ answers[s].id = 1, ~(located \/ answers[t].id = 1)
        PROVE  <<s, t>> \in SortOrder("NEAREST")
    <3>1. DistanceOr(s, Far) = DistanceOr(t, Far)
      BY <2>1 DEF DistanceOr
    <3>2. answers[s].id < answers[t].id
      BY <1>1, <2>1, AnAnswer
    <3>. QED  BY <1>1, <3>1, <3>2, SortsCompared
  <2>. QED  BY <1>1, <1>3, <2>1 DEF s, t
<1>4. CASE sort \in {"LOWEST_PRICE", "RECOMMENDED"}
  <2>1. ASSUME OnOffer(answers[s]), ~OnOffer(answers[t])
        PROVE  <<s, t>> \in SortOrder(sort)
    BY <1>1, <1>4, <2>1, PricesCompared, SortsCompared
  <2>. QED  BY <1>1, <1>4, <2>1 DEF s, t
<1>. QED  BY <1>2, <1>3, <1>4 DEF Sorts

(* The offer marked as the lowest heads the list by price.                 *)
LEMMA LowestIsFirst == ResultInv => LowestHeadsTheList
<1>. SUFFICES ASSUME ResultInv, NEW o \in Responded, OnOffer(answers[o])
              PROVE  /\ Results("LOWEST_PRICE")[1] \in MarkedLowest
                     /\ \A s \in MarkedLowest, t \in Responded :
                          OnOffer(answers[t]) => answers[s].price <= answers[t].price
  BY DEF LowestHeadsTheList
<1>. DEFINE l == Results("LOWEST_PRICE")
            h == l[1]
            R == SortOrder("LOWEST_PRICE")
            P == {answers[s].price : s \in {t \in Responded : OnOffer(answers[t])}}
            p == Min(P)
<1>1. P \in SUBSET Nat /\ P # {}
  BY AnAnswer
<1>2. MinPrice = p
  BY <1>1 DEF MinPrice, Lowest
<1>3. p \in P /\ \A x \in P : p <= x
  BY <1>1, MinOfNaturals
<1>4. PICK m \in Responded : OnOffer(answers[m]) /\ answers[m].price = p
  BY <1>3
<1>5. \A s \in Responded : OnOffer(answers[s]) => answers[s].price \in Nat /\ p <= answers[s].price
  BY <1>3, AnAnswer
<1>6. p \in Nat
  BY <1>1, <1>3
<1>. HIDE DEF P, p
<1>7. h \in Responded /\ 1 = 1 + Cardinality(Before(R, Responded, h))
  <2>1. Cardinality(Responded) \in Nat /\ Cardinality(Responded) # 0
    BY RespondedIsFinite, FS_EmptySet
  <2>2. 1 \in 1..Cardinality(Responded)
    BY <2>1
  <2>. QED  BY <2>2, ResultsAreSorted DEF Sorts
<1>. HIDE DEF h
<1>8. <<m, h>> \notin R
  <2>. DEFINE b == Before(R, Responded, h)
  <2>1. b \subseteq Responded /\ IsFiniteSet(b)
    BY RespondedIsFinite, FS_Subset DEF Before
  <2>2. Cardinality(b) = 0
    BY <1>7, <2>1, FS_CardinalityType
  <2>3. b = {}
    BY <2>1, <2>2, FS_EmptySet
  <2>. QED  BY <2>3 DEF Before
<1>9. OnOffer(answers[h])
  BY <1>4, <1>7, <1>8, PricesCompared, SortsCompared
<1>10. answers[h].price = p
  <2>. DEFINE q == answers[h].price
  <2>1. q \in Nat /\ p <= q
    BY <1>5, <1>7, <1>9
  <2>2. ComparePrices(m, h) = p - q /\ ~(ComparePrices(m, h) < 0)
    BY <1>4, <1>7, <1>8, <1>9, PricesCompared, SortsCompared
  <2>. HIDE DEF q
  <2>3. p = q
    BY <1>6, <2>1, <2>2
  <2>. QED  BY <2>3 DEF q
<1>11. h \in MarkedLowest
  BY <1>2, <1>7, <1>9, <1>10 DEF MarkedLowest
<1>12. ASSUME NEW s \in MarkedLowest, NEW t \in Responded, OnOffer(answers[t])
       PROVE  answers[s].price <= answers[t].price
  BY <1>2, <1>5, <1>12 DEF MarkedLowest
<1>. QED  BY <1>11, <1>12 DEF h

(* Of two offers the better one in both respects is recommended first.     *)
LEMMA BetterIsFirst == ResultInv => BetterIsRecommended
<1>. SUFFICES ASSUME ResultInv,
                     NEW i \in DOMAIN Results("RECOMMENDED"), NEW j \in DOMAIN Results("RECOMMENDED")
              PROVE  LET s == Results("RECOMMENDED")[i]
                         t == Results("RECOMMENDED")[j]
                         better == /\ Stars[s] >= Stars[t] /\ answers[s].price <= answers[t].price
                                   /\ located => Kilometres[s] <= Kilometres[t]
                                   /\ \/ Stars[s] > Stars[t] \/ answers[s].price < answers[t].price
                                      \/ located /\ Kilometres[s] < Kilometres[t]
                     IN OnOffer(answers[s]) /\ OnOffer(answers[t]) /\ better => i < j
  BY DEF BetterIsRecommended
<1>. DEFINE s == Results("RECOMMENDED")[i]
            t == Results("RECOMMENDED")[j]
            better == /\ Stars[s] >= Stars[t] /\ answers[s].price <= answers[t].price
                      /\ located => Kilometres[s] <= Kilometres[t]
                      /\ \/ Stars[s] > Stars[t] \/ answers[s].price < answers[t].price
                         \/ located /\ Kilometres[s] < Kilometres[t]
<1>1. s \in Responded /\ t \in Responded /\ (<<s, t>> \in SortOrder("RECOMMENDED") => i < j)
  BY ResultsAreSorted DEF Sorts
<1>. HIDE DEF s, t
<1>2. ASSUME OnOffer(answers[s]), OnOffer(answers[t]), better
      PROVE  <<s, t>> \in SortOrder("RECOMMENDED")
  <2>. DEFINE a == answers[s].price
              b == answers[t].price
              d == DistanceOr(s, 10)
              e == DistanceOr(t, 10)
  <2>1. /\ a \in Nat /\ b \in Nat /\ Stars[s] \in Nat /\ Stars[t] \in Nat
        /\ Kilometres[s] \in Nat /\ Kilometres[t] \in Nat /\ d \in Nat /\ e \in Nat
    BY <1>1, <1>2, AnAnswer, KeysOfASort
  <2>2. /\ d <= e /\ Stars[s] >= Stars[t] /\ a <= b
        /\ Stars[s] > Stars[t] \/ a < b \/ d < e
    BY <1>2 DEF DistanceOr
  <2>3. Score(s) = 20 * Stars[s] - a - d /\ Score(t) = 20 * Stars[t] - b - e
    BY DEF Score
  <2>. HIDE DEF a, b, d, e
  <2>4. Score(t) - Score(s) < 0
    BY <2>1, <2>2, <2>3
  <2>. QED  BY <1>1, <1>2, <2>4, PricesCompared, SortsCompared
<1>. QED  BY <1>1, <1>2 DEF s, t

(* However the answers came: a list is sorted, nothing that lacks what it  *)
(* is sorted by is above what has it, the offer marked as lowest heads the *)
(* list by price, the better of two is recommended first, and the card     *)
(* names the price of the list.                                            *)
THEOREM BestComesFirst == ResultSpec => []OffersInOrder
<1>1. CardAgreesWithList
  <2>. SUFFICES ASSUME \A s \in Responded : answers[s].can \/ answers[s].price = Missing
                PROVE  CardPrice = MinPrice
    BY DEF CardAgreesWithList
  <2>1. {t \in Responded : answers[t].price # Missing} = {t \in Responded : OnOffer(answers[t])}
    BY DEF OnOffer
  <2>. QED  BY <2>1 DEF CardPrice, MinPrice
<1>2. ResultInv => OffersInOrder
  BY <1>1, UnknownIsLast, LowestIsFirst, BetterIsFirst DEF OffersInOrder
<1>. QED  BY <1>2, ResultsStart, ResultsMove, PTL DEF ResultSpec

-----------------------------------------------------------------------------
(***************************************************************************)
(* The answers and the lists of them (MCEstimate).                         *)
(***************************************************************************)

(* Both parts keep their types, however many shops, messages and readers   *)
(* there are.                                                              *)
THEOREM EstimatesTyped == MCSpec => []EstimatesTypeOK
<1>1. MCInit => Init /\ ResultInit
  BY DEF MCInit
<1>2. [MCNext]_<<part, vars, resultVars>> => [Next]_vars /\ [ResultNext]_resultVars
  BY Zenon DEF MCNext
<1>3. MCSpec => Spec /\ ResultSpec
  BY <1>1, <1>2, PTL DEF MCSpec, Spec, ResultSpec
<1>. QED  BY <1>3, TypeCorrect, ResultsTyped, PTL DEF EstimatesTypeOK
=============================================================================
