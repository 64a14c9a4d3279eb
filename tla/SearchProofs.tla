---------------------------- MODULE SearchProofs ----------------------------
(***************************************************************************)
(* Proofs about Search, for any columns, rows, users and requests, and any *)
(* values of the limits.                                                   *)
(***************************************************************************)
EXTENDS Search, SequenceTheorems, FiniteSetTheorems, WellFoundedInduction, TLAPS

Ids == DOMAIN Rows[resource]

(* Deletions leave every row in place, and its owner. *)
TableInv ==
  /\ resource \in DOMAIN Columns
  /\ request \in Requests /\ user \in Users
  /\ DOMAIN table = Ids
  /\ \A id \in Ids : {"createdBy", "deletedAt"} \subseteq DOMAIN table[id]

Accessible(id) ==
  resource = "orders" => SeesAll \/ table[id].createdBy = user.username

GoodPage(p) ==
  /\ p \in Seq(Ids)
  /\ Len(p) <= MaxSize
  /\ \A i \in DOMAIN p : Accessible(p[i])

(* A page in memory or returned is the client's, and the query behind a     *)
(* page in memory was checked.                                              *)
SearchInv ==
  /\ TableInv
  /\ GoodPage(content)
  /\ fetched \in Seq(Seq(Ids))
  /\ \A n \in DOMAIN fetched : GoodPage(fetched[n])
  /\ step \in {"ask", "content", "count", "done"}
  /\ answer \in {0, 200, 400, 500}
  /\ page \in Int
  /\ step \in {"content", "count"} => Accepted
-----------------------------------------------------------------------------
LEMMA EmptyPage == GoodPage(<<>>)
BY SearchAssumption DEF GoodPage

LEMMA MinOfTwo ==
  ASSUME NEW a \in Int, NEW b \in Int
  PROVE  /\ Min({a, b}) \in Int
         /\ Min({a, b}) <= a /\ Min({a, b}) <= b
         /\ Min({a, b}) = a \/ Min({a, b}) = b
<1>1. \E x \in {a, b} : \A y \in {a, b} : x =< y
  <2>1. CASE a <= b
    BY <2>1
  <2>2. CASE ~(a <= b)
    BY <2>2
  <2> QED
    BY <2>1, <2>2
<1>2. Min({a, b}) \in {a, b} /\ \A y \in {a, b} : Min({a, b}) =< y
  BY <1>1 DEF Min
<1> QED
  BY <1>2

(* The rows of a sequence without repetitions from a to b are rows of it.   *)
LEMMA PageOfRows ==
  ASSUME NEW S, IsFiniteSet(S), NEW s \in SetToSeqs(S), NEW off \in Nat, NEW size \in Nat \ {0}
  PROVE  LET p == SubSeq(s, off + 1, Min({off + size, Len(s)}))
         IN  /\ p \in Seq(S)
             /\ Len(p) <= size
<1>1. s \in Seq(S)
  <2>1. Cardinality(S) \in Nat
    BY FS_CardinalityType
  <2>2. s \in [1..Cardinality(S) -> S]
    BY DEF SetToSeqs
  <2> QED
    BY <2>1, <2>2
<1>2. Len(s) \in Nat
  BY <1>1
<1> DEFINE last == Min({off + size, Len(s)})
<1>3. last \in Int /\ last <= off + size /\ last <= Len(s)
  <2> DEFINE a == off + size
             m == Min({a, Len(s)})
  <2>1. a \in Int /\ Len(s) \in Int
    BY <1>2
  <2> HIDE DEF a
  <2>2. m \in Int /\ m <= a /\ m <= Len(s) /\ (m = a \/ m = Len(s))
    BY <2>1, MinOfTwo
  <2>3. last = m
    BY DEF a, last
  <2> HIDE DEF m, last
  <2> QED
    BY <2>2, <2>3 DEF a
<1> HIDE DEF last
<1>4. \A i \in (off + 1)..last : s[i] \in S
  BY <1>1, <1>2, <1>3
<1>5. /\ SubSeq(s, off + 1, last) \in Seq(S)
      /\ Len(SubSeq(s, off + 1, last)) =
           IF off + 1 <= last THEN last - (off + 1) + 1 ELSE 0
  BY <1>3, <1>4, SubSeqProperties
<1>6. Len(SubSeq(s, off + 1, last)) <= size
  BY <1>3, <1>5
<1> QED
  BY <1>5, <1>6 DEF last
-----------------------------------------------------------------------------
(* The rows a query matches, and the place of its page among them.          *)
LEMMA MatchingRows ==
  ASSUME SearchInv
  PROVE  /\ Matching(Criteria) \subseteq Ids
         /\ IsFiniteSet(Matching(Criteria))
         /\ \A id \in Matching(Criteria) : Accessible(id)
<1>1. Matching(Criteria) \subseteq Ids
  BY DEF SearchInv, TableInv, Matching
<1>2. IsFiniteSet(Ids)
  BY SearchAssumption DEF SearchInv, TableInv, Ids
<1>3. ASSUME NEW id \in Matching(Criteria), resource = "orders", ~SeesAll
      PROVE  table[id].createdBy = user.username
  <2>1. Owner \in Scoped(Parsed(request.filter))
    BY <1>3 DEF Scoped
  <2>2. Owner \in Criteria
    BY <1>3, <2>1, SearchAssumption DEF Criteria, Owner, SearchInv, TableInv
  <2>3. Holds(table[id], Owner)
    BY <2>2 DEF Matching
  <2>4. Parts(Owner)[1].n = user.username
    BY DEF Parts, Owner
  <2> QED
    BY <2>3, <2>4 DEF Holds, Owner
<1> QED
  BY <1>1, <1>2, <1>3, FS_Subset DEF Accessible

LEMMA PageBounds ==
  ASSUME SearchInv, Accepted
  PROVE  /\ EffectiveSize \in 1..MaxSize
         /\ Offset \in Nat /\ Offset <= MaxOffset
<1>1. page >= 0 /\ request.size >= 1 /\ Offset <= MaxOffset
  BY SearchAssumption DEF Accepted, DtoValid, SearchInv, TableInv
<1>2. request.size \in Int /\ MaxSize \in Nat \ {0} /\ page \in Int
  BY SearchAssumption DEF SearchInv, TableInv
<1>3. EffectiveSize \in 1..MaxSize
  BY <1>1, <1>2 DEF EffectiveSize
<1>4. page * EffectiveSize \in Nat
  BY <1>1, <1>2, <1>3
<1> QED
  BY <1>1, <1>3, <1>4 DEF Offset
-----------------------------------------------------------------------------
LEMMA InitEstablishes == Init => SearchInv
<1> SUFFICES ASSUME Init PROVE SearchInv
  OBVIOUS
<1>1. TableInv
  BY SearchAssumption DEF Init, TableInv, Ids
<1>2. request.page \in Int
  BY SearchAssumption DEF Init
<1> QED
  BY <1>1, <1>2, EmptyPage DEF Init, SearchInv

(* Whether a request is accepted does not depend on the rows. *)
LEMMA AcceptanceStays ==
  ASSUME UNCHANGED <<asked, page>>
  PROVE  Accepted' <=> Accepted
<1>1. Criteria' = Criteria
  BY DEF asked, Criteria, Scoped, SeesAll, Owner
<1>2. \A c : Applies(c)' <=> Applies(c)
  BY DEF asked, Applies, Column, Parts
<1>3. Offset' = Offset
  BY DEF asked, Offset, EffectiveSize
<1> QED
  BY <1>1, <1>2, <1>3 DEF asked, Accepted, DtoValid, FiltersParse

LEMMA AskPreserves == SearchInv /\ Ask => SearchInv'
<1> SUFFICES ASSUME SearchInv, Ask PROVE SearchInv'
  OBVIOUS
<1>1. TableInv' /\ Ids' = Ids
  BY DEF Ask, SearchInv, TableInv, Ids, asked
<1>2. \A p : GoodPage(p)' <=> GoodPage(p)
  BY <1>1 DEF Ask, GoodPage, Accessible, asked, SeesAll, Ids
<1>3. content' = content /\ fetched' = fetched /\ page' = page
  BY DEF Ask, Done
<1>4. GoodPage(content)' /\ \A n \in DOMAIN fetched : GoodPage(fetched[n])'
  BY <1>2, <1>3 DEF SearchInv
<1>5. Accepted' <=> Accepted
  BY <1>3, AcceptanceStays DEF Ask
<1>6. step' = "done" \/ (step' = "content" /\ Accepted)
  BY DEF Ask, Done
<1>7. answer' \in {400, answer}
  BY DEF Ask, Done
<1> QED
  BY <1>1, <1>3, <1>4, <1>5, <1>6, <1>7 DEF SearchInv

LEMMA ReadContentPreserves == SearchInv /\ ReadContent => SearchInv'
<1> SUFFICES ASSUME SearchInv, ReadContent PROVE SearchInv'
  OBVIOUS
<1>1. TableInv' /\ Ids' = Ids
  BY DEF ReadContent, SearchInv, TableInv, Ids, asked
<1>2. \A p : GoodPage(p)' <=> GoodPage(p)
  BY <1>1 DEF ReadContent, GoodPage, Accessible, asked, SeesAll, Ids
<1>3. fetched' = fetched /\ page' = page /\ Accepted
  BY DEF ReadContent, Done, SearchInv
<1>4. \A n \in DOMAIN fetched' : GoodPage(fetched[n])'
  BY <1>2, <1>3 DEF SearchInv
<1>5. Accepted'
  BY <1>3, AcceptanceStays DEF ReadContent
<1>6. GoodPage(content')
  <2>1. CASE content' = content
    BY <2>1 DEF SearchInv
  <2>2. ASSUME NEW s \in SetToSeqs(Matching(Criteria)),
               content' = SubSeq(s, Offset + 1, Min({Offset + EffectiveSize, Len(s)}))
        PROVE  GoodPage(content')
    <3>1. EffectiveSize \in 1..MaxSize /\ Offset \in Nat /\ MaxSize \in Nat
      BY <1>3, PageBounds, SearchAssumption
    <3> DEFINE rows == Matching(Criteria)
    <3>2. rows \subseteq Ids /\ IsFiniteSet(rows) /\ \A id \in rows : Accessible(id)
      BY MatchingRows
    <3> HIDE DEF rows
    <3>3. content' \in Seq(rows) /\ Len(content') <= EffectiveSize
      <4>1. EffectiveSize \in Nat \ {0} /\ s \in SetToSeqs(rows)
        BY <3>1, SearchAssumption DEF rows
      <4> QED
        BY <2>2, <3>1, <3>2, <4>1, PageOfRows
    <3>4. content' \in Seq(Ids) /\ \A i \in DOMAIN content' : Accessible(content'[i])
      BY <3>3, <3>2
    <3>5. Len(content') <= MaxSize
      BY <3>1, <3>3
    <3> QED
      BY <3>4, <3>5 DEF GoodPage
  <2> QED
    BY <2>1, <2>2 DEF ReadContent, Done
<1>7. step' \in {"done", "count"} /\ answer' \in {500, answer}
  BY DEF ReadContent, Done
<1> QED
  BY <1>1, <1>2, <1>3, <1>4, <1>5, <1>6, <1>7 DEF SearchInv

LEMMA ReadCountPreserves == SearchInv /\ ReadCount => SearchInv'
<1> SUFFICES ASSUME SearchInv, ReadCount PROVE SearchInv'
  OBVIOUS
<1>1. TableInv' /\ Ids' = Ids
  BY DEF ReadCount, SearchInv, TableInv, Ids, asked
<1>2. \A p : GoodPage(p)' <=> GoodPage(p)
  BY <1>1 DEF ReadCount, GoodPage, Accessible, asked, SeesAll, Ids
<1>3. step' \in {"ask", "done"} /\ answer' \in {200, 500} /\ page' \in Int
  BY DEF ReadCount, Done, SearchInv
<1>4. CASE MapperFails /\ Done(500)
  BY <1>1, <1>2, <1>3, <1>4 DEF SearchInv, Done
<1>5. CASE ~MapperFails
  <2>1. content' = <<>> /\ fetched' = Append(fetched, content)
    BY <1>5 DEF ReadCount
  <2>2. fetched' \in Seq(Seq(Ids)) /\ \A n \in DOMAIN fetched' : GoodPage(fetched'[n])
    BY <2>1, AppendProperties DEF SearchInv, GoodPage
  <2> QED
    BY <1>1, <1>2, <1>3, <2>1, <2>2, EmptyPage DEF SearchInv
<1> QED
  BY <1>4, <1>5 DEF ReadCount

LEMMA SoftDeletePreserves ==
  ASSUME SearchInv, NEW id \in DOMAIN table, SoftDelete(id)
  PROVE  SearchInv'
<1>1. \A i \in Ids : /\ DOMAIN table'[i] = DOMAIN table[i]
                     /\ table'[i].createdBy = table[i].createdBy
  BY DEF SoftDelete, SearchInv, TableInv
<1>2. TableInv' /\ Ids' = Ids
  BY <1>1 DEF SoftDelete, SearchInv, TableInv, Ids, asked
<1>3. \A p \in Seq(Ids) : GoodPage(p) => GoodPage(p)'
  BY <1>1, <1>2 DEF SoftDelete, GoodPage, Accessible, asked, SeesAll
<1>4. /\ content' = content /\ fetched' = fetched /\ page' = page
      /\ step' = step /\ answer' = answer
  BY DEF SoftDelete
<1>5. Accepted' <=> Accepted
  BY <1>4, AcceptanceStays DEF SoftDelete
<1>6. GoodPage(content)' /\ \A n \in DOMAIN fetched : GoodPage(fetched[n])'
  BY <1>3, <1>4 DEF SearchInv, GoodPage
<1> QED
  BY <1>2, <1>4, <1>5, <1>6 DEF SearchInv

LEMMA StutteringPreserves == SearchInv /\ UNCHANGED vars => SearchInv'
<1> SUFFICES ASSUME SearchInv, UNCHANGED vars PROVE SearchInv'
  OBVIOUS
<1>1. TableInv' /\ Ids' = Ids
  BY DEF vars, SearchInv, TableInv, Ids
<1>2. \A p : GoodPage(p)' <=> GoodPage(p)
  BY <1>1 DEF vars, GoodPage, Accessible, SeesAll, Ids
<1>3. Accepted' <=> Accepted
  BY AcceptanceStays DEF vars, asked
<1> QED
  BY <1>1, <1>2, <1>3 DEF vars, SearchInv

LEMMA SearchInvariant == Spec => []SearchInv
<1>1. SearchInv /\ [Next]_vars => SearchInv'
  BY AskPreserves, ReadContentPreserves, ReadCountPreserves, SoftDeletePreserves,
     StutteringPreserves DEF Next
<1> QED
  BY <1>1, InitEstablishes, PTL DEF Spec
-----------------------------------------------------------------------------
(* SearchTypeOK: no page exceeds the maximal size and no OFFSET beyond      *)
(* MAX_OFFSET reaches the database, whatever the client asks for.           *)
THEOREM SearchTypeCorrect == Spec => []SearchTypeOK
<1>1. SearchInv => SearchTypeOK
  <2> SUFFICES ASSUME SearchInv PROVE SearchTypeOK
    OBVIOUS
  <2> DEFINE pages == Append(fetched, content)
  <2>1. \A n \in DOMAIN pages : GoodPage(pages[n])
    BY AppendProperties DEF SearchInv, GoodPage
  <2>2. \A p \in Range(pages) : GoodPage(p)
    BY <2>1 DEF Range
  <2>3. \A p \in Range(pages) : Range(p) \subseteq DOMAIN table /\ Len(p) <= MaxSize
    BY <2>2 DEF GoodPage, Range, SearchInv, TableInv
  <2>4. step \in {"content", "count"} => Offset <= MaxOffset
    BY PageBounds DEF SearchInv
  <2> QED
    BY <2>3, <2>4 DEF SearchTypeOK, SearchInv
<1> QED
  BY <1>1, SearchInvariant, PTL

(* OrderService.search shows a user who is no administrator only orders of  *)
(* that user, whatever filter the client sends.                             *)
THEOREM OwnOrdersOnly == Spec => []OnlyAccessibleOrders
<1>1. SearchInv => OnlyAccessibleOrders
  <2> SUFFICES ASSUME SearchInv, resource = "orders",
                      NEW p \in Range(Append(fetched, content)), NEW id \in Range(p)
               PROVE  SeesAll \/ table[id].createdBy = user.username
    BY DEF OnlyAccessibleOrders
  <2> DEFINE pages == Append(fetched, content)
  <2>0. \A n \in DOMAIN pages : GoodPage(pages[n])
    BY AppendProperties DEF SearchInv, GoodPage
  <2>1. GoodPage(p)
    BY <2>0 DEF Range
  <2>2. Accessible(id)
    BY <2>1 DEF GoodPage, Range
  <2> QED
    BY <2>2 DEF Accessible
<1> QED
  BY <1>1, SearchInvariant, PTL
-----------------------------------------------------------------------------
(* A search PostgreSQL refuses was accepted, with a condition it cannot     *)
(* evaluate; no page is asked for after a 500.                              *)
RefusedInv ==
  /\ answer = 500 => step = "done"
  /\ (answer = 500 /\ ~MapperFails) => \E c \in Criteria : Applies(c) /\ ~Evaluates(c)

Ranges == {<<"integer", "int53">>, <<"datetime", "odd-date">>, <<"text", "nul">>}

LEMMA CoercedFits ==
  ASSUME NEW column, NEW part, Coerces(column, part), ~Storable(KindOf(column), part)
  PROVE  <<KindOf(column), part.form>> \in Ranges
<1>1. KindOf(column) \in {"enum", "uuid", "integer", "decimal", "boolean", "datetime", "text"}
  BY DEF KindOf
<1> QED
  BY <1>1 DEF Coerces, Storable, Ranges, Numbers

LEMMA AppliesFits ==
  ASSUME NEW c, Applies(c), ~Evaluates(c)
  PROVE  \E part \in Range(Parts(c)) : <<KindOf(Column(c)), part.form>> \in Ranges
<1>1. CASE c.operator = "lk"
  <2>1. KindOf(Column(c)) = "text"
    BY <1>1 DEF Applies
  <2>2. PICK part \in Range(Parts(c)) : ~Storable(KindOf(Column(c)), part)
    BY <2>1 DEF Evaluates
  <2> QED
    BY <2>1, <2>2 DEF Storable, Ranges
<1>2. CASE c.operator # "lk"
  <2>1. PICK part \in Range(Parts(c)) : ~Storable(KindOf(Column(c)), part)
    BY <1>2 DEF Evaluates
  <2>2. Coerces(Column(c), part)
    BY <1>2, <2>1 DEF Applies
  <2> QED
    BY <2>1, <2>2, CoercedFits
<1> QED
  BY <1>1, <1>2

LEMMA CriteriaStay ==
  ASSUME UNCHANGED asked
  PROVE  /\ Criteria' = Criteria
         /\ \A c : (Applies(c)' <=> Applies(c)) /\ (Evaluates(c)' <=> Evaluates(c))
<1>1. Criteria' = Criteria
  BY DEF asked, Criteria, Scoped, SeesAll, Owner
<1>2. \A c : (Applies(c)' <=> Applies(c)) /\ (Evaluates(c)' <=> Evaluates(c))
  BY DEF asked, Applies, Evaluates, Column, Parts
<1> QED
  BY <1>1, <1>2

(* OnlyRangeErrors: a value that passed coerceFilterValue is one PostgreSQL *)
(* takes, but for three kinds that are out of its range.                    *)
THEOREM RangeErrorsOnly == Spec => []OnlyRangeErrors
<1>1. Init => RefusedInv
  BY DEF Init, RefusedInv
<1>2. SearchInv /\ RefusedInv /\ [Next]_vars => RefusedInv'
  <2> SUFFICES ASSUME SearchInv, RefusedInv, [Next]_vars PROVE RefusedInv'
    OBVIOUS
  <2>0. UNCHANGED asked
    BY DEF Next, Ask, ReadContent, ReadCount, SoftDelete, vars, asked
  <2>1. /\ Criteria' = Criteria
        /\ \A c : (Applies(c)' <=> Applies(c)) /\ (Evaluates(c)' <=> Evaluates(c))
    BY <2>0, CriteriaStay
  <2>2. CASE UNCHANGED <<answer, step, content>>
    BY <2>0, <2>1, <2>2 DEF RefusedInv, MapperFails, asked
  <2>3. CASE ReadCount
    <3>1. answer' = 200 \/ (answer' = 500 /\ step' = "done" /\ MapperFails')
      BY <2>0, <2>3 DEF ReadCount, Done, MapperFails, asked
    <3> QED
      BY <3>1 DEF RefusedInv
  <2>4. CASE Ask
    <3>1. answer # 500
      BY <2>4 DEF Ask, RefusedInv
    <3>2. answer' # 500
      BY <2>4, <3>1 DEF Ask, Done
    <3> QED
      BY <3>2 DEF RefusedInv
  <2>5. CASE ReadContent
    <3>1. CASE (\E c \in Criteria : ~Evaluates(c)) /\ Done(500)
      <4>1. \A c \in Criteria : Applies(c)
        BY <2>5 DEF ReadContent, SearchInv, Accepted
      <4>2. step' = "done"
        BY <3>1 DEF Done
      <4> QED
        BY <2>1, <3>1, <4>1, <4>2 DEF RefusedInv
    <3>2. CASE answer' = answer
      <4>1. answer # 500
        BY <2>5 DEF ReadContent, RefusedInv
      <4> QED
        BY <3>2, <4>1 DEF RefusedInv
    <3> QED
      BY <2>5, <3>1, <3>2 DEF ReadContent
  <2> QED
    BY <2>2, <2>3, <2>4, <2>5 DEF Next, SoftDelete, vars
<1>3. RefusedInv => OnlyRangeErrors
  BY AppliesFits DEF RefusedInv, OnlyRangeErrors, Ranges
<1> QED
  BY <1>1, <1>2, <1>3, SearchInvariant, PTL DEF Spec
-----------------------------------------------------------------------------
(* FlattenSeq, by its recursion: flat[i] holds the first i pages.           *)
FlatRule(ss, flat, i) == IF i = 1 THEN ss[i] ELSE flat[i - 1] \o ss[i]

Flattens(ss, flat, n) == flat = [i \in 1..n |-> FlatRule(ss, flat, i)]

(* The least number with a property.                                        *)
LEMMA LeastNat ==
  ASSUME NEW Bad, Bad \subseteq Nat, Bad # {}
  PROVE  \E n \in Bad : \A m \in Nat : m < n => m \notin Bad
<1>1. PICK n \in Bad : \A m \in Bad : ~(<<m, n>> \in OpToRel(<, Nat))
  BY NatLessThanWellFounded, WFMin
<1>2. ASSUME NEW m \in Nat, m < n, m \in Bad
      PROVE  FALSE
  <2>1. <<m, n>> \in OpToRel(<, Nat)
    BY <1>2 DEF OpToRel
  <2> QED
    BY <1>1, <1>2, <2>1
<1> QED
  BY <1>2

LEMMA FlattenIsRecursive ==
  ASSUME NEW ss, Len(ss) # 0
  PROVE  FlattenSeq(ss) = (CHOOSE flat : Flattens(ss, flat, Len(ss)))[Len(ss)]
BY DEF FlattenSeq, Flattens, FlatRule

LEMMA FlatExtends ==
  ASSUME NEW ss, NEW n \in Nat, NEW flat, Flattens(ss, flat, n)
  PROVE  \E longer : Flattens(ss, longer, n + 1)
<1> DEFINE longer == [i \in 1..n + 1 |-> IF i \in 1..n THEN flat[i] ELSE FlatRule(ss, flat, i)]
<1>1. ASSUME NEW i \in 1..n + 1
      PROVE  longer[i] = FlatRule(ss, longer, i)
  <2>1. longer[i] = FlatRule(ss, flat, i)
    <3>1. CASE i \in 1..n
      <4>1. flat[i] = FlatRule(ss, flat, i)
        BY <3>1 DEF Flattens
      <4> QED
        BY <3>1, <4>1
    <3> QED
      BY <3>1
  <2>2. i # 1 => i - 1 \in 1..n /\ i - 1 \in 1..n + 1
    OBVIOUS
  <2>3. i # 1 => longer[i - 1] = flat[i - 1]
    BY <2>2
  <2> HIDE DEF longer
  <2> QED
    BY <2>1, <2>3 DEF FlatRule
<1>2. longer = [i \in 1..n + 1 |-> longer[i]]
  OBVIOUS
<1>3. [i \in 1..n + 1 |-> longer[i]] = [i \in 1..n + 1 |-> FlatRule(ss, longer, i)]
  <2> HIDE DEF longer
  <2> QED
    BY <1>1
<1>4. Flattens(ss, longer, n + 1)
  <2> HIDE DEF longer
  <2> QED
    BY <1>2, <1>3 DEF Flattens
<1> QED
  BY <1>4

LEMMA FlatExists ==
  ASSUME NEW ss, NEW n \in Nat
  PROVE  \E flat : Flattens(ss, flat, n)
<1> DEFINE Bad == {k \in Nat : ~\E flat : Flattens(ss, flat, k)}
<1> SUFFICES ASSUME Bad # {} PROVE FALSE
  OBVIOUS
<1>1. PICK k \in Bad : \A m \in Nat : m < k => m \notin Bad
  <2>1. Bad \subseteq Nat
    OBVIOUS
  <2> HIDE DEF Bad
  <2> QED
    BY <2>1, LeastNat
<1>2. CASE k = 0
  <2> DEFINE flat == [i \in 1..0 |-> <<>>]
  <2>1. flat = [i \in 1..0 |-> FlatRule(ss, flat, i)]
    OBVIOUS
  <2>2. Flattens(ss, flat, 0)
    BY <2>1 DEF Flattens
  <2> QED
    BY <1>2, <2>2
<1>3. CASE k # 0
  <2>1. k - 1 \in Nat /\ k - 1 < k /\ (k - 1) + 1 = k
    BY <1>3
  <2>2. \E flat : Flattens(ss, flat, k - 1)
    BY <1>1, <2>1
  <2> QED
    BY <2>1, <2>2, FlatExtends
<1> QED
  BY <1>2, <1>3

(* Two sequences of pages that agree so far have the same flat sequences.   *)
LEMMA FlatAgrees ==
  ASSUME NEW ss, NEW tt, NEW f, NEW g, NEW n \in Nat,
         Flattens(ss, f, n), Flattens(tt, g, n + 1), \A i \in 1..n : ss[i] = tt[i]
  PROVE  \A i \in 1..n : f[i] = g[i]
<1> DEFINE Bad == {i \in 1..n : f[i] # g[i]}
<1> SUFFICES ASSUME Bad # {} PROVE FALSE
  OBVIOUS
<1>1. PICK i \in Bad : \A j \in Nat : j < i => j \notin Bad
  <2>1. Bad \subseteq Nat
    OBVIOUS
  <2> HIDE DEF Bad
  <2> QED
    BY <2>1, LeastNat
<1>2. i \in 1..n /\ i \in 1..n + 1
  OBVIOUS
<1>3. f[i] = FlatRule(ss, f, i) /\ g[i] = FlatRule(tt, g, i)
  BY <1>2 DEF Flattens
<1>4. CASE i = 1
  BY <1>2, <1>3, <1>4 DEF FlatRule
<1>5. CASE i # 1
  <2>1. i - 1 \in Nat /\ i - 1 < i /\ i - 1 \in 1..n
    BY <1>2, <1>5
  <2>2. f[i - 1] = g[i - 1]
    BY <1>1, <2>1
  <2> QED
    BY <1>2, <1>3, <1>5, <2>2 DEF FlatRule
<1> QED
  BY <1>4, <1>5

LEMMA FlatPages ==
  ASSUME NEW S, NEW ss \in Seq(Seq(S)), NEW f, Flattens(ss, f, Len(ss))
  PROVE  \A i \in 1..Len(ss) : f[i] \in Seq(S)
<1> DEFINE Bad == {i \in 1..Len(ss) : f[i] \notin Seq(S)}
<1>0. Len(ss) \in Nat /\ \A i \in 1..Len(ss) : ss[i] \in Seq(S)
  BY LenProperties, ElementOfSeq
<1> SUFFICES ASSUME Bad # {} PROVE FALSE
  OBVIOUS
<1>1. PICK i \in Bad : \A j \in Nat : j < i => j \notin Bad
  <2>1. Bad \subseteq Nat
    BY <1>0
  <2> HIDE DEF Bad
  <2> QED
    BY <2>1, LeastNat
<1>2. i \in 1..Len(ss) /\ f[i] = FlatRule(ss, f, i)
  BY DEF Flattens
<1>3. CASE i = 1
  BY <1>0, <1>2, <1>3 DEF FlatRule
<1>4. CASE i # 1
  <2>1. i - 1 \in Nat /\ i - 1 < i /\ i - 1 \in 1..Len(ss)
    BY <1>0, <1>2, <1>4
  <2>2. f[i - 1] \in Seq(S) /\ ss[i] \in Seq(S)
    BY <1>0, <1>1, <1>2, <2>1
  <2>3. f[i - 1] \o ss[i] \in Seq(S)
    BY <2>2, ConcatProperties
  <2> QED
    BY <1>2, <1>4, <2>3 DEF FlatRule
<1> QED
  BY <1>3, <1>4

(* One page more appends its rows.                                          *)
LEMMA FlattenAppend ==
  ASSUME NEW S, NEW ss \in Seq(Seq(S)), NEW s \in Seq(S)
  PROVE  /\ FlattenSeq(ss) \in Seq(S)
         /\ FlattenSeq(Append(ss, s)) = FlattenSeq(ss) \o s
<1> DEFINE tt == Append(ss, s)
           n == Len(ss)
<1>1. /\ n \in Nat /\ tt \in Seq(Seq(S)) /\ Len(tt) = n + 1 /\ tt[n + 1] = s
      /\ \A i \in 1..n : ss[i] = tt[i]
  BY AppendProperties, LenProperties
<1>2. PICK g : Flattens(tt, g, n + 1) /\ FlattenSeq(tt) = g[n + 1]
  <2> DEFINE g == CHOOSE flat : Flattens(tt, flat, n + 1)
  <2>1. Flattens(tt, g, n + 1)
    <3>1. n + 1 \in Nat
      BY <1>1
    <3> HIDE DEF tt, n
    <3> QED
      BY <3>1, FlatExists
  <2>2. FlattenSeq(tt) = g[n + 1]
    <3>1. Len(tt) # 0 /\ Len(tt) = n + 1
      BY <1>1
    <3> HIDE DEF tt, n
    <3> QED
      BY <3>1, FlattenIsRecursive
  <2> QED
    BY <2>1, <2>2
<1>3. n + 1 \in 1..n + 1 /\ g[n + 1] = FlatRule(tt, g, n + 1)
  <2> HIDE DEF tt, n
  <2>1. n + 1 \in 1..n + 1
    BY <1>1
  <2>2. g = [i \in 1..n + 1 |-> FlatRule(tt, g, i)]
    BY <1>2 DEF Flattens
  <2> QED
    BY <2>1, <2>2
<1>4. CASE n = 0
  <2>1. ss = <<>>
    BY <1>4, EmptySeq
  <2>2. FlattenSeq(ss) = <<>>
    BY <2>1 DEF FlattenSeq
  <2>3. FlattenSeq(tt) = s
    <3> HIDE DEF tt, n
    <3> QED
      BY <1>1, <1>2, <1>3, <1>4 DEF FlatRule
  <2> QED
    BY <2>2, <2>3, ConcatEmptySeq, EmptySeq
<1>5. CASE n # 0
  <2> DEFINE f == CHOOSE flat : Flattens(ss, flat, n)
  <2>1. Flattens(ss, f, n)
    <3> HIDE DEF n
    <3> QED
      BY <1>1, FlatExists
  <2>2. FlattenSeq(ss) = f[n]
    BY <1>5, FlattenIsRecursive
  <2>3. FlattenSeq(ss) \in Seq(S)
    <3> HIDE DEF f
    <3>1. n \in 1..n
      BY <1>1, <1>5
    <3> QED
      BY <2>1, <2>2, <3>1, FlatPages
  <2>4. f[n] = g[n]
    <3> HIDE DEF f, tt, n
    <3>1. n \in 1..n
      BY <1>1, <1>5
    <3>2. n \in Nat /\ (\A i \in 1..n : ss[i] = tt[i]) /\ Flattens(tt, g, n + 1)
      BY <1>1, <1>2
    <3>3. \A i \in 1..n : f[i] = g[i]
      BY <2>1, <3>2, FlatAgrees
    <3> QED
      BY <3>1, <3>3
  <2>5. FlattenSeq(tt) = g[n] \o s
    <3> HIDE DEF f, tt, n
    <3>1. n + 1 # 1 /\ (n + 1) - 1 = n
      BY <1>1, <1>5
    <3> QED
      BY <1>1, <1>2, <1>3, <3>1 DEF FlatRule
  <2> QED
    BY <2>2, <2>3, <2>4, <2>5
<1> QED
  BY <1>4, <1>5
-----------------------------------------------------------------------------
(* The order of the rows, which deletions leave as it was: the sort key,    *)
(* then the id.  The rank of a row is the number of rows before it.         *)
Row(id) == Rows[resource][id]

SortKey(id) == IF request.sort = "" THEN NULL ELSE Row(id)[request.sort]

Precedes(i, j) ==
  \/ Less(SortKey(i), SortKey(j), request.order)
  \/ SortKey(i) = SortKey(j) /\ i < j

Sorted(s) == \A i, j \in DOMAIN s : i < j => Precedes(s[i], s[j])

Rank(rows, id) == Cardinality({other \in rows : Precedes(other, id)})

Ranked(rows, from, to) == {id \in rows : from <= Rank(rows, id) /\ Rank(rows, id) < to}

Orderly ==
  /\ request.order \in {"asc", "desc"} /\ request.size >= 1
  /\ request.sort \in {""} \cup DOMAIN Columns[resource]

LEMMA LessOrders ==
  ASSUME NEW x \in Int, NEW y \in Int, NEW z \in Int, NEW order \in {"asc", "desc"}
  PROVE  /\ ~Less(x, x, order)
         /\ Less(x, y, order) /\ Less(y, z, order) => Less(x, z, order)
         /\ x = y \/ Less(x, y, order) \/ Less(y, x, order)
BY DEF Less, NULL

LEMMA IdsAreNumbers ==
  ASSUME TableInv, Orderly
  PROVE  \A id \in Ids : id \in Int /\ SortKey(id) \in Int
<1> SUFFICES ASSUME NEW id \in Ids PROVE id \in Int /\ SortKey(id) \in Int
  OBVIOUS
<1>1. /\ Row(id) \in [DOMAIN Columns[resource] -> Int]
      /\ Row(id).id = id /\ "id" \in DOMAIN Columns[resource]
  BY SearchAssumption DEF TableInv, Ids, Row
<1>2. \A column \in DOMAIN Columns[resource] : Row(id)[column] \in Int
  BY <1>1
<1>3. Row(id)["id"] \in Int
  BY <1>1, <1>2
<1>4. SortKey(id) \in Int
  <2>1. CASE request.sort = ""
    <3>1. SortKey(id) = NULL
      BY <2>1 DEF SortKey
    <3>2. NULL \in Int
      BY DEF NULL
    <3> QED
      BY <3>1, <3>2
  <2>2. CASE request.sort # ""
    BY <1>2, <2>2 DEF SortKey, Orderly
  <2> QED
    BY <2>1, <2>2
<1> QED
  BY <1>1, <1>3, <1>4

LEMMA PrecedesOrders ==
  ASSUME TableInv, Orderly, NEW i \in Ids, NEW j \in Ids, NEW k \in Ids
  PROVE  /\ ~Precedes(i, i)
         /\ Precedes(i, j) /\ Precedes(j, k) => Precedes(i, k)
         /\ i = j \/ Precedes(i, j) \/ Precedes(j, i)
<1>1. i \in Int /\ j \in Int /\ k \in Int
  BY IdsAreNumbers
<1> DEFINE x == SortKey(i)
           y == SortKey(j)
           z == SortKey(k)
           order == request.order
<1>2. x \in Int /\ y \in Int /\ z \in Int /\ order \in {"asc", "desc"}
  BY IdsAreNumbers DEF Orderly
<1>3. /\ ~Less(x, x, order)
      /\ Less(x, y, order) /\ Less(y, z, order) => Less(x, z, order)
      /\ x = y \/ Less(x, y, order) \/ Less(y, x, order)
  <2> HIDE DEF x, y, z, order
  <2> QED
    BY <1>2, LessOrders
<1>4. /\ Precedes(i, i) <=> Less(x, x, order) \/ (x = x /\ i < i)
      /\ Precedes(i, j) <=> Less(x, y, order) \/ (x = y /\ i < j)
      /\ Precedes(j, i) <=> Less(y, x, order) \/ (y = x /\ j < i)
      /\ Precedes(j, k) <=> Less(y, z, order) \/ (y = z /\ j < k)
      /\ Precedes(i, k) <=> Less(x, z, order) \/ (x = z /\ i < k)
  BY DEF Precedes
<1> HIDE DEF x, y, z, order
<1> QED
  BY <1>1, <1>2, <1>3, <1>4

LEMMA RankIsCount ==
  ASSUME TableInv, Orderly, NEW M, M \subseteq Ids, IsFiniteSet(M), NEW id \in M
  PROVE  Rank(M, id) \in Nat /\ Rank(M, id) < Cardinality(M)
<1> DEFINE B == {other \in M : Precedes(other, id)}
<1>1. B \subseteq M \ {id} /\ B \subseteq M
  BY PrecedesOrders
<1>2. /\ IsFiniteSet(M \ {id}) /\ Cardinality(M \ {id}) = Cardinality(M) - 1
      /\ Cardinality(M) \in Nat
  BY FS_RemoveElement, FS_CardinalityType
<1>3. IsFiniteSet(B) /\ Cardinality(B) <= Cardinality(M \ {id}) /\ Cardinality(B) \in Nat
  <2> HIDE DEF B
  <2> QED
    BY <1>1, <1>2, FS_Subset, FS_CardinalityType
<1>4. Rank(M, id) = Cardinality(B)
  BY DEF Rank
<1> HIDE DEF B
<1> QED
  BY <1>2, <1>3, <1>4

LEMMA RankShrinks ==
  ASSUME NEW M, IsFiniteSet(M), NEW N, N \subseteq M, NEW id
  PROVE  Rank(N, id) <= Rank(M, id) /\ Rank(N, id) \in Nat /\ Rank(M, id) \in Nat
<1> DEFINE B == {other \in M : Precedes(other, id)}
           C == {other \in N : Precedes(other, id)}
<1>1. C \subseteq B /\ B \subseteq M
  OBVIOUS
<1>2. Rank(M, id) = Cardinality(B) /\ Rank(N, id) = Cardinality(C)
  BY DEF Rank
<1> HIDE DEF B, C
<1>3. IsFiniteSet(B)
  BY <1>1, FS_Subset
<1>4. IsFiniteSet(C) /\ Cardinality(C) <= Cardinality(B)
  BY <1>1, <1>3, FS_Subset
<1> QED
  BY <1>2, <1>3, <1>4, FS_CardinalityType

(* The rows of a result in order: the rank of a row is its position.        *)
LEMMA SortedRows ==
  ASSUME TableInv, Orderly, NEW M, M \subseteq Ids, IsFiniteSet(M),
         NEW s \in SetToSeqs(M), \A i, j \in DOMAIN s : i < j => ~Precedes(s[j], s[i])
  PROVE  /\ s \in Seq(M) /\ Len(s) \in Nat /\ DOMAIN s = 1..Len(s)
         /\ \A i, j \in 1..Len(s) : (i < j => Precedes(s[i], s[j])) /\ (s[i] = s[j] => i = j)
         /\ \A x \in M : \E i \in 1..Len(s) : s[i] = x
         /\ \A i \in 1..Len(s) : Rank(M, s[i]) = i - 1
<1> DEFINE n == Cardinality(M)
<1>1. n \in Nat
  BY FS_CardinalityType
<1>2. s \in [1..n -> M] /\ \A i, j \in 1..n : i # j => s[i] # s[j]
  BY DEF SetToSeqs
<1>3. s \in Seq(M) /\ DOMAIN s = 1..n
  BY <1>1, <1>2
<1>4. Len(s) = n
  BY <1>1, <1>3, LenProperties
<1> HIDE DEF n
<1>5. \A x \in M : \E i \in 1..n : s[i] = x
  <2>1. s \in Injection(1..n, M)
    BY <1>2 DEF Injection, IsInjective
  <2>2. Cardinality(1..n) = Cardinality(M)
    BY <1>1, FS_Interval DEF n
  <2>3. s \in Surjection(1..n, M)
    BY <2>1, <2>2, FS_Injection
  <2> QED
    BY <2>3 DEF Surjection
<1>6. \A i, j \in 1..n : i < j => Precedes(s[i], s[j])
  BY <1>1, <1>2, <1>3, PrecedesOrders
<1>7. ASSUME NEW i \in 1..n
      PROVE  Rank(M, s[i]) = i - 1
  <2> DEFINE B == {other \in M : Precedes(other, s[i])}
             f == [j \in 1..i - 1 |-> s[j]]
  <2>1. \A j \in 1..i - 1 : j \in 1..n /\ j < i
    BY <1>1
  <2>2. f \in [1..i - 1 -> B]
    BY <1>2, <1>6, <2>1
  <2>3. \A j, k \in 1..i - 1 : f[j] = f[k] => j = k
    BY <1>2, <2>1
  <2>4. ASSUME NEW x \in B
        PROVE  \E j \in 1..i - 1 : f[j] = x
    <3>1. PICK j \in 1..n : s[j] = x
      BY <1>5
    <3>2. ~(i < j) /\ j # i
      BY <1>2, <1>3, <3>1, PrecedesOrders
    <3>3. j \in 1..i - 1
      BY <1>1, <3>2
    <3> QED
      BY <3>1, <3>3
  <2>5. Rank(M, s[i]) = Cardinality(B)
    BY DEF Rank
  <2> HIDE DEF B, f
  <2>6. f \in Injection(1..i - 1, B) /\ f \in Surjection(1..i - 1, B)
    BY <2>2, <2>3, <2>4 DEF Injection, IsInjective, Surjection
  <2>7. ExistsBijection(1..i - 1, B)
    BY <2>6 DEF ExistsBijection, Bijection
  <2>8. IsFiniteSet(1..i - 1) /\ Cardinality(1..i - 1) = i - 1
    BY <1>1, FS_Interval
  <2>9. Cardinality(B) = i - 1
    BY <2>7, <2>8, FS_Bijection
  <2> QED
    BY <2>5, <2>9
<1> QED
  BY <1>1, <1>2, <1>3, <1>4, <1>5, <1>6, <1>7

(* A page holds the rows with the ranks from OFFSET to OFFSET + LIMIT.      *)
LEMMA PageRanks ==
  ASSUME TableInv, Orderly, NEW M, M \subseteq Ids, IsFiniteSet(M),
         NEW s \in SetToSeqs(M), \A i, j \in DOMAIN s : i < j => ~Precedes(s[j], s[i]),
         NEW off \in Nat, NEW size \in Nat \ {0}
  PROVE  LET p == SubSeq(s, off + 1, Min({off + size, Len(s)}))
         IN  Sorted(p) /\ IsInjective(p) /\ Range(p) = Ranked(M, off, off + size)
<1> DEFINE n == Len(s)
           last == Min({off + size, n})
           p == SubSeq(s, off + 1, last)
           len == IF off + 1 <= last THEN last - (off + 1) + 1 ELSE 0
<1>1. /\ s \in Seq(M) /\ n \in Nat /\ DOMAIN s = 1..n
      /\ \A i, j \in 1..n : (i < j => Precedes(s[i], s[j])) /\ (s[i] = s[j] => i = j)
      /\ \A x \in M : \E i \in 1..n : s[i] = x
      /\ \A i \in 1..n : Rank(M, s[i]) = i - 1
  BY SortedRows
<1> HIDE DEF n
<1>2. last \in Int /\ (last = off + size \/ last = n) /\ last <= off + size /\ last <= n
  <2> DEFINE a == off + size
             m == Min({a, n})
  <2>1. a \in Int /\ n \in Int
    BY <1>1
  <2> HIDE DEF a
  <2>2. m \in Int /\ m <= a /\ m <= n /\ (m = a \/ m = n)
    BY <2>1, MinOfTwo
  <2>3. last = m
    BY DEF a, last
  <2> HIDE DEF m, last
  <2> QED
    BY <2>2, <2>3 DEF a
<1> HIDE DEF last
<1>3. \A i \in (off + 1)..last : i \in 1..n /\ s[i] \in M
  BY <1>1, <1>2
<1>4. /\ p \in Seq(M) /\ Len(p) = len
      /\ \A i \in 1..last - (off + 1) + 1 : p[i] = s[(off + 1) + i - 1]
  BY <1>2, <1>3, SubSeqProperties
<1> HIDE DEF p
<1>5. len \in Nat /\ DOMAIN p = 1..len
  BY <1>2, <1>4, LenProperties
<1>6. ASSUME NEW i \in 1..len
      PROVE  off + i \in 1..n /\ off + i \in (off + 1)..last /\ p[i] = s[off + i]
  <2>1. i \in 1..last - (off + 1) + 1 /\ (off + 1) + i - 1 = off + i
    BY <1>2
  <2>2. p[i] = s[off + i]
    BY <1>4, <2>1
  <2>3. off + i \in (off + 1)..last
    BY <1>2
  <2> QED
    BY <1>3, <2>2, <2>3
<1> HIDE DEF len
<1>7. Sorted(p)
  <2> SUFFICES ASSUME NEW i \in 1..len, NEW j \in 1..len, i < j
               PROVE  Precedes(p[i], p[j])
    BY <1>5 DEF Sorted
  <2> QED
    BY <1>1, <1>5, <1>6
<1>8. IsInjective(p)
  <2> SUFFICES ASSUME NEW i \in 1..len, NEW j \in 1..len, p[i] = p[j]
               PROVE  i = j
    BY <1>5 DEF IsInjective
  <2>1. off + i = off + j
    BY <1>1, <1>6
  <2> QED
    BY <1>5, <2>1
<1>9. ASSUME NEW x \in Range(p)
      PROVE  x \in M /\ off <= Rank(M, x) /\ Rank(M, x) < off + size
  <2>1. PICK i \in 1..len : x = p[i]
    BY <1>5 DEF Range
  <2>2. Rank(M, x) = (off + i) - 1 /\ x \in M
    BY <1>1, <1>3, <1>6, <2>1
  <2>3. i \in Nat /\ i >= 1
    BY <1>5
  <2>4. off + i \in (off + 1)..last
    BY <1>6
  <2> QED
    BY <1>2, <2>2, <2>3, <2>4
<1>10. ASSUME NEW x \in M, off <= Rank(M, x), Rank(M, x) < off + size
       PROVE  x \in Range(p)
  <2>1. PICK k \in 1..n : s[k] = x
    BY <1>1
  <2>2. Rank(M, x) = k - 1
    BY <1>1, <2>1
  <2>3. k >= off + 1 /\ k <= last /\ k - off \in 1..len /\ off + (k - off) = k
    BY <1>1, <1>2, <1>10, <2>2 DEF len
  <2>4. p[k - off] = x
    BY <1>6, <2>1, <2>3
  <2> QED
    BY <1>5, <2>3, <2>4 DEF Range
<1>11. Range(p) = Ranked(M, off, off + size)
  BY <1>9, <1>10 DEF Ranked
<1> QED
  BY <1>7, <1>8, <1>11 DEF p, last, n
-----------------------------------------------------------------------------
(* What deletions do to the rows, and what an answered page says of the     *)
(* request.                                                                 *)
PagingInv ==
  /\ \A id \in Ids : table[id] \in {Row(id), [Row(id) EXCEPT !.deletedAt = 1]}
  /\ fetched = <<>> => page = request.page
  /\ (fetched # <<>> \/ answer = 200 \/ step \in {"content", "count"}) => Orderly
  /\ (fetched # <<>> \/ step = "count") => \A c \in Criteria : Evaluates(c)

Result == Matching(Criteria)

LEMMA BeforeIsPrecedes ==
  ASSUME TableInv, Orderly, NEW i \in Ids, NEW j \in Ids,
         table[i] = Row(i), table[j] = Row(j)
  PROVE  Before(i, j, OrderBy) <=> Precedes(i, j)
<1>1. Row(i).id = i /\ Row(j).id = j /\ i \in Int /\ j \in Int /\ i # NULL /\ j # NULL
  BY SearchAssumption, IdsAreNumbers DEF TableInv, Ids, Row
<1>2. Less(i, j, "asc") <=> i < j
  BY <1>1 DEF Less
<1>3. CASE request.sort = ""
  <2> DEFINE key == [field |-> "id", order |-> "asc"]
  <2>1. OrderBy = <<key>>
    BY <1>3 DEF OrderBy
  <2>2. Before(i, j, OrderBy) <=> Less(table[i].id, table[j].id, "asc")
    <3>1. DOMAIN OrderBy = {1} /\ OrderBy[1] = key
      BY <2>1
    <3>2. 1..(1 - 1) = {}
      OBVIOUS
    <3> QED
      BY <3>1, <3>2 DEF Before
  <2>3. SortKey(i) = NULL /\ SortKey(j) = NULL
    BY <1>3 DEF SortKey
  <2>4. ~Less(NULL, NULL, request.order)
    BY DEF Less, Orderly
  <2> QED
    BY <1>1, <1>2, <2>2, <2>3, <2>4 DEF Precedes
<1>4. CASE request.sort # ""
  <2> DEFINE f == request.sort
             one == [field |-> f, order |-> request.order]
             two == [field |-> "id", order |-> "asc"]
  <2>1. OrderBy = <<one, two>>
    BY <1>4 DEF OrderBy
  <2>2. DOMAIN OrderBy = {1, 2} /\ OrderBy[1] = one /\ OrderBy[2] = two
    BY <2>1
  <2>3. 1..(1 - 1) = {} /\ 1..(2 - 1) = {1}
    OBVIOUS
  <2>4. Before(i, j, OrderBy) <=>
          \/ Less(table[i][f], table[j][f], request.order)
          \/ Less(table[i].id, table[j].id, "asc") /\ table[i][f] = table[j][f]
    BY <2>2, <2>3 DEF Before
  <2>5. SortKey(i) = table[i][f] /\ SortKey(j) = table[j][f]
    BY <1>4 DEF SortKey
  <2> QED
    BY <1>1, <1>2, <2>4, <2>5 DEF Precedes
<1> QED
  BY <1>3, <1>4

LEMMA RowsOfResult ==
  ASSUME SearchInv, PagingInv
  PROVE  /\ Result \subseteq Ids /\ IsFiniteSet(Result)
         /\ \A id \in Result : table[id] = Row(id)
<1>1. ASSUME NEW id \in Result
      PROVE  table[id] = Row(id)
  <2>1. id \in Ids /\ table[id].deletedAt = NULL
    BY DEF Result, Matching, SearchInv, TableInv
  <2>2. "deletedAt" \in DOMAIN Row(id)
    BY <2>1, SearchAssumption DEF SearchInv, TableInv, Ids, Row
  <2>3. [Row(id) EXCEPT !.deletedAt = 1].deletedAt # NULL
    BY <2>2 DEF NULL
  <2> QED
    BY <2>1, <2>3 DEF PagingInv
<1> QED
  BY <1>1, MatchingRows DEF Result

(* What a query returns, whatever order PostgreSQL gives to equal keys.     *)
LEMMA ContentRanks ==
  ASSUME SearchInv, PagingInv, Orderly, Accepted,
         NEW s \in SetToSeqs(Result), InOrder(s, OrderBy)
  PROVE  LET p == SubSeq(s, Offset + 1, Min({Offset + EffectiveSize, Len(s)}))
         IN  /\ Sorted(p) /\ IsInjective(p)
             /\ Range(p) = Ranked(Result, Offset, Offset + EffectiveSize)
<1> DEFINE M == Result
           off == Offset
           size == EffectiveSize
<1>1. M \subseteq Ids /\ IsFiniteSet(M) /\ \A id \in M : table[id] = Row(id)
  BY RowsOfResult
<1>2. TableInv
  BY DEF SearchInv
<1>3. off \in Nat /\ size \in Nat \ {0}
  BY PageBounds
<1>4. ASSUME NEW i \in DOMAIN s, NEW j \in DOMAIN s, i < j
      PROVE  ~Precedes(s[j], s[i])
  <2>1. s[i] \in M /\ s[j] \in M
    BY DEF SetToSeqs
  <2>2. ~Before(s[j], s[i], OrderBy)
    BY <1>4 DEF InOrder
  <2> HIDE DEF M
  <2> QED
    BY <1>1, <1>2, <2>1, <2>2, BeforeIsPrecedes
<1>5. s \in SetToSeqs(M)
  OBVIOUS
<1> HIDE DEF M, off, size
<1>6. \A i, j \in DOMAIN s : i < j => ~Precedes(s[j], s[i])
  BY <1>4
<1>7. LET p == SubSeq(s, off + 1, Min({off + size, Len(s)}))
      IN  Sorted(p) /\ IsInjective(p) /\ Range(p) = Ranked(M, off, off + size)
  BY ONLY <1>1, <1>2, <1>3, <1>5, <1>6, Orderly, PageRanks
<1> QED
  BY <1>7 DEF M, off, size

(* The order and the criteria belong to the request. *)
LEMMA AskedStays ==
  ASSUME UNCHANGED asked
  PROVE  /\ \A id : Row(id)' = Row(id)
         /\ Orderly' <=> Orderly
         /\ EffectiveSize' = EffectiveSize
         /\ \A i, j : Precedes(i, j)' <=> Precedes(i, j)
         /\ \A s : Sorted(s)' <=> Sorted(s)
         /\ \A M, id : Rank(M, id)' = Rank(M, id)
<1>1. /\ \A id : Row(id)' = Row(id)
      /\ Orderly' <=> Orderly
      /\ EffectiveSize' = EffectiveSize
  BY DEF asked, Row, Orderly, EffectiveSize
<1>2. \A i, j : Precedes(i, j)' <=> Precedes(i, j)
  BY DEF asked, Row, SortKey, Precedes
<1>3. \A s : Sorted(s)' <=> Sorted(s)
  BY <1>2 DEF Sorted
<1>4. \A M, id : Rank(M, id)' = Rank(M, id)
  BY <1>2 DEF Rank
<1> QED
  BY <1>1, <1>2, <1>3, <1>4

LEMMA ResultStays ==
  ASSUME UNCHANGED <<asked, table>>
  PROVE  Result' = Result
<1>1. Criteria' = Criteria
  BY DEF asked, Criteria, Scoped, SeesAll, Owner
<1> QED
  BY <1>1 DEF Result, Matching

(* A deletion takes rows out of a result, and adds none.                    *)
LEMMA ResultShrinks ==
  ASSUME SearchInv, NEW id \in DOMAIN table, SoftDelete(id)
  PROVE  Result' \subseteq Result
<1>1. Criteria' = Criteria
  BY DEF SoftDelete, asked, Criteria, Scoped, SeesAll, Owner
<1>2. /\ DOMAIN table' = DOMAIN table /\ "deletedAt" \in DOMAIN table[id]
      /\ \A i \in DOMAIN table : i # id => table'[i] = table[i]
  BY DEF SoftDelete, SearchInv, TableInv
<1>3. table'[id].deletedAt # NULL
  BY <1>2 DEF SoftDelete, NULL
<1> QED
  BY <1>1, <1>2, <1>3 DEF Result, Matching

LEMMA AcceptedIsOrderly ==
  ASSUME SearchInv, Accepted
  PROVE  Orderly
<1>1. request.order \in {"asc", "desc"} /\ request.size >= 1
  BY SearchAssumption DEF Accepted, DtoValid, SearchInv, TableInv
<1> QED
  BY <1>1 DEF Accepted, Orderly

LEMMA PagingInvariant == Spec => []PagingInv
<1>1. Init => PagingInv
  <2> SUFFICES ASSUME Init PROVE PagingInv
    OBVIOUS
  <2>1. \A id \in Ids : table[id] = Row(id)
    BY DEF Init, Ids, Row
  <2> QED
    BY <2>1 DEF Init, PagingInv
<1>2. SearchInv /\ PagingInv /\ [Next]_vars => PagingInv'
  <2> SUFFICES ASSUME SearchInv, PagingInv, [Next]_vars PROVE PagingInv'
    OBVIOUS
  <2>0. UNCHANGED asked
    BY DEF Next, Ask, ReadContent, ReadCount, SoftDelete, vars, asked
  <2>1. /\ Ids' = Ids /\ (\A id : Row(id)' = Row(id)) /\ (Orderly' <=> Orderly)
        /\ Criteria' = Criteria
        /\ \A c : Evaluates(c)' <=> Evaluates(c)
        /\ request' = request
    BY <2>0, AskedStays, CriteriaStay DEF asked, Ids
  <2>2. CASE UNCHANGED table
    <3>1. CASE UNCHANGED <<page, step, fetched, answer>>
      BY <2>1, <2>2, <3>1 DEF PagingInv
    <3>2. CASE Ask
      <4>1. UNCHANGED <<page, fetched>> /\ step' \in {"content", "done"} /\ answer' \in {answer, 400}
        BY <3>2 DEF Ask, Done
      <4>2. step' = "content" => Orderly
        BY <3>2, AcceptedIsOrderly DEF Ask, Done
      <4> QED
        BY <2>1, <2>2, <4>1, <4>2 DEF PagingInv
    <3>3. CASE ReadContent
      <4>1. /\ UNCHANGED <<page, fetched>> /\ step = "content"
            /\ step' \in {"count", "done"} /\ answer' \in {answer, 500}
        BY <3>3 DEF ReadContent, Done
      <4>2. step' = "count" => \A c \in Criteria : Evaluates(c)
        BY <3>3 DEF ReadContent, Done
      <4> QED
        BY <2>1, <2>2, <4>1, <4>2 DEF PagingInv
    <3>4. CASE ReadCount
      <4>1. CASE MapperFails /\ Done(500)
        BY <2>1, <2>2, <3>4, <4>1 DEF PagingInv, ReadCount, Done
      <4>2. CASE ~MapperFails
        <5>1. step = "count" /\ step' # "count" /\ fetched' = Append(fetched, content)
          BY <3>4, <4>2 DEF ReadCount
        <5>2. fetched' # <<>>
          BY <5>1, AppendProperties, EmptySeq DEF SearchInv, GoodPage
        <5> QED
          BY <2>1, <2>2, <5>1, <5>2 DEF PagingInv
      <4> QED
        BY <3>4, <4>1, <4>2 DEF ReadCount
    <3> QED
      BY <2>2, <3>1, <3>2, <3>3, <3>4 DEF Next, SoftDelete, vars
  <2>3. CASE \E id \in DOMAIN table : SoftDelete(id)
    <3>1. PICK id \in DOMAIN table : SoftDelete(id)
      BY <2>3
    <3>2. UNCHANGED <<page, step, fetched, answer>>
      BY <3>1 DEF SoftDelete
    <3>3. id \in Ids /\ DOMAIN table = Ids /\ "deletedAt" \in DOMAIN Row(id)
      BY SearchAssumption DEF SearchInv, TableInv, Ids, Row
    <3>4. table[id] = Row(id)
      <4>1. [Row(id) EXCEPT !.deletedAt = 1].deletedAt # NULL
        BY <3>3 DEF NULL
      <4> QED
        BY <3>1, <3>3, <4>1 DEF SoftDelete, PagingInv
    <3>5. /\ table'[id] = [Row(id) EXCEPT !.deletedAt = 1]
          /\ \A i \in Ids : i # id => table'[i] = table[i]
      BY <3>1, <3>3, <3>4 DEF SoftDelete
    <3>6. \A i \in Ids : table'[i] \in {Row(i), [Row(i) EXCEPT !.deletedAt = 1]}
      BY <3>5 DEF PagingInv
    <3> QED
      BY <2>1, <3>2, <3>6 DEF PagingInv
  <2> QED
    BY <2>2, <2>3 DEF Next, Ask, ReadContent, ReadCount, vars
<1> QED
  BY <1>1, <1>2, SearchInvariant, PTL DEF Spec
-----------------------------------------------------------------------------
(* Rows repeat neither within a page nor from one to another: what was      *)
(* fetched and still matches ranks before the next page, and deletions only *)
(* lower ranks.                                                             *)
OnceInv ==
  /\ IsInjective(AllFetched)
  /\ step # "done" => \A id \in Range(AllFetched) \cap Result : Rank(Result, id) < Offset
  /\ step = "count" =>
       /\ IsInjective(content) /\ Range(content) \cap Range(AllFetched) = {}
       /\ \A id \in Range(content) \cap Result :
            Rank(Result, id) < Offset + EffectiveSize

LEMMA InjectiveConcat ==
  ASSUME NEW S, NEW s \in Seq(S), NEW t \in Seq(S)
  PROVE  /\ Range(s \o t) = Range(s) \cup Range(t)
         /\ IsInjective(s) /\ IsInjective(t) /\ Range(s) \cap Range(t) = {} =>
              IsInjective(s \o t)
<1> DEFINE u == s \o t
           m == Len(s)
           n == Len(t)
<1>1. /\ u \in Seq(S) /\ Len(u) = m + n
      /\ \A i \in 1..m + n : u[i] = IF i <= m THEN s[i] ELSE t[i - m]
  BY ConcatProperties
<1>2. m \in Nat /\ n \in Nat /\ DOMAIN s = 1..m /\ DOMAIN t = 1..n
  BY LenProperties
<1> HIDE DEF u, m, n
<1>3. DOMAIN u = 1..m + n
  BY <1>1, LenProperties
<1>4. ASSUME NEW i \in 1..m + n
      PROVE  \/ i \in 1..m /\ u[i] = s[i]
             \/ i - m \in 1..n /\ i > m /\ u[i] = t[i - m]
  BY <1>1, <1>2
<1>5. ASSUME NEW i \in 1..m
      PROVE  i \in 1..m + n /\ u[i] = s[i]
  BY <1>1, <1>2
<1>6. ASSUME NEW i \in 1..n
      PROVE  m + i \in 1..m + n /\ u[m + i] = t[i]
  <2>1. m + i \in 1..m + n /\ ~(m + i <= m) /\ (m + i) - m = i
    BY <1>2
  <2> QED
    BY <1>1, <2>1
<1>7. Range(u) = Range(s) \cup Range(t)
  <2>1. ASSUME NEW x \in Range(u) PROVE x \in Range(s) \cup Range(t)
    <3>1. PICK i \in 1..m + n : x = u[i]
      BY <1>3 DEF Range
    <3> QED
      BY <1>2, <1>4, <3>1 DEF Range
  <2>2. ASSUME NEW x \in Range(s) PROVE x \in Range(u)
    BY <1>2, <1>3, <1>5 DEF Range
  <2>3. ASSUME NEW x \in Range(t) PROVE x \in Range(u)
    BY <1>2, <1>3, <1>6 DEF Range
  <2> QED
    BY <2>1, <2>2, <2>3
<1>8. ASSUME IsInjective(s), IsInjective(t), Range(s) \cap Range(t) = {},
             NEW i \in 1..m + n, NEW j \in 1..m + n, u[i] = u[j]
      PROVE  i = j
  <2>1. \A k \in 1..m, l \in 1..n : s[k] # t[l]
    BY <1>2, <1>8 DEF Range
  <2>2. CASE i \in 1..m /\ u[i] = s[i]
    <3>1. j \in 1..m /\ u[j] = s[j]
      BY <1>4, <1>8, <2>1, <2>2
    <3> QED
      BY <1>2, <1>8, <2>2, <3>1 DEF IsInjective
  <2>3. CASE i - m \in 1..n /\ i > m /\ u[i] = t[i - m]
    <3>1. j - m \in 1..n /\ j > m /\ u[j] = t[j - m]
      BY <1>4, <1>8, <2>1, <2>3
    <3>2. i - m = j - m
      BY <1>2, <1>8, <2>3, <3>1 DEF IsInjective
    <3> QED
      BY <1>2, <3>2
  <2> QED
    BY <1>4, <2>2, <2>3
<1>9. IsInjective(s) /\ IsInjective(t) /\ Range(s) \cap Range(t) = {} => IsInjective(u)
  BY <1>3, <1>8 DEF IsInjective
<1> QED
  BY <1>7, <1>9 DEF u

LEMMA NothingFetched == FlattenSeq(<<>>) = <<>> /\ Range(<<>>) = {} /\ IsInjective(<<>>)
<1>1. FlattenSeq(<<>>) = <<>>
  BY EmptySeq DEF FlattenSeq
<1>2. DOMAIN <<>> = {}
  OBVIOUS
<1> QED
  BY <1>1, <1>2 DEF Range, IsInjective

LEMMA FetchedGrows ==
  ASSUME SearchInv, fetched' = Append(fetched, content)
  PROVE  /\ AllFetched' = AllFetched \o content
         /\ AllFetched \in Seq(Ids) /\ content \in Seq(Ids)
BY FlattenAppend DEF AllFetched, SearchInv, GoodPage

LEMMA NextOffset ==
  ASSUME SearchInv, EffectiveSize' = EffectiveSize, page' = page + 1
  PROVE  Offset' = Offset + EffectiveSize
<1>1. page \in Int /\ EffectiveSize \in Int
  BY SearchAssumption DEF SearchInv, TableInv, EffectiveSize
<1>2. \A q, s \in Int : (q + 1) * s = q * s + s
  OBVIOUS
<1> QED
  BY <1>1, <1>2 DEF Offset

LEMMA OnceInvariant == Spec => []OnceInv
<1>1. Init => OnceInv
  <2> SUFFICES ASSUME Init PROVE OnceInv
    OBVIOUS
  <2>1. AllFetched = <<>>
    BY NothingFetched DEF Init, AllFetched
  <2> QED
    BY <2>1, NothingFetched DEF Init, OnceInv
<1>2. SearchInv /\ PagingInv /\ OnceInv /\ [Next]_vars => OnceInv'
  <2> SUFFICES ASSUME SearchInv, PagingInv, OnceInv, [Next]_vars PROVE OnceInv'
    OBVIOUS
  <2>0. UNCHANGED asked
    BY DEF Next, Ask, ReadContent, ReadCount, SoftDelete, vars, asked
  <2>1. /\ EffectiveSize' = EffectiveSize
        /\ \A M, id : Rank(M, id)' = Rank(M, id)
        /\ page' = page => Offset' = Offset
        /\ fetched' = fetched => AllFetched' = AllFetched
    BY <2>0, AskedStays DEF Offset, AllFetched
  <2>2. CASE UNCHANGED vars
    <3>1. Result' = Result /\ Offset' = Offset /\ AllFetched' = AllFetched
      BY <2>0, <2>1, <2>2, ResultStays DEF vars
    <3> QED
      BY <2>1, <2>2, <3>1 DEF vars, OnceInv
  <2>3. CASE Ask
    <3>1. /\ Result' = Result /\ Offset' = Offset /\ AllFetched' = AllFetched
          /\ step = "ask" /\ step' # "count"
      BY <2>0, <2>1, <2>3, ResultStays DEF Ask, Done
    <3> QED
      BY <2>1, <3>1 DEF OnceInv
  <2>4. CASE ReadContent
    <3>1. /\ Result' = Result /\ Offset' = Offset /\ AllFetched' = AllFetched
          /\ step = "content" /\ Accepted /\ Orderly
      BY <2>0, <2>1, <2>4, ResultStays, AcceptedIsOrderly DEF ReadContent, Done, SearchInv
    <3>2. CASE step' = "done"
      BY <2>1, <3>1, <3>2 DEF OnceInv
    <3>3. CASE step' # "done"
      <4>1. PICK s \in SetToSeqs(Result) :
              /\ InOrder(s, OrderBy)
              /\ content' = SubSeq(s, Offset + 1, Min({Offset + EffectiveSize, Len(s)}))
        BY <2>4, <3>3 DEF ReadContent, Done, Result
      <4>2. /\ IsInjective(content')
            /\ Range(content') = Ranked(Result, Offset, Offset + EffectiveSize)
        BY <3>1, <4>1, ContentRanks
      <4>3. Range(content') \subseteq Result
        BY <4>2 DEF Ranked
      <4>4. \A id \in Range(content') : /\ Offset <= Rank(Result, id)
                                        /\ Rank(Result, id) < Offset + EffectiveSize
        BY <4>2 DEF Ranked
      <4>5. ASSUME NEW id \in Range(content'), id \in Range(AllFetched)
            PROVE  FALSE
        <5>1. Rank(Result, id) < Offset /\ Offset <= Rank(Result, id)
          BY <3>1, <4>3, <4>4, <4>5 DEF OnceInv
        <5>2. Rank(Result, id) \in Int /\ Offset \in Int
          BY <3>1, PageBounds, RowsOfResult, RankShrinks
        <5> QED
          BY <5>1, <5>2
      <4> QED
        BY <2>1, <3>1, <4>2, <4>4, <4>5 DEF OnceInv
    <3> QED
      BY <3>2, <3>3
  <2>7. CASE ReadCount /\ MapperFails /\ Done(500)
    <3>1. Result' = Result /\ Offset' = Offset /\ AllFetched' = AllFetched /\ step' = "done"
      BY <2>0, <2>1, <2>7, ResultStays DEF ReadCount, Done
    <3> QED
      BY <2>1, <3>1 DEF OnceInv
  <2>5. CASE ReadCount /\ ~MapperFails
    <3>1. /\ step = "count" /\ fetched' = Append(fetched, content) /\ Result' = Result
          /\ step' \in {"ask", "done"} /\ (step' = "ask" => page' = page + 1)
          /\ Accepted
      BY <2>0, <2>5, ResultStays DEF ReadCount, SearchInv
    <3>2. /\ AllFetched' = AllFetched \o content
          /\ AllFetched \in Seq(Ids) /\ content \in Seq(Ids)
      BY <3>1, FetchedGrows
    <3>3. /\ Range(AllFetched') = Range(AllFetched) \cup Range(content)
          /\ IsInjective(AllFetched')
      <4>1. /\ IsInjective(AllFetched) /\ IsInjective(content)
            /\ Range(AllFetched) \cap Range(content) = {}
        BY <3>1 DEF OnceInv
      <4> DEFINE all == AllFetched
      <4> HIDE DEF all
      <4>2. /\ Range(all \o content) = Range(all) \cup Range(content)
            /\ IsInjective(all \o content)
        BY <3>2, <4>1, InjectiveConcat DEF all
      <4> QED
        BY <3>2, <4>2 DEF all
    <3>4. ASSUME step' = "ask", NEW id \in Range(AllFetched') \cap Result
          PROVE  Rank(Result, id) < Offset'
      <4>1. Offset' = Offset + EffectiveSize
        BY <2>1, <3>1, <3>4, NextOffset
      <4>2. Rank(Result, id) \in Int /\ Offset \in Int /\ EffectiveSize \in Nat
        BY <3>1, PageBounds, RowsOfResult, RankShrinks
      <4>3. Rank(Result, id) < Offset \/ Rank(Result, id) < Offset + EffectiveSize
        BY <3>1, <3>3, <3>4 DEF OnceInv
      <4> QED
        BY <4>1, <4>2, <4>3
    <3> QED
      BY <2>1, <3>1, <3>3, <3>4 DEF OnceInv
  <2>6. ASSUME NEW id \in DOMAIN table, SoftDelete(id)
        PROVE  OnceInv'
    <3>1. /\ Result' \subseteq Result /\ Offset' = Offset /\ AllFetched' = AllFetched
          /\ content' = content /\ step' = step
      BY <2>1, <2>6, ResultShrinks DEF SoftDelete
    <3>2. \A i : /\ Rank(Result', i) <= Rank(Result, i)
                 /\ Rank(Result', i) \in Nat /\ Rank(Result, i) \in Nat
      BY <3>1, RowsOfResult, RankShrinks
    <3>3. Offset \in Int /\ EffectiveSize \in Int
      <4>1. page \in Int /\ EffectiveSize \in Int
        BY SearchAssumption DEF SearchInv, TableInv, EffectiveSize
      <4> QED
        BY <4>1 DEF Offset
    <3>4. \A i, n : n \in Int /\ Rank(Result, i) < n => Rank(Result', i) < n
      BY <3>2
    <3> QED
      BY <2>1, <3>1, <3>3, <3>4 DEF OnceInv
  <2> QED
    BY <2>2, <2>3, <2>4, <2>5, <2>6, <2>7 DEF Next, ReadCount
<1> QED
  BY <1>1, <1>2, SearchInvariant, PagingInvariant, PTL DEF Spec

LEMMA InjectiveLength ==
  ASSUME NEW S, NEW s \in Seq(S), IsInjective(s)
  PROVE  Len(s) = Cardinality(Range(s))
<1>1. Len(s) \in Nat /\ DOMAIN s = 1..Len(s) /\ s \in [1..Len(s) -> S]
  BY LenProperties
<1>2. s \in [1..Len(s) -> Range(s)] /\ \A x \in Range(s) : \E i \in 1..Len(s) : s[i] = x
  BY <1>1 DEF Range
<1>3. s \in Bijection(1..Len(s), Range(s))
  BY <1>2 DEF Bijection, Injection, Surjection
<1>4. ExistsBijection(1..Len(s), Range(s))
  BY <1>3 DEF ExistsBijection
<1>5. IsFiniteSet(1..Len(s)) /\ Cardinality(1..Len(s)) = Len(s)
  BY <1>1, FS_Interval
<1> QED
  BY <1>4, <1>5, FS_Bijection

LEMMA FetchedRows ==
  ASSUME SearchInv
  PROVE  AllFetched \in Seq(Ids)
<1>1. fetched \in Seq(Seq(Ids)) /\ <<>> \in Seq(Ids)
  BY EmptySeq DEF SearchInv
<1> QED
  BY <1>1, FlattenAppend DEF AllFetched

(* NoRowTwice: rows that are deleted while a client walks through the pages *)
(* may hide others from it, but never show it one twice.                    *)
THEOREM RowsComeOnce == Spec => []NoRowTwice
<1>1. SearchInv /\ OnceInv => NoRowTwice
  BY FetchedRows, InjectiveLength DEF OnceInv, NoRowTwice
<1> QED
  BY <1>1, SearchInvariant, OnceInvariant, PTL
-----------------------------------------------------------------------------
(* While nothing is deleted, what was fetched from the first page on is the *)
(* rows of the lowest ranks, in order; in the end it is all.                *)
WholeInv ==
  (request.page = 0 /\ table = Rows[resource]) =>
    /\ Sorted(AllFetched)
    /\ step # "done" => Range(AllFetched) = {id \in Result : Rank(Result, id) < Offset}
    /\ step = "count" =>
         /\ Sorted(content)
         /\ Range(content) = Ranked(Result, Offset, Offset + EffectiveSize)
    /\ (step = "done" /\ answer = 200) => Range(AllFetched) = Result

LEMMA RankOrders ==
  ASSUME TableInv, Orderly, NEW M, M \subseteq Ids, IsFiniteSet(M),
         NEW x \in M, NEW y \in M, Rank(M, x) < Rank(M, y)
  PROVE  Precedes(x, y)
<1> SUFFICES ASSUME ~Precedes(x, y) PROVE FALSE
  OBVIOUS
<1>1. x = y \/ Precedes(y, x)
  BY PrecedesOrders
<1> DEFINE Bx == {other \in M : Precedes(other, x)}
           By == {other \in M : Precedes(other, y)}
<1>2. By \subseteq Bx
  BY <1>1, PrecedesOrders
<1>3. IsFiniteSet(Bx) /\ Rank(M, x) = Cardinality(Bx) /\ Rank(M, y) = Cardinality(By)
  <2>1. Bx \subseteq M
    OBVIOUS
  <2> QED
    BY <2>1, FS_Subset DEF Rank
<1> HIDE DEF Bx, By
<1>4. /\ IsFiniteSet(By) /\ Cardinality(By) <= Cardinality(Bx)
      /\ Cardinality(Bx) \in Nat /\ Cardinality(By) \in Nat
  BY <1>2, <1>3, FS_Subset, FS_CardinalityType
<1> QED
  BY <1>3, <1>4

LEMMA SortedConcat ==
  ASSUME NEW S, NEW s \in Seq(S), NEW t \in Seq(S), Sorted(s), Sorted(t),
         \A x \in Range(s), y \in Range(t) : Precedes(x, y)
  PROVE  Sorted(s \o t)
<1> DEFINE u == s \o t
           m == Len(s)
           n == Len(t)
<1>1. /\ u \in Seq(S) /\ Len(u) = m + n
      /\ \A i \in 1..m + n : u[i] = IF i <= m THEN s[i] ELSE t[i - m]
  BY ConcatProperties
<1>2. m \in Nat /\ n \in Nat /\ DOMAIN s = 1..m /\ DOMAIN t = 1..n
  BY LenProperties
<1> HIDE DEF u, m, n
<1>3. DOMAIN u = 1..m + n
  BY <1>1, LenProperties
<1>4. ASSUME NEW i \in 1..m + n, NEW j \in 1..m + n, i < j
      PROVE  Precedes(u[i], u[j])
  <2>1. CASE j <= m
    <3>1. i \in 1..m /\ j \in 1..m /\ u[i] = s[i] /\ u[j] = s[j]
      BY <1>1, <1>2, <1>4, <2>1
    <3> QED
      BY <1>2, <1>4, <3>1 DEF Sorted
  <2>2. CASE i > m
    <3>1. i - m \in 1..n /\ j - m \in 1..n /\ i - m < j - m
      BY <1>2, <1>4, <2>2
    <3>2. u[i] = t[i - m] /\ u[j] = t[j - m]
      BY <1>1, <1>2, <1>4, <2>2
    <3> QED
      BY <1>2, <3>1, <3>2 DEF Sorted
  <2>3. CASE i <= m /\ j > m
    <3>1. i \in 1..m /\ j - m \in 1..n
      BY <1>2, <1>4, <2>3
    <3>2. u[i] = s[i] /\ u[j] = t[j - m]
      BY <1>1, <1>2, <1>4, <2>3
    <3>3. u[i] \in Range(s) /\ u[j] \in Range(t)
      BY <1>2, <3>1, <3>2 DEF Range
    <3> QED
      BY <3>3
  <2> QED
    BY <1>2, <2>1, <2>2, <2>3
<1>5. Sorted(u)
  BY <1>3, <1>4 DEF Sorted
<1> QED
  BY <1>5 DEF u

(* The last page is the last: no row of a result of n rows ranks beyond it. *)
LEMMA PagesSuffice ==
  ASSUME SearchInv, Accepted, NEW n \in Nat, ~(page + 1 < TotalPages(n))
  PROVE  n <= Offset + EffectiveSize
<1> DEFINE size == EffectiveSize
           pages == (n + size - 1) \div size
<1>1. size \in Nat \ {0} /\ page \in Int /\ ~(page + 1 < pages)
  BY PageBounds, SearchAssumption DEF SearchInv, TotalPages
<1>2. Offset = page * size
  BY DEF Offset
<1> HIDE DEF size
<1>3. n + size - 1 \in Nat
  BY <1>1
<1>4. \A a \in Nat, s \in Nat \ {0} : a < s * (a \div s) + s /\ a \div s \in Int
  OBVIOUS
<1>5. n + size - 1 < size * pages + size /\ pages \in Int
  BY <1>1, <1>3, <1>4
<1> HIDE DEF pages
<1>6. pages <= page + 1
  BY <1>1, <1>5
<1>7. \A d, q \in Int, s \in Nat \ {0} : d <= q => s * d <= s * q
  OBVIOUS
<1>8. size * pages <= size * (page + 1)
  BY <1>1, <1>5, <1>6, <1>7
<1>9. size * (page + 1) = page * size + size
  BY <1>1
<1>10. page * size \in Int /\ size * pages \in Int
  BY <1>1, <1>5
<1>11. n + size - 1 < page * size + size + size
  BY <1>1, <1>5, <1>8, <1>9, <1>10
<1> QED
  BY <1>1, <1>2, <1>11 DEF size

LEMMA WholeInvariant == Spec => []WholeInv
<1>1. Init => WholeInv
  <2> SUFFICES ASSUME Init PROVE WholeInv
    OBVIOUS
  <2>1. AllFetched = <<>> /\ Range(AllFetched) = {} /\ Sorted(AllFetched)
    BY NothingFetched DEF Init, AllFetched, Sorted
  <2>2. ASSUME request.page = 0, NEW id \in Result, Rank(Result, id) < Offset
        PROVE  FALSE
    <3>1. EffectiveSize \in Int
      BY SearchAssumption DEF Init, EffectiveSize
    <3>2. Offset = 0
      BY <2>2, <3>1 DEF Init, Offset
    <3>3. IsFiniteSet(Result)
      <4>1. Result \subseteq DOMAIN Rows[resource]
        BY DEF Init, Result, Matching
      <4> QED
        BY <4>1, SearchAssumption, FS_Subset DEF Init
    <3>4. Rank(Result, id) \in Nat
      BY <3>3, RankShrinks
    <3> QED
      BY <2>2, <3>2, <3>4
  <2> QED
    BY <2>1, <2>2 DEF Init, WholeInv
<1>2. SearchInv /\ PagingInv /\ WholeInv /\ [Next]_vars => WholeInv'
  <2> SUFFICES ASSUME SearchInv, PagingInv, WholeInv, [Next]_vars PROVE WholeInv'
    OBVIOUS
  <2>0. UNCHANGED asked /\ request' = request
    BY DEF Next, Ask, ReadContent, ReadCount, SoftDelete, vars, asked
  <2> SUFFICES ASSUME request.page = 0, (table = Rows[resource])'
               PROVE  /\ Sorted(AllFetched)'
                      /\ (step # "done" =>
                            Range(AllFetched) = {id \in Result : Rank(Result, id) < Offset})'
                      /\ (step = "count" =>
                            /\ Sorted(content)
                            /\ Range(content) = Ranked(Result, Offset, Offset + EffectiveSize))'
                      /\ (step = "done" /\ answer = 200 => Range(AllFetched) = Result)'
    BY <2>0 DEF WholeInv
  <2>1. /\ EffectiveSize' = EffectiveSize
        /\ \A s : Sorted(s)' <=> Sorted(s)
        /\ \A M, id : Rank(M, id)' = Rank(M, id)
        /\ \A M, a, b : Ranked(M, a, b)' = Ranked(M, a, b)
        /\ page' = page => Offset' = Offset
        /\ fetched' = fetched => AllFetched' = AllFetched
    BY <2>0, AskedStays DEF Offset, AllFetched, Ranked
  <2>2. ASSUME NEW id \in DOMAIN table, SoftDelete(id)
        PROVE  FALSE
    <3>1. id \in Ids /\ "deletedAt" \in DOMAIN Row(id) /\ DOMAIN table = Ids
      BY SearchAssumption DEF SearchInv, TableInv, Ids, Row
    <3>2. table[id] = Row(id) /\ Row(id).deletedAt = NULL
      <4>1. [Row(id) EXCEPT !.deletedAt = 1].deletedAt # NULL
        BY <3>1 DEF NULL
      <4> QED
        BY <2>2, <3>1, <4>1 DEF SoftDelete, PagingInv
    <3>3. table'[id] = [Row(id) EXCEPT !.deletedAt = 1]
      BY <2>2, <3>1, <3>2 DEF SoftDelete
    <3>4. table'[id].deletedAt # NULL
      BY <3>1, <3>3 DEF NULL
    <3>5. table'[id] = Row(id)
      BY <2>0 DEF asked, Row
    <3> QED
      BY <3>2, <3>4, <3>5
  <2>3. table' = table /\ resource' = resource
    BY <2>0, <2>2 DEF Next, Ask, ReadContent, ReadCount, vars, asked
  <2>4. Result' = Result
    BY <2>0, <2>3, ResultStays
  <2>5. /\ Sorted(AllFetched)
        /\ step # "done" => Range(AllFetched) = {id \in Result : Rank(Result, id) < Offset}
        /\ step = "count" =>
             Sorted(content) /\ Range(content) = Ranked(Result, Offset, Offset + EffectiveSize)
        /\ (step = "done" /\ answer = 200) => Range(AllFetched) = Result
    BY <2>3 DEF WholeInv
  <2>6. CASE UNCHANGED vars
    <3>1. Offset' = Offset /\ AllFetched' = AllFetched
      BY <2>1, <2>6 DEF vars
    <3> QED
      BY <2>1, <2>4, <2>5, <2>6, <3>1 DEF vars
  <2>7. CASE Ask
    <3>1. /\ Offset' = Offset /\ AllFetched' = AllFetched /\ step = "ask"
          /\ step' \in {"content", "done"} /\ (step' = "done" => answer' = 400)
      BY <2>1, <2>7 DEF Ask, Done
    <3> QED
      BY <2>1, <2>4, <2>5, <3>1
  <2>8. CASE ReadContent
    <3>1. /\ Offset' = Offset /\ AllFetched' = AllFetched /\ fetched' = fetched
          /\ step = "content" /\ Accepted /\ Orderly
      BY <2>1, <2>8, AcceptedIsOrderly DEF ReadContent, Done, SearchInv
    <3>2. CASE step' = "done"
      <4>1. answer' = 500
        BY <2>8, <3>2 DEF ReadContent, Done
      <4> QED
        BY <2>1, <2>4, <2>5, <3>1, <3>2, <4>1
    <3>3. CASE step' # "done"
      <4>1. step' = "count"
        BY <2>8, <3>3 DEF ReadContent, Done
      <4>2. PICK s \in SetToSeqs(Result) :
              /\ InOrder(s, OrderBy)
              /\ content' = SubSeq(s, Offset + 1, Min({Offset + EffectiveSize, Len(s)}))
        BY <2>8, <3>3 DEF ReadContent, Done, Result
      <4>3. /\ Sorted(content')
            /\ Range(content') = Ranked(Result, Offset, Offset + EffectiveSize)
        BY <3>1, <4>2, ContentRanks
      <4> QED
        BY <2>1, <2>4, <2>5, <3>1, <4>1, <4>3
    <3> QED
      BY <3>2, <3>3
  <2>10. CASE ReadCount /\ MapperFails /\ Done(500)
    <3>1. AllFetched' = AllFetched /\ step' = "done" /\ answer' = 500
      BY <2>1, <2>10 DEF Done
    <3> QED
      BY <2>1, <2>5, <3>1
  <2>9. CASE ReadCount /\ ~MapperFails
    <3>1. /\ step = "count" /\ fetched' = Append(fetched, content)
          /\ \/ step' = "ask" /\ page' = page + 1
             \/ step' = "done" /\ ~(page + 1 < TotalPages(Cardinality(Result)))
          /\ Accepted /\ Orderly /\ TableInv
      BY <2>9, AcceptedIsOrderly DEF ReadCount, SearchInv, Result
    <3>2. /\ AllFetched' = AllFetched \o content
          /\ AllFetched \in Seq(Ids) /\ content \in Seq(Ids)
      BY <3>1, FetchedGrows
    <3>3. Result \subseteq Ids /\ IsFiniteSet(Result)
      BY RowsOfResult
    <3>4. /\ Offset \in Int /\ EffectiveSize \in Nat
          /\ \A id \in Result : /\ Rank(Result, id) \in Nat
                                /\ Rank(Result, id) < Cardinality(Result)
          /\ Cardinality(Result) \in Nat
      BY <3>1, <3>3, PageBounds, RankIsCount, FS_CardinalityType
    <3>5. /\ Range(AllFetched) = {id \in Result : Rank(Result, id) < Offset}
          /\ Range(content) = Ranked(Result, Offset, Offset + EffectiveSize)
          /\ Sorted(content) /\ Sorted(AllFetched)
      BY <2>5, <3>1
    <3> DEFINE all == AllFetched
    <3>6. Sorted(all \o content) /\ Range(all \o content) = Range(all) \cup Range(content)
      <4>1. \A x \in Range(all), y \in Range(content) : Precedes(x, y)
        <5> SUFFICES ASSUME NEW x \in Range(all), NEW y \in Range(content)
                     PROVE  Precedes(x, y)
          OBVIOUS
        <5>1. x \in Result /\ y \in Result /\ Rank(Result, x) < Offset /\ Offset <= Rank(Result, y)
          BY <3>5 DEF Ranked
        <5>2. Rank(Result, x) < Rank(Result, y)
          BY <3>4, <5>1
        <5> QED
          BY <3>1, <3>3, <5>1, <5>2, RankOrders
      <4> HIDE DEF all
      <4>2. all \in Seq(Ids) /\ content \in Seq(Ids) /\ Sorted(all) /\ Sorted(content)
        BY <3>2, <3>5 DEF all
      <4> QED
        BY <4>1, <4>2, SortedConcat, InjectiveConcat
    <3>7. Range(AllFetched') = {id \in Result : Rank(Result, id) < Offset + EffectiveSize}
      <4>1. Range(AllFetched') = Range(AllFetched) \cup Range(content)
        BY <3>2, <3>6
      <4>2. ASSUME NEW id \in Result
            PROVE  \/ Rank(Result, id) < Offset
                   \/ Offset <= Rank(Result, id) /\ Rank(Result, id) < Offset + EffectiveSize
                   \/ ~(Rank(Result, id) < Offset + EffectiveSize)
        BY <3>4
      <4>3. \A id \in Result :
              Rank(Result, id) < Offset => Rank(Result, id) < Offset + EffectiveSize
        BY <3>4
      <4> QED
        BY <3>5, <4>1, <4>2, <4>3 DEF Ranked
    <3>8. CASE step' = "ask" /\ page' = page + 1
      <4>1. Offset' = Offset + EffectiveSize
        BY <2>1, <3>8, NextOffset
      <4> QED
        BY <2>1, <2>4, <3>2, <3>6, <3>7, <3>8, <4>1
    <3>9. CASE step' = "done" /\ ~(page + 1 < TotalPages(Cardinality(Result)))
      <4>1. Cardinality(Result) <= Offset + EffectiveSize
        BY <3>1, <3>4, <3>9, PagesSuffice
      <4>2. \A id \in Result : Rank(Result, id) < Offset + EffectiveSize
        BY <3>4, <4>1
      <4>3. Range(AllFetched') = Result
        BY <3>7, <4>2
      <4> QED
        BY <2>1, <2>4, <3>2, <3>6, <3>9, <4>3
    <3> QED
      BY <3>1, <3>8, <3>9
  <2> QED
    BY <2>2, <2>6, <2>7, <2>8, <2>9, <2>10 DEF Next, ReadCount
<1> QED
  BY <1>1, <1>2, SearchInvariant, PagingInvariant, PTL DEF Spec

(* The criteria are what the client means.                                  *)
LEMMA ResultIsWanted ==
  ASSUME SearchInv, PagingInv
  PROVE  Result = Wanted
<1> SUFFICES ASSUME NEW id \in DOMAIN table, table[id].deletedAt = NULL
             PROVE  (\A c \in Criteria : Holds(table[id], c)) <=>
                      /\ resource = "orders" => SeesAll \/ table[id].createdBy = user.username
                      /\ \A c \in Parsed(request.filter) :
                           c.field \in DOMAIN table[id] => Holds(table[id], c)
  BY DEF Result, Matching, Wanted
<1>1. /\ DOMAIN table[id] = DOMAIN Columns[resource]
      /\ "createdBy" \in DOMAIN Columns[resource]
  <2>1. id \in Ids /\ DOMAIN Row(id) = DOMAIN Columns[resource]
    BY SearchAssumption DEF SearchInv, TableInv, Ids, Row
  <2>2. DOMAIN [Row(id) EXCEPT !.deletedAt = 1] = DOMAIN Row(id)
    OBVIOUS
  <2> QED
    BY <2>1, <2>2, SearchAssumption DEF PagingInv, SearchInv, TableInv
<1>2. \A c \in Parsed(request.filter) : c \in Criteria <=> c.field \in DOMAIN table[id]
  BY <1>1 DEF Criteria, Scoped
<1>3. \A c \in Criteria :
        c \in Parsed(request.filter) \/ (c = Owner /\ resource = "orders" /\ ~SeesAll)
  BY DEF Criteria, Scoped
<1>4. resource = "orders" /\ ~SeesAll => Owner \in Criteria
  BY <1>1 DEF Criteria, Scoped, Owner
<1>5. ASSUME ~SeesAll
      PROVE  Holds(table[id], Owner) <=> table[id].createdBy = user.username
  <2>1. user.username # NULL
    BY <1>5, SearchAssumption DEF SeesAll, SearchInv, TableInv
  <2>2. Parts(Owner)[1].n = user.username
    BY DEF Parts, Owner
  <2>3. Owner.field = "createdBy" /\ Owner.operator = "eq"
    BY DEF Owner
  <2> QED
    BY <2>1, <2>2, <2>3 DEF Holds
<1> QED
  BY <1>2, <1>3, <1>4, <1>5

(* PagesAreTheResult: the pages of a table that does not change are the     *)
(* rows the client may see that meet the conditions its filter states in    *)
(* the form the API takes, each once and in order.                          *)
THEOREM PagesComplete == Spec => []PagesAreTheResult
<1>1. SearchInv /\ PagingInv /\ OnceInv /\ WholeInv => PagesAreTheResult
  <2> SUFFICES ASSUME SearchInv, PagingInv, OnceInv, WholeInv,
                      step = "done", answer = 200,
                      request.page = 0, table = Rows[resource]
               PROVE  /\ Range(AllFetched) = Wanted
                      /\ Len(AllFetched) = Cardinality(Wanted)
                      /\ InOrder(AllFetched,
                           IF request.sort = "" THEN <<[field |-> "id", order |-> "asc"]>>
                           ELSE <<[field |-> request.sort, order |-> request.order]>>)
    BY DEF PagesAreTheResult
  <2> DEFINE all == AllFetched
             key == IF request.sort = "" THEN [field |-> "id", order |-> "asc"]
                    ELSE [field |-> request.sort, order |-> request.order]
             keys == IF request.sort = "" THEN <<[field |-> "id", order |-> "asc"]>>
                     ELSE <<[field |-> request.sort, order |-> request.order]>>
  <2>1. Range(all) = Result /\ Sorted(all) /\ Orderly /\ TableInv
    BY DEF WholeInv, PagingInv, SearchInv
  <2>2. Range(all) = Wanted
    BY <2>1, ResultIsWanted
  <2>3. Len(all) = Cardinality(Range(all))
    BY FetchedRows, InjectiveLength DEF OnceInv
  <2>4. ASSUME NEW i \in DOMAIN all, NEW j \in DOMAIN all, i < j
        PROVE  ~Before(all[j], all[i], keys)
    <3> DEFINE x == all[i]
               y == all[j]
    <3>1. x \in Result /\ y \in Result /\ Precedes(x, y)
      BY <2>1, <2>4 DEF Range, Sorted
    <3> SUFFICES ~Before(y, x, keys)
      OBVIOUS
    <3> HIDE DEF x, y
    <3>2. /\ x \in Ids /\ y \in Ids /\ table[x] = Row(x) /\ table[y] = Row(y)
          /\ Row(x).id = x /\ Row(y).id = y
      <4>1. x \in Ids /\ y \in Ids /\ table[x] = Row(x) /\ table[y] = Row(y)
        BY <3>1, RowsOfResult
      <4> QED
        BY <4>1, SearchAssumption DEF SearchInv, TableInv, Ids, Row
    <3>3. /\ x \in Int /\ y \in Int /\ SortKey(x) \in Int /\ SortKey(y) \in Int
          /\ request.order \in {"asc", "desc"}
      BY <2>1, <3>2, IdsAreNumbers DEF Orderly
    <3>4. Before(y, x, keys) <=> Less(table[y][key.field], table[x][key.field], key.order)
      <4>1. keys = <<key>>
        OBVIOUS
      <4> HIDE DEF keys, key
      <4>2. DOMAIN keys = {1} /\ keys[1] = key /\ 1..(1 - 1) = {}
        BY <4>1
      <4> QED
        BY <4>2 DEF Before
    <3>5. CASE request.sort = ""
      <4>1. SortKey(x) = NULL /\ SortKey(y) = NULL
        BY <3>5 DEF SortKey
      <4>2. ~Less(NULL, NULL, request.order)
        BY DEF Less
      <4>3. x < y
        BY <3>1, <4>1, <4>2 DEF Precedes
      <4>4. key.field = "id" /\ key.order = "asc"
        BY <3>5
      <4>5. x # NULL /\ y # NULL
        BY <3>2, SearchAssumption DEF SearchInv, TableInv, Ids
      <4>6. ~Less(y, x, "asc")
        BY <3>3, <4>3, <4>5 DEF Less
      <4> QED
        BY <3>2, <3>4, <4>4, <4>6
    <3>6. CASE request.sort # ""
      <4>1. /\ SortKey(x) = table[x][request.sort] /\ SortKey(y) = table[y][request.sort]
            /\ key.field = request.sort /\ key.order = request.order
        BY <3>2, <3>6 DEF SortKey
      <4>2. Less(SortKey(x), SortKey(y), request.order) \/ SortKey(x) = SortKey(y)
        BY <3>1 DEF Precedes
      <4> DEFINE a == SortKey(x)
                 b == SortKey(y)
                 order == request.order
      <4>3. ~Less(b, a, order)
        <5>1. a \in Int /\ b \in Int /\ order \in {"asc", "desc"}
          BY <3>3
        <5>2. Less(a, b, order) \/ a = b
          BY <4>2
        <5> HIDE DEF a, b, order
        <5> QED
          BY <5>1, <5>2 DEF Less, NULL
      <4> QED
        BY <3>4, <4>1, <4>3
    <3> QED
      BY <3>5, <3>6
  <2>5. InOrder(all, keys)
    BY <2>4 DEF InOrder
  <2> QED
    BY <2>2, <2>3, <2>5
<1> QED
  BY <1>1, SearchInvariant, PagingInvariant, OnceInvariant, WholeInvariant, PTL
=============================================================================
