------------------------ MODULE OrderRefinementProofs -----------------------
(***************************************************************************)
(* What OrderService keeps of the orders whose rows no save has            *)
(* overwritten, whatever requests overlap. While an order is not in         *)
(* outdated, every copy of it that is written is an edit of the row as it   *)
(* is, so each operation takes effect in one step of OrderAggregate. A save *)
(* over a row that has moved on is an Overwritten step of that aggregate,   *)
(* and nothing is claimed of its order from then on.                        *)
(***************************************************************************)
EXTENDS OrderSafetyProofs, FiniteSetTheorems
-----------------------------------------------------------------------------
(* Order.calculateTotal as a sum over a set: the fold of the library is one *)
(* function g on the subsets of ItemIds that satisfies SumRule everywhere.  *)
(* What two such functions have in common is proved by the least subset on  *)
(* which they would not have it.                                            *)
Pick(s) == CHOOSE i \in s : TRUE

SumRule(items, g, s) ==
  IF s = {} THEN 0 ELSE Price[Pick(s)] * items[Pick(s)] + g[s \ {Pick(s)}]

Sums(items, g) == g = [s \in SUBSET ItemIds |-> SumRule(items, g, s)]

LEMMA TotalIsSum ==
  ASSUME NEW items
  PROVE  Total(items) = (CHOOSE g : Sums(items, g))[ItemIds]
BY DEF Total, MapThenSumSet, MapThenFoldSet, Sums, SumRule, Pick

LEMMA PickIn ==
  ASSUME NEW s \in SUBSET ItemIds, s # {}
  PROVE  Pick(s) \in s
BY DEF Pick

(* The least set with a property *)
LEMMA LeastSubset ==
  ASSUME NEW Bad, Bad \subseteq SUBSET ItemIds, Bad # {}
  PROVE  \E T \in Bad : \A i \in T : T \ {i} \notin Bad
<1>1. SUBSET ItemIds = FiniteSubsetsOf(ItemIds)
  BY DomainAssumption, FS_Subset DEF FiniteSubsetsOf
<1>2. IsWellFoundedOn(StrictSubsetOrdering(ItemIds), SUBSET ItemIds)
  BY <1>1, FS_StrictSubsetOrderingWellFounded
<1>3. PICK T \in Bad : \A U \in Bad : <<U, T>> \notin StrictSubsetOrdering(ItemIds)
  BY <1>2, WFMin
<1>4. ASSUME NEW i \in T, T \ {i} \in Bad
      PROVE  FALSE
  <2>1. <<T \ {i}, T>> \in StrictSubsetOrdering(ItemIds)
    BY <1>4 DEF StrictSubsetOrdering
  <2> QED
    BY <1>3, <1>4, <2>1
<1> QED
  BY <1>4

SetsUpTo(n) == {s \in SUBSET ItemIds : Cardinality(s) <= n}

SumsUpTo(items, n) ==
  \E g \in [SetsUpTo(n) -> Int] : \A s \in SetsUpTo(n) : g[s] = SumRule(items, g, s)

LEMMA SubsetsFinite ==
  ASSUME NEW s \in SUBSET ItemIds
  PROVE  /\ IsFiniteSet(s) /\ Cardinality(s) \in Nat
         /\ Cardinality(s) = 0 <=> s = {}
         /\ \A i \in s : Cardinality(s \ {i}) = Cardinality(s) - 1
BY DomainAssumption, FS_Subset, FS_CardinalityType, FS_EmptySet, FS_RemoveElement

LEMMA SumsExtend ==
  ASSUME NEW items \in [ItemIds -> Int], Price \in [ItemIds -> Int],
         NEW n \in Nat, SumsUpTo(items, n)
  PROVE  SumsUpTo(items, n + 1)
<1>1. PICK g \in [SetsUpTo(n) -> Int] : \A s \in SetsUpTo(n) : g[s] = SumRule(items, g, s)
  BY DEF SumsUpTo
<1> DEFINE h == [s \in SetsUpTo(n + 1) |-> IF s \in SetsUpTo(n) THEN g[s] ELSE SumRule(items, g, s)]
<1>2. ASSUME NEW s \in SetsUpTo(n + 1), s # {}
      PROVE  Pick(s) \in ItemIds /\ s \ {Pick(s)} \in SetsUpTo(n) /\ s \ {Pick(s)} \in SetsUpTo(n + 1)
  BY <1>2, PickIn, SubsetsFinite DEF SetsUpTo
<1>3. ASSUME NEW s \in SetsUpTo(n + 1)
      PROVE  SumRule(items, g, s) \in Int
  BY <1>1, <1>2 DEF SumRule
<1>4. h \in [SetsUpTo(n + 1) -> Int]
  BY <1>1, <1>3
<1>5. ASSUME NEW s \in SetsUpTo(n + 1)
      PROVE  h[s] = SumRule(items, h, s)
  <2>1. h[s] = SumRule(items, g, s)
    BY <1>1
  <2>2. s # {} => h[s \ {Pick(s)}] = g[s \ {Pick(s)}]
    BY <1>2
  <2> QED
    BY <2>1, <2>2 DEF SumRule
<1> QED
  BY <1>4, <1>5 DEF SumsUpTo

LEMMA SumsExist ==
  ASSUME NEW items \in [ItemIds -> Int], Price \in [ItemIds -> Int]
  PROVE  SumsUpTo(items, Cardinality(ItemIds))
<1> DEFINE Bad == {T \in SUBSET ItemIds : ~SumsUpTo(items, Cardinality(T))}
<1> SUFFICES ASSUME Bad # {} PROVE FALSE
  OBVIOUS
<1>1. PICK T \in Bad : \A i \in T : T \ {i} \notin Bad
  <2> HIDE DEF Bad
  <2>1. Bad \subseteq SUBSET ItemIds
    BY DEF Bad
  <2> QED BY LeastSubset, <2>1
<1>2. CASE T = {}
  <2>1. SetsUpTo(0) = {{}}
    BY SubsetsFinite, FS_EmptySet DEF SetsUpTo
  <2>2. SumsUpTo(items, 0)
    <3> DEFINE g == [s \in SetsUpTo(0) |-> 0]
    <3>1. g \in [SetsUpTo(0) -> Int] /\ \A s \in SetsUpTo(0) : g[s] = SumRule(items, g, s)
      BY <2>1 DEF SumRule
    <3> QED BY <3>1 DEF SumsUpTo
  <2> QED
    BY <1>1, <1>2, <2>2, FS_EmptySet
<1>3. CASE T # {}
  <2>1. PICK i \in T : TRUE
    BY <1>3
  <2>2. SumsUpTo(items, Cardinality(T \ {i}))
    BY <1>1, <2>1
  <2>3. Cardinality(T \ {i}) \in Nat /\ Cardinality(T) = Cardinality(T \ {i}) + 1
    BY <2>1, SubsetsFinite
  <2> QED
    BY <1>1, <2>2, <2>3, SumsExtend
<1> QED
  BY <1>2, <1>3

LEMMA TotalSums ==
  ASSUME NEW items \in [ItemIds -> Int], Price \in [ItemIds -> Int]
  PROVE  \E g \in [SUBSET ItemIds -> Int] :
           /\ Total(items) = g[ItemIds]
           /\ \A s \in SUBSET ItemIds : g[s] = SumRule(items, g, s)
<1>1. SetsUpTo(Cardinality(ItemIds)) = SUBSET ItemIds
  BY DomainAssumption, FS_Subset DEF SetsUpTo
<1>2. PICK f \in [SUBSET ItemIds -> Int] : \A s \in SUBSET ItemIds : f[s] = SumRule(items, f, s)
  BY <1>1, SumsExist DEF SumsUpTo
<1>3. Sums(items, f)
  BY <1>2 DEF Sums
<1> DEFINE g == CHOOSE x : Sums(items, x)
<1>4. Sums(items, g)
  BY <1>3
<1>5. Total(items) = g[ItemIds]
  BY TotalIsSum
<1> HIDE DEF g
<1>6. \A s \in SUBSET ItemIds : g[s] = SumRule(items, g, s)
  BY <1>4 DEF Sums
<1>7. g = f
  <2> DEFINE Bad == {s \in SUBSET ItemIds : g[s] # f[s]}
  <2>1. Bad = {}
    <3> SUFFICES ASSUME Bad # {} PROVE FALSE
      OBVIOUS
    <3>1. PICK T \in Bad : \A i \in T : T \ {i} \notin Bad
      <4> HIDE DEF Bad
      <4>1. Bad \subseteq SUBSET ItemIds
        BY DEF Bad
      <4> QED BY LeastSubset, <4>1
    <3>2. T # {} => g[T \ {Pick(T)}] = f[T \ {Pick(T)}]
      BY <3>1, PickIn
    <3> QED
      BY <1>2, <1>6, <3>1, <3>2 DEF SumRule
  <2>2. g = [s \in SUBSET ItemIds |-> g[s]]
    BY <1>4 DEF Sums
  <2>3. f = [s \in SUBSET ItemIds |-> f[s]]
    BY <1>2
  <2> QED
    BY <2>1, <2>2, <2>3
<1> QED
  BY <1>2, <1>5, <1>7

(* changing one item by q changes the total *)
LEMMA TotalTells ==
  ASSUME NEW items \in [ItemIds -> Int], Price \in [ItemIds -> Int],
         NEW i \in ItemIds, NEW q \in Int
  PROVE  Total([items EXCEPT ![i] = q]) = Total(items) + Price[i] * (q - items[i])
<1> DEFINE new == [items EXCEPT ![i] = q]
<1>1. new \in [ItemIds -> Int]
  OBVIOUS
<1>2. PICK g \in [SUBSET ItemIds -> Int] :
           /\ Total(items) = g[ItemIds]
           /\ \A s \in SUBSET ItemIds : g[s] = SumRule(items, g, s)
  BY TotalSums
<1>3. PICK h \in [SUBSET ItemIds -> Int] :
           /\ Total(new) = h[ItemIds]
           /\ \A s \in SUBSET ItemIds : h[s] = SumRule(new, h, s)
  BY TotalSums, <1>1
<1> DEFINE d == Price[i] * (q - items[i])
           Bad == {s \in SUBSET ItemIds : h[s] # g[s] + (IF i \in s THEN d ELSE 0)}
<1>4. Bad = {}
  <2> SUFFICES ASSUME Bad # {} PROVE FALSE
    OBVIOUS
  <2>1. PICK T \in Bad : \A k \in T : T \ {k} \notin Bad
    <3> HIDE DEF Bad
    <3>1. Bad \subseteq SUBSET ItemIds
      BY DEF Bad
    <3> QED BY LeastSubset, <3>1
  <2>2. T \in SUBSET ItemIds /\ h[T] # g[T] + (IF i \in T THEN d ELSE 0)
    BY <2>1
  <2>3. d \in Int
    OBVIOUS
  <2>4. CASE T = {}
    <3>1. g[{}] = 0 /\ h[{}] = 0
      BY <1>2, <1>3 DEF SumRule
    <3> QED
      BY <2>2, <2>4, <3>1
  <2>5. CASE T # {}
    <3> DEFINE k == Pick(T)
    <3>1. k \in T /\ k \in ItemIds
      BY <2>2, <2>5, PickIn
    <3>2. h[T \ {k}] = g[T \ {k}] + (IF i \in T \ {k} THEN d ELSE 0)
      BY <2>1, <2>2, <3>1
    <3>3. g[T] = Price[k] * items[k] + g[T \ {k}]
      BY <1>2, <2>2, <2>5 DEF SumRule
    <3>4. h[T] = Price[k] * new[k] + h[T \ {k}]
      BY <1>3, <2>2, <2>5 DEF SumRule
    <3>5. Price[k] \in Int /\ items[k] \in Int /\ new[k] \in Int
          /\ g[T \ {k}] \in Int /\ h[T \ {k}] \in Int
      BY <1>1, <2>2, <3>1
    <3> HIDE DEF k
    <3>6. CASE k = i
      <4>1. new[k] = q
        BY <3>6
      <4>2. Price[k] * q = Price[k] * items[k] + Price[k] * (q - items[k])
        BY <3>5
      <4> QED
        BY <2>2, <2>3, <3>1, <3>2, <3>3, <3>4, <3>5, <3>6, <4>1, <4>2
    <3>7. CASE k # i
      <4>1. new[k] = items[k]
        BY <3>1, <3>7
      <4>2. Price[k] * items[k] \in Int
        BY <3>5
      <4> HIDE DEF d, new
      <4> QED
        BY <2>2, <2>3, <3>1, <3>2, <3>3, <3>4, <3>5, <3>7, <4>1, <4>2
    <3> QED
      BY <3>6, <3>7
  <2> QED
    BY <2>4, <2>5
<1>5. h[ItemIds] = g[ItemIds] + d
  BY <1>4
<1> QED
  BY <1>2, <1>3, <1>5
-----------------------------------------------------------------------------
(* The entity that the handler of op makes of a row it has read. *)
EditOf(op, row, entity) ==
  /\ row.life = "active"
  /\ \/ /\ op \in {"addItem", "updateItemQuantity"} /\ IsEditable(row)
        /\ \E i \in ItemIds, q \in Quantities :
             /\ i \notin ItemsOf(row.items) => HasRoom(row)
             /\ i \in ItemsOf(row.items) <=> op = "updateItemQuantity"
             /\ entity = WithItem(row, i, q)
     \/ /\ op = "removeItem" /\ IsEditable(row)
        /\ \E i \in ItemsOf(row.items) : entity = WithItem(row, i, 0)
     \/ /\ op \in {"confirm", "cancel"}
        /\ \E target \in OrderStatus :
             /\ ~Refused(row, target)
             /\ entity = [row EXCEPT !.status = target]

(* While the row has the version of the copy, the copy is an edit of it;    *)
(* what save has read is the row, or older, and no older than the copy.     *)
CopyOK(call, table) ==
  LET row == table[call.order]
      entity == call.entity
      loaded == call.loaded
  IN  /\ Saving(call) =>
           /\ entity.version <= row.version
           /\ entity.version = row.version =>
                EditOf(call.op, row, entity) /\ call.from = row.status
      /\ call.pc = "writing" =>
           /\ entity.version <= loaded.version /\ loaded.version <= row.version
           /\ loaded.version = row.version => loaded = row
           /\ entity.version = loaded.version =>
                EditOf(call.op, loaded, entity) /\ call.from = loaded.status

CreationOK(call) ==
  Creating(call) =>
    \E c \in CustomerIds, caller \in Callers, items \in Items :
      /\ call.entity = NewOrder(c, caller, items)
      /\ Cardinality(ItemsOf(items)) <= MaxItems

CopiesOK ==
  \A r \in OrderRequests :
    /\ calls[r].order \notin outdated => CopyOK(calls[r], orders)
    /\ CreationOK(calls[r])

(* The status and total that an event announces, or is about to.            *)
Announced(row, status, total) ==
  /\ status \in {"CONFIRMED", "CANCELED"}
  /\ row.status = status \/ CanTransition(status, row.status)
  /\ row.total = total

Emitting(call) == call.pc = "emitting"

AnnouncementsOK ==
  /\ \A r \in OrderRequests :
       Emitting(calls[r]) /\ calls[r].order \notin outdated =>
         Announced(orders[calls[r].order], calls[r].entity.status, calls[r].entity.total)
  /\ \A e \in events :
       e.order \notin outdated => Announced(orders[e.order], e.to, e.total)

AnnouncedOnce ==
  /\ \A r, s \in OrderRequests :
       /\ Emitting(calls[r]) /\ Emitting(calls[s])
       /\ calls[r].order = calls[s].order /\ calls[r].order \notin outdated
       /\ calls[r].entity.status = calls[s].entity.status
       => r = s
  /\ \A r \in OrderRequests, e \in events :
       Emitting(calls[r]) /\ calls[r].order \notin outdated
         => calls[r].order # e.order \/ calls[r].entity.status # e.to
  /\ RepeatedOnlyByOverwrites

(* What is true of every row that no save has overwritten unread. *)
RowOK(row) ==
  /\ row.life = "absent" => row = NoOrder
  /\ row.total = Total(row.items)
  /\ Cardinality(ItemsOf(row.items)) <= MaxItems

RowsOK == \A o \in OrderIds \ outdated : RowOK(orders[o])

AtomicInv ==
  /\ SafetyInv
  /\ RowsOK
  /\ CopiesOK
  /\ AnnouncementsOK
  /\ AnnouncedOnce
-----------------------------------------------------------------------------
(* How a row of the table may change. *)
RowMoves(row, new) ==
  \/ new = row
  \/ /\ new.version > row.version
     /\ row.life = "active" => new.life # "absent"
     /\ row.life = "deleted" => new.life = "deleted"
     /\ row.life # "absent" => new.customer = row.customer
     /\ new.status = row.status \/ CanTransition(row.status, new.status)
     /\ row.status # "OPEN" => new.items = row.items /\ new.total = row.total

RowsMove == \A o \in OrderIds \ outdated' : RowMoves(orders[o], orders'[o])

LEMMA Transitions ==
  ASSUME NEW from \in OrderStatus, NEW to \in OrderStatus, CanTransition(from, to)
  PROVE  /\ to # from
         /\ to \in {"CONFIRMED", "CANCELED"}
         /\ ~CanTransition(to, from)
         /\ from # "OPEN" => from = "CONFIRMED" /\ to = "CANCELED"
BY DEF CanTransition, AllowedTransitions, OrderStatus

LEMMA ItemsAreNumbers ==
  /\ Price \in [ItemIds -> Int]
  /\ \A i \in ItemIds : Price[i] > 0
  /\ \A items \in Items : items \in [ItemIds -> Int]
  /\ \A q \in Quantities : q \in Nat \ {0}
<1>1. /\ Price \in [ItemIds -> Int]
      /\ \A i \in ItemIds : Price[i] > 0
      /\ \A q \in Quantities : q \in Nat \ {0}
  BY DomainAssumption
<1>2. \A items \in Items : items \in [ItemIds -> Int]
  BY <1>1 DEF Items
<1> QED
  BY <1>1, <1>2

LEMMA ItemCount ==
  ASSUME NEW items \in Items
  PROVE  IsFiniteSet(ItemsOf(items)) /\ Cardinality(ItemsOf(items)) \in Nat
<1>1. ItemsOf(items) \in SUBSET ItemIds
  BY DEF ItemsOf
<1> QED
  BY <1>1, SubsetsFinite

(* What WithItem makes of an editable row. *)
ItemEdited(row, i, q, entity) ==
  /\ entity \in OrderRows
  /\ entity.life = row.life
  /\ entity.customer = row.customer
  /\ entity.createdBy = row.createdBy
  /\ entity.status = row.status
  /\ entity.version = row.version
  /\ entity.items = [row.items EXCEPT ![i] = q]
  /\ entity.total = Total(entity.items)
  /\ entity # row => entity.total # row.total
  /\ q # 0 => ItemsOf(entity.items) = ItemsOf(row.items) \cup {i}
  /\ q = 0 /\ i \in ItemsOf(row.items) => Orphaned(entity, row) # {}

(* Another quantity of an item makes another total, so save never takes an  *)
(* order whose items it has to write for one that has not changed.          *)
LEMMA ItemEdit ==
  ASSUME NEW row \in OrderRows, RowOK(row), IsEditable(row),
         NEW i \in ItemIds, NEW q \in Quantities \cup {0},
         NEW entity, entity = WithItem(row, i, q)
  PROVE  ItemEdited(row, i, q, entity)
<1> DEFINE items == [row.items EXCEPT ![i] = q]
<1>1. row.items \in Items /\ items \in Items
  BY DEF OrderRows, Items
<1>2. entity = [row EXCEPT !.items = items, !.total = Total(items)]
  BY DEF WithItem
<1>3. entity \in OrderRows
  BY WithItemType
<1>4. /\ entity.life = row.life
      /\ entity.customer = row.customer
      /\ entity.createdBy = row.createdBy
      /\ entity.status = row.status
      /\ entity.version = row.version
      /\ entity.items = items
      /\ entity.total = Total(items)
  <2> HIDE DEF items
  <2> QED
    BY <1>2 DEF OrderRows
<1>5. entity # row => entity.total # row.total
  <2> SUFFICES ASSUME entity.total = row.total
               PROVE  entity = row
    OBVIOUS
  <2>1. /\ row.items \in [ItemIds -> Int] /\ q \in Int
        /\ Price \in [ItemIds -> Int] /\ Price[i] > 0
    BY <1>1, ItemsAreNumbers
  <2>2. Total(items) = Total(row.items) + Price[i] * (q - row.items[i])
    BY <2>1, TotalTells
  <2>3. Total(row.items) \in Int
    <3>1. PICK g \in [SUBSET ItemIds -> Int] : Total(row.items) = g[ItemIds]
      BY <2>1, TotalSums
    <3> QED
      BY <3>1
  <2>4. Price[i] * (q - row.items[i]) = 0
    <3> DEFINE t == Total(row.items)
               d == Price[i] * (q - row.items[i])
    <3>1. t + d = t /\ t \in Int /\ d \in Int
      BY <1>4, <2>1, <2>2, <2>3 DEF RowOK
    <3> HIDE DEF t, d
    <3>2. d = 0
      BY <3>1
    <3> QED
      BY <3>2 DEF d
  <2>5. q = row.items[i]
    <3> DEFINE p == Price[i]
               x == q - row.items[i]
    <3>1. p \in Int /\ p > 0 /\ x \in Int /\ p * x = 0
      BY <2>1, <2>4
    <3>2. row.items[i] \in Int
      BY <2>1
    <3> HIDE DEF p, x
    <3>3. x = 0
      BY <3>1
    <3> QED
      BY <2>1, <3>2, <3>3 DEF x
  <2>6. items = row.items
    BY <1>1, <2>5 DEF Items
  <2>7. Total(items) = row.total
    BY <2>6 DEF RowOK
  <2> HIDE DEF items
  <2> QED
    BY <1>2, <2>6, <2>7 DEF OrderRows
<1>6. q # 0 => ItemsOf(items) = ItemsOf(row.items) \cup {i}
  BY <1>1 DEF ItemsOf, Items
<1>7. q = 0 /\ i \in ItemsOf(row.items) => i \in ItemsOf(row.items) \ ItemsOf(items)
  BY <1>1 DEF ItemsOf, Items
<1> HIDE DEF items
<1>8. q = 0 /\ i \in ItemsOf(row.items) => Orphaned(entity, row) # {}
  BY <1>4, <1>7 DEF Orphaned
<1> QED
  BY <1>3, <1>4, <1>5, <1>6, <1>8 DEF ItemEdited, items

(* A handler's copy of a row it has just read, and what saving it does.     *)
Edited(op, row, entity) ==
  /\ entity \in OrderRows
  /\ entity.life = "active" /\ row.life = "active"
  /\ entity.customer = row.customer
  /\ entity.createdBy = row.createdBy
  /\ entity.version = row.version
  /\ entity.total = Total(entity.items)
  /\ op # "removeItem" => Cardinality(ItemsOf(entity.items)) <= MaxItems
  /\ op = "removeItem" => Orphaned(entity, row) # {}
  /\ entity # row => RowDiffers(entity, row)
  /\ \/ /\ op \in {"confirm", "cancel"}
        /\ CanTransition(row.status, entity.status)
        /\ entity.items = row.items /\ entity.total = row.total
     \/ /\ op \notin {"confirm", "cancel"}
        /\ row.status = "OPEN" /\ entity.status = row.status

LEMMA EditFacts ==
  ASSUME NEW row \in OrderRows, RowOK(row), NEW op, NEW entity,
         EditOf(op, row, entity)
  PROVE  Edited(op, row, entity)
<1>1. ASSUME NEW i \in ItemIds, NEW q \in Quantities, IsEditable(row),
             op \in {"addItem", "updateItemQuantity"},
             i \notin ItemsOf(row.items) => HasRoom(row),
             entity = WithItem(row, i, q)
      PROVE  Cardinality(ItemsOf(entity.items)) <= MaxItems
  <2>1. q # 0
    BY ItemsAreNumbers
  <2>2. row.items \in Items
    BY DEF OrderRows
  <2> ItemEdited(row, i, q, entity)
    BY <1>1, ItemEdit
  <2>3. CASE i \in ItemsOf(row.items)
    <3>1. ItemsOf(entity.items) = ItemsOf(row.items)
      BY <2>1, <2>3 DEF ItemEdited
    <3> QED
      BY <3>1 DEF RowOK
  <2>4. CASE i \notin ItemsOf(row.items)
    <3>1. ItemsOf(entity.items) = ItemsOf(row.items) \cup {i}
      BY <2>1 DEF ItemEdited
    <3>2. Cardinality(ItemsOf(row.items) \cup {i}) = Cardinality(ItemsOf(row.items)) + 1
      BY <2>2, <2>4, ItemCount, FS_AddElement
    <3>3. Cardinality(ItemsOf(row.items)) < MaxItems
      BY <1>1, <2>4 DEF HasRoom
    <3> QED
      BY <2>2, <3>1, <3>2, <3>3, ItemCount, DomainAssumption
  <2> QED
    BY <2>3, <2>4
<1>2. ASSUME NEW i \in ItemIds, NEW q \in Quantities \cup {0}, IsEditable(row),
             op \notin {"confirm", "cancel"}, row.life = "active",
             op # "removeItem" => Cardinality(ItemsOf(entity.items)) <= MaxItems,
             op = "removeItem" => q = 0 /\ i \in ItemsOf(row.items),
             entity = WithItem(row, i, q)
      PROVE  Edited(op, row, entity)
  <2>1. /\ entity \in OrderRows
        /\ entity.life = "active"
        /\ entity.customer = row.customer
        /\ entity.createdBy = row.createdBy
        /\ entity.status = row.status
        /\ entity.version = row.version
        /\ entity.total = Total(entity.items)
        /\ entity # row => entity.total # row.total
        /\ op = "removeItem" => Orphaned(entity, row) # {}
    <3>1. ItemEdited(row, i, q, entity)
      BY <1>2, ItemEdit
    <3> QED
      BY <1>2, <3>1 DEF ItemEdited
  <2> QED
    BY <1>2, <2>1 DEF RowDiffers, IsEditable, Edited
<1>3. ASSUME NEW target \in OrderStatus, op \in {"confirm", "cancel"},
             row.life = "active", ~Refused(row, target),
             entity = [row EXCEPT !.status = target]
      PROVE  Edited(op, row, entity)
  <2>1. /\ entity \in OrderRows
        /\ entity.life = row.life /\ entity.customer = row.customer
        /\ entity.createdBy = row.createdBy
        /\ entity.version = row.version /\ entity.items = row.items
        /\ entity.total = row.total /\ entity.status = target
    BY <1>3 DEF OrderRows
  <2>2. CanTransition(row.status, target) /\ row.status \in OrderStatus
    BY <1>3 DEF Refused, OrderRows
  <2>3. target # row.status
    BY <2>2, Transitions
  <2> QED
    BY <1>3, <2>1, <2>2, <2>3 DEF RowOK, RowDiffers, Edited
<1>4. CASE op \in {"addItem", "updateItemQuantity"} /\ IsEditable(row)
  <2>1. PICK i \in ItemIds, q \in Quantities :
          /\ i \notin ItemsOf(row.items) => HasRoom(row)
          /\ entity = WithItem(row, i, q)
    BY <1>4 DEF EditOf
  <2> QED
    BY <1>1, <1>2, <1>4, <2>1 DEF EditOf
<1>5. CASE op = "removeItem" /\ IsEditable(row)
  <2>1. PICK i \in ItemsOf(row.items) : entity = WithItem(row, i, 0)
    BY <1>5 DEF EditOf
  <2>2. i \in ItemIds
    BY DEF ItemsOf
  <2> QED
    BY <1>2, <1>5, <2>1, <2>2 DEF EditOf
<1>6. CASE op \in {"confirm", "cancel"}
  BY <1>3, <1>6 DEF EditOf
<1> QED
  BY <1>4, <1>5, <1>6 DEF EditOf
-----------------------------------------------------------------------------
(* A save that takes effect: it turns the row into the edit of it that the  *)
(* handler made.                                                            *)
EditSaved(r) ==
  LET o == calls[r].order
      entity == calls[r].entity
  IN  /\ o \notin outdated /\ UNCHANGED outdated
      /\ EditOf(calls[r].op, orders[o], entity)
      /\ calls[r].op # "removeItem"
      /\ orders' = [orders EXCEPT ![o] = [entity EXCEPT !.version = @ + 1]]
      /\ IF calls[r].op \in {"confirm", "cancel"}
         THEN Advance(r, "emitting")
         ELSE Finish(r, "ok")

(* A save of a row that is, or becomes, one overwritten unread. *)
Overwrote(r) ==
  LET o == calls[r].order
      entity == calls[r].entity
      loaded == calls[r].loaded
  IN  /\ outdated' = outdated \cup {o}
      /\ Orphaned(entity, loaded) = {}
      /\ orders' = [orders EXCEPT ![o] = Written(entity, loaded, orders[o])]
      /\ IF calls[r].op \in {"confirm", "cancel"}
         THEN Advance(r, "emitting")
         ELSE Finish(r, "ok")

LEMMA RowsAreOK ==
  ASSUME AtomicInv
  PROVE  /\ \A o \in OrderIds : orders[o] \in OrderRows
         /\ \A o \in OrderIds \ outdated : RowOK(orders[o])
BY DEF AtomicInv, SafetyInv, TypeInv, OrderTypeOK, DatabaseTypeOK, RowsOK

LEMMA WrittenUnchanged ==
  ASSUME NEW entity \in OrderRows, NEW row \in OrderRows
  PROVE  Written(entity, entity, row) = row
<1>1. ~RowDiffers(entity, entity)
  BY DEF RowDiffers
<1>2. [i \in ItemIds |-> Differing(entity.items[i], entity.items[i], row.items[i])] = row.items
  BY DEF Differing, OrderRows, Items
<1>3. Written(entity, entity, row) = [row EXCEPT !.life = row.life, !.status = row.status,
                                                 !.total = row.total, !.items = row.items,
                                                 !.version = row.version]
  BY <1>1, <1>2 DEF Written, Differing
<1> QED
  BY <1>3 DEF OrderRows

LEMMA WrittenEdit ==
  ASSUME NEW row \in OrderRows, NEW op, NEW entity, Edited(op, row, entity),
         entity # row
  PROVE  Written(entity, row, row) = [entity EXCEPT !.version = @ + 1]
<1>1. /\ RowDiffers(entity, row)
      /\ NextVersion(entity, row, row) = entity.version + 1
      /\ entity \in OrderRows
      /\ entity.customer = row.customer /\ entity.createdBy = row.createdBy
  BY DEF Edited, NextVersion
<1>2. [i \in ItemIds |-> Differing(entity.items[i], row.items[i], row.items[i])] = entity.items
  BY <1>1 DEF Differing, OrderRows, Items
<1>3. Written(entity, row, row) =
        [row EXCEPT !.life = entity.life, !.status = entity.status,
                    !.total = entity.total, !.items = entity.items,
                    !.version = entity.version + 1]
  BY <1>1, <1>2 DEF Written, Differing
<1> QED
  BY <1>1, <1>3 DEF OrderRows

LEMMA SaveTakesEffect ==
  ASSUME AtomicInv, NEW r \in OrderRequests, SaveWrites(r)
  PROVE  \/ EditSaved(r)
         \/ Overwrote(r)
         \/ /\ UNCHANGED <<orders, outdated>>
            /\ \E result \in Results : Finish(r, result)
<1> DEFINE o == calls[r].order
           op == calls[r].op
           entity == calls[r].entity
           loaded == calls[r].loaded
           row == orders[o]
<1>1. o \in OrderIds
  BY DEF SaveWrites, AtomicInv, SafetyInv, TypeInv, KeysOK, InTransit, Phases
<1>2. row \in OrderRows
  BY <1>1, RowsAreOK
<1>3. entity \in OrderRows /\ loaded \in OrderRows
  BY DEF AtomicInv, SafetyInv, TypeInv, OrderTypeOK, Calls
<1>4. Saving(calls[r]) /\ calls[r].pc = "writing"
  BY DEF SaveWrites, Saving
<1>5. CASE Finish(r, "error") /\ UNCHANGED <<orders, outdated>>
  BY <1>5 DEF Results
<1>6. CASE o \in outdated' /\ ~UNCHANGED <<orders, outdated>>
  BY <1>6 DEF SaveWrites, Overwrites, Overwrote
<1>7. CASE /\ o \notin outdated' /\ Overwrites(o, entity, loaded, row)
           /\ Orphaned(entity, loaded) = {}
           /\ orders' = [orders EXCEPT ![o] = Written(entity, loaded, row)]
           /\ IF op \in {"confirm", "cancel"}
              THEN Advance(r, "emitting") ELSE Finish(r, "ok")
  <2>3. o \notin outdated /\ UNCHANGED outdated
    BY <1>7 DEF Overwrites
  <2>4. CopyOK(calls[r], orders) /\ RowOK(row)
    BY <1>1, <2>3, RowsAreOK DEF AtomicInv, CopiesOK
  <2>1. CASE entity = loaded
    <3>1. EditOf(op, loaded, loaded)
      BY <1>3, <1>4, <2>1, <2>4 DEF CopyOK
    <3>2. op \notin {"confirm", "cancel"}
      <4>1. \A target \in OrderStatus :
              loaded = [loaded EXCEPT !.status = target] => target = loaded.status
        BY <1>3 DEF OrderRows
      <4>2. ~CanTransition(loaded.status, loaded.status)
        BY <1>3, Transitions DEF OrderRows
      <4> QED
        BY <3>1, <4>1, <4>2 DEF EditOf, Refused
    <3>3. Written(entity, loaded, row) = row
      BY <1>2, <1>3, <2>1, WrittenUnchanged
    <3>4. orders' = orders
      BY <1>1, <1>7, <3>3 DEF AtomicInv, SafetyInv, TypeInv, OrderTypeOK, DatabaseTypeOK
    <3> QED
      BY <1>7, <2>3, <3>2, <3>4 DEF Results
  <2>2. CASE entity # loaded
    <3>1. entity.version = row.version
      BY <1>7, <2>2 DEF Overwrites
    <3>2. loaded = row
      <4>1. /\ entity.version <= loaded.version /\ loaded.version <= row.version
            /\ loaded.version = row.version => loaded = row
        BY <1>4, <2>4 DEF CopyOK
      <4>2. loaded.version \in Nat /\ row.version \in Nat
        BY <1>2, <1>3 DEF OrderRows
      <4> QED
        BY <3>1, <4>1, <4>2
    <3>3. EditOf(op, row, entity)
      BY <1>4, <2>4, <3>1 DEF CopyOK
    <3>4. Edited(op, row, entity)
      BY <1>2, <2>4, <3>3, EditFacts
    <3>5. op # "removeItem"
      BY <1>7, <3>2, <3>4 DEF Edited
    <3>6. Written(entity, loaded, row) = [entity EXCEPT !.version = @ + 1]
      BY <1>2, <2>2, <3>2, <3>4, WrittenEdit
    <3>7. orders' = [orders EXCEPT ![o] = [entity EXCEPT !.version = @ + 1]]
      BY <1>7, <3>6
    <3> QED
      BY <1>7, <2>3, <3>3, <3>5, <3>7 DEF EditSaved
  <2> QED
    BY <2>1, <2>2
<1> QED
  BY <1>5, <1>6, <1>7 DEF SaveWrites, Results, Overwrote, Overwrites

LEMMA EditMoves ==
  ASSUME NEW row \in OrderRows, RowOK(row), NEW op, NEW entity,
         Edited(op, row, entity), op # "removeItem"
  PROVE  LET new == [entity EXCEPT !.version = @ + 1]
         IN  RowMoves(row, new) /\ RowOK(new)
<1> DEFINE new == [entity EXCEPT !.version = @ + 1]
<1>1. /\ new.life = entity.life /\ new.customer = entity.customer
      /\ new.status = entity.status /\ new.items = entity.items
      /\ new.total = entity.total /\ new.version = row.version + 1
  BY DEF Edited, OrderRows
<1>2. row.version \in Nat
  BY DEF OrderRows
<1> HIDE DEF new
<1>3. RowMoves(row, new)
  BY <1>1, <1>2 DEF RowMoves, Edited
<1>4. RowOK(new)
  BY <1>1 DEF RowOK, Edited
<1> QED
  BY <1>3, <1>4 DEF new

LEMMA DeletionMoves ==
  ASSUME NEW row \in OrderRows, RowOK(row), row.life # "absent"
  PROVE  RowMoves(row, SoftDeleted(row)) /\ RowOK(SoftDeleted(row))
<1> DEFINE new == SoftDeleted(row)
<1>1. /\ new.life = "deleted" /\ new.customer = row.customer
      /\ new.status = row.status /\ new.items = row.items
      /\ new.total = row.total /\ new.version = row.version + 1
  BY DEF SoftDeleted, OrderRows
<1>2. row.version \in Nat
  BY DEF OrderRows
<1> HIDE DEF new
<1> QED
  BY <1>1, <1>2 DEF RowMoves, RowOK, new

LEMMA InsertionMoves ==
  ASSUME NEW row \in OrderRows, RowOK(row), row.life = "absent",
         NEW c, NEW caller, NEW items, Cardinality(ItemsOf(items)) <= MaxItems
  PROVE  /\ RowMoves(row, NewOrder(c, caller, items))
         /\ RowOK(NewOrder(c, caller, items))
BY DEF RowMoves, RowOK, NewOrder, NoOrder

(* An announced status stays announced truly, whatever moves are made.      *)
LEMMA AnnouncedStays ==
  ASSUME NEW row \in OrderRows, NEW new \in OrderRows, RowMoves(row, new),
         NEW status, NEW total, Announced(row, status, total)
  PROVE  Announced(new, status, total)
<1>1. row.status \in OrderStatus /\ new.status \in OrderStatus
  BY DEF OrderRows
<1> QED
  BY <1>1 DEF Announced, RowMoves, CanTransition, AllowedTransitions, OrderStatus
-----------------------------------------------------------------------------
(* What a step does to the table, and to the calls of the requests that do  *)
(* not take it.                                                             *)
TableStep == outdated \subseteq outdated' /\ RowsMove /\ RowsOK'
OnlyCall(r) ==
  \A s \in OrderRequests \ {r} : calls'[s] = calls[s]

LEMMA TableSame ==
  ASSUME AtomicInv, UNCHANGED orders, outdated \subseteq outdated'
  PROVE  TableStep
BY DEF TableStep, RowsMove, RowMoves, AtomicInv, RowsOK

LEMMA TableWritten ==
  ASSUME AtomicInv, NEW o \in OrderIds, NEW new,
         orders' = [orders EXCEPT ![o] = new], outdated \subseteq outdated',
         o \notin outdated' => RowMoves(orders[o], new) /\ RowOK(new)
  PROVE  TableStep
<1>1. orders'[o] = new /\ \A p \in OrderIds \ {o} : orders'[p] = orders[p]
  BY DEF AtomicInv, SafetyInv, TypeInv, OrderTypeOK, DatabaseTypeOK
<1>2. RowsMove
  BY <1>1 DEF RowsMove, RowMoves
<1>3. RowsOK'
  BY <1>1, RowsAreOK DEF RowsOK
<1> QED
  BY <1>2, <1>3 DEF TableStep

LEMMA CopiesKept ==
  ASSUME AtomicInv, SafetyInv', NEW r \in OrderRequests, OnlyCall(r),
         TableStep, CreationOK(calls'[r]),
         calls'[r].order \notin outdated' => CopyOK(calls'[r], orders')
  PROVE  CopiesOK'
<1> SUFFICES ASSUME NEW s \in OrderRequests \ {r}, calls[s].order \notin outdated'
             PROVE  CopyOK(calls[s], orders')
  BY DEF AtomicInv, CopiesOK, OnlyCall
<1>1. CopyOK(calls[s], orders)
  BY DEF AtomicInv, CopiesOK, TableStep
<1>2. CASE ~Saving(calls[s])
  BY <1>1, <1>2 DEF CopyOK, Saving
<1>3. CASE Saving(calls[s])
  <2> DEFINE o == calls[s].order
  <2>1. o \in OrderIds
    BY <1>3 DEF Saving, AtomicInv, SafetyInv, TypeInv, KeysOK, InTransit, Phases
  <2>2. /\ orders[o].version \in Nat /\ orders'[o].version \in Nat
        /\ calls[s].entity.version \in Nat /\ calls[s].loaded.version \in Nat
    BY <2>1 DEF AtomicInv, SafetyInv, TypeInv, OrderTypeOK, DatabaseTypeOK,
                Calls, OrderRows
  <2>3. orders'[o] = orders[o] \/ orders'[o].version > orders[o].version
    BY <2>1 DEF TableStep, RowsMove, RowMoves
  <2> QED
    BY <1>1, <1>3, <2>2, <2>3 DEF CopyOK
<1> QED
  BY <1>2, <1>3

LEMMA AnnouncementsKept ==
  ASSUME AtomicInv, SafetyInv', NEW r \in OrderRequests, OnlyCall(r), TableStep,
         Emitting(calls'[r]) /\ calls'[r].order \notin outdated'
           => Announced(orders'[calls'[r].order], calls'[r].entity.status,
                        calls'[r].entity.total),
         \A e \in events' :
           \/ e \in events
           \/ e.order \notin outdated' => Announced(orders'[e.order], e.to, e.total)
  PROVE  AnnouncementsOK'
<1>1. ASSUME NEW o \in OrderIds \ outdated', NEW status, NEW total,
             Announced(orders[o], status, total)
      PROVE  Announced(orders'[o], status, total)
  BY <1>1, AnnouncedStays
  DEF TableStep, RowsMove, AtomicInv, SafetyInv, TypeInv, OrderTypeOK, DatabaseTypeOK
<1>2. ASSUME NEW s \in OrderRequests \ {r}, Emitting(calls'[s]),
             calls'[s].order \notin outdated'
      PROVE  Announced(orders'[calls'[s].order], calls'[s].entity.status,
                       calls'[s].entity.total)
  <2>1. calls'[s] = calls[s] /\ Emitting(calls[s])
    BY <1>2 DEF OnlyCall, Emitting
  <2>2. calls[s].order \in OrderIds
    BY <2>1 DEF Emitting, AtomicInv, SafetyInv, TypeInv, KeysOK, InTransit, Phases
  <2> QED
    BY <1>1, <1>2, <2>1, <2>2 DEF AtomicInv, AnnouncementsOK, TableStep
<1>3. ASSUME NEW e \in events, e.order \notin outdated'
      PROVE  Announced(orders'[e.order], e.to, e.total)
  <2>1. e.order \in OrderIds
    BY DEF AtomicInv, SafetyInv, TypeInv, OrderTypeOK, Events
  <2> QED
    BY <1>1, <1>3, <2>1 DEF AtomicInv, AnnouncementsOK, TableStep
<1> QED
  BY <1>2, <1>3 DEF AnnouncementsOK

(* A request that is not about to emit leaves no announcement twice. *)
LEMMA OnceKept ==
  ASSUME AtomicInv, NEW r \in OrderRequests, OnlyCall(r), UNCHANGED events,
         outdated \subseteq outdated',
         Emitting(calls'[r]) /\ calls'[r].order \notin outdated' =>
           /\ \A s \in OrderRequests \ {r} :
                Emitting(calls[s]) => \/ calls[s].order # calls'[r].order
                               \/ calls[s].entity.status # calls'[r].entity.status
           /\ \A e \in events : \/ calls'[r].order # e.order
                                \/ calls'[r].entity.status # e.to
  PROVE  AnnouncedOnce'
<1>1. \A s \in OrderRequests \ {r} : calls'[s] = calls[s]
  BY DEF OnlyCall
<1>2. RepeatedOnlyByOverwrites'
  BY DEF AtomicInv, AnnouncedOnce, RepeatedOnlyByOverwrites
<1>3. ASSUME NEW p \in OrderRequests, NEW q \in OrderRequests,
             Emitting(calls'[p]), Emitting(calls'[q]), calls'[p].order = calls'[q].order,
             calls'[p].order \notin outdated',
             calls'[p].entity.status = calls'[q].entity.status
      PROVE  p = q
  <2>1. CASE p = r /\ q # r
    BY <1>1, <1>3, <2>1 DEF Emitting
  <2>2. CASE p # r /\ q = r
    BY <1>1, <1>3, <2>2 DEF Emitting
  <2>3. CASE p # r /\ q # r
    <3>1. Emitting(calls[p]) /\ Emitting(calls[q]) /\ calls'[p] = calls[p] /\ calls'[q] = calls[q]
      BY <1>1, <1>3, <2>3 DEF Emitting
    <3> QED
      BY <1>3, <3>1 DEF AtomicInv, AnnouncedOnce
  <2> QED
    BY <2>1, <2>2, <2>3
<1>4. ASSUME NEW p \in OrderRequests, NEW e \in events, Emitting(calls'[p]),
             calls'[p].order \notin outdated'
      PROVE  calls'[p].order # e.order \/ calls'[p].entity.status # e.to
  <2>1. p # r => Emitting(calls[p]) /\ calls'[p] = calls[p]
    BY <1>1, <1>4 DEF Emitting
  <2> QED
    BY <1>4, <2>1 DEF AtomicInv, AnnouncedOnce
<1> QED
  BY <1>2, <1>3, <1>4 DEF AnnouncedOnce

(* A request ends, without an event, and writes at most an allowed move.    *)
LEMMA AtomicEnd ==
  ASSUME AtomicInv, SafetyInv', NEW r \in OrderRequests, NEW result,
         calls[r].pc \in InTransit, Finish(r, result), TableStep,
         UNCHANGED events
  PROVE  AtomicInv'
<1>1. calls'[r].pc = "done" /\ OnlyCall(r)
  BY DEF Finish, Answer, Idle, OnlyCall, AtomicInv, SafetyInv, TypeInv, OrderTypeOK
<1>2. /\ CopyOK(calls'[r], orders') /\ CreationOK(calls'[r])
      /\ ~Emitting(calls'[r])
  BY <1>1 DEF CopyOK, CreationOK, Saving, Creating, Emitting
<1>3. CopiesOK'
  BY <1>1, <1>2, CopiesKept
<1>4. AnnouncementsOK'
  BY <1>1, <1>2, AnnouncementsKept
<1>5. AnnouncedOnce'
  BY <1>1, <1>2, OnceKept DEF TableStep
<1> QED
  BY <1>3, <1>4, <1>5 DEF AtomicInv, TableStep
-----------------------------------------------------------------------------
(* What a request that arrives may start. *)
AtomicStart(call) ==
  /\ ~Emitting(call)
  /\ call.order \notin outdated => CopyOK(call, orders)
  /\ CreationOK(call)

AtomicStarts(r) ==
  \E call : AtomicStart(call) /\ calls' = [calls EXCEPT ![r] = call]

LEMMA AnswerIsAtomic ==
  ASSUME NEW r, NEW op, NEW result, Answer(r, op, result)
  PROVE  AtomicStarts(r)
<1> DEFINE call == [Idle EXCEPT !.pc = "done", !.op = op, !.result = result]
<1>1. call.pc = "done"
  BY DEF Idle
<1>2. AtomicStart(call)
  BY <1>1 DEF AtomicStart, Emitting, CopyOK, CreationOK, Saving, Creating
<1> QED
  BY <1>2 DEF Answer, AtomicStarts

LEMMA SaveIsAtomic ==
  ASSUME AtomicInv, NEW r, NEW op, NEW o \in OrderIds, NEW entity,
         EditOf(op, orders[o], entity), Save(r, op, o, entity)
  PROVE  AtomicStarts(r)
<1> DEFINE call == [Idle EXCEPT !.pc = "reading", !.op = op, !.order = o,
                                !.entity = entity, !.from = orders[o].status]
<1>1. /\ call.pc = "reading" /\ call.op = op /\ call.order = o
      /\ call.entity = entity /\ call.from = orders[o].status
  BY DEF Idle
<1>2. orders[o] \in OrderRows /\ (o \notin outdated => RowOK(orders[o]))
  BY RowsAreOK
<1>3. o \notin outdated => entity.version = orders[o].version
  BY <1>2, EditFacts DEF Edited
<1>4. orders[o].version <= orders[o].version
  BY <1>2 DEF OrderRows
<1>5. AtomicStart(call)
  <2> HIDE DEF call
  <2> QED
    BY <1>1, <1>3, <1>4 DEF AtomicStart, Emitting, CopyOK, CreationOK, Saving, Creating
<1> QED
  BY <1>5 DEF Save, AtomicStarts

LEMMA ReceiveIsAtomic ==
  ASSUME AtomicInv, NEW r \in OrderRequests, Receive(r)
  PROVE  AtomicStarts(r)
<1>1. ASSUME NEW op, NEW caller, NEW o,
             Forbid(r, op, caller) \/ FindFails(r, op, caller, o)
      PROVE  AtomicStarts(r)
  BY <1>1, AnswerIsAtomic DEF Forbid, FindFails
<1>2. ASSUME NEW caller, NEW o \in OrderIds, NEW i \in ItemIds,
             NEW q \in Quantities, AddItem(r, caller, o, i, q)
      PROVE  AtomicStarts(r)
  <2>1. CASE Answer(r, "addItem", "invalid")
    BY <2>1, AnswerIsAtomic
  <2>2. CASE /\ IsEditable(orders[o]) /\ HasRoom(orders[o])
             /\ Save(r, "addItem", o, WithItem(orders[o], i, q))
    <3>1. orders[o].life = "active" /\ orders[o].items[i] = 0
      BY <1>2 DEF AddItem, Found, FreshItem
    <3>2. EditOf("addItem", orders[o], WithItem(orders[o], i, q))
      BY <2>2, <3>1 DEF EditOf, ItemsOf
    <3> QED
      BY <2>2, <3>2, SaveIsAtomic
  <2> QED
    BY <1>2, <2>1, <2>2 DEF AddItem
<1>3. ASSUME NEW op, NEW caller, NEW o \in OrderIds, NEW i \in ItemIds, NEW q,
             ChangeItem(r, op, caller, o, i, q),
             \/ op = "updateItemQuantity" /\ q \in Quantities
             \/ op = "removeItem" /\ q = 0
      PROVE  AtomicStarts(r)
  <2>1. CASE Answer(r, op, "invalid") \/ Answer(r, op, "notFound")
    BY <2>1, AnswerIsAtomic
  <2>2. CASE /\ IsEditable(orders[o])
             /\ i \in ItemsOf(orders[o].items)
             /\ Save(r, op, o, WithItem(orders[o], i, q))
    <3>1. orders[o].life = "active"
      BY <1>3 DEF ChangeItem, Found
    <3>2. EditOf(op, orders[o], WithItem(orders[o], i, q))
      BY <1>3, <2>2, <3>1 DEF EditOf
    <3> QED
      BY <2>2, <3>2, SaveIsAtomic
  <2> QED
    BY <1>3, <2>1, <2>2 DEF ChangeItem
<1>4. ASSUME NEW op \in {"confirm", "cancel"}, NEW caller, NEW o \in OrderIds,
             NEW target \in OrderStatus, ChangeStatus(r, op, caller, o, target)
      PROVE  AtomicStarts(r)
  <2>1. CASE Answer(r, op, "invalid")
    BY <2>1, AnswerIsAtomic
  <2>2. CASE /\ ~Refused(orders[o], target)
             /\ Save(r, op, o, [orders[o] EXCEPT !.status = target])
    <3>1. orders[o].life = "active"
      BY <1>4 DEF ChangeStatus, Found
    <3>2. EditOf(op, orders[o], [orders[o] EXCEPT !.status = target])
      BY <2>2, <3>1 DEF EditOf
    <3> QED
      BY <2>2, <3>2, SaveIsAtomic
  <2> QED
    BY <1>4, <2>1, <2>2 DEF ChangeStatus
<1>5. ASSUME NEW caller, NEW o, Delete(r, caller, o)
      PROVE  AtomicStarts(r)
  <2> DEFINE call == [Idle EXCEPT !.pc = "deleting", !.op = "delete", !.order = o]
  <2>1. call.pc = "deleting"
    BY DEF Idle
  <2>2. AtomicStart(call)
    BY <2>1 DEF AtomicStart, Emitting, CopyOK, CreationOK, Saving, Creating
  <2> QED
    BY <1>5, <2>2 DEF Delete, AtomicStarts
<1>6. ASSUME NEW caller \in Callers, NEW c \in CustomerIds, NEW o,
             NEW items \in Items, Create(r, caller, c, o, items)
      PROVE  AtomicStarts(r)
  <2> DEFINE call == [Idle EXCEPT !.pc = "locking", !.op = "create",
                                  !.order = o,
                                  !.entity = NewOrder(c, caller, items)]
  <2>1. call.pc = "locking" /\ call.entity = NewOrder(c, caller, items)
    BY DEF Idle
  <2>2. Cardinality(ItemsOf(items)) <= MaxItems
    BY <1>6 DEF Create
  <2>3. AtomicStart(call)
    <3> HIDE DEF call
    <3> QED
      BY <2>1, <2>2 DEF AtomicStart, Emitting, CopyOK, CreationOK, Saving, Creating
  <2> QED
    BY <1>6, <2>3 DEF Create, AtomicStarts
<1>7. ASSUME NEW caller, NEW o \in OrderIds,
             Confirm(r, caller, o) \/ Cancel(r, caller, o)
      PROVE  AtomicStarts(r)
  BY <1>4, <1>7 DEF Confirm, Cancel, OrderStatus
<1>8. ASSUME NEW caller, NEW o \in OrderIds, NEW i \in ItemIds,
             \/ \E q \in Quantities : UpdateItemQuantity(r, caller, o, i, q)
             \/ RemoveItem(r, caller, o, i)
      PROVE  AtomicStarts(r)
  BY <1>3, <1>8 DEF UpdateItemQuantity, RemoveItem
<1> QED
  BY <1>1, <1>2, <1>5, <1>6, <1>7, <1>8 DEF Receive
-----------------------------------------------------------------------------
LEMMA AtomicReceive ==
  ASSUME AtomicInv, SafetyInv', NEW r \in OrderRequests, Receive(r)
  PROVE  AtomicInv' /\ RowsMove
<1>1. PICK call : AtomicStart(call) /\ calls' = [calls EXCEPT ![r] = call]
  BY ReceiveIsAtomic DEF AtomicStarts
<1>2. UNCHANGED <<orders, outdated, events>>
  BY ReceiveChangesCalls DEF dbVars
<1>3. calls'[r] = call /\ OnlyCall(r)
  BY <1>1 DEF OnlyCall, AtomicInv, SafetyInv, TypeInv, OrderTypeOK
<1>4. TableStep
  BY <1>2, TableSame
<1>5. /\ calls'[r].order \notin outdated' => CopyOK(calls'[r], orders')
      /\ CreationOK(calls'[r]) /\ ~Emitting(calls'[r])
  BY <1>1, <1>2, <1>3 DEF AtomicStart
<1>6. CopiesOK'
  BY <1>3, <1>4, <1>5, CopiesKept
<1>7. AnnouncementsOK'
  BY <1>2, <1>3, <1>4, <1>5, AnnouncementsKept
<1>8. AnnouncedOnce'
  BY <1>2, <1>3, <1>4, <1>5, OnceKept DEF TableStep
<1> QED
  BY <1>4, <1>6, <1>7, <1>8 DEF AtomicInv, TableStep

LEMMA AtomicCreateLocks ==
  ASSUME AtomicInv, SafetyInv', NEW r \in OrderRequests, CreateLocks(r)
  PROVE  AtomicInv' /\ RowsMove
<1>1. UNCHANGED <<orders, outdated, events>>
  BY DEF CreateLocks
<1>2. TableStep
  BY <1>1, TableSame
<1>3. CASE Finish(r, "notFound")
  BY <1>1, <1>2, <1>3, AtomicEnd DEF CreateLocks, InTransit, Phases, TableStep
<1>4. CASE Advance(r, "inserting")
  <2>1. OnlyCall(r)
    BY <1>4 DEF Advance, OnlyCall, AtomicInv, SafetyInv, TypeInv, OrderTypeOK
  <2>2. calls'[r].pc = "inserting" /\ calls'[r].entity = calls[r].entity
    BY <1>4 DEF Advance, AtomicInv, SafetyInv, TypeInv, OrderTypeOK, Calls
  <2>3. CreationOK(calls[r]) /\ Creating(calls[r])
    BY DEF AtomicInv, CopiesOK, CreateLocks, Creating
  <2>4. CopyOK(calls'[r], orders') /\ CreationOK(calls'[r])
    BY <2>2, <2>3 DEF CopyOK, CreationOK, Creating, Saving
  <2>5. ~Emitting(calls'[r])
    BY <2>2 DEF Emitting
  <2>6. CopiesOK'
    BY <1>2, <2>1, <2>4, CopiesKept
  <2>7. AnnouncementsOK'
    BY <1>1, <1>2, <2>1, <2>5, AnnouncementsKept
  <2>8. AnnouncedOnce'
    BY <1>1, <2>1, <2>5, OnceKept
  <2> QED
    BY <1>2, <2>6, <2>7, <2>8 DEF AtomicInv, TableStep
<1> QED
  BY <1>3, <1>4 DEF CreateLocks

LEMMA AtomicCreateInserts ==
  ASSUME AtomicInv, SafetyInv', NEW r \in OrderRequests, CreateInserts(r)
  PROVE  AtomicInv' /\ RowsMove
<1> DEFINE o == calls[r].order
           entity == calls[r].entity
<1>1. o \in OrderIds
  BY DEF CreateInserts, AtomicInv, SafetyInv, TypeInv, KeysOK, InTransit, Phases
<1>2. orders[o].life = "absent"
  BY DEF CreateInserts, AtomicInv, SafetyInv, SafeCalls, SafeCall, Creating
<1>3. PICK c \in CustomerIds, caller \in Callers, items \in Items :
        /\ entity = NewOrder(c, caller, items)
        /\ Cardinality(ItemsOf(items)) <= MaxItems
  BY DEF CreateInserts, AtomicInv, CopiesOK, CreationOK, Creating
<1>4. o \notin outdated' => RowMoves(orders[o], entity) /\ RowOK(entity)
  BY <1>1, <1>2, <1>3, RowsAreOK, InsertionMoves DEF CreateInserts
<1>5. TableStep
  BY <1>1, <1>4, TableWritten DEF CreateInserts
<1> QED
  BY <1>5, AtomicEnd DEF CreateInserts, InTransit, Phases, TableStep

LEMMA AtomicSaveReads ==
  ASSUME AtomicInv, SafetyInv', NEW r \in OrderRequests, SaveReads(r)
  PROVE  AtomicInv' /\ RowsMove
<1> DEFINE o == calls[r].order
<1>1. UNCHANGED <<orders, outdated, events>>
  BY DEF SaveReads, dbVars
<1>2. TableStep
  BY <1>1, TableSame
<1>3. /\ calls'[r] = [calls[r] EXCEPT !.pc = "writing", !.loaded = orders[o]]
      /\ OnlyCall(r)
  BY DEF SaveReads, OnlyCall, AtomicInv, SafetyInv, TypeInv, OrderTypeOK
<1>4. /\ calls'[r].pc = "writing" /\ calls'[r].loaded = orders[o]
      /\ calls'[r].order = o /\ calls'[r].op = calls[r].op
      /\ calls'[r].entity = calls[r].entity /\ calls'[r].from = calls[r].from
  BY <1>3 DEF AtomicInv, SafetyInv, TypeInv, OrderTypeOK, Calls
<1>5. (o \notin outdated => CopyOK(calls[r], orders)) /\ Saving(calls[r])
  BY DEF SaveReads, Saving, AtomicInv, CopiesOK
<1>6. o \in OrderIds
  BY DEF SaveReads, AtomicInv, SafetyInv, TypeInv, KeysOK, InTransit, Phases
<1>7. orders[o].version <= orders[o].version
  BY <1>6, RowsAreOK DEF OrderRows
<1>8. o \notin outdated' => CopyOK(calls'[r], orders')
  BY <1>1, <1>4, <1>5, <1>7 DEF CopyOK, Saving
<1>9. ~Emitting(calls'[r]) /\ CreationOK(calls'[r])
  BY <1>4 DEF Emitting, CreationOK, Creating
<1>10. CopiesOK'
  BY <1>2, <1>3, <1>4, <1>8, <1>9, CopiesKept
<1>11. AnnouncementsOK'
  BY <1>1, <1>2, <1>3, <1>9, AnnouncementsKept
<1>12. AnnouncedOnce'
  BY <1>1, <1>3, <1>9, OnceKept
<1> QED
  BY <1>2, <1>10, <1>11, <1>12 DEF AtomicInv, TableStep

LEMMA AtomicSaveWrites ==
  ASSUME AtomicInv, SafetyInv', NEW r \in OrderRequests, SaveWrites(r)
  PROVE  AtomicInv' /\ RowsMove
<1> DEFINE o == calls[r].order
           op == calls[r].op
           entity == calls[r].entity
           row == orders[o]
           new == [entity EXCEPT !.version = @ + 1]
<1>1. calls[r].pc \in InTransit /\ UNCHANGED events
  BY DEF SaveWrites, InTransit, Phases
<1>2. CASE UNCHANGED <<orders, outdated>> /\ \E result \in Results : Finish(r, result)
  BY <1>1, <1>2, TableSame, AtomicEnd DEF TableStep
<1>3. CASE EditSaved(r)
  <2>1. o \in OrderIds
    BY <1>1 DEF AtomicInv, SafetyInv, TypeInv, KeysOK
  <2>2. row \in OrderRows /\ RowOK(row)
    BY <1>3, <2>1, RowsAreOK DEF EditSaved
  <2>3. Edited(op, row, entity) /\ op # "removeItem"
    BY <1>3, <2>2, EditFacts DEF EditSaved
  <2>4. /\ orders' = [orders EXCEPT ![o] = new]
        /\ o \notin outdated /\ UNCHANGED outdated
    BY <1>3 DEF EditSaved
  <2>5. RowMoves(row, new) /\ RowOK(new)
    BY <2>2, <2>3, EditMoves
  <2>6. TableStep
    <3> HIDE DEF new
    <3> QED
      BY <2>1, <2>4, <2>5, TableWritten
  <2>7. CASE Finish(r, "ok")
    BY <1>1, <2>6, <2>7, AtomicEnd DEF TableStep
  <2>8. CASE op \in {"confirm", "cancel"} /\ Advance(r, "emitting")
    <3>1. OnlyCall(r)
      BY <2>8 DEF Advance, OnlyCall, AtomicInv, SafetyInv, TypeInv, OrderTypeOK
    <3>2. /\ calls'[r].pc = "emitting" /\ calls'[r].order = o
          /\ calls'[r].entity = entity
      BY <2>8 DEF Advance, AtomicInv, SafetyInv, TypeInv, OrderTypeOK, Calls
    <3>3. CopyOK(calls'[r], orders') /\ CreationOK(calls'[r])
      BY <3>2 DEF CopyOK, CreationOK, Saving, Creating
    <3>4. orders'[o].status = entity.status /\ orders'[o].total = entity.total
      BY <2>1, <2>3, <2>4 DEF Edited, OrderRows, AtomicInv, SafetyInv, TypeInv,
                              OrderTypeOK, DatabaseTypeOK
    <3>5. /\ CanTransition(row.status, entity.status)
          /\ row.status \in OrderStatus /\ entity.status \in OrderStatus
      BY <2>2, <2>3, <2>8 DEF Edited, OrderRows
    <3>6. Announced(orders'[o], entity.status, entity.total)
      BY <3>4, <3>5, Transitions DEF Announced
    <3>7. \A total : ~Announced(row, entity.status, total)
      BY <3>5, Transitions DEF Announced
    <3>8. CopiesOK'
      BY <2>6, <3>1, <3>3, CopiesKept
    <3>9. AnnouncementsOK'
      BY <1>1, <2>6, <3>1, <3>2, <3>6, AnnouncementsKept
    <3>12. ASSUME NEW s \in OrderRequests, Emitting(calls[s]), calls[s].order = o
           PROVE  calls[s].entity.status # entity.status
      BY <2>4, <3>7, <3>12 DEF AtomicInv, AnnouncementsOK
    <3>13. ASSUME NEW e \in events, e.order = o
           PROVE  e.to # entity.status
      BY <2>4, <3>7, <3>13 DEF AtomicInv, AnnouncementsOK
    <3>14. AnnouncedOnce'
      BY <1>1, <2>4, <3>1, <3>2, <3>12, <3>13, OnceKept
    <3> QED
      BY <2>6, <3>8, <3>9, <3>14 DEF AtomicInv, TableStep
  <2> QED
    BY <1>3, <2>7, <2>8 DEF EditSaved
<1>4. CASE Overwrote(r)
  <2>1. o \in OrderIds
    BY <1>1 DEF AtomicInv, SafetyInv, TypeInv, KeysOK
  <2>2. TableStep /\ o \in outdated'
    BY <1>4, <2>1, TableWritten DEF Overwrote
  <2>3. CASE Finish(r, "ok")
    BY <1>1, <2>2, <2>3, AtomicEnd DEF TableStep
  <2>4. CASE Advance(r, "emitting")
    <3>1. OnlyCall(r)
      BY <2>4 DEF Advance, OnlyCall, AtomicInv, SafetyInv, TypeInv, OrderTypeOK
    <3>2. calls'[r].pc = "emitting" /\ calls'[r].order = o
      BY <2>4 DEF Advance, AtomicInv, SafetyInv, TypeInv, OrderTypeOK, Calls
    <3>3. CreationOK(calls'[r])
      BY <3>2 DEF CreationOK, Creating
    <3>4. CopiesOK'
      BY <2>2, <3>1, <3>2, <3>3, CopiesKept
    <3>5. AnnouncementsOK'
      BY <1>1, <2>2, <3>1, <3>2, AnnouncementsKept
    <3>6. AnnouncedOnce'
      BY <1>1, <2>2, <3>1, <3>2, OnceKept DEF TableStep
    <3> QED
      BY <2>2, <3>4, <3>5, <3>6 DEF AtomicInv, TableStep
  <2> QED
    BY <1>4, <2>2, <2>3, <2>4 DEF Overwrote, TableStep
<1> QED
  BY <1>2, <1>3, <1>4, SaveTakesEffect

LEMMA AtomicSoftDelete ==
  ASSUME AtomicInv, SafetyInv', NEW r \in OrderRequests, SoftDelete(r)
  PROVE  AtomicInv' /\ RowsMove
<1> DEFINE o == calls[r].order
<1>1. o \in OrderIds
  BY DEF SoftDelete, AtomicInv, SafetyInv, TypeInv, KeysOK, InTransit, Phases
<1>2. orders[o].life # "absent"
  BY DEF SoftDelete, AtomicInv, SafetyInv, SafeCalls, SafeCall
<1>3. o \notin outdated =>
        RowMoves(orders[o], SoftDeleted(orders[o])) /\ RowOK(SoftDeleted(orders[o]))
  BY <1>1, <1>2, RowsAreOK, DeletionMoves
<1>4. TableStep
  BY <1>1, <1>3, TableWritten DEF SoftDelete
<1> QED
  BY <1>4, AtomicEnd DEF SoftDelete, InTransit, Phases, TableStep

LEMMA AtomicEmit ==
  ASSUME AtomicInv, SafetyInv', NEW r \in OrderRequests, Emit(r)
  PROVE  AtomicInv' /\ RowsMove
<1> DEFINE event == [request |-> r, order |-> calls[r].order,
                     from |-> calls[r].from, to |-> calls[r].entity.status,
                     total |-> calls[r].entity.total]
<1>1. /\ UNCHANGED <<orders, outdated>> /\ events' = events \cup {event}
      /\ Finish(r, "ok") /\ Emitting(calls[r])
  BY DEF Emit, dbVars, Emitting
<1>2. TableStep
  BY <1>1, TableSame
<1>3. calls'[r].pc = "done" /\ OnlyCall(r)
  BY <1>1 DEF Finish, Answer, Idle, OnlyCall, AtomicInv, SafetyInv, TypeInv, OrderTypeOK
<1>4. /\ CopyOK(calls'[r], orders') /\ CreationOK(calls'[r])
      /\ ~Emitting(calls'[r])
  BY <1>3 DEF CopyOK, CreationOK, Saving, Creating, Emitting
<1>5. CopiesOK'
  BY <1>2, <1>3, <1>4, CopiesKept
<1>6. event.order \notin outdated => Announced(orders[event.order], event.to, event.total)
  BY <1>1 DEF AtomicInv, AnnouncementsOK
<1>7. AnnouncementsOK'
  <2>1. \A e \in events' :
          \/ e \in events
          \/ e.order \notin outdated' => Announced(orders'[e.order], e.to, e.total)
    BY <1>1, <1>6
  <2> QED
    BY <1>2, <1>3, <1>4, <2>1, AnnouncementsKept
<1>10. ASSUME NEW e \in events, event.order \notin outdated
       PROVE  e.order # event.order \/ e.to # event.to
  BY <1>1, <1>10 DEF AtomicInv, AnnouncedOnce
<1>11. RepeatedOnlyByOverwrites'
  BY <1>1, <1>10 DEF AtomicInv, AnnouncedOnce, RepeatedOnlyByOverwrites
<1>12. ASSUME NEW s \in OrderRequests, Emitting(calls'[s]), calls'[s].order \notin outdated
       PROVE  /\ s # r /\ calls'[s] = calls[s] /\ Emitting(calls[s])
              /\ calls[s].order # event.order \/ calls[s].entity.status # event.to
  <2>1. s # r /\ calls'[s] = calls[s]
    BY <1>3, <1>4, <1>12 DEF OnlyCall
  <2> QED
    BY <1>1, <1>12, <2>1 DEF AtomicInv, AnnouncedOnce
<1>13. AnnouncedOnce'
  <2>1. ASSUME NEW p \in OrderRequests, NEW q \in OrderRequests,
               Emitting(calls'[p]), Emitting(calls'[q]),
               calls'[p].order = calls'[q].order, calls'[p].order \notin outdated,
               calls'[p].entity.status = calls'[q].entity.status
        PROVE  p = q
    BY <1>12, <2>1 DEF AtomicInv, AnnouncedOnce
  <2>2. ASSUME NEW p \in OrderRequests, NEW e \in events', Emitting(calls'[p]),
               calls'[p].order \notin outdated
        PROVE  calls'[p].order # e.order \/ calls'[p].entity.status # e.to
    BY <1>1, <1>12, <2>2 DEF AtomicInv, AnnouncedOnce
  <2> QED
    BY <1>1, <1>11, <2>1, <2>2 DEF AnnouncedOnce
<1> QED
  BY <1>2, <1>5, <1>7, <1>13 DEF AtomicInv, TableStep

LEMMA AtomicCrash ==
  ASSUME AtomicInv, SafetyInv', NEW r \in OrderRequests, Crash(r)
  PROVE  AtomicInv' /\ RowsMove
<1>1. TableStep
  BY TableSame DEF Crash
<1> QED
  BY <1>1, AtomicEnd DEF Crash, TableStep

LEMMA AtomicInit == OrderInit => AtomicInv
<1> SUFFICES ASSUME OrderInit
             PROVE  AtomicInv
  OBVIOUS
<1>1. SafetyInv
  BY SafetyInit
<1>2. /\ \A r \in OrderRequests : calls[r].pc = "idle"
      /\ \A o \in OrderIds : orders[o] = NoOrder
      /\ events = {}
  BY DEF OrderInit, CallsInit, DatabaseInit, Idle
<1>3. NoOrder.total = Total(NoOrder.items) /\ Cardinality(ItemsOf(NoOrder.items)) <= MaxItems
  <2>1. ItemsOf(NoItems) = {}
    BY DEF ItemsOf, NoItems
  <2>2. Cardinality(ItemsOf(NoItems)) = 0
    BY <2>1, FS_EmptySet
  <2> QED
    BY <2>2, DomainAssumption DEF NoOrder
<1>4. RowsOK
  BY <1>2, <1>3 DEF RowsOK, RowOK
<1>5. CopiesOK
  BY <1>2 DEF CopiesOK, CopyOK, CreationOK, Saving, Creating
<1>6. AnnouncementsOK /\ AnnouncedOnce
  BY <1>2 DEF AnnouncementsOK, AnnouncedOnce, RepeatedOnlyByOverwrites, Emitting
<1> QED
  BY <1>1, <1>4, <1>5, <1>6 DEF AtomicInv

LEMMA AtomicNext ==
  ASSUME AtomicInv, [OrderNext]_osVars
  PROVE  AtomicInv' /\ RowsMove
<1>1. SafetyInv'
  BY SafetyNext DEF AtomicInv
<1>2. CASE UNCHANGED osVars
  <2>1. UNCHANGED <<orders, outdated, calls, events>>
    BY <1>2 DEF osVars, dbVars, orderVars
  <2>2. TableStep
    BY <2>1, TableSame
  <2>3. CopiesOK' /\ AnnouncementsOK' /\ AnnouncedOnce'
    BY <2>1 DEF AtomicInv, CopiesOK, AnnouncementsOK, AnnouncedOnce,
                RepeatedOnlyByOverwrites
  <2> QED
    BY <1>1, <2>2, <2>3 DEF AtomicInv, TableStep
<1> SUFFICES ASSUME NEW r \in OrderRequests,
                    Receive(r) \/ Continue(r) \/ Crash(r)
             PROVE  AtomicInv' /\ RowsMove
  BY <1>2 DEF OrderNext
<1> QED
  BY <1>1, AtomicReceive, AtomicCreateLocks, AtomicCreateInserts, AtomicSaveReads,
     AtomicSaveWrites, AtomicSoftDelete, AtomicEmit, AtomicCrash DEF Continue

LEMMA AtomicAlways == OrderSpec => []AtomicInv
<1>1. AtomicInv /\ [OrderNext]_osVars => AtomicInv'
  BY AtomicNext
<1> QED
  BY <1>1, AtomicInit, PTL DEF OrderSpec
-----------------------------------------------------------------------------
(* The variables of OrderAggregate, as OrderService implements them. *)
Mapped == <<[o \in OrderIds |-> Visible(orders[o])], outdated>>

(* The operators of OrderAggregate are those of OrderService. *)
LEMMA SameOperators ==
  /\ \A items : Aggregate!Total(items) = Total(items)
  /\ \A items : Aggregate!ItemsOf(items) = ItemsOf(items)
  /\ \A row : Aggregate!Visible(row) = Visible(row)
  /\ \A row : Aggregate!IsEditable(row) <=> IsEditable(row)
  /\ \A row : Aggregate!HasRoom(row) <=> HasRoom(row)
  /\ \A from, to : Aggregate!CanTransition(from, to) <=> CanTransition(from, to)
  /\ Aggregate!NoItems = NoItems
<1>1. \A items : Aggregate!Total(items) = Total(items)
  BY Zenon DEF Aggregate!Total, Total, MapThenSumSet, MapThenFoldSet,
               Aggregate!MapThenSumSet, Aggregate!MapThenFoldSet
<1>2. /\ \A items : Aggregate!ItemsOf(items) = ItemsOf(items)
      /\ Aggregate!NoItems = NoItems
  BY DEF Aggregate!ItemsOf, ItemsOf, Aggregate!NoItems, NoItems
<1>3. \A row : Aggregate!Visible(row) = Visible(row)
  BY DEF Aggregate!Visible, Visible
<1>4. /\ \A row : Aggregate!IsEditable(row) <=> IsEditable(row)
      /\ \A row : Aggregate!HasRoom(row) <=> HasRoom(row)
  <2>1. \A row : Aggregate!IsEditable(row) <=> IsEditable(row)
    BY DEF Aggregate!IsEditable, IsEditable
  <2>2. \A row : Aggregate!HasRoom(row) <=> HasRoom(row)
    BY <1>2, Zenon DEF Aggregate!HasRoom, HasRoom, Aggregate!Cardinality, Cardinality
  <2> QED
    BY <2>1, <2>2
<1>5. \A from, to : Aggregate!CanTransition(from, to) <=> CanTransition(from, to)
  BY DEF Aggregate!CanTransition, CanTransition, Aggregate!AllowedTransitions,
         AllowedTransitions
<1> QED
  BY <1>1, <1>2, <1>3, <1>4, <1>5

(* The copy that the order of the abstract specification has of a row. *)
LEMMA VisibleFields ==
  ASSUME NEW row
  PROVE  /\ Visible(row).life = row.life /\ Visible(row).status = row.status
         /\ Visible(row).items = row.items
         /\ IsEditable(Visible(row)) <=> IsEditable(row)
         /\ HasRoom(Visible(row)) <=> HasRoom(row)
BY DEF Visible, IsEditable, HasRoom

(* What an edit of a row, whatever its version, is to the aggregate. *)
LEMMA VisibleItemEdit ==
  ASSUME NEW row, NEW i, NEW q, NEW new,
         new.life = row.life, new.customer = row.customer,
         new.createdBy = row.createdBy, new.status = row.status,
         new.items = [row.items EXCEPT ![i] = q], new.total = Total(new.items)
  PROVE  Visible(new) = Aggregate!WithItem(Visible(row), i, q)
<1> DEFINE items == [row.items EXCEPT ![i] = q]
           record(t) == [life |-> row.life, customer |-> row.customer,
                         createdBy |-> row.createdBy, status |-> row.status,
                         items |-> items, total |-> t]
<1>1. Aggregate!WithItem(Visible(row), i, q)
        = [Visible(row) EXCEPT !.items = items, !.total = Total(items)]
  BY SameOperators DEF Aggregate!WithItem, Visible
<1>2. Visible(new) = record(Total(items))
  BY DEF Visible
<1> HIDE DEF items
<1>3. [Visible(row) EXCEPT !.items = items] = record(row.total)
  BY DEF Visible
<1>4. [record(row.total) EXCEPT !.total = Total(items)] = record(Total(items))
  OBVIOUS
<1>5. [Visible(row) EXCEPT !.items = items, !.total = Total(items)]
        = [[Visible(row) EXCEPT !.items = items] EXCEPT !.total = Total(items)]
  OBVIOUS
<1> HIDE DEF record
<1> QED
  BY <1>1, <1>2, <1>3, <1>4, <1>5

WithStatus(order, status) == [order EXCEPT !.status = status]

LEMMA VisibleStatusEdit ==
  ASSUME NEW row, NEW target, NEW new,
         new.life = row.life, new.customer = row.customer,
         new.createdBy = row.createdBy, new.status = target,
         new.items = row.items, new.total = row.total
  PROVE  Visible(new) = WithStatus(Visible(row), target)
BY DEF Visible, WithStatus

LEMMA RowBecomes ==
  ASSUME orders \in [OrderIds -> OrderRows], NEW o \in OrderIds, NEW new,
         orders' = [orders EXCEPT ![o] = new]
  PROVE  Aggregate!Become(o, Visible(new))
BY DEF Aggregate!Become

(* Every operation of OrderService is, when it takes effect, one operation  *)
(* of OrderAggregate on the row as it is.                                   *)
LEMMA EditRefines ==
  ASSUME AtomicInv, NEW r \in OrderRequests, EditSaved(r), SaveWrites(r)
  PROVE  Aggregate!AggregateNext /\ UNCHANGED outdated
<1> DEFINE o == calls[r].order
           op == calls[r].op
           entity == calls[r].entity
           row == orders[o]
<1>1. o \in OrderIds
  BY DEF SaveWrites, AtomicInv, SafetyInv, TypeInv, KeysOK, InTransit, Phases
<1>2. orders \in [OrderIds -> OrderRows]
  BY DEF AtomicInv, SafetyInv, TypeInv, OrderTypeOK, DatabaseTypeOK
<1>3. /\ EditOf(op, row, entity) /\ op # "removeItem"
      /\ o \notin outdated /\ UNCHANGED outdated
      /\ orders' = [orders EXCEPT ![o] = [entity EXCEPT !.version = entity.version + 1]]
  BY DEF EditSaved
<1>4. Aggregate!Become(o, Visible([entity EXCEPT !.version = entity.version + 1]))
  BY <1>1, <1>2, <1>3, RowBecomes
<1>5. row \in OrderRows /\ row.life = "active" /\ Aggregate!IsActive(o)
  BY <1>1, <1>2, <1>3 DEF EditOf, Aggregate!IsActive, Visible
<1> DEFINE new == [entity EXCEPT !.version = entity.version + 1]
<1>6. RowOK(row) /\ Edited(op, row, entity)
  BY <1>1, <1>3, <1>5, RowsAreOK, EditFacts
<1>7. /\ new.life = row.life /\ new.customer = row.customer
      /\ new.createdBy = row.createdBy /\ new.status = entity.status
      /\ new.items = entity.items /\ new.total = entity.total
  BY <1>6 DEF Edited, OrderRows
<1>8. Aggregate!Become(o, Visible(new))
  BY <1>4
<1> HIDE DEF new
<1>9. ASSUME NEW i \in ItemIds, NEW q \in Quantities, IsEditable(row),
             i \notin ItemsOf(row.items) => HasRoom(row),
             entity = WithItem(row, i, q)
      PROVE  Aggregate!AggregateNext
  <2>1. Aggregate!Become(o, Aggregate!WithItem(Visible(row), i, q))
    <3>1. ItemEdited(row, i, q, entity)
      BY <1>5, <1>9, <1>6, ItemEdit
    <3>2. Visible(new) = Aggregate!WithItem(Visible(row), i, q)
      BY <1>7, <3>1, VisibleItemEdit DEF ItemEdited
    <3> QED
      BY <1>8, <3>2
  <2>2. /\ Aggregate!IsEditable(Visible(row))
        /\ i \notin Aggregate!ItemsOf(Visible(row).items)
             => Aggregate!HasRoom(Visible(row))
    BY <1>9, SameOperators, VisibleFields
  <2>3. Aggregate!ItemAdded(o, i, q) \/ Aggregate!QuantityUpdated(o, i, q)
    BY <1>1, <1>5, <2>1, <2>2 DEF Aggregate!ItemAdded, Aggregate!QuantityUpdated
  <2> QED
    BY <1>1, <1>3, <2>3 DEF Aggregate!AggregateNext, Aggregate!AtomicOperation
<1>10. ASSUME NEW target \in OrderStatus, ~Refused(row, target),
             entity = [row EXCEPT !.status = target]
      PROVE  Aggregate!AggregateNext
  <2>1. Aggregate!Become(o, [Visible(row) EXCEPT !.status = target])
    <3>1. /\ entity.status = target /\ entity.items = row.items
          /\ entity.total = row.total
      BY <1>5, <1>10 DEF OrderRows
    <3>2. Visible(new) = WithStatus(Visible(row), target)
      BY <1>7, <3>1, VisibleStatusEdit
    <3> QED
      BY <1>8, <3>2 DEF WithStatus
  <2>2. /\ Aggregate!CanTransition(Visible(row).status, target)
        /\ target = "CONFIRMED" => Visible(row).items # Aggregate!NoItems
    BY <1>10, SameOperators, VisibleFields DEF Refused
  <2>3. Aggregate!StatusChanged(o, target)
    BY <1>1, <1>5, <2>1, <2>2 DEF Aggregate!StatusChanged
  <2> QED
    BY <1>1, <1>3, <2>3 DEF Aggregate!AggregateNext, Aggregate!AtomicOperation,
                            Aggregate!OrderStatus, OrderStatus
<1> QED
  BY <1>3, <1>9, <1>10 DEF EditOf

(* A save of an older copy does what OrderAggregate says it may. *)
LEMMA OverwriteRefines ==
  ASSUME AtomicInv, SafetyInv', NEW r \in OrderRequests, Overwrote(r), SaveWrites(r)
  PROVE  Aggregate!AggregateNext
<1> DEFINE o == calls[r].order
           entity == calls[r].entity
           loaded == calls[r].loaded
           row == orders[o]
           new == Written(entity, loaded, row)
<1>1. o \in OrderIds
  BY DEF SaveWrites, AtomicInv, SafetyInv, TypeInv, KeysOK, InTransit, Phases
<1>2. /\ orders \in [OrderIds -> OrderRows]
      /\ entity \in OrderRows /\ loaded \in OrderRows /\ row \in OrderRows
  BY <1>1 DEF AtomicInv, SafetyInv, TypeInv, OrderTypeOK, DatabaseTypeOK, Calls
<1>3. /\ orders' = [orders EXCEPT ![o] = new] /\ orders'[o] = new
      /\ outdated' = outdated \cup {o}
      /\ Orphaned(entity, loaded) = {}
  BY <1>1, <1>2 DEF Overwrote
<1>4. row.life # "absent" /\ entity.life # "absent"
  BY DEF SaveWrites, AtomicInv, SafetyInv, SafeCalls, SafeCall, Saving
<1>5. RowGrows(row, new)
  BY <1>2, <1>3, <1>4, WrittenGrows
<1>6. new.status = "CONFIRMED" => new.items # NoItems
  BY <1>1, <1>3 DEF SafetyInv, ConfirmedOrdersHaveItems
<1>7. new.customer = row.customer /\ new.createdBy = row.createdBy
  BY <1>2 DEF Written, OrderRows
<1> HIDE DEF new
<1>8. Aggregate!Become(o, Visible(new))
  BY <1>1, <1>2, <1>3, RowBecomes
<1> DEFINE old == Visible(row)
           now == Visible(new)
<1>9. /\ old.life # "absent" /\ now.life # "absent"
      /\ now.customer = old.customer /\ now.createdBy = old.createdBy
      /\ Aggregate!ItemsOf(old.items) \subseteq Aggregate!ItemsOf(now.items)
      /\ now.status = "CONFIRMED" => now.items # Aggregate!NoItems
  BY <1>4, <1>5, <1>6, <1>7, SameOperators DEF RowGrows, Visible
<1>10. /\ [p \in OrderIds |-> Visible(orders[p])][o] = old
       /\ [p \in OrderIds |-> Visible(orders'[p])][o] = now
  BY <1>1, <1>3
<1> HIDE DEF old, now
<1>11. Aggregate!Overwritten(o)
  BY <1>3, <1>8, <1>9, <1>10 DEF Aggregate!Overwritten, now
<1> QED
  BY <1>1, <1>11 DEF Aggregate!AggregateNext

LEMMA DeletionRefines ==
  ASSUME AtomicInv, NEW r \in OrderRequests, SoftDelete(r)
  PROVE  Aggregate!AggregateNext \/ UNCHANGED Mapped
<1> DEFINE o == calls[r].order
           row == orders[o]
<1>1. o \in OrderIds
  BY DEF SoftDelete, AtomicInv, SafetyInv, TypeInv, KeysOK, InTransit, Phases
<1>2. orders \in [OrderIds -> OrderRows]
  BY DEF AtomicInv, SafetyInv, TypeInv, OrderTypeOK, DatabaseTypeOK
<1>3. Aggregate!Become(o, Visible(SoftDeleted(row)))
  BY <1>1, <1>2, RowBecomes DEF SoftDelete
<1>4. Visible(SoftDeleted(row)) = [Visible(row) EXCEPT !.life = "deleted"]
  BY <1>1, <1>2 DEF SoftDeleted, Visible, OrderRows
<1>5. row.life = "active" \/ row.life = "deleted"
  BY <1>1, <1>2 DEF SoftDelete, AtomicInv, SafetyInv, SafeCalls, SafeCall,
                    OrderRows, Lives
<1>6. CASE row.life = "active"
  <2>1. Aggregate!IsActive(o)
    BY <1>1, <1>6, VisibleFields DEF Aggregate!IsActive
  <2>2. Aggregate!Deleted(o)
    BY <1>1, <1>3, <1>4, <2>1 DEF Aggregate!Deleted
  <2> QED
    BY <1>1, <2>2 DEF Aggregate!AggregateNext, Aggregate!AtomicOperation, SoftDelete
<1>7. CASE row.life = "deleted"
  <2>1. [Visible(row) EXCEPT !.life = "deleted"] = Visible(row)
    BY <1>7 DEF Visible
  <2> QED
    BY <1>1, <1>3, <1>4, <2>1 DEF Aggregate!Become, Mapped, SoftDelete
<1> QED
  BY <1>5, <1>6, <1>7

LEMMA InsertionRefines ==
  ASSUME AtomicInv, NEW r \in OrderRequests, CreateInserts(r)
  PROVE  Aggregate!AggregateNext
<1> DEFINE o == calls[r].order
<1>1. o \in OrderIds
  BY DEF CreateInserts, AtomicInv, SafetyInv, TypeInv, KeysOK, InTransit, Phases
<1>2. orders[o].life = "absent"
  BY DEF CreateInserts, AtomicInv, SafetyInv, SafeCalls, SafeCall, Creating
<1>3. PICK c \in CustomerIds, caller \in Callers, items \in Items :
        /\ calls[r].entity = NewOrder(c, caller, items)
        /\ Cardinality(ItemsOf(items)) <= MaxItems
  BY DEF CreateInserts, AtomicInv, CopiesOK, CreationOK, Creating
<1>4. Aggregate!Become(o, Visible(NewOrder(c, caller, items)))
  BY <1>1, <1>3, RowBecomes
  DEF CreateInserts, AtomicInv, SafetyInv, TypeInv, OrderTypeOK, DatabaseTypeOK
<1>5. Aggregate!NewOrder(c, caller, items) = NewOrder(c, caller, items)
  BY SameOperators DEF Aggregate!NewOrder, NewOrder
<1>6. Aggregate!Cardinality(Aggregate!ItemsOf(items)) = Cardinality(ItemsOf(items))
  BY SameOperators, Zenon DEF Aggregate!Cardinality, Cardinality
<1>7. Visible(orders[o]).life = "absent"
  BY <1>2, VisibleFields
<1>8. Aggregate!Created(o, c, caller, items)
  BY <1>1, <1>3, <1>4, <1>5, <1>6, <1>7, SameOperators DEF Aggregate!Created
<1> QED
  BY <1>1, <1>8 DEF Aggregate!AggregateNext, Aggregate!AtomicOperation,
                    Aggregate!Items, Items, CreateInserts

LEMMA RefinementStep ==
  ASSUME AtomicInv, [OrderNext]_osVars
  PROVE  Aggregate!AggregateNext \/ UNCHANGED Mapped
<1>1. CASE UNCHANGED <<orders, outdated>>
  BY <1>1 DEF Mapped
<1>2. CASE ~UNCHANGED <<orders, outdated>>
  <2>1. PICK r \in OrderRequests : Receive(r) \/ Continue(r) \/ Crash(r)
    BY <1>2 DEF OrderNext, osVars, dbVars
  <2>2. ~Receive(r)
    BY <1>2, ReceiveChangesCalls DEF dbVars
  <2>3. CreateInserts(r) \/ SaveWrites(r) \/ SoftDelete(r)
    BY <1>2, <2>1, <2>2
    DEF Continue, CreateLocks, SaveReads, Emit, Crash, dbVars
  <2>4. SafetyInv'
    BY SafetyNext DEF AtomicInv
  <2> QED
    BY <1>2, <2>3, <2>4, InsertionRefines, SaveTakesEffect, EditRefines,
       OverwriteRefines, DeletionRefines
<1> QED
  BY <1>1, <1>2

LEMMA RefinementInit == OrderInit => Aggregate!AggregateInit
<1>1. Aggregate!NoOrder = NoOrder
  BY SameOperators DEF Aggregate!NoOrder, NoOrder
<1> QED
  BY <1>1, SameOperators DEF OrderInit, DatabaseInit, Aggregate!AggregateInit
-----------------------------------------------------------------------------
(* OrderService implements OrderAggregate, whatever requests are in flight: *)
(* each operation takes effect on the stored row in one step, with its      *)
(* guards true of that row, or not at all, until a save overwrites a        *)
(* version it has not read, and then the row stays what Overwritten says.   *)
THEOREM RefinementCorrect == OrderSpec => RefinesAggregate
<1>1. AtomicInv /\ [OrderNext]_osVars => [Aggregate!AggregateNext]_Mapped
  BY RefinementStep
<1> QED
  BY <1>1, RefinementInit, AtomicAlways, PTL
  DEF OrderSpec, RefinesAggregate, Aggregate!AggregateSpec, Mapped

(* The stored total is the sum of the stored items, and the items are       *)
(* within MAX_ITEMS_PER_ORDER, of every order of which no save overwrote a  *)
(* version it had not read: nothing but such a save breaks either rule.     *)
THEOREM RowsTrueUnlessOverwritten == OrderSpec => []RulesBrokenOnlyByOverwrites
<1>1. AtomicInv => RulesBrokenOnlyByOverwrites
  BY DEF AtomicInv, RowsOK, RowOK, RulesBrokenOnlyByOverwrites
<1> QED
  BY <1>1, AtomicAlways, PTL

(* Every event announces a status the order really reached, with the total  *)
(* it has had since, unless a save overwrote a version it had not read.     *)
THEOREM EventsAreTrue == OrderSpec => []EventsMatchOrders
<1>1. AtomicInv => EventsMatchOrders
  BY DEF AtomicInv, AnnouncementsOK, Announced, EventsMatchOrders
<1> QED
  BY <1>1, AtomicAlways, PTL

(* A transition is announced twice only of an order some save of which      *)
(* overwrote a version it had not read.                                     *)
THEOREM EventsOnce == OrderSpec => []RepeatedOnlyByOverwrites
<1>1. AtomicInv => RepeatedOnlyByOverwrites
  BY DEF AtomicInv, AnnouncedOnce
<1> QED
  BY <1>1, AtomicAlways, PTL

(* A step leaves ALLOWED_TRANSITIONS, changes the items or the total of an  *)
(* order that has left OPEN, or brings a deleted order back, only if it is  *)
(* the save of an older copy, or one after such a save of the same order.   *)
THEOREM RowsMoveUnlessOverwritten == OrderSpec => MovesBrokenOnlyByOverwrites
<1>1. AtomicInv /\ [OrderNext]_osVars
        => [\A o \in OrderIds \ outdated' :
              /\ \/ orders'[o].status = orders[o].status
                 \/ CanTransition(orders[o].status, orders'[o].status)
              /\ orders[o].status # "OPEN" =>
                   /\ orders'[o].items = orders[o].items
                   /\ orders'[o].total = orders[o].total
              /\ orders[o].life = "deleted" => orders'[o].life = "deleted"]_osVars
  BY AtomicNext DEF RowsMove, RowMoves
<1> QED
  BY <1>1, AtomicAlways, PTL DEF OrderSpec, MovesBrokenOnlyByOverwrites

(* Every write increments the version of the order, as long as no save      *)
(* overwrites a version it has not read: a copy that has the version of the *)
(* row is a copy of the row.                                                *)
THEOREM VersionsOnlyGrow == OrderSpec => VersionsGrow
<1>1. AtomicInv /\ [OrderNext]_osVars
        => [\A o \in OrderIds \ outdated' :
              orders'[o] # orders[o] => orders'[o].version > orders[o].version]_osVars
  BY AtomicNext DEF RowsMove, RowMoves
<1> QED
  BY <1>1, AtomicAlways, PTL DEF OrderSpec, VersionsGrow
=============================================================================
