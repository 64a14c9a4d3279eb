------------------------------- MODULE Domain -------------------------------
(***************************************************************************)
(* The entities: what a row of customers or orders holds, and what the     *)
(* code of the entities computes from it.  A row that was never inserted   *)
(* has life "absent"; a soft-deleted one (deletedAt is set) has life       *)
(* "deleted".                                                              *)
(*                                                                         *)
(* A definition whose name ends in a phrase such as _Accumulates is a      *)
(* mutant: the definition after it with a plausible bug, for checking that *)
(* the properties would notice.  No specification uses a mutant.           *)
(***************************************************************************)
EXTENDS FiniteSetsExt

CONSTANTS
  CustomerIds, OrderIds, ItemIds,   \* primary keys (UUIDs)
  Quantities,                       \* quantities a request may carry
  Price,                            \* unit price, in cents, of each item
  MaxItems,                         \* MAX_ITEMS_PER_ORDER
  TaxIds, Passports, Emails,        \* customer data
  Callers,                          \* authenticated users
  Users, Admins,                    \* those with ROLE_USER, with ROLE_ADMIN
  NoValue                           \* SQL NULL, and "no key"

ASSUME DomainAssumption ==
  /\ IsFiniteSet(ItemIds)
  /\ Quantities \subseteq Nat \ {0}
  /\ Price \in [ItemIds -> Nat \ {0}]
  /\ MaxItems \in Nat
  /\ Users \subseteq Callers /\ Admins \subseteq Callers
  /\ NoValue \notin CustomerIds \cup OrderIds \cup ItemIds \cup Callers
  /\ NoValue \notin TaxIds \cup Passports \cup Emails
-----------------------------------------------------------------------------
Lives == {"absent", "active", "deleted"}
OrderStatus == {"OPEN", "CONFIRMED", "CANCELED"}

(* The items of an order: the quantity of each, 0 for one it does not have. *)
Items == [ItemIds -> Quantities \cup {0}]
NoItems == [i \in ItemIds |-> 0]
ItemsOf(items) == {i \in ItemIds : items[i] # 0}

(* Order.calculateTotal: the sum of unitPrice * quantity. *)
Total(items) == MapThenSumSet(LAMBDA i : Price[i] * items[i], ItemIds)
Totals == {Total(items) : items \in Items}

OrderRows ==
  [life : Lives, customer : CustomerIds \cup {NoValue},
   createdBy : Callers \cup {NoValue}, status : OrderStatus,
   items : Items, total : Totals, version : Nat]

CustomerRows ==
  [life : Lives, taxId : TaxIds \cup {NoValue},
   passport : Passports \cup {NoValue}, email : Emails \cup {NoValue},
   version : Nat]

NoOrder == [life |-> "absent", customer |-> NoValue, createdBy |-> NoValue,
            status |-> "OPEN", items |-> NoItems, total |-> Total(NoItems),
            version |-> 0]
NoCustomer == [life |-> "absent", taxId |-> NoValue, passport |-> NoValue,
               email |-> NoValue, version |-> 0]
-----------------------------------------------------------------------------
AllowedTransitions ==
  [OPEN |-> {"CONFIRMED", "CANCELED"}, CONFIRMED |-> {"CANCELED"},
   CANCELED |-> {}]

CanTransition(from, to) == to \in AllowedTransitions[from]

IsEditable_UntilCanceled(order) == order.status # "CANCELED"
IsEditable(order) == order.status = "OPEN"

HasRoom_OneTooMany(order) == Cardinality(ItemsOf(order.items)) <= MaxItems
HasRoom(order) == Cardinality(ItemsOf(order.items)) < MaxItems

(* Item i set to quantity q, and the total calculated again. *)
WithItem_Accumulates(order, i, q) ==
  [order EXCEPT !.items[i] = q, !.total = @ + Price[i] * q]
WithItem(order, i, q) ==
  LET items == [order.items EXCEPT ![i] = q]
  IN  [order EXCEPT !.items = items, !.total = Total(items)]

NewOrder(c, caller, items) ==
  [life |-> "active", customer |-> c, createdBy |-> caller,
   status |-> "OPEN", items |-> items, total |-> Total(items),
   version |-> 1]

(* OrderService.canAccess, for an authenticated caller. *)
CanAccess(order, caller) == caller \in Admins \/ order.createdBy = caller
-----------------------------------------------------------------------------
(* What the specification OrderAggregate looks at: a row but its version. *)
Visible(row) ==
  [life |-> row.life, customer |-> row.customer, createdBy |-> row.createdBy,
   status |-> row.status, items |-> row.items, total |-> row.total]
=============================================================================
