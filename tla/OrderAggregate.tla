--------------------------- MODULE OrderAggregate ---------------------------
(***************************************************************************)
(* What OrderService promises of an order: every operation takes effect in *)
(* one step, on the order as it is at that moment, or not at all.  The     *)
(* guards are those of the handlers; there are no requests, no copies in   *)
(* memory and no versions.                                                 *)
(*                                                                         *)
(* It cannot promise that of an order of which a save has overwritten a    *)
(* version it had not read; Overwritten is what is left of the promise.    *)
(***************************************************************************)
EXTENDS Domain

VARIABLES
  aggregates,   \* the Visible part of each order
  overwritten   \* the orders the promise no longer holds of

Become(o, order) == aggregates' = [aggregates EXCEPT ![o] = order]

IsActive(o) == aggregates[o].life = "active"

Created(o, c, caller, items) ==
  /\ aggregates[o].life = "absent"
  /\ Cardinality(ItemsOf(items)) <= MaxItems
  /\ Become(o, Visible(NewOrder(c, caller, items)))

ItemAdded(o, i, q) ==
  /\ IsActive(o) /\ IsEditable(aggregates[o]) /\ HasRoom(aggregates[o])
  /\ i \notin ItemsOf(aggregates[o].items)
  /\ Become(o, WithItem(aggregates[o], i, q))

QuantityUpdated(o, i, q) ==
  /\ IsActive(o) /\ IsEditable(aggregates[o])
  /\ i \in ItemsOf(aggregates[o].items)
  /\ Become(o, WithItem(aggregates[o], i, q))

ItemRemoved(o, i) == QuantityUpdated(o, i, 0)

StatusChanged(o, target) ==
  /\ IsActive(o)
  /\ CanTransition(aggregates[o].status, target)
  /\ target = "CONFIRMED" => aggregates[o].items # NoItems
  /\ Become(o, [aggregates[o] EXCEPT !.status = target])

Deleted(o) ==
  /\ IsActive(o)
  /\ Become(o, [aggregates[o] EXCEPT !.life = "deleted"])

AtomicOperation(o) ==
  \/ \E c \in CustomerIds, caller \in Callers, items \in Items :
       Created(o, c, caller, items)
  \/ \E i \in ItemIds, q \in Quantities :
       ItemAdded(o, i, q) \/ QuantityUpdated(o, i, q)
  \/ \E i \in ItemIds : ItemRemoved(o, i)
  \/ \E target \in OrderStatus : StatusChanged(o, target)
  \/ Deleted(o)

(* The save of an older copy changes no other order, does not change whose  *)
(* order it is, loses no item, and leaves no CONFIRMED order without items. *)
Overwritten(o) ==
  LET old == aggregates[o]
      new == aggregates'[o]
  IN  /\ overwritten' = overwritten \cup {o}
      /\ Become(o, new)
      /\ old.life # "absent" /\ new.life # "absent"
      /\ new.customer = old.customer /\ new.createdBy = old.createdBy
      /\ ItemsOf(old.items) \subseteq ItemsOf(new.items)
      /\ new.status = "CONFIRMED" => new.items # NoItems

AggregateInit ==
  /\ aggregates = [o \in OrderIds |-> Visible(NoOrder)]
  /\ overwritten = {}

AggregateNext ==
  \E o \in OrderIds :
    \/ AtomicOperation(o) /\ UNCHANGED overwritten
    \/ Overwritten(o)

AggregateSpec ==
  AggregateInit /\ [][AggregateNext]_<<aggregates, overwritten>>
=============================================================================
