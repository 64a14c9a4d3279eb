---------------------------- MODULE OrderService ----------------------------
(***************************************************************************)
(* The write handlers of OrderService as concurrent requests.  Node runs   *)
(* the code between two awaits without interruption, so a handler is the   *)
(* sequence of steps between its database round trips:                     *)
(*                                                                         *)
(*   find and check --> save: read the row --> save: write --> emit event  *)
(*      "idle"            "reading"            "writing"      "emitting"   *)
(*                                                                         *)
(* delete goes from "idle" to "deleting", create from "idle" through       *)
(* "locking" (it waits for the customer's row) to "inserting".             *)
(***************************************************************************)
EXTENDS Database

CONSTANTS
  Operations,      \* the routes a run exercises
  MaxConcurrent    \* requests in flight at the same time

Routes == {"create", "addItem", "updateItemQuantity", "removeItem",
           "confirm", "cancel", "delete"}
AdminRoutes == {"removeItem", "confirm", "cancel", "delete"}

ASSUME OrderServiceAssumption ==
  /\ Operations \subseteq Routes
  /\ MaxConcurrent \in Nat

VARIABLES
  calls,    \* the handler call each request makes
  events    \* the OrderStatusChangedEvents given to the event emitter

orderVars == <<calls, events>>
osVars == <<dbVars, orderVars>>
-----------------------------------------------------------------------------
Phases == {"idle", "locking", "inserting", "reading", "writing", "deleting",
           "emitting", "done"}
InTransit == Phases \ {"idle", "done"}
Results == {"none", "ok", "forbidden", "invalid", "notFound", "conflict",
            "error", "lost"}

Calls ==
  [pc : Phases, op : Routes \cup {NoValue}, order : OrderIds \cup {NoValue},
   entity : OrderRows, loaded : OrderRows, from : OrderStatus,
   result : Results]

Idle == [pc |-> "idle", op |-> NoValue, order |-> NoValue,
         entity |-> NoOrder, loaded |-> NoOrder, from |-> "OPEN",
         result |-> "none"]

Events == [request : OrderRequests, order : OrderIds, from : OrderStatus,
           to : OrderStatus, total : Totals]

InFlight == {r \in OrderRequests : calls[r].pc \in InTransit}

(* RolesGuard: every route takes ROLE_USER or ROLE_ADMIN, or ROLE_ADMIN. *)
MayUse(op, caller) ==
  caller \in (IF op \in AdminRoutes THEN Admins ELSE Users \cup Admins)

Arrives(r, op) ==
  /\ calls[r].pc = "idle"
  /\ op \in Operations
  /\ Cardinality(InFlight) < MaxConcurrent
Admitted(r, op, caller) == Arrives(r, op) /\ MayUse(op, caller)

(* What becomes of a call: an answer, or the next step of its handler. *)
Answer(r, op, result) ==
  calls' = [calls EXCEPT ![r] = [Idle EXCEPT !.pc = "done", !.op = op,
                                             !.result = result]]
Finish(r, result) == Answer(r, calls[r].op, result)
Advance(r, pc) == calls' = [calls EXCEPT ![r].pc = pc]

(* findEntityByIdOrThrow: soft-deleted orders and orders of others do not   *)
(* exist for the caller.                                                    *)
Found(o, caller) ==
  orders[o].life = "active" /\ CanAccess(orders[o], caller)

(* repository.save(entity) begins. *)
Save(r, op, o, entity) ==
  calls' = [calls EXCEPT ![r] =
              [Idle EXCEPT !.pc = "reading", !.op = op, !.order = o,
                           !.entity = entity, !.from = orders[o].status]]

(* UUIDs that no row and no request holds. *)
FreshItem(i) ==
  /\ \A o \in OrderIds : orders[o].items[i] = 0
  /\ \A r \in OrderRequests : calls[r].entity.items[i] = 0
FreshOrder(o) ==
  /\ orders[o].life = "absent"
  /\ \A r \in OrderRequests :
       calls[r].pc \in {"locking", "inserting"} => calls[r].order # o
-----------------------------------------------------------------------------
Forbid(r, op, caller) ==
  /\ Arrives(r, op)
  /\ ~MayUse(op, caller)
  /\ Answer(r, op, "forbidden")
  /\ UNCHANGED <<dbVars, events>>

FindFails(r, op, caller, o) ==
  /\ Admitted(r, op, caller)
  /\ op # "create"
  /\ ~Found(o, caller)
  /\ Answer(r, op, "notFound")
  /\ UNCHANGED <<dbVars, events>>

AddItem(r, caller, o, i, q) ==
  /\ Admitted(r, "addItem", caller)
  /\ Found(o, caller)
  /\ FreshItem(i)
  /\ \/ /\ ~IsEditable(orders[o]) \/ ~HasRoom(orders[o])
        /\ Answer(r, "addItem", "invalid")
     \/ /\ IsEditable(orders[o]) /\ HasRoom(orders[o])
        /\ Save(r, "addItem", o, WithItem(orders[o], i, q))
  /\ UNCHANGED <<dbVars, events>>

(* updateItemQuantity and removeItem differ in what they do to the item. *)
ChangeItem(r, op, caller, o, i, q) ==
  /\ Admitted(r, op, caller)
  /\ Found(o, caller)
  /\ \/ /\ ~IsEditable(orders[o])
        /\ Answer(r, op, "invalid")
     \/ /\ IsEditable(orders[o])
        /\ i \notin ItemsOf(orders[o].items)
        /\ Answer(r, op, "notFound")
     \/ /\ IsEditable(orders[o])
        /\ i \in ItemsOf(orders[o].items)
        /\ Save(r, op, o, WithItem(orders[o], i, q))
  /\ UNCHANGED <<dbVars, events>>

UpdateItemQuantity(r, caller, o, i, q) ==
  ChangeItem(r, "updateItemQuantity", caller, o, i, q)
RemoveItem(r, caller, o, i) == ChangeItem(r, "removeItem", caller, o, i, 0)

(* ensureTransitionAllowedOrThrow; only confirm refuses an empty order. *)
Refused_ConfirmsEmpty(order, target) == ~CanTransition(order.status, target)
Refused_AnyTransition(order, target) ==
  target = "CONFIRMED" /\ order.items = NoItems
Refused(order, target) ==
  \/ ~CanTransition(order.status, target)
  \/ target = "CONFIRMED" /\ order.items = NoItems

(* confirm and cancel *)
ChangeStatus(r, op, caller, o, target) ==
  /\ Admitted(r, op, caller)
  /\ Found(o, caller)
  /\ \/ /\ Refused(orders[o], target)
        /\ Answer(r, op, "invalid")
     \/ /\ ~Refused(orders[o], target)
        /\ Save(r, op, o, [orders[o] EXCEPT !.status = target])
  /\ UNCHANGED <<dbVars, events>>

Confirm(r, caller, o) == ChangeStatus(r, "confirm", caller, o, "CONFIRMED")
Cancel(r, caller, o)  == ChangeStatus(r, "cancel", caller, o, "CANCELED")
-----------------------------------------------------------------------------
(* save's SELECT, which the other requests may follow with a write. *)
SaveReads(r) ==
  /\ calls[r].pc = "reading"
  /\ calls' = [calls EXCEPT ![r].pc = "writing",
                            ![r].loaded = orders[calls[r].order]]
  /\ UNCHANGED <<dbVars, events>>

RowDiffers(entity, loaded) ==
  \/ entity.life # loaded.life
  \/ entity.status # loaded.status
  \/ entity.total # loaded.total
  \/ entity.version # loaded.version

Written(entity, loaded, row) ==
  [row EXCEPT
     !.life   = Differing(entity.life, loaded.life, @),
     !.status = Differing(entity.status, loaded.status, @),
     !.total  = Differing(entity.total, loaded.total, @),
     !.items  = [i \in ItemIds |->
                   Differing(entity.items[i], loaded.items[i], @[i])],
     !.version = IF RowDiffers(entity, loaded)
                 THEN NextVersion(entity, loaded, row) ELSE @]

(* Items the SELECT returned and the entity does not list: save sets their  *)
(* order_id to NULL, and the NOT NULL column refuses the whole transaction. *)
Orphaned_None(entity, loaded) == {}
Orphaned(entity, loaded) == ItemsOf(loaded.items) \ ItemsOf(entity.items)

(* save's transaction, and the answer of the handler but for changeStatus. *)
SaveWrites(r) ==
  LET o == calls[r].order
      entity == calls[r].entity
      loaded == calls[r].loaded
  IN  /\ calls[r].pc = "writing"
      /\ \/ /\ Orphaned(entity, loaded) # {}
            /\ Finish(r, "error")
            /\ UNCHANGED <<orders, outdated>>
         \/ /\ Orphaned(entity, loaded) = {}
            /\ orders' = [orders EXCEPT ![o] = Written(entity, loaded, @)]
            /\ Overwrites(o, entity, loaded, orders[o])
            /\ IF calls[r].op \in {"confirm", "cancel"}
               THEN Advance(r, "emitting")
               ELSE Finish(r, "ok")
      /\ UNCHANGED <<customers, rowLocks, events>>

(* The end of changeStatus.  The email address it requires of the customer *)
(* is a NOT NULL column the API never fills with a blank.                   *)
Emit(r) ==
  /\ calls[r].pc = "emitting"
  /\ events' =
       events \cup {[request |-> r, order |-> calls[r].order,
                     from |-> calls[r].from, to |-> calls[r].entity.status,
                     total |-> calls[r].entity.total]}
  /\ Finish(r, "ok")
  /\ UNCHANGED dbVars
-----------------------------------------------------------------------------
Delete(r, caller, o) ==
  /\ Admitted(r, "delete", caller)
  /\ Found(o, caller)
  /\ calls' = [calls EXCEPT ![r] = [Idle EXCEPT !.pc = "deleting",
                                                !.op = "delete",
                                                !.order = o]]
  /\ UNCHANGED <<dbVars, events>>

SoftDelete(r) ==
  LET o == calls[r].order
  IN  /\ calls[r].pc = "deleting"
      /\ orders' = [orders EXCEPT ![o] = SoftDeleted(@)]
      /\ Finish(r, "ok")
      /\ UNCHANGED <<customers, rowLocks, outdated, events>>

Create(r, caller, c, o, items) ==
  /\ Admitted(r, "create", caller)
  /\ FreshOrder(o)
  /\ \A i \in ItemsOf(items) : FreshItem(i)
  /\ Cardinality(ItemsOf(items)) <= MaxItems
  /\ calls' = [calls EXCEPT ![r] =
                 [Idle EXCEPT !.pc = "locking", !.op = "create", !.order = o,
                              !.entity = NewOrder(c, caller, items)]]
  /\ UNCHANGED <<dbVars, events>>

(* findEntityForShareOrThrow: SELECT ... FOR SHARE waits for a deletion.    *)
CreateLocks(r) ==
  LET c == calls[r].entity.customer
  IN  /\ calls[r].pc = "locking"
      /\ ShareLockFree(c)
      /\ \/ /\ customers[c].life = "active"
            /\ LockForShare(r, c)
            /\ Advance(r, "inserting")
         \/ /\ customers[c].life # "active"
            /\ Finish(r, "notFound")
            /\ UNCHANGED rowLocks
      /\ UNCHANGED <<customers, orders, outdated, events>>

CreateInserts(r) ==
  /\ calls[r].pc = "inserting"
  /\ orders' = [orders EXCEPT ![calls[r].order] = calls[r].entity]
  /\ Finish(r, "ok")
  /\ Unlock(r)
  /\ UNCHANGED <<customers, outdated, events>>

(* The process running the handler dies: its transaction is rolled back and *)
(* the client gets no answer.                                               *)
Crash(r) ==
  /\ calls[r].pc \in InTransit
  /\ Finish(r, "lost")
  /\ Unlock(r)
  /\ UNCHANGED <<customers, orders, outdated, events>>
-----------------------------------------------------------------------------
CallsInit ==
  /\ calls = [r \in OrderRequests |-> Idle]
  /\ events = {}
OrderInit == DatabaseInit /\ CallsInit

Receive(r) ==
  \E caller \in Callers :
    \/ \E o \in OrderIds, c \in CustomerIds, items \in Items :
         Create(r, caller, c, o, items)
    \/ \E op \in Routes : Forbid(r, op, caller)
    \/ \E o \in OrderIds :
         \/ \E op \in Routes : FindFails(r, op, caller, o)
         \/ \E i \in ItemIds, q \in Quantities :
              AddItem(r, caller, o, i, q) \/ UpdateItemQuantity(r, caller, o, i, q)
         \/ \E i \in ItemIds : RemoveItem(r, caller, o, i)
         \/ Confirm(r, caller, o)
         \/ Cancel(r, caller, o)
         \/ Delete(r, caller, o)

Continue(r) ==
  \/ CreateLocks(r)
  \/ CreateInserts(r)
  \/ SaveReads(r)
  \/ SaveWrites(r)
  \/ SoftDelete(r)
  \/ Emit(r)

OrderNext == \E r \in OrderRequests : Receive(r) \/ Continue(r) \/ Crash(r)

(* Every answer of the database comes back and every resolved promise is    *)
(* resumed; nothing makes a client send a request.                          *)
OrderFairness == \A r \in OrderRequests : WF_osVars(Continue(r))

OrderSpec ==
  /\ OrderInit
  /\ [][OrderNext]_osVars
  /\ OrderFairness
-----------------------------------------------------------------------------
(* Properties. *)

(* Every row and every call in flight has the shape the code gives it. *)
OrderTypeOK ==
  /\ DatabaseTypeOK
  /\ calls \in [OrderRequests -> Calls]
  /\ events \subseteq Events

(* The stored total is the sum of the stored items, after every change of   *)
(* an item (DOMAIN.md, rule 1).  Two edits in flight break it: each writes  *)
(* its own item and the total of the list it read.                          *)
TotalMatchesItems ==
  \A o \in OrderIds : orders[o].total = Total(orders[o].items)

(* Only an order with items is ever CONFIRMED (confirm checks a copy).      *)
ConfirmedOrdersHaveItems ==
  \A o \in OrderIds : orders[o].status = "CONFIRMED" => orders[o].items # NoItems

(* The status in the table moves only along ALLOWED_TRANSITIONS: CANCELED   *)
(* is terminal.  A confirm whose copy is older than a cancel breaks it.     *)
StatusFollowsTransitions ==
  [][\A o \in OrderIds :
       \/ orders'[o].status = orders[o].status
       \/ CanTransition(orders[o].status, orders'[o].status)]_osVars

(* The stored total is that of the stored items and the items are within    *)
(* MAX_ITEMS_PER_ORDER (DOMAIN.md, rules 1 and 6), but for orders of which  *)
(* some save overwrote a version it had not read: two edits in flight, each *)
(* of which checked and added up the list it had read.                      *)
RulesBrokenOnlyByOverwrites ==
  \A o \in OrderIds \ outdated :
    /\ orders[o].total = Total(orders[o].items)
    /\ Cardinality(ItemsOf(orders[o].items)) <= MaxItems

(* Items and total of an order that has left OPEN never change, CANCELED is *)
(* terminal and so is deletion (DOMAIN.md, section 3 and rule 9), but for   *)
(* an order of which some save overwrote a version it had not read: an edit *)
(* or a confirm in flight with a confirm, a cancel or a deletion.           *)
MovesBrokenOnlyByOverwrites ==
  [][\A o \in OrderIds \ outdated' :
       /\ \/ orders'[o].status = orders[o].status
          \/ CanTransition(orders[o].status, orders'[o].status)
       /\ orders[o].status # "OPEN" =>
            /\ orders'[o].items = orders[o].items
            /\ orders'[o].total = orders[o].total
       /\ orders[o].life = "deleted" => orders'[o].life = "deleted"]_osVars

(* As long as no save overwrites a version it has not read, every write of  *)
(* an order increments its version: no sequence of saves and deletions      *)
(* shows two different rows under one version, so that comparing versions   *)
(* would be enough to find out a copy that is no longer true.               *)
VersionsGrow ==
  [][\A o \in OrderIds \ outdated' :
       orders'[o] # orders[o] => orders'[o].version > orders[o].version]_osVars

(* An item leaves an order only in the save of a removeItem, which takes    *)
(* off no other item: whatever copies are in flight, an acknowledged        *)
(* addItem is not undone by the save of somebody who had not seen it.       *)
Removes(r, o) ==
  /\ calls[r].pc = "writing" /\ calls[r].op = "removeItem"
  /\ calls[r].order = o /\ calls'[r].result = "ok"
ItemsLeaveOnlyByRemoval ==
  [][\A o \in OrderIds :
       LET gone == ItemsOf(orders[o].items) \ ItemsOf(orders'[o].items)
       IN  gone # {} => /\ Cardinality(gone) = 1
                        /\ \E r \in OrderRequests : Removes(r, o)]_osVars

(* removeItem on an open order that has the item does not end in an         *)
(* internal error (DOMAIN.md, section 7, and the unit test of removeItem).  *)
RemovalsSucceed ==
  \A r \in OrderRequests :
    ~(calls[r].op = "removeItem" /\ calls[r].result = "error")

(* An emitted event announces a status the table really reached, with the   *)
(* total the order has had since then, unless some save of that order       *)
(* overwrote a version it had not read.                                     *)
EventsMatchOrders ==
  \A e \in events :
    e.order \notin outdated =>
      /\ \/ orders[e.order].status = e.to
         \/ CanTransition(e.to, orders[e.order].status)
      /\ orders[e.order].total = e.total

(* A transition is announced twice (confirm and cancel fail unless the      *)
(* order may still make it: DOMAIN.md, rules 3, 4) only of an order some    *)
(* save of which overwrote a version it had not read, as the later of two   *)
(* confirmations in flight does.                                            *)
RepeatedOnlyByOverwrites ==
  \A e, f \in events :
    e.order = f.order /\ e.to = f.to => e = f \/ e.order \in outdated

(* A customer row is locked exactly by the creations between their lock and *)
(* their commit: no path out of the transaction leaks a lock.               *)
LocksHeldByCreations ==
  \A c \in CustomerIds :
    rowLocks[c].share =
      {r \in OrderRequests : calls[r].pc = "inserting"
                               /\ calls[r].entity.customer = c}

Aggregate ==
  INSTANCE OrderAggregate
    WITH aggregates <- [o \in OrderIds |-> Visible(orders[o])],
         overwritten <- outdated

(* The concurrent handlers implement the abstract order: each operation     *)
(* takes effect on the stored row in one step, with its guards true of that *)
(* row, or not at all, until a save overwrites a version it has not read;   *)
(* and even such a save leaves the order what Overwritten says.             *)
RefinesAggregate == Aggregate!AggregateSpec
=============================================================================
