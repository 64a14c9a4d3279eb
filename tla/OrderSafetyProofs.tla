------------------------- MODULE OrderSafetyProofs --------------------------
(***************************************************************************)
(* What OrderService guarantees whatever copies its saves merge into the   *)
(* rows: no item vanishes, no confirmed order is empty, no lock leaks.     *)
(* The first two are not inductive.  SafetyInv adds what the copies that   *)
(* the calls in flight hold say of the rows in the table.                  *)
(***************************************************************************)
EXTENDS OrderServiceProofs

Creating(call) == call.pc \in {"locking", "inserting"}
Saving(call)   == call.pc \in {"reading", "writing"}

(* A creation holds the key of a row that is not there yet; every other     *)
(* call holds that of a row that is there for good.  The copy to be saved   *)
(* is not that of an empty confirmed order, and the items that save has     *)
(* read are still in the table.                                             *)
SafeCall(call, table) ==
  /\ Creating(call) => /\ table[call.order].life = "absent"
                       /\ call.entity.life = "active"
                       /\ call.entity.status = "OPEN"
  /\ Saving(call) => /\ table[call.order].life # "absent"
                     /\ call.entity.life # "absent"
                     /\ call.entity.status = "CONFIRMED"
                          => call.entity.items # NoItems
  /\ call.pc = "deleting" => table[call.order].life # "absent"
  /\ call.pc = "writing" =>
       ItemsOf(call.loaded.items) \subseteq ItemsOf(table[call.order].items)

SafeCalls == \A r \in OrderRequests : SafeCall(calls[r], orders)

DistinctCreations ==
  \A r, s \in OrderRequests :
    Creating(calls[r]) /\ Creating(calls[s]) /\ r # s
      => calls[r].order # calls[s].order

AbsentOrdersEmpty ==
  \A o \in OrderIds : orders[o].life = "absent" => orders[o].items = NoItems

SafetyInv ==
  /\ TypeInv
  /\ SafeCalls
  /\ DistinctCreations
  /\ AbsentOrdersEmpty
  /\ ConfirmedOrdersHaveItems

(* A row gains items and a life, and loses neither. *)
RowGrows(row, new) ==
  /\ ItemsOf(row.items) \subseteq ItemsOf(new.items)
  /\ row.life # "absent" => new.life # "absent"
-----------------------------------------------------------------------------
LEMMA NotEmpty ==
  ASSUME NEW items \in Items
  PROVE  items # NoItems <=> ItemsOf(items) # {}
<1>1. items = NoItems => ItemsOf(items) = {}
  BY DEF NoItems, ItemsOf
<1>2. ItemsOf(items) = {} => \A i \in ItemIds : items[i] = 0
  BY DEF ItemsOf
<1>3. ItemsOf(items) = {} => items = NoItems
  BY <1>2 DEF NoItems, Items
<1> QED
  BY <1>1, <1>3

(* The write of save drops no item: one that the entity lacks and the      *)
(* SELECT returned is an orphan, and refuses the transaction.               *)
LEMMA WrittenGrows ==
  ASSUME NEW entity \in OrderRows, NEW loaded \in OrderRows,
         NEW row \in OrderRows,
         entity.life # "absent", Orphaned(entity, loaded) = {}
  PROVE  RowGrows(row, Written(entity, loaded, row))
<1> DEFINE new == Written(entity, loaded, row)
<1>1. /\ new.life = Differing(entity.life, loaded.life, row.life)
      /\ new.items = [i \in ItemIds |->
                        Differing(entity.items[i], loaded.items[i], row.items[i])]
  BY DEF Written, OrderRows
<1>2. ASSUME NEW i \in ItemIds, row.items[i] # 0
      PROVE  new.items[i] # 0
  <2>1. loaded.items[i] # 0 => entity.items[i] # 0
    BY DEF Orphaned, ItemsOf
  <2> QED
    BY <1>1, <1>2, <2>1 DEF Differing
<1> QED
  BY <1>1, <1>2 DEF RowGrows, ItemsOf, Differing

(* A save never leaves a confirmed order empty: a status it writes comes    *)
(* from its copy, whose items are written or in the table already.          *)
LEMMA WrittenHasItems ==
  ASSUME NEW entity \in OrderRows, NEW loaded \in OrderRows,
         NEW row \in OrderRows,
         entity.life # "absent", Orphaned(entity, loaded) = {},
         entity.status = "CONFIRMED" => entity.items # NoItems,
         row.status = "CONFIRMED" => row.items # NoItems,
         ItemsOf(loaded.items) \subseteq ItemsOf(row.items),
         Written(entity, loaded, row).status = "CONFIRMED"
  PROVE  Written(entity, loaded, row).items # NoItems
<1> DEFINE new == Written(entity, loaded, row)
<1>1. /\ new.status = Differing(entity.status, loaded.status, row.status)
      /\ new.items = [i \in ItemIds |->
                        Differing(entity.items[i], loaded.items[i], row.items[i])]
  BY DEF Written, OrderRows
<1>2. /\ new.items \in Items /\ row.items \in Items /\ entity.items \in Items
  BY WrittenType DEF OrderRows
<1> SUFFICES ItemsOf(new.items) # {}
  BY <1>2, NotEmpty
<1>3. CASE entity.status = loaded.status
  <2>1. ItemsOf(row.items) # {}
    BY <1>1, <1>2, <1>3, NotEmpty DEF Differing
  <2> QED
    BY <2>1, WrittenGrows DEF RowGrows
<1>4. CASE entity.status # loaded.status
  <2>1. PICK i \in ItemIds : entity.items[i] # 0
    BY <1>1, <1>2, <1>4, NotEmpty DEF Differing, ItemsOf
  <2>2. entity.items[i] = loaded.items[i] => row.items[i] # 0
    BY <2>1 DEF ItemsOf
  <2>3. new.items[i] # 0
    BY <1>1, <2>1, <2>2 DEF Differing
  <2> QED
    BY <2>3 DEF ItemsOf
<1> QED
  BY <1>3, <1>4
-----------------------------------------------------------------------------
(* What a request that arrives may start: an answer, or a creation, a save  *)
(* or a deletion that is safe for the table as it is.                       *)
NewCall(call) ==
  \/ call.pc = "done"
  \/ /\ call.pc = "locking"
     /\ FreshOrder(call.order)
     /\ call.entity.life = "active"
     /\ call.entity.status = "OPEN"
  \/ /\ call.pc = "reading"
     /\ orders[call.order].life = "active"
     /\ call.entity.life = "active"
     /\ call.entity.status = "CONFIRMED" => call.entity.items # NoItems
  \/ /\ call.pc = "deleting"
     /\ orders[call.order].life = "active"

Starts(r) == \E call : NewCall(call) /\ calls' = [calls EXCEPT ![r] = call]

LEMMA AnswerStarts ==
  ASSUME NEW r, NEW op, NEW result, Answer(r, op, result)
  PROVE  Starts(r)
<1> DEFINE call == [Idle EXCEPT !.pc = "done", !.op = op, !.result = result]
<1>1. NewCall(call)
  BY DEF NewCall, Idle
<1> QED
  BY <1>1 DEF Answer, Starts

LEMMA SaveStarts ==
  ASSUME NEW r, NEW op, NEW o, NEW entity, Save(r, op, o, entity),
         orders[o].life = "active", entity.life = "active",
         entity.status = "CONFIRMED" => entity.items # NoItems
  PROVE  Starts(r)
<1> DEFINE call == [Idle EXCEPT !.pc = "reading", !.op = op, !.order = o,
                                !.entity = entity, !.from = orders[o].status]
<1>1. call.pc = "reading" /\ call.order = o /\ call.entity = entity
  BY DEF Idle
<1>2. NewCall(call)
  BY <1>1 DEF NewCall
<1> QED
  BY <1>2 DEF Save, Starts

(* An item is changed in an active order that is still open. *)
LEMMA ItemSaveStarts ==
  ASSUME TypeInv, NEW r, NEW op, NEW o \in OrderIds, NEW i, NEW q,
         NEW caller, Found(o, caller), IsEditable(orders[o]),
         Save(r, op, o, WithItem(orders[o], i, q))
  PROVE  Starts(r)
<1>1. /\ WithItem(orders[o], i, q).life = orders[o].life
      /\ WithItem(orders[o], i, q).status = orders[o].status
  BY DEF WithItem, TypeInv, OrderTypeOK, DatabaseTypeOK, OrderRows
<1> QED
  BY <1>1, SaveStarts DEF Found, IsEditable

LEMMA ReceiveStarts ==
  ASSUME TypeInv, NEW r \in OrderRequests, Receive(r)
  PROVE  Starts(r)
<1>1. ASSUME NEW op, NEW caller, NEW o,
             Forbid(r, op, caller) \/ FindFails(r, op, caller, o)
      PROVE  Starts(r)
  BY <1>1, AnswerStarts DEF Forbid, FindFails
<1>2. ASSUME NEW caller, NEW o \in OrderIds, NEW i, NEW q,
             AddItem(r, caller, o, i, q)
      PROVE  Starts(r)
  BY <1>2, AnswerStarts, ItemSaveStarts DEF AddItem
<1>3. ASSUME NEW op, NEW caller, NEW o \in OrderIds, NEW i, NEW q,
             ChangeItem(r, op, caller, o, i, q)
      PROVE  Starts(r)
  BY <1>3, AnswerStarts, ItemSaveStarts DEF ChangeItem
<1>4. ASSUME NEW op, NEW caller, NEW o \in OrderIds, NEW target,
             ChangeStatus(r, op, caller, o, target)
      PROVE  Starts(r)
  <2> DEFINE entity == [orders[o] EXCEPT !.status = target]
  <2>1. /\ entity.life = orders[o].life
        /\ entity.status = target
        /\ entity.items = orders[o].items
    BY DEF TypeInv, OrderTypeOK, DatabaseTypeOK, OrderRows
  <2>2. CASE Answer(r, op, "invalid")
    BY <2>2, AnswerStarts
  <2>3. CASE ~Refused(orders[o], target) /\ Save(r, op, o, entity)
    BY <1>4, <2>1, <2>3, SaveStarts DEF ChangeStatus, Refused, Found
  <2> QED
    BY <1>4, <2>2, <2>3 DEF ChangeStatus
<1>5. ASSUME NEW caller, NEW o, Delete(r, caller, o)
      PROVE  Starts(r)
  <2> DEFINE call == [Idle EXCEPT !.pc = "deleting", !.op = "delete", !.order = o]
  <2>1. NewCall(call)
    BY <1>5 DEF NewCall, Delete, Found, Idle
  <2> QED
    BY <1>5, <2>1 DEF Delete, Starts
<1>6. ASSUME NEW caller, NEW c, NEW o, NEW items, Create(r, caller, c, o, items)
      PROVE  Starts(r)
  <2> DEFINE call == [Idle EXCEPT !.pc = "locking", !.op = "create",
                                  !.order = o,
                                  !.entity = NewOrder(c, caller, items)]
  <2>1. /\ call.pc = "locking" /\ call.order = o
        /\ call.entity.life = "active"
        /\ call.entity.status = "OPEN"
    BY DEF Idle, NewOrder
  <2>2. NewCall(call)
    BY <1>6, <2>1 DEF NewCall, Create
  <2> QED
    BY <1>6, <2>2 DEF Create, Starts
<1> QED
  BY <1>1, <1>2, <1>3, <1>4, <1>5, <1>6
  DEF Receive, RemoveItem, UpdateItemQuantity, Confirm, Cancel
-----------------------------------------------------------------------------
LEMMA SafetyInit == OrderInit => SafetyInv
<1> SUFFICES ASSUME OrderInit
             PROVE  SafetyInv
  OBVIOUS
<1>1. TypeInv
  BY TypeInit
<1>2. \A r \in OrderRequests : calls[r].pc = "idle"
  BY DEF OrderInit, CallsInit, Idle
<1>3. \A o \in OrderIds : orders[o] = NoOrder
  BY DEF OrderInit, DatabaseInit
<1>4. SafeCalls /\ DistinctCreations
  BY <1>2 DEF SafeCalls, SafeCall, DistinctCreations, Creating, Saving
<1>5. AbsentOrdersEmpty /\ ConfirmedOrdersHaveItems
  BY <1>3 DEF AbsentOrdersEmpty, ConfirmedOrdersHaveItems, NoOrder
<1> QED
  BY <1>1, <1>4, <1>5 DEF SafetyInv

(* A call that starts leaves the table alone, so it only has to be safe     *)
(* itself.                                                                  *)
LEMMA SafetyReceive ==
  ASSUME SafetyInv, NEW r \in OrderRequests, Receive(r)
  PROVE  SafetyInv'
<1>1. PICK call : NewCall(call) /\ calls' = [calls EXCEPT ![r] = call]
  BY ReceiveStarts DEF SafetyInv, Starts
<1>2. UNCHANGED orders
  BY ReceiveChangesCalls DEF dbVars
<1>3. TypeInv'
  BY TypeReceive DEF SafetyInv
<1>4. calls'[r] = call /\ \A s \in OrderRequests \ {r} : calls'[s] = calls[s]
  BY <1>1 DEF SafetyInv, TypeInv, OrderTypeOK
<1>5. SafeCall(call, orders)
  BY <1>1 DEF NewCall, SafeCall, Creating, Saving, FreshOrder
<1>6. SafeCalls'
  BY <1>2, <1>4, <1>5 DEF SafetyInv, SafeCalls
<1>7. DistinctCreations'
  BY <1>1, <1>4 DEF SafetyInv, DistinctCreations, Creating, NewCall, FreshOrder
<1> QED
  BY <1>2, <1>3, <1>6, <1>7
  DEF SafetyInv, AbsentOrdersEmpty, ConfirmedOrdersHaveItems

(* A call that ends, or that moves on without creating or saving anything   *)
(* new, disturbs nobody as long as the table only grows.                    *)
Harmless(r) ==
  \E call :
    /\ calls' = [calls EXCEPT ![r] = call]
    /\ call.pc \in {"done", "emitting"}

LEMMA Ends ==
  ASSUME TypeInv, NEW r \in OrderRequests, NEW result,
         Finish(r, result) \/ Advance(r, "emitting")
  PROVE  Harmless(r)
<1>1. CASE Finish(r, result)
  <2> DEFINE call == [Idle EXCEPT !.pc = "done", !.op = calls[r].op,
                                  !.result = result]
  <2>1. call.pc = "done"
    BY DEF Idle
  <2> QED
    BY <1>1, <2>1 DEF Finish, Answer, Harmless
<1>2. CASE Advance(r, "emitting")
  <2> DEFINE call == [calls[r] EXCEPT !.pc = "emitting"]
  <2>1. call.pc = "emitting"
    BY DEF TypeInv, OrderTypeOK, Calls
  <2> QED
    BY <1>2, <2>1 DEF Advance, Harmless
<1> QED
  BY <1>1, <1>2

(* r ends, and the row it wrote, if any, is not one being created by others.*)
LEMMA CallsStaySafe ==
  ASSUME SafetyInv, NEW r \in OrderRequests, Harmless(r),
         \A o \in OrderIds : RowGrows(orders[o], orders'[o]),
         \A s \in OrderRequests \ {r} :
           Creating(calls[s]) =>
             orders'[calls[s].order] = orders[calls[s].order]
  PROVE  SafeCalls' /\ DistinctCreations'
<1>1. PICK call : /\ calls' = [calls EXCEPT ![r] = call]
                  /\ call.pc \in {"done", "emitting"}
  BY DEF Harmless
<1>2. calls'[r] = call /\ \A s \in OrderRequests \ {r} : calls'[s] = calls[s]
  BY <1>1 DEF SafetyInv, TypeInv, OrderTypeOK
<1>3. ASSUME NEW s \in OrderRequests \ {r}
      PROVE  SafeCall(calls[s], orders')
  <2>1. SafeCall(calls[s], orders)
    BY DEF SafetyInv, SafeCalls
  <2>2. calls[s].pc \in InTransit => calls[s].order \in OrderIds
    BY DEF SafetyInv, TypeInv, KeysOK
  <2>3. calls[s].pc \in {"reading", "writing", "deleting"} =>
          RowGrows(orders[calls[s].order], orders'[calls[s].order])
    BY <2>2 DEF InTransit, Phases
  <2> QED
    BY <2>1, <2>3 DEF SafeCall, RowGrows, Creating, Saving
<1>4. SafeCall(call, orders')
  BY <1>1 DEF SafeCall, Creating, Saving
<1>5. SafeCalls'
  BY <1>2, <1>3, <1>4 DEF SafeCalls
<1>6. DistinctCreations'
  BY <1>1, <1>2 DEF SafetyInv, DistinctCreations, Creating
<1> QED
  BY <1>5, <1>6

LEMMA SameTableStaysSafe ==
  ASSUME SafetyInv, TypeInv', NEW r \in OrderRequests, Harmless(r),
         UNCHANGED orders
  PROVE  SafetyInv'
<1>1. \A o \in OrderIds : RowGrows(orders[o], orders'[o])
  BY DEF RowGrows
<1> QED
  BY <1>1, CallsStaySafe
  DEF SafetyInv, AbsentOrdersEmpty, ConfirmedOrdersHaveItems

LEMMA SafetyCreateLocks ==
  ASSUME SafetyInv, TypeInv', NEW r \in OrderRequests, CreateLocks(r)
  PROVE  SafetyInv'
<1>1. CASE Finish(r, "notFound")
  BY <1>1, Ends, SameTableStaysSafe DEF CreateLocks, SafetyInv
<1>2. CASE Advance(r, "inserting")
  <2>1. UNCHANGED orders
    BY DEF CreateLocks
  <2>2. /\ calls'[r] = [calls[r] EXCEPT !.pc = "inserting"]
        /\ \A s \in OrderRequests \ {r} : calls'[s] = calls[s]
    BY <1>2 DEF Advance, SafetyInv, TypeInv, OrderTypeOK
  <2>3. /\ calls'[r].pc = "inserting"
        /\ calls'[r].order = calls[r].order
        /\ calls'[r].entity = calls[r].entity
    BY <2>2 DEF SafetyInv, TypeInv, OrderTypeOK, Calls
  <2>4. SafeCalls'
    <3>1. SafeCall(calls'[r], orders)
      BY <2>3 DEF SafetyInv, SafeCalls, SafeCall, Creating, Saving, CreateLocks
    <3> QED
      BY <2>1, <2>2, <3>1 DEF SafetyInv, SafeCalls
  <2>5. DistinctCreations'
    <3>1. \A s \in OrderRequests : /\ Creating(calls'[s]) <=> Creating(calls[s])
                                  /\ calls'[s].order = calls[s].order
      BY <2>2, <2>3 DEF Creating, CreateLocks
    <3> QED
      BY <3>1 DEF SafetyInv, DistinctCreations
  <2> QED
    BY <2>1, <2>4, <2>5
    DEF SafetyInv, AbsentOrdersEmpty, ConfirmedOrdersHaveItems
<1> QED
  BY <1>1, <1>2 DEF CreateLocks

LEMMA SafetyCreateInserts ==
  ASSUME SafetyInv, TypeInv', NEW r \in OrderRequests, CreateInserts(r)
  PROVE  /\ SafetyInv'
         /\ \A o \in OrderIds : RowGrows(orders[o], orders'[o])
<1> DEFINE o == calls[r].order
<1>1. o \in OrderIds
  BY DEF CreateInserts, SafetyInv, TypeInv, KeysOK, InTransit, Phases
<1>2. /\ orders'[o] = calls[r].entity
      /\ \A p \in OrderIds \ {o} : orders'[p] = orders[p]
  BY <1>1 DEF CreateInserts, SafetyInv, TypeInv, OrderTypeOK, DatabaseTypeOK
<1>3. /\ orders[o].life = "absent" /\ orders[o].items = NoItems
      /\ calls[r].entity.life = "active"
      /\ calls[r].entity.status = "OPEN"
  BY <1>1 DEF CreateInserts, SafetyInv, SafeCalls, SafeCall, Creating,
              AbsentOrdersEmpty
<1>4. RowGrows(orders[o], orders'[o])
  BY <1>3, NotEmpty, NoItemsType DEF RowGrows
<1>5. \A p \in OrderIds : RowGrows(orders[p], orders'[p])
  BY <1>2, <1>4 DEF RowGrows
<1>6. \A s \in OrderRequests \ {r} :
        Creating(calls[s]) => calls[s].order \in OrderIds \ {o}
  BY DEF CreateInserts, SafetyInv, DistinctCreations, Creating, TypeInv,
         KeysOK, InTransit, Phases
<1>7. Harmless(r)
  BY Ends DEF CreateInserts, SafetyInv
<1>8. SafeCalls' /\ DistinctCreations'
  BY <1>2, <1>5, <1>6, <1>7, CallsStaySafe
<1> QED
  BY <1>2, <1>3, <1>5, <1>8
  DEF SafetyInv, AbsentOrdersEmpty, ConfirmedOrdersHaveItems

LEMMA SafetySaveReads ==
  ASSUME SafetyInv, TypeInv', NEW r \in OrderRequests, SaveReads(r)
  PROVE  SafetyInv'
<1>1. UNCHANGED orders
  BY DEF SaveReads, dbVars
<1>2. /\ calls'[r] = [calls[r] EXCEPT !.pc = "writing",
                                      !.loaded = orders[calls[r].order]]
      /\ \A s \in OrderRequests \ {r} : calls'[s] = calls[s]
  BY DEF SaveReads, SafetyInv, TypeInv, OrderTypeOK
<1>3. /\ calls'[r].pc = "writing"
      /\ calls'[r].order = calls[r].order
      /\ calls'[r].entity = calls[r].entity
      /\ calls'[r].loaded = orders[calls[r].order]
  BY <1>2 DEF SafetyInv, TypeInv, OrderTypeOK, Calls
<1>4. SafeCall(calls'[r], orders)
  BY <1>3 DEF SafetyInv, SafeCalls, SafeCall, Creating, Saving, SaveReads
<1>5. SafeCalls'
  BY <1>1, <1>2, <1>4 DEF SafetyInv, SafeCalls
<1>6. DistinctCreations'
  <2>1. ~Creating(calls'[r])
    BY <1>3 DEF Creating
  <2> QED
    BY <1>2, <2>1 DEF SafetyInv, DistinctCreations
<1> QED
  BY <1>1, <1>5, <1>6
  DEF SafetyInv, AbsentOrdersEmpty, ConfirmedOrdersHaveItems

(* A write to a row that is there leaves the creations alone. *)
LEMMA SafetyOfWrite ==
  ASSUME SafetyInv, TypeInv', NEW r \in OrderRequests, Harmless(r),
         NEW o \in OrderIds, NEW new, orders' = [orders EXCEPT ![o] = new],
         orders[o].life # "absent", RowGrows(orders[o], new),
         new.status = "CONFIRMED" => new.items # NoItems
  PROVE  /\ SafetyInv'
         /\ \A p \in OrderIds : RowGrows(orders[p], orders'[p])
<1>1. /\ orders'[o] = new
      /\ \A p \in OrderIds \ {o} : orders'[p] = orders[p]
  BY DEF SafetyInv, TypeInv, OrderTypeOK, DatabaseTypeOK
<1>2. \A p \in OrderIds : RowGrows(orders[p], orders'[p])
  BY <1>1 DEF RowGrows
<1>3. \A s \in OrderRequests :
        Creating(calls[s]) => calls[s].order \in OrderIds \ {o}
  BY DEF SafetyInv, SafeCalls, SafeCall, Creating, TypeInv, KeysOK,
         InTransit, Phases
<1>4. SafeCalls' /\ DistinctCreations'
  BY <1>1, <1>2, <1>3, CallsStaySafe
<1>5. new.life # "absent"
  BY DEF RowGrows
<1> QED
  BY <1>1, <1>2, <1>4, <1>5
  DEF SafetyInv, AbsentOrdersEmpty, ConfirmedOrdersHaveItems

LEMMA SafetySaveWrites ==
  ASSUME SafetyInv, TypeInv', NEW r \in OrderRequests, SaveWrites(r)
  PROVE  /\ SafetyInv'
         /\ \A p \in OrderIds : RowGrows(orders[p], orders'[p])
<1> DEFINE o == calls[r].order
           entity == calls[r].entity
           loaded == calls[r].loaded
           new == Written(entity, loaded, orders[o])
<1>1. o \in OrderIds
  BY DEF SaveWrites, SafetyInv, TypeInv, KeysOK, InTransit, Phases
<1>2. entity \in OrderRows /\ loaded \in OrderRows /\ orders[o] \in OrderRows
  BY <1>1 DEF SafetyInv, TypeInv, OrderTypeOK, DatabaseTypeOK, Calls
<1>3. Harmless(r)
  BY Ends DEF SaveWrites, SafetyInv
<1>4. CASE UNCHANGED orders
  BY <1>3, <1>4, SameTableStaysSafe DEF RowGrows
<1>5. CASE Orphaned(entity, loaded) = {} /\ orders' = [orders EXCEPT ![o] = new]
  <2>1. /\ orders[o].life # "absent" /\ entity.life # "absent"
        /\ entity.status = "CONFIRMED" => entity.items # NoItems
        /\ ItemsOf(loaded.items) \subseteq ItemsOf(orders[o].items)
    BY DEF SaveWrites, SafetyInv, SafeCalls, SafeCall, Saving
  <2>2. orders[o].status = "CONFIRMED" => orders[o].items # NoItems
    BY <1>1 DEF SafetyInv, ConfirmedOrdersHaveItems
  <2>3. RowGrows(orders[o], new)
    BY <1>2, <1>5, <2>1, WrittenGrows
  <2>4. new.status = "CONFIRMED" => new.items # NoItems
    BY <1>2, <1>5, <2>1, <2>2, WrittenHasItems
  <2> HIDE DEF new
  <2> QED
    BY <1>1, <1>3, <1>5, <2>1, <2>3, <2>4, SafetyOfWrite
<1> QED
  BY <1>4, <1>5 DEF SaveWrites

LEMMA SafetySoftDelete ==
  ASSUME SafetyInv, TypeInv', NEW r \in OrderRequests, SoftDelete(r)
  PROVE  /\ SafetyInv'
         /\ \A p \in OrderIds : RowGrows(orders[p], orders'[p])
<1> DEFINE o == calls[r].order
           new == SoftDeleted(orders[o])
<1>1. o \in OrderIds
  BY DEF SoftDelete, SafetyInv, TypeInv, KeysOK, InTransit, Phases
<1>2. /\ new.life = "deleted"
      /\ new.status = orders[o].status
      /\ new.items = orders[o].items
  BY <1>1 DEF SoftDeleted, SafetyInv, TypeInv, OrderTypeOK, DatabaseTypeOK, OrderRows
<1>3. Harmless(r)
  BY Ends DEF SoftDelete, SafetyInv
<1>4. orders[o].life # "absent"
  BY DEF SoftDelete, SafetyInv, SafeCalls, SafeCall
<1>5. orders' = [orders EXCEPT ![o] = new]
  BY DEF SoftDelete
<1>6. RowGrows(orders[o], new)
  BY <1>2 DEF RowGrows
<1>7. new.status = "CONFIRMED" => new.items # NoItems
  BY <1>1, <1>2 DEF SafetyInv, ConfirmedOrdersHaveItems
<1> HIDE DEF new
<1> QED
  BY <1>1, <1>3, <1>4, <1>5, <1>6, <1>7, SafetyOfWrite

LEMMA SafetyNext ==
  ASSUME SafetyInv, [OrderNext]_osVars
  PROVE  /\ SafetyInv'
         /\ \A o \in OrderIds : RowGrows(orders[o], orders'[o])
<1>1. TypeInv'
  BY TypeNext DEF SafetyInv
<1>2. CASE UNCHANGED osVars
  <2>1. UNCHANGED <<calls, orders>>
    BY <1>2 DEF osVars, dbVars, orderVars
  <2>2. SafeCalls' /\ DistinctCreations'
    BY <2>1 DEF SafetyInv, SafeCalls, DistinctCreations
  <2> QED
    BY <1>1, <2>1, <2>2
    DEF SafetyInv, AbsentOrdersEmpty, ConfirmedOrdersHaveItems, RowGrows
<1> SUFFICES ASSUME NEW r \in OrderRequests,
                    Receive(r) \/ Continue(r) \/ Crash(r)
             PROVE  /\ SafetyInv'
                    /\ \A o \in OrderIds : RowGrows(orders[o], orders'[o])
  BY <1>2 DEF OrderNext
<1>3. UNCHANGED orders => \A o \in OrderIds : RowGrows(orders[o], orders'[o])
  BY DEF RowGrows
<1>4. CASE Receive(r)
  BY <1>3, <1>4, SafetyReceive, ReceiveChangesCalls DEF dbVars
<1>5. CASE CreateLocks(r)
  BY <1>1, <1>3, <1>5, SafetyCreateLocks DEF CreateLocks
<1>6. CASE CreateInserts(r)
  BY <1>1, <1>6, SafetyCreateInserts
<1>7. CASE SaveReads(r)
  BY <1>1, <1>3, <1>7, SafetySaveReads DEF SaveReads, dbVars
<1>8. CASE SaveWrites(r)
  BY <1>1, <1>8, SafetySaveWrites
<1>9. CASE SoftDelete(r)
  BY <1>1, <1>9, SafetySoftDelete
<1>10. CASE Emit(r) \/ Crash(r)
  <2>1. Harmless(r) /\ UNCHANGED orders
    BY <1>10, Ends DEF Emit, Crash, dbVars, SafetyInv
  <2> QED
    BY <1>1, <1>3, <2>1, SameTableStaysSafe
<1> QED
  BY <1>4, <1>5, <1>6, <1>7, <1>8, <1>9, <1>10 DEF Continue
-----------------------------------------------------------------------------
LEMMA SafetyAlways == OrderSpec => []SafetyInv
<1>1. SafetyInv /\ [OrderNext]_osVars => SafetyInv'
  BY SafetyNext
<1> QED
  BY <1>1, SafetyInit, PTL DEF OrderSpec

(* Only an order with items is ever CONFIRMED, although confirm checks a    *)
(* copy and the saves of other requests may come in between.                *)
THEOREM ConfirmedHaveItems == OrderSpec => []ConfirmedOrdersHaveItems
<1>1. SafetyInv => ConfirmedOrdersHaveItems
  BY DEF SafetyInv
<1> QED
  BY <1>1, SafetyAlways, PTL

(* No save takes off an item it had not been asked to remove, so that no    *)
(* acknowledged addItem is lost, whichever saves of older copies come after *)
(* it: every save that would drop an item is refused as a whole.            *)
THEOREM ItemsKept == OrderSpec => ItemsLeaveOnlyByRemoval
<1> DEFINE Gone(o) == ItemsOf(orders[o].items) \ ItemsOf(orders'[o].items)
           Kept == \A o \in OrderIds :
                     Gone(o) # {} => /\ Cardinality(Gone(o)) = 1
                                     /\ \E r \in OrderRequests : Removes(r, o)
<1>1. SafetyInv /\ [OrderNext]_osVars => [Kept]_osVars
  BY SafetyNext DEF RowGrows
<1> QED
  BY <1>1, SafetyAlways, PTL DEF OrderSpec, ItemsLeaveOnlyByRemoval
-----------------------------------------------------------------------------
(* The lock table mirrors the calls: a step that changes the call of one    *)
(* request changes the locks of that request only, and in the same way.     *)
Holding(call, c) == call.pc = "inserting" /\ call.entity.customer = c

LEMMA LocksFollow ==
  ASSUME TypeInv, LocksHeldByCreations, NEW r \in OrderRequests,
         \A s \in OrderRequests \ {r} : calls'[s] = calls[s],
         \A c \in CustomerIds :
           rowLocks'[c].share = IF Holding(calls'[r], c)
                                THEN rowLocks[c].share \cup {r}
                                ELSE rowLocks[c].share \ {r}
  PROVE  LocksHeldByCreations'
<1> SUFFICES ASSUME NEW c \in CustomerIds
             PROVE  rowLocks'[c].share
                      = {s \in OrderRequests : calls'[s].pc = "inserting"
                                                 /\ calls'[s].entity.customer = c}
  BY DEF LocksHeldByCreations
<1>1. rowLocks[c].share = {s \in OrderRequests : Holding(calls[s], c)}
  BY DEF LocksHeldByCreations, Holding
<1>2. CASE Holding(calls'[r], c)
  <2>1. rowLocks'[c].share = rowLocks[c].share \cup {r}
    BY <1>2
  <2> QED
    BY <1>1, <1>2, <2>1 DEF Holding
<1>3. CASE ~Holding(calls'[r], c)
  <2>1. rowLocks'[c].share = rowLocks[c].share \ {r}
    BY <1>3
  <2> QED
    BY <1>1, <1>3, <2>1 DEF Holding
<1> QED
  BY <1>2, <1>3

(* The locks stay, and the call neither had one nor gets one. *)
LEMMA LocksSame ==
  ASSUME TypeInv, LocksHeldByCreations, NEW r \in OrderRequests,
         calls[r].pc # "inserting", calls'[r].pc # "inserting",
         \A s \in OrderRequests \ {r} : calls'[s] = calls[s],
         UNCHANGED rowLocks
  PROVE  LocksHeldByCreations'
<1>1. \A c \in CustomerIds : r \notin rowLocks[c].share
  BY DEF LocksHeldByCreations
<1>2. \A c \in CustomerIds : rowLocks[c].share = rowLocks[c].share \ {r}
  BY <1>1
<1> QED
  BY <1>2, LocksFollow DEF Holding

LEMMA LocksReleased ==
  ASSUME TypeInv, LocksHeldByCreations, NEW r \in OrderRequests,
         NEW result, Finish(r, result), Unlock(r)
  PROVE  LocksHeldByCreations'
<1>1. /\ calls'[r].pc = "done"
      /\ \A s \in OrderRequests \ {r} : calls'[s] = calls[s]
  BY DEF Finish, Answer, Idle, TypeInv, OrderTypeOK
<1>2. \A c \in CustomerIds : rowLocks'[c].share = rowLocks[c].share \ {r}
  BY DEF Unlock
<1> QED
  BY <1>1, <1>2, LocksFollow DEF Holding

LEMMA LocksNext ==
  ASSUME TypeInv, LocksHeldByCreations, [OrderNext]_osVars
  PROVE  LocksHeldByCreations'
<1>1. CASE UNCHANGED osVars
  BY <1>1 DEF osVars, dbVars, orderVars, LocksHeldByCreations
<1> SUFFICES ASSUME NEW r \in OrderRequests,
                    Receive(r) \/ Continue(r) \/ Crash(r)
             PROVE  LocksHeldByCreations'
  BY <1>1 DEF OrderNext
<1>2. CASE Receive(r)
  <2>1. PICK call : NewCall(call) /\ calls' = [calls EXCEPT ![r] = call]
    BY <1>2, ReceiveStarts DEF Starts
  <2>2. /\ calls'[r].pc # "inserting"
        /\ \A s \in OrderRequests \ {r} : calls'[s] = calls[s]
    BY <2>1 DEF NewCall, TypeInv, OrderTypeOK
  <2> QED
    BY <1>2, <2>2, LocksSame, ReceiveArrives, ReceiveChangesCalls DEF dbVars
<1>3. CASE CreateLocks(r)
  <2>1. CASE Finish(r, "notFound") /\ UNCHANGED rowLocks
    <3>1. /\ calls'[r].pc = "done"
          /\ \A s \in OrderRequests \ {r} : calls'[s] = calls[s]
      BY <2>1 DEF Finish, Answer, Idle, TypeInv, OrderTypeOK
    <3> QED
      BY <1>3, <2>1, <3>1, LocksSame DEF CreateLocks
  <2>2. CASE LockForShare(r, calls[r].entity.customer) /\ Advance(r, "inserting")
    <3> DEFINE d == calls[r].entity.customer
    <3>1. /\ calls'[r].pc = "inserting"
          /\ calls'[r].entity.customer = d
          /\ \A s \in OrderRequests \ {r} : calls'[s] = calls[s]
      BY <2>2 DEF Advance, TypeInv, OrderTypeOK, Calls
    <3>2. d \in CustomerIds
      BY <1>3 DEF CreateLocks, TypeInv, KeysOK
    <3>3. /\ rowLocks'[d].share = rowLocks[d].share \cup {r}
          /\ \A c \in CustomerIds \ {d} : rowLocks'[c].share = rowLocks[c].share
      BY <2>2, <3>2 DEF LockForShare, TypeInv, OrderTypeOK, DatabaseTypeOK, LockTable
    <3>4. \A c \in CustomerIds : r \notin rowLocks[c].share
      BY <1>3 DEF LocksHeldByCreations, CreateLocks
    <3>5. \A c \in CustomerIds \ {d} : rowLocks'[c].share = rowLocks[c].share \ {r}
      BY <3>3, <3>4
    <3> QED
      BY <3>1, <3>3, <3>5, LocksFollow DEF Holding
  <2> QED
    BY <1>3, <2>1, <2>2 DEF CreateLocks
<1>4. CASE CreateInserts(r) \/ Crash(r)
  BY <1>4, LocksReleased DEF CreateInserts, Crash
<1>5. CASE SaveReads(r)
  <2>1. /\ calls'[r].pc = "writing"
        /\ \A s \in OrderRequests \ {r} : calls'[s] = calls[s]
    BY <1>5 DEF SaveReads, TypeInv, OrderTypeOK, Calls
  <2> QED
    BY <1>5, <2>1, LocksSame DEF SaveReads, dbVars
<1>6. CASE SaveWrites(r) \/ SoftDelete(r) \/ Emit(r)
  <2>1. Harmless(r) /\ UNCHANGED rowLocks /\ calls[r].pc # "inserting"
    BY <1>6, Ends DEF SaveWrites, SoftDelete, Emit, dbVars
  <2>2. /\ calls'[r].pc # "inserting"
        /\ \A s \in OrderRequests \ {r} : calls'[s] = calls[s]
    BY <2>1 DEF Harmless, TypeInv, OrderTypeOK
  <2> QED
    BY <2>1, <2>2, LocksSame
<1> QED
  BY <1>2, <1>3, <1>4, <1>5, <1>6 DEF Continue

(* No path out of the transaction of a creation, by commit, by rollback or  *)
(* by the death of the process, leaks a lock on the customer's row.         *)
THEOREM LocksDoNotLeak == OrderSpec => []LocksHeldByCreations
<1>1. OrderInit => LocksHeldByCreations
  BY DEF OrderInit, DatabaseInit, CallsInit, NoLocks, Idle, LocksHeldByCreations
<1>2. TypeInv /\ LocksHeldByCreations /\ [OrderNext]_osVars
        => LocksHeldByCreations'
  BY LocksNext
<1> QED
  BY <1>1, <1>2, TypeInit, TypeNext, PTL DEF OrderSpec
=============================================================================
