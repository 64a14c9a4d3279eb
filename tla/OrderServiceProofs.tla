------------------------- MODULE OrderServiceProofs -------------------------
(***************************************************************************)
(* Proofs about OrderService, for any tables, requests and routes.         *)
(***************************************************************************)
EXTENDS OrderService, TLAPS

(* The keys a call in flight holds are keys of the tables. *)
KeysOK ==
  \A r \in OrderRequests :
    /\ calls[r].pc \in InTransit => calls[r].order \in OrderIds
    /\ calls[r].pc \in {"locking", "inserting"}
         => calls[r].entity.customer \in CustomerIds

TypeInv == OrderTypeOK /\ KeysOK
-----------------------------------------------------------------------------
LEMMA TotalType ==
  ASSUME NEW items \in Items
  PROVE  Total(items) \in Totals
BY DEF Totals

LEMMA NoItemsType == NoItems \in Items
BY DEF NoItems, Items

LEMMA NoOrderType == NoOrder \in OrderRows
BY NoItemsType, TotalType DEF NoOrder, OrderRows, Lives, OrderStatus

LEMMA IdleType == Idle \in Calls
BY NoOrderType DEF Idle, Calls, Phases, OrderStatus, Results

(* Changing one item of a row gives a row again. *)
LEMMA WithItemType ==
  ASSUME NEW order \in OrderRows, NEW i \in ItemIds,
         NEW q \in Quantities \cup {0}
  PROVE  WithItem(order, i, q) \in OrderRows
<1> DEFINE items == [order.items EXCEPT ![i] = q]
<1>1. items \in Items
  BY DEF OrderRows, Items
<1>2. Total(items) \in Totals
  BY <1>1, TotalType
<1>3. WithItem(order, i, q) = [order EXCEPT !.items = items, !.total = Total(items)]
  BY DEF WithItem
<1> HIDE DEF items
<1> QED
  BY <1>1, <1>2, <1>3 DEF OrderRows

LEMMA NewOrderType ==
  ASSUME NEW c \in CustomerIds, NEW caller \in Callers, NEW items \in Items
  PROVE  NewOrder(c, caller, items) \in OrderRows
BY TotalType DEF NewOrder, OrderRows, Lives, OrderStatus

(* What a save leaves in the table is a row, whatever it merges. *)
LEMMA WrittenType ==
  ASSUME NEW entity \in OrderRows, NEW loaded \in OrderRows,
         NEW row \in OrderRows
  PROVE  Written(entity, loaded, row) \in OrderRows
<1>1. [i \in ItemIds |-> Differing(entity.items[i], loaded.items[i], row.items[i])] \in Items
  BY DEF OrderRows, Items, Differing
<1>2. NextVersion(entity, loaded, row) \in Nat
  BY DEF OrderRows, NextVersion
<1>3. /\ Differing(entity.life, loaded.life, row.life) \in Lives
      /\ Differing(entity.status, loaded.status, row.status) \in OrderStatus
      /\ Differing(entity.total, loaded.total, row.total) \in Totals
  BY DEF OrderRows, Differing
<1> QED
  BY <1>1, <1>2, <1>3 DEF Written, OrderRows

LEMMA SoftDeletedType ==
  ASSUME NEW row \in OrderRows
  PROVE  SoftDeleted(row) \in OrderRows
<1>1. row.version + 1 \in Nat
  BY DEF OrderRows
<1> QED
  BY <1>1 DEF SoftDeleted, OrderRows, Lives
-----------------------------------------------------------------------------
(* Every change of calls replaces the call of one request.  The two lemmas  *)
(* say when that keeps the types and the keys.                              *)
CallOK(call) ==
  /\ call \in Calls
  /\ call.pc \in InTransit => call.order \in OrderIds
  /\ call.pc \in {"locking", "inserting"} => call.entity.customer \in CustomerIds

LEMMA CallsKept ==
  ASSUME TypeInv, NEW r \in OrderRequests, NEW call, CallOK(call),
         calls' = [calls EXCEPT ![r] = call]
  PROVE  /\ calls' \in [OrderRequests -> Calls]
         /\ KeysOK'
<1>1. calls' \in [OrderRequests -> Calls]
  BY DEF TypeInv, OrderTypeOK, CallOK
<1>2. ASSUME NEW s \in OrderRequests
      PROVE  CallOK(calls'[s])
  BY DEF TypeInv, OrderTypeOK, KeysOK, CallOK
<1> QED
  BY <1>1, <1>2 DEF KeysOK, CallOK

LEMMA AnswerOK ==
  ASSUME TypeInv, NEW r \in OrderRequests, NEW op \in Routes \cup {NoValue},
         NEW result \in Results, Answer(r, op, result)
  PROVE  /\ calls' \in [OrderRequests -> Calls]
         /\ KeysOK'
<1> DEFINE call == [Idle EXCEPT !.pc = "done", !.op = op, !.result = result]
<1>1. CallOK(call)
  BY IdleType DEF CallOK, Idle, Calls, Phases, InTransit
<1>2. calls' = [calls EXCEPT ![r] = call]
  BY DEF Answer
<1> QED
  BY <1>1, <1>2, CallsKept

LEMMA FinishOK ==
  ASSUME TypeInv, NEW r \in OrderRequests, NEW result \in Results,
         Finish(r, result)
  PROVE  /\ calls' \in [OrderRequests -> Calls]
         /\ KeysOK'
<1>1. calls[r].op \in Routes \cup {NoValue}
  BY DEF TypeInv, OrderTypeOK, Calls
<1> QED
  BY <1>1, AnswerOK DEF Finish

LEMMA AdvanceOK ==
  ASSUME TypeInv, NEW r \in OrderRequests, NEW pc \in InTransit,
         calls[r].pc \in InTransit,
         pc \in {"locking", "inserting"} => calls[r].entity.customer \in CustomerIds,
         Advance(r, pc)
  PROVE  /\ calls' \in [OrderRequests -> Calls]
         /\ KeysOK'
<1> DEFINE call == [calls[r] EXCEPT !.pc = pc]
<1>1. CallOK(call)
  BY DEF CallOK, TypeInv, OrderTypeOK, KeysOK, Calls, InTransit
<1>2. calls' = [calls EXCEPT ![r] = call]
  BY DEF Advance
<1> QED
  BY <1>1, <1>2, CallsKept

LEMMA SaveOK ==
  ASSUME TypeInv, NEW r \in OrderRequests, NEW op \in Routes,
         NEW o \in OrderIds, NEW entity \in OrderRows, Save(r, op, o, entity)
  PROVE  /\ calls' \in [OrderRequests -> Calls]
         /\ KeysOK'
<1> DEFINE call == [Idle EXCEPT !.pc = "reading", !.op = op, !.order = o,
                                !.entity = entity, !.from = orders[o].status]
<1>1. orders[o].status \in OrderStatus
  BY DEF TypeInv, OrderTypeOK, DatabaseTypeOK, OrderRows
<1>2. CallOK(call)
  BY <1>1, IdleType DEF CallOK, Idle, Calls, Phases, InTransit
<1>3. calls' = [calls EXCEPT ![r] = call]
  BY DEF Save
<1> QED
  BY <1>2, <1>3, CallsKept

LEMMA LocksKept ==
  ASSUME TypeInv, NEW r \in OrderRequests, Unlock(r)
  PROVE  rowLocks' \in LockTable
BY DEF TypeInv, OrderTypeOK, DatabaseTypeOK, LockTable, Unlock
-----------------------------------------------------------------------------
LEMMA TypeInit == OrderInit => TypeInv
<1> SUFFICES ASSUME OrderInit
             PROVE  TypeInv
  OBVIOUS
<1>1. DatabaseTypeOK
  BY DatabaseAssumption, NoOrderType
  DEF OrderInit, DatabaseInit, DatabaseTypeOK, LockTable, NoLocks
<1>2. calls \in [OrderRequests -> Calls] /\ KeysOK
  BY IdleType DEF OrderInit, CallsInit, KeysOK, Idle, InTransit
<1> QED
  BY <1>1, <1>2 DEF TypeInv, OrderTypeOK, OrderInit, CallsInit

(* Until it is resumed for the first time, a handler has written nothing.   *)
LEMMA ReceiveChangesCalls ==
  ASSUME NEW r \in OrderRequests, Receive(r)
  PROVE  UNCHANGED <<dbVars, events>>
<1> DEFINE Same == UNCHANGED <<dbVars, events>>
<1>1. \A op, caller, o, i, q : ChangeItem(r, op, caller, o, i, q) => Same
  BY DEF ChangeItem
<1>2. \A op, caller, o, target : ChangeStatus(r, op, caller, o, target) => Same
  BY DEF ChangeStatus
<1>3. \A caller, o, i, q : AddItem(r, caller, o, i, q) => Same
  BY DEF AddItem
<1>4. \A caller, o, i : RemoveItem(r, caller, o, i) => Same
  BY <1>1 DEF RemoveItem
<1>5. \A caller, o, i, q : UpdateItemQuantity(r, caller, o, i, q) => Same
  BY <1>1 DEF UpdateItemQuantity
<1>6. \A caller, o : Confirm(r, caller, o) \/ Cancel(r, caller, o) => Same
  BY <1>2 DEF Confirm, Cancel
<1>7. \A caller, o : Delete(r, caller, o) => Same
  BY DEF Delete
<1>8. \A op, caller, o : Forbid(r, op, caller) \/ FindFails(r, op, caller, o) => Same
  BY DEF Forbid, FindFails
<1>9. \A caller, c, o, items : Create(r, caller, c, o, items) => Same
  BY DEF Create
<1> HIDE DEF Same
<1>10. Same
  BY <1>3, <1>4, <1>5, <1>6, <1>7, <1>8, <1>9 DEF Receive
<1> QED
  BY <1>10 DEF Same

(* A request is received once, and within MaxConcurrent. *)
LEMMA ReceiveArrives ==
  ASSUME NEW r, Receive(r)
  PROVE  calls[r].pc = "idle" /\ Cardinality(InFlight) < MaxConcurrent
<1> DEFINE Room == calls[r].pc = "idle" /\ Cardinality(InFlight) < MaxConcurrent
<1>1. \A op, caller : Admitted(r, op, caller) => Room
  BY DEF Admitted, Arrives
<1>2. \A op, caller, o, i, q : ChangeItem(r, op, caller, o, i, q) => Room
  BY <1>1 DEF ChangeItem
<1>3. \A op, caller, o, target : ChangeStatus(r, op, caller, o, target) => Room
  BY <1>1 DEF ChangeStatus
<1>4. \A caller, o, i, q : \/ AddItem(r, caller, o, i, q)
                           \/ UpdateItemQuantity(r, caller, o, i, q)
                           \/ RemoveItem(r, caller, o, i)
                           => Room
  BY <1>1, <1>2 DEF AddItem, UpdateItemQuantity, RemoveItem
<1>5. \A op, caller, o : \/ Forbid(r, op, caller) \/ FindFails(r, op, caller, o)
                        \/ Confirm(r, caller, o) \/ Cancel(r, caller, o)
                        \/ Delete(r, caller, o) => Room
  BY <1>1, <1>3 DEF Forbid, Arrives, FindFails, Confirm, Cancel, Delete
<1>6. \A caller, c, o, items : Create(r, caller, c, o, items) => Room
  BY <1>1 DEF Create
<1> HIDE DEF Room
<1>7. Room
  BY <1>4, <1>5, <1>6 DEF Receive
<1> QED
  BY <1>7 DEF Room

LEMMA TypeReceive ==
  ASSUME TypeInv, NEW r \in OrderRequests, Receive(r)
  PROVE  TypeInv'
<1>1. UNCHANGED <<dbVars, events>>
  BY ReceiveChangesCalls
<1>2. calls' \in [OrderRequests -> Calls] /\ KeysOK'
  <2>1. PICK caller \in Callers :
          \/ \E o \in OrderIds, c \in CustomerIds, items \in Items :
               Create(r, caller, c, o, items)
          \/ \E op \in Routes : Forbid(r, op, caller)
          \/ \E o \in OrderIds :
               \/ \E op \in Routes : FindFails(r, op, caller, o)
               \/ \E i \in ItemIds, q \in Quantities :
                    AddItem(r, caller, o, i, q) \/ UpdateItemQuantity(r, caller, o, i, q)
               \/ \E i \in ItemIds : RemoveItem(r, caller, o, i)
               \/ Confirm(r, caller, o)
               \/ Cancel(r, caller, o)
               \/ Delete(r, caller, o)
    BY DEF Receive
  <2>2. CASE \E o \in OrderIds, c \in CustomerIds, items \in Items :
               Create(r, caller, c, o, items)
    <3>1. PICK o \in OrderIds, c \in CustomerIds, items \in Items :
            Create(r, caller, c, o, items)
      BY <2>2
    <3> DEFINE call == [Idle EXCEPT !.pc = "locking", !.op = "create",
                                    !.order = o,
                                    !.entity = NewOrder(c, caller, items)]
    <3>2. /\ NewOrder(c, caller, items) \in OrderRows
          /\ NewOrder(c, caller, items).customer = c
      BY NewOrderType DEF NewOrder
    <3>3. CallOK(call)
      BY <3>2, IdleType DEF CallOK, Idle, Calls, Phases, Routes
    <3>4. calls' = [calls EXCEPT ![r] = call]
      BY <3>1 DEF Create
    <3> QED
      BY <3>3, <3>4, CallsKept
  <2>4. CASE \E op \in Routes : Forbid(r, op, caller)
    BY <2>4, AnswerOK DEF Forbid, Results
  <2> SUFFICES ASSUME NEW o \in OrderIds,
                      \/ \E op \in Routes : FindFails(r, op, caller, o)
                      \/ \E i \in ItemIds, q \in Quantities :
                           AddItem(r, caller, o, i, q) \/ UpdateItemQuantity(r, caller, o, i, q)
                      \/ \E i \in ItemIds : RemoveItem(r, caller, o, i)
                      \/ Confirm(r, caller, o)
                      \/ Cancel(r, caller, o)
                      \/ Delete(r, caller, o)
               PROVE  calls' \in [OrderRequests -> Calls] /\ KeysOK'
    BY <2>1, <2>2, <2>4
  <2>3. orders[o] \in OrderRows
    BY DEF TypeInv, OrderTypeOK, DatabaseTypeOK
  <2>5. CASE \E op \in Routes : FindFails(r, op, caller, o)
    BY <2>5, AnswerOK DEF FindFails, Results
  <2>6. ASSUME NEW i \in ItemIds, NEW q \in Quantities,
               AddItem(r, caller, o, i, q)
        PROVE  calls' \in [OrderRequests -> Calls] /\ KeysOK'
    <3>1. WithItem(orders[o], i, q) \in OrderRows
      BY <2>3, WithItemType
    <3>2. CASE Answer(r, "addItem", "invalid")
      BY <3>2, AnswerOK DEF Routes, Results
    <3>3. CASE Save(r, "addItem", o, WithItem(orders[o], i, q))
      BY <3>1, <3>3, SaveOK DEF Routes
    <3> QED
      BY <2>6, <3>2, <3>3 DEF AddItem
  <2>7. ASSUME NEW op \in Routes, NEW i \in ItemIds,
               NEW q \in Quantities \cup {0}, ChangeItem(r, op, caller, o, i, q)
        PROVE  calls' \in [OrderRequests -> Calls] /\ KeysOK'
    <3>1. WithItem(orders[o], i, q) \in OrderRows
      BY <2>3, WithItemType
    <3>2. CASE Answer(r, op, "invalid") \/ Answer(r, op, "notFound")
      BY <3>2, AnswerOK DEF Results
    <3>3. CASE Save(r, op, o, WithItem(orders[o], i, q))
      BY <3>1, <3>3, SaveOK
    <3> QED
      BY <2>7, <3>2, <3>3 DEF ChangeItem
  <2>8. ASSUME NEW op \in Routes, NEW target \in OrderStatus,
               ChangeStatus(r, op, caller, o, target)
        PROVE  calls' \in [OrderRequests -> Calls] /\ KeysOK'
    <3>1. [orders[o] EXCEPT !.status = target] \in OrderRows
      BY <2>3 DEF OrderRows
    <3>2. CASE Answer(r, op, "invalid")
      BY <3>2, AnswerOK DEF Results
    <3>3. CASE Save(r, op, o, [orders[o] EXCEPT !.status = target])
      BY <3>1, <3>3, SaveOK
    <3> QED
      BY <2>8, <3>2, <3>3 DEF ChangeStatus
  <2>9. CASE Delete(r, caller, o)
    <3> DEFINE call == [Idle EXCEPT !.pc = "deleting", !.op = "delete", !.order = o]
    <3>1. CallOK(call)
      BY IdleType DEF CallOK, Idle, Calls, Phases, Routes, InTransit
    <3>2. calls' = [calls EXCEPT ![r] = call]
      BY <2>9 DEF Delete
    <3> QED
      BY <3>1, <3>2, CallsKept
  <2>10. \A i \in ItemIds : RemoveItem(r, caller, o, i)
           => calls' \in [OrderRequests -> Calls] /\ KeysOK'
    BY <2>7 DEF RemoveItem, Routes
  <2>11. \A i \in ItemIds, q \in Quantities : UpdateItemQuantity(r, caller, o, i, q)
           => calls' \in [OrderRequests -> Calls] /\ KeysOK'
    BY <2>7 DEF UpdateItemQuantity, Routes
  <2>12. Confirm(r, caller, o) \/ Cancel(r, caller, o)
           => calls' \in [OrderRequests -> Calls] /\ KeysOK'
    BY <2>8 DEF Confirm, Cancel, Routes, OrderStatus
  <2> QED
    BY <2>5, <2>6, <2>9, <2>10, <2>11, <2>12
<1> QED
  BY <1>1, <1>2 DEF TypeInv, OrderTypeOK, DatabaseTypeOK, dbVars

LEMMA TypeContinue ==
  ASSUME TypeInv, NEW r \in OrderRequests, Continue(r)
  PROVE  TypeInv'
<1> DEFINE o == calls[r].order
           c == calls[r].entity.customer
<1>1. /\ calls[r] \in Calls
      /\ calls[r].entity \in OrderRows
      /\ calls[r].loaded \in OrderRows
      /\ calls[r].from \in OrderStatus
  BY DEF TypeInv, OrderTypeOK, Calls
<1>2. CASE CreateLocks(r)
  <2>1. calls' \in [OrderRequests -> Calls] /\ KeysOK'
    <3>1. CASE Advance(r, "inserting")
      BY <1>2, <3>1, AdvanceOK DEF CreateLocks, TypeInv, KeysOK, InTransit, Phases
    <3>2. CASE Finish(r, "notFound")
      BY <3>2, FinishOK DEF Results
    <3> QED
      BY <1>2, <3>1, <3>2 DEF CreateLocks
  <2>2. rowLocks' \in LockTable
    BY <1>2 DEF CreateLocks, LockForShare, LockTable, TypeInv, OrderTypeOK,
                DatabaseTypeOK
  <2> QED
    BY <1>2, <2>1, <2>2 DEF CreateLocks, TypeInv, OrderTypeOK, DatabaseTypeOK
<1>3. CASE CreateInserts(r)
  <2>1. calls' \in [OrderRequests -> Calls] /\ KeysOK'
    BY <1>3, FinishOK DEF CreateInserts, Results
  <2>2. rowLocks' \in LockTable
    BY <1>3, LocksKept DEF CreateInserts
  <2>3. orders' \in [OrderIds -> OrderRows]
    BY <1>1, <1>3 DEF CreateInserts, TypeInv, OrderTypeOK, DatabaseTypeOK
  <2> QED
    BY <1>3, <2>1, <2>2, <2>3 DEF CreateInserts, TypeInv, OrderTypeOK, DatabaseTypeOK
<1>4. CASE SaveReads(r)
  <2> DEFINE call == [calls[r] EXCEPT !.pc = "writing", !.loaded = orders[o]]
  <2>1. o \in OrderIds
    BY <1>4 DEF SaveReads, TypeInv, KeysOK, InTransit, Phases
  <2>2. orders[o] \in OrderRows
    BY <2>1 DEF TypeInv, OrderTypeOK, DatabaseTypeOK
  <2>3. CallOK(call)
    BY <1>1, <2>1, <2>2 DEF CallOK, Calls, Phases
  <2>4. calls' = [calls EXCEPT ![r] = call]
    BY <1>4 DEF SaveReads, TypeInv, OrderTypeOK
  <2>5. calls' \in [OrderRequests -> Calls] /\ KeysOK'
    BY <2>3, <2>4, CallsKept
  <2> QED
    BY <1>4, <2>5 DEF SaveReads, TypeInv, OrderTypeOK, DatabaseTypeOK, dbVars
<1>5. CASE SaveWrites(r)
  <2>1. o \in OrderIds
    BY <1>5 DEF SaveWrites, TypeInv, KeysOK, InTransit, Phases
  <2>2. calls' \in [OrderRequests -> Calls] /\ KeysOK'
    <3>1. CASE Finish(r, "error") \/ Finish(r, "ok")
      BY <3>1, FinishOK DEF Results
    <3>2. CASE Advance(r, "emitting")
      BY <1>5, <3>2, AdvanceOK DEF SaveWrites, InTransit, Phases
    <3> QED
      BY <1>5, <3>1, <3>2 DEF SaveWrites
  <2>3. Written(calls[r].entity, calls[r].loaded, orders[o]) \in OrderRows
    BY <1>1, <2>1, WrittenType DEF TypeInv, OrderTypeOK, DatabaseTypeOK
  <2>4. orders' \in [OrderIds -> OrderRows]
    BY <1>5, <2>3 DEF SaveWrites, TypeInv, OrderTypeOK, DatabaseTypeOK
  <2>5. outdated' \subseteq OrderIds \cup CustomerIds
    BY <1>5, <2>1 DEF SaveWrites, Overwrites, TypeInv, OrderTypeOK, DatabaseTypeOK
  <2> QED
    BY <1>5, <2>2, <2>4, <2>5 DEF SaveWrites, TypeInv, OrderTypeOK, DatabaseTypeOK
<1>6. CASE SoftDelete(r)
  <2>1. calls' \in [OrderRequests -> Calls] /\ KeysOK'
    BY <1>6, FinishOK DEF SoftDelete, Results
  <2>2. orders' \in [OrderIds -> OrderRows]
    <3>1. o \in OrderIds
      BY <1>6 DEF SoftDelete, TypeInv, KeysOK, InTransit, Phases
    <3>2. SoftDeleted(orders[o]) \in OrderRows
      BY <3>1, SoftDeletedType DEF TypeInv, OrderTypeOK, DatabaseTypeOK
    <3> QED
      BY <1>6, <3>1, <3>2 DEF SoftDelete, TypeInv, OrderTypeOK, DatabaseTypeOK
  <2> QED
    BY <1>6, <2>1, <2>2 DEF SoftDelete, TypeInv, OrderTypeOK, DatabaseTypeOK
<1>7. CASE Emit(r)
  <2>1. calls' \in [OrderRequests -> Calls] /\ KeysOK'
    BY <1>7, FinishOK DEF Emit, Results
  <2>2. o \in OrderIds
    BY <1>7 DEF Emit, TypeInv, KeysOK, InTransit, Phases
  <2>3. events' \subseteq Events
    BY <1>1, <1>7, <2>2 DEF Emit, Events, OrderRows, TypeInv, OrderTypeOK
  <2> QED
    BY <1>7, <2>1, <2>3 DEF Emit, TypeInv, OrderTypeOK, DatabaseTypeOK, dbVars
<1> QED
  BY <1>2, <1>3, <1>4, <1>5, <1>6, <1>7 DEF Continue

LEMMA TypeCrash ==
  ASSUME TypeInv, NEW r \in OrderRequests, Crash(r)
  PROVE  TypeInv'
<1>1. calls' \in [OrderRequests -> Calls] /\ KeysOK'
  BY FinishOK DEF Crash, Results
<1>2. rowLocks' \in LockTable
  BY LocksKept DEF Crash
<1> QED
  BY <1>1, <1>2 DEF Crash, TypeInv, OrderTypeOK, DatabaseTypeOK

LEMMA TypeNext == TypeInv /\ [OrderNext]_osVars => TypeInv'
<1> SUFFICES ASSUME TypeInv, [OrderNext]_osVars
             PROVE  TypeInv'
  OBVIOUS
<1>1. CASE UNCHANGED osVars
  BY <1>1 DEF osVars, dbVars, orderVars, TypeInv, OrderTypeOK, DatabaseTypeOK, KeysOK
<1>2. ASSUME NEW r \in OrderRequests, Receive(r) \/ Continue(r) \/ Crash(r)
      PROVE  TypeInv'
  BY <1>2, TypeReceive, TypeContinue, TypeCrash
<1> QED
  BY <1>1, <1>2 DEF OrderNext

(* Every behavior of OrderService keeps its tables, its calls and its       *)
(* events well-formed: merging a stale copy into a row never produces a row *)
(* the schema could not hold.                                               *)
THEOREM TypeCorrect == OrderSpec => []OrderTypeOK
<1>1. TypeInv => OrderTypeOK
  BY DEF TypeInv
<1> QED
  BY TypeInit, TypeNext, <1>1, PTL DEF OrderSpec
=============================================================================
