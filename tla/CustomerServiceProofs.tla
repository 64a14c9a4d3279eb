----------------------- MODULE CustomerServiceProofs ------------------------
(***************************************************************************)
(* Proofs about CustomerService, for any tables, requests and routes.  The *)
(* lemmas speak of a step of CustomerService and of tables that others may *)
(* change as well, so that OrderApiProofs can use them.                    *)
(***************************************************************************)
EXTENDS CustomerService, TLAPS

(* The key a call in flight holds is a key of the table. *)
CustomerKeysOK ==
  \A k \in CustomerRequests :
    customerCalls[k].pc \in CustomerInTransit
      => customerCalls[k].customer \in CustomerIds

CustomerTypeInv == CustomerTypeOK /\ CustomerKeysOK

Checking(call) == call.pc \in {"checkingTaxId", "checkingPassport"}
Registering(call) ==
  \/ call.pc = "inserting"
  \/ Checking(call) /\ call.op = "createCustomer"
Updating(call) ==
  \/ call.pc \in {"reading", "writing"}
  \/ Checking(call) /\ call.op = "updateCustomer"
Deleting(call) == call.pc \in {"checkingOrders", "deleting"}

(* A registration holds the key of a row that is not there yet, an update   *)
(* that of a row that is, and a deletion past its lock that of an active    *)
(* customer: the entities in memory are active in any case.                 *)
CustomerCallOK(call, table) ==
  LET row == table[call.customer]
  IN  /\ Checking(call) => call.op \in {"createCustomer", "updateCustomer"}
      /\ Registering(call) => /\ row.life = "absent"
                              /\ call.entity.life = "active"
                              /\ call.entity.version = 1
      /\ Updating(call) => row.life # "absent" /\ call.entity.life = "active"
      /\ Deleting(call) => row.life = "active"

CustomerCallsOK ==
  \A k \in CustomerRequests : CustomerCallOK(customerCalls[k], customers)

DistinctRegistrations ==
  \A k, l \in CustomerRequests :
    /\ Registering(customerCalls[k]) /\ Registering(customerCalls[l]) /\ k # l
    => customerCalls[k].customer # customerCalls[l].customer

AbsentCustomersNew ==
  \A c \in CustomerIds : customers[c].life = "absent" => customers[c].version = 0

(* One deletion at most holds the row of a customer, and no creation then.  *)
LocksExclude ==
  \A c \in CustomerIds :
    /\ \A k, l \in rowLocks[c].update : k = l
    /\ rowLocks[c].update # {} => rowLocks[c].share = {}

CustomerInv ==
  /\ CustomerTypeInv
  /\ CustomerCallsOK
  /\ DistinctRegistrations
  /\ AbsentCustomersNew
  /\ LocksExclude
  /\ LocksHeldByDeletions
  /\ ActiveIdentifiersUnique

(* What the copies say of a row no save has overwritten: an entity with the *)
(* version of the row is a copy of the row, and the row is active.          *)
CustomerCopyOK(call, table) ==
  LET row == table[call.customer]
      entity == call.entity
      loaded == call.loaded
  IN  /\ Updating(call) =>
           /\ entity.version <= row.version
           /\ entity.version = row.version => row.life = "active"
      /\ call.pc = "writing" =>
           entity.version <= loaded.version /\ loaded.version <= row.version

CustomerCopiesOK ==
  \A k \in CustomerRequests :
    customerCalls[k].customer \notin outdated
      => CustomerCopyOK(customerCalls[k], customers)
-----------------------------------------------------------------------------
LEMMA NoCustomerType == NoCustomer \in CustomerRows /\ NoCustomer \in CustomerEntities
BY DEF NoCustomer, CustomerRows, CustomerEntities, Lives

LEMMA EmptyOrderType == NoOrder \in OrderRows
<1>1. NoItems \in Items
  BY DEF NoItems, Items
<1>2. Total(NoItems) \in Totals
  BY <1>1 DEF Totals
<1> QED
  BY <1>1, <1>2 DEF NoOrder, OrderRows, Lives, OrderStatus

LEMMA CustomerIdleType == CustomerIdle \in CustomerCalls
BY NoCustomerType DEF CustomerIdle, CustomerCalls, CustomerPhases, CustomerResults

LEMMA InsertedType ==
  ASSUME NEW entity \in CustomerEntities
  PROVE  /\ Inserted(entity) \in CustomerRows
         /\ Inserted(entity).life = entity.life
         /\ Inserted(entity).version = entity.version
BY DEF Inserted, CustomerEntities, CustomerRows

LEMMA WrittenCustomerType ==
  ASSUME NEW entity \in CustomerEntities, NEW loaded \in CustomerRows,
         NEW row \in CustomerRows
  PROVE  WrittenCustomer(entity, loaded, row) \in CustomerRows
<1>1. NextVersion(entity, loaded, row) \in Nat
  BY DEF NextVersion, CustomerEntities, CustomerRows
<1> QED
  BY <1>1 DEF WrittenCustomer, Differing, CustomerEntities, CustomerRows

LEMMA SoftDeletedCustomer ==
  ASSUME NEW row \in CustomerRows
  PROVE  /\ SoftDeleted(row) \in CustomerRows
         /\ SoftDeleted(row).life = "deleted"
         /\ SoftDeleted(row).version = row.version + 1
<1>1. row.version + 1 \in Nat
  BY DEF CustomerRows
<1> QED
  BY <1>1 DEF SoftDeleted, CustomerRows, Lives

(* Every step of CustomerService replaces the call of one request. *)
OnlyCustomerCall(k) ==
  \A l \in CustomerRequests \ {k} : customerCalls'[l] = customerCalls[l]

CallTyped(call) ==
  /\ call \in CustomerCalls
  /\ call.pc \in CustomerInTransit => call.customer \in CustomerIds

LEMMA CustomerCallsKept ==
  ASSUME CustomerTypeInv, NEW k \in CustomerRequests, NEW call, CallTyped(call),
         customerCalls' = [customerCalls EXCEPT ![k] = call]
  PROVE  /\ customerCalls' \in [CustomerRequests -> CustomerCalls]
         /\ CustomerKeysOK'
         /\ customerCalls'[k] = call /\ OnlyCustomerCall(k)
<1>1. customerCalls'[k] = call /\ OnlyCustomerCall(k)
  BY DEF CustomerTypeInv, CustomerTypeOK, OnlyCustomerCall
<1>2. customerCalls' \in [CustomerRequests -> CustomerCalls]
  BY DEF CustomerTypeInv, CustomerTypeOK, CallTyped
<1>3. \A l \in CustomerRequests : CallTyped(customerCalls'[l])
  BY <1>1 DEF CustomerTypeInv, CustomerTypeOK, CustomerKeysOK, CallTyped, OnlyCustomerCall
<1> QED
  BY <1>1, <1>2, <1>3 DEF CustomerKeysOK, CallTyped

LEMMA CustomerStartsOK ==
  ASSUME CustomerTypeInv, NEW k \in CustomerRequests,
         NEW pc \in CustomerPhases, NEW op \in CustomerRoutes,
         NEW c \in CustomerIds, NEW entity \in CustomerEntities,
         CustomerStarts(k, pc, op, c, entity)
  PROVE  /\ customerCalls' \in [CustomerRequests -> CustomerCalls]
         /\ CustomerKeysOK' /\ OnlyCustomerCall(k)
         /\ customerCalls'[k].pc = pc /\ customerCalls'[k].op = op
         /\ customerCalls'[k].customer = c /\ customerCalls'[k].entity = entity
<1> DEFINE call == [CustomerIdle EXCEPT !.pc = pc, !.op = op, !.customer = c,
                                        !.entity = entity]
<1>1. CallTyped(call) /\ call.pc = pc /\ call.op = op /\ call.customer = c
      /\ call.entity = entity
  BY CustomerIdleType DEF CallTyped, CustomerIdle, CustomerCalls
<1>2. customerCalls' = [customerCalls EXCEPT ![k] = call]
  BY DEF CustomerStarts
<1> HIDE DEF call
<1> QED
  BY <1>1, <1>2, CustomerCallsKept

LEMMA CustomerFinishesOK ==
  ASSUME CustomerTypeInv, NEW k \in CustomerRequests,
         NEW op \in CustomerRoutes \cup {NoValue},
         NEW result \in CustomerResults, CustomerFinishes(k, op, result)
  PROVE  /\ customerCalls' \in [CustomerRequests -> CustomerCalls]
         /\ CustomerKeysOK' /\ OnlyCustomerCall(k)
         /\ customerCalls'[k].pc = "done"
<1> DEFINE call == [CustomerIdle EXCEPT !.pc = "done", !.op = op, !.result = result]
<1>1. CallTyped(call) /\ call.pc = "done"
  BY CustomerIdleType
  DEF CallTyped, CustomerIdle, CustomerCalls, CustomerPhases, CustomerInTransit
<1>2. customerCalls' = [customerCalls EXCEPT ![k] = call]
  BY DEF CustomerFinishes
<1> HIDE DEF call
<1> QED
  BY <1>1, <1>2, CustomerCallsKept

LEMMA CustomerAdvancesOK ==
  ASSUME CustomerTypeInv, NEW k \in CustomerRequests,
         NEW pc \in CustomerInTransit, customerCalls[k].pc \in CustomerInTransit,
         CustomerAdvances(k, pc)
  PROVE  /\ customerCalls' \in [CustomerRequests -> CustomerCalls]
         /\ CustomerKeysOK' /\ OnlyCustomerCall(k)
         /\ customerCalls'[k] = [customerCalls[k] EXCEPT !.pc = pc]
         /\ customerCalls'[k].pc = pc
         /\ customerCalls'[k].op = customerCalls[k].op
         /\ customerCalls'[k].customer = customerCalls[k].customer
         /\ customerCalls'[k].entity = customerCalls[k].entity
<1> DEFINE call == [customerCalls[k] EXCEPT !.pc = pc]
<1>1. /\ CallTyped(call) /\ call.pc = pc
      /\ call.op = customerCalls[k].op
      /\ call.customer = customerCalls[k].customer
      /\ call.entity = customerCalls[k].entity
  BY DEF CallTyped, CustomerTypeInv, CustomerTypeOK, CustomerKeysOK, CustomerCalls,
         CustomerInTransit
<1>2. customerCalls' = [customerCalls EXCEPT ![k] = call]
  BY DEF CustomerAdvances
<1>3. /\ customerCalls' \in [CustomerRequests -> CustomerCalls]
      /\ CustomerKeysOK' /\ OnlyCustomerCall(k) /\ customerCalls'[k] = call
  <2> HIDE DEF call
  <2> QED
    BY <1>1, <1>2, CustomerCallsKept
<1> QED
  BY <1>1, <1>3
-----------------------------------------------------------------------------
(* What a request that arrives may start. *)
Received(call) ==
  \/ call.pc \in {"done", "locking"}
  \/ /\ call.pc = "checkingTaxId" /\ call.op = "createCustomer"
     /\ FreshCustomer(call.customer)
     /\ call.entity.life = "active" /\ call.entity.version = 1
  \/ /\ call.pc = "checkingTaxId" /\ call.op = "updateCustomer"
     /\ customers[call.customer].life = "active"
     /\ call.entity.life = "active"
     /\ call.entity.version = customers[call.customer].version

CallsTyped ==
  /\ customerCalls' \in [CustomerRequests -> CustomerCalls]
  /\ CustomerKeysOK'

Receives(k) ==
  /\ CallsTyped /\ OnlyCustomerCall(k) /\ UNCHANGED dbVars
  /\ customerCalls[k].pc = "idle"
  /\ Received(customerCalls'[k])

LEMMA CustomerReceives ==
  ASSUME CustomerTypeInv, NEW k \in CustomerRequests, CustomerReceive(k)
  PROVE  Receives(k)
<1>1. ASSUME NEW c \in CustomerIds, DeleteCustomer(k, c)
      PROVE  Receives(k)
  BY <1>1, CustomerStartsOK, NoCustomerType
  DEF DeleteCustomer, CustomerArrives, CustomerRoutes, CustomerPhases, Receives,
      CallsTyped, Received
<1>2. ASSUME NEW c \in CustomerIds, NEW taxId \in TaxIds,
             NEW passport \in Passports \cup {NoValue, Omitted},
             NEW email \in Emails, CreateCustomer(k, c, taxId, passport, email)
      PROVE  Receives(k)
  <2> DEFINE entity == [life |-> "active", taxId |-> taxId, passport |-> passport,
                        email |-> email, version |-> 1]
  <2>1. /\ entity \in CustomerEntities
        /\ entity.life = "active" /\ entity.version = 1
    BY DEF CustomerEntities, Lives
  <2>2. CustomerStarts(k, "checkingTaxId", "createCustomer", c, entity)
    BY <1>2 DEF CreateCustomer
  <2> HIDE DEF entity
  <2> QED
    BY <1>2, <2>1, <2>2, CustomerStartsOK
    DEF CreateCustomer, CustomerArrives, CustomerRoutes, CustomerPhases, Receives,
        CallsTyped, Received
<1>3. ASSUME NEW c \in CustomerIds, NEW taxId \in TaxIds,
             NEW passport \in Passports \cup {NoValue, Omitted},
             NEW email \in Emails, UpdateCustomer(k, c, taxId, passport, email)
      PROVE  Receives(k)
  <2> DEFINE entity == [customers[c] EXCEPT !.taxId = taxId, !.passport = passport,
                                            !.email = email]
  <2>1. customers[c] \in CustomerRows
    BY DEF CustomerTypeInv, CustomerTypeOK, DatabaseTypeOK
  <2>2. /\ entity \in CustomerEntities
        /\ entity.life = customers[c].life
        /\ entity.version = customers[c].version
    BY <2>1 DEF CustomerRows, CustomerEntities
  <2>3. CASE CustomerFinishes(k, "updateCustomer", "notFound")
    BY <1>3, <2>3, CustomerFinishesOK
    DEF UpdateCustomer, CustomerArrives, CustomerRoutes, CustomerResults, Receives,
        CallsTyped, Received
  <2>4. CASE /\ customers[c].life = "active"
             /\ CustomerStarts(k, "checkingTaxId", "updateCustomer", c, entity)
    <3> HIDE DEF entity
    <3> QED
      BY <1>3, <2>2, <2>4, CustomerStartsOK
      DEF UpdateCustomer, CustomerArrives, CustomerRoutes, CustomerPhases, Receives,
          CallsTyped, Received
  <2> QED
    BY <1>3, <2>3, <2>4 DEF UpdateCustomer
<1> QED
  BY <1>1, <1>2, <1>3 DEF CustomerReceive
-----------------------------------------------------------------------------
(* The three things a step of CustomerService leaves in order: the table,   *)
(* the locks, and the calls.                                                *)
TableInOrder ==
  /\ customers' \in [CustomerIds -> CustomerRows]
  /\ AbsentCustomersNew'
  /\ ActiveIdentifiersUnique'
LocksInOrder ==
  /\ rowLocks' \in LockTable
  /\ LocksExclude'
  /\ LocksHeldByDeletions'
CallsInOrder ==
  /\ CallsTyped
  /\ CustomerCallsOK'
  /\ DistinctRegistrations'

LEMMA AllInOrder ==
  ASSUME CustomerInv, TableInOrder, LocksInOrder, CallsInOrder, UNCHANGED orders,
         outdated' \subseteq outdated \cup CustomerIds
  PROVE  CustomerInv'
BY DEF CustomerInv, TableInOrder, LocksInOrder, CallsInOrder, CallsTyped,
       CustomerTypeInv, CustomerTypeOK, DatabaseTypeOK

LEMMA TableUntouched ==
  ASSUME CustomerInv, UNCHANGED customers
  PROVE  TableInOrder
BY DEF CustomerInv, CustomerTypeInv, CustomerTypeOK, DatabaseTypeOK, TableInOrder,
       AbsentCustomersNew, ActiveIdentifiersUnique, UniqueRows, SameTaxId, SamePassport

LEMMA RowWritten ==
  ASSUME CustomerInv, NEW c \in CustomerIds, NEW row \in CustomerRows,
         row.life # "absent", IndexAccepts(c, row),
         customers' = [customers EXCEPT ![c] = row]
  PROVE  /\ TableInOrder
         /\ customers'[c] = row
         /\ \A d \in CustomerIds \ {c} : customers'[d] = customers[d]
<1>1. /\ customers' \in [CustomerIds -> CustomerRows]
      /\ customers'[c] = row
      /\ \A d \in CustomerIds \ {c} : customers'[d] = customers[d]
  BY DEF CustomerInv, CustomerTypeInv, CustomerTypeOK, DatabaseTypeOK
<1>2. AbsentCustomersNew'
  BY <1>1 DEF CustomerInv, AbsentCustomersNew
<1>3. ASSUME NEW d \in CustomerIds, NEW e \in CustomerIds, d # e,
             customers'[d].life = "active", customers'[e].life = "active"
      PROVE  ~SameTaxId(customers'[d], customers'[e])
             /\ ~SamePassport(customers'[d], customers'[e])
  <2>1. CASE d # c /\ e # c
    BY <1>1, <1>3, <2>1 DEF CustomerInv, ActiveIdentifiersUnique, UniqueRows
  <2>2. CASE e = c
    BY <1>1, <1>3, <2>2 DEF IndexAccepts
  <2>3. CASE d = c
    <3>1. ~SameTaxId(customers'[e], row) /\ ~SamePassport(customers'[e], row)
      BY <1>1, <1>3, <2>3 DEF IndexAccepts
    <3> QED
      BY <1>1, <2>3, <3>1 DEF SameTaxId, SamePassport
  <2> QED
    BY <2>1, <2>2, <2>3
<1>4. ActiveIdentifiersUnique'
  BY <1>3 DEF ActiveIdentifiersUnique, UniqueRows
<1> QED
  BY <1>1, <1>2, <1>4 DEF TableInOrder

LEMMA LocksUntouched ==
  ASSUME CustomerInv, NEW k \in CustomerRequests, OnlyCustomerCall(k),
         UNCHANGED rowLocks,
         Deleting(customerCalls[k]) \/ Deleting(customerCalls'[k]) =>
           /\ Deleting(customerCalls[k]) /\ Deleting(customerCalls'[k])
           /\ customerCalls'[k].customer = customerCalls[k].customer
  PROVE  LocksInOrder
<1>1. rowLocks' \in LockTable /\ LocksExclude'
  BY DEF CustomerInv, CustomerTypeInv, CustomerTypeOK, DatabaseTypeOK, LocksExclude
<1>2. ASSUME NEW c \in CustomerIds, NEW l \in CustomerRequests
      PROVE  customerCalls'[l].customer = c /\ Deleting(customerCalls'[l])
               <=> customerCalls[l].customer = c /\ Deleting(customerCalls[l])
  BY DEF OnlyCustomerCall, Deleting
<1>3. LocksHeldByDeletions'
  BY <1>2 DEF CustomerInv, LocksHeldByDeletions, Deleting
<1> QED
  BY <1>1, <1>3 DEF LocksInOrder

LEMMA LocksFreed ==
  ASSUME CustomerInv, NEW k \in CustomerRequests, OnlyCustomerCall(k),
         Unlock(k), ~Deleting(customerCalls'[k])
  PROVE  LocksInOrder
<1>1. /\ rowLocks' \in LockTable
      /\ \A c \in CustomerIds : /\ rowLocks'[c].share = rowLocks[c].share \ {k}
                                /\ rowLocks'[c].update = rowLocks[c].update \ {k}
  BY DEF CustomerInv, CustomerTypeInv, CustomerTypeOK, DatabaseTypeOK, LockTable, Unlock
<1>2. LocksExclude'
  BY <1>1 DEF CustomerInv, LocksExclude
<1>3. ASSUME NEW c \in CustomerIds
      PROVE  rowLocks'[c].update
               = {l \in CustomerRequests : customerCalls'[l].customer = c
                                           /\ Deleting(customerCalls'[l])}
  <2>1. rowLocks[c].update = {l \in CustomerRequests : customerCalls[l].customer = c
                                                       /\ Deleting(customerCalls[l])}
    BY DEF CustomerInv, LocksHeldByDeletions, Deleting
  <2> QED
    BY <1>1, <2>1 DEF OnlyCustomerCall
<1>4. LocksHeldByDeletions'
  BY <1>3 DEF LocksHeldByDeletions, Deleting
<1> QED
  BY <1>1, <1>2, <1>4 DEF LocksInOrder

LEMMA LocksTaken ==
  ASSUME CustomerInv, NEW k \in CustomerRequests, OnlyCustomerCall(k),
         NEW c \in CustomerIds, UpdateLockFree(c), LockForUpdate(k, c),
         ~Deleting(customerCalls[k]), Deleting(customerCalls'[k]),
         customerCalls'[k].customer = c
  PROVE  LocksInOrder
<1>1. /\ rowLocks' \in LockTable
      /\ rowLocks'[c].share = {} /\ rowLocks'[c].update = {k}
      /\ \A d \in CustomerIds \ {c} : rowLocks'[d] = rowLocks[d]
  BY DEF CustomerInv, CustomerTypeInv, CustomerTypeOK, DatabaseTypeOK, LockTable,
         LockForUpdate, UpdateLockFree
<1>2. LocksExclude'
  BY <1>1 DEF CustomerInv, LocksExclude
<1>3. ASSUME NEW d \in CustomerIds
      PROVE  rowLocks'[d].update
               = {l \in CustomerRequests : customerCalls'[l].customer = d
                                           /\ Deleting(customerCalls'[l])}
  <2>1. rowLocks[d].update = {l \in CustomerRequests : customerCalls[l].customer = d
                                                       /\ Deleting(customerCalls[l])}
    BY DEF CustomerInv, LocksHeldByDeletions, Deleting
  <2>2. CASE d = c
    <3>1. rowLocks[c].update = {}
      BY DEF UpdateLockFree
    <3> QED
      BY <1>1, <2>1, <2>2, <3>1 DEF OnlyCustomerCall
  <2>3. CASE d # c
    BY <1>1, <2>1, <2>3 DEF OnlyCustomerCall
  <2> QED
    BY <2>2, <2>3
<1>4. LocksHeldByDeletions'
  BY <1>3 DEF LocksHeldByDeletions, Deleting
<1> QED
  BY <1>1, <1>2, <1>4 DEF LocksInOrder

LEMMA IdleCallsOK ==
  ASSUME NEW call, NEW table, call.pc \in {"idle", "done", "locking"}
  PROVE  /\ CustomerCallOK(call, table)
         /\ ~Registering(call) /\ ~Deleting(call) /\ ~Updating(call)
BY DEF CustomerCallOK, Registering, Updating, Deleting, Checking

(* The row of another call changes only in ways that call can live with. *)
RowFits(call, table, new) ==
  LET c == call.customer
  IN  \/ new[c] = table[c]
      \/ call.pc = "locking"
      \/ /\ table[c].life # "absent" /\ new[c].life # "absent"
         /\ ~Deleting(call)

LEMMA CallsStayInOrder ==
  ASSUME CustomerInv, NEW k \in CustomerRequests, CallsTyped, OnlyCustomerCall(k),
         CustomerCallOK(customerCalls'[k], customers'),
         \A l \in CustomerRequests \ {k} :
           customerCalls[l].pc \in CustomerInTransit
             => RowFits(customerCalls[l], customers, customers'),
         Registering(customerCalls'[k]) =>
           \/ /\ Registering(customerCalls[k])
              /\ customerCalls'[k].customer = customerCalls[k].customer
           \/ FreshCustomer(customerCalls'[k].customer)
  PROVE  CallsInOrder
<1>1. ASSUME NEW l \in CustomerRequests \ {k}
      PROVE  CustomerCallOK(customerCalls'[l], customers')
  <2>1. customerCalls'[l] = customerCalls[l]
    BY DEF OnlyCustomerCall
  <2>2. CustomerCallOK(customerCalls[l], customers)
    BY DEF CustomerInv, CustomerCallsOK
  <2>3. CASE customerCalls[l].pc \in CustomerInTransit
    BY <2>1, <2>2, <2>3, IdleCallsOK
    DEF RowFits, CustomerCallOK, Registering, Updating, Deleting, Checking
  <2>4. CASE customerCalls[l].pc \notin CustomerInTransit
    BY <2>1, <2>4
    DEF CustomerCallOK, Registering, Updating, Deleting, Checking, CustomerInTransit,
        CustomerPhases
  <2> QED
    BY <2>3, <2>4
<1>2. CustomerCallsOK'
  BY <1>1 DEF CustomerCallsOK
<1>3. ASSUME NEW l \in CustomerRequests \ {k}, Registering(customerCalls'[l]),
             Registering(customerCalls'[k])
      PROVE  customerCalls'[l].customer # customerCalls'[k].customer
  <2>1. customerCalls'[l] = customerCalls[l]
    BY DEF OnlyCustomerCall
  <2> QED
    BY <1>3, <2>1 DEF FreshCustomer, CustomerInv, DistinctRegistrations
<1>4. DistinctRegistrations'
  BY <1>3 DEF CustomerInv, DistinctRegistrations, OnlyCustomerCall
<1> QED
  BY <1>2, <1>4 DEF CallsInOrder
-----------------------------------------------------------------------------
(* Each step of CustomerService preserves CustomerInv. *)
LEMMA KeepReceive ==
  ASSUME CustomerInv, NEW k \in CustomerRequests, CustomerReceive(k)
  PROVE  CustomerInv'
<1>1. Receives(k)
  BY CustomerReceives DEF CustomerInv
<1> DEFINE old == customerCalls[k]
           call == customerCalls'[k]
<1>2. ~Registering(old) /\ ~Deleting(old) /\ ~Deleting(call)
  BY <1>1 DEF Receives, Received, Registering, Checking, Deleting
<1>3. Registering(call) => FreshCustomer(call.customer)
  BY <1>1 DEF Receives, Received, Registering, Checking
<1>4. CustomerCallOK(call, customers')
  BY <1>1
  DEF Receives, Received, dbVars, CustomerCallOK, FreshCustomer, Registering, Updating,
      Checking, Deleting
<1>5. /\ UNCHANGED <<customers, orders, rowLocks, outdated>>
      /\ CallsTyped /\ OnlyCustomerCall(k)
  BY <1>1 DEF Receives, dbVars
<1>6. TableInOrder
  BY <1>5, TableUntouched
<1>7. LocksInOrder
  BY <1>2, <1>5, LocksUntouched
<1>8. CallsInOrder
  BY <1>3, <1>4, <1>5, CallsStayInOrder DEF RowFits
<1> QED
  BY <1>5, <1>6, <1>7, <1>8, AllInOrder

(* A handler that goes on with the same entity, and neither touches the     *)
(* tables nor takes a lock.                                                 *)
GoesOn(k) ==
  /\ CallsTyped /\ OnlyCustomerCall(k) /\ UNCHANGED dbVars
  /\ ~Deleting(customerCalls[k]) /\ ~Deleting(customerCalls'[k])
  /\ Checking(customerCalls'[k])
       => customerCalls'[k].op \in {"createCustomer", "updateCustomer"}
  /\ Registering(customerCalls'[k]) => Registering(customerCalls[k])
  /\ Updating(customerCalls'[k]) => Updating(customerCalls[k])
  /\ Registering(customerCalls'[k]) \/ Updating(customerCalls'[k]) =>
       /\ customerCalls'[k].customer = customerCalls[k].customer
       /\ customerCalls'[k].entity = customerCalls[k].entity
  /\ customerCalls'[k].pc = "writing"
       => customerCalls'[k].loaded = customers[customerCalls'[k].customer]

LEMMA KeepGoesOn ==
  ASSUME CustomerInv, NEW k \in CustomerRequests, GoesOn(k)
  PROVE  CustomerInv'
<1>1. /\ UNCHANGED <<customers, orders, rowLocks, outdated>>
      /\ CallsTyped /\ OnlyCustomerCall(k)
  BY DEF GoesOn, dbVars
<1>2. CustomerCallOK(customerCalls[k], customers)
  BY DEF CustomerInv, CustomerCallsOK
<1>3. CustomerCallOK(customerCalls'[k], customers')
  BY <1>1, <1>2 DEF GoesOn, CustomerCallOK
<1>4. TableInOrder
  BY <1>1, TableUntouched
<1>5. LocksInOrder
  BY <1>1, LocksUntouched DEF GoesOn
<1>6. CallsInOrder
  BY <1>1, <1>3, CallsStayInOrder DEF RowFits, GoesOn
<1> QED
  BY <1>1, <1>4, <1>5, <1>6, AllInOrder

LEMMA TaxIdGoesOn ==
  ASSUME CustomerInv, NEW k \in CustomerRequests, ChecksTaxId(k)
  PROVE  GoesOn(k)
<1>1. /\ CustomerTypeInv /\ customerCalls[k].op \in CustomerRoutes \cup {NoValue}
      /\ CustomerCallOK(customerCalls[k], customers)
  BY DEF CustomerInv, CustomerCallsOK, CustomerTypeInv, CustomerTypeOK, CustomerCalls
<1>2. CASE CustomerFinishes(k, customerCalls[k].op, "duplicate")
  BY <1>1, <1>2, CustomerFinishesOK
  DEF ChecksTaxId, GoesOn, CallsTyped, CustomerResults, Registering, Updating, Deleting,
      Checking
<1>3. CASE CustomerAdvances(k, "checkingPassport")
  <2>1. customerCalls[k].pc = "checkingTaxId" /\ UNCHANGED dbVars
    BY DEF ChecksTaxId
  <2>2. customerCalls[k].op \in {"createCustomer", "updateCustomer"}
    BY <1>1, <2>1 DEF CustomerCallOK, Checking
  <2>3. /\ "checkingPassport" \in CustomerInTransit
        /\ customerCalls[k].pc \in CustomerInTransit
    BY <2>1 DEF CustomerInTransit, CustomerPhases
  <2>4. /\ CallsTyped /\ OnlyCustomerCall(k)
        /\ customerCalls'[k].pc = "checkingPassport"
        /\ customerCalls'[k].op = customerCalls[k].op
        /\ customerCalls'[k].customer = customerCalls[k].customer
        /\ customerCalls'[k].entity = customerCalls[k].entity
    BY <1>1, <1>3, <2>3, CustomerAdvancesOK DEF CallsTyped
  <2> QED
    BY <2>1, <2>2, <2>4 DEF GoesOn, Registering, Updating, Deleting, Checking
<1> QED
  BY <1>2, <1>3 DEF ChecksTaxId

LEMMA PassportGoesOn ==
  ASSUME CustomerInv, NEW k \in CustomerRequests, ChecksPassport(k)
  PROVE  GoesOn(k)
<1> DEFINE next == IF customerCalls[k].op = "createCustomer"
                   THEN "inserting" ELSE "reading"
<1>1. /\ CustomerTypeInv /\ customerCalls[k].op \in CustomerRoutes \cup {NoValue}
      /\ CustomerCallOK(customerCalls[k], customers)
  BY DEF CustomerInv, CustomerCallsOK, CustomerTypeInv, CustomerTypeOK, CustomerCalls
<1>2. CASE CustomerFinishes(k, customerCalls[k].op, "duplicate")
  BY <1>1, <1>2, CustomerFinishesOK
  DEF ChecksPassport, GoesOn, CallsTyped, CustomerResults, Registering, Updating,
      Deleting, Checking
<1>3. CASE CustomerAdvances(k, next)
  <2>1. next \in CustomerInTransit /\ customerCalls[k].pc \in CustomerInTransit
    BY DEF ChecksPassport, CustomerInTransit, CustomerPhases
  <2> QED
    BY <1>1, <1>3, <2>1, CustomerAdvancesOK
    DEF ChecksPassport, GoesOn, CallsTyped, Registering, Updating, Deleting, Checking,
        CustomerCallOK
<1> QED
  BY <1>2, <1>3 DEF ChecksPassport

LEMMA SaveReadsCustomerOK ==
  ASSUME CustomerTypeInv, NEW k \in CustomerRequests, SaveReadsCustomer(k)
  PROVE  /\ CallsTyped /\ OnlyCustomerCall(k) /\ UNCHANGED dbVars
         /\ customerCalls[k].pc = "reading" /\ customerCalls'[k].pc = "writing"
         /\ customerCalls'[k].op = customerCalls[k].op
         /\ customerCalls'[k].customer = customerCalls[k].customer
         /\ customerCalls'[k].entity = customerCalls[k].entity
         /\ customerCalls'[k].loaded = customers[customerCalls[k].customer]
<1> DEFINE old == customerCalls[k]
           call == [old EXCEPT !.pc = "writing", !.loaded = customers[old.customer]]
<1>1. old \in CustomerCalls /\ old.customer \in CustomerIds
  BY DEF CustomerTypeInv, CustomerTypeOK, CustomerKeysOK, SaveReadsCustomer,
         CustomerInTransit, CustomerPhases
<1>2. customers[old.customer] \in CustomerRows
  BY <1>1 DEF CustomerTypeInv, CustomerTypeOK, DatabaseTypeOK
<1>3. CallTyped(call)
  BY <1>1, <1>2 DEF CallTyped, CustomerCalls, CustomerPhases
<1>4. customerCalls' = [customerCalls EXCEPT ![k] = call]
  BY DEF SaveReadsCustomer, CustomerTypeInv, CustomerTypeOK
<1>5. /\ call.pc = "writing" /\ call.op = old.op /\ call.customer = old.customer
      /\ call.entity = old.entity /\ call.loaded = customers[old.customer]
  BY <1>1 DEF CustomerCalls
<1> HIDE DEF call
<1> QED
  BY <1>3, <1>4, <1>5, CustomerCallsKept DEF SaveReadsCustomer, CallsTyped

LEMMA SaveReadsGoesOn ==
  ASSUME CustomerInv, NEW k \in CustomerRequests, SaveReadsCustomer(k)
  PROVE  GoesOn(k)
BY SaveReadsCustomerOK
DEF CustomerInv, GoesOn, Registering, Updating, Deleting, Checking

(* A handler that ends without a change of the tables. *)
LEMMA FinishGoesOn ==
  ASSUME CustomerInv, NEW k \in CustomerRequests, NEW op \in CustomerRoutes \cup {NoValue},
         NEW result \in CustomerResults, CustomerFinishes(k, op, result),
         UNCHANGED dbVars, ~Deleting(customerCalls[k])
  PROVE  GoesOn(k)
<1>1. CallsTyped /\ OnlyCustomerCall(k) /\ customerCalls'[k].pc = "done"
  BY CustomerFinishesOK DEF CustomerInv, CallsTyped
<1> QED
  BY <1>1 DEF GoesOn, Registering, Updating, Deleting, Checking

(* A handler that ends, having written the row of its customer.  An update  *)
(* waits for the locks on the row.                                          *)
LEMMA WriteKeeps ==
  ASSUME CustomerInv, NEW k \in CustomerRequests, NEW op \in CustomerRoutes \cup {NoValue},
         NEW c \in CustomerIds, c = customerCalls[k].customer, NEW row \in CustomerRows,
         row.life # "absent", IndexAccepts(c, row),
         \/ Registering(customerCalls[k])
         \/ Updating(customerCalls[k]) /\ UpdateLockFree(c),
         customers' = [customers EXCEPT ![c] = row],
         CustomerFinishes(k, op, "ok"), UNCHANGED <<orders, rowLocks>>,
         outdated' \subseteq outdated \cup CustomerIds
  PROVE  CustomerInv'
<1>1. CallsTyped /\ OnlyCustomerCall(k) /\ customerCalls'[k].pc = "done"
  BY CustomerFinishesOK DEF CustomerInv, CallsTyped, CustomerResults
<1>2. /\ TableInOrder /\ customers'[c] = row
      /\ \A d \in CustomerIds \ {c} : customers'[d] = customers[d]
  BY RowWritten
<1>3. LocksInOrder
  <2>1. ~Deleting(customerCalls[k]) /\ ~Deleting(customerCalls'[k])
    BY <1>1 DEF Registering, Updating, Deleting, Checking
  <2> QED
    BY <1>1, <2>1, LocksUntouched
<1>4. /\ CustomerCallOK(customerCalls'[k], customers')
      /\ ~Registering(customerCalls'[k])
  BY <1>1, IdleCallsOK
<1>5. ASSUME NEW l \in CustomerRequests \ {k}, customerCalls[l].pc \in CustomerInTransit
      PROVE  RowFits(customerCalls[l], customers, customers')
  <2> DEFINE other == customerCalls[l]
  <2>1. other.customer \in CustomerIds /\ CustomerCallOK(other, customers)
    BY <1>5 DEF CustomerInv, CustomerTypeInv, CustomerKeysOK, CustomerCallsOK
  <2>2. CASE other.customer # c
    BY <1>2, <2>1, <2>2 DEF RowFits
  <2>3. CASE other.customer = c /\ Registering(customerCalls[k])
    <3>1. customers[c].life = "absent"
      BY <2>3 DEF CustomerInv, CustomerCallsOK, CustomerCallOK
    <3>2. ~Registering(other)
      BY <2>3 DEF CustomerInv, DistinctRegistrations
    <3>3. ~Updating(other) /\ ~Deleting(other)
      BY <2>1, <2>3, <3>1 DEF CustomerCallOK
    <3>4. other.pc = "locking"
      BY <1>5, <2>1, <3>2, <3>3
      DEF CustomerCallOK, Registering, Updating, Deleting, Checking, CustomerInTransit,
          CustomerPhases
    <3> QED
      BY <3>4 DEF RowFits
  <2>4. CASE other.customer = c /\ Updating(customerCalls[k]) /\ UpdateLockFree(c)
    <3>1. customers[c].life # "absent"
      BY <2>4 DEF CustomerInv, CustomerCallsOK, CustomerCallOK
    <3>2. l \notin rowLocks[c].update
      BY <2>4 DEF UpdateLockFree
    <3>3. ~Deleting(other)
      BY <2>4, <3>2 DEF CustomerInv, LocksHeldByDeletions, Deleting
    <3> QED
      BY <1>2, <2>4, <3>1, <3>3 DEF RowFits
  <2> QED
    BY <2>2, <2>3, <2>4
<1>6. CallsInOrder
  BY <1>1, <1>4, <1>5, CallsStayInOrder
<1> QED
  BY <1>2, <1>3, <1>6, AllInOrder

(* What holds of the call whose handler goes on. *)
LEMMA CallInTransit ==
  ASSUME CustomerInv, NEW k \in CustomerRequests,
         customerCalls[k].pc \in CustomerInTransit
  PROVE  /\ customerCalls[k].customer \in CustomerIds
         /\ customerCalls[k].entity \in CustomerEntities
         /\ customerCalls[k].loaded \in CustomerRows
         /\ customerCalls[k].op \in CustomerRoutes \cup {NoValue}
         /\ customers[customerCalls[k].customer] \in CustomerRows
         /\ CustomerCallOK(customerCalls[k], customers)
BY DEF CustomerInv, CustomerTypeInv, CustomerTypeOK, CustomerKeysOK, CustomerCallsOK,
       DatabaseTypeOK, CustomerCalls

LEMMA KeepInsert ==
  ASSUME CustomerInv, NEW k \in CustomerRequests, InsertsCustomer(k)
  PROVE  CustomerInv'
<1> DEFINE c == customerCalls[k].customer
           row == Inserted(customerCalls[k].entity)
<1>1. customerCalls[k].pc = "inserting" /\ customerCalls[k].pc \in CustomerInTransit
  BY DEF InsertsCustomer, CustomerInTransit, CustomerPhases
<1>2. Registering(customerCalls[k]) /\ ~Deleting(customerCalls[k])
  BY <1>1 DEF Registering, Deleting
<1>3. c \in CustomerIds /\ row \in CustomerRows /\ row.life = "active"
  BY <1>1, <1>2, CallInTransit, InsertedType DEF CustomerCallOK
<1>4. CASE /\ IndexAccepts(c, row) /\ customers' = [customers EXCEPT ![c] = row]
           /\ CustomerFinishes(k, "createCustomer", "ok")
  BY <1>2, <1>3, <1>4, WriteKeeps DEF InsertsCustomer, CustomerRoutes
<1>5. CASE CustomerFinishes(k, "createCustomer", "conflict") /\ UNCHANGED customers
  BY <1>2, <1>5, FinishGoesOn, KeepGoesOn
  DEF InsertsCustomer, CustomerRoutes, CustomerResults, dbVars
<1> QED
  BY <1>4, <1>5 DEF InsertsCustomer

LEMMA WrittenStaysThere ==
  ASSUME NEW entity, NEW loaded, NEW row, entity.life = "active", row.life # "absent"
  PROVE  WrittenCustomer(entity, loaded, row).life # "absent"
BY DEF WrittenCustomer, Differing

LEMMA KeepSaveWrites ==
  ASSUME CustomerInv, NEW k \in CustomerRequests, SaveWritesCustomer(k)
  PROVE  CustomerInv'
<1> DEFINE c == customerCalls[k].customer
           entity == customerCalls[k].entity
           loaded == customerCalls[k].loaded
           row == WrittenCustomer(entity, loaded, customers[c])
<1>1. customerCalls[k].pc = "writing" /\ customerCalls[k].pc \in CustomerInTransit
  BY DEF SaveWritesCustomer, CustomerInTransit, CustomerPhases
<1>2. Updating(customerCalls[k]) /\ ~Deleting(customerCalls[k])
  BY <1>1 DEF Updating, Deleting
<1>3. /\ c \in CustomerIds /\ row \in CustomerRows
      /\ entity.life = "active" /\ customers[c].life # "absent"
  BY <1>1, <1>2, CallInTransit, WrittenCustomerType DEF CustomerCallOK
<1>4. row.life # "absent"
  BY <1>3, WrittenStaysThere
<1>5. CASE /\ UNCHANGED <<customers, outdated>>
           /\ \/ CustomerFinishes(k, "updateCustomer", "ok")
              \/ CustomerFinishes(k, "updateCustomer", "conflict")
  BY <1>2, <1>5, FinishGoesOn, KeepGoesOn
  DEF SaveWritesCustomer, CustomerRoutes, CustomerResults, dbVars
<1>6. CASE /\ UpdateLockFree(c) /\ IndexAccepts(c, row)
           /\ customers' = [customers EXCEPT ![c] = row]
           /\ CustomerFinishes(k, "updateCustomer", "ok")
  <2>1. UNCHANGED <<orders, rowLocks>>
        /\ outdated' \subseteq outdated \cup CustomerIds
    BY <1>3 DEF SaveWritesCustomer, Overwrites
  <2>2. "updateCustomer" \in CustomerRoutes \cup {NoValue}
    BY DEF CustomerRoutes
  <2> HIDE DEF row
  <2> QED
    BY <1>2, <1>3, <1>4, <1>6, <2>1, <2>2, WriteKeeps
<1> QED
  BY <1>5, <1>6 DEF SaveWritesCustomer

LEMMA KeepLock ==
  ASSUME CustomerInv, NEW k \in CustomerRequests, DeleteLocks(k)
  PROVE  CustomerInv'
<1> DEFINE c == customerCalls[k].customer
<1>1. /\ customerCalls[k].pc = "locking" /\ customerCalls[k].pc \in CustomerInTransit
      /\ "checkingOrders" \in CustomerInTransit
      /\ UpdateLockFree(c) /\ UNCHANGED <<customers, orders, outdated>>
  BY DEF DeleteLocks, CustomerInTransit, CustomerPhases
<1>2. c \in CustomerIds /\ ~Deleting(customerCalls[k])
  BY <1>1, CallInTransit DEF Deleting
<1>3. CASE CustomerFinishes(k, "deleteCustomer", "notFound") /\ UNCHANGED rowLocks
  BY <1>1, <1>2, <1>3, FinishGoesOn, KeepGoesOn
  DEF CustomerRoutes, CustomerResults, dbVars
<1>4. CASE /\ customers[c].life = "active" /\ LockForUpdate(k, c)
           /\ CustomerAdvances(k, "checkingOrders")
  <2>1. /\ CallsTyped /\ OnlyCustomerCall(k)
        /\ customerCalls'[k].pc = "checkingOrders"
        /\ customerCalls'[k].customer = c
    BY <1>1, <1>4, CustomerAdvancesOK DEF CustomerInv, CallsTyped
  <2>2. Deleting(customerCalls'[k]) /\ ~Registering(customerCalls'[k])
        /\ ~Updating(customerCalls'[k]) /\ ~Checking(customerCalls'[k])
    BY <2>1 DEF Registering, Updating, Deleting, Checking
  <2>3. TableInOrder
    BY <1>1, TableUntouched
  <2>4. LocksInOrder
    BY <1>1, <1>2, <1>4, <2>1, <2>2, LocksTaken
  <2>5. CustomerCallOK(customerCalls'[k], customers')
    BY <1>1, <1>4, <2>1, <2>2 DEF CustomerCallOK
  <2>6. CallsInOrder
    BY <1>1, <2>1, <2>2, <2>5, CallsStayInOrder DEF RowFits
  <2> QED
    BY <1>1, <2>3, <2>4, <2>6, AllInOrder
<1> QED
  BY <1>3, <1>4 DEF DeleteLocks

(* A handler that ends and frees its locks. *)
LEMMA KeepEnd ==
  ASSUME CustomerInv, NEW k \in CustomerRequests, NEW op \in CustomerRoutes \cup {NoValue},
         NEW result \in CustomerResults, CustomerFinishes(k, op, result), Unlock(k),
         UNCHANGED <<orders, outdated>>, TableInOrder,
         \A l \in CustomerRequests \ {k} :
           customerCalls[l].pc \in CustomerInTransit
             => RowFits(customerCalls[l], customers, customers')
  PROVE  CustomerInv'
<1>1. CallsTyped /\ OnlyCustomerCall(k) /\ customerCalls'[k].pc = "done"
  BY CustomerFinishesOK DEF CustomerInv, CallsTyped
<1>2. /\ CustomerCallOK(customerCalls'[k], customers')
      /\ ~Registering(customerCalls'[k]) /\ ~Deleting(customerCalls'[k])
  BY <1>1, IdleCallsOK
<1>3. LocksInOrder
  BY <1>1, <1>2, LocksFreed
<1>4. CallsInOrder
  BY <1>1, <1>2, CallsStayInOrder
<1> QED
  BY <1>3, <1>4, AllInOrder

LEMMA KeepCheck ==
  ASSUME CustomerInv, NEW k \in CustomerRequests, DeleteChecks(k)
  PROVE  CustomerInv'
<1> DEFINE c == customerCalls[k].customer
<1>1. /\ customerCalls[k].pc = "checkingOrders"
      /\ customerCalls[k].pc \in CustomerInTransit /\ "deleting" \in CustomerInTransit
      /\ UNCHANGED <<customers, orders, outdated>>
  BY DEF DeleteChecks, CustomerInTransit, CustomerPhases
<1>2. TableInOrder
  BY <1>1, TableUntouched
<1>3. CASE CustomerFinishes(k, "deleteCustomer", "hasOrders") /\ Unlock(k)
  BY <1>1, <1>2, <1>3, KeepEnd DEF CustomerRoutes, CustomerResults, RowFits
<1>4. CASE CustomerAdvances(k, "deleting") /\ UNCHANGED rowLocks
  <2>1. /\ CallsTyped /\ OnlyCustomerCall(k) /\ customerCalls'[k].pc = "deleting"
        /\ customerCalls'[k].customer = c
    BY <1>1, <1>4, CustomerAdvancesOK DEF CustomerInv, CallsTyped
  <2>2. /\ Deleting(customerCalls[k]) /\ Deleting(customerCalls'[k])
        /\ ~Registering(customerCalls'[k])
        /\ ~Updating(customerCalls'[k]) /\ ~Checking(customerCalls'[k])
    BY <1>1, <2>1 DEF Registering, Updating, Deleting, Checking
  <2>3. LocksInOrder
    BY <1>4, <2>1, <2>2, LocksUntouched
  <2>4. CustomerCallOK(customerCalls'[k], customers')
    BY <1>1, <2>1, <2>2, CallInTransit DEF CustomerCallOK
  <2>5. CallsInOrder
    BY <1>1, <2>1, <2>2, <2>4, CallsStayInOrder DEF RowFits
  <2> QED
    BY <1>1, <1>2, <2>3, <2>5, AllInOrder
<1> QED
  BY <1>3, <1>4 DEF DeleteChecks

LEMMA KeepDelete ==
  ASSUME CustomerInv, NEW k \in CustomerRequests, DeleteWrites(k)
  PROVE  CustomerInv'
<1> DEFINE c == customerCalls[k].customer
           row == SoftDeleted(customers[c])
<1>1. /\ customerCalls[k].pc = "deleting" /\ Deleting(customerCalls[k])
      /\ customerCalls[k].pc \in CustomerInTransit
  BY DEF DeleteWrites, Deleting, CustomerInTransit, CustomerPhases
<1>2. /\ c \in CustomerIds /\ customers[c] \in CustomerRows
      /\ customers[c].life = "active"
  BY <1>1, CallInTransit DEF CustomerCallOK
<1>3. row \in CustomerRows /\ row.life = "deleted"
  BY <1>2, SoftDeletedCustomer
<1>4. customers' = [customers EXCEPT ![c] = row]
  BY DEF DeleteWrites
<1>5. /\ TableInOrder /\ customers'[c] = row
      /\ \A d \in CustomerIds \ {c} : customers'[d] = customers[d]
  <2>1. IndexAccepts(c, row)
    BY <1>3 DEF IndexAccepts
  <2> HIDE DEF row
  <2> QED
    BY <1>2, <1>3, <1>4, <2>1, RowWritten
<1>6. ASSUME NEW l \in CustomerRequests \ {k}, customerCalls[l].pc \in CustomerInTransit
      PROVE  RowFits(customerCalls[l], customers, customers')
  <2>1. customerCalls[l].customer \in CustomerIds
    BY <1>6, CallInTransit
  <2>2. CASE customerCalls[l].customer # c
    BY <1>5, <2>1, <2>2 DEF RowFits
  <2>3. CASE customerCalls[l].customer = c
    <3>1. k \in rowLocks[c].update
      BY <1>1, <1>2 DEF CustomerInv, LocksHeldByDeletions, Deleting
    <3>2. l \notin rowLocks[c].update
      BY <1>2, <3>1 DEF CustomerInv, LocksExclude
    <3>3. ~Deleting(customerCalls[l])
      BY <1>2, <2>3, <3>2 DEF CustomerInv, LocksHeldByDeletions, Deleting
    <3> QED
      BY <1>2, <1>3, <1>5, <2>3, <3>3 DEF RowFits
  <2> QED
    BY <2>2, <2>3
<1> QED
  BY <1>5, <1>6, KeepEnd DEF DeleteWrites, CustomerRoutes, CustomerResults

LEMMA KeepCrash ==
  ASSUME CustomerInv, NEW k \in CustomerRequests, CustomerCrash(k)
  PROVE  CustomerInv'
<1>1. /\ UNCHANGED <<customers, orders, outdated>> /\ Unlock(k)
      /\ CustomerFinishes(k, customerCalls[k].op, "lost")
      /\ customerCalls[k].op \in CustomerRoutes \cup {NoValue}
      /\ "lost" \in CustomerResults
  BY CallInTransit DEF CustomerCrash, CustomerResults
<1>2. TableInOrder
  BY <1>1, TableUntouched
<1> QED
  BY <1>1, <1>2, KeepEnd DEF RowFits

LEMMA CustomerStep ==
  ASSUME CustomerInv, NEW k \in CustomerRequests,
         CustomerReceive(k) \/ CustomerContinue(k) \/ CustomerCrash(k)
  PROVE  CustomerInv'
<1>1. CASE CustomerReceive(k)
  BY <1>1, KeepReceive
<1>2. CASE ChecksTaxId(k) \/ ChecksPassport(k) \/ SaveReadsCustomer(k)
  BY <1>2, TaxIdGoesOn, PassportGoesOn, SaveReadsGoesOn, KeepGoesOn
<1>3. CASE InsertsCustomer(k) \/ SaveWritesCustomer(k)
  BY <1>3, KeepInsert, KeepSaveWrites
<1>4. CASE DeleteLocks(k) \/ DeleteChecks(k) \/ DeleteWrites(k)
  BY <1>4, KeepLock, KeepCheck, KeepDelete
<1>5. CASE CustomerCrash(k)
  BY <1>5, KeepCrash
<1> QED
  BY <1>1, <1>2, <1>3, <1>4, <1>5 DEF CustomerContinue

LEMMA CustomerInitOK ==
  ASSUME CustomerInit
  PROVE  CustomerInv /\ CustomerCopiesOK
<1>1. /\ customers = SeedCustomers
      /\ orders = [o \in OrderIds |-> NoOrder]
      /\ rowLocks = [c \in CustomerIds |-> NoLocks]
      /\ outdated = {}
      /\ customerCalls = [k \in CustomerRequests |-> CustomerIdle]
  BY DEF CustomerInit, DatabaseInit, CustomerCallsInit
<1>2. ASSUME NEW k \in CustomerRequests
      PROVE  /\ customerCalls[k] \in CustomerCalls
             /\ customerCalls[k].pc = "idle"
  BY <1>1, CustomerIdleType DEF CustomerIdle
<1>3. CustomerTypeInv
  <2>1. customers \in [CustomerIds -> CustomerRows]
    BY <1>1, DatabaseAssumption
  <2>2. orders \in [OrderIds -> OrderRows]
    BY <1>1, EmptyOrderType
  <2>3. rowLocks \in LockTable
    BY <1>1 DEF LockTable, NoLocks
  <2>4. customerCalls \in [CustomerRequests -> CustomerCalls]
    BY <1>1, CustomerIdleType
  <2>5. CustomerKeysOK
    BY <1>2 DEF CustomerKeysOK, CustomerInTransit
  <2> QED
    BY <1>1, <2>1, <2>2, <2>3, <2>4, <2>5
    DEF CustomerTypeInv, CustomerTypeOK, DatabaseTypeOK
<1>4. CustomerCallsOK
  BY <1>2, IdleCallsOK DEF CustomerCallsOK
<1>5. DistinctRegistrations
  BY <1>2, IdleCallsOK DEF DistinctRegistrations
<1>6. AbsentCustomersNew /\ ActiveIdentifiersUnique
  BY <1>1, DatabaseAssumption
  DEF AbsentCustomersNew, ActiveIdentifiersUnique, NoCustomer
<1>7. LocksExclude
  BY <1>1 DEF LocksExclude, NoLocks
<1>8. LocksHeldByDeletions
  BY <1>1, <1>2 DEF LocksHeldByDeletions, NoLocks
<1>9. CustomerCopiesOK
  BY <1>2, IdleCallsOK DEF CustomerCopiesOK, CustomerCopyOK
<1> QED
  BY <1>3, <1>4, <1>5, <1>6, <1>7, <1>8, <1>9 DEF CustomerInv
-----------------------------------------------------------------------------
(* What a step does to a row no save has overwritten, and to the copies of  *)
(* it in memory.                                                            *)
CustomerRowMoves(row, new) ==
  \/ new = row
  \/ /\ new.version > row.version
     /\ row.life = "deleted" => new.life = "deleted"

CustomerRowsMove ==
  \A c \in CustomerIds \ outdated' : CustomerRowMoves(customers[c], customers'[c])

LEMMA OneRowMoves ==
  ASSUME CustomerInv, NEW c \in CustomerIds, NEW row,
         c \notin outdated' => CustomerRowMoves(customers[c], row),
         customers' = [customers EXCEPT ![c] = row]
  PROVE  CustomerRowsMove
<1>1. customers'[c] = row /\ \A d \in CustomerIds \ {c} : customers'[d] = customers[d]
  BY DEF CustomerInv, CustomerTypeInv, CustomerTypeOK, DatabaseTypeOK
<1> QED
  BY <1>1 DEF CustomerRowsMove, CustomerRowMoves

(* A save that finds the version it has read writes the next one, over an   *)
(* active row.                                                              *)
LEMMA CheckedWriteMoves ==
  ASSUME NEW entity \in CustomerEntities, NEW loaded \in CustomerRows,
         NEW row \in CustomerRows, entity.version = row.version,
         entity.version <= loaded.version, loaded.version <= row.version,
         row.life = "active"
  PROVE  CustomerRowMoves(row, WrittenCustomer(entity, loaded, row))
<1>1. /\ entity.version \in Nat /\ loaded.version \in Nat /\ row.version \in Nat
  BY DEF CustomerEntities, CustomerRows
<1>2. NextVersion(entity, loaded, row) = row.version + 1
  BY <1>1 DEF NextVersion
<1>3. WrittenCustomer(entity, loaded, row).version = row.version + 1
  BY <1>2 DEF WrittenCustomer
<1> QED
  BY <1>1, <1>3 DEF CustomerRowMoves

LEMMA CustomerRowsMoveStep ==
  ASSUME CustomerInv, CustomerCopiesOK, NEW k \in CustomerRequests,
         CustomerReceive(k) \/ CustomerContinue(k) \/ CustomerCrash(k)
  PROVE  CustomerRowsMove
<1> DEFINE c == customerCalls[k].customer
<1>1. CASE UNCHANGED customers
  BY <1>1 DEF CustomerRowsMove, CustomerRowMoves
<1>2. CASE InsertsCustomer(k)
  <2> DEFINE row == Inserted(customerCalls[k].entity)
  <2>1. /\ customerCalls[k].pc \in CustomerInTransit /\ Registering(customerCalls[k])
    BY <1>2 DEF InsertsCustomer, CustomerInTransit, CustomerPhases, Registering
  <2>2. /\ c \in CustomerIds /\ row.version = 1 /\ customers[c].life = "absent"
    BY <2>1, CallInTransit, InsertedType DEF CustomerCallOK
  <2>3. customers[c].version = 0
    BY <2>2 DEF CustomerInv, AbsentCustomersNew
  <2>4. CustomerRowMoves(customers[c], row)
    BY <2>2, <2>3 DEF CustomerRowMoves
  <2>5. UNCHANGED customers \/ customers' = [customers EXCEPT ![c] = row]
    BY <1>2 DEF InsertsCustomer
  <2> HIDE DEF row
  <2> QED
    BY <1>1, <2>2, <2>4, <2>5, OneRowMoves
<1>3. CASE SaveWritesCustomer(k)
  <2> DEFINE entity == customerCalls[k].entity
             loaded == customerCalls[k].loaded
             row == WrittenCustomer(entity, loaded, customers[c])
  <2>1. /\ customerCalls[k].pc \in CustomerInTransit /\ Updating(customerCalls[k])
        /\ customerCalls[k].pc = "writing"
    BY <1>3 DEF SaveWritesCustomer, CustomerInTransit, CustomerPhases, Updating
  <2>2. c \notin outdated => CustomerCopyOK(customerCalls[k], customers)
    BY DEF CustomerCopiesOK
  <2>3. ASSUME Overwrites(c, entity, loaded, customers[c]), entity # loaded,
               c \notin outdated'
        PROVE  CustomerRowMoves(customers[c], row)
    <3>1. entity.version = customers[c].version /\ c \notin outdated
      BY <2>3 DEF Overwrites
    <3>2. /\ entity.version <= loaded.version
          /\ loaded.version <= customers[c].version
          /\ customers[c].life = "active"
      BY <2>1, <2>2, <3>1 DEF CustomerCopyOK
    <3> QED
      BY <2>1, <3>1, <3>2, CallInTransit, CheckedWriteMoves
  <2>4. \/ UNCHANGED customers
        \/ /\ Overwrites(c, entity, loaded, customers[c]) /\ entity # loaded
           /\ customers' = [customers EXCEPT ![c] = row]
    BY <1>3 DEF SaveWritesCustomer
  <2>5. c \in CustomerIds
    BY <2>1, CallInTransit
  <2> HIDE DEF row
  <2> QED
    BY <1>1, <2>3, <2>4, <2>5, OneRowMoves
<1>4. CASE DeleteWrites(k)
  <2> DEFINE row == SoftDeleted(customers[c])
  <2>1. customerCalls[k].pc \in CustomerInTransit
    BY <1>4 DEF DeleteWrites, CustomerInTransit, CustomerPhases
  <2>2. c \in CustomerIds /\ customers[c] \in CustomerRows
    BY <2>1, CallInTransit
  <2>3. CustomerRowMoves(customers[c], row)
    BY <2>2, SoftDeletedCustomer DEF CustomerRowMoves, CustomerRows
  <2>4. customers' = [customers EXCEPT ![c] = row]
    BY <1>4 DEF DeleteWrites
  <2> HIDE DEF row
  <2> QED
    BY <2>2, <2>3, <2>4, OneRowMoves
<1>5. CASE CustomerReceive(k)
  BY <1>1, <1>5, CustomerReceives DEF CustomerInv, Receives, dbVars
<1>6. CASE ChecksTaxId(k) \/ ChecksPassport(k) \/ SaveReadsCustomer(k)
  BY <1>1, <1>6 DEF ChecksTaxId, ChecksPassport, SaveReadsCustomer, dbVars
<1>7. CASE DeleteLocks(k) \/ DeleteChecks(k) \/ CustomerCrash(k)
  BY <1>1, <1>7 DEF DeleteLocks, DeleteChecks, CustomerCrash
<1> QED
  BY <1>2, <1>3, <1>4, <1>5, <1>6, <1>7 DEF CustomerContinue

(* The row a call works on is at least as new as before; a row as old as    *)
(* the entity is the row it was read from.                                  *)
LEMMA CopyStays ==
  ASSUME CustomerInv, CustomerRowsMove, NEW k \in CustomerRequests,
         customerCalls[k].pc \in CustomerInTransit,
         customerCalls[k].customer \notin outdated',
         CustomerCopyOK(customerCalls[k], customers),
         customers' \in [CustomerIds -> CustomerRows]
  PROVE  CustomerCopyOK(customerCalls[k], customers')
<1> DEFINE c == customerCalls[k].customer
<1>1. /\ c \in CustomerIds
      /\ customers[c].version \in Nat /\ customers'[c].version \in Nat
      /\ customerCalls[k].entity.version \in Nat
      /\ customerCalls[k].loaded.version \in Nat
  BY CallInTransit DEF CustomerRows, CustomerEntities
<1>2. CustomerRowMoves(customers[c], customers'[c])
  BY <1>1 DEF CustomerRowsMove
<1>3. CASE customers'[c] = customers[c]
  BY <1>3 DEF CustomerCopyOK
<1>4. CASE customers'[c].version > customers[c].version
  BY <1>1, <1>4 DEF CustomerCopyOK
<1> QED
  BY <1>2, <1>3, <1>4 DEF CustomerRowMoves

LEMMA OwnCopy ==
  ASSUME CustomerInv, CustomerCopiesOK, NEW k \in CustomerRequests,
         CustomerReceive(k) \/ CustomerContinue(k) \/ CustomerCrash(k)
  PROVE  /\ OnlyCustomerCall(k)
         /\ customerCalls'[k].customer \notin outdated'
              => CustomerCopyOK(customerCalls'[k], customers')
<1>1. CASE CustomerReceive(k)
  <2>1. Receives(k)
    BY <1>1, CustomerReceives DEF CustomerInv
  <2>2. CASE Updating(customerCalls'[k])
    <3>1. /\ customers' = customers /\ customerCalls'[k].pc # "writing"
          /\ customerCalls'[k].customer \in CustomerIds
          /\ customers[customerCalls'[k].customer].life = "active"
          /\ customerCalls'[k].entity.version
               = customers[customerCalls'[k].customer].version
      BY <2>1, <2>2
      DEF Receives, Received, dbVars, Updating, Checking, CallsTyped, CustomerKeysOK,
          CustomerInTransit, CustomerPhases
    <3>2. customers[customerCalls'[k].customer].version \in Nat
      BY <3>1 DEF CustomerInv, CustomerTypeInv, CustomerTypeOK, DatabaseTypeOK, CustomerRows
    <3> QED
      BY <2>1, <3>1, <3>2 DEF CustomerCopyOK, Receives
  <2>3. CASE ~Updating(customerCalls'[k])
    BY <2>1, <2>3 DEF CustomerCopyOK, Receives, Updating
  <2> QED
    BY <2>2, <2>3
<1>2. CASE GoesOn(k)
  <2>1. CASE Updating(customerCalls'[k])
    <3> DEFINE c == customerCalls[k].customer
    <3>1. /\ Updating(customerCalls[k])
          /\ customerCalls'[k].customer = c
          /\ customerCalls'[k].entity = customerCalls[k].entity
          /\ customers' = customers /\ outdated' = outdated
          /\ customerCalls'[k].pc = "writing"
               => customerCalls'[k].loaded = customers[c]
      BY <1>2, <2>1 DEF GoesOn, dbVars
    <3>2. c \notin outdated => CustomerCopyOK(customerCalls[k], customers)
      BY DEF CustomerCopiesOK
    <3>3. customerCalls[k].pc \in CustomerInTransit
      BY <3>1 DEF Updating, Checking, CustomerInTransit, CustomerPhases
    <3>4. customers[c].version \in Nat
      BY <3>3, CallInTransit DEF CustomerRows
    <3> QED
      BY <1>2, <3>1, <3>2, <3>4 DEF CustomerCopyOK, GoesOn
  <2>2. CASE ~Updating(customerCalls'[k])
    BY <1>2, <2>2 DEF CustomerCopyOK, GoesOn, Updating
  <2> QED
    BY <2>1, <2>2
<1>3. ASSUME OnlyCustomerCall(k),
             customerCalls'[k].pc \in {"done", "checkingOrders", "deleting"}
      PROVE  OnlyCustomerCall(k) /\ CustomerCopyOK(customerCalls'[k], customers')
  BY <1>3 DEF CustomerCopyOK, Updating, Checking
<1>4. CASE InsertsCustomer(k) \/ SaveWritesCustomer(k)
  BY <1>3, <1>4, CustomerFinishesOK
  DEF CustomerInv, InsertsCustomer, SaveWritesCustomer, CustomerRoutes, CustomerResults
<1>5. CASE DeleteLocks(k)
  BY <1>3, <1>5, CustomerFinishesOK, CustomerAdvancesOK
  DEF CustomerInv, DeleteLocks, CustomerRoutes, CustomerResults, CustomerInTransit,
      CustomerPhases
<1>6. CASE DeleteChecks(k)
  BY <1>3, <1>6, CustomerFinishesOK, CustomerAdvancesOK
  DEF CustomerInv, DeleteChecks, CustomerRoutes, CustomerResults, CustomerInTransit,
      CustomerPhases
<1>7. CASE DeleteWrites(k)
  BY <1>3, <1>7, CustomerFinishesOK
  DEF CustomerInv, DeleteWrites, CustomerRoutes, CustomerResults
<1>8. CASE CustomerCrash(k)
  <2>1. /\ customerCalls[k].op \in CustomerRoutes \cup {NoValue}
        /\ CustomerFinishes(k, customerCalls[k].op, "lost")
    BY <1>8, CallInTransit DEF CustomerCrash
  <2> QED
    BY <1>3, <2>1, CustomerFinishesOK DEF CustomerInv, CustomerResults
<1>9. CASE ChecksTaxId(k) \/ ChecksPassport(k) \/ SaveReadsCustomer(k)
  BY <1>2, <1>9, TaxIdGoesOn, PassportGoesOn, SaveReadsGoesOn
<1> QED
  BY <1>1, <1>4, <1>5, <1>6, <1>7, <1>8, <1>9 DEF CustomerContinue

LEMMA OutdatedGrows ==
  ASSUME CustomerInv, NEW k \in CustomerRequests,
         CustomerReceive(k) \/ CustomerContinue(k) \/ CustomerCrash(k)
  PROVE  outdated \subseteq outdated'
<1>1. CASE CustomerReceive(k)
  BY <1>1, CustomerReceives DEF CustomerInv, Receives, dbVars
<1>2. CASE SaveWritesCustomer(k)
  BY <1>2 DEF SaveWritesCustomer, Overwrites
<1>3. CASE ChecksTaxId(k) \/ ChecksPassport(k) \/ SaveReadsCustomer(k)
  BY <1>3 DEF ChecksTaxId, ChecksPassport, SaveReadsCustomer, dbVars
<1>4. CASE DeleteLocks(k) \/ DeleteChecks(k) \/ DeleteWrites(k) \/ CustomerCrash(k)
  BY <1>4 DEF DeleteLocks, DeleteChecks, DeleteWrites, CustomerCrash
<1>5. CASE InsertsCustomer(k)
  BY <1>5 DEF InsertsCustomer
<1> QED
  BY <1>1, <1>2, <1>3, <1>4, <1>5 DEF CustomerContinue

LEMMA CopiesStep ==
  ASSUME CustomerInv, CustomerCopiesOK, NEW k \in CustomerRequests,
         CustomerReceive(k) \/ CustomerContinue(k) \/ CustomerCrash(k)
  PROVE  CustomerCopiesOK'
<1> SUFFICES ASSUME NEW l \in CustomerRequests,
                    customerCalls'[l].customer \notin outdated'
             PROVE  CustomerCopyOK(customerCalls'[l], customers')
  BY DEF CustomerCopiesOK
<1>1. CustomerRowsMove
  BY CustomerRowsMoveStep
<1>2. /\ OnlyCustomerCall(k)
      /\ l = k => CustomerCopyOK(customerCalls'[k], customers')
  BY OwnCopy
<1>6. outdated \subseteq outdated'
  BY OutdatedGrows
<1>3. customers' \in [CustomerIds -> CustomerRows]
  BY CustomerStep DEF CustomerInv, CustomerTypeInv, CustomerTypeOK, DatabaseTypeOK
<1>4. CASE l # k /\ customerCalls[l].pc \in CustomerInTransit
  <2>1. customerCalls'[l] = customerCalls[l]
    BY <1>2, <1>4 DEF OnlyCustomerCall
  <2>2. CustomerCopyOK(customerCalls[l], customers)
    BY <1>6, <2>1 DEF CustomerCopiesOK
  <2> QED
    BY <1>1, <1>3, <1>4, <2>1, <2>2, CopyStays
<1>5. CASE l # k /\ customerCalls[l].pc \notin CustomerInTransit
  BY <1>2, <1>5
  DEF OnlyCustomerCall, CustomerCopyOK, Updating, Checking, CustomerInTransit,
      CustomerPhases
<1> QED
  BY <1>2, <1>4, <1>5
-----------------------------------------------------------------------------
(* A step of CustomerService alone, or none. *)
LEMMA CustomerNextOK ==
  ASSUME CustomerInv, [CustomerNext]_csVars
  PROVE  CustomerInv'
<1>1. CASE CustomerNext
  BY <1>1, CustomerStep DEF CustomerNext
<1>2. CASE UNCHANGED csVars
  <2>1. UNCHANGED <<customers, orders, rowLocks, outdated, customerCalls>>
    BY <1>2 DEF csVars, dbVars
  <2> QED
    BY <2>1
    DEF CustomerInv, CustomerTypeInv, CustomerTypeOK, CustomerKeysOK, DatabaseTypeOK,
        CustomerCallsOK, DistinctRegistrations, AbsentCustomersNew, LocksExclude,
        LocksHeldByDeletions, ActiveIdentifiersUnique
<1> QED
  BY <1>1, <1>2

LEMMA CopiesNextOK ==
  ASSUME CustomerInv, CustomerCopiesOK, [CustomerNext]_csVars
  PROVE  CustomerCopiesOK' /\ CustomerRowsMove
<1>1. CASE CustomerNext
  BY <1>1, CopiesStep, CustomerRowsMoveStep DEF CustomerNext
<1>2. CASE UNCHANGED csVars
  <2>1. UNCHANGED <<customers, outdated, customerCalls>>
    BY <1>2 DEF csVars, dbVars
  <2> QED
    BY <2>1 DEF CustomerCopiesOK, CustomerRowsMove, CustomerRowMoves
<1> QED
  BY <1>1, <1>2

LEMMA CustomerAlways ==
  CustomerSpec => [](CustomerInv /\ CustomerCopiesOK)
<1>1. CustomerInit => CustomerInv /\ CustomerCopiesOK
  BY CustomerInitOK
<1>2. CustomerInv /\ CustomerCopiesOK /\ [CustomerNext]_csVars
        => CustomerInv' /\ CustomerCopiesOK'
  BY CustomerNextOK, CopiesNextOK
<1> QED
  BY <1>1, <1>2, PTL DEF CustomerSpec

(* Rows, locks and calls of CustomerService keep their shape: a PUT whose   *)
(* entity lacks the passport never writes that gap into the table.          *)
THEOREM CustomerTypeCorrect == CustomerSpec => []CustomerTypeOK
<1>1. CustomerInv => CustomerTypeOK
  BY DEF CustomerInv, CustomerTypeInv
<1> QED
  BY <1>1, CustomerAlways, PTL

(* No two active customers share an identifier, whatever create and update  *)
(* found when they checked: the writes go through the partial indexes, and  *)
(* the one write that does not (softDelete) takes a row out of them.        *)
THEOREM IdentifiersUnique == CustomerSpec => []ActiveIdentifiersUnique
<1>1. CustomerInv => ActiveIdentifiersUnique
  BY DEF CustomerInv
<1> QED
  BY <1>1, CustomerAlways, PTL

(* The FOR UPDATE lock of delete is held by the deletions past it and by    *)
(* nobody else: every way a transaction ends gives it back.                 *)
THEOREM DeletionLocksDoNotLeak == CustomerSpec => []LocksHeldByDeletions
<1>1. CustomerInv => LocksHeldByDeletions
  BY DEF CustomerInv
<1> QED
  BY <1>1, CustomerAlways, PTL

(* A deleted customer comes back only through a PUT that overwrites a       *)
(* version of it that it has not read, or after such a PUT: a copy with the *)
(* version of the row is a copy of an active row, for any PUTs, deletions   *)
(* and registrations in flight.                                             *)
THEOREM DeletedStayDeleted == CustomerSpec => DeletedCustomersStayDeleted
<1>1. CustomerInv /\ CustomerCopiesOK /\ [CustomerNext]_csVars
        => [\A c \in CustomerIds \ outdated' :
              customers[c].life = "deleted" => customers'[c].life = "deleted"]_csVars
  BY CopiesNextOK DEF CustomerRowsMove, CustomerRowMoves
<1> QED
  BY <1>1, CustomerAlways, PTL DEF CustomerSpec, DeletedCustomersStayDeleted
=============================================================================
