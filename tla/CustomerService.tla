--------------------------- MODULE CustomerService ---------------------------
(***************************************************************************)
(* The write handlers of CustomerService as concurrent requests, split at  *)
(* their database round trips:                                             *)
(*                                                                         *)
(*   create:  taxId unique? -> passport unique? -> INSERT                  *)
(*   update:  find -> taxId unique? -> passport unique? -> save's SELECT   *)
(*            -> save's UPDATE                                             *)
(*   delete:  lock the row FOR UPDATE -> any active order? -> UPDATE       *)
(*                                                                         *)
(* RolesGuard lets administrators only reach them, and no customer has an  *)
(* owner, so the caller is left out.                                       *)
(***************************************************************************)
EXTENDS Database

CONSTANTS
  CustomerOperations,   \* the routes a run exercises
  Omitted               \* a passport number missing from the request body

CustomerRoutes == {"createCustomer", "updateCustomer", "deleteCustomer"}

ASSUME CustomerServiceAssumption ==
  /\ CustomerOperations \subseteq CustomerRoutes
  /\ Omitted \notin Passports \cup {NoValue}

VARIABLE customerCalls   \* the handler call each request makes

csVars == <<dbVars, customerCalls>>
-----------------------------------------------------------------------------
CustomerPhases == {"idle", "checkingTaxId", "checkingPassport", "inserting",
                   "reading", "writing", "locking", "checkingOrders",
                   "deleting", "done"}
CustomerInTransit == CustomerPhases \ {"idle", "done"}
CustomerResults == {"none", "ok", "duplicate", "hasOrders", "notFound",
                    "conflict", "lost"}

(* A customer in memory: its passport may be undefined. *)
CustomerEntities ==
  [life : Lives, taxId : TaxIds \cup {NoValue},
   passport : Passports \cup {NoValue, Omitted},
   email : Emails \cup {NoValue}, version : Nat]

CustomerCalls ==
  [pc : CustomerPhases, op : CustomerRoutes \cup {NoValue},
   customer : CustomerIds \cup {NoValue}, entity : CustomerEntities,
   loaded : CustomerRows, result : CustomerResults]

CustomerIdle ==
  [pc |-> "idle", op |-> NoValue, customer |-> NoValue,
   entity |-> NoCustomer, loaded |-> NoCustomer, result |-> "none"]

CustomerArrives(k, op) ==
  customerCalls[k].pc = "idle" /\ op \in CustomerOperations

CustomerStarts(k, pc, op, c, entity) ==
  customerCalls' =
    [customerCalls EXCEPT ![k] = [CustomerIdle EXCEPT !.pc = pc, !.op = op,
                                                      !.customer = c,
                                                      !.entity = entity]]
CustomerAdvances(k, pc) == customerCalls' = [customerCalls EXCEPT ![k].pc = pc]
CustomerFinishes(k, op, result) ==
  customerCalls' =
    [customerCalls EXCEPT ![k] = [CustomerIdle EXCEPT !.pc = "done", !.op = op,
                                                      !.result = result]]

FreshCustomer(c) ==
  /\ customers[c].life = "absent"
  /\ \A k \in CustomerRequests : customerCalls[k].customer # c
-----------------------------------------------------------------------------
CreateCustomer(k, c, taxId, passport, email) ==
  /\ CustomerArrives(k, "createCustomer")
  /\ FreshCustomer(c)
  /\ CustomerStarts(k, "checkingTaxId", "createCustomer", c,
                    [life |-> "active", taxId |-> taxId, passport |-> passport,
                     email |-> email, version |-> 1])
  /\ UNCHANGED dbVars

UpdateCustomer(k, c, taxId, passport, email) ==
  /\ CustomerArrives(k, "updateCustomer")
  /\ \/ /\ customers[c].life # "active"
        /\ CustomerFinishes(k, "updateCustomer", "notFound")
     \/ /\ customers[c].life = "active"
        /\ CustomerStarts(k, "checkingTaxId", "updateCustomer", c,
                          [customers[c] EXCEPT !.taxId = taxId,
                                               !.passport = passport,
                                               !.email = email])
  /\ UNCHANGED dbVars

(* ensureFieldUniqueOrThrow: the query looks at every other row, deleted    *)
(* ones included.  A blank value is not checked.                            *)
OtherRows(k) ==
  {d \in CustomerIds : /\ d # customerCalls[k].customer
                       /\ customers[d].life # "absent"}
TaxIdTaken(k) ==
  \E d \in OtherRows(k) : customers[d].taxId = customerCalls[k].entity.taxId
PassportTaken(k) ==
  /\ customerCalls[k].entity.passport \in Passports
  /\ \E d \in OtherRows(k) :
       customers[d].passport = customerCalls[k].entity.passport

ChecksTaxId(k) ==
  /\ customerCalls[k].pc = "checkingTaxId"
  /\ \/ /\ TaxIdTaken(k)
        /\ CustomerFinishes(k, customerCalls[k].op, "duplicate")
     \/ /\ ~TaxIdTaken(k)
        /\ CustomerAdvances(k, "checkingPassport")
  /\ UNCHANGED dbVars

ChecksPassport(k) ==
  /\ customerCalls[k].pc = "checkingPassport"
  /\ \/ /\ PassportTaken(k)
        /\ CustomerFinishes(k, customerCalls[k].op, "duplicate")
     \/ /\ ~PassportTaken(k)
        /\ CustomerAdvances(k, IF customerCalls[k].op = "createCustomer"
                               THEN "inserting" ELSE "reading")
  /\ UNCHANGED dbVars

(* The INSERT at the end of create; a violated index is answered with 409. *)
Inserted_KeepsOmitted(entity) == entity
Inserted(entity) ==
  [entity EXCEPT !.passport = IF @ = Omitted THEN NoValue ELSE @]

InsertsCustomer(k) ==
  LET c == customerCalls[k].customer
      row == Inserted(customerCalls[k].entity)
  IN  /\ customerCalls[k].pc = "inserting"
      /\ \/ /\ IndexAccepts(c, row)
            /\ customers' = [customers EXCEPT ![c] = row]
            /\ CustomerFinishes(k, "createCustomer", "ok")
         \/ /\ ~IndexAccepts(c, row)
            /\ CustomerFinishes(k, "createCustomer", "conflict")
            /\ UNCHANGED customers
      /\ UNCHANGED <<orders, rowLocks, outdated>>
-----------------------------------------------------------------------------
(* repository.save at the end of update: its SELECT, then its UPDATE.       *)
SaveReadsCustomer(k) ==
  /\ customerCalls[k].pc = "reading"
  /\ customerCalls' =
       [customerCalls EXCEPT ![k].pc = "writing",
                             ![k].loaded = customers[customerCalls[k].customer]]
  /\ UNCHANGED dbVars

(* An undefined property is not a difference and keeps the column as it is. *)
WrittenCustomer(entity, loaded, row) ==
  [life     |-> Differing(entity.life, loaded.life, row.life),
   taxId    |-> Differing(entity.taxId, loaded.taxId, row.taxId),
   passport |-> IF entity.passport = Omitted THEN row.passport
                ELSE Differing(entity.passport, loaded.passport, row.passport),
   email    |-> Differing(entity.email, loaded.email, row.email),
   version  |-> NextVersion(entity, loaded, row)]

(* The UPDATE, if anything differs, waits for the locks on the row. *)
SaveWritesCustomer(k) ==
  LET c == customerCalls[k].customer
      entity == customerCalls[k].entity
      loaded == customerCalls[k].loaded
      same == entity \in {loaded, [loaded EXCEPT !.passport = Omitted]}
      row == WrittenCustomer(entity, loaded, customers[c])
  IN  /\ customerCalls[k].pc = "writing"
      /\ \/ /\ same
            /\ CustomerFinishes(k, "updateCustomer", "ok")
            /\ UNCHANGED <<customers, outdated>>
         \/ /\ ~same /\ UpdateLockFree(c) /\ ~IndexAccepts(c, row)
            /\ CustomerFinishes(k, "updateCustomer", "conflict")
            /\ UNCHANGED <<customers, outdated>>
         \/ /\ ~same /\ UpdateLockFree(c) /\ IndexAccepts(c, row)
            /\ customers' = [customers EXCEPT ![c] = row]
            /\ Overwrites(c, entity, loaded, customers[c])
            /\ CustomerFinishes(k, "updateCustomer", "ok")
      /\ UNCHANGED <<orders, rowLocks>>
-----------------------------------------------------------------------------
DeleteCustomer(k, c) ==
  /\ CustomerArrives(k, "deleteCustomer")
  /\ CustomerStarts(k, "locking", "deleteCustomer", c, NoCustomer)
  /\ UNCHANGED dbVars

(* lockActiveOrThrow(manager, id, 'pessimistic_write'); the row is looked   *)
(* at again once the lock is granted.                                       *)
DeleteLocks(k) ==
  LET c == customerCalls[k].customer
  IN  /\ customerCalls[k].pc = "locking"
      /\ UpdateLockFree(c)
      /\ \/ /\ customers[c].life = "active"
            /\ LockForUpdate(k, c)
            /\ CustomerAdvances(k, "checkingOrders")
         \/ /\ customers[c].life # "active"
            /\ CustomerFinishes(k, "deleteCustomer", "notFound")
            /\ UNCHANGED rowLocks
      /\ UNCHANGED <<customers, orders, outdated>>

(* isCustomerAssociatedWithAnyOrder *)
HasActiveOrders(c) ==
  \E o \in OrderIds : orders[o].customer = c /\ orders[o].life = "active"

DeleteChecks(k) ==
  LET c == customerCalls[k].customer
  IN  /\ customerCalls[k].pc = "checkingOrders"
      /\ \/ /\ HasActiveOrders(c)
            /\ CustomerFinishes(k, "deleteCustomer", "hasOrders")
            /\ Unlock(k)
         \/ /\ ~HasActiveOrders(c)
            /\ CustomerAdvances(k, "deleting")
            /\ UNCHANGED rowLocks
      /\ UNCHANGED <<customers, orders, outdated>>

DeleteWrites(k) ==
  LET c == customerCalls[k].customer
  IN  /\ customerCalls[k].pc = "deleting"
      /\ customers' = [customers EXCEPT ![c] = SoftDeleted(@)]
      /\ CustomerFinishes(k, "deleteCustomer", "ok")
      /\ Unlock(k)
      /\ UNCHANGED <<orders, outdated>>

(* The process running the handler dies: its transaction is rolled back.    *)
CustomerCrash(k) ==
  /\ customerCalls[k].pc \in CustomerInTransit
  /\ CustomerFinishes(k, customerCalls[k].op, "lost")
  /\ Unlock(k)
  /\ UNCHANGED <<customers, orders, outdated>>
-----------------------------------------------------------------------------
CustomerCallsInit ==
  customerCalls = [k \in CustomerRequests |-> CustomerIdle]
CustomerInit == DatabaseInit /\ CustomerCallsInit

CustomerReceive(k) ==
  \E c \in CustomerIds :
    \/ DeleteCustomer(k, c)
    \/ \E taxId \in TaxIds, passport \in Passports \cup {NoValue, Omitted},
          email \in Emails :
         \/ CreateCustomer(k, c, taxId, passport, email)
         \/ UpdateCustomer(k, c, taxId, passport, email)

CustomerContinue(k) ==
  \/ ChecksTaxId(k)
  \/ ChecksPassport(k)
  \/ InsertsCustomer(k)
  \/ SaveReadsCustomer(k)
  \/ SaveWritesCustomer(k)
  \/ DeleteLocks(k)
  \/ DeleteChecks(k)
  \/ DeleteWrites(k)

CustomerNext ==
  \E k \in CustomerRequests :
    CustomerReceive(k) \/ CustomerContinue(k) \/ CustomerCrash(k)

CustomerSpec ==
  /\ CustomerInit
  /\ [][CustomerNext]_csVars
  /\ \A k \in CustomerRequests : WF_csVars(CustomerContinue(k))
-----------------------------------------------------------------------------
(* Properties. *)

(* Every row and every call in flight has the shape the code gives it. *)
CustomerTypeOK ==
  /\ DatabaseTypeOK
  /\ customerCalls \in [CustomerRequests -> CustomerCalls]

(* No two active customers share a taxId or a passport number, although     *)
(* create and update check that long before they write.                     *)
ActiveIdentifiersUnique == UniqueRows(customers)

(* A soft-deleted customer stays deleted, unless a PUT overwrites a version *)
(* of it that it has not read: a deletion moves the version on, so that the *)
(* PUT that would bring the customer back is always such a PUT.             *)
DeletedCustomersStayDeleted ==
  [][\A c \in CustomerIds \ outdated' :
       customers[c].life = "deleted" => customers'[c].life = "deleted"]_csVars

(* A PUT overwrites no version of the customer that it has not read: the    *)
(* second of two PUTs in flight is refused (ADR 0004).  The code breaks it. *)
UpdatesDoNotOverwrite ==
  [][\A k \in CustomerRequests :
       LET c == customerCalls[k].customer
       IN  /\ customerCalls[k].pc = "writing"
           /\ customers'[c] # customers[c]
           /\ customerCalls'[k].result = "ok"
           => customerCalls[k].entity.version = customers[c].version]_csVars

(* A customer row is locked FOR UPDATE exactly by the deletions between     *)
(* their lock and the end of their transaction.                             *)
LocksHeldByDeletions ==
  \A c \in CustomerIds :
    rowLocks[c].update =
      {k \in CustomerRequests : customerCalls[k].customer = c
                                /\ customerCalls[k].pc \in {"checkingOrders", "deleting"}}
=============================================================================
