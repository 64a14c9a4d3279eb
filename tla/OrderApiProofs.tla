--------------------------- MODULE OrderApiProofs ---------------------------
(***************************************************************************)
(* Proofs about the two services run against the same tables: what one     *)
(* service's steps leave of the other's invariant, and what the locks on   *)
(* the customer's row buy.                                                 *)
(***************************************************************************)
EXTENDS OrderApi, OrderRefinementProofs, CustomerServiceProofs

(* Routes whose handlers save nothing: a deleted order cannot come back. *)
SaveFree == Operations \subseteq {"create", "delete"}
NoSaves == SaveFree => \A r \in OrderRequests : ~Saving(calls[r])

(* The orders that cannot have come back from their deletion. *)
Clear(o) == SaveFree \/ o \notin outdated

(* A creation that is about to insert holds the customer active. *)
InsertionsAllowed ==
  \A r \in OrderRequests :
    calls[r].pc = "inserting" => customers[calls[r].entity.customer].life = "active"

(* A deletion that is about to write has no active order behind its back. *)
DeletionsAllowed ==
  \A k \in CustomerRequests :
    customerCalls[k].pc = "deleting" =>
      \A o \in OrderIds :
        Clear(o) /\ orders[o].life = "active"
          => orders[o].customer # customerCalls[k].customer

(* Every active order has a customer, and an active one. *)
ActiveOrdersHaveCustomers ==
  \A o \in OrderIds :
    Clear(o) /\ orders[o].life = "active" => orders[o].customer \in CustomerIds
NoOrphans == \A o \in OrderIds : Clear(o) => ~Orphan(o)

(* What each service knows of itself. *)
BothInv == AtomicInv /\ LocksHeldByCreations /\ CustomerInv

MeetingInv ==
  /\ BothInv
  /\ NoSaves
  /\ InsertionsAllowed
  /\ DeletionsAllowed
  /\ ActiveOrdersHaveCustomers
  /\ NoOrphans
-----------------------------------------------------------------------------
(* Steps of OrderService, seen from the customers. *)
LocksGentle ==
  \A c \in CustomerIds :
    /\ rowLocks'[c].update = rowLocks[c].update
    /\ rowLocks[c].update # {} => rowLocks'[c].share \subseteq rowLocks[c].share

LEMMA UnlockGentle ==
  ASSUME TypeInv, NEW r \in OrderRequests, Unlock(r)
  PROVE  LocksGentle
<1>1. \A c \in CustomerIds : r \notin rowLocks[c].update
  BY DatabaseAssumption DEF TypeInv, OrderTypeOK, DatabaseTypeOK, LockTable
<1>2. \A c \in CustomerIds : rowLocks[c].update \ {r} = rowLocks[c].update
  BY <1>1
<1> QED
  BY <1>2 DEF Unlock, LocksGentle

LEMMA OrderStepGentle ==
  ASSUME TypeInv, [OrderNext]_osVars
  PROVE  UNCHANGED customers /\ LocksGentle
<1>1. UNCHANGED rowLocks => LocksGentle
  BY DEF LocksGentle
<1>2. CASE UNCHANGED osVars
  BY <1>1, <1>2 DEF osVars, dbVars
<1> SUFFICES ASSUME NEW r \in OrderRequests,
                    Receive(r) \/ Continue(r) \/ Crash(r)
             PROVE  UNCHANGED customers /\ LocksGentle
  BY <1>2 DEF OrderNext
<1>3. CASE Receive(r)
  BY <1>1, <1>3, ReceiveChangesCalls DEF dbVars
<1>4. CASE CreateLocks(r)
  <2> DEFINE c == calls[r].entity.customer
  <2>1. CASE LockForShare(r, c)
    <3>1. c \in CustomerIds /\ rowLocks[c].update = {}
      BY <1>4 DEF CreateLocks, ShareLockFree, TypeInv, KeysOK
    <3>2. /\ rowLocks'[c].update = rowLocks[c].update
          /\ \A d \in CustomerIds \ {c} : rowLocks'[d] = rowLocks[d]
      BY <2>1, <3>1 DEF LockForShare, TypeInv, OrderTypeOK, DatabaseTypeOK, LockTable
    <3>3. LocksGentle
      BY <3>1, <3>2 DEF LocksGentle
    <3> QED
      BY <1>4, <3>3 DEF CreateLocks
  <2> QED
    BY <1>1, <1>4, <2>1 DEF CreateLocks
<1>5. CASE CreateInserts(r) \/ Crash(r)
  BY <1>5, UnlockGentle DEF CreateInserts, Crash
<1>6. CASE SaveReads(r) \/ SaveWrites(r) \/ SoftDelete(r) \/ Emit(r)
  BY <1>1, <1>6 DEF SaveReads, SaveWrites, SoftDelete, Emit, dbVars
<1> QED
  BY <1>3, <1>4, <1>5, <1>6 DEF Continue

LEMMA OrderStepBoth ==
  ASSUME BothInv, [OrderNext]_osVars, UNCHANGED customerCalls
  PROVE  BothInv'
<1>1. AtomicInv' /\ LocksHeldByCreations'
  BY AtomicNext, LocksNext DEF BothInv, AtomicInv, SafetyInv
<1>2. UNCHANGED customers /\ LocksGentle
  BY OrderStepGentle DEF BothInv, AtomicInv, SafetyInv
<1>3. CustomerTypeInv'
  <2>1. DatabaseTypeOK'
    BY <1>1 DEF AtomicInv, SafetyInv, TypeInv, OrderTypeOK
  <2> QED
    BY <2>1 DEF BothInv, CustomerInv, CustomerTypeInv, CustomerTypeOK, CustomerKeysOK
<1>4. /\ CustomerCallsOK' /\ DistinctRegistrations'
      /\ AbsentCustomersNew' /\ ActiveIdentifiersUnique'
  BY <1>2 DEF BothInv, CustomerInv, CustomerCallsOK, DistinctRegistrations,
              AbsentCustomersNew, ActiveIdentifiersUnique
<1>5. LocksExclude'
  BY <1>2 DEF BothInv, CustomerInv, LocksExclude, LocksGentle
<1>6. LocksHeldByDeletions'
  BY <1>2 DEF BothInv, CustomerInv, LocksHeldByDeletions, LocksGentle
<1> QED
  BY <1>1, <1>3, <1>4, <1>5, <1>6 DEF BothInv, CustomerInv
-----------------------------------------------------------------------------
(* Steps of CustomerService, seen from the orders. *)
LEMMA CustomerStepGentle ==
  ASSUME CustomerInv, [CustomerNext]_csVars
  PROVE  /\ UNCHANGED orders /\ outdated \subseteq outdated'
         /\ \A c \in CustomerIds : rowLocks'[c].share = rowLocks[c].share
<1>1. ASSUME UNCHANGED <<orders, rowLocks>>
      PROVE  /\ UNCHANGED orders
             /\ \A c \in CustomerIds : rowLocks'[c].share = rowLocks[c].share
  BY <1>1
<1>2. CASE UNCHANGED csVars
  BY <1>2 DEF csVars, dbVars
<1>3. ASSUME NEW k \in CustomerRequests, Unlock(k)
      PROVE  \A c \in CustomerIds : rowLocks'[c].share = rowLocks[c].share
  <2>1. \A c \in CustomerIds : k \notin rowLocks[c].share
    BY DatabaseAssumption
    DEF CustomerInv, CustomerTypeInv, CustomerTypeOK, DatabaseTypeOK, LockTable
  <2>2. \A c \in CustomerIds : rowLocks[c].share \ {k} = rowLocks[c].share
    BY <2>1
  <2> QED
    BY <1>3, <2>2 DEF Unlock
<1> SUFFICES ASSUME NEW k \in CustomerRequests,
                    CustomerReceive(k) \/ CustomerContinue(k) \/ CustomerCrash(k)
             PROVE  /\ UNCHANGED orders
                    /\ \A c \in CustomerIds : rowLocks'[c].share = rowLocks[c].share
  BY <1>2, OutdatedGrows DEF CustomerNext
<1>4. CASE CustomerReceive(k)
  BY <1>1, <1>4, CustomerReceives DEF CustomerInv, Receives, dbVars
<1>5. CASE ChecksTaxId(k) \/ ChecksPassport(k) \/ InsertsCustomer(k)
           \/ SaveReadsCustomer(k) \/ SaveWritesCustomer(k)
  BY <1>1, <1>5
  DEF ChecksTaxId, ChecksPassport, InsertsCustomer, SaveReadsCustomer,
      SaveWritesCustomer, dbVars
<1>6. CASE DeleteLocks(k)
  <2> DEFINE c == customerCalls[k].customer
  <2>1. CASE LockForUpdate(k, c)
    <3>1. rowLocks \in LockTable
      BY DEF CustomerInv, CustomerTypeInv, CustomerTypeOK, DatabaseTypeOK
    <3> QED
      BY <1>6, <2>1, <3>1 DEF DeleteLocks, LockForUpdate, LockTable
  <2> QED
    BY <1>1, <1>6, <2>1 DEF DeleteLocks
<1>7. CASE DeleteChecks(k) \/ DeleteWrites(k) \/ CustomerCrash(k)
  BY <1>1, <1>3, <1>7 DEF DeleteChecks, DeleteWrites, CustomerCrash
<1> QED
  BY <1>4, <1>5, <1>6, <1>7 DEF CustomerContinue

LEMMA CustomerStepSafety ==
  ASSUME SafetyInv, CustomerInv', UNCHANGED <<orders, calls, events>>
  PROVE  SafetyInv'
<1>1. TypeInv'
  BY DEF SafetyInv, TypeInv, OrderTypeOK, KeysOK, CustomerInv, CustomerTypeInv,
         CustomerTypeOK
<1>2. SafeCalls' /\ DistinctCreations'
  BY DEF SafetyInv, SafeCalls, DistinctCreations
<1> QED
  BY <1>1, <1>2 DEF SafetyInv, AbsentOrdersEmpty, ConfirmedOrdersHaveItems

LEMMA CustomerStepAtomic ==
  ASSUME AtomicInv, SafetyInv', UNCHANGED <<orders, calls, events>>,
         outdated \subseteq outdated'
  PROVE  AtomicInv'
<1>1. RowsOK' /\ CopiesOK'
  BY DEF AtomicInv, RowsOK, CopiesOK
<1>2. AnnouncementsOK'
  BY DEF AtomicInv, AnnouncementsOK
<1>3. AnnouncedOnce'
  BY DEF AtomicInv, AnnouncedOnce, RepeatedOnlyByOverwrites
<1> QED
  BY <1>1, <1>2, <1>3 DEF AtomicInv

LEMMA CustomerStepBoth ==
  ASSUME BothInv, [CustomerNext]_csVars, UNCHANGED orderVars
  PROVE  BothInv'
<1>1. CustomerInv'
  BY CustomerNextOK DEF BothInv
<1>2. /\ UNCHANGED <<orders, calls, events>> /\ outdated \subseteq outdated'
      /\ \A c \in CustomerIds : rowLocks'[c].share = rowLocks[c].share
  BY CustomerStepGentle DEF BothInv, orderVars
<1>3. AtomicInv'
  BY <1>1, <1>2, CustomerStepSafety, CustomerStepAtomic DEF BothInv, AtomicInv
<1>4. LocksHeldByCreations'
  BY <1>2 DEF BothInv, LocksHeldByCreations
<1> QED
  BY <1>1, <1>3, <1>4 DEF BothInv
-----------------------------------------------------------------------------
(* A step of the API is a step of one service, the other standing still. *)
LEMMA ApiStep ==
  ASSUME [Next]_vars
  PROVE  \/ [OrderNext]_osVars /\ UNCHANGED customerCalls
         \/ [CustomerNext]_csVars /\ UNCHANGED orderVars
BY DEF Next, vars, osVars, csVars

LEMMA ApiInit ==
  ASSUME Init
  PROVE  OrderInit /\ CustomerInit
BY DEF Init, OrderInit, CustomerInit

LEMMA BothInit ==
  ASSUME Init
  PROVE  BothInv
<1>1. OrderInit /\ CustomerInit
  BY ApiInit
<1>2. LocksHeldByCreations
  BY <1>1 DEF OrderInit, DatabaseInit, CallsInit, NoLocks, Idle, LocksHeldByCreations
<1> QED
  BY <1>1, <1>2, AtomicInit, CustomerInitOK DEF BothInv

-----------------------------------------------------------------------------
(* Where an active order comes from: it was active before, for the same     *)
(* customer, or one of the creations holding its customer has inserted it.  *)
ActiveOrdersFrom ==
  \A o \in OrderIds :
    Clear(o)' /\ orders'[o].life = "active" =>
      \/ orders[o].life = "active" /\ orders'[o].customer = orders[o].customer
      \/ \E r \in OrderRequests :
           /\ calls[r].pc = "inserting"
           /\ calls[r].entity.customer = orders'[o].customer

LEMMA ReceiveSavesNothing ==
  ASSUME Operations \subseteq {"create", "delete"}, TypeInv,
         NEW r \in OrderRequests, Receive(r)
  PROVE  calls'[r].pc \notin {"reading", "writing"}
<1> DEFINE Fine == calls'[r].pc \notin {"reading", "writing"}
<1>1. ASSUME NEW op, NEW result, Answer(r, op, result)
      PROVE  Fine
  BY <1>1 DEF Answer, Idle, TypeInv, OrderTypeOK
<1>2. \A caller, o, i, q : ~AddItem(r, caller, o, i, q)
  BY DEF AddItem, Admitted, Arrives
<1>3. \A caller, o, i, q : ~UpdateItemQuantity(r, caller, o, i, q)
  BY DEF UpdateItemQuantity, ChangeItem, Admitted, Arrives
<1>4. \A caller, o, i : ~RemoveItem(r, caller, o, i)
  BY DEF RemoveItem, ChangeItem, Admitted, Arrives
<1>5. \A caller, o : ~Confirm(r, caller, o) /\ ~Cancel(r, caller, o)
  BY DEF Confirm, Cancel, ChangeStatus, Admitted, Arrives
<1>6. \A op, caller, o : Forbid(r, op, caller) \/ FindFails(r, op, caller, o) => Fine
  BY <1>1 DEF Forbid, FindFails
<1>7. \A caller, o : Delete(r, caller, o) => Fine
  BY DEF Delete, Idle, TypeInv, OrderTypeOK
<1>8. \A caller, c, o, items : Create(r, caller, c, o, items) => Fine
  BY DEF Create, Idle, TypeInv, OrderTypeOK
<1> HIDE DEF Fine
<1>9. Fine
  BY <1>2, <1>3, <1>4, <1>5, <1>6, <1>7, <1>8 DEF Receive
<1> QED
  BY <1>9 DEF Fine

LEMMA NoSavesNext ==
  ASSUME NoSaves, TypeInv, [OrderNext]_osVars
  PROVE  NoSaves'
<1> SUFFICES ASSUME SaveFree, NEW s \in OrderRequests
             PROVE  ~Saving(calls'[s])
  BY DEF NoSaves, SaveFree
<1>1. CASE UNCHANGED osVars
  BY <1>1 DEF osVars, orderVars, NoSaves
<1> SUFFICES ASSUME NEW r \in OrderRequests,
                    Receive(r) \/ Continue(r) \/ Crash(r)
             PROVE  ~Saving(calls'[s])
  BY <1>1 DEF OrderNext
<1>2. ASSUME \A t \in OrderRequests \ {r} : calls'[t] = calls[t],
             calls'[r].pc \notin {"reading", "writing"}
      PROVE  ~Saving(calls'[s])
  BY <1>2 DEF NoSaves, Saving
<1>3. CASE Receive(r)
  <2>1. PICK call : calls' = [calls EXCEPT ![r] = call]
    BY <1>3, ReceiveStarts DEF Starts
  <2>2. \A t \in OrderRequests \ {r} : calls'[t] = calls[t]
    BY <2>1 DEF TypeInv, OrderTypeOK
  <2> QED
    BY <1>2, <1>3, <2>2, ReceiveSavesNothing DEF NoSaves, SaveFree
<1>4. CASE SaveReads(r) \/ SaveWrites(r)
  BY <1>4 DEF NoSaves, Saving, SaveReads, SaveWrites
<1>5. CASE Harmless(r)
  BY <1>2, <1>5 DEF Harmless, TypeInv, OrderTypeOK
<1>6. CASE Advance(r, "inserting")
  BY <1>2, <1>6 DEF Advance, TypeInv, OrderTypeOK, Calls
<1> QED
  BY <1>3, <1>4, <1>5, <1>6, Ends
  DEF Continue, CreateLocks, CreateInserts, SoftDelete, Emit, Crash

LEMMA OnlyActiveFrom ==
  ASSUME SafetyInv, NEW r \in OrderRequests, NEW row,
         calls[r].order \in OrderIds,
         orders' = [orders EXCEPT ![calls[r].order] = row],
         row.life = "active" =>
           \/ /\ orders[calls[r].order].life = "active"
              /\ row.customer = orders[calls[r].order].customer
           \/ calls[r].pc = "inserting" /\ calls[r].entity.customer = row.customer
  PROVE  ActiveOrdersFrom
<1>1. /\ orders'[calls[r].order] = row
      /\ \A p \in OrderIds \ {calls[r].order} : orders'[p] = orders[p]
  BY DEF SafetyInv, TypeInv, OrderTypeOK, DatabaseTypeOK
<1> QED
  BY <1>1 DEF ActiveOrdersFrom

LEMMA OrderStepActive ==
  ASSUME AtomicInv, NoSaves, [OrderNext]_osVars
  PROVE  ActiveOrdersFrom
<1>0. SafetyInv
  BY DEF AtomicInv
<1>1. CASE UNCHANGED orders
  BY <1>1 DEF ActiveOrdersFrom
<1>2. CASE UNCHANGED osVars
  BY <1>1, <1>2 DEF osVars, dbVars
<1> SUFFICES ASSUME NEW r \in OrderRequests,
                    Receive(r) \/ Continue(r) \/ Crash(r)
             PROVE  ActiveOrdersFrom
  BY <1>2 DEF OrderNext
<1> DEFINE o == calls[r].order
<1>3. CASE Receive(r)
  BY <1>1, <1>3, ReceiveChangesCalls DEF dbVars
<1>4. CASE CreateInserts(r)
  <2>1. o \in OrderIds /\ calls[r].pc = "inserting"
    BY <1>0, <1>4 DEF CreateInserts, SafetyInv, TypeInv, KeysOK, InTransit, Phases
  <2> QED
    BY <1>0, <1>4, <2>1, OnlyActiveFrom DEF CreateInserts
<1>5. CASE SoftDelete(r)
  <2>1. o \in OrderIds
    BY <1>0, <1>5 DEF SoftDelete, SafetyInv, TypeInv, KeysOK, InTransit, Phases
  <2>2. SoftDeleted(orders[o]).life = "deleted"
    BY <1>0, <2>1 DEF SoftDeleted, SafetyInv, TypeInv, OrderTypeOK, DatabaseTypeOK, OrderRows
  <2>3. orders' = [orders EXCEPT ![o] = SoftDeleted(orders[o])]
    BY <1>5 DEF SoftDelete
  <2> QED
    BY <1>0, <2>1, <2>2, <2>3, OnlyActiveFrom
<1>6. CASE SaveWrites(r)
  <2>1. ~SaveFree
    BY <1>6 DEF NoSaves, Saving, SaveWrites
  <2>2. o \in OrderIds /\ orders[o].life # "absent"
    BY <1>0, <1>6
    DEF SaveWrites, SafetyInv, TypeInv, KeysOK, InTransit, Phases, SafeCalls, SafeCall,
        Saving
  <2>3. o \notin outdated' => RowMoves(orders[o], orders'[o])
    <3>1. OrderNext
      BY DEF OrderNext
    <3> QED
      BY <2>2, <3>1, AtomicNext DEF RowsMove
  <2>4. o \notin outdated' /\ orders'[o].life = "active" =>
          orders[o].life = "active" /\ orders'[o].customer = orders[o].customer
    <3>1. orders[o].life \in Lives
      BY <1>0, <2>2 DEF SafetyInv, TypeInv, OrderTypeOK, DatabaseTypeOK, OrderRows
    <3> QED
      BY <2>2, <2>3, <3>1 DEF RowMoves, Lives
  <2>5. \A p \in OrderIds \ {o} : orders'[p] = orders[p]
    BY <1>0, <1>6, <2>2 DEF SaveWrites, SafetyInv, TypeInv, OrderTypeOK, DatabaseTypeOK
  <2> QED
    BY <2>1, <2>4, <2>5 DEF ActiveOrdersFrom, Clear, SaveFree
<1>7. CASE CreateLocks(r) \/ SaveReads(r) \/ Emit(r) \/ Crash(r)
  BY <1>1, <1>7 DEF CreateLocks, SaveReads, Emit, Crash, dbVars
<1> QED
  BY <1>3, <1>4, <1>5, <1>6, <1>7 DEF Continue

(* A creation reaches its INSERT only after it found the customer active.   *)
LEMMA OrderStepInserting ==
  ASSUME SafetyInv, [OrderNext]_osVars, NEW s \in OrderRequests,
         calls'[s].pc = "inserting"
  PROVE  \/ /\ calls[s].pc = "inserting"
            /\ calls'[s].entity.customer = calls[s].entity.customer
         \/ customers[calls'[s].entity.customer].life = "active"
<1> DEFINE Goal == \/ /\ calls[s].pc = "inserting"
                      /\ calls'[s].entity.customer = calls[s].entity.customer
                   \/ customers[calls'[s].entity.customer].life = "active"
<1>1. CASE UNCHANGED osVars
  BY <1>1 DEF osVars, orderVars
<1> SUFFICES ASSUME NEW r \in OrderRequests,
                    Receive(r) \/ Continue(r) \/ Crash(r)
             PROVE  Goal
  BY <1>1 DEF OrderNext
<1>2. ASSUME NEW call, calls' = [calls EXCEPT ![r] = call], call.pc # "inserting"
      PROVE  Goal
  BY <1>2 DEF SafetyInv, TypeInv, OrderTypeOK
<1>3. CASE Receive(r)
  <2>1. PICK call : NewCall(call) /\ calls' = [calls EXCEPT ![r] = call]
    BY <1>3, ReceiveStarts DEF Starts, SafetyInv
  <2> QED
    BY <1>2, <2>1 DEF NewCall
<1>4. CASE SaveReads(r)
  <2>1. /\ calls'[r].pc = "writing"
        /\ \A t \in OrderRequests \ {r} : calls'[t] = calls[t]
    BY <1>4 DEF SaveReads, SafetyInv, TypeInv, OrderTypeOK, Calls
  <2> QED
    BY <2>1
<1>5. CASE Harmless(r)
  BY <1>2, <1>5 DEF Harmless
<1>6. CASE CreateLocks(r) /\ Advance(r, "inserting")
           /\ customers[calls[r].entity.customer].life = "active"
  <2>1. /\ calls'[r].entity = calls[r].entity
        /\ \A t \in OrderRequests \ {r} : calls'[t] = calls[t]
    BY <1>6 DEF Advance, SafetyInv, TypeInv, OrderTypeOK, Calls
  <2> QED
    BY <1>6, <2>1
<1> QED
  BY <1>3, <1>4, <1>5, <1>6, Ends
  DEF Continue, CreateLocks, CreateInserts, SaveWrites, SoftDelete, Emit, Crash, SafetyInv

(* The locks keep a creation and a deletion of the same customer apart.     *)
LEMMA Apart ==
  ASSUME MeetingInv, NEW k \in CustomerRequests, customerCalls[k].pc = "deleting",
         NEW r \in OrderRequests, calls[r].pc = "inserting"
  PROVE  calls[r].entity.customer # customerCalls[k].customer
<1> DEFINE c == customerCalls[k].customer
<1>1. c \in CustomerIds
  BY DEF MeetingInv, BothInv, CustomerInv, CustomerTypeInv, CustomerKeysOK,
         CustomerInTransit, CustomerPhases
<1>2. k \in rowLocks[c].update
  BY <1>1 DEF MeetingInv, BothInv, CustomerInv, LocksHeldByDeletions
<1>3. rowLocks[c].share = {}
  BY <1>1, <1>2 DEF MeetingInv, BothInv, CustomerInv, LocksExclude
<1> QED
  BY <1>1, <1>3 DEF MeetingInv, BothInv, LocksHeldByCreations

LEMMA OrderStepOutdates ==
  ASSUME [OrderNext]_osVars
  PROVE  outdated \subseteq outdated'
<1>1. CASE UNCHANGED osVars
  BY <1>1 DEF osVars, dbVars
<1> SUFFICES ASSUME NEW r \in OrderRequests,
                    Receive(r) \/ Continue(r) \/ Crash(r)
             PROVE  outdated \subseteq outdated'
  BY <1>1 DEF OrderNext
<1>2. CASE Receive(r)
  BY <1>2, ReceiveChangesCalls DEF dbVars
<1>3. CASE SaveWrites(r)
  BY <1>3 DEF SaveWrites, Overwrites
<1>4. CASE \/ CreateLocks(r) \/ CreateInserts(r) \/ SaveReads(r)
           \/ SoftDelete(r) \/ Emit(r) \/ Crash(r)
  BY <1>4 DEF CreateLocks, CreateInserts, SaveReads, SoftDelete, Emit, Crash, dbVars
<1> QED
  BY <1>2, <1>3, <1>4 DEF Continue

LEMMA OrderStepMeets ==
  ASSUME MeetingInv, [OrderNext]_osVars, UNCHANGED customerCalls
  PROVE  MeetingInv'
<1>1. BothInv' /\ NoSaves'
  BY OrderStepBoth, NoSavesNext DEF MeetingInv, BothInv, AtomicInv, SafetyInv
<1>2. UNCHANGED customers
  BY OrderStepGentle DEF MeetingInv, BothInv, AtomicInv, SafetyInv
<1>9. \A o \in OrderIds : Clear(o)' => Clear(o)
  BY OrderStepOutdates DEF Clear, SaveFree
<1>3. ActiveOrdersFrom
  BY OrderStepActive DEF MeetingInv, BothInv
<1>4. InsertionsAllowed'
  BY <1>2, OrderStepInserting DEF MeetingInv, BothInv, AtomicInv, InsertionsAllowed
<1>5. ASSUME NEW k \in CustomerRequests, customerCalls[k].pc = "deleting",
             NEW r \in OrderRequests, calls[r].pc = "inserting"
      PROVE  calls[r].entity.customer # customerCalls[k].customer
  BY <1>5, Apart
<1>6. DeletionsAllowed'
  BY <1>3, <1>5, <1>9 DEF MeetingInv, DeletionsAllowed, ActiveOrdersFrom
<1>7. NoOrphans'
  BY <1>2, <1>3, <1>9
  DEF MeetingInv, NoOrphans, Orphan, InsertionsAllowed, ActiveOrdersFrom
<1>8. ActiveOrdersHaveCustomers'
  BY <1>3, <1>9
  DEF MeetingInv, BothInv, AtomicInv, SafetyInv, TypeInv, KeysOK, ActiveOrdersFrom,
      ActiveOrdersHaveCustomers
<1> QED
  BY <1>1, <1>4, <1>6, <1>7, <1>8 DEF MeetingInv
-----------------------------------------------------------------------------
(* Only a deletion takes a customer away. *)
CustomersGoByDeletion ==
  \A c \in CustomerIds :
    customers[c].life = "active" =>
      \/ customers'[c].life = "active"
      \/ \E k \in CustomerRequests :
           customerCalls[k].pc = "deleting" /\ customerCalls[k].customer = c

LEMMA OneCustomerGoes ==
  ASSUME CustomerInv, NEW k \in CustomerRequests, NEW row,
         customers' = [customers EXCEPT ![customerCalls[k].customer] = row],
         row.life = "active" \/ customerCalls[k].pc = "deleting"
  PROVE  CustomersGoByDeletion
BY DEF CustomerInv, CustomerTypeInv, CustomerTypeOK, DatabaseTypeOK,
       CustomersGoByDeletion

LEMMA CustomerStepActive ==
  ASSUME CustomerInv, [CustomerNext]_csVars
  PROVE  CustomersGoByDeletion
<1>1. CASE UNCHANGED customers
  BY <1>1 DEF CustomersGoByDeletion
<1>2. CASE UNCHANGED csVars
  BY <1>1, <1>2 DEF csVars, dbVars
<1> SUFFICES ASSUME NEW k \in CustomerRequests,
                    CustomerReceive(k) \/ CustomerContinue(k) \/ CustomerCrash(k)
             PROVE  CustomersGoByDeletion
  BY <1>2 DEF CustomerNext
<1> DEFINE c == customerCalls[k].customer
           entity == customerCalls[k].entity
<1>3. CASE CustomerReceive(k)
  BY <1>1, <1>3, CustomerReceives DEF CustomerInv, Receives, dbVars
<1>4. CASE InsertsCustomer(k)
  <2>1. /\ customerCalls[k].pc \in CustomerInTransit /\ Registering(customerCalls[k])
    BY <1>4 DEF InsertsCustomer, CustomerInTransit, CustomerPhases, Registering
  <2>2. Inserted(entity).life = "active"
    BY <2>1, CallInTransit, InsertedType DEF CustomerCallOK
  <2> QED
    BY <1>1, <1>4, <2>2, OneCustomerGoes DEF InsertsCustomer
<1>5. CASE SaveWritesCustomer(k)
  <2> DEFINE row == WrittenCustomer(entity, customerCalls[k].loaded, customers[c])
  <2>1. /\ customerCalls[k].pc \in CustomerInTransit /\ Updating(customerCalls[k])
    BY <1>5 DEF SaveWritesCustomer, CustomerInTransit, CustomerPhases, Updating
  <2>2. c \in CustomerIds /\ entity.life = "active"
    BY <2>1, CallInTransit DEF CustomerCallOK
  <2>3. customers[c].life = "active" => row.life = "active"
    BY <2>2 DEF WrittenCustomer, Differing
  <2>4. UNCHANGED customers \/ customers' = [customers EXCEPT ![c] = row]
    BY <1>5 DEF SaveWritesCustomer
  <2> HIDE DEF row
  <2>5. CASE customers' = [customers EXCEPT ![c] = row]
    BY <2>2, <2>3, <2>5
    DEF CustomerInv, CustomerTypeInv, CustomerTypeOK, DatabaseTypeOK,
        CustomersGoByDeletion
  <2> QED
    BY <1>1, <2>4, <2>5
<1>6. CASE DeleteWrites(k)
  <2>1. customers' = [customers EXCEPT ![c] = SoftDeleted(customers[c])]
    BY <1>6 DEF DeleteWrites
  <2> QED
    BY <1>6, <2>1, OneCustomerGoes DEF DeleteWrites
<1>7. CASE \/ ChecksTaxId(k) \/ ChecksPassport(k) \/ SaveReadsCustomer(k)
           \/ DeleteLocks(k) \/ DeleteChecks(k) \/ CustomerCrash(k)
  BY <1>1, <1>7
  DEF ChecksTaxId, ChecksPassport, SaveReadsCustomer, DeleteLocks, DeleteChecks,
      CustomerCrash, dbVars
<1> QED
  BY <1>3, <1>4, <1>5, <1>6, <1>7 DEF CustomerContinue

(* A deletion reaches its UPDATE only after it found no active order. *)
LEMMA CustomerStepDeleting ==
  ASSUME CustomerInv, [CustomerNext]_csVars, NEW l \in CustomerRequests,
         customerCalls'[l].pc = "deleting"
  PROVE  \/ /\ customerCalls[l].pc = "deleting"
            /\ customerCalls'[l].customer = customerCalls[l].customer
         \/ ~HasActiveOrders(customerCalls'[l].customer)
<1> DEFINE Goal == \/ /\ customerCalls[l].pc = "deleting"
                      /\ customerCalls'[l].customer = customerCalls[l].customer
                   \/ ~HasActiveOrders(customerCalls'[l].customer)
<1>1. CASE UNCHANGED csVars
  BY <1>1 DEF csVars
<1> SUFFICES ASSUME NEW k \in CustomerRequests,
                    CustomerReceive(k) \/ CustomerContinue(k) \/ CustomerCrash(k)
             PROVE  Goal
  BY <1>1 DEF CustomerNext
<1>2. ASSUME OnlyCustomerCall(k), customerCalls'[k].pc # "deleting"
      PROVE  Goal
  BY <1>2 DEF OnlyCustomerCall
<1>3. CASE CustomerReceive(k)
  BY <1>2, <1>3, CustomerReceives DEF CustomerInv, Receives, Received
<1>4. CASE ChecksTaxId(k) \/ ChecksPassport(k) \/ SaveReadsCustomer(k)
  BY <1>2, <1>4, TaxIdGoesOn, PassportGoesOn, SaveReadsGoesOn DEF GoesOn, Deleting
<1>5. ASSUME NEW op, NEW result, CustomerFinishes(k, op, result)
      PROVE  Goal
  BY <1>2, <1>5
  DEF CustomerFinishes, CustomerIdle, OnlyCustomerCall, CustomerInv, CustomerTypeInv,
      CustomerTypeOK
<1>6. ASSUME NEW pc, CustomerAdvances(k, pc)
      PROVE  /\ OnlyCustomerCall(k) /\ customerCalls'[k].pc = pc
             /\ customerCalls'[k].customer = customerCalls[k].customer
  BY <1>6
  DEF CustomerAdvances, OnlyCustomerCall, CustomerInv, CustomerTypeInv, CustomerTypeOK,
      CustomerCalls
<1>7. CASE InsertsCustomer(k) \/ SaveWritesCustomer(k) \/ DeleteWrites(k)
           \/ CustomerCrash(k)
  BY <1>5, <1>7 DEF InsertsCustomer, SaveWritesCustomer, DeleteWrites, CustomerCrash
<1>8. CASE DeleteLocks(k)
  BY <1>2, <1>5, <1>6, <1>8 DEF DeleteLocks
<1>9. CASE DeleteChecks(k)
  <2>1. CASE ~HasActiveOrders(customerCalls[k].customer)
             /\ CustomerAdvances(k, "deleting")
    <3>1. /\ OnlyCustomerCall(k)
          /\ customerCalls'[k].customer = customerCalls[k].customer
      BY <1>6, <2>1
    <3> QED
      BY <2>1, <3>1 DEF OnlyCustomerCall
  <2> QED
    BY <1>5, <1>9, <2>1 DEF DeleteChecks
<1> QED
  BY <1>3, <1>4, <1>7, <1>8, <1>9 DEF CustomerContinue

LEMMA CustomerStepMeets ==
  ASSUME MeetingInv, [CustomerNext]_csVars, UNCHANGED orderVars
  PROVE  MeetingInv'
<1>1. BothInv' /\ NoSaves'
  BY CustomerStepBoth DEF MeetingInv, NoSaves, SaveFree, orderVars
<1>2. /\ UNCHANGED <<orders, calls>>
      /\ \A o \in OrderIds : Clear(o)' => Clear(o)
  BY CustomerStepGentle DEF MeetingInv, BothInv, orderVars, Clear, SaveFree
<1>3. CustomersGoByDeletion
  BY CustomerStepActive DEF MeetingInv, BothInv
<1>4. ASSUME NEW k \in CustomerRequests, customerCalls[k].pc = "deleting",
             NEW r \in OrderRequests, calls[r].pc = "inserting"
      PROVE  calls[r].entity.customer # customerCalls[k].customer
  BY <1>4, Apart
<1>5. \A r \in OrderRequests :
        calls[r].pc = "inserting" => calls[r].entity.customer \in CustomerIds
  BY DEF MeetingInv, BothInv, AtomicInv, SafetyInv, TypeInv, KeysOK
<1>6. InsertionsAllowed'
  BY <1>2, <1>3, <1>4, <1>5 DEF MeetingInv, InsertionsAllowed, CustomersGoByDeletion
<1>7. DeletionsAllowed'
  <2> SUFFICES ASSUME NEW k \in CustomerRequests, customerCalls'[k].pc = "deleting",
                      NEW o \in OrderIds, Clear(o), orders[o].life = "active"
               PROVE  orders[o].customer # customerCalls'[k].customer
    BY <1>2 DEF DeletionsAllowed
  <2>1. CASE /\ customerCalls[k].pc = "deleting"
             /\ customerCalls'[k].customer = customerCalls[k].customer
    BY <2>1 DEF MeetingInv, DeletionsAllowed
  <2>2. CASE ~HasActiveOrders(customerCalls'[k].customer)
    BY <2>2 DEF HasActiveOrders
  <2> QED
    BY <2>1, <2>2, CustomerStepDeleting DEF MeetingInv, BothInv
<1>8. NoOrphans' /\ ActiveOrdersHaveCustomers'
  BY <1>2, <1>3
  DEF MeetingInv, NoOrphans, Orphan, ActiveOrdersHaveCustomers, DeletionsAllowed,
      CustomersGoByDeletion
<1> QED
  BY <1>1, <1>6, <1>7, <1>8 DEF MeetingInv
-----------------------------------------------------------------------------
LEMMA MeetingInit ==
  ASSUME Init
  PROVE  MeetingInv
<1>1. BothInv
  BY BothInit
<1>2. /\ \A o \in OrderIds : orders[o].life = "absent"
      /\ \A r \in OrderRequests : calls[r].pc = "idle"
      /\ \A k \in CustomerRequests : customerCalls[k].pc = "idle"
  BY DEF Init, DatabaseInit, CallsInit, CustomerCallsInit, NoOrder, Idle, CustomerIdle
<1> QED
  BY <1>1, <1>2
  DEF MeetingInv, NoSaves, Saving, InsertionsAllowed, DeletionsAllowed,
      ActiveOrdersHaveCustomers, NoOrphans, Orphan

LEMMA MeetingAlways == Spec => []MeetingInv
<1>1. Init => MeetingInv
  BY MeetingInit
<1>2. MeetingInv /\ [Next]_vars => MeetingInv'
  BY ApiStep, OrderStepMeets, CustomerStepMeets
<1> QED
  BY <1>1, <1>2, PTL DEF Spec

(* The lock on the customer's row keeps a creation and a deletion apart:    *)
(* while a deletion is about to write, its customer is there, has no active *)
(* order, and nobody is about to insert one.  It is about the routes that   *)
(* save no order: a save may bring one back behind the deletion's check.    *)
THEOREM DeletionsSafe == SaveFree => (Spec => []DeletionsAreSafe)
<1>1. SaveFree /\ MeetingInv => DeletionsAreSafe
  <2> SUFFICES ASSUME SaveFree, MeetingInv, NEW k \in CustomerRequests,
                      customerCalls[k].pc = "deleting"
               PROVE  LET c == customerCalls[k].customer
                      IN  /\ customers[c].life = "active"
                          /\ ~HasActiveOrders(c)
                          /\ \A r \in OrderRequests :
                               calls[r].pc = "inserting" => calls[r].entity.customer # c
    BY DEF DeletionsAreSafe
  <2>1. customers[customerCalls[k].customer].life = "active"
    BY DEF MeetingInv, BothInv, CustomerInv, CustomerCallsOK, CustomerCallOK, Deleting
  <2>2. ~HasActiveOrders(customerCalls[k].customer)
    BY DEF MeetingInv, DeletionsAllowed, HasActiveOrders, Clear
  <2> QED
    BY <2>1, <2>2, Apart
<1> SUFFICES ASSUME SaveFree
             PROVE  Spec => []DeletionsAreSafe
  OBVIOUS
<1>2. MeetingInv => DeletionsAreSafe
  BY <1>1
<1> QED
  BY <1>2, MeetingAlways, PTL

(* No active order belongs to a deleted customer (ADR 0004), whatever       *)
(* creations, deletions and PUTs race: the routes that save no order.       *)
THEOREM NoOrphanedOrders == SaveFree => (Spec => []NoActiveOrderOfDeletedCustomer)
<1> SUFFICES ASSUME SaveFree
             PROVE  Spec => []NoActiveOrderOfDeletedCustomer
  OBVIOUS
<1>1. MeetingInv => NoActiveOrderOfDeletedCustomer
  BY DEF MeetingInv, NoOrphans, NoActiveOrderOfDeletedCustomer, Clear
<1> QED
  BY <1>1, MeetingAlways, PTL

(* With every route, an active order belongs to a deleted customer only if  *)
(* a save of it overwrote a version it had not read: the two row locks let  *)
(* through nothing else.                                                    *)
THEOREM OrphansExplained == Spec => []OrphansOnlyByOverwrites
<1>1. MeetingInv => OrphansOnlyByOverwrites
  BY DEF MeetingInv, NoOrphans, OrphansOnlyByOverwrites, Clear
<1> QED
  BY <1>1, MeetingAlways, PTL
=============================================================================
