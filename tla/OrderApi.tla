------------------------------ MODULE OrderApi ------------------------------
(***************************************************************************)
(* The whole API: requests of OrderService and of CustomerService run      *)
(* against the same tables.  The two services meet in the customer's row:  *)
(* creating an order locks it FOR SHARE, deleting the customer locks it    *)
(* FOR UPDATE and then looks at the orders.                                *)
(***************************************************************************)
EXTENDS OrderService, CustomerService

vars == <<dbVars, orderVars, customerCalls>>

Init == DatabaseInit /\ CallsInit /\ CustomerCallsInit

Next ==
  \/ OrderNext /\ UNCHANGED customerCalls
  \/ CustomerNext /\ UNCHANGED orderVars

Fairness ==
  /\ \A r \in OrderRequests :
       WF_vars(Continue(r) /\ UNCHANGED customerCalls)
  /\ \A k \in CustomerRequests :
       WF_vars(CustomerContinue(k) /\ UNCHANGED orderVars)

Spec == Init /\ [][Next]_vars /\ Fairness
-----------------------------------------------------------------------------
(* Properties. *)

Orphan(o) ==
  orders[o].life = "active" /\ customers[orders[o].customer].life # "active"

(* No active order belongs to a deleted customer (ADR 0004): the deletion   *)
(* that saw no orders and the creation that saw an active customer cannot   *)
(* both commit.  An edit that saves after the deletion of its order and of  *)
(* the customer brings the order back and breaks it.                        *)
NoActiveOrderOfDeletedCustomer == \A o \in OrderIds : ~Orphan(o)

(* That is the only way to such an order: a save that overwrote a version   *)
(* of it.                                                                   *)
OrphansOnlyByOverwrites == \A o \in OrderIds : Orphan(o) => o \in outdated

(* A deletion that is about to write has made sure that the customer is     *)
(* still there and has no order, and nobody is about to insert one.         *)
DeletionsAreSafe ==
  \A k \in CustomerRequests :
    customerCalls[k].pc = "deleting" =>
      LET c == customerCalls[k].customer
      IN  /\ customers[c].life = "active"
          /\ ~HasActiveOrders(c)
          /\ \A r \in OrderRequests :
               calls[r].pc = "inserting" => calls[r].entity.customer # c

(* Every request is answered, or its process dies: waiting for the row of a *)
(* customer always ends, whatever the other requests do.                    *)
RequestsEnd ==
  /\ \A r \in OrderRequests :
       calls[r].pc \in InTransit ~> calls[r].pc = "done"
  /\ \A k \in CustomerRequests :
       customerCalls[k].pc \in CustomerInTransit
         ~> customerCalls[k].pc = "done"
=============================================================================
