----------------------------- MODULE MCOrderApi -----------------------------
(***************************************************************************)
(* The API on a small instance: one customer registered beforehand, one    *)
(* item, one administrator.                                                *)
(***************************************************************************)
EXTENDS OrderApi, TLC

CONSTANTS c1, tax1, mail1

RequestSymmetry == Permutations(OrderRequests) \cup Permutations(CustomerRequests)

MCPrice == [i \in ItemIds |-> 1]

MCSeedCustomers ==
  [c \in CustomerIds |->
     IF c = c1
     THEN [life |-> "active", taxId |-> tax1, passport |-> NoValue,
           email |-> mail1, version |-> 1]
     ELSE NoCustomer]
=============================================================================
