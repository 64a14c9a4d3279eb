-------------------------- MODULE MCCustomerService --------------------------
(***************************************************************************)
(* CustomerService on a small instance: one customer registered            *)
(* beforehand, room for two more, two values of each identifier.           *)
(***************************************************************************)
EXTENDS CustomerService, TLC

CONSTANTS c1, c2, c3, tax1, pass1, mail1

RequestSymmetry == Permutations(CustomerRequests)

MCPrice == [i \in ItemIds |-> 1]

MCSeedCustomers ==
  [c \in CustomerIds |->
     IF c = c1
     THEN [life |-> "active", taxId |-> tax1, passport |-> pass1,
           email |-> mail1, version |-> 1]
     ELSE NoCustomer]
=============================================================================
