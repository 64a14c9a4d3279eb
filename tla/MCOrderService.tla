--------------------------- MODULE MCOrderService ---------------------------
(***************************************************************************)
(* OrderService on a small instance: one active customer, one deleted one, *)
(* an administrator and a user, two items of different prices.             *)
(***************************************************************************)
EXTENDS OrderService, TLC

CONSTANTS c1, c2, i1, i2, admin, user, tax1, mail1

RequestSymmetry == Permutations(OrderRequests)

MCPrice == (i1 :> 1) @@ (i2 :> 3)
MCSeedCustomers ==
  (c1 :> [life |-> "active", taxId |-> tax1, passport |-> NoValue,
          email |-> mail1, version |-> 1]) @@
  (c2 :> [life |-> "deleted", taxId |-> tax1, passport |-> NoValue,
          email |-> mail1, version |-> 2])
=============================================================================
