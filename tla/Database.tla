------------------------------ MODULE Database ------------------------------
(***************************************************************************)
(* The PostgreSQL tables the services share, the row locks transactions    *)
(* hold on customers, and repository.save, the library call that writes an *)
(* entity.  Definitions of the database and the library are external: they *)
(* are modelled from how the services use them.                            *)
(***************************************************************************)
EXTENDS Domain

CONSTANTS
  OrderRequests, CustomerRequests,  \* HTTP requests, each one handler call
  SeedCustomers                     \* customers registered beforehand

VARIABLES
  customers,   \* the customers table
  orders,      \* the orders table, each row with its items
  rowLocks,    \* holders of FOR SHARE and FOR UPDATE locks on customer rows
  outdated     \* history: the rows some save wrote over a version of which
               \* the entity it saved is no copy; read by properties only

dbVars == <<customers, orders, rowLocks, outdated>>
-----------------------------------------------------------------------------
(* FOR SHARE is compatible with FOR SHARE only.  An UPDATE of the row by a  *)
(* statement that locked nothing before waits for both.                     *)
NoLocks == [share |-> {}, update |-> {}]
LockTable ==
  [CustomerIds ->
     [share : SUBSET OrderRequests, update : SUBSET CustomerRequests]]

ShareLockFree(c) == rowLocks[c].update = {}
UpdateLockFree(c) == rowLocks[c].update = {} /\ rowLocks[c].share = {}

LockForShare_Forgotten(r, c) == UNCHANGED rowLocks
LockForShare(r, c) ==
  rowLocks' = [rowLocks EXCEPT ![c].share = @ \cup {r}]
LockForUpdate_Forgotten(r, c) == UNCHANGED rowLocks
LockForUpdate(r, c) ==
  rowLocks' = [rowLocks EXCEPT ![c].update = @ \cup {r}]

(* The end of a transaction, by commit or by rollback, frees its locks. *)
Unlock_Never(r) == UNCHANGED rowLocks
Unlock(r) ==
  rowLocks' = [c \in CustomerIds |->
                 [share  |-> rowLocks[c].share \ {r},
                  update |-> rowLocks[c].update \ {r}]]
-----------------------------------------------------------------------------
(* The partial unique indexes of customers: only active rows count, and a   *)
(* NULL passport is never a duplicate.                                      *)
SameTaxId(row1, row2) == row1.taxId = row2.taxId
SamePassport(row1, row2) ==
  row1.passport # NoValue /\ row1.passport = row2.passport

IndexAccepts_Anything(c, row) == TRUE
IndexAccepts(c, row) ==
  row.life = "active" =>
    \A d \in CustomerIds \ {c} :
      customers[d].life = "active" =>
        ~SameTaxId(customers[d], row) /\ ~SamePassport(customers[d], row)

UniqueRows(table) ==
  \A c, d \in CustomerIds :
    /\ c # d
    /\ table[c].life = "active" /\ table[d].life = "active"
    => ~SameTaxId(table[c], table[d]) /\ ~SamePassport(table[c], table[d])
-----------------------------------------------------------------------------
(* repository.save(entity), outside a transaction: it reads the row once    *)
(* more (loaded), then writes the columns in which the entity differs from  *)
(* what it has just read, over the row as it is by then.                    *)
Differing(new, old, current) == IF new # old THEN new ELSE current

(* The UPDATE increments the version, unless the version is itself one of   *)
(* the columns that differ.                                                 *)
NextVersion(entity, loaded, row) ==
  IF entity.version # loaded.version THEN entity.version ELSE row.version + 1

(* save compares no versions, and writes what differs whether or not the    *)
(* row is still the one the handler read.  History remembers the rows where *)
(* it was not: an optimistic lock would have refused that save.             *)
Overwrites(key, entity, loaded, row) ==
  outdated' = IF entity # loaded /\ entity.version # row.version
              THEN outdated \cup {key} ELSE outdated

(* softDelete: one UPDATE of the row, with no entity in memory.             *)
SoftDeleted_ByQuery(row) == [row EXCEPT !.life = "deleted"]
SoftDeleted(row) == [row EXCEPT !.life = "deleted", !.version = @ + 1]
-----------------------------------------------------------------------------
ASSUME DatabaseAssumption ==
  /\ SeedCustomers \in [CustomerIds -> CustomerRows]
  /\ UniqueRows(SeedCustomers)
  /\ \A c \in CustomerIds :
       SeedCustomers[c].life = "absent" => SeedCustomers[c] = NoCustomer
  /\ OrderRequests \cap CustomerRequests = {}

DatabaseInit ==
  /\ customers = SeedCustomers
  /\ orders = [o \in OrderIds |-> NoOrder]
  /\ rowLocks = [c \in CustomerIds |-> NoLocks]
  /\ outdated = {}

(* Every row, status, quantity and total is one the schema can hold. *)
DatabaseTypeOK ==
  /\ customers \in [CustomerIds -> CustomerRows]
  /\ orders \in [OrderIds -> OrderRows]
  /\ rowLocks \in LockTable
  /\ outdated \subseteq OrderIds \cup CustomerIds
=============================================================================
