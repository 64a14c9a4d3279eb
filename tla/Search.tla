------------------------------- MODULE Search -------------------------------
(***************************************************************************)
(* GET and POST /customers/search and /orders/search: a client walks       *)
(* through the pages of one search while rows are soft-deleted.  Each page *)
(* goes through                                                            *)
(*                                                                         *)
(*   Ask --> ReadContent --> ReadCount                                     *)
(*                                                                         *)
(* Ask is everything up to the first query: SearchRequestDto, the filters, *)
(* the scope of the owner and the SQL that is built.  getManyAndCount then *)
(* sends two queries, and the mapper runs on what they return.             *)
(*                                                                         *)
(* A filter value is text.  Its model is what the code and PostgreSQL can  *)
(* tell of it: the parts between its commas, each with the form it has and *)
(* a number that stands for its meaning.  Text n stands for the first n    *)
(* letters of some word, so it contains text m when m <= n.                *)
(***************************************************************************)
EXTENDS Integers, FiniteSets, SequencesExt

CONSTANTS
  Columns,                \* of each resource: the type and enum of every column
  Rows,                   \* of each resource: the values of every row, by id
  Requests,               \* what a client may search for
  Users,                  \* the user of a call, or System for internal calls
  MaxFilterFields, MaxConditionsPerField, MaxInValues, MaxOffset,  \* SearchLimits
  MaxSize                 \* PaginationConfig.maxSize

NULL == 0
System == [username |-> 0, roles |-> {}]

ASSUME SearchAssumption ==
  /\ {MaxFilterFields, MaxConditionsPerField, MaxInValues, MaxOffset} \subseteq Nat
  /\ MaxSize \in Nat \ {0}
  /\ DOMAIN Rows = DOMAIN Columns
  /\ \A r \in DOMAIN Rows :
       /\ {"id", "createdBy", "deletedAt"} \subseteq DOMAIN Columns[r]
       /\ IsFiniteSet(DOMAIN Rows[r])
       /\ \A id \in DOMAIN Rows[r] :
            /\ Rows[r][id] \in [DOMAIN Columns[r] -> Int]
            /\ Rows[r][id].id = id /\ id # NULL
  /\ \A u \in Users : u = System \/ u.username # NULL
  /\ \A r \in Requests : /\ {"page", "size", "order"} \subseteq DOMAIN r
                         /\ r.page \in Int /\ r.size \in Int

VARIABLES
  resource, request, user,   \* chosen at first, and kept
  table,                     \* the rows now
  page,                      \* the page asked for
  step,                      \* "ask", "content", "count" or "done"
  content,                   \* what the first query has returned
  fetched,                   \* the pages that were answered with 200
  answer                     \* the status of the last response

vars == <<resource, request, user, table, page, step, content, fetched, answer>>
asked == <<resource, request, user>>
-----------------------------------------------------------------------------
(* filter-value.ts *)

KindOf(column) ==
  CASE column.enum # {} -> "enum"
    [] column.type = "uuid" -> "uuid"
    [] column.type \in {"int", "integer", "smallint", "bigint", "int2", "int4", "int8"} ->
         "integer"
    [] column.type \in {"Number", "decimal", "numeric", "float", "double", "real"} ->
         "decimal"
    [] column.type \in {"Boolean", "boolean", "bool"} -> "boolean"
    [] column.type \in {"Date", "date", "timestamp", "timestamptz"} -> "datetime"
    [] OTHER -> "text"

(* Forms of a part: uuid, boolean, date, word, the Numbers, and three more.  *)
(* int53: a safe integer that is no int4.  odd-date: what Date.parse takes   *)
(* and PostgreSQL does not, such as the year 0000.  nul: text with U+0000.   *)
Numbers == {"int4", "int53", "bigger", "fraction"}

Coerces_Anything(column, part) == TRUE
Coerces(column, part) ==
  LET kind == KindOf(column)
  IN  CASE kind = "integer"  -> part.form \in {"int4", "int53"}
        [] kind = "decimal"  -> part.form \in Numbers
        [] kind = "datetime" -> part.form \in {"date", "odd-date"}
        [] kind = "enum"     -> part.form = "word" /\ part.n \in column.enum
        [] kind = "text"     -> TRUE
        [] OTHER             -> part.form = kind

(* What a PostgreSQL column of each kind takes as a parameter. *)
Storable(kind, part) ==
  CASE kind = "integer"  -> part.form = "int4"
    [] kind = "decimal"  -> part.form \in Numbers
    [] kind = "datetime" -> part.form = "date"
    [] kind = "enum"     -> part.form = "word"
    [] kind = "text"     -> part.form # "nul"
    [] OTHER             -> part.form = kind
-----------------------------------------------------------------------------
(* parseQueryFilters.  A condition holds a field, an operator ("eq" unless  *)
(* the client names one) and a value; one that is no string, or exceeds     *)
(* MAX_VALUE_LENGTH, is <<>>.  The operator is None where a field is given  *)
(* neither a string nor an operator: a number, a boolean, null or {}.  Such *)
(* a field counts for the limit, and nothing more becomes of it.            *)

None == "none"
Parsed(filter) == {c \in filter : c.operator # None}

Orderings == {"lt", "lte", "gt", "gte", "between"}
Operators == Orderings \cup {"eq", "neq", "in", "lk"}

FiltersParse(filter) ==
  LET on(field) == {c \in Parsed(filter) : c.field = field}
      fields == {c.field : c \in filter}
  IN  /\ Cardinality(fields) <= MaxFilterFields
      /\ \A field \in fields : Cardinality(on(field)) <= MaxConditionsPerField
      /\ \A c \in Parsed(filter) : c.operator \in Operators /\ c.value # <<>>

DtoValid(r) == r.order \in {"asc", "desc"} /\ r.page >= 0 /\ r.size >= 1

(* OrderService.search adds the owner; CustomerService.search adds nothing. *)
SeesAll == user = System \/ "ROLE_ADMIN" \in user.roles
Owner == [field |-> "createdBy", operator |-> "eq",
          value |-> <<[form |-> "word", n |-> user.username]>>]

Scoped_UnlessAsked(criteria) ==
  IF SeesAll \/ \E c \in criteria : c.field = "createdBy" THEN criteria
  ELSE criteria \cup {Owner}
Scoped(criteria) == IF SeesAll THEN criteria ELSE criteria \cup {Owner}

Criteria ==
  LET parsed == Parsed(request.filter)
      criteria == IF resource = "orders" THEN Scoped(parsed) ELSE parsed
  IN  {c \in criteria : c.field \in DOMAIN Columns[resource]}
-----------------------------------------------------------------------------
(* SearchService.search: the conditions, the order and the page. *)

Column(c) == Columns[resource][c.field]
Parts(c) ==
  IF c.operator \in {"in", "between"} \/ Len(c.value) = 1 THEN c.value
  ELSE <<[form |-> "word", n |-> Len(c.value) + 100]>>   \* text with a comma

Applies(c) ==
  /\ c.operator \in Orderings => KindOf(Column(c)) \notin {"enum", "boolean"}
  /\ c.operator = "in" => Len(c.value) <= MaxInValues
  /\ c.operator = "between" => Len(c.value) = 2
  /\ IF c.operator = "lk" THEN KindOf(Column(c)) = "text"
     ELSE \A part \in Range(Parts(c)) : Coerces(Column(c), part)

EffectiveSize_AsAsked == request.size
EffectiveSize == IF request.size < MaxSize THEN request.size ELSE MaxSize
Offset == page * EffectiveSize

Accepted ==
  /\ DtoValid([request EXCEPT !.page = page])
  /\ FiltersParse(request.filter)
  /\ \A c \in Criteria : Applies(c)
  /\ request.sort \in {""} \cup DOMAIN Columns[resource]
  /\ Offset <= MaxOffset

OrderBy_NoTieBreak ==
  <<[field |-> IF request.sort = "" THEN "id" ELSE request.sort, order |-> request.order]>>
OrderBy ==
  IF request.sort = "" THEN <<[field |-> "id", order |-> "asc"]>>
  ELSE <<[field |-> request.sort, order |-> request.order],
         [field |-> "id", order |-> "asc"]>>

TotalPages_Floor(total) == total \div EffectiveSize
TotalPages(total) == (total + EffectiveSize - 1) \div EffectiveSize
-----------------------------------------------------------------------------
(* What PostgreSQL makes of the query: no comparison with NULL is true, and *)
(* NULLs come last in ascending order.                                      *)

Evaluates(c) ==
  /\ \A part \in Range(Parts(c)) : Storable(KindOf(Column(c)), part)
  /\ c.operator = "lk" => KindOf(Column(c)) = "text"

Holds(row, c) ==
  LET v == row[c.field]
      parts == Parts(c)
      a == parts[1].n
  IN  /\ v # NULL
      /\ CASE c.operator = "eq"  -> v = a
           [] c.operator = "neq" -> v # a
           [] c.operator = "lt"  -> v < a
           [] c.operator = "lte" -> v <= a
           [] c.operator = "gt"  -> v > a
           [] c.operator \in {"gte", "lk"} -> v >= a
           [] c.operator = "in"  -> \E part \in Range(parts) : v = part.n
           [] c.operator = "between" -> a <= v /\ v <= parts[2].n

Matching(criteria) ==
  {id \in DOMAIN table : /\ table[id].deletedAt = NULL
                         /\ \A c \in criteria : Holds(table[id], c)}

Less(x, y, order) ==
  IF order = "asc" THEN x # NULL /\ (y = NULL \/ x < y)
                   ELSE y # NULL /\ (x = NULL \/ x > y)

Before(i, j, keys) ==
  \E k \in DOMAIN keys :
    /\ Less(table[i][keys[k].field], table[j][keys[k].field], keys[k].order)
    /\ \A m \in 1..(k - 1) : table[i][keys[m].field] = table[j][keys[m].field]

InOrder(s, keys) == \A i, j \in DOMAIN s : i < j => ~Before(s[j], s[i], keys)
-----------------------------------------------------------------------------
Done(status) ==
  /\ answer' = status
  /\ step' = "done"
  /\ UNCHANGED <<page, content, fetched>>

Ask ==
  /\ step = "ask"
  /\ \/ ~Accepted /\ Done(400)
     \/ /\ Accepted
        /\ step' = "content"
        /\ UNCHANGED <<page, content, fetched, answer>>
  /\ UNCHANGED <<asked, table>>

ReadContent ==
  /\ step = "content"
  /\ \/ (\E c \in Criteria : ~Evaluates(c)) /\ Done(500)
     \/ /\ \A c \in Criteria : Evaluates(c)
        /\ \E s \in SetToSeqs(Matching(Criteria)) :
             /\ InOrder(s, OrderBy)
             /\ content' = SubSeq(s, Offset + 1, Min({Offset + EffectiveSize, Len(s)}))
        /\ step' = "count"
        /\ UNCHANGED <<page, fetched, answer>>
  /\ UNCHANGED <<asked, table>>

(* The query builder loads no relation, eager or not, so OrderResponseDto   *)
(* finds an order without customer and items.                               *)
MapperFails == resource = "orders" /\ content # <<>>

(* toPageResponse, and the client that got the page asks for the next. *)
ReadCount ==
  /\ step = "count"
  /\ \/ MapperFails /\ Done(500)
     \/ /\ ~MapperFails
        /\ answer' = 200
        /\ fetched' = Append(fetched, content)
        /\ content' = <<>>
        /\ IF page + 1 < TotalPages(Cardinality(Matching(Criteria)))
           THEN page' = page + 1 /\ step' = "ask"
           ELSE step' = "done" /\ UNCHANGED page
  /\ UNCHANGED <<asked, table>>

SoftDelete(id) ==
  /\ table[id].deletedAt = NULL
  /\ table' = [table EXCEPT ![id].deletedAt = 1]
  /\ UNCHANGED <<asked, page, step, content, fetched, answer>>

Init ==
  /\ resource \in DOMAIN Columns
  /\ request \in Requests
  /\ user \in Users
  /\ table = Rows[resource]
  /\ page = request.page
  /\ step = "ask"
  /\ content = <<>>
  /\ fetched = <<>>
  /\ answer = 0

Next == Ask \/ ReadContent \/ ReadCount \/ \E id \in DOMAIN table : SoftDelete(id)

Spec == Init /\ [][Next]_vars
-----------------------------------------------------------------------------
(* Properties. *)

AllFetched == FlattenSeq(fetched)

(* No page holds more rows than PaginationConfig.maxSize, and no OFFSET      *)
(* beyond MAX_OFFSET reaches the database.                                   *)
SearchTypeOK ==
  /\ \A p \in Range(Append(fetched, content)) : /\ Range(p) \subseteq DOMAIN table
                                               /\ Len(p) <= MaxSize
  /\ page \in Int /\ (step \in {"content", "count"} => Offset <= MaxOffset)
  /\ step \in {"ask", "content", "count", "done"}
  /\ answer \in {0, 200, 400, 500}

(* The rows the client may see for which every condition holds that its     *)
(* filter states in the form the API takes.                                 *)
Wanted ==
  {id \in DOMAIN table :
     /\ table[id].deletedAt = NULL
     /\ resource = "orders" => SeesAll \/ table[id].createdBy = user.username
     /\ \A c \in Parsed(request.filter) : c.field \in DOMAIN table[id] => Holds(table[id], c)}

(* Whoever walks through all pages of a table that does not change sees     *)
(* every such row, once and in order, although each page is a query of its  *)
(* own.                                                                     *)
PagesAreTheResult ==
  (/\ step = "done" /\ answer = 200
   /\ request.page = 0 /\ table = Rows[resource]) =>
    /\ Range(AllFetched) = Wanted
    /\ Len(AllFetched) = Cardinality(Wanted)
    /\ InOrder(AllFetched, IF request.sort = "" THEN <<[field |-> "id", order |-> "asc"]>>
                           ELSE <<[field |-> request.sort, order |-> request.order]>>)

(* Deletions between two pages may hide rows from the client; they never    *)
(* show it a row twice.                                                     *)
NoRowTwice == Len(AllFetched) = Cardinality(Range(AllFetched))

(* OrderService.canAccess: no filter of the client makes search() return    *)
(* the order of somebody else.                                              *)
OnlyAccessibleOrders ==
  resource = "orders" =>
    \A p \in Range(Append(fetched, content)) : \A id \in Range(p) :
      SeesAll \/ table[id].createdBy = user.username

(* "Sem isso o valor ia cru para o Postgres" (coerceFilterValue): PostgreSQL*)
(* refuses a query only over a value that has the right form for its column *)
(* and is out of its range.                                                 *)
OnlyRangeErrors ==
  (answer = 500 /\ ~MapperFails) =>
    \E c \in Criteria : \E part \in Range(Parts(c)) :
      <<KindOf(Column(c)), part.form>> \in
        {<<"integer", "int53">>, <<"datetime", "odd-date">>, <<"text", "nul">>}

(* GET and POST /orders/search "Search orders" (README): a search that      *)
(* finds orders answers with them.                                          *)
OrderSearchAnswers ==
  (resource = "orders" /\ \A c \in Criteria : Evaluates(c)) => answer # 500
=============================================================================
