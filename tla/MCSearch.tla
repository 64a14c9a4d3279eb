------------------------------ MODULE MCSearch ------------------------------
EXTENDS Search

Type(type) == [type |-> type, enum |-> {}]
MCColumns ==
  [customers |-> [id |-> Type("uuid"), createdBy |-> Type("varchar"),
                  version |-> Type("int4"), deletedAt |-> Type("timestamptz"),
                  name |-> Type("varchar"), passportNumber |-> Type("varchar")],
   orders |-> [id |-> Type("uuid"), createdBy |-> Type("varchar"),
               version |-> Type("int4"), deletedAt |-> Type("timestamptz"),
               total |-> Type("decimal"), status |-> [type |-> "enum", enum |-> {1, 2, 3}]]]

Customer(id, by, name, passport) ==
  [id |-> id, createdBy |-> by, version |-> 1, deletedAt |-> NULL, name |-> name,
   passportNumber |-> passport]
Order(id, by, total, status) ==
  [id |-> id, createdBy |-> by, version |-> 1, deletedAt |-> NULL, total |-> total,
   status |-> status]
MCRows ==
  [customers |-> <<Customer(1, 1, 1, 2), Customer(2, 2, 2, NULL), Customer(3, 1, 2, 1)>>,
   orders |-> <<Order(1, 1, 2, 1), Order(2, 2, 1, 1), Order(3, 1, 2, 2)>>]

Part(form, n) == [form |-> form, n |-> n]
If(field, operator, value) == [field |-> field, operator |-> operator, value |-> value]
Conditions ==
  {If("name", "eq", <<Part("word", 2)>>), If("name", "lk", <<Part("word", 2)>>),
   If("name", "neq", <<Part("word", 1), Part("word", 2)>>), If("name", "regex", <<Part("word", 1)>>),
   If("name", "eq", <<Part("nul", 9)>>), If("name", "eq", <<>>),
   If("passportNumber", "neq", <<Part("word", 1)>>), If("nickname", "eq", <<Part("word", 1)>>),
   If("createdBy", "eq", <<Part("word", 2)>>), If("createdBy", "in", <<Part("word", 1), Part("word", 2)>>),
   If("id", "eq", <<Part("word", 1)>>), If("id", "in", <<Part("uuid", 1), Part("uuid", 3)>>),
   If("id", "in", <<Part("uuid", 1), Part("uuid", 2), Part("uuid", 3)>>),
   If("version", "lte", <<Part("int4", 1)>>), If("version", "eq", <<Part("int53", 9)>>),
   If("version", "lk", <<Part("int4", 1)>>), If("version", "gte", <<Part("bigger", 9)>>),
   If("deletedAt", "gt", <<Part("odd-date", 1)>>), If("deletedAt", "lt", <<Part("date", 1)>>),
   If("total", "between", <<Part("fraction", 1), Part("int4", 2)>>), If("total", "between", <<Part("int4", 1)>>),
   If("status", "eq", <<Part("word", 1)>>), If("status", "gt", <<Part("word", 1)>>),
   If("status", "eq", <<Part("word", 7)>>), If("total", None, <<>>), If("createdBy", None, <<>>)}
Pairs ==
  {f \in {{c, d} : c, d \in Conditions} :
     \A c, d \in f : c # d /\ c.field = d.field =>
                      /\ c.operator # d.operator
                      /\ None \notin {c.operator, d.operator}}

Request(f, s, o, p, n) ==
  [filter |-> f, sort |-> s, order |-> o, page |-> p, size |-> n]
MCRequests ==
  {Request(f, s, o, 0, n) :
     f \in {{}} \cup {{c} : c \in Conditions}, s \in {"", "version", "passportNumber", "total"},
     o \in {"asc", "desc"}, n \in {1, 2, 9}}
  \cup {Request(f, "", "asc", 0, 1) : f \in Pairs}
  \cup {Request({}, s, o, p, n) :
          s \in {"", "nickname"}, o \in {"asc", "up"}, p \in {0, 1, 3}, n \in {0, 1, 2}}
  \cup {Request({If(f, "eq", <<Part("word", 1)>>) : f \in {"name", "createdBy", "nickname"}},
                "", "asc", 0, 1)}

MCUsers == {[username |-> 1, roles |-> {"ROLE_USER"}], [username |-> 9, roles |-> {"ROLE_ADMIN"}], System}
=============================================================================
