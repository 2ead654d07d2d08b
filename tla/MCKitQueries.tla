------------------------------ MODULE MCKitQueries ------------------------------
(***************************************************************************)
(* Two tables with every kind of column and index, and the queries that       *)
(* reach each translation; 4-bit integers, doubles of 3 bits.                *)
(***************************************************************************)
EXTENDS KitQueries, TLC

\* items(id, n, m, x, s, b): n, m, b and x have a bitmap index, s an FM index;
\* m is narrow.
Items == [name |-> "items", pk |-> <<"id">>,
          type |-> [id |-> "int", n |-> "int", m |-> "narrow", x |-> "float", s |-> "text", b |-> "bytes"],
          bitmap |-> {"n", "m", "b", "x"}, fm |-> {"s"}, learned |-> {}, unique |-> {}]

\* tags(id, item, w): item is indexed, w only by a learned range.
Tags == [name |-> "tags", pk |-> <<"id">>,
         type |-> [id |-> "int", item |-> "int", w |-> "int"],
         bitmap |-> {"item"}, fm |-> {}, learned |-> {"w"}, unique |-> {}]

\* Integers of 4 bits, a narrow column of 2, doubles exact to 4.
MCMinInt    == -8
MCMinNarrow == -2

MCDefs == [items |-> Items, tags |-> Tags]

A == <<1>>      \* the texts "a", "ab", "b"
AB == <<1, 2>>
B == <<2>>

Item(id, n, m, x, s, b) == [id |-> IntV(id), n |-> n, m |-> m, x |-> x, s |-> s, b |-> b]
Tag(id, item, w)     == [id |-> IntV(id), item |-> item, w |-> w]

Low  == Item(1, IntV(-8), IntV(-2), FloatV(-2), TextV(A), BytesV(A))
Mid  == Item(2, IntV(1), IntV(1), FloatV(0), TextV(AB), NullV)
Bare == Item(3, NullV, NullV, NullV, NullV, BytesV(AB))
High == Item(3, IntV(7), IntV(0), FloatV(2), TextV(B), BytesV(B))

\* Valid, and yet m is read back as 1 and x is no double.
Wide == Item(3, IntV(1), IntV(5), IntV(2), TextV(B), TextV(A))

MCContents ==
  [items |-> {<<>>, <<Low, Mid>>, <<Mid, Bare>>, <<Low, Mid, High>>, <<Mid, Wide>>},
   tags  |-> {<<Tag(1, IntV(2), IntV(1)), Tag(2, IntV(3), IntV(1)), Tag(3, NullV, IntV(2))>>,
              <<Tag(1, IntV(2), IntV(2))>>}]

MCStagedOps ==
  {[op |-> "insert", table |-> "items", row |-> Item(4, IntV(1), IntV(6), IntV(1), TextV(A), NullV)],
   [op |-> "update", table |-> "items", key |-> <<IntV(2)>>,
    row |-> Item(2, IntV(3), IntV(0), FloatV(1), NullV, BytesV(B))],
   [op |-> "insert", table |-> "items",            \* refused: bytes are no integer
    row |-> Item(4, BytesV(A), NullV, NullV, TextV(A), NullV)],
   [op |-> "delete", table |-> "items", key |-> <<IntV(1)>>],
   [op |-> "truncate", table |-> "tags"]}

Cmp(op, l, r)  == [op |-> op, l |-> l, r |-> r]
C(c)           == Column("", c)
I(n)           == Literal(IntV(n))
In(c, list)    == [op |-> "in", l |-> C(c), list |-> list]
Null(op, c)    == [op |-> op, l |-> C(c)]
And(p, q)      == [op |-> "and", args |-> <<p, q>>]
Or(p, q)       == [op |-> "or", args |-> <<p, q>>]
Not(p)         == [op |-> "not", arg |-> p]
Text(op, c, s) == [op |-> op, l |-> C(c), s |-> s]
Like(c)        == [op |-> "like", l |-> C(c),
                   pattern |-> [runs |-> {A, B}, matches |-> {AB}, escaped |-> FALSE]]

Q(table, filter) == [kind |-> "select", table |-> table, cols |-> <<>>, filter |-> filter,
                     order |-> <<>>, limit |-> NoLimit, offset |-> 0]
SubItems(p)      == [Q("tags", <<p>>) EXCEPT !.cols = <<"item">>]

\* Comparisons of every column with literals of its type and of others.
Atoms ==
  {Cmp(op, C("n"), I(n)) : op \in Comparisons, n \in {-8, 1, 7}}
  \cup {Cmp(op, C("m"), I(n)) : op \in {"eq", "lt", "gte"}, n \in {1, 5}}
  \cup {Cmp(op, C("x"), l) : op \in Comparisons, l \in {I(0), Literal(FloatV(-2))}}
  \cup {Cmp("eq", C("id"), I(2)), Cmp("eq", C("s"), Literal(TextV(A))),
        Cmp("lt", C("s"), Literal(TextV(B))), Cmp("eq", C("b"), Literal(TextV(A))),
        Cmp("eq", C("n"), Literal(NullV)), Cmp("lt", I(1), C("n")), Cmp("eq", I(1), C("n")),
        In("n", <<IntV(1), IntV(7)>>), In("n", <<NullV, IntV(1)>>), In("x", <<FloatV(0)>>), In("m", <<IntV(1)>>),
        In("s", <<TextV(A)>>), [In("n", <<IntV(1)>>) EXCEPT !.op = "not_in"],
        Null("is_null", "n"), Null("not_null", "s"), Null("truthy", "x"), Null("is_null", "b"),
        Text("prefix", "b", A), Text("contains", "s", B), Text("contains", "s", <<>>), Like("s"),
        [op |-> "in_sub", l |-> C("id"), sub |-> SubItems(Cmp("eq", C("w"), I(1)))],
        [op |-> "in_sub", l |-> C("id"), sub |-> SubItems(Cmp("gte", C("w"), I(2)))],
        [op |-> "exists", sub |-> SubItems(Cmp("eq", C("item"), I(3)))],
        [op |-> "not_exists", sub |-> SubItems(Cmp("eq", C("item"), I(3)))]}

Few == {Cmp("gte", C("n"), I(1)), Cmp("lt", C("x"), I(1)), Text("prefix", "b", A),
        Null("is_null", "s"), Cmp("ne", C("n"), I(7)), Like("s")}

Filters == Atoms \cup {Not(p) : p \in Few}
                 \cup {And(p, q) : p, q \in Few} \cup {Or(p, q) : p, q \in Few}
                 \cup {Or(Cmp("eq", C("n"), I(7)), [op |-> "exists", sub |-> SubItems(Cmp("lt", C("w"), I(2)))])}

Ordered(c, desc) == [Q("items", <<>>) EXCEPT !.order = <<[c |-> c, desc |-> desc]>>]

Selects ==
  {Q("items", <<p>>) : p \in Filters}
  \cup {Ordered(c, d) : c \in {"id", "n", "s", "b"}, d \in BOOLEAN}
  \cup {[Ordered("n", TRUE) EXCEPT !.order = @ \o <<[c |-> "x", desc |-> FALSE]>>],
        [Ordered("x", FALSE) EXCEPT !.limit = 1, !.offset = 1],
        [Q("items", <<Cmp("gt", C("n"), I(-8))>>) EXCEPT !.limit = 1,
            !.order = <<[c |-> "n", desc |-> TRUE]>>]}

Distincts == {[Q("items", <<>>) EXCEPT !.kind = "distinct", !.cols = <<"n">>]}

Withs == {[kind |-> "with", ctes |-> <<[name |-> "big", query |-> Q("items", <<Cmp("gte", C("n"), I(1))>>)]>>,
           query |-> [Q("big", <<Cmp("lt", C("x"), I(1))>>) EXCEPT !.order = <<[c |-> "id", desc |-> TRUE]>>]]}

Agg(fn, c, d) == [fn |-> fn, col |-> c, distinct |-> d, alias |-> "v"]
AggQuery(kind, aggs, group, filter) ==
  [kind |-> kind, table |-> "items", filter |-> filter, group |-> group, aggs |-> aggs, having |-> <<>>]

Functions0 == {Agg("count", "", FALSE), Agg("count", "n", FALSE), Agg("count", "s", FALSE),
               Agg("count", "n", TRUE), Agg("count", "s", TRUE), Agg("count", "m", TRUE), Agg("max", "m", FALSE),
               Agg("sum", "n", FALSE), Agg("sum", "x", FALSE), Agg("avg", "x", FALSE),
               Agg("min", "n", FALSE), Agg("max", "x", FALSE), Agg("sum", "n", TRUE)}

Aggregations ==
  {AggQuery("aggregate", <<f>>, <<>>, p) :
     f \in Functions0, p \in {<<>>, <<Cmp("gte", C("n"), I(1))>>, <<Cmp("lt", C("m"), I(1))>>,
                              <<Null("not_null", "n")>>}}
  \cup {AggQuery("aggregate", <<Agg("count", "", FALSE)>>, g, <<>>) : g \in {<<"n">>, <<"n", "s">>}}
  \cup {[AggQuery("aggregate", <<Agg("count", "", FALSE)>>, <<"n">>, <<>>) EXCEPT
           !.having = <<Cmp("gt", C("v"), I(1))>>]}

Incrementals ==
  {AggQuery("incremental", <<f>>, <<>>, p) :
     f \in {g \in Functions0 : ~g.distinct},
     p \in {<<>>, <<Cmp("gte", C("n"), I(1))>>, <<Cmp("lt", C("m"), I(1))>>,
            <<And(Cmp("gte", C("n"), I(1)), Cmp("ne", C("n"), I(7)))>>}}

D(alias, c) == Column(alias, c)
On          == <<Cmp("eq", D("t", "item"), D("i", "id"))>>
Join(kind, on, filter) ==
  [kind |-> "join", table |-> "items", alias |-> "i", filter |-> filter,
   joins |-> <<[table |-> "tags", alias |-> "t", kind |-> kind, on |-> on]>>,
   order |-> <<[c |-> D("i", "n"), desc |-> TRUE]>>, limit |-> NoLimit, offset |-> 0]

JoinFilters ==
  {<<>>, <<Cmp("gte", D("i", "n"), I(1))>>, <<Cmp("eq", D("t", "w"), I(1))>>,
   <<And(Cmp("gt", D("i", "x"), I(-2)), Cmp("ne", D("i", "n"), D("t", "w")))>>,
   <<Or(Cmp("eq", D("t", "w"), I(1)), Cmp("eq", D("i", "n"), I(7)))>>,
   <<Cmp("eq", C("w"), I(1))>>, <<Cmp("eq", C("w"), D("i", "n"))>>,
   <<And(Cmp("gte", D("i", "n"), I(1)), Cmp("lt", C("w"), I(2)))>>,
   <<Cmp("eq", D("z", "n"), I(1))>>,
   <<Or(Cmp("eq", D("t", "w"), I(1)), [op |-> "not_exists", sub |-> SubItems(Cmp("lt", C("w"), I(2)))])>>}

JoinQueries ==
  {Join(kind, on, f) : kind \in {"inner", "left"}, f \in JoinFilters,
                       on \in {On, <<Cmp("gte", D("i", "id"), D("t", "item"))>>}}
  \cup {Join("cross", <<>>, f) : f \in JoinFilters}
  \cup {[Join(kind, <<Cmp("eq", D("i", c[1]), D("t", c[2]))>>, <<>>) EXCEPT
           !.table = "tags", !.alias = "t", !.joins[1].table = "items", !.joins[1].alias = "i"] :
           kind \in {"inner", "left"}, c \in {"n", "m", "x"} \X {"w"} \cup {<<"n", "item">>}}

MCAsks == Selects \cup Distincts \cup Withs \cup Aggregations \cup Incrementals \cup JoinQueries

\* i.n = w, of one alias and a bare column.
MCMixedAsks == {Join("inner", On, <<Cmp("eq", D("i", "n"), C("w"))>>)}

\* The largest m.
MCNarrowAsks == {AggQuery("aggregate", <<Agg("max", "m", FALSE)>>, <<>>, <<>>)}
=============================================================================
