------------------------------ MODULE MCQueries ------------------------------
(***************************************************************************)
(* The structs and the calls of the programs that Queries runs.             *)
(***************************************************************************)
EXTENDS QueriesProperties

None == [create_table |-> {}, create_as |-> {}, create_index |-> {}, drop |-> {},
         delete_from |-> {}, update |-> {}, insert |-> {}, write |-> {}, read |-> {}]

Of(kind) == Type(kind)
Optional(kind) == [Type(kind) EXCEPT !.nullable = TRUE]
Primary(kind) == [Type(kind) EXCEPT !.primary = TRUE]
Counted == [Type("Int32") EXCEPT !.primary = TRUE, !.auto_incr = TRUE]
Unique(kind) == [Type(kind) EXCEPT !.unique = TRUE]
Refers(kind, table, column) == [Type(kind) EXCEPT !.ref = <<table, column>>]
Enumeration(name) ==
  [Type("Enum") EXCEPT !.type_name = name,
     !.values = IF name = "Color" THEN <<"red", "green">> ELSE <<"low", "mid", "high">>]

MCEnumerators == [Color |-> [red |-> 0, green |-> 1], Level |-> [low |-> 0, mid |-> 2, high |-> 3]]

MCStructs ==
  [Person |-> <<Column("id", Primary("Int32")), Column("age", Optional("Int32")),
                Column("size", Of("Int32")), Column("name", Of("Text")),
                Column("born", Of("Date"))>>,
   Adult |-> <<Column("id", Of("Int32")), Column("name", Of("Text"))>>,
   Car |-> <<Column("id", Counted), Column("color", Enumeration("Color"))>>,
   Boat |-> <<Column("no", Primary("Int32")), Column("color", Enumeration("Color"))>>,
   Account |-> <<Column("id", Primary("Int32")), Column("owner", Unique("Int32")),
                 Column("sum", Of("Int32"))>>,
   Entry |-> <<Column("id", Counted), Column("sum", Of("Int32"))>>,
   Setting |-> <<Column("key", Primary("Int32")), Column("val", Of("Int32"))>>,
   Thing |-> <<Column("big", Of("Int64")), Column("half", Of("UInt16")), Column("count", Of("UInt64")),
               Column("weight", Of("Float64")), Column("on", Of("Boolean")),
               Column("text", Optional("Text")), Column("level", Enumeration("Level"))>>,
   Tally |-> <<Column("count", Of("UInt64"))>>,
   House |-> <<Column("id", Primary("Int32")), Column("floors", Of("Int32"))>>,
   Room |-> <<Column("no", Counted), Column("house", Refers("Int32", "House", "id"))>>]

-----------------------------------------------------------------------------
(* Short forms.                                                             *)

I(n) == Value("Int32", Number(n))
S(s) == Value("Text", Text(s))
D(n) == Value("Date", Date(n))
C(name) == Col("", name)
A(alias, name) == Col(alias, name)
F(o) == Field(o, <<>>)
As(o, name) == Field(o, <<name>>)
Asc(c) == [column |-> c, desc |-> FALSE]
Desc(c) == [column |-> c, desc |-> TRUE]

Query(fields, table, clauses) ==
  [base |-> select_from(fields, Table(table), <<>>), clauses |-> clauses]
Read_(table, clauses) == [base |-> read_to_select_from(table), clauses |-> clauses]
Where(c) == <<"where", <<c>>>>
People(fields, clauses) == Query(fields, "Person", clauses)
Ask(o) == People(<<As(o, "x")>>, <<>>)
Find(c) == People(<<F(C("id"))>>, <<Where(c)>>)

\* Joins of the table with itself, under the names a and b.
Pairs(how, on, clauses) ==
  [base |-> select_from(<<As(A("a", "id"), "left"), As(A("b", "id"), "right")>>, Table("Person"), <<"a">>),
   clauses |-> << <<"joins", <<JoinWith(how, Table("Person"), "b", on)>>>> >> \o clauses]
SameAge == <<Condition("equal", <<A("a", "age"), A("b", "age")>>)>>

AgeIs(n) == Condition("equal", <<C("age"), I(n)>>)
SizeIs(f, n) == Condition(f, <<C("size"), I(n)>>)
Named(n) == Condition("equal", <<C("name"), S(n)>>)

Ann == [id |-> Number(1), age |-> Number(5), size |-> Number(7), name |-> Text("Ann"), born |-> Date(3)]
Bob == [id |-> Number(2), age |-> Null, size |-> Number(4), name |-> Text("Bob"), born |-> Date(40)]
Small == [id |-> Number(1), age |-> Number(4), size |-> Number(2), name |-> Text("ann"), born |-> Date(3)]

Put(name, row) == [name |-> name, row |-> row, or_replace |-> FALSE]
Replace(name, row) == [name |-> name, row |-> row, or_replace |-> TRUE]
Write_(name, row) == [name |-> name, row |-> row]
New(name, if_not_exists) == [name |-> name, if_not_exists |-> if_not_exists]
Gone(name, what, if_exists, cascade) ==
  [name |-> name, what |-> what, if_exists |-> if_exists, cascade |-> cascade]

-----------------------------------------------------------------------------
(* Questions about people: operators in and around one another, functions,  *)
(* NULL, joins, groups, the clauses and their order.                        *)

Sums ==
  {Ask(Op("minus", <<Op("minus", <<C("size"), C("id")>>), I(1)>>)),
   Ask(Op("minus", <<C("size"), Op("minus", <<C("id"), I(1)>>)>>)),
   Ask(Op("multiplies", <<Op("plus", <<C("size"), C("id")>>), I(2)>>)),
   Ask(Op("divides", <<C("size"), I(2)>>)),
   Ask(Op("plus", <<C("age"), C("size")>>)),
   Ask(Op("coalesce", <<C("age"), I(0)>>)),
   Ask(Op("concat", <<C("name"), S("Bob")>>)),
   Ask(Cast(C("age"), Type("Int32"))),
   Ask(Cast(C("size"), Type("Text"))),
   Ask(Op("minus", <<C("size"), Op("days_between", <<D(1), C("born")>>)>>)),
   Ask(Op("days_between", <<add_duration(C("born"), Duration(1, "weeks")), C("born")>>)),
   Ask(add_duration(add_duration(C("born"), Duration(1, "days")), Duration(2, "months"))),
   Ask(subtract_duration(C("born"), Duration(90000000, "milliseconds"))),
   Ask(add_duration(C("born"), Duration(5000, "milliseconds"))),
   Ask(Op("weekday", <<C("born")>>)), Ask(Op("month", <<C("born")>>)),
   Ask(Op("unixepoch", <<C("born")>>)),
   Ask(trim("ltrim", C("name"))), Ask(Op("upper", <<C("name")>>)), Ask(Op("log2", <<C("size")>>)),
   Ask(round(C("size"))),
   Ask(Op("plus", <<C("size"), C("name")>>))}

Filters ==
  {Find(Condition("and", <<Condition("or", <<SizeIs("equal", 7), SizeIs("equal", 2)>>), AgeIs(4)>>)),
   Find(Condition("or", <<SizeIs("equal", 7), Condition("and", <<SizeIs("equal", 2), AgeIs(5)>>)>>)),
   Find(Condition("not", <<Condition("or", <<Named("Ann"), Named("Bob")>>)>>)),
   Find(Condition("not", <<AgeIs(5)>>)),
   Find(Condition("is_null", <<C("age")>>)),
   Find(Condition("is_not_null", <<Op("plus", <<C("age"), I(1)>>)>>)),
   Find(Condition("in", <<C("name"), S("Ann"), S("ann")>>)),
   Find(Condition("not_in", <<C("age"), I(5), I(3)>>)),
   Find(Condition("like", <<C("name"), S("B%")>>)),
   Find(Condition("equal", <<Op("divides", <<C("size"), I(2)>>), I(3)>>)),
   Find(Condition("equal", <<Op("days_between", <<C("born"), D(10)>>), I(7)>>)),
   Find(Condition("lesser_than", <<add_duration(C("born"), Duration(1, "days")), D(5)>>)),
   Find(Condition("equal", <<add_duration(C("born"), Duration(1, "days")), D(4)>>)),
   Find(Condition("greater_than", <<C("age"), S("Ann")>>)),
   Find(Condition("greater_than", <<C("id"), Op("count", <<>>)>>))}

Groups ==
  {People(<<As(Op("sum", <<C("age")>>), "x"), As(Count(<<C("age")>>, FALSE), "n")>>, <<>>),
   People(<<As(Op("max", <<C("size")>>), "x")>>, << <<"to", <<"one">>>> >>),
   People(<<As(Op("avg", <<C("size")>>), "x"), As(Count(<<C("name")>>, TRUE), "n")>>, <<>>),
   People(<<F(C("name")), As(Count(<<>>, FALSE), "n")>>, << <<"group_by", <<C("name")>>>> >>),
   People(<<F(C("name")), As(Op("sum", <<C("size")>>), "x")>>, <<>>),
   People(<<As(Op("sum", <<C("size")>>), "x")>>, << <<"order_by", <<Asc(C("id"))>>>> >>),
   People(<<As(Op("sum", <<C("size")>>), "x")>>,
          << <<"group_by", <<C("name")>>>>, <<"order_by", <<Asc(C("id"))>>>> >>)}

Clauses ==
  {Read_("Person", <<>>), Read_("Person", << <<"to", <<"one">>>> >>),
   People(<<F(C("id"))>>, << <<"order_by", <<Desc(C("age"))>>>>, <<"limit", <<1>>>> >>),
   People(<<F(C("id"))>>, << <<"order_by", <<Asc(C("name"))>>>>, <<"limit", <<1>>>>, <<"offset", <<1>>>> >>),
   People(<<F(C("id"))>>, << <<"order_by", <<Asc(C("id"))>>>>, <<"offset", <<1>>>> >>),
   People(<<F(C("id"))>>, << <<"limit", <<1>>>>, <<"order_by", <<Asc(C("id"))>>>> >>),
   People(<<F(C("id"))>>, << <<"where", <<AgeIs(5)>>>>, <<"where", <<AgeIs(4)>>>> >>)}

Joins ==
  {Pairs(how, SameAge, <<>>) : how \in {"inner_join", "left_join", "right_join", "full_join"}} \union
  {Pairs("left_join", <<Condition("and", <<SameAge[1], Condition("lesser_than", <<A("a", "id"), A("b", "id")>>)>>)>>,
         << Where(Condition("is_null", <<A("b", "id")>>)) >>)}

Nested ==
  LET ages == select_from(<<F(C("id")), F(C("age"))>>, Table("Person"), <<>>)
      names == select_from(<<As(C("name"), "name")>>, Table("Person"), <<>>)
  IN {[base |-> select_from(<<As(Op("plus", <<C("age"), I(1)>>), "x")>>, ages, <<>>),
       clauses |-> <<Where(AgeIs(5))>>],
      [base |-> select_from(<<As(A("t", "age"), "x")>>, ages, <<"t">>), clauses |-> <<>>],
      [base |-> Union(<<>>, <<names, names>>, FALSE), clauses |-> <<>>],
      [base |-> Union(<<>>, <<names, names>>, TRUE), clauses |-> <<>>],
      [base |-> Union(<<>>, <<ages, names>>, TRUE), clauses |-> <<>>]}

\* The view of the people that have an age.
Adults == select_from(<<F(C("id")), F(C("name"))>>, Table("Person"), <<>>)
View(or_replace, if_not_exists) ==
  [name |-> "Adult", what |-> "view",
   query |-> pipe(Adults, Where(Condition("is_not_null", <<C("age")>>))),
   or_replace |-> or_replace, if_not_exists |-> if_not_exists]
Index(name, columns, unique, if_not_exists, where) ==
  [name |-> name, table |-> "Person", columns |-> columns, unique |-> unique,
   if_not_exists |-> if_not_exists, where |-> where]

-----------------------------------------------------------------------------
(* The programs.                                                            *)

Thing_ == [big |-> Number(5), half |-> Number(3), count |-> Number(2), weight |-> Float(1234),
           on |-> Bool(TRUE), text |-> Text("Ann"), level |-> Enumerator("low")]
Things == {Thing_, [Thing_ EXCEPT !.big = Number(-128), !.text = Null, !.on = Bool(FALSE)],
           [Thing_ EXCEPT !.half = Number(15)], [Thing_ EXCEPT !.count = Number(255)],
           [Thing_ EXCEPT !.text = Text("newline"), !.level = Enumerator("high")],
           [Thing_ EXCEPT !.text = Text("tab")]}

MCPrograms ==
  [questions |->
     [None EXCEPT !.create_table = {New("Person", FALSE)},
                  !.insert = {Put("Person", Ann), Put("Person", Bob), Put("Person", Small)},
                  !.read = Sums \union Filters \union Groups \union Clauses \union Joins \union Nested],
   changes |->
     [None EXCEPT !.write = {Write_("Person", Ann), Write_("Person", Bob)},
        !.insert = {Put("Person", Ann), Replace("Person", Small)},
        !.update = {[name |-> "Person", sets |-> <<[col |-> "size", to |-> C("id")],
                                                   [col |-> "age", to |-> C("size")]>>, where |-> <<>>],
                    [name |-> "Person", sets |-> <<[col |-> "age", to |-> I(5)],
                                                   [col |-> "size", to |-> C("age")]>>,
                     where |-> <<Condition("is_not_null", <<C("age")>>)>>],
                    [name |-> "Person", sets |-> <<[col |-> "id", to |-> I(2)]>>, where |-> <<>>]},
        !.delete_from = {[name |-> "Person", where |-> <<AgeIs(5)>>],
                         [name |-> "Person",
                          where |-> <<Condition("not", <<Condition("or", <<AgeIs(5), Named("Ann")>>)>>)>>]},
        !.read = {Read_("Person", <<>>)}],
   schema |->
     [None EXCEPT !.create_table = {New("Person", FALSE), New("Person", TRUE)},
        !.create_as = {View(FALSE, FALSE), View(FALSE, TRUE), View(TRUE, FALSE),
                       [View(FALSE, FALSE) EXCEPT !.what = "table"]},
        !.create_index = {Index("by_size", <<"size">>, TRUE, FALSE, <<>>),
                          Index("by_size", <<"size">>, FALSE, TRUE, <<>>),
                          Index("grown", <<"size">>, TRUE, FALSE, <<SizeIs("greater_than", 4)>>)},
        !.drop = {Gone("Person", "table", FALSE, FALSE), Gone("Person", "table", TRUE, TRUE),
                  Gone("Adult", "view", TRUE, FALSE)},
        !.insert = {Put("Person", Ann)},
        !.read = {Read_("Adult", <<>>)}],
   fleet |->
     [None EXCEPT !.create_table = {New("Car", FALSE), New("Car", TRUE), New("Boat", FALSE), New("Boat", TRUE)},
        !.drop = {Gone("Car", "table", TRUE, FALSE), Gone("Boat", "table", FALSE, FALSE)},
        !.insert = {Put("Car", [color |-> Enumerator("green")])},
        !.write = {Write_("Boat", [no |-> Number(1), color |-> Enumerator("red")])},
        !.read = {Read_("Car", <<>>), Read_("Boat", <<>>)}],
   keys |->
     [None EXCEPT !.create_table = {New("Account", FALSE)},
        !.insert = UNION {{Put("Account", row), Replace("Account", row)} :
          row \in {[id |-> Number(1), owner |-> Number(1), sum |-> Number(5)],
                   [id |-> Number(2), owner |-> Number(1), sum |-> Number(6)],
                   [id |-> Number(1), owner |-> Number(2), sum |-> Number(6)]}}],
   settings |->
     [None EXCEPT !.create_table = {New("Entry", FALSE), New("Setting", FALSE)},
        !.insert = UNION {{Put(t[1], t[2]), Replace(t[1], t[2])} :
          t \in {<<"Entry", [sum |-> Number(5)]>>,
                 <<"Setting", [key |-> Number(1), val |-> Number(5)]>>,
                 <<"Setting", [key |-> Number(1), val |-> Number(6)]>>}}],
   values |->
     [None EXCEPT !.insert = {Put("Thing", t) : t \in Things}, !.create_table = {New("Thing", FALSE)},
        !.write = {Write_("Thing", t) : t \in Things},
        !.read = {Read_("Thing", <<>>)}],
   tallies |->
     [None EXCEPT !.create_table = {New("Tally", FALSE)},
        !.insert = {Put("Tally", [count |-> Number(n)]) : n \in {2, 255}},
        !.read = {Query(<<F(C("count"))>>, "Tally",
                        <<Where(Condition("equal", <<C("count"), Value("UInt64", Number(n))>>))>>) :
                    n \in {2, 255}}],
   family |->
     [None EXCEPT !.create_table = {New("House", FALSE), New("Room", FALSE), New("Room", TRUE)},
        !.drop = {Gone("House", "table", FALSE, FALSE), Gone("House", "table", TRUE, TRUE),
                  Gone("Room", "table", FALSE, FALSE)},
        !.delete_from = {[name |-> "House", where |-> <<>>]},
        !.insert = {Put("House", [id |-> Number(1), floors |-> Number(2)]),
                    Put("Room", [house |-> Number(1)])},
        !.read = {Query(<<F(C("no"))>>, "Room", <<>>)}]]

MCKeys == [keys |-> MCPrograms["keys"]]
=============================================================================
