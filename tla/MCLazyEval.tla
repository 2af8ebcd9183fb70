---------------------------- MODULE MCLazyEval ----------------------------
(* Programs for LazyEval: every order of the statements of a few modules.  *)
EXTENDS LazyEval

MCClasses == <<"Base", "Child", "Mixin", "Outer">>

None == [n \in Names |-> Missing]
Const(c) == [op |-> "lit", value |-> Str(<<c>>)]
Empty == [op |-> "lit", value |-> Str(<<>>)]
Ref(n) == [op |-> "ref", name |-> n]
NewWith(c, config, override) == [op |-> "new", cls |-> c, config |-> config, override |-> override]
Given(n, c) == [None EXCEPT ![n] = Str(<<c>>)]

Assign(id, n, e) == [kind |-> "assign", id |-> id, name |-> n, expr |-> e]
Aug(id, n, e) == [kind |-> "aug", id |-> id, name |-> n, expr |-> e]
Attr(id, n, e) == [kind |-> "attr", id |-> id, name |-> n, expr |-> e]
Declare(id, n) == [kind |-> "attr", id |-> id, name |-> n, expr |-> [op |-> "none"]]
If(id, c, then, orelse) == [kind |-> "if", id |-> id, cond |-> c, then |-> then, orelse |-> orelse]

Orders(stmts) == {[i \in 1..Len(stmts) |-> stmts[f[i]]] :
                    f \in {g \in [1..Len(stmts) -> 1..Len(stmts)] : IsInjective(g)}}

Schema(parent, body, mixins) == [parent |-> parent, body |-> body, mixins |-> mixins]
NoSchema == Schema("none", <<>>, <<>>)

\* Inheritance and a mixin: an attribute of the parent reads one that the child
\* sets from a global that reads another, and the mixin may set again.
Configs == {NewWith("Child", None, {}),
            NewWith("Child", Given("x", "c"), {}), NewWith("Child", Given("x", "c"), {"x"}),
            NewWith("Child", Given("y", "c"), {"y"}), NewWith("Child", Given("z", "c"), {})}

\* The names are ranked y, x, z, g, h and refer downwards only: no cycle.
Inheriting ==
    {[globals |-> gs,
      classes |-> [Base |-> Schema("none", base, <<>>), Child |-> Schema("Base", child, <<"Mixin">>),
                   Mixin |-> Schema("none", mixin, <<>>), Outer |-> NoSchema]] :
        gs \in UNION {Orders(<<Assign(1, "g", Ref("h")), Assign(2, "h", Const("h")),
                               Assign(3, "s", new)>>) : new \in Configs},
        base \in UNION {Orders(<<Attr(11, "x", e), Attr(12, "y", f)>>) :
                            e \in {Const("1"), Ref("z"), Ref("g")}, f \in {Ref("x"), Ref("z")}},
        child \in UNION {Orders(<<Assign(21, "x", e), Assign(22, "z", f)>>) :
                            e \in {Ref("z"), Ref("h")}, f \in {Const("2"), Ref("g")}},
        mixin \in {<<>>, <<Attr(31, "z", Ref("h"))>>}}

\* An instance inside another, both inheriting from Base, and conditions.
Nesting ==
    {[globals |-> gs,
      classes |-> [Base |-> Schema("none", base, <<>>), Child |-> Schema("Base", <<Assign(21, "y", Const("2"))>>, <<>>),
                   Mixin |-> NoSchema,
                   Outer |-> Schema("Base", outer, <<>>)]] :
        gs \in Orders(<<Assign(1, "g", Const("h")), Assign(2, "s", NewWith("Outer", None, {})),
                        Assign(3, "h", Ref("s"))>>),
        base \in Orders(<<Declare(11, "x"), Attr(12, "y", Ref("x"))>>),
        outer \in UNION {Orders(<<Assign(41, "z", NewWith("Child", Given("x", "c"), {})),
                                  If(42, c, <<Assign(43, "x", Ref("g")), Aug(44, "x", Const("e"))>>,
                                            <<Assign(46, "w", Ref("x"))>>),
                                  Assign(45, "y", Ref("x"))>>) : c \in {Ref("g"), Empty}}}

\* Outer reads, in its parent's body or in its own, an attribute that is an
\* instance of a class with the same parent, or with none.
Reentering ==
    {[globals |-> <<Assign(1, "s", NewWith("Outer", None, {}))>>,
      classes |-> [Base |-> Schema("none", base, <<>>), Child |-> Schema(parent, <<Attr(21, "x", Const("2"))>>, <<>>),
                   Mixin |-> NoSchema, Outer |-> Schema("Base", outer, <<>>)]] :
        parent \in {"none", "Base"},
        base \in {<<Attr(11, "y", Ref("z"))>>, <<Attr(11, "y", Const("1"))>>},
        outer \in Orders(<<Assign(41, "z", NewWith("Child", None, {})), Assign(42, "h", Ref("z"))>>)}

InOrder(body, i, j) == \A m, n \in 1..Len(body) : body[m].id = i /\ body[n].id = j => m < n
NoClasses == [c \in Range(Classes) |-> NoSchema]

\* A global that is assigned again, read before, between and after.
Reassigning ==
    {[globals |-> gs, classes |-> NoClasses] :
        gs \in UNION {{b \in Orders(<<Assign(1, "g", Const("1")), second, Assign(3, "h", Ref("g")),
                                      Assign(4, "s", Ref("h"))>>) : InOrder(b, 1, 2)} :
                        second \in {Aug(2, "g", Const("2")), Assign(2, "g", Const("2"))}}}

\* Names that ask for themselves, at once, through another one or in a branch.
SelfAsking ==
    {[globals |-> gs, classes |-> NoClasses] :
        gs \in Orders(<<Assign(1, "g", Ref("h")), Assign(2, "h", Ref("g")), Assign(3, "s", Ref("g"))>>)
               \cup Orders(<<Assign(1, "g", Ref("g")), Assign(2, "g", Const("2")), Assign(3, "s", Ref("g"))>>)
               \cup Orders(<<If(1, Const("t"), <<Assign(2, "h", Ref("g")), Assign(3, "g", Const("3"))>>, <<>>),
                            Assign(4, "s", Ref("g"))>>)}

MCPrograms == Inheriting \cup Nesting \cup Reentering \cup Reassigning \cup SelfAsking

\* An attribute that is extended after it is set, and read by another one.
Extending ==
    {[globals |-> <<Assign(1, "s", NewWith("Base", None, {}))>>,
      classes |-> [c \in Range(Classes) |-> Schema("none", body, <<>>)]] :
        body \in {b \in Orders(<<Attr(11, "x", Ref("y")), Attr(12, "y", Const("1")), Aug(13, "y", Const("2"))>>) :
                    InOrder(b, 12, 13)}}

\* A name that is set in both branches and read by another statement.
Branching ==
    {[globals |-> gs, classes |-> NoClasses] :
        gs \in UNION {Orders(<<Assign(1, "h", Ref("g")),
                               If(2, c, <<Assign(3, "g", Const("a"))>>, <<Assign(4, "g", Const("b"))>>)>>) :
                        c \in {Const("t"), Empty}}}
=============================================================================
