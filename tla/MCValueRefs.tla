---------------------------- MODULE MCValueRefs ----------------------------
(***************************************************************************)
(* Programs over two names and two keys.  The literals give a dict in a    *)
(* dict, a list in a dict, two different scalars and lists that differ in  *)
(* length, kind and content; the other expressions read one name or unite  *)
(* two.                                                                    *)
(***************************************************************************)
EXTENDS ValueRefs

MCKeys == <<"x", "y">>
MCPaths == {<<>>, <<"x", "y">>}

One(k, op, e) == Config(<<Entry(k, op, <<>>, e)>>)
Two(a, b) == Config(<<a, b>>)

Literals ==
    {One("x", "Union", One("y", "Union", Number(0))),
     One("x", "Union", One("y", "Union", Number(1))),
     One("x", "Override", One("x", "Union", Number(1))),
     Config(<<Entry("x", "Union", <<>>, List(<<Number(0)>>)),
              Entry("x", "Override", <<-1>>, Number(1)),
              Entry("x", "Insert", <<>>, List(<<Number(1)>>))>>),
     List(<<Number(0)>>),
     List(<<One("x", "Union", Number(0)), Number(1)>>),
     List(<<One("x", "Union", Number(1))>>)}

\* Expressions over a name: itself, an attribute, in a literal, unpacked into
\* one.
Over(n) ==
    {Name(n), Attr(n, "x"), One("y", "Union", List(<<Name(n)>>)),
     Two(Unpack(Name(n)), Entry("x", "Union", <<>>, One("x", "Union", Number(1))))}

\* Literals that merge a later entry into the value of a name.
Merging(n) ==
    {Two(Entry("x", "Union", <<>>, Name(n)),
         Entry("x", "Union", <<>>, One("x", "Union", Number(1)))),
     Two(Entry("y", "Union", <<>>, Attr(n, "x")),
         Entry("y", "Insert", <<>>, List(<<Number(1)>>)))}

MCExprs ==
    Literals \cup {Number(1)}
        \cup UNION {Over(n) \cup Merging(n) : n \in Names}
        \cup UNION {{Or(Name(m), Name(n)) : n \in Names \ {m}} : m \in Names}
=============================================================================
