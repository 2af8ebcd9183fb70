----------------------------- MODULE ValueRefs -----------------------------
(***************************************************************************)
(* The values of the evaluator are counted references to mutable cells     *)
(* (ValueRef, Rc<RefCell<Value>>): `clone` copies the reference, only      *)
(* deep_copy copies the value.  Union works in place on its left operand   *)
(* and puts references into the right operand into it.  This module runs   *)
(* straight-line programs of module-level statements                       *)
(*      t = e     t.k.k2 = e     t |= e     t.k |= e                       *)
(* over a heap of such cells, with config literals, attributes, lists, the *)
(* operators : = += and an index in a config entry, ** and |.              *)
(*                                                                         *)
(* A program reads a name only after the last statement that sets it, so   *)
(* the lazy scopes (module LazyEval) have nothing to reorder here.  Keys   *)
(* are not names, so an entry never reads the local variable of an         *)
(* earlier entry.  Schemas, strings and functions are left out: the        *)
(* scalars are the integers 0 and 1.                                       *)
(***************************************************************************)
EXTENDS Integers, FiniteSets, SequencesExt, TLC

CONSTANTS
    Names,      \* module-level names
    Keys,       \* keys of config entries, in the order of the maps
    Exprs,      \* the expressions of the programs
    Paths,      \* the paths of the targets: <<>> or a sequence of keys
    MaxStmts,   \* bound: statements of a program
    Careful     \* TRUE: only programs that stay clear of shared cells

ASSUME KeysAssumption == /\ IsInjective(Keys)
                         /\ <<>> \in Paths
                         /\ MaxStmts \in Nat
                         /\ Careful \in BOOLEAN

VARIABLES
    heap,       \* address -> Value
    env,        \* name -> address of its value, for the names set so far
    seen,       \* names some other name's statement has read
    augmented,  \* names set by a |= since their last plain assignment
    panicked,   \* the program has ended with an error
    count,      \* statements executed
    target      \* the name that the last one set

vars == <<heap, env, seen, augmented, panicked, count, target>>
-----------------------------------------------------------------------------
(* Cells and their content *)

IntValue(n) == [kind |-> "int", n |-> n]
ListValue(s) == [kind |-> "list", items |-> s]
DictValue(v, o, i) == [kind |-> "dict", values |-> v, ops |-> o, indexs |-> i]
Undefined == [kind |-> "undefined"]

Kids(h, r) ==
    CASE h[r].kind = "list" -> ToSet(h[r].items)
      [] h[r].kind = "dict" -> {h[r].values[k] : k \in DOMAIN h[r].values}
      [] OTHER -> {}

RECURSIVE ReachFrom(_, _)
ReachFrom(h, S) ==
    LET T == S \cup UNION {Kids(h, r) : r \in S}
    IN  IF T = S THEN S ELSE ReachFrom(h, T)

Reach(h, r) == ReachFrom(h, {r})
Cyclic(h, r) == \E s \in Reach(h, r) : s \in ReachFrom(h, Kids(h, s))

\* What a user sees of the value at r: the operations and the indexes that a
\* dict remembers of its entries are not part of it.
RECURSIVE Plain(_, _)
Plain(h, r) ==
    CASE h[r].kind = "list" ->
            ListValue([i \in DOMAIN h[r].items |-> Plain(h, h[r].items[i])])
      [] h[r].kind = "dict" ->
            [kind |-> "dict",
             values |-> [k \in DOMAIN h[r].values |-> Plain(h, h[r].values[k])]]
      [] OTHER -> h[r]

\* Every operation yields a heap, a reference and whether it got that far.
Done(h, r) == [h |-> h, r |-> r, ok |-> TRUE]
Panic(h) == [h |-> h, r |-> 0, ok |-> FALSE]

Alloc(h, cell) ==
    LET a == CHOOSE a \in 1..(Cardinality(DOMAIN h) + 1) : a \notin DOMAIN h
    IN  Done((a :> cell) @@ h, a)

\* The keys of a map, in its order.
InOrder(f) == SelectSeq(Keys, LAMBDA k : k \in DOMAIN f)

SetKey(h, p, k, v) == [h EXCEPT ![p].values = (k :> v) @@ @]
SetItems(h, p, s) == [h EXCEPT ![p].items = s]

RECURSIVE deep_copy(_, _)
deep_copy(h, r) ==
    CASE h[r].kind = "list" ->
            LET items == FoldLeft(LAMBDA s, x :
                            LET c == deep_copy(s.h, x)
                            IN  [h |-> c.h, items |-> Append(s.items, c.r)],
                            [h |-> h, items |-> <<>>], h[r].items)
            IN  Alloc(items.h, ListValue(items.items))
      [] h[r].kind = "dict" ->
            LET entries == FoldLeft(LAMBDA s, k :
                            LET c == deep_copy(s.h, h[r].values[k])
                            IN  [h |-> c.h, values |-> (k :> c.r) @@ s.values],
                            [h |-> h, values |-> <<>>], InOrder(h[r].values))
                op(k) == IF k \in DOMAIN h[r].ops THEN h[r].ops[k] ELSE "Union"
                D == DOMAIN h[r].values
            IN  Alloc(entries.h,
                      DictValue(entries.values, [k \in D |-> op(k)],
                                [k \in D \cap DOMAIN h[r].indexs |-> h[r].indexs[k]]))
      [] OTHER -> Alloc(h, h[r])
-----------------------------------------------------------------------------
(* Union *)

\* Whether v may be merged into u.  Union always asks without
\* should_recursive_check: two dicts may, and their entries are asked about
\* when it is their turn.
RECURSIVE value_subsume(_, _, _)
value_subsume(h, v, u) ==
    \/ h[v].kind = "undefined" \/ h[u].kind = "undefined"
    \/ Plain(h, v) = Plain(h, u)
    \/ h[v].kind = "dict" /\ h[u].kind = "dict"
    \/ /\ h[v].kind = "list" /\ h[u].kind = "list"
       /\ Len(h[v].items) = Len(h[u].items)
       /\ \A i \in DOMAIN h[v].items :
             value_subsume(h, h[v].items[i], h[u].items[i])

\* Faulty: values of one kind may always be merged.
SameKind(h, v, u) == h[v].kind = "undefined" \/ h[v].kind = h[u].kind

MayMerge(h, v, u) == value_subsume(h, v, u)

\* The position of index i in a sequence of n items; 0 is out of bounds.
must_normalize_index(i, n) ==
    CASE i >= 0 -> i + 1
      [] i < 0 /\ i + n >= 0 -> i + n + 1
      [] OTHER -> 0

RECURSIVE union(_, _, _, _, _, _), do_union(_, _, _, _, _)

\* Entry k of the right operand, with value v, operation op and index ix (<<>>
\* or <<i>>), merged into the dict at p; lent are the right operands that the
\* enclosing unions have borrowed: none of them can be written.
UnionEntry(h, p, k, v, op, ix, check, lent) ==
    LET present == k \in DOMAIN h[p].values
        old == h[p].values[k]
        isList == present /\ h[old].kind = "list"
        items == h[old].items
        at == must_normalize_index(ix[1], Len(items))
        within == at \in DOMAIN items
    IN
    CASE ix = <<>> /\ (~present \/ op = "Override") -> Done(SetKey(h, p, k, v), p)
      [] ix = <<>> /\ present /\ op = "Union" ->
            IF check /\ ~MayMerge(h, v, old)
            THEN Panic(h)
            ELSE LET u == union(h, old, v, FALSE, check, lent)
                 IN  IF u.ok THEN Done(SetKey(u.h, p, k, u.r), p) ELSE u
      [] ix # <<>> /\ op = "Union" ->
            IF ~isList \/ ~within \/ old \in lent \/ (check /\ ~MayMerge(h, v, items[at]))
            THEN Panic(h)
            ELSE LET u == union(h, items[at], v, FALSE, check, lent)
                 IN  IF u.ok
                     THEN Done(SetItems(u.h, old, [u.h[old].items EXCEPT ![at] = u.r]), p)
                     ELSE u
      [] ix # <<>> /\ op = "Override" ->
            IF ~isList \/ ~within \/ old \in lent
            THEN Panic(h)
            ELSE Done(SetItems(h, old, IF h[v].kind = "undefined"
                                       THEN RemoveAt(items, at)
                                       ELSE [items EXCEPT ![at] = v]), p)
      [] op = "Insert" /\ (present \/ ix # <<>>) ->
            LET fresh == ~present \/ h[old].kind = "undefined"
                a == Alloc(h, ListValue(<<>>))
                g == IF fresh THEN SetKey(a.h, p, k, a.r) ELSE h
                l == IF fresh THEN a.r ELSE old
                s == g[l].items
                pos == IF ix = <<>> THEN Len(s) + 1
                                    ELSE must_normalize_index(ix[1], Len(s))
            IN  IF l = v THEN Done(g, p)
                ELSE IF l \in lent \/ g[l].kind # "list" \/ g[v].kind # "list" THEN Panic(h)
                ELSE IF pos \notin 1..(Len(s) + 1) THEN Panic(h)
                ELSE Done(SetItems(g, l, SubSeq(s, 1, pos - 1) \o g[v].items
                                            \o SubSeq(s, pos, Len(s))), p)

union_fn(h, p, x, check, lent) ==
    LET delta == h[x]
        obj == [h EXCEPT ![p].ops = delta.ops @@ @, ![p].indexs = delta.indexs @@ @]
        op(k) == IF k \in DOMAIN delta.ops THEN delta.ops[k] ELSE "Union"
        ix(k) == IF k \in DOMAIN delta.indexs THEN <<delta.indexs[k]>> ELSE <<>>
    IN  FoldLeft(LAMBDA s, k :
            IF s.ok THEN UnionEntry(s.h, p, k, delta.values[k], op(k), ix(k), check, lent)
                    ELSE s,
            Done(obj, p), InOrder(delta.values))

UnionList(h, p, x, check, lent) ==
    LET delta == h[x].items
        n == Len(h[p].items)
    IN  FoldLeft(LAMBDA s, i :
            IF ~s.ok THEN s
            ELSE IF i > n THEN Done(SetItems(s.h, p, Append(s.h[p].items, delta[i])), p)
            ELSE LET u == union(s.h, s.h[p].items[i], delta[i], FALSE, check, lent)
                 IN  IF u.ok THEN Done(SetItems(u.h, p, [u.h[p].items EXCEPT ![i] = u.r]), p)
                             ELSE u,
            Done(h, p), [i \in DOMAIN delta |-> i])

\* p is borrowed for writing and x for reading while their entries are merged.
\* A left operand that an enclosing union reads, or that lies inside the right
\* one, ends the program: a second borrow panics, and an entry that puts p
\* below itself makes every later copy of it recurse without end.
do_union(h, p, x, check, lent) ==
    CASE p = x -> Done(h, p)
      [] p # x /\ (p \in lent \/ p \in Reach(h, x)) -> Panic(h)
      [] OTHER ->
            CASE h[p].kind = "list" /\ h[x].kind = "list" ->
                    UnionList(h, p, x, check, lent \cup {x})
              [] h[p].kind = "dict" /\ h[x].kind = "dict" ->
                    union_fn(h, p, x, check, lent \cup {x})
              [] OTHER -> Panic(h)

\* With or_mode two integers would be combined bit by bit: bit_or has done so
\* before it comes here.
union(h, p, x, or_mode, check, lent) ==
    IF h[p].kind = "undefined" THEN Done(h, x)
    ELSE IF h[x].kind = "undefined" THEN Done(h, p)
    ELSE IF {h[p].kind, h[x].kind} \subseteq {"list", "dict"}
         THEN do_union(h, p, x, check, lent)
    ELSE IF or_mode THEN Panic(h)
    ELSE Done(h, x)

union_entry(h, p, x, check) == union(h, p, x, TRUE, check, {})

\* lhs | rhs
bit_or(h, l, r) ==
    IF h[l].kind = "int" /\ h[r].kind = "int"
    THEN Alloc(h, IntValue(IF h[l].n + h[r].n > 0 THEN 1 ELSE 0))
    ELSE LET c == deep_copy(h, l) IN union_entry(c.h, c.r, r, TRUE)
-----------------------------------------------------------------------------
(* Expressions *)

Name(n) == [x |-> "name", n |-> n, path |-> <<>>]
Attr(n, k) == [x |-> "name", n |-> n, path |-> <<k>>]
Number(i) == [x |-> "int", i |-> i]
List(s) == [x |-> "list", elts |-> s]
Or(l, r) == [x |-> "or", l |-> l, r |-> r]
Config(s) == [x |-> "config", items |-> s]
Entry(k, op, ix, e) == [key |-> k, op |-> op, ix |-> ix, e |-> e]
Unpack(e) == [key |-> "**", op |-> "Union", ix |-> <<>>, e |-> e]

\* The names an expression reads.
RECURSIVE Uses(_)
Uses(e) ==
    CASE e.x = "name" -> {e.n}
      [] e.x = "int" -> {}
      [] e.x = "list" -> UNION {Uses(e.elts[i]) : i \in DOMAIN e.elts}
      [] e.x = "or" -> Uses(e.l) \cup Uses(e.r)
      [] e.x = "config" -> UNION {Uses(e.items[i].e) : i \in DOMAIN e.items}

load_attr(h, r, k) ==
    CASE h[r].kind = "dict" /\ k \in DOMAIN h[r].values -> Done(h, h[r].values[k])
      [] h[r].kind = "dict" /\ k \notin DOMAIN h[r].values -> Alloc(h, Undefined)
      [] OTHER -> Panic(h)

LoadPath(h, r, path) ==
    FoldLeft(LAMBDA s, k : IF s.ok THEN load_attr(s.h, s.r, k) ELSE s,
             Done(h, r), path)

dict_merge_key_value_pair(h, p, k, v, op, ix, check) ==
    LET d == Alloc(h, DictValue(k :> v, k :> op, IF ix = <<>> THEN <<>> ELSE k :> ix[1]))
        u == union_entry(d.h, p, d.r, check)
    IN  IF u.ok THEN Done(u.h, p) ELSE u

\* The runtime library has its own copy of the union code, the same as the
\* evaluator's for everything but schemas; ** uses that one.
runtime_union_entry(h, p, x) == union_entry(h, p, x, TRUE)

dict_insert_unpack(h, p, v) ==
    CASE h[v].kind = "undefined" -> Done(h, p)
      [] h[v].kind = "dict" -> LET c == deep_copy(h, v)
                               IN  runtime_union_entry(c.h, p, c.r)
      [] OTHER -> Panic(h)

RECURSIVE walk_expr(_, _, _)

walk_config_entries(h, e, items) ==
    FoldLeft(LAMBDA s, item :
        LET v == walk_expr(s.h, e, item.e)
        IN  IF ~s.ok THEN s
            ELSE IF ~v.ok THEN v
            ELSE IF item.key = "**" THEN dict_insert_unpack(v.h, s.r, v.r)
            ELSE dict_merge_key_value_pair(v.h, s.r, item.key, v.r, item.op, item.ix, TRUE),
        Alloc(h, DictValue(<<>>, <<>>, <<>>)), items)

walk_list_expr(h, e, elts) ==
    FoldLeft(LAMBDA s, elt :
        LET v == walk_expr(s.h, e, elt)
        IN  IF ~s.ok THEN s
            ELSE IF ~v.ok THEN v
            ELSE Done(SetItems(v.h, s.r, Append(v.h[s.r].items, v.r)), s.r),
        Alloc(h, ListValue(<<>>)), elts)

walk_binary_expr(h, e, l, r) ==
    LET left == walk_expr(h, e, l)
        right == walk_expr(left.h, e, r)
    IN  IF ~left.ok THEN left
        ELSE IF ~right.ok THEN right
        ELSE bit_or(right.h, left.r, right.r)

\* e gives the names their values.
walk_expr(h, e, expr) ==
    CASE expr.x = "name" -> LoadPath(h, e[expr.n], expr.path)
      [] expr.x = "int" -> Alloc(h, IntValue(expr.i))
      [] expr.x = "list" -> walk_list_expr(h, e, expr.elts)
      [] expr.x = "or" -> walk_binary_expr(h, e, expr.l, expr.r)
      [] expr.x = "config" -> walk_config_entries(h, e, expr.items)
-----------------------------------------------------------------------------
(* Statements: each yields the heap, the names' values and whether it ended *)

dict_set_value(h, p, k, v) ==
    IF h[p].kind = "dict" THEN Done(SetKey(h, p, k, v), p) ELSE Panic(h)

\* Store v at the path of the target t: under the name itself, or in place in
\* the dict that the rest of the path leads to.
walk_target_with_value(h, e, t, path, v) ==
    IF path = <<>> THEN [h |-> h, env |-> (t :> v) @@ e, ok |-> TRUE]
    ELSE LET p == LoadPath(h, e[t], Front(path))
             s == dict_set_value(p.h, p.r, Last(path), v)
         IN  [h |-> IF p.ok THEN s.h ELSE h, env |-> e, ok |-> p.ok /\ s.ok]

Failed(h, e) == [h |-> h, env |-> e, ok |-> FALSE]

\* Faulty: the value is stored as it is.
AssignReference(h, e, t, path, expr) ==
    LET v == walk_expr(h, e, expr)
    IN  IF v.ok THEN walk_target_with_value(v.h, e, t, path, v.r) ELSE Failed(h, e)

walk_assign_stmt(h, e, t, path, expr) ==
    LET v == walk_expr(h, e, expr)
        c == deep_copy(v.h, v.r)
    IN  IF v.ok THEN walk_target_with_value(c.h, e, t, path, c.r) ELSE Failed(h, e)

\* Faulty: the union is done on the value of the target itself.
AugmentInPlace(h, e, t, path, expr) ==
    LET right == walk_expr(h, e, expr)
        org == LoadPath(right.h, e[t], path)
        v == union_entry(org.h, org.r, right.r, TRUE)
    IN  IF right.ok /\ org.ok /\ v.ok
        THEN walk_target_with_value(v.h, e, t, path, v.r)
        ELSE Failed(h, e)

walk_aug_assign_stmt(h, e, t, path, expr) ==
    LET right == walk_expr(h, e, expr)
        org == LoadPath(right.h, e[t], path)
        v == bit_or(org.h, org.r, right.r)
    IN  IF right.ok /\ org.ok /\ v.ok
        THEN walk_target_with_value(v.h, e, t, path, v.r)
        ELSE Failed(h, e)

\* A config literal that merges a later entry into the value of a name.
RECURSIVE MergesIntoName(_)
MergesIntoName(e) ==
    CASE e.x \in {"name", "int"} -> FALSE
      [] e.x = "list" -> \E i \in DOMAIN e.elts : MergesIntoName(e.elts[i])
      [] e.x = "or" -> MergesIntoName(e.l) \/ MergesIntoName(e.r)
      [] e.x = "config" ->
            \/ \E i \in DOMAIN e.items : MergesIntoName(e.items[i].e)
            \/ \E i, j \in DOMAIN e.items :
                  /\ i < j
                  /\ e.items[i].key # "**" /\ Uses(e.items[i].e) # {}
                  /\ e.items[j].key \in {e.items[i].key, "**"}

\* The statements that stay clear of shared cells: no literal merges into a
\* name's value, and a name that |= may have made share is not changed in
\* place.
StaysClear(t, path, e) ==
    /\ ~MergesIntoName(e)
    /\ path # <<>> => t \notin augmented
-----------------------------------------------------------------------------
Init ==
    /\ heap = <<>> /\ env = <<>>
    /\ seen = {} /\ augmented = {}
    /\ panicked = FALSE
    /\ count = 0
    /\ target = CHOOSE n \in Names : TRUE

\* A statement that may come next: what it reads has been set, what it sets has
\* not been read by another one.
MayCome(t, path, e) ==
    /\ ~panicked /\ count < MaxStmts
    /\ t \notin seen
    /\ Uses(e) \subseteq DOMAIN env
    /\ path # <<>> => t \in DOMAIN env
    /\ Careful => StaysClear(t, path, e)

\* The cells that the names lead to, each once.
RECURSIVE Visit(_, _, _)
Visit(h, todo, found) ==
    IF todo = <<>> THEN found
    ELSE LET r == Head(todo)
             kids == CASE h[r].kind = "list" -> h[r].items
                       [] h[r].kind = "dict" ->
                            LET ks == InOrder(h[r].values)
                            IN  [i \in DOMAIN ks |-> h[r].values[ks[i]]]
                       [] OTHER -> <<>>
         IN  IF Contains(found, r) THEN Visit(h, Tail(todo), found)
                                   ELSE Visit(h, kids \o Tail(todo), Append(found, r))

\* Addresses mean nothing: the cells are numbered in the order of Visit, and
\* those nobody refers to are dropped.
Live(r) ==
    LET names == SetToSeq(DOMAIN r.env)
        cells == Visit(r.h, [i \in DOMAIN names |-> r.env[names[i]]], <<>>)
        new(a) == CHOOSE i \in DOMAIN cells : cells[i] = a
        moved(c) ==
            CASE c.kind = "list" -> ListValue([i \in DOMAIN c.items |-> new(c.items[i])])
              [] c.kind = "dict" ->
                    DictValue([k \in DOMAIN c.values |-> new(c.values[k])], c.ops, c.indexs)
              [] OTHER -> c
    IN  [h |-> [i \in DOMAIN cells |-> moved(r.h[cells[i]])],
         env |-> [n \in DOMAIN r.env |-> new(r.env[n])]]

\* The statement has yielded r and leaves the names aug set by |=.
Effect(t, e, aug, r) ==
    LET over == ~r.ok \/ \E n \in DOMAIN r.env : Cyclic(r.h, r.env[n])
        live == Live(r)
    IN  /\ panicked' = over
        /\ env' = IF over THEN env ELSE live.env
        /\ heap' = IF over THEN heap ELSE live.h
        /\ augmented' = IF over THEN augmented ELSE aug
        /\ seen' = seen \cup (Uses(e) \ {t})
        /\ count' = count + 1
        /\ target' = t

Assign(t, path, e) ==
    /\ MayCome(t, path, e)
    /\ Effect(t, e, IF path = <<>> THEN augmented \ {t} ELSE augmented,
              walk_assign_stmt(heap, env, t, path, e))

AugAssign(t, path, e) ==
    /\ MayCome(t, path, e)
    /\ t \in DOMAIN env
    /\ Effect(t, e, augmented \cup {t}, walk_aug_assign_stmt(heap, env, t, path, e))

Next ==
    \E t \in Names, path \in Paths, e \in Exprs :
        Assign(t, path, e) \/ AugAssign(t, path, e)

Spec == Init /\ [][Next]_vars
-----------------------------------------------------------------------------
(* Properties *)

\* A statement changes the value of no name but the one it sets, however the
\* values were put together before: assignment is by value.
ByValue ==
    [][\A n \in DOMAIN env \ {target'} : Plain(heap', env'[n]) = Plain(heap, env[n])]_vars

\* Two names refer to a common list or dict only if one of them was set by |=,
\* the one statement that keeps references into its right operand.
SharedOnlyByAugment ==
    \A m, n \in DOMAIN env :
        m # n /\ {m, n} \cap augmented = {} =>
            \A r \in Reach(heap, env[m]) \cap Reach(heap, env[n]) : Kids(heap, r) = {}

\* What the union c of a and b at the addresses of the heap g owes to them:
\* every entry of a and of b is there, and an entry of both is the union of the
\* two unless b says to override it.  Below a key the two must agree in every
\* scalar and in the length of every list; in a list that is below no key b's
\* item takes the place of a's, if either is a scalar.
RECURSIVE Merged(_, _, _, _, _)
Merged(g, a, b, c, below) ==
    CASE g[a].kind = "undefined" -> Plain(g, c) = Plain(g, b)
      [] g[a].kind # "undefined" /\ g[b].kind = "undefined" -> Plain(g, c) = Plain(g, a)
      [] g[a].kind = "dict" /\ g[b].kind = "dict" ->
            LET A == g[a].values  B == g[b].values  C == g[c].values
                op(k) == IF k \in DOMAIN g[b].ops THEN g[b].ops[k] ELSE "Union"
            IN  /\ DOMAIN C = DOMAIN A \cup DOMAIN B
                /\ \A k \in DOMAIN A \ DOMAIN B : Plain(g, C[k]) = Plain(g, A[k])
                /\ \A k \in DOMAIN B \ DOMAIN A : Plain(g, C[k]) = Plain(g, B[k])
                /\ \A k \in (DOMAIN A \cap DOMAIN B) \ DOMAIN g[b].indexs :
                      /\ op(k) = "Override" => Plain(g, C[k]) = Plain(g, B[k])
                      /\ op(k) = "Union" => Merged(g, A[k], B[k], C[k], TRUE)
      [] g[a].kind = "list" /\ g[b].kind = "list" ->
            LET A == g[a].items  B == g[b].items  C == g[c].items
                scalar(i) == "int" \in {g[A[i]].kind, g[B[i]].kind} /\ g[B[i]].kind # "undefined"
            IN  /\ DOMAIN C = DOMAIN A \cup DOMAIN B
                /\ below => DOMAIN A = DOMAIN B
                /\ \A i \in DOMAIN A \ DOMAIN B : Plain(g, C[i]) = Plain(g, A[i])
                /\ \A i \in DOMAIN B \ DOMAIN A : Plain(g, C[i]) = Plain(g, B[i])
                /\ \A i \in DOMAIN A \cap DOMAIN B :
                      IF scalar(i) /\ ~below THEN Plain(g, C[i]) = Plain(g, B[i])
                                             ELSE Merged(g, A[i], B[i], C[i], below)
      [] OTHER -> Plain(g, a) = Plain(g, b) /\ Plain(g, c) = Plain(g, a)

\* The union of the values of any two names, where it does not end in an error,
\* leaves both as they were and has every entry of either.  Where the two
\* differ in a scalar below a key it is an error and never one of the two in
\* silence; the items of two lists are united one by one, the right one taking
\* the place of a scalar ([0] | [1, 2] is [1, 2]).
UnionKeepsOperands ==
    \A m, n \in DOMAIN env :
        LET u == bit_or(heap, env[m], env[n])
        IN  /\ u.ok /\ "int" \notin {heap[env[m]].kind, heap[env[n]].kind}
                  => Merged(u.h, env[m], env[n], u.r, FALSE)
            /\ \A k \in DOMAIN env : Plain(u.h, env[k]) = Plain(heap, env[k])
=============================================================================
