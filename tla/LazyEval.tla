----------------------------- MODULE LazyEval -----------------------------
(***************************************************************************)
(* The evaluator's lazy scopes (crates/evaluator): the globals of a module *)
(* and the attributes of schema instances are evaluated in textual order,  *)
(* and a name that is read before its statements have run is computed by   *)
(* backtracking through its setters.  A schema body runs its parent first, *)
(* then itself, then its mixins, all on one instance; parents and mixins   *)
(* run in the one context object of their class, which every instance      *)
(* that inherits from them shares.                                         *)
(*                                                                         *)
(* Programs are data: values are strings, kept as lists of pieces, `+' is  *)
(* concatenation, a condition is true when its value is not empty, and a   *)
(* string given in a configuration takes the place of the attribute's own. *)
(* Types, decorators, check blocks, lambdas, comprehensions and packages   *)
(* are left out.                                                           *)
(*                                                                         *)
(* The walk is one recursive function over the evaluator's state st, whose *)
(* fields are those of Evaluator that the walk uses:                       *)
(*   gv      variables of the global scope                                 *)
(*   loc     the local scopes above it, innermost last                     *)
(*   gl      the lazy scope of the package                                 *)
(*   heap    schema contexts: one per class, then the snapshots            *)
(*   inst    instances: attribute values, config and its `=' entries       *)
(*   stack   schema_stack, as indices into heap                            *)
(*   held    contexts a RefCell borrow is out on                           *)
(*   target  target_vars; meta: backtrack_meta; ast_id                     *)
(*   wrapped did n - next_level pass below zero?                           *)
(*   panic   what ended the evaluation, "no" while it goes on              *)
(***************************************************************************)
EXTENDS Naturals, Sequences, FiniteSets, SequencesExt

CONSTANTS
    Names,       \* variable and attribute names
    Classes,     \* schemas, a sequence of class names
    Programs     \* what may be evaluated: [globals, classes] records

Undefined == <<"undefined">>
Missing == <<"missing">>
Str(pieces) == <<"str">> \o pieces
Instance(f) == <<"instance", f>>

IsTruthy(v) == v[1] = "instance" \/ (v[1] = "str" /\ Len(v) > 1)
CanAdd(u, v) == u[1] = "str" /\ v[1] = "str"
Add(u, v) == u \o Tail(v)

NoScope == [cache |-> [n \in Names |-> Missing], levels |-> [n \in Names |-> 0],
            cal |-> [n \in Names |-> 0], setters |-> [n \in Names |-> <<>>]]

-----------------------------------------------------------------------------
(* Setters. *)

Setter(cls, stmt, stopped, kind) ==
    [cls |-> cls, stmt |-> stmt, stopped |-> stopped, kind |-> kind]

\* The names a branch of an if statement may set, each with the statement that
\* sets it: nested branches are flattened.
RECURSIVE InIfNames(_)
InIfNames(body) ==
    FoldLeft(LAMBDA acc, s :
                acc \o (IF s.kind = "if" THEN InIfNames(s.then) \o InIfNames(s.orelse)
                        ELSE <<[name |-> s.name, id |-> s.id]>>),
             <<>>, body)

\* emit_setters: one setter per assignment, one per assignment in a branch.
emit_setters(body, cls) ==
    LET OfStmt(s, n) ==
            IF s.kind = "if"
            THEN [i \in 1..Len(SelectSeq(InIfNames(s.then), LAMBDA x : x.name = n)) |->
                    Setter(cls, s, SelectSeq(InIfNames(s.then), LAMBDA x : x.name = n)[i].id, "If")]
                 \o
                 [i \in 1..Len(SelectSeq(InIfNames(s.orelse), LAMBDA x : x.name = n)) |->
                    Setter(cls, s, SelectSeq(InIfNames(s.orelse), LAMBDA x : x.name = n)[i].id, "OrElse")]
            ELSE IF s.name = n THEN <<Setter(cls, s, 0, "Normal")>> ELSE <<>>
    IN  [n \in Names |-> FoldLeft(LAMBDA acc, s : acc \o OfStmt(s, n), <<>>, body)]

merge_setters(s, other) == [n \in Names |-> s[n] \o other[n]]

\* The setters of an instance: the parent's, its own, those of its mixins.
RECURSIVE ClassSetters(_, _)
ClassSetters(p, c) ==
    LET parent == IF p.classes[c].parent = "none" THEN NoScope.setters
                  ELSE ClassSetters(p, p.classes[c].parent)
        own == merge_setters(parent, emit_setters(p.classes[c].body, c))
    IN  FoldLeft(LAMBDA acc, m : merge_setters(acc, ClassSetters(p, m)), own, p.classes[c].mixins)

is_backtracking(scope, n) == scope.levels[n] > 0
setter_len(scope, n) == Len(scope.setters[n])

\* Is this walk the last one that sets n, by count or by position?
LastCalculation(scope, n, ast_id) ==
    /\ ~is_backtracking(scope, n)
    /\ \/ scope.cal[n] + 1 >= setter_len(scope, n)
       \/ /\ setter_len(scope, n) > 0
          /\ LET last == Last(scope.setters[n]) IN
             ast_id = IF last.stopped = 0 THEN last.stmt.id ELSE last.stopped

\* cal_increment, then the cache if it is still empty.
SetInScope(scope, n, v, ast_id) ==
    [scope EXCEPT
        !.cal[n] = IF is_backtracking(scope, n) THEN @ ELSE @ + 1,
        !.cache[n] = IF LastCalculation(scope, n, ast_id) /\ @ = Missing THEN v ELSE @]

-----------------------------------------------------------------------------
(* Contexts, scopes and the small state changes of the walk. *)

Top(st) == Last(st.stack)
InSchema(st) == st.stack # <<>>
InstOf(st) == st.heap[Top(st)].inst
Target(st) == IF st.target = <<>> THEN "none" ELSE Last(st.target)
ClassIndex(c) == CHOOSE i \in 1..Len(Classes) : Classes[i] = c

\* A context for a new instance; the context of a class that is to work for
\* another's instance.
snapshot(i) == [inst |-> i, sub |-> TRUE, scope |-> NoScope]
set_info_with_schema(other) == [other EXCEPT !.sub = FALSE]

Panic(st, why) == [st EXCEPT !.panic = IF @ = "no" THEN why ELSE @]
Ret(st, v) == [st |-> st, v |-> v]

\* get_variable_in_pkgpath: the innermost scope that has the name.
get_variable(st, n) ==
    LET having == {i \in 1..Len(st.loc) : st.loc[i][n] # Missing}
    IN  IF having # {} THEN st.loc[Max(having)][n]
        ELSE IF st.gv[n] = Missing THEN Undefined ELSE st.gv[n]

push_backtrack_meta(st, s) ==
    [st EXCEPT !.meta = Append(@, [stmt_id |-> s.stmt.id, stopped |-> s.stopped,
                                   is_break |-> FALSE, kind |-> s.kind])]
\* Faulty: the record of the walk stays.
keep_backtrack_meta(st) == st

pop_backtrack_meta(st) == [st EXCEPT !.meta = Front(@)]

IsBreak(st) == st.meta # <<>> /\ Last(st.meta).is_break
backtrack_update_break(st, s) ==
    IF st.meta # <<>> /\ Last(st.meta).stopped = s.id
    THEN [st EXCEPT !.meta[Len(st.meta)].is_break = TRUE] ELSE st

\* The if statement being backtracked is the one whose walk just began; the
\* evaluation of its condition may have moved ast_id.
BacktrackOnly(st, kind) == /\ st.meta # <<>>
                           /\ Last(st.meta).kind = kind
                           /\ Last(st.meta).stmt_id = st.ast_id

enter_scope(st) == [st EXCEPT !.loc = Append(@, [n \in Names |-> Missing])]
leave_scope(st) == [st EXCEPT !.loc = Front(@)]

\* add_variable in the innermost scope, and the cache if it was there before.
add_variable(st, n, v) ==
    LET i == Len(st.loc) IN
    IF i = 0 THEN [st EXCEPT !.gv[n] = v]
    ELSE [st EXCEPT !.loc[i][n] = v,
                    !.gl.cache[n] = IF st.loc[i][n] # Missing THEN v ELSE @]

\* Faulty: outside a backtracking walk only the lazy scope hears of the value.
CacheOnly(st, n, v) ==
    [st EXCEPT !.gv[n] = IF st.meta = <<>> THEN @ ELSE v,
               !.gl = [SetInScope(@, n, v, st.ast_id) EXCEPT !.cache[n] = v]]

\* Faulty: a variable that is assigned again keeps what was cached for it.
CacheNotRenewed(st, n, v) == [st EXCEPT !.gv[n] = v, !.gl = SetInScope(@, n, v, st.ast_id)]

\* add_or_update_global_variable: an assignment to a variable that exists
\* always renews the cache, whatever set_value_to_lazy_scope decided.
add_or_update_global_variable(st, n, v) ==
    LET set == [st EXCEPT !.gv[n] = v, !.gl = SetInScope(@, n, v, st.ast_id)]
    IN  IF st.gv[n] = Missing THEN set ELSE [set EXCEPT !.gl.cache[n] = v]

\* The attribute takes the value, then the config entry, if there is one,
\* takes its place (scalars do not merge), and the lazy scope hears of it.
update_schema_scope_value(st, n, v) ==
    LET i == InstOf(st)
        w == IF st.inst[i].config[n] = Missing THEN v ELSE st.inst[i].config[n]
    IN  [st EXCEPT !.inst[i].value[n] = w,
                   !.heap[Top(st)].scope = SetInScope(@, n, w, st.ast_id)]

\* walk_target_with_value for a plain name.
Store(st, n, v) ==
    IF st.loc = <<>> THEN add_or_update_global_variable(st, n, v)
    ELSE IF InSchema(st) /\ (st.meta = <<>> \/ st.inst[InstOf(st)].value[n] # Missing)
         THEN update_schema_scope_value(st, n, v)
         ELSE add_variable(st, n, v)

-----------------------------------------------------------------------------
(* The walk. *)

\* Statements, names and schema bodies call each other; all those calls go
\* through Walk, defined below.
RECURSIVE Walk(_, _, _, _)
WalkStmt(p, st, s) == Walk(p, st, "stmt", s).st
LoadName(p, st, n) == Walk(p, st, "name", n)
SchemaBody(p, st, c, me) == Walk(p, st, "body", <<c, me>>)

walk_stmts(p, st, body) == FoldLeft(LAMBDA acc, s : WalkStmt(p, acc, s), st, body)

walk_stmts_with_setter(p, st, s) ==
    pop_backtrack_meta(WalkStmt(p, push_backtrack_meta(st, s), s.stmt))

\* Faulty: the borrow outlives the walk.
walk_keeping_borrow(p, st, s) ==
    LET lent == [enter_scope(st) EXCEPT !.held = @ \cup {Top(st), ClassIndex(s.cls)}]
    IN  leave_scope(walk_stmts_with_setter(p, lent, s))

\* The context of the setter's class, like the one whose attribute is read,
\* is borrowed until the walk is over.
walk_schema_stmts_with_setter(p, st, s) ==
    LET lent == [enter_scope(st) EXCEPT !.held = @ \cup {Top(st), ClassIndex(s.cls)}]
    IN  [leave_scope(walk_stmts_with_setter(p, lent, s)) EXCEPT !.held = st.held]

\* get_value_from_lazy_scope.  n - next_level is unsigned: when a name asks for
\* itself more often than it has setters it wraps, and the current value is
\* returned with the level left as it is.
get_value_from_lazy_scope(p, st, n, default) ==
    LET scope == st.gl
        level == scope.levels[n]
        up == [st EXCEPT !.gl.levels[n] = level + 1]
    IN  IF n = Target(st) /\ (~is_backtracking(scope, n) \/ setter_len(scope, n) <= 1)
        THEN Ret(st, default)
        ELSE IF scope.cache[n] # Missing THEN Ret(st, scope.cache[n])
        ELSE IF setter_len(scope, n) = 0 THEN Ret(st, default)
        ELSE IF level + 1 > setter_len(scope, n) THEN Ret([up EXCEPT !.wrapped = TRUE], default)
        ELSE LET walked == walk_stmts_with_setter(p, up, scope.setters[n][setter_len(scope, n) - level])
                 v == get_variable(walked, n)
             IN  Ret([walked EXCEPT !.gl.levels[n] = level, !.gl.cache[n] = v], v)

\* SchemaEvalContext::get_value, the same walk over an instance.  self is the
\* context that was on top of the stack when the name was read.
get_value(p, st, n) ==
    LET self == Top(st)
        scope == st.heap[self].scope
        value == st.inst[InstOf(st)].value[n]
        default == IF value # Missing THEN value ELSE get_variable(st, n)
        level == scope.levels[n]
        up == [st EXCEPT !.heap[self].scope.levels[n] = level + 1]
    IN  IF n = Target(st) /\ (~is_backtracking(scope, n) \/ setter_len(scope, n) <= 1)
        THEN Ret(st, default)
        ELSE IF scope.cache[n] # Missing THEN Ret(st, scope.cache[n])
        ELSE IF setter_len(scope, n) = 0 THEN Ret(st, default)
        ELSE IF level + 1 > setter_len(scope, n) THEN Ret([up EXCEPT !.wrapped = TRUE], default)
        ELSE LET walked == walk_schema_stmts_with_setter(p, up, scope.setters[n][setter_len(scope, n) - level])
                 now == walked.inst[walked.heap[self].inst].value[n]
                 v == IF now = Missing THEN Undefined ELSE now
             IN  Ret([walked EXCEPT !.heap[self].scope.levels[n] = level,
                                    !.heap[self].scope.cache[n] = v], v)

\* load_name: outside a schema a global that was declared, lazily; inside one
\* an attribute, and a global that has setters when there is no value to be had.
load_name(p, st, n) ==
    IF ~InSchema(st)
    THEN IF st.gv[n] = Missing THEN Ret(st, Undefined)
         ELSE get_value_from_lazy_scope(p, st, n, get_variable(st, n))
    ELSE LET r == get_value(p, st, n) IN
         IF r.v = Undefined /\ setter_len(r.st.gl, n) > 0
         THEN get_value_from_lazy_scope(p, r.st, n, r.v)
         ELSE r

walk_expr(p, st, e) ==
    CASE e.op = "lit" -> Ret(st, e.value)
      [] e.op = "ref" -> LoadName(p, st, e.name)
      [] e.op = "new" ->       \* walk_schema_expr: a snapshot of the class's context
           LET made == [st EXCEPT !.heap = Append(@, snapshot(Len(st.inst) + 1)),
                                  !.inst = Append(@, [value |-> [n \in Names |-> Missing],
                                                      config |-> e.config,
                                                      override |-> e.override]),
                                  !.held = @ \cup {ClassIndex(e.cls)}]
               r == SchemaBody(p, made, e.cls, Len(made.heap))
           IN  Ret([r.st EXCEPT !.held = st.held], Instance(r.st.inst[r.v].value))

\* walk_schema_attr: a config entry that overrides spares the default value.
WalkAttr(p, st, s) ==
    LET i == InstOf(st)
        self == Top(st)
        config == st.inst[i].config[s.name]
        r == IF s.expr.op = "none" \/ (config # Missing /\ s.name \in st.inst[i].override)
             THEN Ret(st, Missing)
             ELSE walk_expr(p, st, s.expr)
        old == r.st.inst[i].value[s.name]
        w == IF config # Missing THEN config
             ELSE IF r.v # Missing THEN r.v
             ELSE IF old = Missing THEN Undefined ELSE old
    IN  [r.st EXCEPT !.inst[i].value[s.name] = w,
                     !.heap[self].scope =
                         SetInScope(@, s.name,
                                    IF r.st.heap[self].inst = i THEN w
                                    ELSE r.st.inst[r.st.heap[self].inst].value[s.name],
                                    r.st.ast_id)]

\* While a branch is being backtracked the other one is not walked.
WalkIf(p, st, s) ==
    LET c == walk_expr(p, st, s.cond)
        yes == IsTruthy(c.v)
    IN  IF (yes /\ BacktrackOnly(c.st, "OrElse"))
            \/ (~yes /\ BacktrackOnly(c.st, "If"))
        THEN c.st
        ELSE walk_stmts(p, c.st, IF yes THEN s.then ELSE s.orelse)

WalkBody(p, st, s) ==
    CASE s.kind = "assign" ->
           LET r == walk_expr(p, [st EXCEPT !.target = Append(@, s.name)], s.expr)
           IN  [Store(r.st, s.name, r.v) EXCEPT !.target = Front(@)]
      [] s.kind = "aug" ->
           LET r == walk_expr(p, [st EXCEPT !.target = Append(@, s.name)], s.expr)
               o == LoadName(p, r.st, s.name)
           IN  IF CanAdd(o.v, r.v)
               THEN [Store(o.st, s.name, Add(o.v, r.v)) EXCEPT !.target = Front(@)]
               ELSE Panic(o.st, "operand")
      [] s.kind = "attr" ->
           [WalkAttr(p, [st EXCEPT !.target = Append(@, s.name)], s) EXCEPT !.target = Front(@)]
      [] s.kind = "if" -> WalkIf(p, st, s)

walk_stmt(p, st, s) ==
    IF st.panic # "no" \/ IsBreak(st) THEN st
    ELSE LET w == WalkBody(p, [st EXCEPT !.ast_id = s.id], s)
         IN  IF w.panic = "no" THEN backtrack_update_break(w, s) ELSE w
-----------------------------------------------------------------------------
(* Schema bodies. *)

\* The classes whose contexts init_lazy_scope and the calls take for writing.
RECURSIVE Lineage(_, _)
Lineage(p, c) ==
    LET direct == Range(p.classes[c].mixins)
                      \cup (IF p.classes[c].parent = "none" THEN {} ELSE {p.classes[c].parent})
    IN  direct \cup UNION {Lineage(p, d) : d \in direct}

\* call_schema_body: the context of class c, the one there is, now works for
\* the caller's instance with a copy of the caller's lazy scope.  Returns the
\* instance c's body worked on.
call_schema_body(p, st, c, caller) ==
    LET i == ClassIndex(c)
        lent == [st EXCEPT !.held = @ \cup {caller},
                           !.heap[i] = set_info_with_schema(st.heap[caller])]
        r == SchemaBody(p, lent, c, i)
    IN  IF i \in st.held THEN Ret(Panic(st, "borrow"), st.heap[caller].inst)
        ELSE Ret([r.st EXCEPT !.held = st.held], r.v)

\* init_lazy_scope: the setters, and undefined for every attribute they set.
\* Parents and mixins get a fresh scope of their own first.
init_lazy_scope(p, st, c, me) ==
    LET setters == ClassSetters(p, c)
        lineage == Lineage(p, c)
        Fresh(d) == [NoScope EXCEPT !.setters = ClassSetters(p, d)]
    IN  IF \E d \in lineage : ClassIndex(d) \in st.held THEN Panic(st, "borrow")
        ELSE [st EXCEPT !.heap = [i \in DOMAIN @ |->
                            IF i = me THEN [@[i] EXCEPT !.scope = Fresh(c)]
                            ELSE IF i <= Len(Classes) /\ Classes[i] \in lineage
                                 THEN [@[i] EXCEPT !.scope = Fresh(Classes[i])]
                            ELSE @[i]],
                        !.inst[st.heap[me].inst].value =
                            [n \in Names |-> IF @[n] = Missing /\ setters[n] # <<>>
                                             THEN Undefined ELSE @[n]]]

\* schema_body: the parent's body, the class's own statements, the mixins.
schema_body(p, st, c, me) ==
    LET class == p.classes[c]
        ready == IF st.heap[me].sub THEN init_lazy_scope(p, st, c, me) ELSE st
        base == IF class.parent = "none" \/ ready.panic # "no"
                THEN Ret(ready, ready.heap[me].inst)
                ELSE call_schema_body(p, ready, class.parent, me)
        pushed == enter_scope([base.st EXCEPT !.stack = Append(@, me)])
        walked == walk_stmts(p, pushed, class.body)
        mixed == FoldLeft(LAMBDA acc, m : IF acc.st.panic # "no" THEN acc
                                          ELSE call_schema_body(p, acc.st, m, me),
                          Ret(walked, base.v), class.mixins)
    IN  IF base.st.panic # "no" THEN base
        ELSE Ret([leave_scope(mixed.st) EXCEPT !.stack = Front(@)], mixed.v)

Walk(p, st, what, x) ==
    CASE what = "stmt" -> Ret(walk_stmt(p, st, x), Undefined)
      [] what = "name" -> load_name(p, st, x)
      [] what = "body" -> schema_body(p, st, x[1], x[2])

-----------------------------------------------------------------------------
(* Evaluating a program, one statement of the module after the other. *)

VARIABLES
    prog,    \* the program
    ev,      \* the evaluator
    pc       \* the statement to walk next

vars == <<prog, ev, pc>>

\* emit_global_vars: assigned names, in branches too, start undefined.
RECURSIVE emit_global_vars(_)
emit_global_vars(body) ==
    UNION {CASE s.kind = "if" -> emit_global_vars(s.then) \cup emit_global_vars(s.orelse)
             [] s.kind = "assign" -> {s.name}
             [] OTHER -> {} : s \in Range(body)}

\* init_scope and predefine_global_vars.
Start(p) ==
    [gv |-> [n \in Names |-> IF n \in emit_global_vars(p.globals) THEN Undefined ELSE Missing],
     loc |-> <<>>,
     gl |-> [NoScope EXCEPT !.setters = emit_setters(p.globals, "none")],
     heap |-> [i \in 1..Len(Classes) |-> snapshot(0)],
     inst |-> <<>>, stack |-> <<>>, held |-> {}, target |-> <<>>, meta |-> <<>>,
     ast_id |-> 0, panic |-> "no", wrapped |-> FALSE]

Init == \E p \in Programs : prog = p /\ ev = Start(p) /\ pc = 1

\* walk_module: the next statement.
WalkModuleStmt ==
    /\ pc <= Len(prog.globals)
    /\ ev.panic = "no"
    /\ ev' = WalkStmt(prog, ev, prog.globals[pc])
    /\ pc' = pc + 1
    /\ UNCHANGED prog

Next == WalkModuleStmt

Spec == Init /\ [][Next]_vars /\ WF_vars(Next)

Finished == pc > Len(prog.globals) /\ ev.panic = "no"

-----------------------------------------------------------------------------
(* What a program means, whatever the order it is written in: a name has    *)
(* the value its statements give it, taken in order, and whoever reads it   *)
(* reads that.  An attribute that is configured has the configured value.   *)

Module == [cls |-> "none", config |-> [n \in Names |-> Missing]]

\* An instance runs the statements of its parent, its own, its mixins'.
RECURSIVE AllStmts(_, _)
AllStmts(p, c) ==
    IF c = "none" THEN p.globals
    ELSE FoldLeft(LAMBDA acc, m : acc \o AllStmts(p, m),
                  (IF p.classes[c].parent = "none" THEN <<>> ELSE AllStmts(p, p.classes[c].parent))
                      \o p.classes[c].body,
                  p.classes[c].mixins)

RECURSIVE Sets(_, _)
Sets(body, n) == \E s \in Range(body) : IF s.kind = "if" THEN Sets(s.then, n) \/ Sets(s.orelse, n)
                                         ELSE s.name = n

RECURSIVE Meaning(_, _, _)
MeaningOfExpr(p, env, e) ==
    CASE e.op = "lit" -> e.value
      [] e.op = "ref" -> Meaning(p, IF Sets(AllStmts(p, env.cls), e.name) THEN env ELSE Module, e.name)
      [] e.op = "new" -> LET made == [cls |-> e.cls, config |-> e.config]
                         IN  Instance([n \in Names |-> IF Sets(AllStmts(p, e.cls), n)
                                                       THEN Meaning(p, made, n) ELSE Missing])

RECURSIVE MeaningAfter(_, _, _, _, _)
MeaningAfter(p, env, n, v, body) ==
    FoldLeft(LAMBDA acc, s :
        CASE ~Sets(<<s>>, n) -> acc
          [] s.kind = "if" -> MeaningAfter(p, env, n, acc,
                                  IF IsTruthy(MeaningOfExpr(p, env, s.cond)) THEN s.then ELSE s.orelse)
          [] s.kind = "aug" -> Add(acc, MeaningOfExpr(p, env, s.expr))
          [] OTHER -> IF s.expr.op = "none" THEN acc ELSE MeaningOfExpr(p, env, s.expr),
        v, body)

Meaning(p, env, n) ==
    IF env.config[n] # Missing THEN env.config[n]
    ELSE MeaningAfter(p, env, n, Undefined, AllStmts(p, env.cls))

-----------------------------------------------------------------------------
(* Which names a name is computed from.  A node is a name with the class    *)
(* whose instance it belongs to, or with "none" for a global.               *)

RECURSIVE Exprs(_)
Exprs(s) == IF s.kind = "if" THEN {s.cond} \cup UNION {Exprs(t) : t \in Range(s.then \o s.orelse)}
            ELSE {s.expr}

\* The expressions that a walk through the setters of n evaluates: in a branch
\* also those of the statements before the one that sets n.
Asked(body, n) ==
    LET UpTo(b) == UNION {Exprs(b[i]) : i \in {j \in 1..Len(b) : \E k \in j..Len(b) : Sets(<<b[k]>>, n)}}
    IN  UNION {IF s.kind = "if" THEN {s.cond} \cup UpTo(s.then) \cup UpTo(s.orelse) ELSE {s.expr} :
                  s \in {t \in Range(body) : Sets(<<t>>, n)}}

Needs(p, v) ==
    UNION {CASE e.op = "ref" -> {<<IF Sets(AllStmts(p, v[1]), e.name) THEN v[1] ELSE "none", e.name>>}
             [] e.op = "new" -> {w \in {e.cls} \X Names : Sets(AllStmts(p, e.cls), w[2])}
             [] OTHER -> {} : e \in Asked(AllStmts(p, v[1]), v[2])}

RECURSIVE AllNeeds(_, _)
AllNeeds(p, vs) == LET more == vs \cup UNION {Needs(p, v) : v \in vs}
                   IN  IF more = vs THEN vs ELSE AllNeeds(p, more)

\* The walk through the setters of some name comes back to that name.
AsksItself(p) ==
    \E v \in ({"none"} \cup Range(Classes)) \X Names : v \in AllNeeds(p, Needs(p, v))

\* An attribute of an instance of c is computed from another one, and that one
\* by creating an instance that inherits from a class c is made of.
Reenters(p) ==
    \E c \in Range(Classes) : \E n \in Names : \E v \in Needs(p, <<c, n>>) :
        /\ v[1] = c
        /\ \E w \in AllNeeds(p, {v}) : \E e \in Asked(AllStmts(p, w[1]), w[2]) :
              e.op = "new" /\ Lineage(p, e.cls) \cap ({c} \cup Lineage(p, c)) # {}

\* Set by more than one statement of the module: `_a = 1' and then `_a += 1'.
Reassigned(p, n) == Cardinality({i \in 1..Len(p.globals) : Sets(<<p.globals[i]>>, n)}) > 1

\* The name is computed from names that are set once.
Steady(p, n) == \A v \in AllNeeds(p, Needs(p, <<"none", n>>)) : v[1] = "none" => ~Reassigned(p, v[2])

-----------------------------------------------------------------------------
(* Properties. *)

\* Between two statements of the module nothing of a walk is left over: no
\* backtracking level, no target, no scope, no schema and no borrow, however
\* deeply the statement backtracked (get_value and get_value_from_lazy_scope
\* put the level back, schema_body's defer! the rest).
Balanced ==
    ev.panic = "no" =>
        /\ ev.gl.levels = [n \in Names |-> 0]
        /\ ev.loc = <<>> /\ ev.stack = <<>> /\ ev.target = <<>> /\ ev.meta = <<>>
        /\ ev.held = {}

\* What the lazy scope of the module has cached for a name that is set by one
\* statement, or that no statement has set yet, is the value the name ends up
\* with, whoever asked for it first.  A name that is assigned again follows its
\* assignments (update_lazy_scope_cache: "subsequent loads get the new value"):
\* what is cached is never behind the variable.
CachedIsFinal ==
    ~AsksItself(prog) /\ ev.panic = "no" =>
        \A n \in Names : ev.gl.cache[n] # Missing =>
            IF Reassigned(prog, n) /\ Sets(SubSeq(prog.globals, 1, pc - 1), n)
            THEN ev.gl.cache[n] = ev.gv[n]
            ELSE Steady(prog, n) => ev.gl.cache[n] = Meaning(prog, Module, n)

\* "LazyEvalScope represents a scope of sequentially independent
\* calculations": the module's variables, and through them the attributes of
\* every instance, do not depend on the order of the statements.  (A reader of
\* a name that is assigned twice does see where it stands.)
OrderIrrelevant ==
    Finished /\ ~AsksItself(prog) =>
        \A n \in Names : ev.gv[n] # Missing /\ Steady(prog, n) => ev.gv[n] = Meaning(prog, Module, n)

\* n - next_level goes below zero, where a build with overflow checks stops,
\* only in a program with a name that asks for itself; and a context is written
\* while it is borrowed (init_lazy_scope's borrow_mut against the borrow that
\* get_variable_in_schema_or_rule holds through the walk) only in a program in
\* which reading an attribute creates an instance that shares a parent or a
\* mixin with the reader.
NeverStuck ==
    /\ ev.wrapped \/ ev.panic = "operand" => AsksItself(prog)
    /\ ev.panic = "borrow" => Reenters(prog)
=============================================================================
