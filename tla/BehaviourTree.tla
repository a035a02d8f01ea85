--------------------------- MODULE BehaviourTree ---------------------------
(***************************************************************************)
(* The behaviour-tree engine of shared-consensus: a configuration of named *)
(* behaviours is validated, its references are expanded into a tree of     *)
(* independent instances, and the tree is ticked once per slot.  A tick    *)
(* evaluates every composite from its first child, carries over only a     *)
(* Join's finished children, the counts of ForTicks and Wait and the       *)
(* progress of the actions, and collects in the control signal what the    *)
(* actions it reaches write.                                               *)
(*                                                                         *)
(* An instance is named by its path: the child numbers from the root to    *)
(* it.  The catalogue of actions is abstracted to its contract: an action  *)
(* writes its parameter to one field of the signal and is Running.  Texts  *)
(* (TOML, the syntax of expressions) are left out: a configuration is what *)
(* they parse to, and a string value is its rank in the order of strings.  *)
(***************************************************************************)
EXTENDS Naturals, Sequences, FiniteSets

CONSTANTS
    Configs,       \* parsed configurations [root, behaviours, env]
    Within(_, _),  \* Within(c, i): string c contains string i
    EnvUpdates,    \* pairs <<key, value>> that may be written into the environment
    ParamUpdates,  \* pairs <<behaviour, value>> that may be written as overrides
    Fields,        \* the fields of the control signal
    MaxSlot        \* the last slot ticked

VARIABLES
    conf,          \* the configuration loaded
    accepted,      \* whether it compiled
    tree,          \* the instances, by path
    env, over,     \* the environment and the live parameter overrides
    slot,
    out,           \* the control signal of the last tick
    seen           \* the instances the last tick reached, with their status

vars == <<conf, accepted, tree, env, over, slot, out, seen>>

-----------------------------------------------------------------------------
(* Conditions.                                                             *)

Absent == [class |-> "none", v |-> 0]

ChainFields == {"current_slot", "current_epoch", "mempool_tx_count"}

\* The static class of a value reference, or "error".
type_class(r, e) ==
    CASE r.ref = "lit"    -> r.val.class
      [] r.ref = "chain"  -> IF r.name \in ChainFields THEN "num" ELSE "error"
      [] r.ref = "env"    -> IF r.name \in DOMAIN e THEN e[r.name].class ELSE "error"
      [] r.ref = "sensor" -> "num"
      [] OTHER            -> "error"

RECURSIVE ExprValid(_, _)
ExprValid(x, e) ==
    CASE x.kind = "Compare"  -> /\ type_class(x.lhs, e) \in {"num", "str"}
                                /\ type_class(x.rhs, e) = type_class(x.lhs, e)
      [] x.kind = "Contains" -> type_class(x.lhs, e) = "str" /\ type_class(x.rhs, e) = "str"
      [] OTHER               -> \A i \in DOMAIN x.args : ExprValid(x.args[i], e)

\* The context of a tick: the environment, and the state of the chain.
resolve(r, ctx) ==
    CASE r.ref = "lit" -> r.val
      [] r.ref = "chain" /\ r.name \in ChainFields ->
             [class |-> "num", v |-> IF r.name = "current_slot" THEN ctx.slot ELSE 0]
      [] r.ref = "env" /\ r.name \in DOMAIN ctx.env /\ ctx.env[r.name].class # "bool" ->
             ctx.env[r.name]
      [] OTHER -> Absent

apply_op(op, a, b) ==
    CASE op = ">=" -> a >= b
      [] op = ">"  -> a > b
      [] op = "<=" -> a <= b
      [] op = "<"  -> a < b
      [] op = "==" -> a = b
      [] op = "!=" -> a # b

\* A comparison whose operands do not resolve to one class does not hold.
RECURSIVE eval_with(_, _)
eval_with(x, ctx) ==
    CASE x.kind = "Compare" ->
             LET a == resolve(x.lhs, ctx)
                 b == resolve(x.rhs, ctx)
             IN  a.class = b.class /\ a # Absent /\ apply_op(x.op, a.v, b.v)
      [] x.kind = "Contains" ->
             LET c == resolve(x.lhs, ctx)
                 i == resolve(x.rhs, ctx)
             IN  c.class = "str" /\ i.class = "str" /\ Within(c.v, i.v)
      [] x.kind = "And" -> \A i \in DOMAIN x.args : eval_with(x.args[i], ctx)
      [] x.kind = "Or"  -> \E i \in DOMAIN x.args : eval_with(x.args[i], ctx)
      [] x.kind = "Not" -> ~eval_with(x.args[1], ctx)

-----------------------------------------------------------------------------
(* Loading a configuration.                                                *)

Composite == {"Sequence", "Selector", "Join"}

children_of(c, id) ==
    CASE id \notin DOMAIN c.behaviours -> <<>>
      [] c.behaviours[id].type \in Composite -> c.behaviours[id].children
      [] c.behaviours[id].type = "ForTicks" -> <<c.behaviours[id].child>>
      [] OTHER -> <<>>

RECURSIVE check_acyclic(_, _, _)
check_acyclic(c, id, on_path) ==
    /\ id \notin on_path
    /\ LET ch == children_of(c, id)
       IN  \A i \in DOMAIN ch : check_acyclic(c, ch[i], on_path \union {id})

\* Arity and counts of one behaviour, and that its references are defined.
WellFormed(c, id) ==
    LET b == c.behaviours[id]
        ch == children_of(c, id)
    IN  /\ b.type \in Composite => ch # <<>>
        /\ b.type \in {"ForTicks", "Wait"} => b.count >= 1
        /\ \A i \in DOMAIN ch : ch[i] \in DOMAIN c.behaviours

validate_structure(c) ==
    /\ c.root \in DOMAIN c.behaviours
    /\ \A id \in DOMAIN c.behaviours : WellFormed(c, id)
    /\ check_acyclic(c, c.root, {})

validate(c) ==
    /\ validate_structure(c)
    /\ \A id \in DOMAIN c.behaviours :
           c.behaviours[id].type = "Condition" => ExprValid(c.behaviours[id].expr, c.env)

\* The instances the references below id expand to, as pairs of path and id.
RECURSIVE expand_with(_, _, _)
expand_with(c, id, path) ==
    LET ch == children_of(c, id)
    IN  {<<path, id>>} \union
        UNION {expand_with(c, ch[i], Append(path, i)) : i \in DOMAIN ch}

\* A fresh instance: its definition and the state it owns.
Instance(c, id) ==
    [id |-> id, raw |-> c.behaviours[id], elapsed |-> 0, succeeded |-> {}, begun |-> FALSE,
     param |-> IF c.behaviours[id].type = "Action" THEN c.behaviours[id].param ELSE 0]

compile(c) ==
    LET made == expand_with(c, c.root, <<>>)
    IN  [p \in {m[1] : m \in made} |-> Instance(c, (CHOOSE m \in made : m[1] = p)[2])]

-----------------------------------------------------------------------------
(* A tick.  Its result a holds the tree t, the status st of the instance   *)
(* ticked last, the signal out and the instances reached so far.           *)

Prefix(p, q) == Len(p) <= Len(q) /\ SubSeq(q, 1, Len(p)) = p

Reset(n) == [n EXCEPT !.elapsed = 0, !.succeeded = {}, !.begun = FALSE]

\* Halting an instance resets it and everything below it.
halt(t, p) == [q \in DOMAIN t |-> IF Prefix(p, q) THEN Reset(t[q]) ELSE t[q]]

\* Halts the children of p from the i-th on.
halt_from(t, p, i) ==
    [q \in DOMAIN t |-> IF Prefix(p, q) /\ q # p /\ q[Len(p) + 1] >= i THEN Reset(t[q]) ELSE t[q]]

Width(a, p) == Len(a.t[p].raw.children)

RECURSIVE tick(_, _, _)

(* Mutant: a failing child does not halt the ones after it. *)
RECURSIVE MutTickSequence(_, _, _, _)
MutTickSequence(a, p, i, ctx) ==
    IF i > Width(a, p) THEN [a EXCEPT !.st = "Success"]
    ELSE LET b == tick(a, Append(p, i), ctx)
         IN  CASE b.st = "Success" -> MutTickSequence(b, p, i + 1, ctx)
               [] b.st = "Failure" -> b
               [] OTHER -> [b EXCEPT !.t = halt_from(b.t, p, i + 1)]

RECURSIVE tick_sequence(_, _, _, _)
tick_sequence(a, p, i, ctx) ==
    IF i > Width(a, p) THEN [a EXCEPT !.st = "Success"]
    ELSE LET b == tick(a, Append(p, i), ctx)
         IN  IF b.st = "Success" THEN tick_sequence(b, p, i + 1, ctx)
             ELSE [b EXCEPT !.t = halt_from(b.t, p, i + 1)]

RECURSIVE tick_selector(_, _, _, _)
tick_selector(a, p, i, ctx) ==
    IF i > Width(a, p) THEN [a EXCEPT !.st = "Failure"]
    ELSE LET b == tick(a, Append(p, i), ctx)
         IN  IF b.st = "Failure" THEN tick_selector(b, p, i + 1, ctx)
             ELSE [b EXCEPT !.t = halt_from(b.t, p, i + 1)]

\* The children that have not finished are ticked; the first failure halts all.
RECURSIVE tick_join(_, _, _, _)
tick_join(a, p, i, ctx) ==
    IF i > Width(a, p) THEN
        IF a.t[p].succeeded = 1 .. Width(a, p)
        THEN [a EXCEPT !.t[p].succeeded = {}, !.st = "Success"]
        ELSE [a EXCEPT !.st = "Running"]
    ELSE IF i \in a.t[p].succeeded THEN tick_join(a, p, i + 1, ctx)
    ELSE LET b == tick(a, Append(p, i), ctx)
         IN  CASE b.st = "Failure" -> [b EXCEPT !.t = halt(b.t, p)]
               [] b.st = "Success" ->
                      tick_join([b EXCEPT !.t[p].succeeded = @ \union {i}], p, i + 1, ctx)
               [] OTHER -> tick_join(b, p, i + 1, ctx)

tick_for_ticks(a, p, ctx) ==
    LET child == Append(p, 1)
        count == a.t[p].raw.count
    IN  IF a.t[p].elapsed >= count
        THEN [a EXCEPT !.t = halt(a.t, child), !.st = "Success"]
        ELSE LET b == tick(a, child, ctx)
                 c == [b EXCEPT !.t[p].elapsed = @ + 1]
             IN  IF c.st = "Running" /\ c.t[p].elapsed >= count
                 THEN [c EXCEPT !.t = halt(c.t, child), !.st = "Success"]
                 ELSE c

tick_wait(a, p) ==
    IF a.t[p].elapsed >= a.t[p].raw.count THEN [a EXCEPT !.st = "Success"]
    ELSE [a EXCEPT !.t[p].elapsed = @ + 1, !.st = "Running"]

\* An action takes the override addressed to its behaviour, writes its field of
\* the signal, where the last writer wins, and is Running.
contribute(a, p, ctx) ==
    LET n == a.t[p]
        v == IF n.id \in DOMAIN ctx.over THEN ctx.over[n.id] ELSE n.param
    IN  [a EXCEPT !.t[p].param = v, !.t[p].begun = TRUE,
                  !.out[n.raw.field] = [by |-> p, v |-> v], !.st = "Running"]

tick(a, p, ctx) ==
    LET type == a.t[p].raw.type
        b == CASE type = "Sequence"  -> tick_sequence(a, p, 1, ctx)
               [] type = "Selector"  -> tick_selector(a, p, 1, ctx)
               [] type = "Join"      -> tick_join(a, p, 1, ctx)
               [] type = "ForTicks"  -> tick_for_ticks(a, p, ctx)
               [] type = "Wait"      -> tick_wait(a, p)
               [] type = "Condition" ->
                      [a EXCEPT !.st = IF eval_with(a.t[p].raw.expr, ctx)
                                       THEN "Success" ELSE "Failure"]
               [] type = "Honest"    -> [a EXCEPT !.st = "Success"]
               [] type = "Action"    -> contribute(a, p, ctx)
    IN  [b EXCEPT !.seen = @ \union {<<p, b.st>>}]

Honest == [f \in Fields |-> [by |-> <<>>, v |-> 0]]

-----------------------------------------------------------------------------
Init ==
    /\ conf \in Configs
    /\ accepted = validate(conf)
    /\ tree = IF accepted THEN compile(conf) ELSE <<>>
    /\ env = conf.env
    /\ over = <<>>
    /\ slot = 0
    /\ out = Honest
    /\ seen = {}

\* The whole tree is ticked once, when a slot begins.
TickTree ==
    /\ accepted /\ slot < MaxSlot
    /\ slot' = slot + 1
    /\ LET a == tick([t |-> tree, st |-> "Running", out |-> Honest, seen |-> {}], <<>>,
                     [env |-> env, over |-> over, slot |-> slot'])
       IN  tree' = a.t /\ out' = a.out /\ seen' = a.seen
    /\ UNCHANGED <<conf, accepted, env, over>>

\* A parameter of the environment is written between two ticks.
insert ==
    /\ accepted /\ slot < MaxSlot
    /\ \E u \in EnvUpdates :
           /\ u[1] \in DOMAIN env
           /\ env' = [env EXCEPT ![u[1]] = u[2]]
    /\ UNCHANGED <<conf, accepted, tree, over, slot, out, seen>>

\* The parameter of the actions of one behaviour is overridden.
Override ==
    /\ accepted /\ slot < MaxSlot
    /\ \E u \in ParamUpdates :
           /\ u[1] \in DOMAIN conf.behaviours
           /\ over' = [b \in DOMAIN over \union {u[1]} |-> IF b = u[1] THEN u[2] ELSE over[b]]
    /\ UNCHANGED <<conf, accepted, tree, env, slot, out, seen>>

Next == TickTree \/ insert \/ Override

Spec == Init /\ [][Next]_vars

-----------------------------------------------------------------------------
(* An action that has made progress was reached by the last tick: whatever *)
(* branch the tick leaves, by a failing condition, a finished sibling, a   *)
(* spent budget or a failing Join, its actions have been halted and reset. *)
ProgressActive == \A p \in DOMAIN tree : tree[p].begun => <<p, "Running">> \in seen

(* A Join holds children done only while it is itself Running: when it     *)
(* succeeds, fails, or is no longer reached it starts afresh.              *)
JoinStartsAfresh ==
    \A p \in DOMAIN tree : tree[p].succeeded # {} => <<p, "Running">> \in seen

\* There is a walk of n references from behaviour id.
RECURSIVE Walk(_, _, _)
Walk(c, id, n) ==
    LET ch == children_of(c, id)
    IN  n = 0 \/ \E i \in DOMAIN ch : Walk(c, ch[i], n - 1)

(* A configuration whose behaviours are each well formed is accepted       *)
(* exactly when its references expand to a finite tree: a walk along them  *)
(* from the root is never as long as the number of behaviours.  The same   *)
(* behaviour may be referenced many times.                                 *)
AcceptedIfFinite ==
    (/\ conf.root \in DOMAIN conf.behaviours
     /\ \A id \in DOMAIN conf.behaviours : WellFormed(conf, id)
     /\ \A id \in DOMAIN conf.behaviours : conf.behaviours[id].type # "Condition")
    => (accepted <=> ~Walk(conf, conf.root, Cardinality(DOMAIN conf.behaviours)))
=============================================================================
