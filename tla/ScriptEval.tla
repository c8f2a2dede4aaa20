----------------------------- MODULE ScriptEval -----------------------------
(***************************************************************************)
(* The evaluator of the balance query scripts (script/eval.go, array.go)   *)
(* and what wallet queries use it for (script.go): a script evaluates to   *)
(* an object whose extractor function turns the answer of a site into the  *)
(* remaining balance.                                                      *)
(*                                                                         *)
(* A world w has the value computed last (val, or args for a list), the    *)
(* steps taken, the scopes with their variables and parents, the heap of   *)
(* functions, arrays and objects, and sig: "error" and "return" are the    *)
(* errors of the code, which end everything up to the call they belong to. *)
(* Numbers are integers or NaN.  Division, the order of strings, the       *)
(* length caps of strings and arrays, and the host's functions other than  *)
(* the methods of arrays below are left out.                               *)
(***************************************************************************)
EXTENDS ScriptParser, TLC

CONSTANT MaxSteps  \* maxSteps

Value(type, n, s) == [type |-> type, n |-> n, s |-> s]
Undefined == Value("undefined", 0, "")
Null == Value("null", 0, "")
NaN == Value("nan", 0, "")
Num(n) == Value("number", n, "")
Bool(b) == Value("boolean", IF b THEN 1 ELSE 0, "")
Str(s) == Value("string", 0, s)

NoFields == [x \in {} |-> Undefined]
Object(items, fields) == [items |-> items, fields |-> fields, node |-> NoNode, scope |-> 0]
Closure(node, scope) == [Object(<<>>, NoFields) EXCEPT !.node = node, !.scope = scope]

NewWorld ==
  [sig |-> "", val |-> Undefined, args |-> <<>>, steps |-> 0, scopes |-> <<>>, heap |-> <<>>]

Gives(w, v) == IF w.sig = "" THEN [w EXCEPT !.val = v] ELSE w
Fails(w) == IF w.sig = "" THEN [w EXCEPT !.sig = "error"] ELSE w
Tick(w) ==
  IF w.steps < MaxSteps THEN [w EXCEPT !.steps = @ + 1]
  ELSE Fails([w EXCEPT !.steps = @ + 1])

\* A new heap object; the value refers to it.
Allocated(w, type, object) ==
  IF w.sig # "" THEN w
  ELSE [w EXCEPT !.heap = Append(@, object), !.val = Value(type, Len(w.heap) + 1, "")]

NewScope(w, vars, parent) ==
  [w EXCEPT !.scopes = Append(@, [vars |-> vars, parent |-> parent])]
----------------------------------------------------------------------------
(* Values *)

Truthy(v) ==
  CASE v.type \in {"undefined", "null", "nan"} -> FALSE
    [] v.type \in {"number", "boolean"}        -> v.n # 0
    [] v.type = "string"                       -> v.s # ""
    [] OTHER                                   -> TRUE

Nullish(v) == v.type \in {"undefined", "null"}

TypeOf(v) ==
  CASE v.type \in {"null", "array"} -> "object"
    [] v.type = "nan"               -> "number"
    [] v.type = "method"            -> "function"
    [] OTHER                        -> v.type

Integer == -99..99

ToNumber(v) ==
  CASE v.type \in {"number", "boolean"} -> Num(v.n)
    [] v.type = "null" \/ v = Str("")   -> Num(0)
    [] v.type = "string" /\ v # Str("") ->
         IF \E n \in Integer : ToString(n) = v.s
         THEN Num(CHOOSE n \in Integer : ToString(n) = v.s) ELSE NaN
    [] OTHER                            -> NaN

RECURSIVE ToText(_, _)
ToText(v, heap) ==
  LET Part(item) == IF Nullish(item) THEN "" ELSE ToText(item, heap)
      Joined(items) ==
        IF items = <<>> THEN ""
        ELSE FoldLeft(LAMBDA text, item : text \o "," \o Part(item), Part(items[1]), Tail(items))
  IN  CASE v.type \in {"undefined", "null"} -> v.type
        [] v.type = "boolean"               -> IF v.n = 1 THEN "true" ELSE "false"
        [] v.type = "number"                -> ToString(v.n)
        [] v.type = "nan"                   -> "NaN"
        [] v.type = "string"                -> v.s
        [] v.type = "array"                 -> Joined(heap[v.n].items)
        [] v.type \in {"function", "method"} -> "function"
        [] OTHER                            -> "[object Object]"

SameNumber(l, r) == l = r /\ l # NaN

\* Objects are compared by reference, but an empty one is not even the same as
\* itself; methods are made anew whenever they are read.
SameReference(l, r, heap) ==
  IF l.type = r.type /\ l.type \in {"object", "array"}
  THEN l.n = r.n /\ heap[l.n].items \o SetToSeq(DOMAIN heap[l.n].fields) # <<>>
  ELSE l = r /\ l.type # "method"

LooseEqual(l, r, strict, heap) ==
  IF Nullish(l) \/ Nullish(r)
  THEN IF strict THEN l.type = r.type ELSE Nullish(l) /\ Nullish(r)
  ELSE IF strict /\ TypeOf(l) # TypeOf(r) THEN FALSE
  ELSE IF l.type = r.type /\ l.type \in {"string", "boolean"} THEN l = r
  ELSE IF l.type \in {"string", "boolean", "number", "nan"}
       THEN SameNumber(ToNumber(l), ToNumber(r))
       ELSE SameReference(l, r, heap)

Compare(op, l, r) ==
  LET a == ToNumber(l)
      b == ToNumber(r)
  IN  /\ NaN \notin {a, b}
      /\ CASE op = "<"  -> a.n < b.n
           [] op = "<=" -> a.n <= b.n
           [] op = ">"  -> a.n > b.n
           [] op = ">=" -> a.n >= b.n

Arithmetic(op, l, r) ==
  LET a == ToNumber(l)
      b == ToNumber(r)
  IN  IF NaN \in {a, b} THEN NaN
      ELSE CASE op = "+" -> Num(a.n + b.n)
             [] op = "-" -> Num(a.n - b.n)
             [] op = "*" -> Num(a.n * b.n)

BinaryValue(op, l, r, heap) ==
  CASE op = "+" /\ "string" \in {l.type, r.type} -> Str(ToText(l, heap) \o ToText(r, heap))
    [] op = "+" /\ "string" \notin {l.type, r.type} -> Arithmetic(op, l, r)
    [] op \in {"-", "*"}            -> Arithmetic(op, l, r)
    [] op \in {"===", "=="}         -> Bool(LooseEqual(l, r, op = "===", heap))
    [] op \in {"!==", "!="}         -> Bool(~LooseEqual(l, r, op = "!==", heap))
    [] op \in {"<", "<=", ">", ">="} -> Bool(Compare(op, l, r))

UnaryValue(op, v) ==
  CASE op = "!"      -> Bool(~Truthy(v))
    [] op = "-"      -> IF ToNumber(v) = NaN THEN NaN ELSE Num(-ToNumber(v).n)
    [] op = "+"      -> ToNumber(v)
    [] op = "typeof" -> Str(TypeOf(v))

\* The binary operator of a compound assignment.
OperatorOf(op) == CASE op = "+=" -> "+" [] op = "-=" -> "-" [] op = "*=" -> "*"

Methods == {"map", "filter", "find", "some", "every", "forEach"}

IndexOf(key, items) ==
  IF \E i \in DOMAIN items : ToString(i - 1) = key
  THEN CHOOSE i \in DOMAIN items : ToString(i - 1) = key ELSE 0

\* getProperty: absent ones are undefined.
Property(v, key, heap) ==
  LET o == heap[v.n]
  IN  CASE v.type = "object" -> IF key \in DOMAIN o.fields THEN o.fields[key] ELSE Undefined
        [] v.type = "array"  -> IF key = "length" THEN Num(Len(o.items))
                                ELSE IF key \in Methods THEN Value("method", 0, key)
                                ELSE IF IndexOf(key, o.items) > 0 THEN o.items[IndexOf(key, o.items)]
                                ELSE Undefined
        [] OTHER             -> Undefined
----------------------------------------------------------------------------
(* Expressions *)

\* The scope that has the name, from sc outwards; 0 for none.
RECURSIVE ScopeOf(_, _, _)
ScopeOf(name, sc, scopes) ==
  IF sc = 0 \/ name \in DOMAIN scopes[sc].vars THEN sc
  ELSE ScopeOf(name, scopes[sc].parent, scopes)

RECURSIVE Eval(_, _, _), EvalAll(_, _, _, _), EvalFields(_, _, _, _), Invoke(_, _, _),
          ArrayMethod(_, _, _, _, _), Exec(_, _, _), ExecAll(_, _, _), ExecFor(_, _, _, _),
          Declare(_, _, _)

\* The values of the nodes, left to right, in args.
EvalAll(nodes, sc, w, done) ==
  IF nodes = <<>> \/ w.sig # "" THEN [w EXCEPT !.args = done]
  ELSE LET v == Eval(Head(nodes), sc, w)
       IN  EvalAll(Tail(nodes), sc, v, Append(done, v.val))

EvalFields(fields, sc, w, done) ==
  IF fields = <<>> \/ w.sig # "" THEN Allocated(w, "object", Object(<<>>, done))
  ELSE LET v == Eval(Head(fields).parts[1], sc, w)
       IN  EvalFields(Tail(fields), sc, v, (Head(fields).op :> v.val) @@ done)

EvalArray(n, sc, w) ==
  LET v == EvalAll(n.parts, sc, w, <<>>)
  IN  Allocated(v, "array", Object(v.args, NoFields))

EvalIdent(n, sc, w) ==
  LET found == ScopeOf(n.op, sc, w.scopes)
  IN  IF found = 0 THEN Fails(w) ELSE Gives(w, w.scopes[found].vars[n.op])

EvalUnary(n, sc, w) ==
  LET v == Eval(n.parts[1], sc, w) IN Gives(v, UnaryValue(n.op, v.val))

EvalLogical(n, sc, w) ==
  LET v == Eval(n.parts[1], sc, w)
      decided == CASE n.op = "&&" -> ~Truthy(v.val)
                   [] n.op = "||" -> Truthy(v.val)
                   [] n.op = "??" -> ~Nullish(v.val)
  IN  IF v.sig # "" \/ decided THEN v ELSE Eval(n.parts[2], sc, v)

EvalBinary(n, sc, w) ==
  LET l == Eval(n.parts[1], sc, w)
      r == Eval(n.parts[2], sc, l)
  IN  IF r.sig # "" THEN r ELSE Gives(r, BinaryValue(n.op, l.val, r.val, r.heap))

EvalCond(n, sc, w) ==
  LET v == Eval(n.parts[1], sc, w)
  IN  IF v.sig # "" THEN v ELSE Eval(n.parts[IF Truthy(v.val) THEN 2 ELSE 3], sc, v)

IsOptional(n) == n.type \in {"member?", "index?"} \/ n.op = "?"

\* The key of a property: its name, or the text of the computed value.
Key(n, sc, w) ==
  IF n.type \in {"member", "member?"} THEN Gives(w, Str(n.parts[2].op))
  ELSE LET v == Eval(n.parts[2], sc, w)
       IN  IF v.sig # "" THEN v ELSE Gives(v, Str(ToText(v.val, v.heap)))

EvalMember(n, sc, w) ==
  LET o == Eval(n.parts[1], sc, w)
      k == Key(n, sc, o)
  IN  IF o.sig # "" THEN o
      ELSE IF Nullish(o.val) THEN IF IsOptional(n) THEN Gives(o, Undefined) ELSE Fails(o)
      ELSE IF k.sig # "" THEN k ELSE Gives(k, Property(o.val, k.val.s, k.heap))

Applied(f, this, a) ==
  IF a.sig # "" THEN a
  ELSE IF f.type = "method" /\ this.type = "array"
  THEN ArrayMethod(Value("method", this.n, f.s),
                   IF a.args = <<>> THEN Undefined ELSE a.args[1], 1, <<>>, a)
  ELSE Invoke(f, a.args, a)

Called(n, sc, this, f) ==
  IF f.sig # "" THEN f
  ELSE IF Nullish(f.val) THEN IF IsOptional(n) THEN Gives(f, Undefined) ELSE Fails(f)
  ELSE Applied(f.val, this, EvalAll(Tail(n.parts), sc, f, <<>>))

\* A property called is read without a step of its own; a method works on the
\* array it is called on, and only when it is called on one.
EvalCall(n, sc, w) ==
  LET target == n.parts[1]
  IN  IF target.type \in {"member", "member?", "index", "index?"}
      THEN Called(n, sc, Eval(target.parts[1], sc, w).val, EvalMember(target, sc, w))
      ELSE Called(n, sc, Undefined, Eval(target, sc, w))

\* The variables of a call: its parameters, undefined where arguments lack.
Locals(params, args) ==
  FoldLeft(LAMBDA vars, i :
             (params[i].op :> IF i <= Len(args) THEN args[i] ELSE Undefined) @@ vars,
           NoFields, [i \in DOMAIN params |-> i])

\* A return ends with the call; a block without one gives undefined.
Returned(isBlock, w) ==
  IF w.sig = "return" THEN [w EXCEPT !.sig = ""]
  ELSE IF isBlock THEN Gives(w, Undefined) ELSE w

\* The body of a function in the scope made last.
RunBody(body, w) ==
  LET sc == Len(w.scopes)
  IN  Returned(body.type = "block",
               IF body.type = "block" THEN ExecAll(body.parts, sc, w) ELSE Eval(body, sc, w))

\* Faulty variant: a function runs in the scope of its caller.
InvokeInCaller(f, args, before) ==
  LET w == Tick(before)
      parts == w.heap[f.n].node.parts
  IN  IF w.sig # "" THEN w
      ELSE IF f.type # "function" THEN Fails(w)
      ELSE RunBody(parts[2], NewScope(w, Locals(parts[1].parts, args), Len(w.scopes)))

\* A call has a scope of its own under that of the function's definition.
Invoke(f, args, before) ==
  LET w == Tick(before)
      parts == w.heap[f.n].node.parts
  IN  IF w.sig # "" THEN w
      ELSE IF f.type # "function" THEN Fails(w)
      ELSE RunBody(parts[2], NewScope(w, Locals(parts[1].parts, args), w.heap[f.n].scope))

\* After the callback's answer for one item: done, or on to the next.
AfterItem(m, callback, i, item, done, w) ==
  LET keep == CASE m.s = "map"                      -> Append(done, w.val)
                [] m.s = "filter" /\ Truthy(w.val)  -> Append(done, item)
                [] OTHER                            -> done
  IN  IF w.sig # "" THEN w
      ELSE CASE m.s = "find" /\ Truthy(w.val)   -> Gives(w, item)
             [] m.s = "some" /\ Truthy(w.val)   -> Gives(w, Bool(TRUE))
             [] m.s = "every" /\ ~Truthy(w.val) -> Gives(w, Bool(FALSE))
             [] OTHER                           -> ArrayMethod(m, callback, i + 1, keep, w)

\* What an array method makes of the results of its callback when all items
\* from i on are still to come; done has what it keeps.
ArrayMethod(m, callback, i, done, w) ==
  LET items == w.heap[m.n].items
  IN  IF w.sig # "" THEN w
      ELSE IF i <= Len(items)
      THEN AfterItem(m, callback, i, items[i], done, Invoke(callback, <<items[i], Num(i - 1)>>, w))
      ELSE IF m.s \in {"map", "filter"} THEN Allocated(w, "array", Object(done, NoFields))
      ELSE Gives(w, IF m.s \in {"some", "every"} THEN Bool(m.s = "every") ELSE Undefined)

Stored(target, value, sc, w) ==
  LET o == Eval(target.parts[1], sc, w)
      k == Key(target, sc, o)
      holder == o.val
      i == IndexOf(k.val.s, k.heap[holder.n].items)
      found == ScopeOf(target.op, sc, w.scopes)
  IN  IF target.type = "ident"
      THEN IF found = 0 THEN Fails(w)
           ELSE Gives([w EXCEPT !.scopes[found].vars[target.op] = value], value)
      ELSE IF o.sig # "" THEN o
      ELSE IF k.sig # "" THEN k
      ELSE CASE holder.type = "object" ->
                  Gives([k EXCEPT !.heap[holder.n].fields = (k.val.s :> value) @@ @], value)
             [] holder.type = "array"  ->
                  IF i = 0 THEN Fails(k) ELSE Gives([k EXCEPT !.heap[holder.n].items[i] = value], value)
             [] OTHER                  -> Fails(k)

\* The value first, then what it is combined with, then where it goes.
EvalAssign(n, sc, w) ==
  LET v == Eval(n.parts[2], sc, w)
      old == Eval(n.parts[1], sc, v)
      new == BinaryValue(OperatorOf(n.op), old.val, v.val, old.heap)
  IN  IF v.sig # "" THEN v
      ELSE IF n.op = "=" THEN Stored(n.parts[1], v.val, sc, v)
      ELSE IF old.sig # "" THEN old ELSE Stored(n.parts[1], new, sc, old)

Literal(text) ==
  CASE text = "null"      -> Null
    [] text = "undefined" -> Undefined
    [] OTHER              -> Bool(text = "true")

Eval(n, sc, before) ==
  LET w == Tick(before)
  IN  IF before.sig # "" THEN before ELSE IF w.sig # "" THEN w
      ELSE CASE n.type = "number"   -> Gives(w, ToNumber(Str(n.op)))
             [] n.type = "string"   -> Gives(w, Str(n.op))
             [] n.type = "literal"  -> Gives(w, Literal(n.op))
             [] n.type = "ident"    -> EvalIdent(n, sc, w)
             [] n.type = "object"   -> EvalFields(n.parts, sc, w, NoFields)
             [] n.type = "array"    -> EvalArray(n, sc, w)
             [] n.type = "function" -> Allocated(w, "function", Closure(n, sc))
             [] n.type = "unary"    -> EvalUnary(n, sc, w)
             [] n.type = "binary"   -> EvalBinary(n, sc, w)
             [] n.type = "logical"  -> EvalLogical(n, sc, w)
             [] n.type = "cond"     -> EvalCond(n, sc, w)
             [] n.type = "call"     -> EvalCall(n, sc, w)
             [] n.type = "assign"   -> EvalAssign(n, sc, w)
             [] OTHER               -> EvalMember(n, sc, w)
----------------------------------------------------------------------------
(* Statements *)

ExecAll(body, sc, w) ==
  IF body = <<>> \/ w.sig # "" THEN w ELSE ExecAll(Tail(body), sc, Exec(Head(body), sc, w))

\* Variables belong to the scope of the statement, var as much as let.
Declare(bindings, sc, w) ==
  IF bindings = <<>> \/ w.sig # "" THEN w
  ELSE LET b == Head(bindings)
           v == IF b.parts = <<>> THEN Gives(w, Undefined) ELSE Eval(b.parts[1], sc, w)
       IN  IF v.sig # "" THEN v
           ELSE Declare(Tail(bindings), sc, [v EXCEPT !.scopes[sc].vars = (b.op :> v.val) @@ @])

\* Every round has a scope of its own.  The items are read as they then are.
ExecFor(n, i, array, w) ==
  LET sc == array.scope
      items == w.heap[array.n].items
      t == Tick(w)
      local == NewScope(t, n.op :> items[i], sc)
  IN  IF w.sig # "" \/ i > Len(items) THEN w
      ELSE IF t.sig # "" THEN t
      ELSE ExecFor(n, i + 1, array, Exec(n.parts[2], Len(local.scopes), local))

\* A branch has a scope of its own.
ExecIf(n, sc, w) ==
  LET branch == IF Truthy(w.val) THEN 2 ELSE 3
      local == NewScope(w, NoFields, sc)
  IN  IF w.sig # "" \/ branch > Len(n.parts) THEN w
      ELSE Exec(n.parts[branch], Len(local.scopes), local)

Returning(w) == IF w.sig # "" THEN w ELSE [w EXCEPT !.sig = "return"]

\* Arrays only: that toIterable goes through the characters of a string is left
\* out, and an error here.
ExecForOf(n, sc, w) ==
  IF w.sig # "" THEN w
  ELSE IF w.val.type # "array" THEN Fails(w)
  ELSE ExecFor(n, 1, [n |-> w.val.n, scope |-> sc], w)

Exec(n, sc, before) ==
  LET w == Tick(before)
      inner == NewScope(w, NoFields, sc)
  IN  IF w.sig # "" THEN w
      ELSE CASE n.type = "block"  -> ExecAll(n.parts, Len(inner.scopes), inner)
             [] n.type = "expr"   -> Eval(n.parts[1], sc, w)
             [] n.type = "var"    -> Declare(n.parts, sc, w)
             [] n.type = "return" ->
                  Returning(IF n.parts = <<>> THEN Gives(w, Undefined) ELSE Eval(n.parts[1], sc, w))
             [] n.type = "if"     -> ExecIf(n, sc, Eval(n.parts[1], sc, w))
             [] n.type = "for"    -> ExecForOf(n, sc, Eval(n.parts[1], sc, w))
----------------------------------------------------------------------------
(* Scripts *)

\* What the extractor gave must be an object.
ObjectOnly(w) == IF w.sig = "" /\ w.val.type # "object" THEN Fails(w) ELSE w

\* The extractor of a configuration, called with the answer of the site, with
\* steps of its own.
Extractor(config, response) ==
  LET extractor == Property(config.val, "extractor", config.heap)
  IN  IF config.sig # "" \/ config.val.type # "object" \/ extractor.type # "function"
      THEN Fails(config)
      ELSE ObjectOnly(Invoke(extractor, <<response>>, [config EXCEPT !.steps = 0]))

\* evalConfig and Extract: the script is evaluated to its object first.
Extracted(script, response) ==
  Extractor(Eval(script, 1, NewScope(NewWorld, NoFields, 0)), response)

\* readResult: the field as a number, if it has one.
ReadRemaining(w) ==
  LET raw == Property(w.val, "remaining", w.heap)
  IN  IF w.sig # "" THEN w.sig
      ELSE IF Nullish(raw) \/ ToNumber(raw) = NaN THEN "none" ELSE ToString(ToNumber(raw).n)

Remaining(script, response) == ReadRemaining(Extracted(script, response))
=============================================================================
