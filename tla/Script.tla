------------------------------- MODULE Script -------------------------------
(***************************************************************************)
(* What the parser and the evaluator of balance query scripts promise,     *)
(* over scripts that grow step by step: expressions, as trees that are     *)
(* printed, and extractor functions, statement by statement.               *)
(***************************************************************************)
EXTENDS ScriptEval

CONSTANTS TreeSize,     \* bound: operators of an expression
          ProgramSize   \* bound: statements and braces after the first two

VARIABLES tree,  \* an expression
          code,  \* the statements of an extractor, as tokens
          ends,  \* the tokens that close its open blocks, innermost first
          size   \* how much has been added

vars == <<tree, code, ends, size>>
----------------------------------------------------------------------------
(* Expressions: the tree is one operand of a new operator *)

Leaf(type, op) == Node(type, op, <<>>)
x == Leaf("ident", "x")
one == Leaf("number", "1")

\* Trees of one operator more; the types of their nodes as the parser makes them.
Grown(t) ==
  LET Both(type, op) == {Node(type, op, <<t, one>>), Node(type, op, <<x, t>>)}
  IN  UNION {Both("logical", op) : op \in {"||", "&&", "??"}}
        \cup UNION {Both("binary", op) : op \in {"===", "<", "+", "-", "*"}}
        \cup {Node("unary", op, <<t>>) : op \in {"!", "-", "typeof"}}
        \cup {Node("cond", "", c) : c \in {<<t, x, one>>, <<x, t, one>>, <<x, one, t>>}}
        \cup {Node("assign", "+=", <<x, t>>), Node("assign", "=", <<Node("index", "", <<t, one>>), x>>)}
        \cup {Node("member", "", <<t, Leaf("name", "y")>>), Node("index?", "", <<t, x>>),
              Node("index", "", <<x, t>>)}
        \cup {Node("call", "", <<t, one, x>>), Node("call", "?", <<x, t>>)}
        \cup {Node("array", "", <<t, x>>), Node("object", "", <<Node("field", "y", <<t>>)>>)}
        \cup {Node("function", "", <<Node("params", "", <<x>>), t>>),
              Node("function", "", <<Node("params", "", <<>>),
                                     Node("block", "", <<Node("expr", "", <<t>>),
                                                         Node("return", "", <<t>>)>>)>>)}

\* How tightly JavaScript binds a node: what may stand in a place of level n
\* without parentheses binds at least as tightly.
Binding(n) ==
  CASE n.type \in {"assign", "function"} -> 1
    [] n.type = "cond"                   -> 2
    [] n.op \in {"||", "??"}             -> 3
    [] n.op = "&&"                       -> 4
    [] n.op \in {"===", "!==", "==", "!="} -> 5
    [] n.op \in {"<", "<=", ">", ">="}   -> 6
    [] n.type = "binary" /\ n.op \in {"+", "-"} -> 7
    [] n.op = "*"                        -> 8
    [] n.type = "unary"                  -> 9
    [] OTHER                             -> 10

RECURSIVE Written(_, _), WrittenList(_), WrittenBlock(_)

\* The text of a tree in a place of a level.  Operators of one level are read
\* from the left, so a right operand of the same level needs parentheses.
Written(n, level) ==
  LET b == Binding(n)
      P(i, l) == Written(n.parts[i], l)
      args == WrittenList(Tail(n.parts))
      body == IF n.parts[2].type = "block" THEN WrittenBlock(n.parts[2].parts)
              ELSE LET e == P(2, 1) IN IF e[1] = "{" THEN <<"(">> \o e \o <<")">> ELSE e
      text ==
        CASE n.type \in {"logical", "binary"} -> P(1, b) \o <<n.op>> \o P(2, b + 1)
          [] n.type = "unary"    -> <<n.op>> \o P(1, 9)
          [] n.type = "cond"     -> P(1, 3) \o <<"?">> \o P(2, 1) \o <<":">> \o P(3, 1)
          [] n.type = "assign"   -> P(1, 10) \o <<n.op>> \o P(2, 1)
          [] n.type = "member"   -> P(1, 10) \o <<".", n.parts[2].op>>
          [] n.type = "index"    -> P(1, 10) \o <<"[">> \o P(2, 1) \o <<"]">>
          [] n.type = "index?"   -> P(1, 10) \o <<"?.", "[">> \o P(2, 1) \o <<"]">>
          [] n.type = "call"     -> P(1, 10) \o (IF n.op = "?" THEN <<"?.">> ELSE <<>>)
                                      \o <<"(">> \o args \o <<")">>
          [] n.type = "array"    -> <<"[">> \o WrittenList(n.parts) \o <<"]">>
          [] n.type = "object"   -> <<"{", n.parts[1].op, ":">> \o Written(n.parts[1].parts[1], 1) \o <<"}">>
          [] n.type = "function" -> <<"(">> \o WrittenList(n.parts[1].parts) \o <<")", "=>">> \o body
          [] OTHER               -> <<n.op>>
  IN  IF b < level THEN <<"(">> \o text \o <<")">> ELSE text

WrittenList(nodes) ==
  IF nodes = <<>> THEN <<>>
  ELSE Written(Head(nodes), 1) \o (IF Tail(nodes) = <<>> THEN <<>> ELSE <<",">>) \o WrittenList(Tail(nodes))

\* An expression statement must not begin like a block.
WrittenBlock(body) ==
  LET Statement(n) ==
        IF n.type = "return" THEN <<"return">> \o Written(n.parts[1], 1) \o <<";">>
        ELSE <<"(">> \o Written(n.parts[1], 1) \o <<")", ";">>
  IN  <<"{">> \o FlattenSeq([i \in DOMAIN body |-> Statement(body[i])]) \o <<"}">>

Grow ==
  /\ code = <<>> /\ size < TreeSize
  /\ tree' \in Grown(tree)
  /\ size' = size + 1
  /\ UNCHANGED <<code, ends>>
----------------------------------------------------------------------------
(* Extractors: statements about two variables, in blocks, branches, loops   *)
(* and functions *)

Variable == {"x", "y"}
Other(n) == IF n = "x" THEN "y" ELSE "x"

\* Arrow functions that read a variable where they are defined, or change it.
Functions == {<<"(", ")", "=>", n>> : n \in Variable}
               \cup {<<"(", n, ")", "=>", "x", "+=", n>> : n \in Variable}
Values == Functions \cup {<<"2">>, <<"y", "(", "3", ")">>}

Simple(n) ==
  {<<"let", n, "=">> \o v \o <<";">> : v \in Values}
    \cup {<<n, "=">> \o v \o <<";">> : v \in Values}
    \cup {<<"return", "{", "remaining", ":">> \o v \o <<"}", ";">> : v \in {<<n>>, <<"y", "(", "3", ")">>}}
    \cup {<<"[", "5", ",", "6", "]", ".", "map", "(", n, "=>">> \o v \o <<")", ";">> : v \in {<<"x", "+=", n>>}}

Opened(n) ==
  {[open |-> <<"{">>, end |-> <<"}">>],
   [open |-> <<"if", "(", n, ")", "{">>, end |-> <<"}">>],
   [open |-> <<"for", "(", "let", n, "of", "[", "5", ",", "6", "]", ")", "{">>, end |-> <<"}">>],
   [open |-> <<"let", n, "=", "(", Other(n), ")", "=>", "{">>, end |-> <<"}", ";">>]}

Begun == <<"let", "x", "=", "1", ";", "let", "y", "=", "(", ")", "=>", "x", ";">>

Add ==
  /\ code # <<>> /\ size < ProgramSize
  /\ size' = size + 1
  /\ UNCHANGED tree
  /\ \E n \in Variable :
       \/ \E s \in Simple(n) : code' = code \o s /\ UNCHANGED ends
       \/ \E b \in Opened(n) : code' = code \o b.open /\ ends' = <<b.end>> \o ends
       \/ ends # <<>> /\ code' = code \o Head(ends) /\ ends' = Tail(ends)

\* The script with all blocks closed and a last result.
Tokens ==
  <<"(", "{", "extractor", ":", "function", "(", "response", ")", "{">>
    \o code \o FlattenSeq(ends)
    \o <<"return", "{", "remaining", ":", "x", "}", ";", "}", "}", ")">>

Init ==
  /\ size = 0 /\ ends = <<>> /\ tree = x
  /\ code \in {<<>>, Begun}

Next == Grow \/ Add

Spec == Init /\ [][Next]_vars
----------------------------------------------------------------------------
(* A reference for scopes: every declaration has a name of its own *)

Declared(body) ==
  UNION {{s.parts[j].op : j \in DOMAIN s.parts} : s \in {body[i] : i \in {k \in DOMAIN body : body[k].type = "var"}}}

\* The names env gives to variables, and those declared in the block at path.
Fresh(env, names, path) ==
  [n \in names |-> n \o ToString(path)] @@ env

RECURSIVE Renamed(_, _, _)

\* The tree in which each name stands for the declaration around it: of the
\* innermost block, function or loop that declares it.
Renamed(n, env, path) ==
  LET Part(i, e) == Renamed(n.parts[i], e, Append(path, i))
      All(e) == [i \in DOMAIN n.parts |-> Part(i, e)]
      params == {n.parts[1].parts[i].op : i \in DOMAIN n.parts[1].parts}
      body == n.parts[2]
      block == body.type = "block"
      local == Fresh(env, params \cup (IF block THEN Declared(body.parts) ELSE {}), path)
      inner == Fresh(env, {n.op}, path)
      scope == Fresh(env, Declared(n.parts), path)
      name == IF n.op \in DOMAIN env THEN env[n.op] ELSE n.op
  IN  CASE n.type \in {"ident", "binding"} -> Node(n.type, name, All(env))
        [] n.type = "block"    -> Node("block", "", All(scope))
        [] n.type = "function" ->
             Node("function", "", <<Part(1, local),
               IF block THEN Node("block", "", [i \in DOMAIN body.parts |->
                                                  Renamed(body.parts[i], local, path \o <<2, i>>)])
               ELSE Part(2, local)>>)
        [] n.type = "for"      -> Node("for", inner[n.op], <<Part(1, env), Part(2, inner)>>)
        [] OTHER               -> Node(n.type, n.op, All(env))

RECURSIVE Mentions(_), UsedInOrder(_)
Mentions(n) ==
  (IF n.type = "ident" THEN {n.op} ELSE {}) \cup UNION {Mentions(n.parts[i]) : i \in DOMAIN n.parts}

\* JavaScript rejects the use of a variable above its declaration in a block.
UsedInOrder(n) ==
  /\ n.type = "block" =>
       \A i \in DOMAIN n.parts : n.parts[i].type = "var" =>
         {n.parts[i].parts[1].op} \cap
           UNION {Mentions(n.parts[j]) : j \in 1..i} = {}
  /\ \A i \in DOMAIN n.parts : UsedInOrder(n.parts[i])
----------------------------------------------------------------------------
(* Properties *)

(* The parser reads operators the way JavaScript does, so a script means what
   its author wrote: a tree printed with parentheses only where JavaScript's
   precedence and associativity ask for them is read back as it was, also
   where arrow functions, calls and assignments stand as operands. *)
ReadsWhatIsWritten ==
  code = <<>> =>
    LET s == ParseProgram(Written(tree, 1)) IN s.ok /\ s.node = tree

(* Names mean the declaration around them, wherever a function is called from:
   giving each declaration a name of its own changes no result, with closures
   that outlive or change their variables, shadowing in blocks, branches, loops
   and parameters, callbacks of array methods, and returns out of all these. *)
ScopesAreLexical ==
  code # <<>> =>
    LET s == ParseProgram(Tokens)
        none == [n \in {} |-> ""]
    IN  /\ s.ok
        /\ UsedInOrder(s.node) =>
             Remaining(s.node, Undefined) = Remaining(Renamed(s.node, none, <<>>), Undefined)
=============================================================================
