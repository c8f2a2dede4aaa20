---------------------------- MODULE ScriptParser ----------------------------
(***************************************************************************)
(* The recursive descent parser of the balance query scripts               *)
(* (script/parser.go), a subset of JavaScript.  A token is its text; a     *)
(* node is a record of its type, an operator or name, and its parts.       *)
(*                                                                         *)
(* A parser state s has the tokens, the position, the number of nodes      *)
(* counted, whether all went well, and the node parsed last; every Parse   *)
(* operator takes such a state and returns the next one.  Counting past    *)
(* maxNodes ends the code's parser on the spot; nothing it does after an   *)
(* error can be seen, so here the count is looked at once, at the end.     *)
(* Template strings, which the lexer splits, are left out.                 *)
(***************************************************************************)
EXTENDS Integers, Sequences, FiniteSets, SequencesExt

CONSTANTS Names,     \* the identifiers that are not words of the language
          Numerals,  \* the number tokens
          Texts,     \* the string tokens
          MaxNodes   \* maxNodes

EOF == "end of file"
Banned == {"new", "this", "while", "in", "await"}
Words == {"true", "false", "null", "undefined", "function", "typeof", "var", "let",
          "const", "return", "if", "else", "for", "of"} \cup Banned
Idents == Names \cup Words

Node(type, op, parts) == [type |-> type, op |-> op, parts |-> parts]
NoNode == Node("", "", <<>>)

Start(tokens) ==
  [tokens |-> Append(tokens, EOF), pos |-> 1, nodes |-> 0, ok |-> TRUE, node |-> NoNode]

Cur(s) == s.tokens[s.pos]
Peek(s) == s.tokens[IF s.pos < Len(s.tokens) THEN s.pos + 1 ELSE s.pos]
Advance(s) == IF s.ok THEN [s EXCEPT !.pos = @ + 1] ELSE s
Failed(s) == [s EXCEPT !.ok = FALSE]
CountNode(s) == [s EXCEPT !.nodes = @ + 1]
IsToken(s, text) == s.ok /\ Cur(s) = text
SkipPunct(s, text) == IF IsToken(s, text) THEN Advance(s) ELSE s
ExpectPunct(s, text) == IF IsToken(s, text) THEN Advance(s) ELSE Failed(s)
ExpectIdent(s) == IF s.ok /\ Cur(s) \in Idents THEN Advance(s) ELSE Failed(s)

\* The state s with the node made of these parts.
Made(s, type, op, parts) == IF s.ok THEN [s EXCEPT !.node = Node(type, op, parts)] ELSE s

RECURSIVE ParseAssign(_), ParseLevel(_, _), ParseOperators(_, _), ParseUnary(_),
          ParsePostfix(_), ParseItems(_, _, _), ParseFields(_, _), ParseParams(_, _),
          ParseStatement(_), ParseStatements(_, _), ParseBindings(_, _)
----------------------------------------------------------------------------
(* Operators, from the loosest to the tightest *)

AssignOps == {"=", "+=", "-=", "*=", "/=", "%="}

\* Faulty variant: && and || bind alike.
FlatLevels == <<{"||", "??", "&&"}, {}, {"===", "!==", "==", "!="}, {"<=", ">=", "<", ">"},
                {"+", "-"}, {"*", "/", "%"}>>

Levels == <<{"||", "??"}, {"&&"}, {"===", "!==", "==", "!="}, {"<=", ">=", "<", ">"},
            {"+", "-"}, {"*", "/", "%"}>>

UnaryOps == {"!", "-", "+", "typeof"}

ParseExpression(s) == ParseAssign(CountNode(s))

ParseChoice(test) ==
  LET cons == ParseAssign(Advance(test))
      alt == ParseAssign(ExpectPunct(cons, ":"))
  IN  IF ~IsToken(test, "?") THEN test
      ELSE Made(alt, "cond", "", <<test.node, cons.node, alt.node>>)

ParseConditional(s) == ParseChoice(ParseLevel(s, 1))

Assignable == {"ident", "member", "member?", "index", "index?"}

ParseAssignTo(left) ==
  LET value == ParseAssign(Advance(left))
  IN  IF ~left.ok \/ Cur(left) \notin AssignOps THEN left
      ELSE IF left.node.type \notin Assignable THEN Failed(left)
      ELSE Made(value, "assign", Cur(left), <<left.node, value.node>>)

\* Assignments associate to the right; only names and properties are assigned.
ParseAssign(s) == ParseAssignTo(ParseConditional(s))

ParseLevel(s, k) ==
  IF k > Len(Levels) THEN ParseUnary(s) ELSE ParseOperators(ParseLevel(s, k + 1), k)

\* The operators of one level, to the left.
ParseOperators(left, k) ==
  IF ~left.ok \/ Cur(left) \notin Levels[k] THEN left
  ELSE LET right == ParseLevel(Advance(left), k + 1)
           type == IF k <= 2 THEN "logical" ELSE "binary"
       IN  ParseOperators(Made(CountNode(right), type, Cur(left), <<left.node, right.node>>), k)

ParseUnary(s) ==
  IF s.ok /\ Cur(s) \in UnaryOps
  THEN LET arg == ParseUnary(Advance(s))
       IN  Made(CountNode(arg), "unary", Cur(s), <<arg.node>>)
  ELSE ParsePostfix(s)
----------------------------------------------------------------------------
(* Primary expressions *)

\* Expressions separated by commas, up to the closing token.
ParseItems(s, close, items) ==
  IF IsToken(s, close) THEN Made(Advance(s), "items", "", items)
  ELSE LET item == ParseAssign(s)
           more == Append(items, item.node)
       IN  IF IsToken(item, ",") THEN ParseItems(Advance(item), close, more)
           ELSE Made(ExpectPunct(item, close), "items", "", more)

ParseArgs(s) == ParseItems(ExpectPunct(s, "("), ")", <<>>)

ParseArray(s) ==
  LET items == ParseItems(ExpectPunct(s, "["), "]", <<>>)
  IN  Made(items, "array", "", items.node.parts)

ParseFields(s, fields) ==
  IF IsToken(s, "}") THEN Made(Advance(s), "object", "", fields)
  ELSE IF ~s.ok \/ Cur(s) \notin Idents \cup Numerals \cup Texts THEN Failed(s)
  ELSE LET value == ParseAssign(ExpectPunct(Advance(s), ":"))
           more == Append(fields, Node("field", Cur(s), <<value.node>>))
       IN  IF IsToken(value, ",") THEN ParseFields(Advance(value), more)
           ELSE Made(ExpectPunct(value, "}"), "object", "", more)

ParseBlock(s) == ParseStatements(ExpectPunct(s, "{"), <<>>)

\* The body of an arrow function: a block or an expression.
ParseArrowBody(s, params) ==
  LET body == IF IsToken(s, "{") THEN ParseBlock(s) ELSE ParseAssign(s)
  IN  Made(body, "function", "", <<Node("params", "", params), body.node>>)

Param(name) == Node("ident", name, <<>>)

ParseParams(s, params) ==
  IF IsToken(s, ")") THEN Made(Advance(s), "params", "", params)
  ELSE LET name == ExpectIdent(s)
           more == Append(params, Param(Cur(s)))
       IN  IF IsToken(name, ",") THEN ParseParams(Advance(name), more)
           ELSE Made(ExpectPunct(name, ")"), "params", "", more)

ParseFunction(s) ==
  LET named == Advance(s)
      params == ParseParams(ExpectPunct(IF Cur(named) \in Idents THEN Advance(named) ELSE named, "("), <<>>)
      body == ParseBlock(params)
  IN  Made(body, "function", "", <<params.node, body.node>>)

\* The parenthesis that closes the one at s, 0 when there is none.
Closing(s) ==
  LET Nested(i) == Cardinality({j \in s.pos..i : s.tokens[j] = "("})
                     - Cardinality({j \in s.pos..i : s.tokens[j] = ")"})
      closed == {i \in s.pos..Len(s.tokens) : s.tokens[i] = ")" /\ Nested(i) = 0}
  IN  IF closed = {} THEN 0 ELSE Min(closed)

\* tryArrowParams looks ahead: names and commas in parentheses, and an arrow.
IsArrow(s) ==
  LET close == Closing(s)
  IN  /\ close > 0 /\ s.tokens[close + 1] = "=>"
      /\ \A i \in s.pos + 1..close - 1 : s.tokens[i] \in Idents \cup {","}

ArrowParams(s) ==
  LET inner == SelectSeq(SubSeq(s.tokens, s.pos + 1, Closing(s) - 1), LAMBDA t : t \in Idents)
  IN  [i \in DOMAIN inner |-> Param(inner[i])]

ParseParenthesis(s) ==
  IF IsArrow(s) THEN ParseArrowBody([s EXCEPT !.pos = Closing(s) + 2], ArrowParams(s))
  ELSE ExpectPunct(ParseExpression(Advance(s)), ")")

Literals == {"true", "false", "null", "undefined"}
Plain == Idents \ (Banned \cup Literals \cup {"function"})

ParsePrimary(start) ==
  LET s == CountNode(start)
      tok == Cur(s)
      Leaf(type) == Made(Advance(s), type, tok, <<>>)
  IN  IF ~s.ok THEN s
      ELSE CASE tok \in Numerals  -> Leaf("number")
             [] tok \in Texts     -> Leaf("string")
             [] tok \in Literals  -> Leaf("literal")
             [] tok = "function"  -> ParseFunction(s)
             [] tok \in Plain     -> IF Peek(s) = "=>"
                                     THEN ParseArrowBody(Advance(Advance(s)), <<Param(tok)>>)
                                     ELSE Leaf("ident")
             [] tok = "("         -> ParseParenthesis(s)
             [] tok = "{"         -> ParseFields(Advance(s), <<>>)
             [] tok = "["         -> ParseArray(s)
             [] OTHER             -> Failed(s)
----------------------------------------------------------------------------
(* Properties and calls; "?" marks the optional ones *)

Call(s, callee, op) ==
  LET args == ParseArgs(s)
  IN  Made(args, "call", op, <<callee>> \o args.node.parts)

Member(s, object, type) ==
  Made(ExpectIdent(s), type, "", <<object, Node("name", Cur(s), <<>>)>>)

Index(s, object, type) ==
  LET prop == ParseExpression(Advance(s))
  IN  Made(ExpectPunct(prop, "]"), type, "", <<object, prop.node>>)

RECURSIVE ParseTail(_)
ParseTail(expr) ==
  LET s == CountNode(expr)
      next == Advance(s)
      Optional == CASE Cur(next) = "(" -> Call(next, s.node, "?")
                    [] Cur(next) = "[" -> Index(next, s.node, "index?")
                    [] OTHER           -> Member(next, s.node, "member?")
  IN  IF ~s.ok THEN s
      ELSE CASE Cur(s) = "."  -> ParseTail(Member(next, s.node, "member"))
             [] Cur(s) = "["  -> ParseTail(Index(s, s.node, "index"))
             [] Cur(s) = "("  -> ParseTail(Call(s, s.node, ""))
             [] Cur(s) = "?." -> ParseTail(Optional)
             [] OTHER         -> s

ParsePostfix(s) == ParseTail(ParsePrimary(s))
----------------------------------------------------------------------------
(* Statements *)

Declaring == {"var", "let", "const"}

ParseStatements(s, body) ==
  IF IsToken(s, "}") THEN Made(Advance(s), "block", "", body)
  ELSE IF ~s.ok \/ Cur(s) = EOF THEN Failed(s)
  ELSE LET item == ParseStatement(s)
       IN  ParseStatements(item, Append(body, item.node))

ParseBindings(s, bindings) ==
  LET name == ExpectIdent(s)
      value == IF IsToken(name, "=") THEN ParseAssign(Advance(name)) ELSE name
      init == IF IsToken(name, "=") THEN <<value.node>> ELSE <<>>
      more == Append(bindings, Node("binding", Cur(s), init))
  IN  IF IsToken(value, ",") THEN ParseBindings(Advance(value), more)
      ELSE Made(SkipPunct(value, ";"), "var", "", more)

ParseReturn(s) ==
  IF Cur(s) \in {";", "}"} THEN Made(SkipPunct(s, ";"), "return", "", <<>>)
  ELSE LET arg == ParseExpression(s)
       IN  Made(SkipPunct(arg, ";"), "return", "", <<arg.node>>)

ParseIf(s) ==
  LET test == ParseExpression(ExpectPunct(s, "("))
      cons == ParseStatement(ExpectPunct(test, ")"))
      alt == ParseStatement(Advance(cons))
  IN  IF IsToken(cons, "else") THEN Made(alt, "if", "", <<test.node, cons.node, alt.node>>)
      ELSE Made(cons, "if", "", <<test.node, cons.node>>)

ParseForOf(s) ==
  LET open == ExpectPunct(s, "(")
      var == IF open.ok /\ Cur(open) \in Declaring THEN Advance(open) ELSE open
      iter == ParseExpression(ExpectPunct(ExpectIdent(var), "of"))
      body == ParseStatement(ExpectPunct(iter, ")"))
  IN  Made(body, "for", Cur(var), <<iter.node, body.node>>)

ParseStatement(start) ==
  LET s == CountNode(start)
      expr == ParseExpression(s)
  IN  IF ~s.ok THEN s
      ELSE CASE Cur(s) = "{"      -> ParseBlock(s)
             [] Cur(s) = ";"      -> Made(Advance(s), "block", "", <<>>)
             [] Cur(s) \in Declaring -> ParseBindings(Advance(s), <<>>)
             [] Cur(s) = "return" -> ParseReturn(Advance(s))
             [] Cur(s) = "if"     -> ParseIf(Advance(s))
             [] Cur(s) = "for"    -> ParseForOf(Advance(s))
             [] OTHER -> Made(SkipPunct(expr, ";"), "expr", "", <<expr.node>>)

\* A script is a single expression.
ParseEnd(s) == IF s.ok /\ Cur(s) = EOF /\ s.nodes <= MaxNodes THEN s ELSE Failed(s)
ParseProgram(tokens) == ParseEnd(SkipPunct(ParseExpression(Start(tokens)), ";"))
=============================================================================
