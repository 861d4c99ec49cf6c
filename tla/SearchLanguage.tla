--------------------------- MODULE SearchLanguage ---------------------------
(***************************************************************************)
(* $search: the lenient parser of internal/query/search_expression.go, the *)
(* evaluator of search.go, and the query each full-text backend is given.  *)
(* Text is a sequence of words; a term is one word, a phrase several.      *)
(***************************************************************************)
EXTENDS Integers, Sequences, FiniteSets, SequencesExt

CONSTANTS
  Expressions,  \* the expressions clients mean
  Texts         \* what the searchable column of a row may hold

VARIABLES
  asked,    \* the expression the client means
  tail,     \* an operator left over at the end of the text, or ""
  tokens,   \* the tokens of the text
  node,     \* the tree the parser built
  text,     \* the row's column
  stage     \* "sent", "parsed"
vars == <<asked, tail, tokens, node, text, stage>>

None == [op |-> "none"]
Words(ws) == [op |-> "words", ws |-> ws]
And(l, r) == [op |-> "and", l |-> l, r |-> r]
Or(l, r) == [op |-> "or", l |-> l, r |-> r]
Not(x) == [op |-> "not", l |-> x]

Tok(t) == [t |-> t, ws |-> <<>>]
WordTok(ws) == [t |-> IF Len(ws) = 1 THEN "term" ELSE "phrase", ws |-> ws]
EndTok == Tok("EOF")

-----------------------------------------------------------------------------
(* The text of an expression, with parentheses only where they are needed, *)
(* written with AND or by putting the operands side by side.               *)

Level(x) == CASE x.op = "or" -> 1 [] x.op = "and" -> 2 [] x.op = "not" -> 3 [] OTHER -> 4

RECURSIVE TextOf(_, _, _)
TextOf(x, level, spelled) ==
  LET inner == CASE x.op = "words" -> <<WordTok(x.ws)>>
                 [] x.op = "not" -> <<Tok("NOT")>> \o TextOf(x.l, 3, spelled)
                 [] x.op = "and" -> TextOf(x.l, 2, spelled) \o (IF spelled THEN <<Tok("AND")>> ELSE <<>>)
                                    \o TextOf(x.r, 3, spelled)
                 [] x.op = "or" -> TextOf(x.l, 1, spelled) \o <<Tok("OR")>> \o TextOf(x.r, 2, spelled)
  IN IF Level(x) < level THEN <<Tok("(")>> \o inner \o <<Tok(")")>> ELSE inner

-----------------------------------------------------------------------------
(* The parser.  A result is a node and the number of tokens consumed.      *)

Peek(ts, i) == IF i + 1 > Len(ts) THEN EndTok ELSE ts[i + 1]
Got(n, i) == [n |-> n, i |-> i]

RECURSIVE parseOr(_, _), parseAnd(_, _), parseNot(_, _), parsePrimary(_, _), OrRest(_, _), AndRest(_, _)

OrRest(ts, got) ==
  IF Peek(ts, got.i).t # "OR" THEN got
  ELSE LET right == parseAnd(ts, got.i + 1) IN
       IF right.n = None THEN Got(And(got.n, Words(<<"OR">>)), right.i)
       ELSE OrRest(ts, Got(Or(got.n, right.n), right.i))
parseOr(ts, i) == LET left == parseAnd(ts, i) IN IF left.n = None THEN left ELSE OrRest(ts, left)

AndRest(ts, got) ==
  LET tok == Peek(ts, got.i)
      explicit == tok.t = "AND"
      right == parseNot(ts, IF explicit THEN got.i + 1 ELSE got.i)
  IN CASE explicit /\ right.n = None -> Got(And(got.n, Words(<<"AND">>)), right.i)
       [] ~explicit /\ tok.t \notin {"term", "phrase", "NOT", "("} -> got
       [] ~explicit /\ right.n = None -> Got(got.n, right.i)
       [] OTHER -> AndRest(ts, Got(And(got.n, right.n), right.i))
parseAnd(ts, i) == LET left == parseNot(ts, i) IN IF left.n = None THEN left ELSE AndRest(ts, left)

parseNot(ts, i) ==
  IF Peek(ts, i).t # "NOT" THEN parsePrimary(ts, i)
  ELSE LET operand == parseNot(ts, i + 1) IN
       Got(IF operand.n = None THEN Words(<<"NOT">>) ELSE Not(operand.n), operand.i)

parsePrimary(ts, i) ==
  LET tok == Peek(ts, i)
      inner == parseOr(ts, i + 1)
  IN CASE tok.t \in {"term", "phrase"} -> Got(Words(tok.ws), i + 1)
       [] tok.t = "(" -> Got(inner.n, IF Peek(ts, inner.i).t = ")" THEN inner.i + 1 ELSE inner.i)
       [] OTHER -> Got(None, i)

\* What is left after the first expression, a stray ")" for example, is ignored.
ParseSearchExpression(ts) == parseOr(ts, 0).n

-----------------------------------------------------------------------------
(* Evaluation in memory: a word or phrase matches where it occurs.         *)

OccursIn(ws, t) == \E i \in 0..(Len(t) - Len(ws)) : SubSeq(t, i + 1, i + Len(ws)) = ws

RECURSIVE matchesSearchExpr(_, _)
matchesSearchExpr(t, n) ==
  CASE n.op = "none" -> FALSE
    [] n.op = "and" -> matchesSearchExpr(t, n.l) /\ matchesSearchExpr(t, n.r)
    [] n.op = "or" -> matchesSearchExpr(t, n.l) \/ matchesSearchExpr(t, n.r)
    [] n.op = "not" -> ~matchesSearchExpr(t, n.l)
    [] OTHER -> OccursIn(n.ws, t)

\* ApplySearch keeps every row when the text has no expression in it.
ApplySearch(t, n) == n = None \/ matchesSearchExpr(t, n)

RECURSIVE containsNot(_)
containsNot(n) ==
  CASE n.op = "not" -> TRUE
    [] n.op \in {"and", "or"} -> containsNot(n.l) \/ containsNot(n.r)
    [] OTHER -> FALSE

-----------------------------------------------------------------------------
(* The queries handed to the database.                                     *)

\* A word is written as it is, even one that spells an operator.
Spelled(ws) == IF ws[1] \in {"AND", "OR", "NOT"} THEN Tok(ws[1]) ELSE WordTok(ws)

Wrapped(q, n) == IF n.op = "words" THEN q ELSE <<Tok("(")>> \o q \o <<Tok(")")>>

RECURSIVE toFTS5Query(_), toFTS34Query(_), toWebsearchQuery(_)

toFTS5QueryBare(n) ==
  CASE n.op = "or" -> toFTS5Query(n.l) \o <<Tok("OR")>> \o toFTS5Query(n.r)
    [] n.op = "and" -> toFTS5Query(n.l) \o <<Tok("AND")>> \o toFTS5Query(n.r)
    [] OTHER -> <<Spelled(n.ws)>>

toFTS5Query(n) ==
  CASE n.op = "words" -> <<Spelled(n.ws)>>
    [] n.op = "and" -> toFTS5Query(n.l) \o <<Tok("AND")>> \o toFTS5Query(n.r)
    [] n.op = "or" -> <<Tok("(")>> \o toFTS5Query(n.l) \o <<Tok("OR")>> \o toFTS5Query(n.r) \o <<Tok(")")>>
    [] n.op = "not" -> <<Tok("NOT")>> \o Wrapped(toFTS5Query(n.l), n.l)
    [] OTHER -> <<>>

toFTS34Query(n) ==
  CASE n.op = "words" -> <<Spelled(n.ws)>>
    [] n.op = "and" -> toFTS34Query(n.l) \o toFTS34Query(n.r)
    [] n.op = "or" -> <<Tok("(")>> \o toFTS34Query(n.l) \o <<Tok("OR")>> \o toFTS34Query(n.r) \o <<Tok(")")>>
    [] OTHER -> <<>>

toWebsearchQuery(n) ==
  CASE n.op = "words" -> <<Spelled(n.ws)>>
    [] n.op = "and" -> toWebsearchQuery(n.l) \o toWebsearchQuery(n.r)
    [] n.op = "or" -> toWebsearchQuery(n.l) \o <<Tok("OR")>> \o toWebsearchQuery(n.r)
    [] n.op = "not" -> <<Tok("NOT")>> \o Wrapped(toWebsearchQuery(n.l), n.l)
    [] OTHER -> <<>>

(* How the backends read them.  SQLite's MATCH binds AND, written or not,  *)
(* tighter than OR and knows parentheses; websearch_to_tsquery has none.   *)
SyntaxError(ts) ==
  \E i \in DOMAIN ts : /\ ts[i].t \in {"AND", "OR", "NOT"}
                       /\ \/ i \in {1, Len(ts)}
                          \/ ts[i - 1].ws = <<>> /\ ts[i - 1].t # ")"
                          \/ ts[i + 1].ws = <<>> /\ ts[i + 1].t # "("
MatchSQLite(t, ts) == matchesSearchExpr(t, ParseSearchExpression(ts))

Literal(t, ts, i) == ts[i].ws # <<>> /\ (OccursIn(ts[i].ws, t) <=> ~(i > 1 /\ ts[i - 1].t = "NOT"))
MatchWebsearch(t, ts) ==
  LET ends == {0, Len(ts) + 1} \cup {i \in DOMAIN ts : ts[i].t = "OR"}
  IN \E a \in ends, b \in ends :
       a < b /\ ~(\E c \in ends : a < c /\ c < b)
       /\ \A i \in (a + 1)..(b - 1) : ts[i].ws # <<>> => Literal(t, ts, i)

-----------------------------------------------------------------------------
Init ==
  /\ asked \in Expressions /\ text \in Texts /\ tail \in {"", "AND", "OR", "NOT"}
  /\ tokens \in {TextOf(asked, 1, s) \o (IF tail = "" THEN <<>> ELSE <<Tok(tail)>>) : s \in BOOLEAN}
  /\ stage = "sent" /\ node = None

Parse == /\ stage = "sent" /\ stage' = "parsed"
         /\ node' = ParseSearchExpression(tokens)
         /\ UNCHANGED <<asked, tail, tokens, text>>

Next == Parse
Spec == Init /\ [][Next]_vars

-----------------------------------------------------------------------------
(* Properties.                                                             *)

RECURSIVE WordsIn(_)
WordsIn(n) == IF n.op = "words" THEN {n.ws}
              ELSE UNION {WordsIn(x) : x \in {n.l} \cup (IF n.op = "not" THEN {} ELSE {n.r})}

(* The parser is the inverse of the grammar in its comment: NOT binds      *)
(* tighter than AND, AND, written or not, tighter than OR, both to the     *)
(* left.  An operator without an operand is searched as a word, and no     *)
(* word of the text is dropped for it (search_expression.go:142-229).      *)
SearchParserInverts ==
  stage = "parsed" =>
    IF tail = "" THEN node = asked ELSE WordsIn(node) = WordsIn(asked) \cup {<<tail>>}

\* The trees whose websearch text needs no parentheses.
RECURSIVE Conjunction(_)
Conjunction(n) ==
  CASE n.op = "and" -> Conjunction(n.l) /\ Conjunction(n.r)
    [] n.op = "not" -> n.l.op = "words"
    [] OTHER -> n.op = "words"
RECURSIVE Disjunction(_)
Disjunction(n) == IF n.op = "or" THEN Disjunction(n.l) /\ Disjunction(n.r) ELSE Conjunction(n)

(* Which backend answers is invisible: a search gives the rows the         *)
(* in-memory evaluator gives, whether the index of FTS5, of FTS3/4 or of   *)
(* PostgreSQL answers it, as long as words are matched whole.  On SQLite   *)
(* NOT goes to memory; on PostgreSQL the expressions that need parentheses *)
(* are left out, because websearch_to_tsquery has none (fts.go:590-627).   *)
(* The query of a well-formed search is never one SQLite refuses; that of  *)
(* a text the parser had to make sense of can be.                          *)
BackendsAgree ==
  stage = "parsed" /\ tail = "" =>
    /\ ~containsNot(node) => \A q \in {toFTS5Query(node), toFTS34Query(node)} :
                               ~SyntaxError(q) /\ MatchSQLite(text, q) = ApplySearch(text, node)
    /\ Disjunction(node) => MatchWebsearch(text, toWebsearchQuery(node)) = ApplySearch(text, node)

\* From the text of $search to the rows of any backend, the expression the
\* client meant decides.
SearchMeansWhatItSays == SearchParserInverts /\ BackendsAgree
=============================================================================
