--------------------------- MODULE MCFilterQuery ----------------------------
EXTENDS FilterQuery

A == Id(<<"a">>)
B == Id(<<"b">>)
XA == Id(<<"x", "a">>)
YA == Id(<<"y", "a">>)

\* Rows with NULLs, with and without a related row, and with related
\* collections that differ in size and in what they hold.
Leaf(a) == [a |-> a, b |-> 1, ref |-> NoRef, items |-> {}]
Branch(a, s) == [a |-> a, b |-> 1, ref |-> NoRef, items |-> s]
MCRows ==
  {[a |-> x, b |-> y, ref |-> NoRef, items |-> {}] : x \in {Null, 0, 1, 2}, y \in {Null, 0, 1}}
  \cup {[a |-> x, b |-> 1, ref |-> Leaf(x), items |-> {Branch(z, {Leaf(x)}), Leaf(1)}] :
          x \in {Null, 1}, z \in {Null, 1, 2}}
TrimmedOf == [n \in 0..9 |-> IF n = 1 THEN 0 ELSE n]

Ops == {"eq", "ne", "lt", "ge"}
Lefts == {A, Id(<<"ref", "a">>), Id(<<"items", "$count">>), Fn("trim", B), Fn("tolower", B),
          Fn("trim", Fn("tolower", B)), Arith("add", A, Lit(1)),
          Arith("sub", Arith("mul", A, Lit(2)), Lit(1)), Arith("sub", A, Arith("add", Lit(1), Lit(1))),
          Arith("div", Lit(2), A), Arith("add", A, B), Id(<<"unknown">>)}
Rights == {Lit(0), Lit(1), Nil, B, Quoted(<<"b">>), Fn("trim", B), Arith("add", B, Lit(1))}
Comparing == {Cmp(op, l, r) : op \in Ops, l \in Lefts, r \in Rights}
Others == {In(A, <<Lit(0), Lit(1)>>), In(A, <<Lit(1), Nil>>), In(A, <<>>), Like(B, Lit(0)), Like(B, Lit(1)),
           Like(B, Quoted(<<"a">>)), Like(Fn("trim", B), Lit(0)), Like(A, A), A, Lit(1), Fn("trim", B),
           Cmp("eq", Like(B, Lit(1)), Lit(1))}

\* Three leaves are enough to tell every shape of two connectives apart.
P == Cmp("eq", A, Lit(1))
Q == Cmp("lt", B, Lit(1))
R == Cmp("ge", A, B)
Simple == {P, Q, R, Not(P), Not(Q), In(A, <<Lit(1), Nil>>), Like(B, Lit(0))}
Joined == {Bin(op, l, r) : op \in {"and", "or"}, l \in Simple, r \in Simple}
Mixed == {Bin(op, l, r) : op \in {"and", "or"}, l \in Joined, r \in {P, Not(Q), Lit(1)}}
         \cup {Bin(op, l, r) : op \in {"and", "or"}, l \in {P, R}, r \in Joined}
Denied == {Not(e) : e \in Joined \cup Simple}

Named(op, nav, var, e) == Lambda(op, nav, IF e = NoPred THEN "" ELSE var, e)
Inside == {Cmp(op, XA, r) : op \in Ops, r \in {Lit(1), Nil, Id(<<"x", "b">>)}}
          \cup {Cmp("eq", Arith("add", XA, Lit(1)), Lit(2)), Like(Id(<<"x", "b">>), Lit(1)),
                In(XA, <<Lit(1)>>), Not(Cmp("eq", XA, Lit(1))), Cmp("eq", Fn("trim", Id(<<"x", "b">>)), Lit(0)),
                Bin("and", Cmp("ge", XA, Lit(1)), Cmp("lt", Id(<<"x", "b">>), Lit(2))),
                Bin("or", Cmp("eq", XA, Lit(2)), Cmp("eq", XA, Nil))}
          \cup {Named(op, <<"x", "items">>, "y", e) : op \in {"any", "all"},
                  e \in {Cmp("eq", YA, Lit(1)), Cmp("eq", YA, XA), NoPred}}
Lambdas == {Named(op, <<"items">>, "x", e) : op \in {"any", "all"}, e \in Inside \cup {NoPred}}

MCFilters == Comparing \cup Others \cup Joined \cup Mixed \cup Denied \cup {Not(Not(P))}
             \cup Lambdas \cup {Not(e) : e \in Lambdas} \cup {Bin("or", e, P) : e \in Lambdas}
=============================================================================
