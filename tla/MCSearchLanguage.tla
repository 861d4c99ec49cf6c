-------------------------- MODULE MCSearchLanguage --------------------------
EXTENDS SearchLanguage
Atoms == {Words(<<"a">>), Words(<<"b">>), Words(<<"a", "b">>)}
Two(s) == {Not(x) : x \in s} \cup {And(x, y) : x \in s, y \in s} \cup {Or(x, y) : x \in s, y \in s}
D2 == Atoms \cup Two(Atoms)
MCExpressions == D2 \cup Two(D2)
MCTexts == UNION {[1..n -> {"a", "b", "c"}] : n \in 0..2}
=============================================================================
