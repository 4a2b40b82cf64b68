------------------------------ MODULE MCArchive -------------------------------
(***************************************************************************)
(* All lists of up to two grids of a few, and lists of three or four that  *)
(* make more cases: a tree written at one precision, at the other and      *)
(* again, instances that share a parent of another name or that are        *)
(* clipped by other transforms, names that look like unique ones.          *)
(***************************************************************************)
EXTENDS Archive, TLC

MCSymmetry == Permutations(Files)

N(stem, brackets) == [stem |-> stem, brackets |-> brackets]
None == N("", <<>>)
A == N("a", <<>>)
A0 == N("a", <<0>>)
A1 == N("a", <<1>>)
B == N("b", <<>>)

MCAlphabet == <<None, A, A0, A1, B>>
MCQueries == {None, A, A0, A1, B, N("a", <<2>>), N("", <<0>>), N("b", <<0>>), N("a", <<1, 0>>)}

G(name, tree, half, transform) == [name |-> name, tree |-> tree, half |-> half, transform |-> transform]

Grids == {G(n, t, h, x) : n \in {None, A, A1}, t \in {"s", "t"}, h \in BOOLEAN, x \in {"x", "y"}}

\* Trees, transforms and precisions are only compared, so the first grid has the first of
\* each.  A second grid of another tree has another transform and the same precision.
Firsts == {g \in Grids : g.tree = "s" /\ g.transform = "x" /\ ~ g.half}
Seconds == {g \in Grids : g.tree = "s" \/ (g.transform = "y" /\ ~ g.half)}

Pairs == {<<g>> : g \in Firsts} \union {<<g, h>> : g \in Firsts, h \in Seconds}

One(n1, n2, n3, h1, h2, h3) ==
    <<G(n1, "s", h1, "x"), G(n2, "s", h2, "y"), G(n3, "s", h3, "y")>>

Triples ==
    {One(A, A, A, h1, h2, h3) : h1 \in BOOLEAN, h2 \in BOOLEAN, h3 \in BOOLEAN}
    \union {One(A, B, B, FALSE, FALSE, FALSE), One(None, None, A, FALSE, FALSE, FALSE),
            One(A1, A, A, FALSE, FALSE, TRUE),
            <<G(A, "s", FALSE, "x"), G(A, "t", FALSE, "x"), G(A1, "u", FALSE, "x")>>,
            <<G(A, "s", FALSE, "x"), G(A, "t", FALSE, "x"), G(A1, "u", FALSE, "x"), G(A1, "u", FALSE, "x")>>,
            <<G(A, "s", FALSE, "x"), G(A0, "t", FALSE, "x"), G(A, "s", FALSE, "x"), G(B, "t", FALSE, "y")>>}

Again == {One(A, B, B, FALSE, FALSE, FALSE), <<G(A, "t", FALSE, "x"), G(A, "u", FALSE, "y")>>}

MCLists == {<<>>} \union Again \union Pairs \union Triples

\* Lists of names only, of trees of their own.
Called(names) == [i \in DOMAIN names |-> G(names[i], i, FALSE, "x")]

NumberedLists == {Called(<<A>>), Called(<<A, A>>), Called(<<A, A, A1>>), Called(<<A, A, A1, A1>>)}

NamedLists == {Called(<<A>>), Called(<<A, B>>), Called(<<A, A>>)}

\* Two names, of one tree and then of two.
SharedThenOwn == {Called(<<A, B>>), <<G(A, 1, FALSE, "x"), G(B, 1, FALSE, "x")>>}
===============================================================================
