------------------------------- MODULE MCBoot -------------------------------
(***************************************************************************)
(* Boot for TLC: addresses of six bits and bytes of three.                 *)
(***************************************************************************)
EXTENDS Boot

Literal(v) == <<[is |-> "literal", value |-> v]>>
Symbol(x) == <<[is |-> "symbol", name |-> x]>>
Shifted(nodes, by) ==
    [k \in DOMAIN nodes |->
       IF nodes[k].is = "operator"
       THEN [nodes[k] EXCEPT !.lhs = @ + by, !.rhs = @ + by] ELSE nodes[k]]
Operator(lhs, op, rhs) ==
    LET root == Len(lhs) + Len(rhs)
    IN lhs \o Shifted(rhs, Len(lhs))
         \o <<[is |-> "operator", name |-> op, lhs |-> root - Len(rhs), rhs |-> root]>>
Negated(rhs) == rhs \o <<[is |-> "operator", name |-> "neg", lhs |-> Len(rhs), rhs |-> Len(rhs)]>>

Line(label, kind, exprs) ==
    [label |-> label, kind |-> kind, exprs |-> exprs, name |-> "", length |-> 0]
Ncall(label, name) == [Line(label, "ncall", <<>>) EXCEPT !.name = name]
Text(length) == [Line("none", "defs", <<>>) EXCEPT !.length = length]

MCStatements == {
    Line("start", "sub", <<>>), Line("none", "sub", <<>>), Line("none", "endsub", <<>>),
    Line("@@l", "branch", <<Symbol("@@l")>>), Line("none", "relative", <<Symbol("@@l")>>),
    Line("start", "relative", <<Symbol("a")>>), Line("none", "branch", <<Symbol("a")>>),
    Line("a", "byte", <<Symbol("c")>>), Line("none", "word", <<Symbol("c")>>),
    Line("c", "const", <<Symbol("a")>>),
    Line("c", "const", <<Operator(Literal(9), "&", Negated(Literal(2)))>>),
    Ncall("start", "n1"), Ncall("none", "n2"), Ncall("none", "n3"), Text(5), Text(0),
    Line("a", "defw", <<Literal(1), Operator(Symbol("a"), "/", Literal(2))>>),
    Line("a", "resw", <<Symbol("c")>>), Line("start", "resh", <<Literal(31)>>) }

\* Two routines, each with its own label "@@l".
MCFew == {
    Line("start", "sub", <<>>), Line("none", "sub", <<>>), Line("none", "endsub", <<>>),
    Line("@@l", "branch", <<Symbol("@@l")>>), Line("none", "relative", <<Symbol("@@l")>>) }

\* A constant that names a label, and lines that name the constant.
MCConstants == {
    Line("c", "const", <<Symbol("start")>>),
    Line("start", "word", <<Symbol("c")>>), Line("none", "word", <<Symbol("c")>>) }

MCHash == [n1 |-> 101, n2 |-> 102, n3 |-> 103]
MCRoutines == <<102, 101>>
=============================================================================
