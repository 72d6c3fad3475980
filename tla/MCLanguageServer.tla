-------------------------- MODULE MCLanguageServer --------------------------
EXTENDS LanguageServer

SplitLines(source) == [n \in 1 .. LineCount(source) |-> LineAt(source, n - 1)]

Text(source, symbols, nodes, headers) ==
    [source |-> source, lines |-> SplitLines(source), symbols |-> symbols,
     nodes |-> nodes, headers |-> headers]

Decl(name, line, col, visibility) ==
    [name |-> name, line |-> line, col |-> col, depth |-> 0, keyword |-> "function",
     scope_end |-> None, container |-> None, visibility |-> visibility]
Local(name, line, col, depth, keyword, end) ==
    [Decl(name, line, col, "Unknown") EXCEPT
        !.depth = depth, !.keyword = keyword, !.scope_end = end]
Node(line, from, to, kind) ==
    [line |-> line, from |-> from, to |-> to, kind |-> kind, parent |-> "expr", field |-> "none"]
Call(line, from, to) ==
    [Node(line, from, to, "identifier") EXCEPT !.parent = "call_expression", !.field = "function"]

x == <<"x">>
Xyz == <<"X", "y", "z">>
xy == <<"x", "y">>
g == <<"e2", "g">>

\* f(x) / {.xy x} / (inner x) / .g: a parameter, an inner local, uses of both.
Shadowing == Text(
    <<"f", "(", "x", ")", NewLine,
      " ", "x", "y", ",", "x", NewLine,
      "x", "(", "x", NewLine,
      "x", ".", "x", "e2", "(", "x">>,
    {Decl(<<"f">>, 0, 0, "Public"), Local(x, 0, 2, 1, "parameter", 3),
     Local(xy, 1, 1, 1, "variable", None), Local(x, 1, 4, 2, "variable", 2)},
    {Node(0, 0, 1, "identifier"), Node(2, 2, 3, "identifier"), Call(2, 0, 1),
     Node(3, 2, 5, "field_identifier"), Node(3, 0, 1, "identifier")},
    {})

\* A global x behind a wide character, a private xy, a field and a method.
Globals == Text(
    <<"w4", " ", "x", ",", "e2", "g", NewLine,
      "i", "m", " ", "x", NewLine,
      "e2", ".", "x", "y", NewLine,
      "x", "y", " ", "x", ".", "x">>,
    {Decl(x, 0, 5, "Private"), Decl(g, 0, 7, "Public"),
     [Decl(xy, 2, 3, "Private") EXCEPT !.container = x],
     Local(x, 3, 5, 1, "field", None)},
    {Node(3, 5, 6, "field_identifier"), Node(1, 3, 4, "type_identifier")},
    {[line |-> 1, name |-> x]})

\* Globals after an edit above everything.
Moved == Text(
    <<NewLine, "w4", "w4", " ", "x", "(", "x", "y">>,
    {Decl(x, 1, 9, "Public")}, {Call(1, 9, 10)}, {})

\* A function x with two overloads, and Xyz.
Dep == Text(<<"x", "(", ")", ",", "x", "(", "x", ")", ",", "X", "y", "z", "(", ")">>,
    {Decl(x, 0, 0, "Public"), Decl(x, 0, 4, "Public"), Decl(Xyz, 0, 9, "Public")}, {}, {})

MCPaths == {"a", "b"}
MCParse == [shadowing |-> Shadowing, globals |-> Globals, moved |-> Moved, dep |-> Dep]
MCTexts == {"shadowing", "globals", "moved"}
MCDepTexts == [p \in {"d"} |-> "dep"]
MCDisks == {[a |-> "shadowing", b |-> Absent]}
MCLowercase == [X |-> "x"]
MCSimilar == {<<x, xy>>, <<xy, x>>}
=============================================================================
