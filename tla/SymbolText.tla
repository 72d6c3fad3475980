----------------------------- MODULE SymbolText -----------------------------
(***************************************************************************)
(* What enrich_from_source cuts out of a file for a symbol                 *)
(* (parsing/symbols.rs): the doc comment above it and its signature.       *)
(*                                                                         *)
(* For a doc comment a line is what its trimmed text begins with and       *)
(* whether there is text after that; the result is the lines whose text it *)
(* joins. For a signature a line is a sequence of units, as in Lexer.      *)
(* Lines count from 0, as in the code.                                     *)
(***************************************************************************)
EXTENDS SourceText

\* A line of code begins with none of the marks; "*" also begins a line that
\* dereferences a pointer, which looks the same.
DocLine(begins, text) == [begins |-> begins, text |-> text]
EmptyLine == DocLine("", FALSE)
HashComments(lang) == lang \in {"Python", "Ruby"}

LineOf(lines, n) == IF n \in 0 .. Len(lines) - 1 THEN lines[n + 1] ELSE EmptyLine

\* The loop ends before a line (Breaks), after a line (Closes), or at the top.
Breaks(line, lang) ==
    IF HashComments(lang) THEN line.begins # "#"
    ELSE line.begins \notin {"//", "*", "/**", "*/"}
Ends(line, lang) == ~HashComments(lang) /\ line.begins = "/**"
Contributes(line, lang) ==
    \/ line.begins \in {"#", "//"}
    \/ line.begins \in {"*", "/**"} /\ line.text

\* The comment lines directly above the definition.
CommentLines(lines, def_line, lang) ==
    LET up[n \in -1 .. def_line] ==
            LET line == LineOf(lines, n)
            IN  CASE n < 0 -> {}
                  [] Breaks(line, lang) -> {}
                  [] Ends(line, lang) -> {n}
                  [] OTHER -> {n} \cup up[n - 1]
    IN  {n \in up[def_line - 1] : Contributes(LineOf(lines, n), lang)}

\* Python, where nothing was found above: the string that begins on the next
\* line. "3q" begins one, "3q3q" also ends it, and a line that ends with the
\* quotes is "..3q".
Docstring(lines, def_line) ==
    LET open   == def_line + 1
        closes == {n \in open + 1 .. Len(lines) - 1 : LineOf(lines, n).begins \in {"3q", "3q3q", "..3q"}}
        to     == IF closes = {} THEN Len(lines) - 1 ELSE Min(closes)
    IN  CASE LineOf(lines, open).begins = "3q3q" -> {open}
          [] LineOf(lines, open).begins = "3q" ->
               {n \in open .. to : (n = open \/ n = to) => LineOf(lines, n).text}
          [] OTHER -> {}

extract_doc_comment(lines, def_line, lang) ==
    LET above == CommentLines(lines, def_line, lang)
    IN  IF lang = "Python" /\ above = {} THEN Docstring(lines, def_line) ELSE above

-----------------------------------------------------------------------------
(* The signature. *)

TextLine(lines, n) == IF n \in 0 .. Len(lines) - 1 THEN Trim(lines[n + 1]) ELSE <<>>
Before(text, Stop(_)) == Trim(Slice(text, 0, ForthWhile(text, 0, LAMBDA u : ~Stop(u))))
WithoutTrailing(text, mark) == Trim(Slice(text, 0, BackWhile(text, Len(text), LAMBDA u : u = mark)))
SomeText(text) == IF text = <<>> THEN None ELSE text

\* "} Name;": the nearest line above that begins with "typedef", cut at "{",
\* and the name.
TypedefSignature(lines, def_line) ==
    LET closing == TextLine(lines, def_line)
        name    == WithoutTrailing(Trim(Slice(closing, ForthWhile(closing, 0, LAMBDA u : u = "}"), Len(closing))), ";")
        above   == {n \in 0 .. def_line - 1 : SubSeq(TextLine(lines, n), 1, 2) = <<"typedef", " ">>}
        prefix  == Before(TextLine(lines, Max(above)), LAMBDA u : u = "{")
    IN  IF above = {} THEN name ELSE IF name = <<>> THEN prefix ELSE prefix \o <<" ">> \o name

MaxSignatureLines == 5

\* Mutant: a brace ends the signature inside the parentheses too.
CollectSignature_AnyBrace(lines, def_line) ==
    LET last == Min({def_line + MaxSignatureLines, Len(lines)}) - 1
        collect[n \in def_line .. last + 1, k \in Nat, depth \in Int, opened \in BOOLEAN, sig \in Seq(STRING)] ==
            LET text == TextLine(lines, n)
                c    == text[k + 1]
            IN  CASE n > last -> WithoutTrailing(Trim(sig), "{")
                  [] k = Len(text) /\ opened /\ depth = 0 -> sig
                  [] k = Len(text) -> collect[n + 1, 0, depth, opened, Append(sig, " ")]
                  [] c = "{" -> sig
                  [] c = "(" -> collect[n, k + 1, depth + 1, TRUE, Append(sig, c)]
                  [] c = ")" -> collect[n, k + 1, depth - 1, opened, Append(sig, c)]
                  [] OTHER -> collect[n, k + 1, depth, opened, Append(sig, c)]
    IN  SomeText(Trim(collect[def_line, 0, 0, FALSE, <<>>]))

\* Unit by unit, over five lines at most, up to a brace outside parentheses or
\* the end of the line that closes them.
CollectSignature(lines, def_line) ==
    LET last == Min({def_line + MaxSignatureLines, Len(lines)}) - 1
        collect[n \in def_line .. last + 1, k \in Nat, depth \in Int, opened \in BOOLEAN, sig \in Seq(STRING)] ==
            LET text == TextLine(lines, n)
                c    == text[k + 1]
            IN  CASE n > last -> WithoutTrailing(Trim(sig), "{")
                  [] k = Len(text) /\ opened /\ depth = 0 -> sig
                  [] k = Len(text) -> collect[n + 1, 0, depth, opened, Append(sig, " ")]
                  [] c = "{" /\ depth = 0 -> sig
                  [] c = "(" -> collect[n, k + 1, depth + 1, TRUE, Append(sig, c)]
                  [] c = ")" -> collect[n, k + 1, depth - 1, opened, Append(sig, c)]
                  [] OTHER -> collect[n, k + 1, depth, opened, Append(sig, c)]
    IN  SomeText(Trim(collect[def_line, 0, 0, FALSE, <<>>]))

extract_signature(lines, def_line, lang) ==
    LET trimmed == TextLine(lines, def_line)
    IN  CASE def_line >= Len(lines) -> None
          [] lang = "Python" -> Before(trimmed, LAMBDA u : u = ":")
          [] trimmed # <<>> /\ Head(trimmed) = "}" /\ TypedefSignature(lines, def_line) # <<>> ->
               TypedefSignature(lines, def_line)
          [] ~Contains(trimmed, "(") -> SomeText(Before(trimmed, LAMBDA u : u \in {"{", ";"}))
          [] OTHER -> CollectSignature(lines, def_line)

-----------------------------------------------------------------------------
(* Properties of one input. *)

\* A line is in a comment by what comes before it: a "/**" opens one, a line
\* "*/" ends it.
InBlock(lines, n) ==
    LET open == {m \in 0 .. n : LineOf(lines, m).begins = "/**"}
    IN  open # {} /\ \A m \in Max(open) .. n - 1 : LineOf(lines, m).begins # "*/"
IsComment(lines, n) == LineOf(lines, n).begins \in {"//", "#"} \/ InBlock(lines, n)

\* The doc comment of a definition is a comment, and nothing but comment is
\* between it and the definition.
DocIsTheCommentAbove(lines, def_line, lang) ==
    \A n \in CommentLines(lines, def_line, lang) : \A m \in n .. def_line - 1 : IsComment(lines, m)

ParenDepth(text) == Opens(text, 0, Len(text)) - Closes(text, 0, Len(text))

\* Where the parameter list closes within five lines its signature holds it
\* from "(" to the ")" that closes it, so that extract_parameters finds it,
\* braces inside it included.
SignatureIsWhole(lines, def_line, lang) ==
    LET signature == extract_signature(lines, def_line, lang)
        list[n \in def_line .. Len(lines)] ==
            IF n = def_line THEN <<>> ELSE list[n - 1] \o TextLine(lines, n - 1)
        whole == \E n \in def_line + 1 .. Min({def_line + 5, Len(lines)}) : ParenDepth(list[n]) = 0
        nested == \A n \in def_line + 1 .. Len(lines) : \A k \in 0 .. Len(list[n]) : ParenDepth(Slice(list[n], 0, k)) >= 0
    IN  (whole /\ nested /\ lang # "Python"
            /\ signature # None /\ Contains(signature, "("))
        => ParenDepth(signature) = 0
=============================================================================
