---------------------------- MODULE FilterGrammar ----------------------------
(***************************************************************************)
(* How the text of a filter or of a PATCH path is read (pkg/filter): a     *)
(* parser of ordered choices over the text, without a separate scanner,    *)
(* so that a keyword is found wherever its letters stand.                  *)
(*                                                                         *)
(* A text is a sequence of fragments, each standing for some characters:   *)
(* letters (keywords are letters too, so <<"not", "es">> is the name       *)
(* notes), digits, a string literal, a space, a mark.  No keyword begins   *)
(* inside a fragment, or is the beginning of another one.  A fragment of   *)
(* letters stands for its spellings, but for the JSON constants, which     *)
(* are lower case.                                                         *)
(*                                                                         *)
(* A parser is given a text and a position, and returns whether it         *)
(* matched, where it stopped, and what it read; `work` counts the calls of *)
(* an atom, those that failed included.  A parser that fails leaves the    *)
(* position where it was (Seek), so the position of a failure is not kept. *)
(***************************************************************************)
EXTENDS Naturals, Sequences, FiniteSetsExt, SequencesExt

CONSTANTS
    Words,       \* fragments of letters that are not keywords
    Digits,      \* fragments of digits
    Strings,     \* string literals
    Decodable,   \* those that are valid JSON
    MaxInput     \* the greatest length of a text (8192 bytes)

Comparators == {"eq", "ne", "co", "sw", "ew", "gt", "lt", "ge", "le"}
Constants == {"false", "null", "true"}
Letters == {"and", "or", "not", "pr"} \cup Comparators \cup Constants \cup Words
NameChars == Letters \cup Digits
URIChars == NameChars \cup {"."}

At(t, i) == IF i <= Len(t) THEN t[i] ELSE "end"

\* Where the run of fragments of S that starts at i ends.
Run(t, i, S) == Min({j \in i..(Len(t) + 1) : At(t, j) \notin S})

Matched(j, node) == [ok |-> TRUE, pos |-> j, node |-> node, work |-> 0]
NoMatch == [ok |-> FALSE, pos |-> 0, node |-> <<>>, work |-> 0]
Costing(r, n) == [r EXCEPT !.work = @ + n]

\* The first alternative that matches, after those that did not.
Choice(first, second) == IF first.ok THEN first ELSE Costing(second, first.work)

-----------------------------------------------------------------------------
(* Attribute paths. *)

Space(t, i) == Run(t, i, {" "})

attributeName(t, i) == IF At(t, i) \in Letters THEN Run(t, i, NameChars) ELSE i

\* The longest "urn:a:b:" from i on, and the position after it.
schemaURI(t, i) ==
    Max({i} \cup {j + 1 : j \in {k \in (i + 1)..Len(t) :
            /\ t[k] = ":"
            /\ t[i] \in Letters
            /\ \A n \in i..k : t[n] \in URIChars \cup {":"}
            /\ \A n \in (i + 1)..k : ~(t[n] = ":" /\ t[n - 1] = ":")}})

subAttribute(t, i) ==
    IF At(t, i) = "." /\ attributeName(t, i + 1) > i + 1 THEN attributeName(t, i + 1) ELSE i

\* The path is kept as the text it was read from.
attributePath(t, i) ==
    LET u == schemaURI(t, i)
        n == attributeName(t, u)
        s == subAttribute(t, n)
    IN  IF n = u THEN NoMatch ELSE Matched(s, SubSeq(t, i, s - 1))

Places(t, mark) == {i \in DOMAIN t : t[i] = mark}

\* Mutant: the URI ends at the first colon.
splitAtFirstColon(path) ==
    LET c == IF Places(path, ":") = {} THEN 0 ELSE Min(Places(path, ":"))
        rest == SubSeq(path, c + 1, Len(path))
        d == IF Places(rest, ".") = {} THEN Len(rest) + 1 ELSE Min(Places(rest, "."))
    IN  [uri |-> SubSeq(path, 1, c - 1), name |-> SubSeq(rest, 1, d - 1),
         sub |-> SubSeq(rest, d + 1, Len(rest))]

\* CutLast at ":", then Cut at ".".
splitAttrPath(path) ==
    LET c == Max({0} \cup Places(path, ":"))
        rest == SubSeq(path, c + 1, Len(path))
        d == IF Places(rest, ".") = {} THEN Len(rest) + 1 ELSE Min(Places(rest, "."))
    IN  [uri |-> SubSeq(path, 1, c - 1), name |-> SubSeq(rest, 1, d - 1),
         sub |-> SubSeq(rest, d + 1, Len(rest))]

-----------------------------------------------------------------------------
(* Attribute expressions.  The rules from here on refer to each other      *)
(* through `read`, as the parsers do through peg.Ref: read["or", i, ...]   *)
(* is what logExpr reads from i on.  Its last argument, `within`, says     *)
(* that a value filter is read, which has no value paths.                  *)

comparisonValue(t, i) ==
    LET n == Run(t, i, Digits)
        f == IF At(t, n) = "." THEN Run(t, n + 1, Digits) ELSE n
    IN  CASE At(t, i) \in Constants -> Matched(i + 1, [type |-> "literal", text |-> <<t[i]>>])
          [] At(t, i) \in Digits ->
               LET j == IF f > n + 1 THEN f ELSE n
               IN  Matched(j, [type |-> "number", text |-> SubSeq(t, i, j - 1)])
          [] At(t, i) \in Decodable -> Matched(i + 1, [type |-> "string", text |-> <<t[i]>>])
          [] OTHER -> NoMatch

attributeExpression(read, t, i, within) ==
    LET attr == read["path", i, within]
        o == Space(t, attr.pos)
        v == Space(t, o + 1)
        value == read["value", v, within]
    IN  IF ~attr.ok \/ o = attr.pos THEN NoMatch
        ELSE CASE At(t, o) = "pr" -> Matched(o + 1, [is |-> "pr", attribute |-> attr.node])
               [] At(t, o) \in Comparators /\ v > o + 1 /\ value.ok ->
                    Matched(value.pos, [is |-> "comparison", attribute |-> attr.node,
                                        operator |-> t[o], value |-> value.node])
               [] OTHER -> NoMatch

-----------------------------------------------------------------------------
(* Logical expressions. *)

parenGroup(read, t, i, within) ==
    LET negated == At(t, i) = "not"
        s == IF negated THEN Space(t, i + 1) ELSE i
        inner == read["or", s + 1, within]
    IN  IF At(t, s) # "(" THEN NoMatch
        ELSE IF ~inner.ok \/ At(t, inner.pos) # ")" THEN Costing(NoMatch, inner.work)
        ELSE Costing(Matched(inner.pos + 1, IF negated THEN [is |-> "not", operand |-> inner.node]
                                            ELSE inner.node), inner.work)

valuePath(read, t, i) ==
    LET path == read["path", i, TRUE]
        inner == read["or", path.pos + 1, TRUE]
    IN  IF ~path.ok \/ At(t, path.pos) # "[" THEN NoMatch
        ELSE IF ~inner.ok \/ At(t, inner.pos) # "]" THEN Costing(NoMatch, inner.work)
        ELSE Costing(Matched(inner.pos + 1, [is |-> "path", path |-> path.node, filter |-> inner.node]),
                     inner.work)

\* Mutant: a group that does not follow is looked for after "not" all the same.
atomAfterNot(read, t, i, within) ==
    LET group == read["group", i, within]
        expr == read["expr", IF At(t, i) = "not" THEN i + 1 ELSE i, within]
        path == IF within THEN NoMatch ELSE valuePath(read, t, i)
    IN  Costing(Choice(group, Choice(expr, path)), 1)

atom(read, t, i, within) ==
    LET group == read["group", i, within]
        expr == read["expr", i, within]
        path == IF within THEN NoMatch ELSE valuePath(read, t, i)
    IN  Costing(Choice(group, Choice(expr, path)), 1)

\* Where an operand may start after `name` at i; i itself if it may not.
operand(t, i, name) ==
    LET o == Space(t, i)
        r == Space(t, o + 1)
    IN  IF o > i /\ At(t, o) = name /\ r > o + 1 THEN r ELSE i

Binary(name, left, right) == [is |-> name, left |-> left, right |-> right]

\* An operand that cannot be read is left, with its operator.
binaryExpression(name, left, right) ==
    IF right.ok THEN Costing(Matched(right.pos, Binary(name, left.node, right.node)), left.work + right.work)
    ELSE Costing(left, right.work)

\* Mutant: "and" is read as "or" is, each taking all that follows.
logExprFlat(read, t, i, within) ==
    LET left == read["atom", i, within]
        name == IF operand(t, left.pos, "and") > left.pos THEN "and" ELSE "or"
        r == operand(t, left.pos, name)
    IN  IF ~left.ok THEN left
        ELSE binaryExpression(name, left, IF r = left.pos THEN NoMatch ELSE read["or", r, within])

\* Mutant: without a right operand, the left one is read a second time.
logExprTwice(read, t, i, within) ==
    LET left == read["and", i, within]
        again == read["and", i, within]
        r == operand(t, left.pos, "or")
        right == IF r = left.pos THEN NoMatch ELSE read["or", r, within]
    IN  IF ~left.ok THEN left
        ELSE IF right.ok THEN binaryExpression("or", left, right)
        ELSE Costing(again, left.work + right.work)

logExpr(read, t, i, within) ==
    LET left == read["and", i, within]
        r == operand(t, left.pos, "or")
    IN  IF ~left.ok THEN left
        ELSE binaryExpression("or", left, IF r = left.pos THEN NoMatch ELSE read["or", r, within])

andExpr(read, t, i, within) ==
    LET left == read["atom", i, within]
        r == operand(t, left.pos, "and")
    IN  IF ~left.ok THEN left
        ELSE binaryExpression("and", left, IF r = left.pos THEN NoMatch ELSE read["and", r, within])

Rules == {"or", "and", "atom", "group", "expr", "path", "value"}

newGrammar(t) ==
    LET read[rule \in Rules, i \in 1..(Len(t) + 1), within \in BOOLEAN] ==
            CASE rule = "or" -> logExpr(read, t, i, within)
              [] rule = "and" -> andExpr(read, t, i, within)
              [] rule = "atom" -> atom(read, t, i, within)
              [] rule = "group" -> parenGroup(read, t, i, within)
              [] rule = "expr" -> attributeExpression(read, t, i, within)
              [] rule = "path" -> attributePath(t, i)
              [] rule = "value" -> comparisonValue(t, i)
    IN  read

-----------------------------------------------------------------------------
(* What is read of a whole text: of a filter, of an attribute name and of  *)
(* the path of a PATCH operation.                                          *)

Whole(t, r) ==
    IF Len(t) > MaxInput THEN NoMatch
    ELSE IF r.ok /\ r.pos = Len(t) + 1 THEN r ELSE Costing(NoMatch, r.work)

Parse(t) == Whole(t, newGrammar(t)["or", 1, FALSE])

NoFilter == <<>>

NewAttrPath(t) ==
    LET r == Whole(t, attributePath(t, 1))
    IN  IF r.ok THEN splitAttrPath(r.node) ELSE <<>>

\* valuePath [subAttr] / attrPath; a sub-attribute comes after the filter.
NewPath(t) ==
    LET value == valuePath(newGrammar(t), t, 1)
        s == subAttribute(t, value.pos)
        plain == Whole(t, attributePath(t, 1))
        split == splitAttrPath(value.node.path)
    IN  IF value.ok
        THEN IF Whole(t, Matched(s, <<>>)).ok /\ split.sub = <<>>
             THEN [path |-> [split EXCEPT !.sub = SubSeq(t, value.pos + 1, s - 1)], filter |-> value.node.filter]
             ELSE <<>>
        ELSE IF plain.ok THEN [path |-> splitAttrPath(plain.node), filter |-> NoFilter] ELSE <<>>

-----------------------------------------------------------------------------
(* Stringify: the visitor that prints a tree. *)

RECURSIVE Stringify(_)
Stringify(n) ==
    CASE n.is \in {"and", "or"} ->
           <<"(">> \o Stringify(n.left) \o <<" ", n.is, " ">> \o Stringify(n.right) \o <<")">>
      [] n.is = "not" -> <<"not", " ", "(">> \o Stringify(n.operand) \o <<")">>
      [] n.is = "pr" -> n.attribute \o <<" ", "pr">>
      [] n.is = "comparison" -> n.attribute \o <<" ", n.operator, " ">> \o n.value.text
      [] n.is = "path" -> n.path \o <<"[">> \o Stringify(n.filter) \o <<"]">>
=============================================================================
