----------------------------- MODULE FilterText -----------------------------
(***************************************************************************)
(* The texts that clients send as filters and paths, and what it means to  *)
(* read them well.  A text starts as one a client may mean and is then     *)
(* edited, one fragment at a time, so that the texts next to a correct one *)
(* are covered as well.                                                    *)
(***************************************************************************)
EXTENDS FilterGrammar

CONSTANTS
    Texts,      \* what clients mean to send
    Fragments,  \* what an edit may put into it
    MaxEdits,   \* bound: edits of a text
    ShortText   \* bound: a longer text is edited once only

ASSUME TextAssumption ==
    /\ {MaxInput, MaxEdits, ShortText} \subseteq Nat
    /\ Decodable \subseteq Strings
    /\ Texts \subseteq Seq(STRING)

VARIABLES text, edits

textVars == <<text, edits>>

TextInit == text \in Texts /\ edits = 0

Edited(t) ==
    /\ edits < MaxEdits
    /\ edits > 0 => Len(text) <= ShortText
    /\ edits' = edits + 1
    /\ text' = t

Insert == \E i \in 1..(Len(text) + 1), f \in Fragments : Edited(InsertAt(text, i, f))
Delete == \E i \in DOMAIN text : Edited(RemoveAt(text, i))
Overwrite == \E i \in DOMAIN text, f \in Fragments : Edited([text EXCEPT ![i] = f])

TextNext == Insert \/ Delete \/ Overwrite

TextSpec == TextInit /\ [][TextNext]_textVars

-----------------------------------------------------------------------------
(* What the grammar of RFC 7644 allows, without an order of choices and    *)
(* without a parser: the trees of the text from i up to j.                 *)

Spaces(i, j) == i < j /\ \A n \in i..(j - 1) : text[n] = " "
Name(i, j) == i < j /\ text[i] \in Letters /\ \A n \in i..(j - 1) : text[n] \in NameChars
URI(i, j) ==
    /\ i < j /\ text[i] \in Letters /\ text[j - 1] # ":"
    /\ \A n \in i..(j - 1) : text[n] \in URIChars \cup {":"}
    /\ \A n \in (i + 1)..(j - 1) : ~(text[n] = ":" /\ text[n - 1] = ":")

Part(i, j) == SubSeq(text, i, j - 1)

\* [URI ":"] ATTRNAME *1subAttr, in every way the text can be taken for one.
AttrPaths(i, j) ==
    LET Starts == {<<i, <<>>>>} \cup
                    {<<k + 1, Part(i, k)>> : k \in {n \in i..(j - 1) : text[n] = ":" /\ URI(i, n)}}
        Simple == {[uri |-> s[2], name |-> Part(s[1], j), sub |-> <<>>] : s \in {u \in Starts : Name(u[1], j)}}
        Dotted(s) == {[uri |-> s[2], name |-> Part(s[1], d), sub |-> Part(d + 1, j)] :
                        d \in {n \in s[1]..(j - 1) : text[n] = "." /\ Name(s[1], n) /\ Name(n + 1, j)}}
    IN  Simple \cup UNION {Dotted(s) : s \in Starts}

Value(i, j) ==
    \/ j = i + 1 /\ text[i] \in Constants \cup Decodable
    \/ i < j /\ \A n \in i..(j - 1) : text[n] \in Digits
    \/ \E d \in (i + 1)..(j - 2) : /\ text[d] = "."
                                   /\ \A n \in (i..(j - 1)) \ {d} : text[n] \in Digits

\* Trees: what a node is, its attribute path, the text of its value, its subtrees.
LeafTree(is, path, txt) == [is |-> is, path |-> path, text |-> txt, parts |-> <<>>]
InnerTree(is, path, parts) == [is |-> is, path |-> path, text |-> <<>>, parts |-> parts]

\* The places of `word`, with spaces around it, between i and j: <<end of left, start of right>>.
Cuts(i, j, word) ==
    UNION {{<<a, b>> : a \in {k \in (i + 1)..(n - 1) : Spaces(k, n)},
                       b \in {k \in (n + 2)..(j - 1) : Spaces(n + 1, k)}}
           : n \in {k \in i..(j - 1) : text[k] = word}}

Expressions(i, j) ==
    UNION {LET o == Min({n \in k..(j - 1) : text[n] # " "} \cup {j})
           IN  {LeafTree("pr", p, <<>>) : p \in IF o = j - 1 /\ text[o] = "pr" THEN AttrPaths(i, k) ELSE {}}
                 \cup {LeafTree(text[o], p, Part(v, j)) : v \in {n \in (o + 2)..(j - 1) :
                            text[o] \in Comparators /\ Spaces(o + 1, n) /\ Value(n, j)}, p \in AttrPaths(i, k)}
           : k \in {n \in (i + 1)..(j - 1) : text[n] = " " /\ text[n - 1] # " "}}

\* The rules refer to each other through `trees`: trees["or", i, j, within] is Ors, and so on.
Ors(trees, i, j, within) ==
    trees["and", i, j, within] \cup
      UNION {{InnerTree("or", <<>>, <<l, r>>) : l \in trees["and", i, c[1], within], r \in trees["or", c[2], j, within]}
             : c \in Cuts(i, j, "or")}

Ands(trees, i, j, within) ==
    trees["atom", i, j, within] \cup
      UNION {{InnerTree("and", <<>>, <<l, r>>) : l \in trees["atom", i, c[1], within], r \in trees["and", c[2], j, within]}
             : c \in Cuts(i, j, "and")}

ValuePaths(trees, i, j) ==
    IF i >= j \/ text[j - 1] # "]" THEN {}
    ELSE UNION {{InnerTree("path", p, <<f>>) : p \in AttrPaths(i, k), f \in trees["or", k + 1, j - 1, TRUE]}
                : k \in {n \in (i + 1)..(j - 1) : text[n] = "["}}

Atoms(trees, i, j, within) ==
    IF i >= j THEN {}
    ELSE IF text[j - 1] = ")"
    THEN (IF text[i] = "(" THEN trees["or", i + 1, j - 1, within] ELSE {})
           \cup UNION {{InnerTree("not", <<>>, <<f>>) : f \in trees["or", k + 1, j - 1, within]}
                       : k \in {n \in (i + 1)..(j - 1) : text[i] = "not" /\ text[n] = "("
                                                          /\ (n = i + 1 \/ Spaces(i + 1, n))}}
    ELSE IF text[j - 1] = "]" THEN (IF within THEN {} ELSE ValuePaths(trees, i, j))
    ELSE Expressions(i, j)

Trees ==
    LET places == 1..(Len(text) + 1)
        trees[rule \in {"or", "and", "atom"}, i \in places, j \in places, within \in BOOLEAN] ==
            CASE rule = "or" -> Ors(trees, i, j, within)
              [] rule = "and" -> Ands(trees, i, j, within)
              [] rule = "atom" -> Atoms(trees, i, j, within)
    IN  trees

\* The trees of the parser in the same form.
RECURSIVE Meant(_)
Meant(n) ==
    CASE n.is \in {"and", "or"} -> InnerTree(n.is, <<>>, <<Meant(n.left), Meant(n.right)>>)
      [] n.is = "not" -> InnerTree("not", <<>>, <<Meant(n.operand)>>)
      [] n.is = "pr" -> LeafTree("pr", splitAttrPath(n.attribute), <<>>)
      [] n.is = "comparison" -> LeafTree(n.operator, splitAttrPath(n.attribute), n.value.text)
      [] n.is = "path" -> InnerTree("path", splitAttrPath(n.path), <<Meant(n.filter)>>)

Filters == IF Len(text) <= MaxInput THEN Trees["or", 1, Len(text) + 1, FALSE] ELSE {}

\* attrPath / valuePath [subAttr], where the path before a filter names no sub-attribute.
PatchPaths ==
    LET end == Len(text) + 1
        Subs == {<<end, <<>>>>} \cup {<<d, Part(d + 1, end)>> :
                    d \in {n \in 2..Len(text) : text[n] = "." /\ text[n - 1] = "]" /\ Name(n + 1, end)}}
        Selected == UNION {{<<s, f>> : f \in {g \in ValuePaths(Trees, 1, s[1]) : g.path.sub = <<>>}}
                           : s \in Subs}
    IN  IF Len(text) > MaxInput THEN {}
        ELSE {<<p, <<>>>> : p \in AttrPaths(1, end)}
               \cup {<<[x[2].path EXCEPT !.sub = x[1][2]], x[2].parts>> : x \in Selected}

-----------------------------------------------------------------------------
(* Properties. *)

(***************************************************************************)
(* A text is read exactly if the grammar allows it, in the one way that it *)
(* allows, with "and" before "or": no choice taken early, no keyword found *)
(* in a name and no operand given back loses a text or changes what it     *)
(* means.  And a tree is printed so that it is read again as the same tree *)
(* if the print, which adds groups, is not too long (grammar.go, peg,      *)
(* path.go NewPath, stringify.go).                                         *)
(***************************************************************************)
ReadsExactly ==
    LET read == Parse(text)
        path == NewPath(text)
        printed == IF read.ok THEN Stringify(read.node) ELSE <<>>
    IN  /\ Filters = IF read.ok THEN {Meant(read.node)} ELSE {}
        /\ read.ok /\ Len(printed) <= MaxInput => Parse(printed).node = read.node
        /\ PatchPaths = IF path = <<>> THEN {}
                        ELSE {<<path.path, IF path.filter = NoFilter THEN <<>> ELSE <<Meant(path.filter)>>>>}

(***************************************************************************)
(* Reading a text takes no more than one atom per position, also when it   *)
(* is refused: nothing is read again after a choice or an operand has      *)
(* failed, however deep the groups nest (choice.go, grammar.go operand and *)
(* parenGroup).                                                            *)
(***************************************************************************)
WorkLinear == Parse(text).work <= Len(text) + 1
=============================================================================
