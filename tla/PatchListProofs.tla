-------------------------- MODULE PatchListProofs --------------------------
(***************************************************************************)
(* What the operations of a PATCH request keep true of a multi-valued      *)
(* attribute, for every list, however long, and any number of operations.  *)
(***************************************************************************)
EXTENDS PatchList, SelectionProofs, FiniteSetTheorems

LEMMA Several ==
    ASSUME NEW S, IsFiniteSet(S)
    PROVE  Cardinality(S) > 1 <=> \E x, y \in S : x # y
  <1>1. Cardinality(S) \in Nat
    BY FS_CardinalityType
  <1>2. Cardinality(S) = 0 <=> S = {}
    BY FS_EmptySet
  <1>3. Cardinality(S) = 1 <=> \E x : S = {x}
    BY FS_Singleton
  <1>4. ASSUME Cardinality(S) > 1
        PROVE  \E x, y \in S : x # y
    <2>1. S # {}
      BY <1>2, <1>4
    <2>2. PICK x : x \in S
      BY <2>1
    <2>3. S # {x}
      BY <1>3, <1>4
    <2> QED
      BY <2>2, <2>3
  <1>5. ASSUME NEW x \in S, NEW y \in S, x # y
        PROVE  Cardinality(S) > 1
    <2>1. Cardinality(S) # 0
      BY <1>2, <1>5
    <2>2. Cardinality(S) # 1
      BY <1>3, <1>5
    <2> QED
      BY <1>1, <2>1, <2>2
  <1> QED
    BY <1>4, <1>5

LEMMA PositionsFinite ==
    ASSUME NEW s \in Seq(Element)
    PROVE  /\ DOMAIN s = 1 .. Len(s)
           /\ Len(s) \in Nat
           /\ \A S \in SUBSET DOMAIN s : IsFiniteSet(S) /\ Cardinality(S) \in Nat
  <1>1. DOMAIN s = 1 .. Len(s) /\ Len(s) \in Nat
    OBVIOUS
  <1>2. IsFiniteSet(1 .. Len(s))
    BY <1>1, FS_Interval
  <1>3. ASSUME NEW S \in SUBSET DOMAIN s
        PROVE  IsFiniteSet(S) /\ Cardinality(S) \in Nat
    <2>1. IsFiniteSet(S)
      BY <1>1, <1>2, FS_Subset
    <2> QED
      BY <2>1, FS_CardinalityType
  <1> QED
    BY <1>1, <1>3

LEMMA SameElements ==
    ASSUME NEW s \in Seq(Element), NEW t \in Seq(Element), Len(s) = Len(t),
           \A i \in 1 .. Len(t) : s[i] = t[i]
    PROVE  s = t
  OBVIOUS

\* Two elements of a list are primary.
Contest(s) == \E i, j \in DOMAIN s : i # j /\ s[i].primary /\ s[j].primary

LEMMA ContestCounted ==
    ASSUME NEW s \in Seq(Element)
    PROVE  Contest(s) <=> Cardinality(Primaries(s)) > 1
  <1>1. Primaries(s) \in SUBSET DOMAIN s
    BY DEF Primaries
  <1>2. IsFiniteSet(Primaries(s))
    BY <1>1, PositionsFinite
  <1>3. Cardinality(Primaries(s)) > 1 <=> \E i, j \in Primaries(s) : i # j
    BY <1>2, Several
  <1> QED
    BY <1>3, Zenon DEF Contest, Primaries

-----------------------------------------------------------------------------
(* Sets of values.                                                         *)

LEMMA JoinedIs ==
    ASSUME NEW a \in Attributes, NEW s \in Seq(Element)
    PROVE  /\ joined(a, s) \in Seq(Element)
           /\ Len(joined(a, s)) = Len(s)
           /\ \A i \in DOMAIN s : /\ joined(a, s)[i].id = s[i].id
                                  /\ joined(a, s)[i].lock = s[i].lock
                                  /\ Key(a, joined(a, s)[i]) = Key(a, s[i])
                                  /\ ~ a.keyed => joined(a, s)[i] = s[i]
  <1> DEFINE B(i) == \E j \in i .. Len(s) : s[j].id = s[i].id /\ s[j].primary
             e(i) == IF a.keyed /\ s[i].id # None THEN [s[i] EXCEPT !.primary = B(i)] ELSE s[i]
  <1>1. joined(a, s) = [i \in 1 .. Len(s) |-> e(i)] /\ DOMAIN s = 1 .. Len(s)
    BY DEF joined
  <1>2. ASSUME NEW i \in DOMAIN s
        PROVE  e(i) \in Element /\ e(i).id = s[i].id /\ e(i).lock = s[i].lock
                 /\ (~ a.keyed => e(i) = s[i])
    <2>1. s[i] \in Element
      OBVIOUS
    <2>2. B(i) \in BOOLEAN
      OBVIOUS
    <2> HIDE DEF B
    <2> QED
      BY <2>1, <2>2 DEF Element
  <1> HIDE DEF e
  <1>3. joined(a, s) \in Seq(Element) /\ Len(joined(a, s)) = Len(s)
    BY <1>1, <1>2
  <1>4. ASSUME NEW i \in DOMAIN s
        PROVE  joined(a, s)[i] = e(i)
    BY <1>1
  <1> QED
    BY <1>2, <1>3, <1>4 DEF Key

\* Unique leaves no repeat, and no value that was not there.
LEMMA UniqueIs ==
    ASSUME NEW a \in Attributes, NEW s \in Seq(Element)
    PROVE  /\ Unique(a, s) \in Seq(Element)
           /\ Len(Unique(a, s)) <= Len(s)
           /\ ~ Repeats(a, Unique(a, s))
           /\ \A k \in DOMAIN Unique(a, s) : \E i \in DOMAIN s :
                /\ Key(a, Unique(a, s)[k]) = Key(a, s[i])
                /\ Unique(a, s)[k].id = s[i].id /\ Unique(a, s)[k].lock = s[i].lock
                /\ ~ a.keyed => Unique(a, s)[k] = s[i]
  <1>1. PICK j \in Seq(Element) : j = joined(a, s)
    BY JoinedIs
  <1>2. PICK P \in SUBSET (1 .. Len(s)) : P = firsts(a, s)
    <2>1. firsts(a, s) \subseteq DOMAIN s
      BY DEF firsts
    <2> QED
      BY <2>1
  <1>3. PICK u : u = Unique(a, s)
    OBVIOUS
  <1>4. u \in Seq(Element) /\ Selection(u, j, P, Len(s))
    BY <1>1, <1>2, <1>3, JoinedIs, Selecting DEF Unique
  <1>5. PICK h : Traces(h, u, j, P, Len(s))
    BY <1>4 DEF Selection
  <1>6. ASSUME NEW k \in 1 .. Len(u)
        PROVE  /\ h[k] \in P /\ h[k] \in 1 .. Len(s)
               /\ u[k] = j[h[k]]
               /\ Key(a, u[k]) = Key(a, s[h[k]])
               /\ u[k].id = s[h[k]].id /\ u[k].lock = s[h[k]].lock
               /\ ~ a.keyed => u[k] = s[h[k]]
    <2>1. h[k] \in P /\ h[k] \in 1 .. Len(s) /\ u[k] = j[h[k]]
      BY <1>2, <1>5 DEF Traces
    <2> QED
      BY <1>1, <2>1, JoinedIs
  <1>7. ASSUME NEW k \in 1 .. Len(u), NEW l \in 1 .. Len(u), k < l, Key(a, u[k]) # None
        PROVE  Key(a, u[k]) # Key(a, u[l])
    <2>1. h[k] \in 1 .. h[l] - 1
      BY <1>5, <1>6, <1>7, SMTT(30) DEF Traces
    <2>2. h[l] \in firsts(a, s)
      BY <1>2, <1>6
    <2> QED
      BY <1>6, <1>7, <2>1, <2>2 DEF firsts
  <1>8. ~ Repeats(a, u)
    <2> SUFFICES ASSUME NEW k \in 1 .. Len(u), NEW l \in 1 .. Len(u), k # l,
                        Key(a, u[k]) # None, Key(a, u[k]) = Key(a, u[l])
                 PROVE  FALSE
      BY <1>4 DEF Repeats
    <2>1. k < l \/ l < k
      OBVIOUS
    <2> QED
      BY <1>7, <2>1
  <1>9. Len(u) <= Len(s)
    BY <1>4 DEF Selection
  <1>10. ASSUME NEW k \in DOMAIN u
         PROVE  \E i \in DOMAIN s : /\ Key(a, u[k]) = Key(a, s[i])
                                    /\ u[k].id = s[i].id /\ u[k].lock = s[i].lock
                                    /\ ~ a.keyed => u[k] = s[i]
    <2>1. k \in 1 .. Len(u) /\ DOMAIN s = 1 .. Len(s)
      BY <1>4
    <2>2. PICK i \in DOMAIN s : i = h[k]
      BY <1>6, <2>1
    <2>3. /\ Key(a, u[k]) = Key(a, s[i])
          /\ u[k].id = s[i].id /\ u[k].lock = s[i].lock
          /\ ~ a.keyed => u[k] = s[i]
      BY <1>6, <2>1, <2>2
    <2> QED
      BY <2>3
  <1> QED
    BY <1>3, <1>4, <1>8, <1>9, <1>10

\* A list of values of s that the index does not know.
NotIndexed(f, ix, s) ==
    /\ f \in Seq(Element)
    /\ Len(f) <= Len(s)
    /\ \A k \in DOMAIN f : /\ Key(attr, f[k]) \notin ix.keys
                           /\ \E i \in DOMAIN s : f[k] = s[i]

\* Elements that a set of keys does not hold.
LEMMA FreshIs ==
    ASSUME NEW s \in Seq(Element), NEW ix
    PROVE  NotIndexed(fresh(ix, s), ix, s)
  <1> DEFINE P == {i \in DOMAIN s : Key(attr, s[i]) \notin ix.keys}
  <1>1. PICK u : u = fresh(ix, s)
    OBVIOUS
  <1>2. u \in Seq(Element) /\ Selection(u, s, P, Len(s))
    BY <1>1, Selecting DEF fresh
  <1>3. PICK h : Traces(h, u, s, P, Len(s))
    BY <1>2 DEF Selection
  <1>4. ASSUME NEW k \in 1 .. Len(u)
        PROVE  h[k] \in P /\ u[k] = s[h[k]]
    BY <1>3 DEF Traces
  <1>5. Len(u) <= Len(s)
    BY <1>2 DEF Selection
  <1> QED
    BY <1>1, <1>2, <1>4, <1>5 DEF NotIndexed

-----------------------------------------------------------------------------
(***************************************************************************)
(* The inductive invariant.  An index is never larger than the list, so    *)
(* one that an append has made stale has another size; simple values are   *)
(* never primary; and while the request runs its budgets are not           *)
(* overdrawn, so that a charge made first bounds the work that follows.    *)
(***************************************************************************)
Index == [keys : SUBSET (Ids \cup {None} \cup Element), size : Int, primaries : SUBSET Nat]

Bill == [spent : Nat, output : Nat, checked : Nat, written : Nat]

Outcome == {"open", "done", "tooLarge", "mutability", "noTarget", "invalidPath", "invalidValue"}

TypeOK ==
    /\ attr \in Attributes
    /\ list \in Seq(Element)
    /\ indexes \in [Spellings -> Index]
    /\ bill \in Bill
    /\ status \in Outcome
    /\ ops \in Nat
    /\ contested \in BOOLEAN
    /\ repeated \in BOOLEAN

Indexed(xs, a, s) ==
    \A sp \in Spellings :
        /\ xs[sp].size <= Len(s)
        /\ xs[sp].size = Len(s) => xs[sp] = newIndex(a, s)

NeverPrimary(a, s) == a.simple => \A i \in DOMAIN s : ~ s[i].primary

Afforded(b) ==
    /\ MaxEvaluations > 0 => b.checked <= MaxEvaluations
    /\ MaxWriteBytes > 0 => b.written <= MaxWriteBytes

Covered(b) == b \in Bill /\ b.checked <= b.spent /\ b.written <= b.output

Solvent(b) == Covered(b) /\ ~ overdrawn(b)

PatchInv ==
    /\ TypeOK
    /\ Indexed(indexes, attr, list)
    /\ NeverPrimary(attr, list)
    /\ Contest(list) => contested
    /\ NoRepeats
    /\ Covered(bill)
    /\ Afforded(bill)
    /\ status = "open" => ~ overdrawn(bill)

LEMMA Refuses ==
    ASSUME PatchInv, NEW why \in Outcome, why # "open", NEW b, Covered(b), Afforded(b),
           Refuse(why, b)
    PROVE  PatchInv'
  <1>1. b \in Bill
    BY DEF Covered
  <1>2. TypeOK'
    BY <1>1 DEF PatchInv, TypeOK, Refuse
  <1>3. status' # "open" /\ Covered(bill)' /\ Afforded(bill)'
    BY DEF Refuse, Covered, Afforded
  <1>4. UNCHANGED <<attr, list, indexes, contested, repeated>>
    BY DEF Refuse
  <1>5. /\ Indexed(indexes, attr, list)'
        /\ NeverPrimary(attr, list)'
        /\ (Contest(list) => contested)'
        /\ NoRepeats'
    BY <1>4 DEF PatchInv, Indexed, NeverPrimary, Contest, NoRepeats, Filterable
  <1> QED
    BY <1>2, <1>3, <1>5 DEF PatchInv

\* What an operation that takes effect has to show.
LEMMA Applies ==
    ASSUME PatchInv,
           NEW after \in Seq(Element), NEW xs \in [Spellings -> Index], NEW b, NEW promoted,
           Indexed(xs, attr, after), NeverPrimary(attr, after), Solvent(b),
           Contest(after) => Cardinality(promoted) > 1 \/ (promoted = {} /\ contested),
           Apply(after, xs, b, promoted), repeated' \in BOOLEAN,
           Filterable /\ ~ repeated' => ~ Repeats(attr, after)
    PROVE  PatchInv'
  <1>1. b \in Bill
    BY DEF Covered, Solvent
  <1>2. /\ attr' = attr /\ list' = after /\ indexes' = xs /\ bill' = b /\ status' = status
        /\ ops' = ops + 1
        /\ contested' = (Cardinality(promoted) > 1 \/ (promoted = {} /\ contested))
    BY DEF Apply
  <1>3. contested' \in BOOLEAN
    BY <1>2
  <1>4. TypeOK'
    BY <1>1, <1>2, <1>3 DEF PatchInv, TypeOK
  <1>5. Covered(bill)' /\ Afforded(bill)' /\ ~ overdrawn(bill)'
    BY <1>2, PatchAssumption DEF Covered, Solvent, Afforded, overdrawn, Bill
  <1>6. Indexed(indexes, attr, list)' /\ NeverPrimary(attr, list)'
    BY <1>2 DEF Indexed, NeverPrimary
  <1>7. (Contest(list) => contested)'
    BY <1>2 DEF Contest
  <1>8. NoRepeats'
    BY <1>2 DEF NoRepeats, Filterable
  <1> QED
    BY <1>4, <1>5, <1>6, <1>7, <1>8 DEF PatchInv

LEMMA ClearedIs ==
    /\ Cleared \in [Spellings -> Index]
    /\ \A a \in Attributes, s \in Seq(Element) : Indexed(Cleared, a, s)
  <1>1. NoIndex \in Index
    BY DEF NoIndex, Index
  <1>2. \A sp \in Spellings : Cleared[sp].size = -1
    BY DEF Cleared, NoIndex
  <1>3. ASSUME NEW a \in Attributes, NEW s \in Seq(Element)
        PROVE  Indexed(Cleared, a, s)
    <2>1. Len(s) \in Nat
      OBVIOUS
    <2> QED
      BY <1>2, <2>1 DEF Indexed
  <1> QED
    BY <1>1, <1>3 DEF Cleared

-----------------------------------------------------------------------------
(* The budgets.                                                            *)

LEMMA ChargedBytes ==
    ASSUME NEW b, Solvent(b), NEW n \in Nat, NEW k \in Nat, k <= n
    PROVE  /\ Covered(chargeBytes(b, n)) /\ Afforded(chargeBytes(b, n))
           /\ ~ overdrawn(chargeBytes(b, n)) => Solvent(writing(chargeBytes(b, n), k))
  <1>1. b \in Bill
    BY DEF Solvent, Covered
  <1>2. /\ chargeBytes(b, n) \in Bill
        /\ chargeBytes(b, n).spent = b.spent
        /\ chargeBytes(b, n).output = b.output + n
        /\ chargeBytes(b, n).checked = b.checked
        /\ chargeBytes(b, n).written = b.written
    BY <1>1 DEF chargeBytes, Bill
  <1>3. PICK c \in Bill : c = chargeBytes(b, n)
    BY <1>2
  <1>4. /\ writing(c, k) \in Bill
        /\ writing(c, k).spent = c.spent
        /\ writing(c, k).output = c.output
        /\ writing(c, k).checked = c.checked
        /\ writing(c, k).written = c.written + k
    BY <1>3 DEF writing, Bill
  <1> QED
    BY <1>1, <1>2, <1>3, <1>4, PatchAssumption DEF Solvent, Covered, Afforded, overdrawn, Bill

LEMMA ChargedClauses ==
    ASSUME NEW b, Solvent(b), NEW n \in Nat
    PROVE  /\ Covered(charge(b, n)) /\ Afforded(charge(b, n))
           /\ Covered(checking(charge(b, n), n))
           /\ ~ overdrawn(charge(b, n)) => Solvent(checking(charge(b, n), n))
           /\ overdrawn(checking(charge(b, n), n)) <=> overdrawn(charge(b, n))
  <1>1. b \in Bill
    BY DEF Solvent, Covered
  <1>2. /\ charge(b, n) \in Bill
        /\ charge(b, n).spent = b.spent + n
        /\ charge(b, n).output = b.output
        /\ charge(b, n).checked = b.checked
        /\ charge(b, n).written = b.written
    BY <1>1 DEF charge, Bill
  <1>3. PICK c \in Bill : c = charge(b, n)
    BY <1>2
  <1>4. /\ checking(c, n) \in Bill
        /\ checking(c, n).spent = c.spent
        /\ checking(c, n).output = c.output
        /\ checking(c, n).checked = c.checked + n
        /\ checking(c, n).written = c.written
    BY <1>3 DEF checking, Bill
  <1> QED
    BY <1>1, <1>2, <1>3, <1>4, PatchAssumption DEF Solvent, Covered, Afforded, overdrawn, Bill

LEMMA OpenIsSolvent ==
    ASSUME PatchInv, Open
    PROVE  Solvent(bill) /\ status = "open" /\ attr \in Attributes /\ list \in Seq(Element)
  BY DEF PatchInv, TypeOK, Open, Solvent

-----------------------------------------------------------------------------
(* Add: what is appended, and the index after it.                          *)

LEMMA Concatenated ==
    ASSUME NEW s \in Seq(Element), NEW t \in Seq(Element)
    PROVE  /\ s \o t \in Seq(Element)
           /\ Len(s \o t) = Len(s) + Len(t)
           /\ \A i \in DOMAIN s : i \in DOMAIN (s \o t) /\ (s \o t)[i] = s[i]
           /\ \A k \in DOMAIN t : Len(s) + k \in DOMAIN (s \o t) /\ (s \o t)[Len(s) + k] = t[k]
           /\ \A i \in DOMAIN (s \o t) : i \in DOMAIN s \/ \E k \in DOMAIN t : i = Len(s) + k
  <1>1. /\ s \o t \in Seq(Element)
        /\ Len(s \o t) = Len(s) + Len(t)
        /\ DOMAIN s = 1 .. Len(s) /\ DOMAIN t = 1 .. Len(t) /\ DOMAIN (s \o t) = 1 .. Len(s) + Len(t)
        /\ Len(s) \in Nat /\ Len(t) \in Nat
    OBVIOUS
  <1>2. ASSUME NEW i \in DOMAIN s
        PROVE  i \in DOMAIN (s \o t) /\ (s \o t)[i] = s[i]
    BY <1>1
  <1>3. ASSUME NEW k \in DOMAIN t
        PROVE  Len(s) + k \in DOMAIN (s \o t) /\ (s \o t)[Len(s) + k] = t[k]
    BY <1>1
  <1>4. ASSUME NEW i \in DOMAIN (s \o t), i \notin DOMAIN s
        PROVE  \E k \in DOMAIN t : i = Len(s) + k
    <2>1. i - Len(s) \in DOMAIN t /\ i = Len(s) + (i - Len(s))
      BY <1>1, <1>4
    <2> QED
      BY <2>1
  <1> QED
    BY <1>1, <1>2, <1>3, <1>4

LEMMA NewIndexIs ==
    ASSUME NEW a \in Attributes, NEW s \in Seq(Element)
    PROVE  newIndex(a, s) \in Index /\ newIndex(a, s).size = Len(s)
  <1>1. ASSUME NEW i \in DOMAIN s
        PROVE  Key(a, s[i]) \in Ids \cup {None} \cup Element
    <2>1. s[i] \in Element
      OBVIOUS
    <2>2. s[i].id \in Ids \cup {None}
      BY <2>1 DEF Element
    <2> QED
      BY <2>1, <2>2 DEF Key
  <1>2. keysOf(a, s) \in SUBSET (Ids \cup {None} \cup Element)
    BY <1>1 DEF keysOf
  <1>3. Primaries(s) \in SUBSET Nat
    <2>1. DOMAIN s = 1 .. Len(s) /\ Len(s) \in Nat
      OBVIOUS
    <2> QED
      BY <2>1 DEF Primaries
  <1> QED
    BY <1>2, <1>3 DEF newIndex, Index

\* The index that an add uses is exact, whichever spelling asks for it.
LEMMA LookupExact ==
    ASSUME PatchInv, NEW sp \in Spellings
    PROVE  lookup(sp) = newIndex(attr, list)
  BY DEF PatchInv, Indexed, lookup

LEMMA DemotedIs ==
    ASSUME NEW s \in Seq(Element), NEW written
    PROVE  /\ demote(s, written) \in Seq(Element)
           /\ Len(demote(s, written)) = Len(s)
           /\ DOMAIN demote(s, written) = DOMAIN s
           /\ \A i \in DOMAIN s :
                /\ demote(s, written)[i].id = s[i].id
                /\ demote(s, written)[i].lock = s[i].lock
                /\ i \in written => demote(s, written)[i] = s[i]
                /\ i \notin written => ~ demote(s, written)[i].primary
  <1> DEFINE e(i) == IF i \in written THEN s[i] ELSE [s[i] EXCEPT !.primary = FALSE]
  <1>1. demote(s, written) = [i \in 1 .. Len(s) |-> e(i)] /\ DOMAIN s = 1 .. Len(s)
    BY DEF demote
  <1>2. ASSUME NEW i \in DOMAIN s
        PROVE  /\ e(i) \in Element /\ e(i).id = s[i].id /\ e(i).lock = s[i].lock
               /\ i \in written => e(i) = s[i]
               /\ i \notin written => ~ e(i).primary
    <2>1. s[i] \in Element
      OBVIOUS
    <2> QED
      BY <2>1 DEF Element
  <1> HIDE DEF e
  <1>3. /\ demote(s, written) \in Seq(Element) /\ Len(demote(s, written)) = Len(s)
        /\ DOMAIN demote(s, written) = DOMAIN s
    BY <1>1, <1>2
  <1>4. \A i \in DOMAIN s : demote(s, written)[i] = e(i)
    BY <1>1
  <1> QED
    BY <1>2, <1>3, <1>4

\* What an add appends: nothing that the list holds, and nothing twice.
LEMMA AddedIs ==
    ASSUME PatchInv, NEW incoming \in Incoming(attr), NEW ix, ix = newIndex(attr, list),
           NEW added, added = Unique(attr, fresh(ix, incoming))
    PROVE  /\ added \in Seq(Element)
           /\ Len(added) <= Len(incoming)
           /\ ~ Repeats(attr, added)
           /\ NeverPrimary(attr, added)
           /\ \A k \in DOMAIN added : Key(attr, added[k]) \notin keysOf(attr, list)
  <1>1. attr \in Attributes /\ list \in Seq(Element)
    BY DEF PatchInv, TypeOK
  <1>2. incoming \in Seq(Element) /\ NeverPrimary(attr, incoming)
    BY <1>1, PatchAssumption DEF NeverPrimary
  <1>3. PICK f \in Seq(Element) :
           /\ f = fresh(ix, incoming)
           /\ Len(f) <= Len(incoming)
           /\ \A k \in DOMAIN f : /\ Key(attr, f[k]) \notin ix.keys
                                  /\ \E i \in DOMAIN incoming : f[k] = incoming[i]
    <2>1. NotIndexed(fresh(ix, incoming), ix, incoming)
      BY <1>2, FreshIs, Zenon
    <2> QED
      BY <2>1, Zenon DEF NotIndexed
  <1>4. /\ added \in Seq(Element)
        /\ Len(added) <= Len(f)
        /\ ~ Repeats(attr, added)
        /\ \A k \in DOMAIN added : \E i \in DOMAIN f :
             Key(attr, added[k]) = Key(attr, f[i]) /\ (~ attr.keyed => added[k] = f[i])
    BY <1>1, <1>3, UniqueIs
  <1>5. Len(added) <= Len(incoming)
    BY <1>2, <1>3, <1>4
  <1>6. ASSUME NEW k \in DOMAIN added
        PROVE  Key(attr, added[k]) \notin keysOf(attr, list)
    <2>1. ix.keys = keysOf(attr, list)
      BY DEF newIndex
    <2> QED
      BY <1>3, <1>4, <2>1
  <1>7. NeverPrimary(attr, added)
    <2> SUFFICES ASSUME attr.simple, NEW k \in DOMAIN added
                 PROVE  ~ added[k].primary
      BY DEF NeverPrimary
    <2>1. ~ attr.keyed
      BY <1>1, PatchAssumption
    <2>2. PICK i \in DOMAIN f : added[k] = f[i]
      BY <1>4, <2>1
    <2>3. PICK j \in DOMAIN incoming : f[i] = incoming[j]
      BY <1>3
    <2>4. ~ incoming[j].primary
      BY <1>2 DEF NeverPrimary
    <2> QED
      BY <2>2, <2>3, <2>4
  <1> QED
    BY <1>4, <1>5, <1>6, <1>7

\* What the step of an add has in hand: the list, what is appended, and the result.
Appends(added, kept, after) ==
    /\ added \in Seq(Element)
    /\ NeverPrimary(attr, added)
    /\ ~ Repeats(attr, added)
    /\ \A k \in DOMAIN added : Key(attr, added[k]) \notin keysOf(attr, list)
    /\ kept = IF promotes(added) THEN demote(list, DOMAIN list \ Primaries(list)) ELSE list
    /\ after = kept \o added

\* The list after an add: every element held, then every element added.
Extended(added, after) ==
    /\ list \in Seq(Element) /\ added \in Seq(Element) /\ after \in Seq(Element)
    /\ Len(after) = Len(list) + Len(added)
    /\ \A i \in DOMAIN list :
         /\ i \in DOMAIN after
         /\ after[i].id = list[i].id /\ after[i].lock = list[i].lock
         /\ promotes(added) => ~ after[i].primary
         /\ ~ promotes(added) => after[i] = list[i]
    /\ \A k \in DOMAIN added : Len(list) + k \in DOMAIN after /\ after[Len(list) + k] = added[k]
    /\ \A i \in DOMAIN after :
         i \in DOMAIN list \/ \E k \in DOMAIN added : i = Len(list) + k /\ after[i] = added[k]

LEMMA AppendedIs ==
    ASSUME PatchInv, NEW added, NEW kept, NEW after, Appends(added, kept, after)
    PROVE  Extended(added, after)
  <1>0. /\ kept = IF promotes(added) THEN demote(list, DOMAIN list \ Primaries(list)) ELSE list
        /\ after = kept \o added
    BY DEF Appends
  <1>1. list \in Seq(Element) /\ added \in Seq(Element)
    BY DEF PatchInv, TypeOK, Appends
  <1>2. /\ kept \in Seq(Element) /\ Len(kept) = Len(list) /\ DOMAIN kept = DOMAIN list
        /\ \A i \in DOMAIN list :
             /\ kept[i].id = list[i].id /\ kept[i].lock = list[i].lock
             /\ promotes(added) => ~ kept[i].primary
             /\ ~ promotes(added) => kept[i] = list[i]
    <2>1. CASE ~ promotes(added)
      BY <1>0, <1>1, <2>1
    <2>2. CASE promotes(added)
      <3>1. PICK w : w = DOMAIN list \ Primaries(list)
        OBVIOUS
      <3>2. kept = demote(list, w)
        BY <1>0, <2>2, <3>1
      <3>3. ASSUME NEW i \in DOMAIN list
            PROVE  ~ kept[i].primary
        <4>1. CASE i \in w
          <5>1. kept[i] = list[i] /\ i \notin Primaries(list)
            BY <1>1, <3>1, <3>2, <4>1, DemotedIs
          <5> QED
            BY <5>1 DEF Primaries
        <4>2. CASE i \notin w
          BY <1>1, <3>2, <4>2, DemotedIs
        <4> QED
          BY <4>1, <4>2
      <3> QED
        BY <1>1, <2>2, <3>2, <3>3, DemotedIs
    <2> QED
      BY <2>1, <2>2
  <1>3. /\ after \in Seq(Element)
        /\ Len(after) = Len(list) + Len(added)
        /\ \A i \in DOMAIN list : i \in DOMAIN after /\ after[i] = kept[i]
        /\ \A k \in DOMAIN added : Len(list) + k \in DOMAIN after /\ after[Len(list) + k] = added[k]
        /\ \A i \in DOMAIN after : i \in DOMAIN list \/ \E k \in DOMAIN added : i = Len(list) + k
    <2>1. /\ kept \o added \in Seq(Element)
          /\ Len(kept \o added) = Len(kept) + Len(added)
          /\ \A i \in DOMAIN kept : i \in DOMAIN (kept \o added) /\ (kept \o added)[i] = kept[i]
          /\ \A k \in DOMAIN added : /\ Len(kept) + k \in DOMAIN (kept \o added)
                                    /\ (kept \o added)[Len(kept) + k] = added[k]
          /\ \A i \in DOMAIN (kept \o added) :
                i \in DOMAIN kept \/ \E k \in DOMAIN added : i = Len(kept) + k
      BY <1>1, <1>2, Concatenated
    <2> QED
      BY <1>0, <1>2, <2>1, ZenonT(60)
  <1>4. ASSUME NEW i \in DOMAIN list
        PROVE  /\ i \in DOMAIN after
               /\ after[i].id = list[i].id /\ after[i].lock = list[i].lock
               /\ promotes(added) => ~ after[i].primary
               /\ ~ promotes(added) => after[i] = list[i]
    BY <1>2, <1>3, Zenon
  <1>5. ASSUME NEW i \in DOMAIN after
        PROVE  i \in DOMAIN list \/ \E k \in DOMAIN added : i = Len(list) + k /\ after[i] = added[k]
    BY <1>3, Zenon
  <1> QED
    BY <1>1, <1>3, <1>4, <1>5, Zenon DEF Extended

\* The primary elements after an add: those it appended, or those it found.
LEMMA AppendedPrimaries ==
    ASSUME NEW added, NEW after, Extended(added, after)
    PROVE  Primaries(after) = IF promotes(added)
                              THEN {Len(list) + k : k \in Primaries(added)} ELSE Primaries(list)
  <1>1. CASE promotes(added)
    <2>1. ASSUME NEW i \in Primaries(after)
          PROVE  \E k \in Primaries(added) : i = Len(list) + k
      <3>1. i \in DOMAIN after /\ after[i].primary
        BY DEF Primaries
      <3>2. i \notin DOMAIN list
        BY <1>1, <3>1 DEF Extended
      <3>3. PICK k \in DOMAIN added : i = Len(list) + k /\ after[i] = added[k]
        BY <3>1, <3>2 DEF Extended
      <3>4. k \in Primaries(added)
        BY <3>1, <3>3 DEF Primaries
      <3> QED
        BY <3>3, <3>4
    <2>2. ASSUME NEW k \in Primaries(added)
          PROVE  Len(list) + k \in Primaries(after)
      <3>1. k \in DOMAIN added /\ added[k].primary
        BY DEF Primaries
      <3>2. Len(list) + k \in DOMAIN after /\ after[Len(list) + k] = added[k]
        BY <3>1 DEF Extended
      <3> QED
        BY <3>1, <3>2 DEF Primaries
    <2>3. Primaries(after) = {Len(list) + k : k \in Primaries(added)}
      BY <2>1, <2>2, Zenon
    <2> QED
      BY <1>1, <2>3
  <1>2. CASE ~ promotes(added)
    <2>1. \A k \in DOMAIN added : ~ added[k].primary
      BY <1>2 DEF promotes, Primaries
    <2>2. ASSUME NEW i \in Primaries(after)
          PROVE  i \in Primaries(list)
      <3>1. i \in DOMAIN after /\ after[i].primary
        BY DEF Primaries
      <3>2. i \in DOMAIN list
        BY <2>1, <3>1, Zenon DEF Extended
      <3>3. after[i] = list[i]
        BY <1>2, <3>2 DEF Extended
      <3> QED
        BY <3>1, <3>2, <3>3 DEF Primaries
    <2>3. ASSUME NEW i \in Primaries(list)
          PROVE  i \in Primaries(after)
      <3>1. i \in DOMAIN list /\ list[i].primary
        BY DEF Primaries
      <3>2. i \in DOMAIN after /\ after[i] = list[i]
        BY <1>2, <3>1 DEF Extended
      <3> QED
        BY <3>1, <3>2 DEF Primaries
    <2> QED
      BY <1>2, <2>2, <2>3
  <1> QED
    BY <1>1, <1>2

LEMMA AppendedKeys ==
    ASSUME NEW added, NEW after, Extended(added, after), attr.keyed \/ ~ promotes(added)
    PROVE  /\ \A i \in DOMAIN list : i \in DOMAIN after /\ Key(attr, after[i]) = Key(attr, list[i])
           /\ keysOf(attr, after) = keysOf(attr, list) \cup keysOf(attr, added)
  <1>1. ASSUME NEW i \in DOMAIN list
        PROVE  i \in DOMAIN after /\ Key(attr, after[i]) = Key(attr, list[i])
    <2>1. i \in DOMAIN after /\ after[i].id = list[i].id /\ (~ promotes(added) => after[i] = list[i])
      BY DEF Extended
    <2> QED
      BY <2>1 DEF Key
  <1>2. ASSUME NEW i \in DOMAIN after
        PROVE  \/ i \in DOMAIN list /\ Key(attr, after[i]) = Key(attr, list[i])
               \/ \E k \in DOMAIN added : Key(attr, after[i]) = Key(attr, added[k])
    <2>1. i \in DOMAIN list \/ \E k \in DOMAIN added : after[i] = added[k]
      BY DEF Extended
    <2> QED
      BY <1>1, <2>1
  <1>3. ASSUME NEW k \in DOMAIN added
        PROVE  \E i \in DOMAIN after : after[i] = added[k]
    BY DEF Extended
  <1>4. keysOf(attr, after) = keysOf(attr, list) \cup keysOf(attr, added)
    <2>1. ASSUME NEW x \in keysOf(attr, after)
          PROVE  x \in keysOf(attr, list) \cup keysOf(attr, added)
      BY <1>2, Zenon DEF keysOf
    <2>2. ASSUME NEW x \in keysOf(attr, list)
          PROVE  x \in keysOf(attr, after)
      BY <1>1, Zenon DEF keysOf
    <2>3. ASSUME NEW x \in keysOf(attr, added)
          PROVE  x \in keysOf(attr, after)
      BY <1>3, Zenon DEF keysOf
    <2> QED
      BY <2>1, <2>2, <2>3
  <1> QED
    BY <1>1, <1>4

\* The index recorded covers the new list; an index under another spelling is now too small.
LEMMA AppendedIndexed ==
    ASSUME PatchInv, NEW sp \in Spellings, NEW ix, ix = newIndex(attr, list),
           NEW added, NEW after, Extended(added, after),
           NEW xs, xs = record(sp, ix, added)
    PROVE  xs \in [Spellings -> Index] /\ Indexed(xs, attr, after)
  <1>0. attr \in Attributes /\ after \in Seq(Element) /\ indexes \in [Spellings -> Index]
          /\ Indexed(indexes, attr, list)
    BY DEF Extended, PatchInv, TypeOK
  <1>1. CASE promotes(added) /\ ~ attr.keyed
    <2>1. xs = Cleared
      BY <1>1 DEF record
    <2> QED
      BY <1>0, <2>1, ClearedIs
  <1>2. CASE ~(promotes(added) /\ ~ attr.keyed)
    <2>1. PICK new : new = [keys |-> ix.keys \cup keysOf(attr, added),
                            size |-> ix.size + Len(added),
                            primaries |-> IF promotes(added)
                                          THEN {ix.size + i : i \in Primaries(added)}
                                          ELSE ix.primaries]
      OBVIOUS
    <2>2. xs = [indexes EXCEPT ![sp] = new]
      BY <1>2, <2>1 DEF record
    <2>3. ix.keys = keysOf(attr, list) /\ ix.size = Len(list) /\ ix.primaries = Primaries(list)
      BY DEF newIndex
    <2>4. ix.keys \cup keysOf(attr, added) = keysOf(attr, after)
      BY <1>2, <2>3, AppendedKeys
    <2>5. ix.size + Len(added) = Len(after)
      BY <2>3 DEF Extended
    <2>6. (IF promotes(added) THEN {ix.size + i : i \in Primaries(added)} ELSE ix.primaries)
            = Primaries(after)
      BY <2>3, AppendedPrimaries
    <2>7. new = newIndex(attr, after)
      BY <2>1, <2>4, <2>5, <2>6 DEF newIndex
    <2>8. new \in Index /\ new.size = Len(after)
      BY <1>0, <2>7, NewIndexIs
    <2>9. xs \in [Spellings -> Index]
      BY <1>0, <2>2, <2>8
    <2>10. ASSUME NEW other \in Spellings
           PROVE  /\ xs[other].size <= Len(after)
                  /\ xs[other].size = Len(after) => xs[other] = newIndex(attr, after)
      <3>1. CASE other = sp
        <4>1. xs[other] = new
          BY <1>0, <2>2, <3>1
        <4> QED
          BY <1>0, <2>7, <2>8, <4>1
      <3>2. CASE other # sp
        <4>1. xs[other] = indexes[other]
          BY <1>0, <2>2, <3>2
        <4>2. /\ indexes[other].size <= Len(list)
              /\ indexes[other].size = Len(list) => indexes[other] = newIndex(attr, list)
              /\ indexes[other].size \in Int
          BY <1>0 DEF Indexed, Index
        <4>3. Len(list) \in Nat /\ Len(added) \in Nat /\ Len(after) = Len(list) + Len(added)
          BY DEF Extended
        <4>4. CASE Len(added) > 0
          BY <4>1, <4>2, <4>3, <4>4
        <4>5. CASE Len(added) = 0
          <5>1. DOMAIN added = {}
            BY <4>5 DEF Extended
          <5>2. ~ promotes(added)
            BY <5>1 DEF promotes, Primaries
          <5>3. Len(after) = Len(list)
            BY <4>3, <4>5
          <5>4. DOMAIN after = DOMAIN list
            BY <5>3 DEF Extended
          <5>5. \A i \in DOMAIN list : after[i] = list[i]
            BY <5>2 DEF Extended
          <5>6. after = list
            BY <5>4, <5>5, <5>3 DEF Extended
          <5> QED
            BY <4>1, <4>2, <5>6
        <4> QED
          BY <4>3, <4>4, <4>5
      <3> QED
        BY <3>1, <3>2
    <2>11. Indexed(xs, attr, after)
      BY <2>10 DEF Indexed
    <2> QED
      BY <2>9, <2>11
  <1> QED
    BY <1>1, <1>2

LEMMA AppendedOnce ==
    ASSUME PatchInv, NEW added, NEW kept, NEW after, Appends(added, kept, after),
           Filterable, ~ Repeats(attr, list)
    PROVE  ~ Repeats(attr, after)
  <1>1. Extended(added, after)
    BY AppendedIs
  <1>2. attr.keyed \/ ~ promotes(added)
    <2>1. CASE attr.simple
      BY <2>1 DEF Appends, NeverPrimary, promotes, Primaries
    <2> QED
      BY <2>1 DEF Filterable
  <1>3. \A i \in DOMAIN list : Key(attr, after[i]) = Key(attr, list[i])
    BY <1>1, <1>2, AppendedKeys
  <1>4. \A i \in DOMAIN after :
           i \in DOMAIN list \/ \E k \in DOMAIN added : i = Len(list) + k /\ after[i] = added[k]
    BY <1>1 DEF Extended
  <1>5. \A i \in DOMAIN list : Key(attr, list[i]) # None => Key(attr, list[i]) \in keysOf(attr, list)
    BY DEF keysOf
  <1>6. \A k \in DOMAIN added : Key(attr, added[k]) \notin keysOf(attr, list)
    BY DEF Appends
  <1>7. ~ Repeats(attr, added)
    BY DEF Appends
  <1> SUFFICES ASSUME NEW i \in DOMAIN after, NEW j \in DOMAIN after, i # j,
                      Key(attr, after[i]) # None, Key(attr, after[i]) = Key(attr, after[j])
               PROVE  FALSE
    BY DEF Repeats
  <1>8. CASE i \in DOMAIN list /\ j \in DOMAIN list
    BY <1>3, <1>8 DEF Repeats
  <1>9. CASE i \in DOMAIN list /\ j \notin DOMAIN list
    BY <1>3, <1>4, <1>5, <1>6, <1>9
  <1>10. CASE i \notin DOMAIN list /\ j \in DOMAIN list
    BY <1>3, <1>4, <1>5, <1>6, <1>10
  <1>11. CASE i \notin DOMAIN list /\ j \notin DOMAIN list
    <2>1. PICK k \in DOMAIN added : i = Len(list) + k /\ after[i] = added[k]
      BY <1>4, <1>11
    <2>2. PICK l \in DOMAIN added : j = Len(list) + l /\ after[j] = added[l]
      BY <1>4, <1>11
    <2>3. k # l
      BY <2>1, <2>2
    <2> QED
      BY <1>7, <2>1, <2>2, <2>3 DEF Repeats
  <1> QED
    BY <1>8, <1>9, <1>10, <1>11

LEMMA AppendedContest ==
    ASSUME PatchInv, NEW added, NEW after, Extended(added, after), Contest(after)
    PROVE  Cardinality(Primaries(added)) > 1 \/ (Primaries(added) = {} /\ contested)
  <1>1. PICK i \in Primaries(after), j \in Primaries(after) : i # j
    BY Zenon DEF Contest, Primaries
  <1>2. CASE promotes(added)
    <2>1. PICK k \in Primaries(added) : i = Len(list) + k
      BY <1>2, AppendedPrimaries
    <2>2. PICK l \in Primaries(added) : j = Len(list) + l
      BY <1>2, AppendedPrimaries
    <2>3. k # l
      BY <1>1, <2>1, <2>2
    <2>4. Contest(added)
      BY <2>3, Zenon DEF Contest, Primaries
    <2> QED
      BY <2>4, ContestCounted DEF Extended
  <1>3. CASE ~ promotes(added)
    <2>1. i \in Primaries(list) /\ j \in Primaries(list)
      BY <1>3, AppendedPrimaries
    <2>2. Contest(list)
      BY <1>1, <2>1, Zenon DEF Contest, Primaries
    <2> QED
      BY <1>3, <2>2 DEF promotes, PatchInv
  <1> QED
    BY <1>2, <1>3

LEMMA AddKeeps ==
    ASSUME PatchInv, NEW sp \in Spellings, NEW incoming \in Incoming(attr), Add(sp, incoming)
    PROVE  PatchInv'
  <1>0. Open
    BY DEF Add
  <1>1. /\ Solvent(bill) /\ attr \in Attributes /\ list \in Seq(Element)
        /\ incoming \in Seq(Element) /\ Len(incoming) \in Nat
    BY <1>0, OpenIsSolvent, PatchAssumption
  <1>2. PICK b : b = chargeBytes(bill, Len(incoming))
    OBVIOUS
  <1>3. PICK ix : ix = lookup(sp)
    OBVIOUS
  <1>4. ix = newIndex(attr, list)
    BY <1>3, LookupExact
  <1>5. PICK added : added = Unique(attr, fresh(ix, incoming))
    OBVIOUS
  <1>6. /\ added \in Seq(Element) /\ Len(added) <= Len(incoming)
        /\ ~ Repeats(attr, added) /\ NeverPrimary(attr, added)
        /\ \A k \in DOMAIN added : Key(attr, added[k]) \notin keysOf(attr, list)
    BY <1>4, <1>5, AddedIs
  <1>7. PICK kept : kept = IF promotes(added) THEN demote(list, DOMAIN list \ Primaries(list)) ELSE list
    OBVIOUS
  <1>8. PICK after : after = kept \o added
    OBVIOUS
  <1>9. Appends(added, kept, after) /\ Extended(added, after)
    BY <1>6, <1>7, <1>8, AppendedIs DEF Appends
  <1>10. PICK xs : xs = record(sp, ix, added)
    OBVIOUS
  <1>11. PICK c : c = writing(b, Len(added))
    OBVIOUS
  <1>12. PICK top : top = Primaries(added)
    OBVIOUS
  <1>13. \/ overdrawn(b) /\ Refuse("tooLarge", b)
         \/ ~ overdrawn(b) /\ Refuse("mutability", b)
         \/ ~ overdrawn(b) /\ Apply(after, xs, c, top) /\ UNCHANGED repeated
    <2>1. ix.primaries = Primaries(list)
      BY <1>4 DEF newIndex
    <2> QED
      BY <1>2, <1>3, <1>5, <1>7, <1>8, <1>10, <1>11, <1>12, <2>1 DEF Add
  <1>14. Covered(b) /\ Afforded(b) /\ (~ overdrawn(b) => Solvent(c))
    <2>1. Len(added) \in Nat
      BY <1>6
    <2> QED
      BY <1>1, <1>2, <1>6, <1>11, <2>1, ChargedBytes
  <1>15. CASE Refuse("tooLarge", b) \/ Refuse("mutability", b)
    BY <1>14, <1>15, Refuses DEF Outcome
  <1>16. CASE ~ overdrawn(b) /\ Apply(after, xs, c, top) /\ UNCHANGED repeated
    <2>1. after \in Seq(Element)
      BY <1>9 DEF Extended
    <2>2. xs \in [Spellings -> Index] /\ Indexed(xs, attr, after)
      BY <1>4, <1>9, <1>10, AppendedIndexed
    <2>3. Contest(after) => Cardinality(top) > 1 \/ (top = {} /\ contested)
      BY <1>9, <1>12, AppendedContest
    <2>4. NeverPrimary(attr, after)
      <3> SUFFICES ASSUME attr.simple, NEW i \in DOMAIN after
                   PROVE  ~ after[i].primary
        BY DEF NeverPrimary
      <3>1. ~ promotes(added)
        BY <1>6 DEF NeverPrimary, promotes, Primaries
      <3>2. i \in Primaries(after) => i \in Primaries(list)
        BY <1>9, <3>1, AppendedPrimaries
      <3> QED
        BY <3>2 DEF Primaries, PatchInv, NeverPrimary
    <2>5. repeated' \in BOOLEAN
      BY <1>16 DEF PatchInv, TypeOK
    <2>6. Filterable /\ ~ repeated' => ~ Repeats(attr, after)
      BY <1>9, <1>16, AppendedOnce DEF PatchInv, NoRepeats
    <2> QED
      BY <1>14, <1>16, <2>1, <2>2, <2>3, <2>4, <2>5, <2>6, Applies
  <1> QED
    BY <1>13, <1>15, <1>16

-----------------------------------------------------------------------------
(* Replace: an element keeps the immutable sub-attribute it leaves out.    *)

LEMMA FirstIs ==
    ASSUME NEW s \in Seq(Element), NEW id, NEW k \in DOMAIN s, s[k].id = id
    PROVE  \E i \in DOMAIN s : s[i].id = id /\ First(s, id) = s[i]
  <1> DEFINE S == {i \in DOMAIN s : s[i].id = id}
             F(i) == s[i].id = id /\ \A j \in 1 .. i - 1 : s[j].id # id
  <1>1. S \in SUBSET Nat /\ S # {} /\ DOMAIN s = 1 .. Len(s)
    <2>1. DOMAIN s = 1 .. Len(s) /\ Len(s) \in Nat
      OBVIOUS
    <2> QED
      BY <2>1
  <1>2. PICK n \in S : \A m \in S : n <= m
    BY <1>1, LeastElement
  <1>3. ASSUME NEW j \in 1 .. n - 1
        PROVE  s[j].id # id
    <2>1. j \in DOMAIN s /\ ~(n <= j)
      BY <1>1
    <2> QED
      BY <1>2, <2>1
  <1>4. n \in DOMAIN s /\ F(n)
    BY <1>3
  <1>5. PICK i : i = CHOOSE j \in DOMAIN s : F(j)
    OBVIOUS
  <1>6. i \in DOMAIN s /\ F(i)
    BY <1>4, <1>5, Zenon
  <1>7. First(s, id) = s[i]
    BY <1>5 DEF First
  <1> QED
    BY <1>6, <1>7

LEMMA CarriedIs ==
    ASSUME list \in Seq(Element), NEW s \in Seq(Element)
    PROVE  /\ carryForward(s) \in Seq(Element)
           /\ DOMAIN carryForward(s) = DOMAIN s
           /\ \A i \in DOMAIN s :
                /\ carryForward(s)[i].id = s[i].id
                /\ carryForward(s)[i].primary = s[i].primary
                /\ ~ attr.keyed => carryForward(s)[i] = s[i]
                /\ s[i].lock # None => carryForward(s)[i].lock = s[i].lock
                /\ attr.keyed /\ s[i].lock = None /\ s[i].id \in keysOf(attr, list) =>
                     \E k \in DOMAIN list : /\ list[k].id = s[i].id
                                            /\ carryForward(s)[i].lock = list[k].lock
  <1> DEFINE C(i) == attr.keyed /\ s[i].lock = None /\ s[i].id \in keysOf(attr, list)
             e(i) == IF C(i) THEN [s[i] EXCEPT !.lock = First(list, s[i].id).lock] ELSE s[i]
  <1>1. carryForward(s) = [i \in 1 .. Len(s) |-> e(i)] /\ DOMAIN s = 1 .. Len(s)
    BY DEF carryForward
  <1>2. ASSUME NEW i \in DOMAIN s
        PROVE  /\ e(i) \in Element /\ e(i).id = s[i].id /\ e(i).primary = s[i].primary
               /\ ~ attr.keyed => e(i) = s[i]
               /\ s[i].lock # None => e(i).lock = s[i].lock
               /\ C(i) => \E k \in DOMAIN list : list[k].id = s[i].id /\ e(i).lock = list[k].lock
    <2>1. s[i] \in Element
      OBVIOUS
    <2>2. CASE ~ C(i)
      BY <2>1, <2>2
    <2>3. CASE C(i)
      <3>1. PICK j \in DOMAIN list : list[j].id = s[i].id
        BY <2>3 DEF keysOf, Key
      <3>2. PICK k \in DOMAIN list : list[k].id = s[i].id /\ First(list, s[i].id) = list[k]
        BY <3>1, FirstIs
      <3>3. list[k] \in Element
        OBVIOUS
      <3>4. e(i) = [s[i] EXCEPT !.lock = list[k].lock]
        BY <2>3, <3>2
      <3>5. /\ e(i) \in Element /\ e(i).id = s[i].id /\ e(i).primary = s[i].primary
            /\ e(i).lock = list[k].lock
        BY <2>1, <3>3, <3>4 DEF Element
      <3> HIDE DEF e
      <3> QED
        BY <2>3, <3>2, <3>5
    <2> QED
      BY <2>2, <2>3
  <1> HIDE DEF e
  <1>3. carryForward(s) \in Seq(Element) /\ DOMAIN carryForward(s) = DOMAIN s
    BY <1>1, <1>2
  <1>4. \A i \in DOMAIN s : carryForward(s)[i] = e(i)
    BY <1>1
  <1> QED
    BY <1>2, <1>3, <1>4

LEMMA ReplaceKeeps ==
    ASSUME PatchInv, NEW incoming \in Incoming(attr), Replace(incoming)
    PROVE  PatchInv'
  <1>0. Open
    BY DEF Replace
  <1>1. /\ Solvent(bill) /\ attr \in Attributes /\ list \in Seq(Element)
        /\ incoming \in Seq(Element) /\ Len(incoming) \in Nat
        /\ NeverPrimary(attr, incoming)
    BY <1>0, OpenIsSolvent, PatchAssumption DEF NeverPrimary
  <1>2. PICK b : b = chargeBytes(bill, Len(incoming))
    OBVIOUS
  <1>3. PICK u : u = Unique(attr, incoming)
    OBVIOUS
  <1>4. /\ u \in Seq(Element) /\ Len(u) <= Len(incoming) /\ Len(u) \in Nat
        /\ ~ Repeats(attr, u)
        /\ \A k \in DOMAIN u : \E i \in DOMAIN incoming : ~ attr.keyed => u[k] = incoming[i]
    BY <1>1, <1>3, UniqueIs
  <1>5. PICK after : after = carryForward(u)
    OBVIOUS
  <1>6. /\ after \in Seq(Element) /\ DOMAIN after = DOMAIN u
        /\ \A i \in DOMAIN u : /\ after[i].id = u[i].id
                               /\ after[i].primary = u[i].primary
                               /\ ~ attr.keyed => after[i] = u[i]
    BY <1>1, <1>4, <1>5, CarriedIs
  <1>7. PICK c : c = writing(b, Len(u))
    OBVIOUS
  <1>8. PICK top : top = Primaries(u)
    OBVIOUS
  <1>9. PICK xs : xs = Cleared
    OBVIOUS
  <1>10. \/ overdrawn(b) /\ Refuse("tooLarge", b)
         \/ ~ overdrawn(b) /\ Refuse("mutability", b)
         \/ ~ overdrawn(b) /\ Apply(after, xs, c, top) /\ repeated' = FALSE
    BY <1>2, <1>3, <1>5, <1>7, <1>8, <1>9 DEF Replace
  <1>11. Covered(b) /\ Afforded(b) /\ (~ overdrawn(b) => Solvent(c))
    BY <1>1, <1>2, <1>4, <1>7, ChargedBytes
  <1>12. CASE Refuse("tooLarge", b) \/ Refuse("mutability", b)
    BY <1>11, <1>12, Refuses DEF Outcome
  <1>13. CASE ~ overdrawn(b) /\ Apply(after, xs, c, top) /\ repeated' = FALSE
    <2>1. xs \in [Spellings -> Index] /\ Indexed(xs, attr, after)
      BY <1>1, <1>6, <1>9, ClearedIs
    <2>2. Contest(after) => Cardinality(top) > 1
      <3>1. Contest(after) => Contest(u)
        BY <1>6, Zenon DEF Contest
      <3> QED
        BY <1>4, <1>8, <3>1, ContestCounted
    <2>3. NeverPrimary(attr, after)
      <3> SUFFICES ASSUME attr.simple, NEW i \in DOMAIN after
                   PROVE  ~ after[i].primary
        BY DEF NeverPrimary
      <3>1. ~ attr.keyed
        BY <1>1, PatchAssumption
      <3>2. PICK j \in DOMAIN incoming : after[i] = incoming[j]
        BY <1>4, <1>6, <3>1
      <3> QED
        BY <1>1, <3>2 DEF NeverPrimary
    <2>4. ~ Repeats(attr, after)
      <3>1. \A i \in DOMAIN u : Key(attr, after[i]) = Key(attr, u[i])
        BY <1>6 DEF Key
      <3> QED
        BY <1>4, <1>6, <3>1, Zenon DEF Repeats
    <2> QED
      BY <1>6, <1>11, <1>13, <2>1, <2>2, <2>3, <2>4, Applies
  <1> QED
    BY <1>10, <1>12, <1>13

-----------------------------------------------------------------------------
(* Operations with a filter.                                               *)

LEMMA ChangeIs ==
    ASSUME NEW change \in Changes
    PROVE  /\ DOMAIN change \subseteq {"id", "primary", "lock"}
           /\ "id" \in DOMAIN change => change.id \in Ids
           /\ "primary" \in DOMAIN change => change.primary \in BOOLEAN
           /\ "lock" \in DOMAIN change => change.lock \in Locks \cup {Null}
           /\ Cardinality(DOMAIN change) \in Nat
  <1>1. \/ change = [primary |-> TRUE] \/ change = [primary |-> FALSE]
        \/ \E k \in Locks \cup {Null} : change = [lock |-> k]
        \/ \E v \in Ids : change = [id |-> v, primary |-> TRUE]
        \/ \E v \in Ids : change = [id |-> v]
    BY DEF Changes
  <1>2. /\ DOMAIN change \subseteq {"id", "primary", "lock"}
        /\ "id" \in DOMAIN change => change.id \in Ids
        /\ "primary" \in DOMAIN change => change.primary \in BOOLEAN
        /\ "lock" \in DOMAIN change => change.lock \in Locks \cup {Null}
    <2>1. CASE change = [primary |-> TRUE] \/ change = [primary |-> FALSE]
      <3>1. DOMAIN change = {"primary"}
        BY <2>1
      <3>2. change.primary = TRUE \/ change.primary = FALSE
        BY <2>1
      <3>3. change.primary \in BOOLEAN
        BY <3>2, Zenon
      <3> QED
        BY <3>1, <3>3
    <2>2. CASE \E k \in Locks \cup {Null} : change = [lock |-> k]
      BY <2>2
    <2>3. CASE \E v \in Ids : change = [id |-> v, primary |-> TRUE]
      BY <2>3
    <2>4. CASE \E v \in Ids : change = [id |-> v]
      BY <2>4
    <2> QED
      BY <1>1, <2>1, <2>2, <2>3, <2>4
  <1>3. IsFiniteSet({"id", "primary", "lock"})
    <2>1. IsFiniteSet({"id"})
      BY FS_Singleton
    <2>2. IsFiniteSet({"id"} \cup {"primary"})
      BY <2>1, FS_AddElement
    <2>3. IsFiniteSet(({"id"} \cup {"primary"}) \cup {"lock"})
      BY <2>2, FS_AddElement
    <2>4. ({"id"} \cup {"primary"}) \cup {"lock"} = {"id", "primary", "lock"}
      OBVIOUS
    <2> QED
      BY <2>3, <2>4
  <1>4. IsFiniteSet(DOMAIN change)
    BY <1>2, <1>3, FS_Subset
  <1>5. Cardinality(DOMAIN change) \in Nat
    BY <1>4, FS_CardinalityType
  <1> QED
    BY <1>2, <1>5

LEMMA MergedIs ==
    ASSUME NEW e \in Element, NEW change \in Changes
    PROVE  /\ merge(e, change) \in Element
           /\ "id" \notin DOMAIN change => merge(e, change).id = e.id
           /\ "lock" \notin DOMAIN change => merge(e, change).lock = e.lock
           /\ "lock" \in DOMAIN change => merge(e, change).lock = change.lock
           /\ "primary" \notin DOMAIN change => merge(e, change).primary = e.primary
           /\ "primary" \in DOMAIN change => merge(e, change).primary = change.primary
  <1>1. /\ DOMAIN e = {"id", "primary", "lock"}
        /\ e.id \in Ids \cup {None} /\ e.primary \in BOOLEAN /\ e.lock \in Locks \cup {None, Null}
    BY DEF Element
  <1>2. PICK r : r = merge(e, change)
    OBVIOUS
  <1>3. r = [f \in {"id", "primary", "lock"} |-> IF f \in DOMAIN change THEN change[f] ELSE e[f]]
    BY <1>1, <1>2 DEF merge
  <1>4. /\ r.id = IF "id" \in DOMAIN change THEN change.id ELSE e.id
        /\ r.primary = IF "primary" \in DOMAIN change THEN change.primary ELSE e.primary
        /\ r.lock = IF "lock" \in DOMAIN change THEN change.lock ELSE e.lock
    BY <1>3
  <1>5. r = [id |-> r.id, primary |-> r.primary, lock |-> r.lock]
    BY <1>3
  <1>6. r.id \in Ids \cup {None} /\ r.primary \in BOOLEAN /\ r.lock \in Locks \cup {None, Null}
    BY <1>1, <1>4, ChangeIs
  <1>7. r \in Element
    BY <1>5, <1>6 DEF Element
  <1> QED
    BY <1>2, <1>4, <1>7

LEMMA SolventAffords ==
    ASSUME NEW b, Solvent(b)
    PROVE  Covered(b) /\ Afforded(b)
  BY PatchAssumption DEF Solvent, Covered, Afforded, overdrawn, Bill

LEMMA BytesOnTop ==
    ASSUME NEW b, Covered(b), NEW n \in Nat, ~ overdrawn(chargeBytes(b, n))
    PROVE  ~ overdrawn(b)
  <1>1. b \in Bill
    BY DEF Covered
  <1>2. chargeBytes(b, n).spent = b.spent /\ chargeBytes(b, n).output = b.output + n
    BY <1>1 DEF chargeBytes, Bill
  <1> QED
    BY <1>1, <1>2, PatchAssumption DEF overdrawn, Bill

LEMMA FilterBills ==
    ASSUME PatchInv, Open, NEW clauses \in Nat
    PROVE  /\ Covered(Charged(clauses)) /\ Afforded(Charged(clauses))
           /\ Covered(Checked(clauses))
           /\ ~ overdrawn(Charged(clauses)) => Solvent(Checked(clauses))
           /\ overdrawn(Checked(clauses)) <=> overdrawn(Charged(clauses))
  <1>1. Len(list) \in Nat /\ Solvent(bill)
    BY OpenIsSolvent
  <1>2. PICK n \in Nat : n = clauses * Len(list)
    BY <1>1
  <1> QED
    BY <1>1, <1>2, ChargedClauses DEF Charged, Checked

\* Elements rewritten where they are, keeping their identity.
LEMMA RewrittenIs ==
    ASSUME list \in Seq(Element), NEW t, DOMAIN t = DOMAIN list, \A i \in DOMAIN list : t[i] \in Element,
           t = [i \in DOMAIN list |-> t[i]]
    PROVE  t \in Seq(Element)
  <1>1. DOMAIN list = 1 .. Len(list) /\ Len(list) \in Nat
    OBVIOUS
  <1> QED
    BY <1>1

LEMMA PutKeeps ==
    ASSUME PatchInv, NEW accepted, NEW clauses \in Nat, NEW change \in Changes,
           PutMatching(accepted, clauses, change)
    PROVE  PatchInv'
  <1>0. Open /\ attr.keyed
    BY DEF PutMatching
  <1>1. Solvent(bill) /\ attr \in Attributes /\ list \in Seq(Element) /\ ~ attr.simple
    BY <1>0, OpenIsSolvent, PatchAssumption
  <1>2. PICK m \in SUBSET DOMAIN list : m = matches(accepted)
    BY DEF matches
  <1>3. IsFiniteSet(m) /\ Cardinality(m) \in Nat
    BY <1>1, PositionsFinite
  <1>4. PICK n \in Nat : n = Cardinality(m) * Cardinality(DOMAIN change)
    BY <1>3, ChangeIs
  <1>5. PICK ch : ch = Charged(clauses)
    OBVIOUS
  <1>6. PICK ck : ck = Checked(clauses)
    OBVIOUS
  <1>7. PICK b : b = chargeBytes(ck, n)
    OBVIOUS
  <1>8. PICK w : w = writing(b, n)
    OBVIOUS
  <1>9. PICK put : put = [i \in DOMAIN list |-> IF i \in m THEN merge(list[i], change) ELSE list[i]]
    OBVIOUS
  <1>10. PICK promote \in BOOLEAN : promote <=> "primary" \in DOMAIN change /\ change.primary
    BY Zenon
  <1>11. PICK after : after = IF promote THEN demote(put, m) ELSE put
    OBVIOUS
  <1>12. PICK top : top = IF promote THEN m ELSE {}
    OBVIOUS
  <1>13. PICK xs : xs = Cleared
    OBVIOUS
  <1>14. \/ overdrawn(ch) /\ Refuse("tooLarge", ch)
         \/ ~ overdrawn(ch) /\ Refuse("noTarget", ck)
         \/ ~ overdrawn(ch) /\ Refuse("tooLarge", b)
         \/ ~ overdrawn(b) /\ Refuse("mutability", b)
         \/ /\ m # {} /\ ~ overdrawn(b)
            /\ Apply(after, xs, w, top)
            /\ repeated' = (repeated \/ "id" \in DOMAIN change)
    BY <1>2, <1>4, <1>5, <1>6, <1>7, <1>8, <1>9, <1>10, <1>11, <1>12, <1>13 DEF PutMatching
  <1>15. /\ Covered(ch) /\ Afforded(ch) /\ Covered(ck)
         /\ ~ overdrawn(ch) => Solvent(ck)
         /\ overdrawn(ck) <=> overdrawn(ch)
    BY <1>0, <1>5, <1>6, FilterBills
  <1>16. ~ overdrawn(b) => ~ overdrawn(ch)
    BY <1>7, <1>15, BytesOnTop
  <1>17. ~ overdrawn(ch) => /\ Covered(ck) /\ Afforded(ck) /\ Covered(b) /\ Afforded(b)
                            /\ ~ overdrawn(b) => Solvent(w)
    BY <1>7, <1>8, <1>15, SolventAffords, ChargedBytes
  <1>18. CASE overdrawn(ch) /\ Refuse("tooLarge", ch)
    BY <1>15, <1>18, Refuses DEF Outcome
  <1>19. CASE ~ overdrawn(ch) /\ Refuse("noTarget", ck)
    BY <1>17, <1>19, Refuses DEF Outcome
  <1>20. CASE ~ overdrawn(ch) /\ (Refuse("tooLarge", b) \/ Refuse("mutability", b))
    BY <1>17, <1>20, Refuses DEF Outcome
  <1>21. CASE /\ m # {} /\ ~ overdrawn(b)
              /\ Apply(after, xs, w, top)
              /\ repeated' = (repeated \/ "id" \in DOMAIN change)
    <2>1. ASSUME NEW i \in DOMAIN list
          PROVE  /\ put[i] \in Element
                 /\ "id" \notin DOMAIN change => put[i].id = list[i].id
                 /\ i \notin m => put[i] = list[i]
                 /\ ~ promote => (put[i].primary => list[i].primary)
      <3>1. list[i] \in Element
        BY <1>1
      <3>2. CASE i \notin m
        BY <1>9, <3>1, <3>2
      <3>3. CASE i \in m
        <4>1. put[i] = merge(list[i], change)
          BY <1>9, <3>3
        <4>2. /\ put[i] \in Element
              /\ "id" \notin DOMAIN change => put[i].id = list[i].id
              /\ "primary" \notin DOMAIN change => put[i].primary = list[i].primary
              /\ "primary" \in DOMAIN change => put[i].primary = change.primary
          BY <3>1, <4>1, MergedIs
        <4>3. ~ promote => (put[i].primary => list[i].primary)
          BY <1>10, <4>2, Zenon
        <4> QED
          BY <3>3, <4>2, <4>3
      <3> QED
        BY <3>2, <3>3
    <2>2. put \in Seq(Element) /\ DOMAIN put = DOMAIN list
      BY <1>1, <1>9, <2>1, RewrittenIs
    <2>3. /\ after \in Seq(Element) /\ DOMAIN after = DOMAIN list
          /\ \A i \in DOMAIN list :
               /\ after[i].id = put[i].id
               /\ promote /\ i \notin m => ~ after[i].primary
               /\ ~ promote => after[i] = put[i]
      BY <1>11, <2>2, DemotedIs
    <2>4. xs \in [Spellings -> Index] /\ Indexed(xs, attr, after)
      BY <1>1, <1>13, <2>3, ClearedIs
    <2>5. Contest(after) => Cardinality(top) > 1 \/ (top = {} /\ contested)
      <3> SUFFICES ASSUME NEW i \in DOMAIN after, NEW j \in DOMAIN after, i # j,
                          after[i].primary, after[j].primary
                   PROVE  Cardinality(top) > 1 \/ (top = {} /\ contested)
        BY Zenon DEF Contest
      <3>1. CASE promote
        <4>1. i \in m /\ j \in m
          BY <2>3, <3>1
        <4>2. Cardinality(m) > 1
          BY <1>3, <4>1, Several
        <4> QED
          BY <1>12, <3>1, <4>2
      <3>2. CASE ~ promote
        <4>1. list[i].primary /\ list[j].primary /\ i \in DOMAIN list /\ j \in DOMAIN list
          BY <2>1, <2>3, <3>2, Zenon
        <4>2. Contest(list)
          BY <4>1, Zenon DEF Contest
        <4> QED
          BY <1>12, <3>2, <4>2 DEF PatchInv
      <3> QED
        BY <3>1, <3>2
    <2>6. NeverPrimary(attr, after)
      BY <1>1 DEF NeverPrimary
    <2>7. repeated' \in BOOLEAN
      BY <1>21
    <2>8. Filterable /\ ~ repeated' => ~ Repeats(attr, after)
      <3> SUFFICES ASSUME ~ repeated'
                   PROVE  ~ Repeats(attr, after)
        OBVIOUS
      <3>1. ~ repeated /\ "id" \notin DOMAIN change
        BY <1>21
      <3>2. ~ Repeats(attr, list)
        BY <1>0, <3>1 DEF PatchInv, NoRepeats, Filterable
      <3>3. \A i \in DOMAIN list : Key(attr, after[i]) = Key(attr, list[i])
        BY <1>0, <2>1, <2>3, <3>1 DEF Key
      <3> QED
        BY <2>3, <3>2, <3>3, Zenon DEF Repeats
    <2>9. Solvent(w)
      BY <1>16, <1>17, <1>21
    <2> QED
      BY <1>21, <2>3, <2>4, <2>5, <2>6, <2>7, <2>8, <2>9, Applies
  <1> QED
    BY <1>14, <1>16, <1>18, <1>19, <1>20, <1>21

\* A value substituted for the selected ones is held once.
LEMMA SubstitutedIs ==
    ASSUME list \in Seq(Element), attr \in Attributes, attr.simple, NEW m \in SUBSET DOMAIN list,
           NEW v \in Element, NEW after, after = substitute(m, v)
    PROVE  /\ after \in Seq(Element)
           /\ \A k \in DOMAIN after : after[k] = v \/ \E i \in DOMAIN list : after[k] = list[i]
           /\ ~ Repeats(attr, list) => ~ Repeats(attr, after)
  <1> DEFINE keeps == \E i \in DOMAIN list \ m : list[i] = v
             gone == IF keeps THEN m ELSE {i \in m : \E j \in m : j < i}
             P == DOMAIN list \ gone
  <1>1. ~ attr.keyed
    BY PatchAssumption
  <1>2. PICK each : each = substituteEach(m, v)
    OBVIOUS
  <1>3. \A i \in DOMAIN list : each[i] = IF i \in m THEN v ELSE list[i]
    BY <1>2 DEF substituteEach
  <1>4. each \in Seq(Element) /\ Len(each) = Len(list)
    <2>1. DOMAIN each = DOMAIN list /\ each = [i \in DOMAIN list |-> each[i]]
      BY <1>2 DEF substituteEach
    <2>2. \A i \in DOMAIN list : each[i] \in Element
      BY <1>3
    <2>3. each \in Seq(Element)
      BY <2>1, <2>2, RewrittenIs
    <2> QED
      BY <2>1, <2>3
  <1>5. after = Selected(each, P)
    BY <1>2 DEF substitute
  <1> HIDE DEF P
  <1>6. after \in Seq(Element) /\ Selection(after, each, P, Len(list))
    BY <1>4, <1>5, Selecting
  <1>7. PICK h : Traces(h, after, each, P, Len(list))
    BY <1>6 DEF Selection
  <1>8. /\ DOMAIN after = 1 .. Len(after) /\ Len(after) \in Nat
        /\ DOMAIN list = 1 .. Len(list) /\ Len(list) \in Nat
    BY <1>6
  <1>9. ASSUME NEW k \in DOMAIN after
        PROVE  h[k] \in P /\ h[k] \in DOMAIN list /\ after[k] = IF h[k] \in m THEN v ELSE list[h[k]]
    <2>1. h[k] \in P /\ h[k] \in 1 .. Len(list) /\ after[k] = each[h[k]]
      BY <1>7, <1>8 DEF Traces
    <2> QED
      BY <1>3, <1>8, <2>1
  <1>10. ASSUME ~ Repeats(attr, list), NEW k \in DOMAIN after, NEW l \in DOMAIN after, k < l
         PROVE  after[k] # after[l]
    <2>1. h[k] < h[l]
      BY <1>7, <1>8, <1>10 DEF Traces
    <2>2. ASSUME NEW i \in DOMAIN list, NEW j \in DOMAIN list, i # j
          PROVE  list[i] # list[j]
      <3>1. list[i] \in Element
        OBVIOUS
      <3>2. list[i] # None
        BY <3>1, PatchAssumption
      <3> QED
        BY <1>1, <1>10, <2>2, <3>2 DEF Repeats, Key
    <2>3. h[k] # h[l]
      BY <1>8, <1>9, <2>1
    <2>4. CASE h[k] \in m /\ h[l] \in m
      BY <1>9, <2>1, <2>4 DEF P
    <2>5. CASE h[k] \in m /\ h[l] \notin m
      BY <1>9, <2>5 DEF P
    <2>6. CASE h[k] \notin m /\ h[l] \in m
      BY <1>9, <2>6 DEF P
    <2>7. CASE h[k] \notin m /\ h[l] \notin m
      BY <1>9, <2>2, <2>3, <2>7
    <2> QED
      BY <2>4, <2>5, <2>6, <2>7
  <1>11. ASSUME ~ Repeats(attr, list)
         PROVE  ~ Repeats(attr, after)
    <2> SUFFICES ASSUME NEW k \in DOMAIN after, NEW l \in DOMAIN after, k # l,
                        Key(attr, after[k]) = Key(attr, after[l])
                 PROVE  FALSE
      BY DEF Repeats
    <2>1. after[k] = after[l]
      BY <1>1 DEF Key
    <2>2. k < l \/ l < k
      BY <1>8
    <2> QED
      BY <1>10, <1>11, <2>1, <2>2
  <1> QED
    BY <1>6, <1>9, <1>11

LEMMA ReplaceMatchingKeeps ==
    ASSUME PatchInv, NEW accepted, NEW clauses \in Nat, NEW v \in Element, ~ v.primary,
           ReplaceMatching(accepted, clauses, v)
    PROVE  PatchInv'
  <1>0. Open /\ attr.simple
    BY DEF ReplaceMatching
  <1>1. Solvent(bill) /\ attr \in Attributes /\ list \in Seq(Element)
    BY <1>0, OpenIsSolvent
  <1>2. PICK m \in SUBSET DOMAIN list : m = matches(accepted)
    BY DEF matches
  <1>3. PICK ch : ch = Charged(clauses)
    OBVIOUS
  <1>4. PICK ck : ck = Checked(clauses)
    OBVIOUS
  <1>5. PICK b : b = chargeBytes(ck, 1)
    OBVIOUS
  <1>6. PICK w : w = writing(b, 1)
    OBVIOUS
  <1>7. PICK after : after = substitute(m, v)
    OBVIOUS
  <1>8. PICK xs : xs = Cleared
    OBVIOUS
  <1>9. PICK top : top = {}
    OBVIOUS
  <1>10. \/ overdrawn(ch) /\ Refuse("tooLarge", ch)
         \/ ~ overdrawn(ch) /\ Refuse("noTarget", ck)
         \/ ~ overdrawn(ch) /\ Refuse("tooLarge", b)
         \/ ~ overdrawn(b) /\ Refuse("mutability", b)
         \/ ~ overdrawn(b) /\ Apply(after, xs, w, top) /\ UNCHANGED repeated
    BY <1>2, <1>3, <1>4, <1>5, <1>6, <1>7, <1>8, <1>9 DEF ReplaceMatching
  <1>11. /\ Covered(ch) /\ Afforded(ch) /\ Covered(ck)
         /\ ~ overdrawn(ch) => Solvent(ck)
         /\ overdrawn(ck) <=> overdrawn(ch)
    BY <1>0, <1>3, <1>4, FilterBills
  <1>12. ~ overdrawn(b) => ~ overdrawn(ch)
    BY <1>5, <1>11, BytesOnTop
  <1>13. ~ overdrawn(ch) => /\ Covered(ck) /\ Afforded(ck) /\ Covered(b) /\ Afforded(b)
                            /\ ~ overdrawn(b) => Solvent(w)
    BY <1>5, <1>6, <1>11, SolventAffords, ChargedBytes
  <1>14. CASE overdrawn(ch) /\ Refuse("tooLarge", ch)
    BY <1>11, <1>14, Refuses DEF Outcome
  <1>15. CASE ~ overdrawn(ch) /\ Refuse("noTarget", ck)
    BY <1>13, <1>15, Refuses DEF Outcome
  <1>16. CASE ~ overdrawn(ch) /\ (Refuse("tooLarge", b) \/ Refuse("mutability", b))
    BY <1>13, <1>16, Refuses DEF Outcome
  <1>17. CASE ~ overdrawn(b) /\ Apply(after, xs, w, top) /\ UNCHANGED repeated
    <2>1. /\ after \in Seq(Element)
          /\ \A k \in DOMAIN after : after[k] = v \/ \E i \in DOMAIN list : after[k] = list[i]
          /\ ~ Repeats(attr, list) => ~ Repeats(attr, after)
      BY <1>0, <1>1, <1>7, SubstitutedIs
    <2>2. \A k \in DOMAIN after : ~ after[k].primary
      BY <1>0, <2>1 DEF PatchInv, NeverPrimary
    <2>3. NeverPrimary(attr, after) /\ ~ Contest(after)
      BY <2>2 DEF NeverPrimary, Contest
    <2>4. xs \in [Spellings -> Index] /\ Indexed(xs, attr, after)
      BY <1>1, <1>8, <2>1, ClearedIs
    <2>5. repeated' \in BOOLEAN /\ (Filterable /\ ~ repeated' => ~ Repeats(attr, after))
      BY <1>17, <2>1 DEF PatchInv, TypeOK, NoRepeats
    <2>6. Solvent(w)
      BY <1>12, <1>13, <1>17
    <2> QED
      BY <1>17, <2>1, <2>3, <2>4, <2>5, <2>6, Applies
  <1> QED
    BY <1>10, <1>12, <1>14, <1>15, <1>16, <1>17

FromList(t) == \A k \in DOMAIN t : \E i \in DOMAIN list : t[k] = list[i]

\* What is left of a list when some of its elements are dropped.
LEMMA DroppedIs ==
    ASSUME list \in Seq(Element), NEW m \in SUBSET DOMAIN list,
           NEW rest, rest = Selected(list, DOMAIN list \ m)
    PROVE  /\ rest \in Seq(Element)
           /\ FromList(rest)
           /\ Repeats(attr, rest) => Repeats(attr, list)
           /\ Contest(rest) => Contest(list)
  <1> DEFINE P == DOMAIN list \ m
  <1>1. rest \in Seq(Element) /\ Selection(rest, list, P, Len(list))
    BY Selecting
  <1> HIDE DEF P
  <1>2. PICK h : Traces(h, rest, list, P, Len(list))
    BY <1>1 DEF Selection
  <1>3. /\ DOMAIN rest = 1 .. Len(rest) /\ Len(rest) \in Nat
        /\ DOMAIN list = 1 .. Len(list) /\ Len(list) \in Nat
    BY <1>1
  <1>4. ASSUME NEW k \in DOMAIN rest
        PROVE  h[k] \in DOMAIN list /\ rest[k] = list[h[k]]
    <2>1. h[k] \in P /\ rest[k] = list[h[k]]
      BY <1>2, <1>3 DEF Traces
    <2> QED
      BY <2>1 DEF P
  <1>5. ASSUME NEW k \in DOMAIN rest, NEW l \in DOMAIN rest, k # l
        PROVE  h[k] # h[l]
    <2>1. k < l \/ l < k
      BY <1>3, <1>5
    <2>0. \A i, j \in 1 .. Len(rest) : i < j => h[i] < h[j]
      BY <1>2 DEF Traces
    <2>2. h[k] < h[l] \/ h[l] < h[k]
      BY <1>3, <2>0, <2>1
    <2>3. h[k] \in DOMAIN list /\ h[l] \in DOMAIN list
      BY <1>4, Zenon
    <2>4. h[k] \in Nat /\ h[l] \in Nat
      BY <1>3, <2>3
    <2> QED
      BY <2>2, <2>4
  <1>6. ASSUME Repeats(attr, rest)
        PROVE  Repeats(attr, list)
    <2>1. PICK k \in DOMAIN rest, l \in DOMAIN rest :
             k # l /\ Key(attr, rest[k]) # None /\ Key(attr, rest[k]) = Key(attr, rest[l])
      BY <1>6 DEF Repeats
    <2>2. h[k] \in DOMAIN list /\ h[l] \in DOMAIN list /\ h[k] # h[l]
            /\ rest[k] = list[h[k]] /\ rest[l] = list[h[l]]
      BY <1>4, <1>5, <2>1
    <2> QED
      BY <2>1, <2>2 DEF Repeats
  <1>7. ASSUME Contest(rest)
        PROVE  Contest(list)
    <2>1. PICK k \in DOMAIN rest, l \in DOMAIN rest : k # l /\ rest[k].primary /\ rest[l].primary
      BY <1>7 DEF Contest
    <2>2. h[k] \in DOMAIN list /\ h[l] \in DOMAIN list /\ h[k] # h[l]
            /\ rest[k] = list[h[k]] /\ rest[l] = list[h[l]]
      BY <1>4, <1>5, <2>1
    <2> QED
      BY <2>1, <2>2 DEF Contest
  <1> QED
    BY <1>1, <1>4, <1>6, <1>7 DEF FromList

LEMMA DroppedNone ==
    ASSUME list \in Seq(Element), NEW P, DOMAIN list \subseteq P
    PROVE  Selected(list, P) = list
  <1>1. PICK rest : rest = Selected(list, P)
    OBVIOUS
  <1>2. rest \in Seq(Element) /\ Selection(rest, list, P, Len(list))
    BY <1>1, Selecting
  <1>3. 1 .. Len(list) \subseteq P
    OBVIOUS
  <1>4. Len(rest) = Len(list) /\ \A k \in 1 .. Len(list) : rest[k] = list[k]
    BY <1>2, <1>3 DEF Selection
  <1> QED
    BY <1>1, <1>2, <1>4, SameElements

LEMMA RemoveMatchingKeeps ==
    ASSUME PatchInv, NEW accepted, NEW clauses \in Nat, RemoveMatching(accepted, clauses)
    PROVE  PatchInv'
  <1>0. Open
    BY DEF RemoveMatching
  <1>1. attr \in Attributes /\ list \in Seq(Element)
    BY <1>0, OpenIsSolvent
  <1>2. PICK m \in SUBSET DOMAIN list : m = matches(accepted)
    BY DEF matches
  <1>3. PICK ch : ch = Charged(clauses)
    OBVIOUS
  <1>4. PICK ck : ck = Checked(clauses)
    OBVIOUS
  <1>5. PICK rest : rest = Selected(list, DOMAIN list \ m)
    OBVIOUS
  <1>6. PICK xs : xs = Cleared
    OBVIOUS
  <1>7. PICK top : top = {}
    OBVIOUS
  <1>8. \/ Refuse("tooLarge", ch)
        \/ ~ overdrawn(ch) /\ Refuse("mutability", ck)
        \/ ~ overdrawn(ch) /\ Apply(rest, xs, ck, top) /\ UNCHANGED repeated
    BY <1>2, <1>3, <1>4, <1>5, <1>6, <1>7 DEF RemoveMatching
  <1>9. Covered(ch) /\ Afforded(ch) /\ (~ overdrawn(ch) => Solvent(ck))
    BY <1>0, <1>3, <1>4, FilterBills
  <1>10. ~ overdrawn(ch) => Covered(ck) /\ Afforded(ck)
    BY <1>9, SolventAffords
  <1>11. CASE Refuse("tooLarge", ch) \/ (~ overdrawn(ch) /\ Refuse("mutability", ck))
    BY <1>9, <1>10, <1>11, Refuses DEF Outcome
  <1>12. CASE ~ overdrawn(ch) /\ Apply(rest, xs, ck, top) /\ UNCHANGED repeated
    <2>1. /\ rest \in Seq(Element)
          /\ FromList(rest)
          /\ Repeats(attr, rest) => Repeats(attr, list)
          /\ Contest(rest) => Contest(list)
      BY <1>1, <1>5, DroppedIs
    <2>2. NeverPrimary(attr, rest)
      BY <2>1 DEF PatchInv, NeverPrimary, FromList
    <2>3. xs \in [Spellings -> Index] /\ Indexed(xs, attr, rest)
      BY <1>1, <1>6, <2>1, ClearedIs
    <2>4. Contest(rest) => top = {} /\ contested
      BY <1>7, <2>1 DEF PatchInv
    <2>5. repeated' \in BOOLEAN /\ (Filterable /\ ~ repeated' => ~ Repeats(attr, rest))
      BY <1>12, <2>1 DEF PatchInv, TypeOK, NoRepeats
    <2> QED
      BY <1>9, <1>12, <2>1, <2>2, <2>3, <2>4, <2>5, Applies
  <1> QED
    BY <1>8, <1>11, <1>12

LEMMA RemoveAllKeeps ==
    ASSUME PatchInv, RemoveAll
    PROVE  PatchInv'
  <1>0. Open
    BY DEF RemoveAll
  <1>1. Solvent(bill) /\ attr \in Attributes /\ list \in Seq(Element)
    BY <1>0, OpenIsSolvent
  <1>2. PICK b : b = bill
    OBVIOUS
  <1>3. PICK xs : xs = Cleared
    OBVIOUS
  <1>4. PICK none : none = <<>>
    OBVIOUS
  <1>5. PICK top : top = {}
    OBVIOUS
  <1>6. \/ Refuse("mutability", b)
        \/ Apply(none, xs, b, top) /\ UNCHANGED repeated
    BY <1>2, <1>3, <1>4, <1>5 DEF RemoveAll
  <1>7. CASE Refuse("mutability", b)
    BY <1>1, <1>2, <1>7, SolventAffords, Refuses DEF Outcome
  <1>8. CASE Apply(none, xs, b, top) /\ UNCHANGED repeated
    <2>1. none \in Seq(Element) /\ DOMAIN none = {}
      BY <1>4
    <2>2. NeverPrimary(attr, none) /\ ~ Contest(none) /\ ~ Repeats(attr, none)
      BY <2>1 DEF NeverPrimary, Contest, Repeats
    <2>3. xs \in [Spellings -> Index] /\ Indexed(xs, attr, none)
      BY <1>1, <1>3, <2>1, ClearedIs
    <2>4. repeated' \in BOOLEAN
      BY <1>8 DEF PatchInv, TypeOK
    <2> QED
      BY <1>1, <1>2, <1>8, <2>1, <2>2, <2>3, <2>4, Applies
  <1> QED
    BY <1>6, <1>7, <1>8

\* An element without one of its fields.
LEMMA CutIs ==
    ASSUME NEW e \in Element, NEW field \in {"id", "primary", "lock"},
           NEW r, r = [e EXCEPT ![field] = IF field = "primary" THEN FALSE ELSE None]
    PROVE  /\ r \in Element
           /\ r.id \in {e.id, None} /\ (r.primary => e.primary)
           /\ field # "lock" => r.lock = e.lock
  <1>1. CASE field = "id"
    <2>1. r = [e EXCEPT !.id = None]
      BY <1>1
    <2> QED
      BY <1>1, <2>1 DEF Element
  <1>2. CASE field = "primary"
    <2>1. r = [e EXCEPT !.primary = FALSE]
      BY <1>2
    <2>2. r \in Element /\ r.id = e.id /\ r.lock = e.lock /\ r.primary = FALSE
      BY <2>1 DEF Element
    <2> QED
      BY <2>2
  <1>3. CASE field = "lock"
    <2>1. r = [e EXCEPT !.lock = None]
      BY <1>3
    <2> QED
      BY <1>3, <2>1 DEF Element
  <1> QED
    BY <1>1, <1>2, <1>3

LEMMA RemoveSubKeeps ==
    ASSUME PatchInv, NEW filtered \in BOOLEAN, NEW accepted, NEW clauses \in Nat,
           NEW field \in {"id", "primary", "lock"}, RemoveSub(filtered, accepted, clauses, field)
    PROVE  PatchInv'
  <1>0. Open /\ attr.keyed
    BY DEF RemoveSub
  <1>1. Solvent(bill) /\ attr \in Attributes /\ list \in Seq(Element) /\ ~ attr.simple
    BY <1>0, OpenIsSolvent, PatchAssumption
  <1>2. PICK m : m = IF filtered THEN matches(accepted) ELSE DOMAIN list
    OBVIOUS
  <1>3. PICK b : b = IF filtered THEN Charged(clauses) ELSE bill
    OBVIOUS
  <1>4. PICK c : c = IF filtered THEN Checked(clauses) ELSE bill
    OBVIOUS
  <1>5. PICK d : d = bill
    OBVIOUS
  <1>6. PICK cut : cut = [i \in DOMAIN list |->
                  IF i \in m THEN [list[i] EXCEPT ![field] = IF field = "primary" THEN FALSE ELSE None]
                  ELSE list[i]]
    OBVIOUS
  <1>7. PICK xs : xs = Cleared
    OBVIOUS
  <1>8. PICK top : top = {}
    OBVIOUS
  <1>9. \/ Refuse("tooLarge", b)
        \/ Refuse("noTarget", d)
        \/ ~ overdrawn(b) /\ Refuse("mutability", c)
        \/ ~ overdrawn(b) /\ Apply(cut, xs, c, top) /\ UNCHANGED repeated
    BY <1>2, <1>3, <1>4, <1>5, <1>6, <1>7, <1>8 DEF RemoveSub
  <1>10. Covered(b) /\ Afforded(b) /\ (~ overdrawn(b) => Solvent(c))
    <2>1. CASE filtered
      BY <1>0, <1>3, <1>4, <2>1, FilterBills
    <2>2. CASE ~ filtered
      BY <1>1, <1>3, <1>4, <2>2, SolventAffords
    <2> QED
      BY <2>1, <2>2
  <1>11. Covered(d) /\ Afforded(d)
    BY <1>1, <1>5, SolventAffords
  <1>12. ~ overdrawn(b) => Covered(c) /\ Afforded(c)
    BY <1>10, SolventAffords
  <1>13. CASE Refuse("tooLarge", b) \/ Refuse("noTarget", d)
              \/ (~ overdrawn(b) /\ Refuse("mutability", c))
    BY <1>10, <1>11, <1>12, <1>13, Refuses DEF Outcome
  <1>14. CASE ~ overdrawn(b) /\ Apply(cut, xs, c, top) /\ UNCHANGED repeated
    <2>1. ASSUME NEW i \in DOMAIN list
          PROVE  /\ cut[i] \in Element
                 /\ cut[i].id \in {list[i].id, None} /\ (cut[i].primary => list[i].primary)
      <3>1. list[i] \in Element
        BY <1>1
      <3>2. CASE i \in m
        <4>1. cut[i] = [list[i] EXCEPT ![field] = IF field = "primary" THEN FALSE ELSE None]
          BY <1>6, <3>2
        <4> QED
          BY <3>1, <4>1, CutIs
      <3>3. CASE i \notin m
        BY <1>6, <3>1, <3>3
      <3> QED
        BY <3>2, <3>3
    <2>2. cut \in Seq(Element) /\ DOMAIN cut = DOMAIN list
      BY <1>1, <1>6, <2>1, RewrittenIs
    <2>3. Contest(cut) => top = {} /\ contested
      <3>1. Contest(cut) => Contest(list)
        BY <2>1, <2>2, Zenon DEF Contest
      <3> QED
        BY <1>8, <3>1 DEF PatchInv
    <2>4. NeverPrimary(attr, cut)
      BY <1>1 DEF NeverPrimary
    <2>5. xs \in [Spellings -> Index] /\ Indexed(xs, attr, cut)
      BY <1>1, <1>7, <2>2, ClearedIs
    <2>6. Repeats(attr, cut) => Repeats(attr, list)
      <3>1. \A i \in DOMAIN list : Key(attr, cut[i]) # None => Key(attr, cut[i]) = Key(attr, list[i])
        BY <1>0, <2>1 DEF Key
      <3> QED
        BY <2>2, <3>1, Zenon DEF Repeats
    <2>7. repeated' \in BOOLEAN /\ (Filterable /\ ~ repeated' => ~ Repeats(attr, cut))
      BY <1>14, <2>6 DEF PatchInv, TypeOK, NoRepeats
    <2> QED
      BY <1>10, <1>14, <2>2, <2>3, <2>4, <2>5, <2>7, Applies
  <1> QED
    BY <1>9, <1>13, <1>14

LEMMA UnaimedKeeps ==
    ASSUME PatchInv, Unaimed
    PROVE  PatchInv'
  <1>1. PICK b : b = bill
    OBVIOUS
  <1>2. Refuse("invalidPath", b) /\ Covered(b) /\ Afforded(b)
    BY <1>1, OpenIsSolvent, SolventAffords DEF Unaimed
  <1> QED
    BY <1>2, Refuses DEF Outcome

LEMMA FinishKeeps ==
    ASSUME PatchInv, Finish
    PROVE  PatchInv'
  <1>1. /\ UNCHANGED <<attr, list, indexes, bill, ops, contested, repeated>>
        /\ status' \in {"invalidValue", "done"}
    BY DEF Finish
  <1>2. TypeOK'
    BY <1>1 DEF PatchInv, TypeOK, Outcome
  <1>3. status' # "open" /\ Covered(bill)' /\ Afforded(bill)'
    BY <1>1 DEF PatchInv, Covered, Afforded
  <1>4. /\ Indexed(indexes, attr, list)'
        /\ NeverPrimary(attr, list)'
        /\ (Contest(list) => contested)'
        /\ NoRepeats'
    BY <1>1 DEF PatchInv, Indexed, NeverPrimary, Contest, NoRepeats, Filterable
  <1> QED
    BY <1>2, <1>3, <1>4 DEF PatchInv

-----------------------------------------------------------------------------
LEMMA PatchStarts ==
    ASSUME Init
    PROVE  PatchInv
  <1>1. attr \in Attributes /\ list \in Held(attr)
    BY DEF Init
  <1>2. /\ list \in Seq(Element) /\ NeverPrimary(attr, list)
        /\ Cardinality(Primaries(list)) <= 1
    BY <1>1, PatchAssumption DEF NeverPrimary
  <1>3. indexes \in [Spellings -> Index] /\ Indexed(indexes, attr, list)
    BY <1>1, <1>2, ClearedIs DEF Init
  <1>4. ~ Contest(list)
    <2>1. Primaries(list) \in SUBSET DOMAIN list
      BY DEF Primaries
    <2>2. Cardinality(Primaries(list)) \in Nat
      BY <1>2, <2>1, PositionsFinite
    <2> QED
      BY <1>2, <2>2, ContestCounted
  <1>5. Solvent(bill) /\ status = "open"
    BY PatchAssumption DEF Init, Solvent, Covered, overdrawn, Bill
  <1>6. Covered(bill) /\ Afforded(bill) /\ ~ overdrawn(bill) /\ bill \in Bill
    BY <1>5, SolventAffords DEF Solvent, Covered
  <1>7. /\ contested = FALSE /\ repeated = Repeats(attr, list) /\ ops = 0
        /\ status \in Outcome
    BY DEF Init, Outcome
  <1>8. contested \in BOOLEAN /\ repeated \in BOOLEAN /\ ops \in Nat
    <2>1. Repeats(attr, list) \in BOOLEAN
      BY DEF Repeats
    <2> QED
      BY <1>7, <2>1
  <1>9. TypeOK
    BY <1>1, <1>2, <1>3, <1>6, <1>7, <1>8 DEF TypeOK
  <1>10. NoRepeats
    BY <1>7 DEF NoRepeats
  <1> QED
    BY <1>2, <1>3, <1>4, <1>6, <1>9, <1>10 DEF PatchInv

LEMMA Clausal == Clauses \subseteq Nat
  BY PatchAssumption

LEMMA PatchKeeps ==
    ASSUME PatchInv, [Next]_vars
    PROVE  PatchInv'
  <1>1. ASSUME NEW incoming \in Incoming(attr), NEW sp \in Spellings, Add(sp, incoming)
        PROVE  PatchInv'
    BY <1>1, AddKeeps
  <1>2. ASSUME NEW incoming \in Incoming(attr), Replace(incoming)
        PROVE  PatchInv'
    BY <1>2, ReplaceKeeps
  <1>3. ASSUME NEW accepted \in SUBSET ToSet(list), NEW clauses \in Clauses, NEW change \in Changes,
               PutMatching(accepted, clauses, change)
        PROVE  PatchInv'
    BY <1>3, PutKeeps, Clausal
  <1>4. ASSUME NEW accepted \in SUBSET ToSet(list), NEW clauses \in Clauses, NEW v \in Ids,
               ReplaceMatching(accepted, clauses, [id |-> v, primary |-> FALSE, lock |-> None])
        PROVE  PatchInv'
    <2>1. PICK e : e = [id |-> v, primary |-> FALSE, lock |-> None]
      OBVIOUS
    <2>2. e \in Element /\ ~ e.primary
      BY <2>1 DEF Element
    <2>3. ReplaceMatching(accepted, clauses, e)
      BY <1>4, <2>1
    <2> QED
      BY <2>2, <2>3, ReplaceMatchingKeeps, Clausal
  <1>5. ASSUME NEW accepted \in SUBSET ToSet(list), NEW clauses \in Clauses,
               RemoveMatching(accepted, clauses)
        PROVE  PatchInv'
    BY <1>5, RemoveMatchingKeeps, Clausal
  <1>6. ASSUME NEW accepted \in SUBSET ToSet(list), NEW clauses \in Clauses,
               NEW field \in {"id", "primary", "lock"}, RemoveSub(TRUE, accepted, clauses, field)
        PROVE  PatchInv'
    BY <1>6, RemoveSubKeeps, Clausal
  <1>7. ASSUME NEW field \in {"id", "primary", "lock"}, RemoveSub(FALSE, {}, 0, field)
        PROVE  PatchInv'
    BY <1>7, RemoveSubKeeps
  <1>8. CASE Filtered
    BY <1>3, <1>4, <1>5, <1>6, <1>8, Zenon DEF Filtered
  <1>9. CASE UNCHANGED vars
    <2>1. UNCHANGED <<attr, list, indexes, bill, status, ops, contested, repeated>>
      BY <1>9 DEF vars
    <2> QED
      BY <2>1 DEF PatchInv, TypeOK, Indexed, NeverPrimary, Contest, NoRepeats, Filterable,
                  Covered, Afforded, overdrawn
  <1> QED
    BY <1>1, <1>2, <1>7, <1>8, <1>9, RemoveAllKeeps, UnaimedKeeps, FinishKeeps, Zenon DEF Next

(***************************************************************************)
(* Every state of a PATCH request satisfies the inductive invariant.       *)
(***************************************************************************)
THEOREM PatchSafety == Spec => []PatchInv
  <1>1. Init => PatchInv
    BY PatchStarts
  <1>2. PatchInv /\ [Next]_vars => PatchInv'
    BY PatchKeeps
  <1> QED
    BY <1>1, <1>2, PTL DEF Spec

(***************************************************************************)
(* An index that an add would use describes the list as it is, under       *)
(* whichever spelling and after whatever operations (index.go).            *)
(***************************************************************************)
THEOREM PatchIndex == Spec => []IndexExact
  <1>1. PatchInv => IndexExact
    BY DEF PatchInv, Indexed, IndexExact
  <1> QED
    BY <1>1, PatchSafety, PTL

(***************************************************************************)
(* Two elements are primary only when one operation named both             *)
(* (listAdd.demoteIfPromoted).                                             *)
(***************************************************************************)
THEOREM PatchPrimary == Spec => []OnePrimary
  <1>1. PatchInv => OnePrimary
    BY ContestCounted DEF PatchInv, TypeOK, OnePrimary
  <1> QED
    BY <1>1, PatchSafety, PTL

(***************************************************************************)
(* No operation repeats a value that the attribute holds (listAdd.fresh,   *)
(* value.Unique, replacer.keeps).                                          *)
(***************************************************************************)
THEOREM PatchRepeats == Spec => []NoRepeats
  <1>1. PatchInv => NoRepeats
    BY DEF PatchInv
  <1> QED
    BY <1>1, PatchSafety, PTL

(***************************************************************************)
(* The work of a request, however many operations and clauses it has,      *)
(* stays within the two budgets (budget.go).                               *)
(***************************************************************************)
THEOREM PatchBudget == Spec => []WorkWithinBudget
  <1>1. PatchInv => WorkWithinBudget
    BY DEF PatchInv, Afforded, WorkWithinBudget
  <1> QED
    BY <1>1, PatchSafety, PTL

-----------------------------------------------------------------------------
(* What no operation does.                                                 *)

\* Only keyed attributes are written into; of any other, the gate sees the list before and after.
LEMMA ImmutableStep ==
    ASSUME PatchInv, [Next]_vars, attr.immutable, ~ attr.keyed, list # <<>>
    PROVE  list' = list
  <1>0. attr \in Attributes /\ list \in Seq(Element)
    BY DEF PatchInv, TypeOK
  <1>1. \A after : ~ refusesList(after) => after = list
    BY DEF refusesList
  <1>2. ASSUME NEW incoming \in Incoming(attr), NEW sp \in Spellings, Add(sp, incoming)
        PROVE  list' = list
    <2>1. PICK ix : ix = lookup(sp)
      OBVIOUS
    <2>2. ix = newIndex(attr, list)
      BY <2>1, LookupExact
    <2>3. PICK added : added = Unique(attr, fresh(ix, incoming))
      OBVIOUS
    <2>4. added \in Seq(Element)
      BY <2>2, <2>3, AddedIs
    <2>5. PICK kept : kept = IF promotes(added) THEN demote(list, DOMAIN list \ ix.primaries) ELSE list
      OBVIOUS
    <2>6. \/ list' = list
          \/ ~ refusesList(list \o added) /\ list' = kept \o added
      BY <1>2, <2>1, <2>3, <2>5 DEF Add, Refuse, Apply
    <2>7. CASE ~ refusesList(list \o added) /\ list' = kept \o added
      <3>1. list \o added = list
        BY <1>1, <2>7
      <3>2. Len(list) + Len(added) = Len(list) /\ Len(list) \in Nat /\ Len(added) \in Nat
        BY <1>0, <2>4, <3>1, Concatenated
      <3>3. DOMAIN added = {}
        BY <2>4, <3>2
      <3>4. kept = list
        BY <2>5, <3>3 DEF promotes, Primaries
      <3> QED
        BY <2>7, <3>1, <3>4
    <2> QED
      BY <2>6, <2>7
  <1>3. ASSUME NEW incoming \in Incoming(attr), Replace(incoming)
        PROVE  list' = list
    <2>1. PICK u : u = Unique(attr, incoming)
      OBVIOUS
    <2>2. \/ list' = list
          \/ ~ refusesList(u) /\ list' = carryForward(u)
      BY <1>3, <2>1 DEF Replace, Refuse, Apply
    <2>3. CASE ~ refusesList(u) /\ list' = carryForward(u)
      <3>1. u = list
        BY <1>1, <2>3
      <3>2. PICK c : c = carryForward(list)
        OBVIOUS
      <3>3. c \in Seq(Element) /\ DOMAIN c = DOMAIN list /\ \A i \in DOMAIN list : c[i] = list[i]
        BY <1>0, <3>2, CarriedIs
      <3>4. Len(c) = Len(list) /\ \A i \in 1 .. Len(list) : c[i] = list[i]
        BY <1>0, <3>3
      <3>5. c = list
        BY <1>0, <3>3, <3>4, SameElements
      <3> QED
        BY <2>3, <3>1, <3>2, <3>5
    <2> QED
      BY <2>2, <2>3
  <1>4. ASSUME NEW accepted, NEW clauses, NEW v, ReplaceMatching(accepted, clauses, v)
        PROVE  list' = list
    BY <1>1, <1>4 DEF ReplaceMatching, Refuse, Apply
  <1>5. ASSUME NEW accepted, NEW clauses, RemoveMatching(accepted, clauses)
        PROVE  list' = list
    <2>1. PICK m \in SUBSET DOMAIN list : m = matches(accepted)
      BY DEF matches
    <2>2. PICK rest : rest = Selected(list, DOMAIN list \ m)
      OBVIOUS
    <2>3. \/ list' = list
          \/ (m # {} => ~ refusesList(rest)) /\ list' = rest
      BY <1>5, <2>1, <2>2 DEF RemoveMatching, Refuse, Apply
    <2>4. m = {} => rest = list
      <3>1. PICK P : P = DOMAIN list \ m
        OBVIOUS
      <3>2. m = {} => DOMAIN list \subseteq P
        BY <3>1
      <3> QED
        BY <1>0, <2>2, <3>1, <3>2, DroppedNone
    <2> QED
      BY <1>1, <2>3, <2>4
  <1>6. ASSUME RemoveAll
        PROVE  list' = list
    BY <1>6 DEF RemoveAll, Refuse, Apply
  <1>7. ASSUME NEW accepted, NEW clauses, NEW change, PutMatching(accepted, clauses, change)
        PROVE  FALSE
    BY <1>7 DEF PutMatching
  <1>8. ASSUME NEW filtered, NEW accepted, NEW clauses, NEW field,
               RemoveSub(filtered, accepted, clauses, field)
        PROVE  FALSE
    BY <1>8 DEF RemoveSub
  <1>9. Unaimed \/ Finish \/ UNCHANGED vars => list' = list
    BY DEF Unaimed, Refuse, Finish, vars
  <1>10. CASE Filtered
    BY <1>4, <1>5, <1>7, <1>8, <1>10, Zenon DEF Filtered
  <1> QED
    BY <1>2, <1>3, <1>6, <1>8, <1>9, <1>10, Zenon DEF Next

(***************************************************************************)
(* An immutable attribute without sub-attributes, once it holds values,    *)
(* keeps them through every operation (gateImmutableWrite).                *)
(***************************************************************************)
THEOREM PatchImmutableSimple ==
    Spec => [][attr.immutable /\ ~ attr.keyed /\ list # <<>> => list' = list]_vars
  <1>1. PatchInv /\ [Next]_vars =>
          [attr.immutable /\ ~ attr.keyed /\ list # <<>> => list' = list]_vars
    BY ImmutableStep
  <1> QED
    BY <1>1, PatchSafety, PTL DEF Spec

(***************************************************************************)
(* Where no complex attribute is immutable, ImmutableListKept holds: the   *)
(* one way to change an immutable list is into the elements of a complex   *)
(* one, which the run of an immutable complex attribute shows to happen    *)
(* (merger.go).                                                            *)
(***************************************************************************)
THEOREM PatchImmutable ==
    ASSUME \A a \in Attributes : ~ (a.immutable /\ a.keyed)
    PROVE  Spec => ImmutableListKept
  <1>1. PatchInv /\ [Next]_vars => [attr.immutable /\ list # <<>> => list' = list]_vars
    BY ImmutableStep DEF PatchInv, TypeOK
  <1> QED
    BY <1>1, PatchSafety, PTL DEF Spec, ImmutableListKept

-----------------------------------------------------------------------------
LEMMA OneOfEach ==
    ASSUME PatchInv, attr.keyed, ~ repeated, NEW i \in DOMAIN list, list[i].id # None,
           NEW k \in DOMAIN list, list[k].id = list[i].id
    PROVE  k = i
  BY DEF PatchInv, NoRepeats, Filterable, Repeats, Key

LEMMA LockUnchanged ==
    ASSUME PatchInv, NEW i \in DOMAIN list, NEW j \in DOMAIN list', list' = list, Relocked(i, j)
    PROVE  FALSE
  <1>1. j \in DOMAIN list /\ list[j].id = list[i].id /\ list[j].lock # list[i].lock
    BY DEF Relocked
  <1>2. j = i
    BY <1>1, OneOfEach DEF Relocked
  <1> QED
    BY <1>1, <1>2

LEMMA LockAdd ==
    ASSUME PatchInv, NEW i \in DOMAIN list, NEW j \in DOMAIN list', Relocked(i, j),
           NEW incoming \in Incoming(attr), NEW sp \in Spellings, Add(sp, incoming)
    PROVE  FALSE
  <1>1. PICK ix : ix = lookup(sp)
    OBVIOUS
  <1>2. ix = newIndex(attr, list) /\ ix.primaries = Primaries(list)
    BY <1>1, LookupExact DEF newIndex
  <1>3. PICK added : added = Unique(attr, fresh(ix, incoming))
    OBVIOUS
  <1>4. PICK kept : kept = IF promotes(added) THEN demote(list, DOMAIN list \ Primaries(list)) ELSE list
    OBVIOUS
  <1>5. PICK after : after = kept \o added
    OBVIOUS
  <1>6. list' = list \/ list' = after
    BY <1>1, <1>2, <1>3, <1>4, <1>5 DEF Add, Refuse, Apply
  <1>7. CASE list' = list
    BY <1>7, LockUnchanged
  <1>8. CASE list' = after
    <2>1. Appends(added, kept, after)
      BY <1>2, <1>3, <1>4, <1>5, AddedIs DEF Appends
    <2>2. Extended(added, after)
      BY <2>1, AppendedIs
    <2>3. /\ j \in DOMAIN after /\ after[j].id = list[i].id /\ after[j].lock # list[i].lock
          /\ attr.keyed /\ ~ repeated /\ list[i].id # None
      BY <1>8 DEF Relocked
    <2>4. CASE j \in DOMAIN list
      <3>1. list[j].id = list[i].id /\ after[j].lock = list[j].lock
        BY <2>2, <2>3, <2>4 DEF Extended
      <3>2. j = i
        BY <2>3, <2>4, <3>1, OneOfEach
      <3> QED
        BY <2>3, <3>1, <3>2
    <2>5. CASE j \notin DOMAIN list
      <3>1. PICK k \in DOMAIN added : after[j] = added[k]
        BY <2>2, <2>3, <2>5 DEF Extended
      <3>2. Key(attr, added[k]) \notin keysOf(attr, list)
        BY <2>1 DEF Appends
      <3>3. list[i].id \in keysOf(attr, list)
        BY <2>3 DEF keysOf, Key
      <3> QED
        BY <2>3, <3>1, <3>2, <3>3 DEF Key
    <2> QED
      BY <2>4, <2>5
  <1> QED
    BY <1>6, <1>7, <1>8

LEMMA LockReplace ==
    ASSUME PatchInv, NEW i \in DOMAIN list, NEW j \in DOMAIN list', Relocked(i, j),
           NEW incoming \in Incoming(attr), Replace(incoming)
    PROVE  list'[j].lock # None /\ States(incoming, list'[j].id, list'[j].lock)
  <1>0. attr \in Attributes /\ list \in Seq(Element) /\ incoming \in Seq(Element)
    BY PatchAssumption DEF PatchInv, TypeOK
  <1>1. PICK u : u = Unique(attr, incoming)
    OBVIOUS
  <1>2. PICK after : after = carryForward(u)
    OBVIOUS
  <1>3. list' = list \/ list' = after
    BY <1>1, <1>2 DEF Replace, Refuse, Apply
  <1>4. CASE list' = list
    BY <1>4, LockUnchanged
  <1>5. CASE list' = after
    <2>1. u \in Seq(Element)
      BY <1>0, <1>1, UniqueIs
    <2>2. /\ j \in DOMAIN after /\ after[j].id = list[i].id /\ after[j].lock # list[i].lock
          /\ attr.keyed /\ ~ repeated /\ list[i].id # None
      BY <1>5 DEF Relocked
    <2>3. DOMAIN after = DOMAIN u
      BY <1>0, <1>2, <2>1, CarriedIs
    <2>4. j \in DOMAIN u /\ after[j].id = u[j].id /\ (u[j].lock # None => after[j].lock = u[j].lock)
      BY <1>0, <1>2, <2>1, <2>2, <2>3, CarriedIs
    <2>5. ASSUME u[j].lock = None
          PROVE  FALSE
      <3>1. u[j].id \in keysOf(attr, list)
        BY <2>2, <2>4 DEF keysOf, Key
      <3>2. PICK k \in DOMAIN list : list[k].id = u[j].id /\ after[j].lock = list[k].lock
        BY <1>0, <1>2, <2>1, <2>2, <2>4, <2>5, <3>1, CarriedIs
      <3>3. k = i
        BY <2>2, <2>4, <3>2, OneOfEach
      <3> QED
        BY <2>2, <3>2, <3>3
    <2>6. PICK k \in DOMAIN incoming : u[j].id = incoming[k].id /\ u[j].lock = incoming[k].lock
      BY <1>0, <1>1, <2>4, UniqueIs
    <2> QED
      BY <1>5, <2>4, <2>5, <2>6 DEF States
  <1> QED
    BY <1>3, <1>4, <1>5

LEMMA LockPut ==
    ASSUME PatchInv, NEW i \in DOMAIN list, NEW j \in DOMAIN list', Relocked(i, j),
           NEW accepted, NEW clauses, NEW change \in Changes, PutMatching(accepted, clauses, change)
    PROVE  FALSE
  <1>0. list \in Seq(Element) /\ attr.keyed /\ ~ repeated /\ ~ repeated'
    BY DEF PatchInv, TypeOK, Relocked
  <1>1. PICK m \in SUBSET DOMAIN list : m = matches(accepted)
    BY DEF matches
  <1>2. PICK put : put = [k \in DOMAIN list |-> IF k \in m THEN merge(list[k], change) ELSE list[k]]
    OBVIOUS
  <1>3. \/ list' = list
        \/ /\ \A k \in m : "lock" \in DOMAIN change => ~ refusesLock(list[k], change.lock)
           /\ list' = demote(put, m) \/ list' = put
           /\ repeated' = (repeated \/ "id" \in DOMAIN change)
    BY <1>1, <1>2 DEF PutMatching, Refuse, Apply
  <1>4. CASE list' = list
    BY <1>4, LockUnchanged
  <1>5. CASE /\ \A k \in m : "lock" \in DOMAIN change => ~ refusesLock(list[k], change.lock)
             /\ list' = demote(put, m) \/ list' = put
             /\ repeated' = (repeated \/ "id" \in DOMAIN change)
    <2>1. "id" \notin DOMAIN change
      BY <1>0, <1>5
    <2>2. ASSUME NEW k \in DOMAIN list
          PROVE  /\ put[k] \in Element /\ put[k].id = list[k].id
                 /\ list[k].lock \in Locks => put[k].lock = list[k].lock
      <3>1. list[k] \in Element
        BY <1>0
      <3>2. CASE k \in m
        <4>1. put[k] = merge(list[k], change)
          BY <1>2, <3>2
        <4>2. /\ put[k] \in Element /\ put[k].id = list[k].id
              /\ "lock" \notin DOMAIN change => put[k].lock = list[k].lock
              /\ "lock" \in DOMAIN change => put[k].lock = change.lock
          BY <2>1, <3>1, <4>1, MergedIs
        <4> QED
          BY <1>5, <3>2, <4>2 DEF refusesLock
      <3>3. CASE k \notin m
        BY <1>2, <3>1, <3>3
      <3> QED
        BY <3>2, <3>3
    <2>3. put \in Seq(Element) /\ DOMAIN put = DOMAIN list
      BY <1>0, <1>2, <2>2, RewrittenIs
    <2>4. PICK after : after = list'
      OBVIOUS
    <2>5. /\ DOMAIN after = DOMAIN list
          /\ \A k \in DOMAIN list : after[k].id = put[k].id /\ after[k].lock = put[k].lock
      BY <1>5, <2>3, <2>4, DemotedIs
    <2>6. /\ j \in DOMAIN list /\ after[j].id = list[i].id /\ after[j].lock # list[i].lock
          /\ list[i].id # None /\ list[i].lock \in Locks
      BY <2>4, <2>5 DEF Relocked
    <2>7. j = i
      BY <1>0, <2>2, <2>5, <2>6, OneOfEach
    <2> QED
      BY <2>2, <2>5, <2>6, <2>7
  <1> QED
    BY <1>3, <1>4, <1>5

LEMMA LockRemoveMatching ==
    ASSUME PatchInv, NEW i \in DOMAIN list, NEW j \in DOMAIN list', Relocked(i, j),
           NEW accepted, NEW clauses, RemoveMatching(accepted, clauses)
    PROVE  FALSE
  <1>0. list \in Seq(Element)
    BY DEF PatchInv, TypeOK
  <1>1. PICK m \in SUBSET DOMAIN list : m = matches(accepted)
    BY DEF matches
  <1>2. PICK rest : rest = Selected(list, DOMAIN list \ m)
    OBVIOUS
  <1>3. list' = list \/ list' = rest
    BY <1>1, <1>2 DEF RemoveMatching, Refuse, Apply
  <1>4. CASE list' = list
    BY <1>4, LockUnchanged
  <1>5. CASE list' = rest
    <2>1. FromList(rest)
      BY <1>0, <1>2, DroppedIs
    <2>2. /\ j \in DOMAIN rest /\ rest[j].id = list[i].id /\ rest[j].lock # list[i].lock
          /\ attr.keyed /\ ~ repeated /\ list[i].id # None
      BY <1>5 DEF Relocked
    <2>3. PICK k \in DOMAIN list : rest[j] = list[k]
      BY <2>1, <2>2 DEF FromList
    <2>4. k = i
      BY <2>2, <2>3, OneOfEach
    <2> QED
      BY <2>2, <2>3, <2>4
  <1> QED
    BY <1>3, <1>4, <1>5

LEMMA LockRemoveSub ==
    ASSUME PatchInv, NEW i \in DOMAIN list, NEW j \in DOMAIN list', Relocked(i, j),
           NEW filtered \in BOOLEAN, NEW accepted, NEW clauses,
           NEW field \in {"id", "primary", "lock"}, RemoveSub(filtered, accepted, clauses, field)
    PROVE  FALSE
  <1>0. list \in Seq(Element)
    BY DEF PatchInv, TypeOK
  <1>1. PICK m : m = IF filtered THEN matches(accepted) ELSE DOMAIN list
    OBVIOUS
  <1>2. PICK cut : cut = [k \in DOMAIN list |->
                  IF k \in m THEN [list[k] EXCEPT ![field] = IF field = "primary" THEN FALSE ELSE None]
                  ELSE list[k]]
    OBVIOUS
  <1>3. \/ list' = list
        \/ /\ field = "lock" => \A k \in m : ~ refusesLock(list[k], None)
           /\ list' = cut
    BY <1>1, <1>2 DEF RemoveSub, Refuse, Apply
  <1>4. CASE list' = list
    BY <1>4, LockUnchanged
  <1>5. CASE /\ field = "lock" => \A k \in m : ~ refusesLock(list[k], None)
             /\ list' = cut
    <2>1. ASSUME NEW k \in DOMAIN list
          PROVE  cut[k].id \in {list[k].id, None} /\ (list[k].lock \in Locks => cut[k].lock = list[k].lock)
      <3>1. CASE k \in m
        <4>1. list[k] \in Element
          BY <1>0
        <4>2. cut[k] = [list[k] EXCEPT ![field] = IF field = "primary" THEN FALSE ELSE None]
          BY <1>2, <3>1
        <4>3. cut[k].id \in {list[k].id, None} /\ (field # "lock" => cut[k].lock = list[k].lock)
          <5>1. PICK e \in Element : e = list[k]
            BY <4>1
          <5>2. PICK r : r = cut[k]
            OBVIOUS
          <5>3. r = [e EXCEPT ![field] = IF field = "primary" THEN FALSE ELSE None]
            BY <4>2, <5>1, <5>2
          <5>4. r.id \in {e.id, None}
            BY <5>3, CutIs
          <5>5. field # "lock" => r.lock = e.lock
            BY <5>3 DEF Element
          <5> QED
            BY <5>1, <5>2, <5>4, <5>5
        <4>4. field = "lock" => list[k].lock \notin Locks
          BY <1>5, <3>1, PatchAssumption DEF refusesLock
        <4> QED
          BY <4>3, <4>4
      <3>2. CASE k \notin m
        BY <1>2, <3>2
      <3> QED
        BY <3>1, <3>2
    <2>2. DOMAIN cut = DOMAIN list
      BY <1>2
    <2>3. /\ j \in DOMAIN list /\ cut[j].id = list[i].id /\ cut[j].lock # list[i].lock
          /\ attr.keyed /\ ~ repeated /\ list[i].id # None /\ list[i].lock \in Locks
      BY <1>5, <2>2 DEF Relocked
    <2>4. j = i
      BY <2>1, <2>3, OneOfEach
    <2> QED
      BY <2>1, <2>3, <2>4
  <1> QED
    BY <1>3, <1>4, <1>5

LEMMA LockStep ==
    ASSUME PatchInv, Next, NEW i \in DOMAIN list, NEW j \in DOMAIN list', Relocked(i, j)
    PROVE  /\ list'[j].lock # None
           /\ \E incoming \in Incoming(attr) :
                 Replace(incoming) /\ States(incoming, list'[j].id, list'[j].lock)
  <1>1. ASSUME NEW incoming \in Incoming(attr), Replace(incoming)
        PROVE  list'[j].lock # None /\ States(incoming, list'[j].id, list'[j].lock)
    BY <1>1, LockReplace
  <1>2. ASSUME NEW incoming \in Incoming(attr), NEW sp \in Spellings, Add(sp, incoming)
        PROVE  FALSE
    BY <1>2, LockAdd
  <1>3. ASSUME NEW accepted, NEW clauses, NEW v, ReplaceMatching(accepted, clauses, v)
        PROVE  FALSE
    BY <1>3, PatchAssumption DEF ReplaceMatching, Relocked, PatchInv, TypeOK
  <1>4. ASSUME RemoveAll
        PROVE  FALSE
    <2>1. CASE list' = list
      BY <2>1, LockUnchanged
    <2>2. CASE list' = <<>>
      BY <2>2
    <2> QED
      BY <1>4, <2>1, <2>2 DEF RemoveAll, Refuse, Apply
  <1>5. ASSUME Unaimed \/ Finish
        PROVE  FALSE
    BY <1>5, LockUnchanged DEF Unaimed, Finish, Refuse
  <1>6. ASSUME NEW accepted, NEW clauses, NEW change \in Changes,
               PutMatching(accepted, clauses, change)
        PROVE  FALSE
    BY <1>6, LockPut
  <1>7. ASSUME NEW accepted, NEW clauses, RemoveMatching(accepted, clauses)
        PROVE  FALSE
    BY <1>7, LockRemoveMatching
  <1>8. ASSUME NEW filtered \in BOOLEAN, NEW accepted, NEW clauses,
               NEW field \in {"id", "primary", "lock"}, RemoveSub(filtered, accepted, clauses, field)
        PROVE  FALSE
    BY <1>8, LockRemoveSub
  <1>9. ASSUME Filtered
        PROVE  FALSE
    <2>1. TRUE \in BOOLEAN
      OBVIOUS
    <2> QED
      BY <1>3, <1>6, <1>7, <1>8, <1>9, <2>1, Zenon DEF Filtered
  <1>10. FALSE \in BOOLEAN
    OBVIOUS
  <1>11. \E incoming \in Incoming(attr) : Replace(incoming)
    BY <1>2, <1>4, <1>5, <1>8, <1>9, <1>10, Zenon DEF Next
  <1> QED
    BY <1>1, <1>11

(***************************************************************************)
(* An element that stays in a list keeps its immutable sub-attribute when  *)
(* it is left out and whatever a filter selects; only a replacement of the *)
(* whole list changes it, to the value or the null that the client states  *)
(* for that element (carryForward, gateImmutableWrite).  LockMatches,      *)
(* which allows no change at all, does not hold.                           *)
(***************************************************************************)
THEOREM PatchLocks == Spec => LockKept
  <1> DEFINE Kept ==
        \A i \in DOMAIN list, j \in DOMAIN list' :
          Relocked(i, j) =>
              /\ list'[j].lock # None
              /\ \E incoming \in Incoming(attr) :
                    Replace(incoming) /\ States(incoming, list'[j].id, list'[j].lock)
  <1>1. PatchInv /\ [Next]_vars => [Kept]_vars
    BY LockStep, Zenon
  <1> QED
    BY <1>1, PatchSafety, PTL DEF Spec, LockKept
=============================================================================
