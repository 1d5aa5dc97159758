-------------------------- MODULE SelectionProofs --------------------------
(***************************************************************************)
(* What Selected returns, for every sequence.  The induction theorems of   *)
(* the library range over operators; here induction is over a set of       *)
(* natural numbers, from the fact that < is well founded on them.          *)
(***************************************************************************)
EXTENDS Selections, WellFoundedInduction, TLAPS

Less == {pair \in Nat \X Nat : pair[1] < pair[2]}

LEMMA LeastElement ==
    ASSUME NEW S \in SUBSET Nat, S # {}
    PROVE  \E n \in S : \A m \in S : n <= m
  <1>1. IsWellFoundedOn(Less, Nat)
    BY NatLessThanWellFounded DEF OpToRel, Less
  <1>2. PICK n \in S : \A m \in S : <<m, n>> \notin Less
    BY <1>1, WFMin
  <1>3. \A m \in S : ~(m < n)
    BY <1>2 DEF Less
  <1> QED
    BY <1>3

\* Induction, for a property given as the set of numbers that have it.
LEMMA SetInduction ==
    ASSUME NEW S, 0 \in S, \A n \in Nat : n \in S => n + 1 \in S
    PROVE  Nat \subseteq S
  <1> SUFFICES ASSUME Nat \ S # {}
               PROVE  FALSE
    OBVIOUS
  <1>1. PICK n \in Nat \ S : \A m \in Nat \ S : n <= m
    BY LeastElement
  <1>2. n # 0 /\ n - 1 \in Nat /\ n - 1 \in S
    BY <1>1
  <1> QED
    BY <1>1, <1>2

-----------------------------------------------------------------------------
\* The equation that defines SelectedTo, up to some position.
Copies(f, s, P, m) ==
    f = [n \in 0 .. m |-> IF n = 0 THEN <<>>
                          ELSE IF n \in P THEN Append(f[n - 1], s[n]) ELSE f[n - 1]]

LEMMA CopiesExist ==
    ASSUME NEW s, NEW P, NEW L \in Nat
    PROVE  \E f : Copies(f, s, P, L)
  <1> DEFINE S == {m \in Nat : \E f : Copies(f, s, P, m)}
  <1>1. 0 \in S
    <2> DEFINE f == [n \in 0 .. 0 |-> <<>>]
    <2>1. Copies(f, s, P, 0)
      BY DEF Copies
    <2> QED
      BY <2>1
  <1>2. ASSUME NEW m \in Nat, m \in S
        PROVE  m + 1 \in S
    <2>1. PICK f : Copies(f, s, P, m)
      BY <1>2
    <2>2. \A n \in 0 .. m : f[n] = IF n = 0 THEN <<>>
                                   ELSE IF n \in P THEN Append(f[n - 1], s[n]) ELSE f[n - 1]
      BY <2>1 DEF Copies
    <2> DEFINE last == IF m + 1 \in P THEN Append(f[m], s[m + 1]) ELSE f[m]
               g == [n \in 0 .. m + 1 |-> IF n <= m THEN f[n] ELSE last]
    <2>3. ASSUME NEW n \in 0 .. m + 1
          PROVE  g[n] = IF n = 0 THEN <<>>
                        ELSE IF n \in P THEN Append(g[n - 1], s[n]) ELSE g[n - 1]
      <3>1. CASE n = 0
        BY <2>2, <3>1
      <3>2. CASE n \in 1 .. m
        <4>1. n - 1 \in 0 .. m /\ g[n] = f[n] /\ g[n - 1] = f[n - 1] /\ n # 0
          BY <3>2
        <4> QED
          BY <2>2, <3>2, <4>1
      <3>3. CASE n = m + 1
        <4>1. g[n] = last /\ g[n - 1] = f[m] /\ n # 0
          BY <3>3
        <4> QED
          BY <3>3, <4>1
      <3> QED
        BY <3>1, <3>2, <3>3
    <2>4. g = [n \in 0 .. m + 1 |-> g[n]]
      OBVIOUS
    <2> HIDE DEF g
    <2>5. Copies(g, s, P, m + 1)
      BY <2>3, <2>4 DEF Copies
    <2> QED
      BY <2>5
  <1> HIDE DEF S
  <1>3. Nat \subseteq S
    BY <1>1, <1>2, SetInduction
  <1> QED
    BY <1>3 DEF S

LEMMA SelectedToCopies ==
    ASSUME NEW s, NEW P, Len(s) \in Nat
    PROVE  Copies(SelectedTo(s, P), s, P, Len(s))
  <1>1. SelectedTo(s, P) = CHOOSE f : Copies(f, s, P, Len(s))
    BY DEF SelectedTo, Copies
  <1>2. \E f : Copies(f, s, P, Len(s))
    BY CopiesExist
  <1> QED
    BY <1>1, <1>2

-----------------------------------------------------------------------------
\* t is the part of s at the positions of P up to n; h gives where each element was.
Traces(h, t, s, P, n) ==
    /\ h \in [1 .. Len(t) -> P \cap (1 .. n)]
    /\ \A j, k \in 1 .. Len(t) : j < k => h[j] < h[k]
    /\ \A i \in P \cap (1 .. n) : \E k \in 1 .. Len(t) : h[k] = i
    /\ \A k \in 1 .. Len(t) : t[k] = s[h[k]]

Selection(t, s, P, n) ==
    /\ Len(t) <= n
    /\ 1 .. n \subseteq P => Len(t) = n /\ \A k \in 1 .. n : t[k] = s[k]
    /\ \E h : Traces(h, t, s, P, n)

LEMMA SelectionGrows ==
    ASSUME NEW X, NEW s \in Seq(X), NEW P, NEW n \in Nat, n + 1 <= Len(s),
           NEW t \in Seq(X), Selection(t, s, P, n)
    PROVE  LET u == IF n + 1 \in P THEN Append(t, s[n + 1]) ELSE t
           IN  u \in Seq(X) /\ Selection(u, s, P, n + 1)
  <1>0. PICK h : Traces(h, t, s, P, n)
    BY DEF Selection
  <1>1. CASE n + 1 \in P
    <2>0. PICK u : u = Append(t, s[n + 1])
      OBVIOUS
    <2>1. /\ s[n + 1] \in X /\ u \in Seq(X) /\ Len(u) = Len(t) + 1
          /\ \A k \in 1 .. Len(t) : u[k] = t[k]
          /\ u[Len(t) + 1] = s[n + 1]
      BY <2>0
    <2>2. Len(t) \in Nat /\ Len(t) <= n
      BY DEF Selection
    <2>3. PICK L \in Nat : L = Len(t)
      BY <2>2
    <2> DEFINE g == [k \in 1 .. L + 1 |-> IF k <= L THEN h[k] ELSE n + 1]
    <2>4. /\ h \in [1 .. L -> P \cap (1 .. n)]
          /\ \A j, k \in 1 .. L : j < k => h[j] < h[k]
          /\ \A i \in P \cap (1 .. n) : \E k \in 1 .. L : h[k] = i
          /\ \A k \in 1 .. L : t[k] = s[h[k]]
      BY <1>0, <2>3 DEF Traces
    <2>5. g \in [1 .. L + 1 -> P \cap (1 .. n + 1)]
      <3>1. ASSUME NEW k \in 1 .. L + 1
            PROVE  g[k] \in P \cap (1 .. n + 1)
        <4>1. CASE k <= L
          <5>1. h[k] \in P \cap (1 .. n)
            BY <2>4, <4>1
          <5> QED
            BY <4>1, <5>1
        <4>2. CASE k = L + 1
          BY <1>1, <4>2
        <4> QED
          BY <4>1, <4>2
      <3> QED
        BY <3>1
    <2>6. ASSUME NEW j \in 1 .. L + 1, NEW k \in 1 .. L + 1, j < k
          PROVE  g[j] < g[k]
      <3>1. j <= L /\ g[j] = h[j] /\ h[j] \in 1 .. n
        BY <2>4, <2>6
      <3>2. CASE k <= L
        BY <2>4, <2>6, <3>1, <3>2
      <3>3. CASE k = L + 1
        BY <3>1, <3>3
      <3> QED
        BY <3>2, <3>3
    <2>7. ASSUME NEW i \in P \cap (1 .. n + 1)
          PROVE  \E k \in 1 .. L + 1 : g[k] = i
      <3>1. CASE i = n + 1
        <4>1. g[L + 1] = i
          BY <3>1
        <4> QED
          BY <4>1
      <3>2. CASE i # n + 1
        <4>0. i \in P \cap (1 .. n)
          BY <3>2
        <4>1. PICK k \in 1 .. L : h[k] = i
          BY <2>4, <4>0
        <4>2. k \in 1 .. L + 1 /\ g[k] = i
          BY <4>1
        <4> QED
          BY <4>2
      <3> QED
        BY <3>1, <3>2
    <2>8. ASSUME NEW k \in 1 .. L + 1
          PROVE  u[k] = s[g[k]]
      BY <2>1, <2>3, <2>4
    <2> HIDE DEF g
    <2>9. Traces(g, u, s, P, n + 1)
      BY <2>1, <2>3, <2>5, <2>6, <2>7, <2>8 DEF Traces
    <2>10. ASSUME 1 .. n + 1 \subseteq P
           PROVE  Len(u) = n + 1 /\ \A k \in 1 .. n + 1 : u[k] = s[k]
      <3>1. Len(t) = n /\ \A k \in 1 .. n : t[k] = s[k]
        BY <2>10 DEF Selection
      <3> QED
        BY <2>1, <3>1
    <2>11. Selection(u, s, P, n + 1)
      BY <2>1, <2>2, <2>9, <2>10 DEF Selection
    <2> QED
      BY <1>1, <2>0, <2>1, <2>11
  <1>2. CASE n + 1 \notin P
    <2>1. P \cap (1 .. n + 1) = P \cap (1 .. n)
      BY <1>2
    <2>2. Traces(h, t, s, P, n + 1)
      BY <1>0, <2>1 DEF Traces
    <2>3. ~(1 .. n + 1 \subseteq P) /\ Len(t) <= n + 1
      BY <1>2 DEF Selection
    <2> QED
      BY <1>2, <2>2, <2>3 DEF Selection
  <1> QED
    BY <1>1, <1>2

(***************************************************************************)
(* Selected keeps the elements at the positions given, each once, in their *)
(* order; with every position it is the sequence itself.                   *)
(***************************************************************************)
LEMMA Selecting ==
    ASSUME NEW X, NEW s \in Seq(X), NEW P
    PROVE  /\ Selected(s, P) \in Seq(X)
           /\ Selection(Selected(s, P), s, P, Len(s))
  <1>1. PICK f : f = SelectedTo(s, P)
    OBVIOUS
  <1>2. Len(s) \in Nat /\ Copies(f, s, P, Len(s))
    BY <1>1, SelectedToCopies
  <1>3. /\ f[0] = <<>>
        /\ \A n \in Nat : n + 1 <= Len(s) =>
             f[n + 1] = IF n + 1 \in P THEN Append(f[n], s[n + 1]) ELSE f[n]
    <2>1. \A n \in 0 .. Len(s) : f[n] = IF n = 0 THEN <<>>
                               ELSE IF n \in P THEN Append(f[n - 1], s[n]) ELSE f[n - 1]
      BY <1>2 DEF Copies
    <2>2. f[0] = <<>>
      BY <1>2, <2>1
    <2>3. ASSUME NEW n \in Nat, n + 1 <= Len(s)
          PROVE  f[n + 1] = IF n + 1 \in P THEN Append(f[n], s[n + 1]) ELSE f[n]
      <3>1. n + 1 \in 0 .. Len(s) /\ n + 1 # 0 /\ (n + 1) - 1 = n
        BY <2>3
      <3> QED
        BY <2>1, <3>1
    <2> QED
      BY <2>2, <2>3
  <1> DEFINE S == {n \in Nat : n <= Len(s) => f[n] \in Seq(X) /\ Selection(f[n], s, P, n)}
  <1>4. 0 \in S
    <2> DEFINE e == <<>>
    <2>1. e \in Seq(X) /\ Len(e) = 0
      OBVIOUS
    <2>2. Traces(e, e, s, P, 0)
      BY <2>1 DEF Traces
    <2>3. Selection(e, s, P, 0)
      BY <2>1, <2>2 DEF Selection
    <2> QED
      BY <1>3, <2>1, <2>3
  <1>5. ASSUME NEW n \in Nat, n \in S
        PROVE  n + 1 \in S
    <2> SUFFICES ASSUME n + 1 <= Len(s)
                 PROVE  f[n + 1] \in Seq(X) /\ Selection(f[n + 1], s, P, n + 1)
      BY <1>5
    <2>1. PICK t \in Seq(X) : t = f[n] /\ Selection(t, s, P, n)
      BY <1>2, <1>5
    <2>2. f[n + 1] = IF n + 1 \in P THEN Append(t, s[n + 1]) ELSE t
      BY <1>3, <2>1
    <2> QED
      BY <2>1, <2>2, SelectionGrows
  <1> HIDE DEF S
  <1>6. Nat \subseteq S
    BY <1>4, <1>5, SetInduction
  <1>7. f[Len(s)] \in Seq(X) /\ Selection(f[Len(s)], s, P, Len(s))
    BY <1>2, <1>6 DEF S
  <1> QED
    BY <1>1, <1>7 DEF Selected
=============================================================================
