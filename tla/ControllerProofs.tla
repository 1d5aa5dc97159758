-------------------------- MODULE ControllerProofs --------------------------
(***************************************************************************)
(* A PATCH that is answered without a body is predictable, for any number  *)
(* of operations and members: what a sequence of simple operations leaves  *)
(* is shown by induction over their number.                                *)
(***************************************************************************)
EXTENDS Controller, SelectionProofs, TLAPS

-----------------------------------------------------------------------------
\* The equation that defines PatchedTo, up to some operation.
Outcomes(f, ops, body, m) ==
    f = [n \in 0 .. m |-> IF n = 0 THEN {body} ELSE UNION {Effects(ops[n], b) : b \in f[n - 1]}]

LEMMA OutcomesExist ==
    ASSUME NEW ops, NEW body, NEW L \in Nat
    PROVE  \E f : Outcomes(f, ops, body, L)
  <1> DEFINE S == {m \in Nat : \E f : Outcomes(f, ops, body, m)}
  <1>1. 0 \in S
    <2> DEFINE f == [n \in 0 .. 0 |-> {body}]
    <2>1. Outcomes(f, ops, body, 0)
      BY DEF Outcomes
    <2> QED
      BY <2>1
  <1>2. ASSUME NEW m \in Nat, m \in S
        PROVE  m + 1 \in S
    <2>1. PICK f : Outcomes(f, ops, body, m)
      BY <1>2
    <2> DEFINE U(g, n) == UNION {Effects(ops[n], b) : b \in g[n - 1]}
               g == [n \in 0 .. m + 1 |-> IF n = m + 1 THEN U(f, m + 1) ELSE f[n]]
    <2>2. \A n \in 0 .. m : f[n] = IF n = 0 THEN {body} ELSE U(f, n)
      BY <2>1 DEF Outcomes
    <2>3. \A n \in 0 .. m : g[n] = f[n]
      OBVIOUS
    <2>4. \A n \in 0 .. m + 1 : n # 0 => g[n - 1] = f[n - 1]
      BY <2>3
    <2>5. \A n \in 0 .. m + 1 : g[n] = IF n = 0 THEN {body} ELSE U(g, n)
      <3> TAKE n \in 0 .. m + 1
      <3>1. CASE n = m + 1
        <4>1. g[n] = U(f, m + 1)
          BY <3>1
        <4>2. g[n - 1] = f[n - 1]
          BY <2>4, <3>1
        <4> HIDE DEF g
        <4> QED
          BY <3>1, <4>1, <4>2
      <3>2. CASE n # m + 1
        <4>1. n \in 0 .. m /\ g[n] = f[n]
          BY <2>3, <3>2
        <4>2. n # 0 => g[n - 1] = f[n - 1]
          BY <2>4
        <4> HIDE DEF g
        <4> QED
          BY <2>2, <4>1, <4>2
      <3> QED
        BY <3>1, <3>2
    <2>6. g = [n \in 0 .. m + 1 |-> g[n]]
      OBVIOUS
    <2> HIDE DEF g
    <2>7. Outcomes(g, ops, body, m + 1)
      BY <2>5, <2>6 DEF Outcomes
    <2> QED
      BY <2>7
  <1> HIDE DEF S
  <1>3. Nat \subseteq S
    BY <1>1, <1>2, SetInduction
  <1> QED
    BY <1>3 DEF S

LEMMA PatchedToIs ==
    ASSUME NEW ops, NEW body, Len(ops) \in Nat
    PROVE  Outcomes(PatchedTo(ops, body), ops, body, Len(ops))
  <1>1. PatchedTo(ops, body) = CHOOSE f : Outcomes(f, ops, body, Len(ops))
    BY DEF PatchedTo, Outcomes
  <1>2. \E f : Outcomes(f, ops, body, Len(ops))
    BY OutcomesExist
  <1> QED
    BY <1>1, <1>2

-----------------------------------------------------------------------------
(* What simple operations do. *)

\* Operation i is the last of the first n that names the member.
LastOn(ops, m, i, n) ==
    i \in 1 .. n /\ ops[i].value = m /\ \A j \in i + 1 .. n : ops[j].value # m

\* What the sender of the first n operations expects of the body.
Predicted(ops, body, b, n) ==
    /\ b \in Body
    /\ b.label = body.label
    /\ \A m \in Members :
         /\ (\A j \in 1 .. n : ops[j].value # m) => (m \in b.members <=> m \in body.members)
         /\ \A i \in 1 .. n : LastOn(ops, m, i, n) => (m \in b.members <=> ops[i].op = "add")

\* A simple operation decides the membership of the value it names.
LEMMA SimpleEffect ==
    ASSUME NEW op \in Operation, Simple(op), NEW b \in Body, NEW c \in Effects(op, b)
    PROVE  /\ c \in Body /\ c.label = b.label
           /\ \A m \in Members : m \in c.members <=> IF m = op.value THEN op.op = "add" ELSE m \in b.members
  <1>1. ~op.qualified /\ op.name = "members" /\ op.value \in Members
        /\ b.members \in SUBSET Members /\ b.label \in Labels
    BY DEF Simple, Operation, Body
  <1>2. \/ op.op = "add" /\ op.filter = "none"
        \/ op.op = "remove" /\ op.filter = "eq"
    BY DEF Simple, isValueEquality, Operation
  <1>3. CASE op.op = "add" /\ op.filter = "none"
    <2>1. c = [b EXCEPT !.members = @ \cup {op.value}]
      BY <1>1, <1>3 DEF Effects
    <2>2. c \in Body /\ c.label = b.label /\ c.members = b.members \cup {op.value}
      BY <1>1, <2>1 DEF Body
    <2> QED
      BY <1>3, <2>2
  <1>4. CASE op.op = "remove" /\ op.filter = "eq"
    <2>1. c = [b EXCEPT !.members = @ \ {op.value}]
      BY <1>1, <1>4 DEF Effects
    <2>2. c \in Body /\ c.label = b.label /\ c.members = b.members \ {op.value}
      BY <1>1, <2>1 DEF Body
    <2> QED
      BY <1>4, <2>2
  <1> QED
    BY <1>2, <1>3, <1>4

LEMMA OneMore ==
    ASSUME NEW ops \in Seq(Operation), NEW body \in Body, NEW n \in Nat, n + 1 <= Len(ops),
           Simple(ops[n + 1]), NEW b, Predicted(ops, body, b, n), NEW c \in Effects(ops[n + 1], b)
    PROVE  Predicted(ops, body, c, n + 1)
  <1>1. PICK op \in Operation : op = ops[n + 1]
    OBVIOUS
  <1>2. b \in Body /\ b.label = body.label
    BY DEF Predicted
  <1>3. /\ c \in Body /\ c.label = b.label
        /\ \A m \in Members : m \in c.members <=> IF m = op.value THEN op.op = "add" ELSE m \in b.members
    BY <1>1, <1>2, SimpleEffect
  <1>4. ASSUME NEW m \in Members, \A j \in 1 .. n + 1 : ops[j].value # m
        PROVE  m \in c.members <=> m \in body.members
    <2>1. m # op.value /\ \A j \in 1 .. n : ops[j].value # m
      BY <1>1, <1>4
    <2>2. m \in b.members <=> m \in body.members
      BY <2>1 DEF Predicted
    <2> QED
      BY <1>3, <2>1, <2>2
  <1>5. ASSUME NEW m \in Members, NEW i \in 1 .. n + 1, LastOn(ops, m, i, n + 1)
        PROVE  m \in c.members <=> ops[i].op = "add"
    <2>1. CASE i = n + 1
      BY <1>1, <1>3, <1>5, <2>1 DEF LastOn
    <2>2. CASE i # n + 1
      <3>1. i \in 1 .. n /\ n + 1 \in i + 1 .. n + 1
        BY <2>2
      <3>2. m # op.value
        BY <1>1, <1>5, <3>1 DEF LastOn
      <3>3. LastOn(ops, m, i, n)
        BY <1>5, <3>1 DEF LastOn
      <3>4. m \in b.members <=> ops[i].op = "add"
        BY <3>1, <3>3 DEF Predicted
      <3> QED
        BY <1>3, <3>2, <3>4
    <2> QED
      BY <2>1, <2>2
  <1> QED
    BY <1>2, <1>3, <1>4, <1>5 DEF Predicted

\* The outcomes before and after one more operation.
LEMMA OutcomesGrow ==
    ASSUME NEW ops \in Seq(Operation), NEW body, NEW f, f = PatchedTo(ops, body)
    PROVE  /\ f[0] = {body}
           /\ \A n \in Nat : n + 1 <= Len(ops) =>
                f[n + 1] = UNION {Effects(ops[n + 1], c) : c \in f[n]}
  <1>1. Len(ops) \in Nat /\ Outcomes(f, ops, body, Len(ops))
    BY PatchedToIs
  <1>2. f[0] = {body}
    BY <1>1 DEF Outcomes
  <1>3. ASSUME NEW n \in Nat, n + 1 <= Len(ops)
        PROVE  f[n + 1] = UNION {Effects(ops[n + 1], c) : c \in f[n]}
    <2>1. n + 1 \in 0 .. Len(ops) /\ n + 1 # 0 /\ (n + 1) - 1 = n
      BY <1>1, <1>3
    <2>2. \A k \in 0 .. Len(ops) :
             f[k] = IF k = 0 THEN {body} ELSE UNION {Effects(ops[k], c) : c \in f[k - 1]}
      BY <1>1 DEF Outcomes
    <2> QED
      BY <2>1, <2>2
  <1> QED
    BY <1>2, <1>3

LEMMA PatchedIsPredicted ==
    ASSUME NEW ops \in Seq(Operation), \A i \in DOMAIN ops : Simple(ops[i]),
           NEW body \in Body, NEW b \in Patched(ops, body)
    PROVE  Predicted(ops, body, b, Len(ops))
  <1>1. PICK f : f = PatchedTo(ops, body)
    OBVIOUS
  <1>2. Len(ops) \in Nat
    OBVIOUS
  <1>3. f[0] = {body}
    BY <1>1, OutcomesGrow
  <1>4. ASSUME NEW n \in Nat, n + 1 <= Len(ops)
        PROVE  f[n + 1] = UNION {Effects(ops[n + 1], c) : c \in f[n]}
    BY <1>1, <1>4, OutcomesGrow
  <1> DEFINE S == {n \in Nat : n <= Len(ops) => \A c \in f[n] : Predicted(ops, body, c, n)}
  <1>5. 0 \in S
    <2>1. Predicted(ops, body, body, 0)
      BY DEF Predicted
    <2> QED
      BY <1>3, <2>1
  <1>6. ASSUME NEW n \in Nat, n \in S
        PROVE  n + 1 \in S
    <2> SUFFICES ASSUME n + 1 <= Len(ops), NEW c \in f[n + 1]
                 PROVE  Predicted(ops, body, c, n + 1)
      BY <1>6
    <2>1. PICK d \in f[n] : c \in Effects(ops[n + 1], d)
      BY <1>4
    <2>2. Predicted(ops, body, d, n) /\ Simple(ops[n + 1])
      BY <1>2, <1>6, <2>1
    <2> QED
      BY <2>1, <2>2, OneMore
  <1> HIDE DEF S
  <1>7. Nat \subseteq S
    BY <1>5, <1>6, SetInduction
  <1>8. \A c \in f[Len(ops)] : Predicted(ops, body, c, Len(ops))
    BY <1>2, <1>7 DEF S
  <1> QED
    BY <1>1, <1>8 DEF Patched

-----------------------------------------------------------------------------
(* Bodies stay bodies. *)

LEMMA EffectsAreBodies ==
    ASSUME NEW op \in Operation, NEW b \in Body, NEW c \in Effects(op, b)
    PROVE  c \in Body
  <1>1. op.value \in Members /\ b.members \in SUBSET Members /\ b.label \in Labels /\ Bodies \subseteq Body
    BY ControllerAssumption DEF Operation, Body
  <1>2. \/ c \in Bodies
        \/ c = [b EXCEPT !.members = @ \cup {op.value}]
        \/ c = [b EXCEPT !.members = @ \ {op.value}]
        \/ c = [b EXCEPT !.members = @ \cap {op.value}]
        \/ c = [b EXCEPT !.members = {}]
    BY DEF Effects
  <1> QED
    BY <1>1, <1>2 DEF Body

LEMMA PatchedAreBodies ==
    ASSUME NEW ops \in Seq(Operation), NEW body \in Body
    PROVE  Patched(ops, body) \subseteq Body
  <1>1. PICK f : f = PatchedTo(ops, body)
    OBVIOUS
  <1>2. Len(ops) \in Nat
    OBVIOUS
  <1>3. f[0] = {body}
    BY <1>1, OutcomesGrow
  <1>4. ASSUME NEW n \in Nat, n + 1 <= Len(ops)
        PROVE  f[n + 1] = UNION {Effects(ops[n + 1], c) : c \in f[n]}
    BY <1>1, <1>4, OutcomesGrow
  <1> DEFINE S == {n \in Nat : n <= Len(ops) => f[n] \subseteq Body}
  <1>5. 0 \in S
    BY <1>3
  <1>6. ASSUME NEW n \in Nat, n \in S
        PROVE  n + 1 \in S
    <2> SUFFICES ASSUME n + 1 <= Len(ops), NEW c \in f[n + 1]
                 PROVE  c \in Body
      BY <1>6
    <2>1. PICK d \in f[n] : c \in Effects(ops[n + 1], d)
      BY <1>4
    <2>2. d \in Body /\ ops[n + 1] \in Operation
      BY <1>2, <1>6, <2>1
    <2> QED
      BY <2>1, <2>2, EffectsAreBodies
  <1> HIDE DEF S
  <1>7. Nat \subseteq S
    BY <1>5, <1>6, SetInduction
  <1>8. f[Len(ops)] \subseteq Body
    BY <1>2, <1>7 DEF S
  <1> QED
    BY <1>1, <1>8 DEF Patched

-----------------------------------------------------------------------------
(* The invariant of the exchange. *)

Resource == [state : {"unborn", "held", "gone"}, version : Int, body : Body]

\* A PATCH answered without a body had simple operations, and did what they may do.
Quiet(x) ==
    /\ x.ops \in Seq(Operation)
    /\ \A i \in DOMAIN x.ops : Simple(x.ops[i])
    /\ x.before.body \in Body
    /\ x.after.body \in Patched(x.ops, x.before.body)

QuietInv ==
    /\ resource \in Resource
    /\ exchange.verb = "write" /\ exchange.status = "noContent" => Quiet(exchange)

LEMMA RewrittenIs ==
    ASSUME resource \in Resource, NEW body \in Body
    PROVE  Rewritten(body) \in Resource /\ Rewritten(body).body = body
  <1> DEFINE x == [resource EXCEPT !.version = @ + 1]
  <1>1. x \in Resource
    BY DEF Resource
  <1>2. Rewritten(body) = [x EXCEPT !.body = body]
    BY DEF Rewritten
  <1> HIDE DEF x
  <1> QED
    BY <1>1, <1>2 DEF Resource

\* An answer that is not "noContent" says nothing about operations.
LEMMA OtherAnswer ==
    ASSUME NEW verb, NEW h, NEW ops, NEW status, status # "noContent", NEW after \in Resource, NEW sent,
           Answer(verb, h, ops, status, after, sent)
    PROVE  QuietInv'
  <1>1. resource' \in Resource /\ exchange'.status = status
    BY DEF Answer, Exchange
  <1> QED
    BY <1>1 DEF QuietInv

LEMMA Failure ==
    ASSUME QuietInv, NEW verb, NEW h, NEW status, status # "noContent", Fail(verb, h, status)
    PROVE  QuietInv'
  <1>1. resource' = resource /\ exchange'.status = status
    BY DEF Fail, Exchange
  <1> QED
    BY <1>1 DEF QuietInv

LEMMA PatchKeepsQuiet ==
    ASSUME QuietInv, NEW h, NEW ops \in Operations, NEW asked \in BOOLEAN, Patch(h, ops, asked)
    PROVE  QuietInv'
  <1>1. resource \in Resource /\ ops \in Seq(Operation) /\ resource.body \in Body
    BY ControllerAssumption DEF QuietInv, Resource
  <1> DEFINE quiet == noContentEligible(ops, asked)
             AfterIt(body) == IF unchanged(body) THEN [resource EXCEPT !.body = body] ELSE Rewritten(body)
  <1>2. PICK body \in Patched(ops, resource.body) :
           Answer("write", h, ops, IF quiet THEN "noContent" ELSE "ok", AfterIt(body), ~quiet)
    BY DEF Patch
  <1>3. body \in Body
    BY <1>1, <1>2, PatchedAreBodies
  <1>4. AfterIt(body) \in Resource /\ AfterIt(body).body = body
    <2>1. CASE unchanged(body)
      BY <1>1, <1>3, <2>1 DEF Resource
    <2>2. CASE ~unchanged(body)
      BY <1>1, <1>3, <2>2, RewrittenIs
    <2> QED
      BY <2>1, <2>2
  <1>5. PICK after \in Resource : after = AfterIt(body) /\ after.body = body
    BY <1>4
  <1>6. Answer("write", h, ops, IF quiet THEN "noContent" ELSE "ok", after, ~quiet)
    BY <1>2, <1>5
  <1>7. CASE ~quiet
    <2>1. Answer("write", h, ops, "ok", after, TRUE)
      BY <1>6, <1>7
    <2> QED
      BY <2>1, OtherAnswer
  <1>8. CASE quiet
    <2>1. /\ resource' = after
          /\ exchange'.ops = ops /\ exchange'.before = resource /\ exchange'.after = after
      BY <1>6 DEF Answer, Exchange
    <2>2. \A i \in DOMAIN ops : Simple(ops[i])
      BY <1>8 DEF noContentEligible
    <2>3. Quiet(exchange')
      BY <1>1, <1>2, <1>5, <2>1, <2>2 DEF Quiet
    <2> QED
      BY <2>1, <2>3 DEF QuietInv
  <1> QED
    BY <1>7, <1>8

LEMMA InitQuiet == Init => QuietInv
  <1> SUFFICES ASSUME Init
               PROVE  QuietInv
    OBVIOUS
  <1>1. resource \in Resource
    BY ControllerAssumption DEF Init, Resource
  <1>2. exchange.verb = "none"
    BY DEF Init, Idle
  <1> QED
    BY <1>1, <1>2 DEF QuietInv

LEMMA NextQuiet == QuietInv /\ [Next]_vars => QuietInv'
  <1> SUFFICES ASSUME QuietInv, [Next]_vars
               PROVE  QuietInv'
    OBVIOUS
  <1>0. resource \in Resource /\ Bodies \subseteq Body
    BY ControllerAssumption DEF QuietInv
  <1>1. ASSUME Settle
        PROVE  QuietInv'
    <2>1. resource' = resource /\ exchange'.verb = "none"
      BY <1>1 DEF Settle, Idle
    <2> QED
      BY <1>0, <2>1 DEF QuietInv
  <1>2. ASSUME NEW body \in Bodies, Create(body)
        PROVE  QuietInv'
    <2>1. [state |-> "held", version |-> 1, body |-> body] \in Resource
      BY <1>0 DEF Resource
    <2> QED
      BY <1>2, <2>1, OtherAnswer DEF Create
  <1>3. ASSUME NEW body \in Bodies, Elsewhere(body)
        PROVE  QuietInv'
    <2>1. [resource EXCEPT !.state = "gone"] \in Resource
      BY <1>0 DEF Resource
    <2>2. resource' \in Resource /\ exchange' = exchange
      BY <1>0, <1>3, <2>1, RewrittenIs DEF Elsewhere
    <2> QED
      BY <2>2 DEF QuietInv
  <1>4. ASSUME NEW h, ByID(h)
        PROVE  QuietInv'
    BY <1>0, <1>4, OtherAnswer, Failure DEF ByID
  <1>5. ASSUME NEW h, Invalid(h) \/ Refused(h) \/ PatchUnsupported(h)
        PROVE  QuietInv'
    BY <1>5, Failure DEF Invalid, Refused, PatchUnsupported
  <1>6. ASSUME NEW h, Delete(h)
        PROVE  QuietInv'
    <2>1. resource' \in Resource /\ exchange'.status = "deleted"
      BY <1>0, <1>6 DEF Delete, Exchange, Resource
    <2> QED
      BY <2>1 DEF QuietInv
  <1>7. ASSUME NEW h, NEW body \in Bodies, Replace(h, body)
        PROVE  QuietInv'
    <2>1. Rewritten(body) \in Resource
      BY <1>0, RewrittenIs
    <2> QED
      BY <1>7, <2>1, OtherAnswer DEF Replace
  <1>8. ASSUME NEW h, NEW ops \in Operations, NEW asked \in BOOLEAN, Patch(h, ops, asked)
        PROVE  QuietInv'
    BY <1>8, PatchKeepsQuiet
  <1>9. CASE UNCHANGED vars
    BY <1>9 DEF vars, QuietInv
  <1> QED
    BY <1>1, <1>2, <1>3, <1>4, <1>5, <1>6, <1>7, <1>8, <1>9, Zenon DEF Next, Request

-----------------------------------------------------------------------------
\* The last operation that names a member.
LEMMA MaxIsLast ==
    ASSUME NEW L \in Nat, NEW N \in SUBSET (1 .. L), N # {}
    PROVE  Max(N) \in N /\ \A j \in N : j <= Max(N)
  <1> DEFINE T == {k \in Nat : L - k \in N}
  <1>1. T # {}
    <2>1. PICK i \in N : TRUE
      OBVIOUS
    <2>2. L - i \in Nat /\ L - (L - i) = i
      BY <2>1
    <2> QED
      BY <2>1, <2>2
  <1>2. PICK k \in T : \A l \in T : k <= l
    BY <1>1, LeastElement
  <1>3. ASSUME NEW j \in N
        PROVE  L - k >= j
    <2>1. L - j \in Nat /\ L - (L - j) = j
      OBVIOUS
    <2>2. L - j \in T
      BY <2>1
    <2>3. k <= L - j
      BY <1>2, <2>2
    <2> QED
      BY <2>3
  <1>4. \E x \in N : \A y \in N : x >= y
    BY <1>2, <1>3
  <1>5. PICK x : x = CHOOSE z \in N : \A y \in N : z >= y
    OBVIOUS
  <1>6. x \in N /\ \A y \in N : x >= y
    BY <1>4, <1>5, Zenon
  <1>7. Max(N) = x
    BY <1>5 DEF Max
  <1> QED
    BY <1>6, <1>7

LEMMA QuietIsPredictable == QuietInv => NoContentIsPredictable
  <1> SUFFICES ASSUME QuietInv, exchange.verb = "write", exchange.status = "noContent"
               PROVE  /\ exchange.after.body.label = exchange.before.body.label
                      /\ \A m \in Members :
                           m \in exchange.after.body.members <=>
                              IF Naming(m) = {} THEN m \in exchange.before.body.members
                              ELSE exchange.ops[Max(Naming(m))].op = "add"
    BY DEF NoContentIsPredictable
  <1>1. PICK ops, body, b :
           /\ ops \in Seq(Operation) /\ body \in Body
           /\ ops = exchange.ops /\ body = exchange.before.body /\ b = exchange.after.body
           /\ b \in Patched(ops, body)
           /\ \A i \in DOMAIN ops : Simple(ops[i])
    BY DEF QuietInv, Quiet
  <1>2. Predicted(ops, body, b, Len(ops)) /\ Len(ops) \in Nat /\ DOMAIN ops = 1 .. Len(ops)
    BY <1>1, PatchedIsPredicted
  <1>3. ASSUME NEW m \in Members
        PROVE  m \in b.members <=> IF Naming(m) = {} THEN m \in body.members
                                  ELSE ops[Max(Naming(m))].op = "add"
    <2>1. PICK N : N = Naming(m)
      OBVIOUS
    <2>2. N = {i \in 1 .. Len(ops) : ops[i].value = m}
      BY <1>1, <1>2, <2>1 DEF Naming
    <2>3. CASE N = {}
      BY <1>2, <2>1, <2>2, <2>3 DEF Predicted
    <2>4. CASE N # {}
      <3>1. PICK i : i = Max(N)
        OBVIOUS
      <3>2. i \in N /\ \A j \in N : j <= i
        BY <1>2, <2>2, <2>4, <3>1, MaxIsLast
      <3>3. LastOn(ops, m, i, Len(ops))
        BY <1>2, <2>2, <3>2 DEF LastOn
      <3>4. m \in b.members <=> ops[i].op = "add"
        BY <1>2, <2>2, <3>2, <3>3 DEF Predicted
      <3> QED
        BY <2>1, <2>4, <3>1, <3>4
    <2> QED
      BY <2>3, <2>4
  <1>4. b.label = body.label
    BY <1>2 DEF Predicted
  <1> QED
    BY <1>1, <1>3, <1>4

(***************************************************************************)
(* A PATCH that is answered without a body changed the membership of the   *)
(* values it names, each as the last operation on it says, and nothing     *)
(* else, for any number of operations (patch_response.go                   *)
(* noContentEligible, attributeOf and isValueEquality).                    *)
(***************************************************************************)
THEOREM NoContentPredictable == Spec => []NoContentIsPredictable
  <1>1. Spec => []QuietInv
    BY InitQuiet, NextQuiet, PTL DEF Spec
  <1> QED
    BY <1>1, QuietIsPredictable, PTL
=============================================================================
