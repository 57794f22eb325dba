-------------------------- MODULE AuditEngine_proofs --------------------------
(***************************************************************************)
(* Proofs about AuditEngine, for every blueprint: the order in which the   *)
(* procedures are walked, the refusal of circular preconditions, and, for  *)
(* blueprints whose procedures begin with their work, the guards.          *)
(***************************************************************************)
EXTENDS AuditEngine, FiniteSetTheorems, SequenceTheorems, WellFoundedInduction, TLAPS

USE ProceduresAssumption, MachineAssumption, LimitsAssumption, GatesAssumption

Distinct(s) == \A i, j \in 1..Len(s) : s[i] = s[j] => i = j
-----------------------------------------------------------------------------
(* Sequences without repetition and the sets of their elements. *)

LEMMA ElementsOfAppend ==
  ASSUME NEW s \in Seq(Procedures), NEW x \in Procedures
  PROVE  /\ Append(s, x) \in Seq(Procedures)
         /\ SeqToSet(Append(s, x)) = SeqToSet(s) \cup {x}
         /\ Distinct(s) /\ x \notin SeqToSet(s) => Distinct(Append(s, x))
<1>1. /\ Append(s, x) \in Seq(Procedures) /\ Len(s) \in Nat
      /\ Len(Append(s, x)) = Len(s) + 1
      /\ \A i \in 1..Len(s) : Append(s, x)[i] = s[i]
      /\ Append(s, x)[Len(s) + 1] = x
  BY AppendProperties, LenProperties
<1>2. SeqToSet(Append(s, x)) = SeqToSet(s) \cup {x}
  BY <1>1 DEF SeqToSet
<1>3. ASSUME Distinct(s), x \notin SeqToSet(s)
      PROVE  Distinct(Append(s, x))
  <2> DEFINE a == Append(s, x)
  <2> HIDE DEF a
  <2>1. \A i \in 1..Len(s) : a[i] = s[i] /\ a[i] # x
    BY <1>1, <1>3 DEF SeqToSet, a
  <2>2. Len(a) = Len(s) + 1 /\ a[Len(s) + 1] = x
    BY <1>1 DEF a
  <2>3. ASSUME NEW i \in 1..Len(a), NEW j \in 1..Len(a), a[i] = a[j]
        PROVE  i = j
    <3>1. i \in 1..Len(s) \/ i = Len(s) + 1
      BY <1>1, <2>2
    <3>2. j \in 1..Len(s) \/ j = Len(s) + 1
      BY <1>1, <2>2
    <3>3. CASE i \in 1..Len(s) /\ j \in 1..Len(s)
      BY <1>3, <2>1, <2>3, <3>3 DEF Distinct
    <3> QED BY <2>1, <2>2, <2>3, <3>1, <3>2, <3>3
  <2> QED BY <2>3 DEF Distinct, a
<1> QED BY <1>1, <1>2, <1>3

LEMMA ElementsOfConcat ==
  ASSUME NEW s \in Seq(Procedures), NEW t \in Seq(Procedures)
  PROVE  /\ s \o t \in Seq(Procedures)
         /\ SeqToSet(s \o t) = SeqToSet(s) \cup SeqToSet(t)
         /\ Distinct(s) /\ Distinct(t) /\ SeqToSet(s) \cap SeqToSet(t) = {}
              => Distinct(s \o t)
<1> DEFINE c == s \o t
<1>1. /\ c \in Seq(Procedures) /\ Len(s) \in Nat /\ Len(t) \in Nat
      /\ Len(c) = Len(s) + Len(t)
      /\ \A i \in 1..(Len(s) + Len(t)) : c[i] = IF i <= Len(s) THEN s[i] ELSE t[i - Len(s)]
  BY ConcatProperties, LenProperties
<1> HIDE DEF c
<1>2. \A i \in 1..Len(s) : c[i] = s[i] /\ i \in 1..Len(c)
  BY <1>1
<1>3. \A i \in 1..Len(t) : c[Len(s) + i] = t[i] /\ Len(s) + i \in 1..Len(c)
  <2> SUFFICES ASSUME NEW i \in 1..Len(t)
               PROVE  c[Len(s) + i] = t[i] /\ Len(s) + i \in 1..Len(c)
    OBVIOUS
  <2>1. Len(s) + i \in 1..(Len(s) + Len(t)) /\ ~(Len(s) + i <= Len(s))
        /\ (Len(s) + i) - Len(s) = i
    BY <1>1
  <2> QED BY <1>1, <2>1
<1>4. SeqToSet(c) = SeqToSet(s) \cup SeqToSet(t)
  <2>1. SeqToSet(c) \subseteq SeqToSet(s) \cup SeqToSet(t)
    <3> SUFFICES ASSUME NEW i \in 1..Len(c)
                 PROVE  c[i] \in SeqToSet(s) \cup SeqToSet(t)
      BY DEF SeqToSet
    <3>1. CASE i <= Len(s)
      BY <1>1, <3>1 DEF SeqToSet
    <3>2. CASE ~(i <= Len(s))
      <4>1. i - Len(s) \in 1..Len(t) /\ c[i] = t[i - Len(s)]
        BY <1>1, <3>2
      <4> QED BY <4>1 DEF SeqToSet
    <3> QED BY <3>1, <3>2
  <2>2. SeqToSet(s) \subseteq SeqToSet(c)
    BY <1>2 DEF SeqToSet
  <2>3. SeqToSet(t) \subseteq SeqToSet(c)
    BY <1>3 DEF SeqToSet
  <2> QED BY <2>1, <2>2, <2>3
<1>5. ASSUME Distinct(s), Distinct(t), SeqToSet(s) \cap SeqToSet(t) = {}
      PROVE  Distinct(c)
  <2> SUFFICES ASSUME NEW i \in 1..Len(c), NEW j \in 1..Len(c), c[i] = c[j]
               PROVE  i = j
    BY DEF Distinct
  <2>1. CASE i <= Len(s) /\ j <= Len(s)
    BY <1>1, <1>5, <2>1 DEF Distinct
  <2>2. CASE i > Len(s) /\ j > Len(s)
    <3>1. /\ i - Len(s) \in 1..Len(t) /\ j - Len(s) \in 1..Len(t)
          /\ t[i - Len(s)] = t[j - Len(s)]
      BY <1>1, <2>2
    <3>2. i - Len(s) = j - Len(s)
      BY <1>5, <3>1 DEF Distinct
    <3> QED BY <1>1, <3>2
  <2>3. ASSUME NEW k \in 1..Len(c), NEW l \in 1..Len(c), k <= Len(s), l > Len(s), c[k] = c[l]
        PROVE  FALSE
    <3>1. k \in 1..Len(s) /\ c[k] = s[k]
      BY <1>1, <2>3
    <3>2. l - Len(s) \in 1..Len(t) /\ c[l] = t[l - Len(s)]
      BY <1>1, <2>3
    <3>3. c[k] \in SeqToSet(s) /\ c[l] \in SeqToSet(t)
      BY <3>1, <3>2 DEF SeqToSet
    <3> QED BY <1>5, <2>3, <3>3
  <2> QED BY <1>1, <2>1, <2>2, <2>3
<1> QED BY <1>1, <1>4, <1>5 DEF c

LEMMA ElementsOfTail ==
  ASSUME NEW s \in Seq(Procedures), s # <<>>, Distinct(s)
  PROVE  /\ Head(s) \in SeqToSet(s) /\ Head(s) \in Procedures
         /\ Tail(s) \in Seq(Procedures) /\ Distinct(Tail(s))
         /\ SeqToSet(Tail(s)) = SeqToSet(s) \ {Head(s)}
<1>1. /\ Tail(s) \in Seq(Procedures) /\ Len(s) \in Nat /\ Len(s) > 0
      /\ Len(Tail(s)) = Len(s) - 1 /\ Head(s) = s[1] /\ Head(s) \in Procedures
      /\ \A i \in 1..(Len(s) - 1) : Tail(s)[i] = s[i + 1]
  BY HeadTailProperties, EmptySeq, LenProperties
<1>2. Distinct(Tail(s))
  BY <1>1 DEF Distinct
<1>3. SeqToSet(Tail(s)) \subseteq SeqToSet(s) \ {Head(s)}
  <2> SUFFICES ASSUME NEW i \in 1..(Len(s) - 1)
               PROVE  s[i + 1] \in SeqToSet(s) /\ s[i + 1] # s[1]
    BY <1>1 DEF SeqToSet
  <2>1. i + 1 \in 1..Len(s) /\ 1 \in 1..Len(s) /\ i + 1 # 1
    BY <1>1
  <2> QED BY <2>1 DEF Distinct, SeqToSet
<1>4. SeqToSet(s) \ {Head(s)} \subseteq SeqToSet(Tail(s))
  <2> SUFFICES ASSUME NEW i \in 1..Len(s), s[i] # s[1]
               PROVE  s[i] \in SeqToSet(Tail(s))
    BY <1>1 DEF SeqToSet
  <2>1. i - 1 \in 1..(Len(s) - 1) /\ (i - 1) + 1 = i
    BY <1>1
  <2>2. Tail(s)[i - 1] = s[i]
    BY <1>1, <2>1
  <2> QED BY <1>1, <2>1, <2>2 DEF SeqToSet
<1>5. Head(s) \in SeqToSet(s)
  BY <1>1 DEF SeqToSet
<1> QED BY <1>1, <1>2, <1>3, <1>4, <1>5

(* A sequence without repetition is as long as its set is large. *)
LEMMA LengthOfDistinct ==
  ASSUME NEW s \in Seq(Procedures), Distinct(s)
  PROVE  /\ SeqToSet(s) \subseteq Procedures
         /\ Len(s) = Cardinality(Procedures) <=> SeqToSet(s) = Procedures
<1>1. /\ Len(s) \in Nat /\ s \in [1..Len(s) -> Procedures]
  BY LenProperties
<1>2. SeqToSet(s) \subseteq Procedures
  BY <1>1 DEF SeqToSet
<1>3. s \in Bijection(1..Len(s), SeqToSet(s))
  <2>1. s \in [1..Len(s) -> SeqToSet(s)]
    BY <1>1 DEF SeqToSet
  <2>2. \A x \in SeqToSet(s) : \E i \in 1..Len(s) : s[i] = x
    BY DEF SeqToSet
  <2>3. s \in Injection(1..Len(s), SeqToSet(s))
    BY <1>1, <2>1 DEF Injection, IsInjective, Distinct
  <2>4. s \in Surjection(1..Len(s), SeqToSet(s))
    BY <2>1, <2>2 DEF Surjection
  <2> QED BY <2>3, <2>4 DEF Bijection
<1>4. IsFiniteSet(1..Len(s)) /\ Cardinality(1..Len(s)) = Len(s)
  <2>1. /\ IsFiniteSet(1..Len(s))
        /\ Cardinality(1..Len(s)) = IF 1 > Len(s) THEN 0 ELSE Len(s) - 1 + 1
    <3>1. 1 \in Int /\ Len(s) \in Int
      BY <1>1
    <3> QED BY <3>1, FS_Interval, Zenon
  <2> QED BY <1>1, <2>1
<1>5. Cardinality(SeqToSet(s)) = Len(s)
  BY <1>3, <1>4, FS_Bijection DEF ExistsBijection
<1>6. Cardinality(Procedures) = Cardinality(SeqToSet(s)) => Procedures = SeqToSet(s)
  BY <1>2, FS_Subset
<1> QED BY <1>2, <1>5, <1>6

(* The order in which a set of procedures is queued. *)
LEMMA NameOrderElements ==
  ASSUME NEW F \in SUBSET Procedures, NEW s \in NameOrders(F)
  PROVE  s \in Seq(Procedures) /\ SeqToSet(s) = F /\ Distinct(s)
<1> DEFINE n == Cardinality(F)
<1>1. n \in Nat
  BY FS_Subset, FS_CardinalityType
<1> HIDE DEF n
<1>2. /\ s \in [1..n -> F] /\ SeqToSet(s) = F
      /\ \A i, j \in 1..n : i < j => s[i] < s[j]
  BY DEF NameOrders, n
<1>3. s \in Seq(Procedures) /\ Len(s) = n
  <2>1. s \in [1..n -> Procedures]
    BY <1>2
  <2>2. s \in Seq(Procedures)
    BY <1>1, <2>1, SeqDef
  <2>3. Len(s) \in Nat /\ 1..Len(s) = 1..n
    BY <2>1, <2>2, LenProperties
  <2> QED BY <1>1, <2>2, <2>3
<1>4. Distinct(s)
  <2> SUFFICES ASSUME NEW i \in 1..n, NEW j \in 1..n, s[i] = s[j], i # j PROVE FALSE
    BY <1>3 DEF Distinct
  <2>1. s[i] \in Nat /\ s[j] \in Nat
    BY <1>2
  <2>2. i < j \/ j < i
    BY <1>1
  <2> QED BY <1>2, <2>1, <2>2
<1> QED BY <1>2, <1>3, <1>4

(* A set of positions that is not empty has a first one. *)
LEMMA FirstIsIn ==
  ASSUME NEW S \in SUBSET Nat, S # {}
  PROVE  First(S) \in S
<1>1. PICK i \in S : \A j \in S : ~(<<j, i>> \in OpToRel(<, Nat))
  BY WFMin, NatLessThanWellFounded, Zenon
<1>2. \A j \in S : ~(j < i)
  BY <1>1, Zenon DEF OpToRel
<1>3. \A j \in S : i <= j
  BY <1>2
<1> QED BY <1>3 DEF First
-----------------------------------------------------------------------------
(* The state of the sort: what is sorted follows its preconditions, what   *)
(* is queued has all of its preconditions among the sorted, what is still  *)
(* unmet are the preconditions that are not sorted, and nothing sorted     *)
(* waits for each other in a circle.                                       *)
Acyclic(pre, S) == S = {} \/ \E p \in S : pre[p] \cap S = {}

Order(pre, um, qu, so) ==
  /\ pre \in [Procedures -> SUBSET Procedures]
  /\ um \in [Procedures -> SUBSET Procedures]
  /\ qu \in Seq(Procedures) /\ Distinct(qu)
  /\ so \in Seq(Procedures) /\ Distinct(so)
  /\ SeqToSet(so) \cap SeqToSet(qu) = {}
  /\ \A p \in Procedures : um[p] = pre[p] \ SeqToSet(so)
  /\ \A p \in Procedures : um[p] = {} <=> p \in SeqToSet(so) \cup SeqToSet(qu)
  /\ \A i \in 1..Len(so) : \A q \in pre[so[i]] : \E j \in 1..(i - 1) : so[j] = q
  /\ \A S \in SUBSET SeqToSet(so) : Acyclic(pre, S)

LEMMA InitialOrder ==
  ASSUME NEW pre \in [Procedures -> SUBSET Procedures],
         NEW qu \in NameOrders({p \in Procedures : pre[p] = {}})
  PROVE  Order(pre, pre, qu, <<>>)
<1>1. /\ qu \in Seq(Procedures) /\ Distinct(qu)
      /\ SeqToSet(qu) = {p \in Procedures : pre[p] = {}}
  BY NameOrderElements
<1>2. /\ <<>> \in Seq(Procedures) /\ SeqToSet(<<>>) = {} /\ Distinct(<<>>)
      /\ Len(<<>>) = 0
  BY DEF SeqToSet, Distinct
<1>3. \A S \in SUBSET SeqToSet(<<>>) : Acyclic(pre, S)
  BY <1>2 DEF Acyclic
<1> HIDE DEF Acyclic
<1> QED BY <1>1, <1>2, <1>3 DEF Order

(* Sorting the procedure at the head of the queue keeps the order. *)
LEMMA SortingKeepsOrder ==
  ASSUME NEW pre, NEW um, NEW qu, NEW so, Order(pre, um, qu, so), qu # <<>>,
         NEW f \in NameOrders({p \in Procedures : um[p] = {Head(qu)}})
  PROVE  Order(pre, [p \in Procedures |-> um[p] \ {Head(qu)}], Tail(qu) \o f,
               Append(so, Head(qu)))
<1> DEFINE node == Head(qu)
           A == SeqToSet(so)
           B == SeqToSet(qu)
           F == {p \in Procedures : um[p] = {node}}
           um2 == [p \in Procedures |-> um[p] \ {node}]
           qu2 == Tail(qu) \o f
           so2 == Append(so, node)
<1>1. /\ pre \in [Procedures -> SUBSET Procedures]
      /\ um \in [Procedures -> SUBSET Procedures]
      /\ qu \in Seq(Procedures) /\ Distinct(qu)
      /\ so \in Seq(Procedures) /\ Distinct(so)
      /\ A \cap B = {}
      /\ \A p \in Procedures : um[p] = pre[p] \ A
      /\ \A p \in Procedures : um[p] = {} <=> p \in A \cup B
      /\ \A i \in 1..Len(so) : \A q \in pre[so[i]] : \E j \in 1..(i - 1) : so[j] = q
      /\ \A S \in SUBSET A : Acyclic(pre, S)
  BY DEF Order
<1>2. /\ node \in B /\ node \in Procedures
      /\ Tail(qu) \in Seq(Procedures) /\ Distinct(Tail(qu))
      /\ SeqToSet(Tail(qu)) = B \ {node}
  BY <1>1, ElementsOfTail
<1>3. f \in Seq(Procedures) /\ SeqToSet(f) = F /\ Distinct(f)
  BY NameOrderElements
<1>4. A \subseteq Procedures /\ B \subseteq Procedures
  BY <1>1, LengthOfDistinct
<1>5. F \cap (A \cup B) = {} /\ F \subseteq Procedures
  BY <1>1, <1>4
<1>6. node \notin A /\ um[node] = {} /\ pre[node] \subseteq A
  <2>1. node \in Procedures /\ node \in B
    BY <1>2
  <2> HIDE DEF node, A, B
  <2>2. node \notin A /\ um[node] = {}
    BY <1>1, <2>1
  <2>3. um[node] = pre[node] \ A
    BY <1>1, <2>1
  <2> QED BY <2>2, <2>3
<1>7. /\ so2 \in Seq(Procedures) /\ SeqToSet(so2) = A \cup {node} /\ Distinct(so2)
  BY <1>1, <1>2, <1>6, ElementsOfAppend
<1>8. /\ qu2 \in Seq(Procedures) /\ SeqToSet(qu2) = (B \ {node}) \cup F /\ Distinct(qu2)
  BY <1>2, <1>3, <1>5, ElementsOfConcat
<1>9. SeqToSet(so2) \cap SeqToSet(qu2) = {}
  BY <1>1, <1>2, <1>5, <1>7, <1>8
<1>10. um2 \in [Procedures -> SUBSET Procedures]
  BY <1>1
<1>11. \A p \in Procedures : um2[p] = pre[p] \ SeqToSet(so2)
  BY <1>1, <1>7
<1>12. \A p \in Procedures : um2[p] = {} <=> p \in SeqToSet(so2) \cup SeqToSet(qu2)
  <2> SUFFICES ASSUME NEW p \in Procedures
               PROVE  um2[p] = {} <=> p \in A \cup B \cup F
    BY <1>2, <1>7, <1>8
  <2>1. um2[p] = {} <=> um[p] = {} \/ um[p] = {node}
    OBVIOUS
  <2> QED BY <1>1, <2>1
<1>13. \A i \in 1..Len(so2) : \A q \in pre[so2[i]] : \E j \in 1..(i - 1) : so2[j] = q
  <2>1. /\ Len(so) \in Nat /\ Len(so2) = Len(so) + 1 /\ so2[Len(so) + 1] = node
        /\ \A i \in 1..Len(so) : so2[i] = so[i]
    BY <1>1, <1>2, AppendProperties, LenProperties
  <2> HIDE DEF so2
  <2> SUFFICES ASSUME NEW i \in 1..Len(so2), NEW q \in pre[so2[i]]
               PROVE  \E j \in 1..(i - 1) : so2[j] = q
    OBVIOUS
  <2>2. CASE i \in 1..Len(so)
    <3>1. PICK j \in 1..(i - 1) : so[j] = q
      BY <1>1, <2>1, <2>2
    <3>2. j \in 1..Len(so)
      BY <2>1, <2>2
    <3> QED BY <2>1, <3>1, <3>2
  <2>3. CASE i = Len(so) + 1
    <3>1. q \in A
      BY <1>6, <2>1, <2>3
    <3>2. PICK j \in 1..Len(so) : so[j] = q
      BY <3>1 DEF SeqToSet
    <3>3. j \in 1..(i - 1)
      BY <2>1, <2>3
    <3> QED BY <2>1, <3>2, <3>3
  <2> QED BY <2>1, <2>2, <2>3
<1>14. \A S \in SUBSET SeqToSet(so2) : Acyclic(pre, S)
  <2> SUFFICES ASSUME NEW S \in SUBSET (A \cup {node}) PROVE Acyclic(pre, S)
    BY <1>7
  <2>1. CASE S \ {node} = {}
    BY <1>6, <2>1 DEF Acyclic
  <2>2. CASE S \ {node} # {}
    <3>1. S \ {node} \in SUBSET A
      OBVIOUS
    <3>2. PICK p \in S \ {node} : pre[p] \cap (S \ {node}) = {}
      BY <1>1, <2>2, <3>1 DEF Acyclic
    <3>3. p \in A /\ p \in Procedures
      BY <1>4, <3>2
    <3>4. pre[p] \subseteq A
      BY <1>1, <3>3
    <3> QED BY <1>6, <3>2, <3>4 DEF Acyclic
  <2> QED BY <2>1, <2>2
<1> HIDE DEF node, A, B, F, um2, qu2, so2
<1>15. Order(pre, um2, qu2, so2)
  BY <1>1, <1>7, <1>8, <1>9, <1>10, <1>11, <1>12, <1>13, <1>14 DEF Order
<1> QED BY <1>15 DEF um2, qu2, so2, node
-----------------------------------------------------------------------------
(* The states and the transitions of a procedure. *)
LEMMA MachineStates ==
  ASSUME NEW p \in Procedures
  PROVE  /\ Machine[p].initial \in Nat
         /\ \A i \in DOMAIN Machine[p].edges :
              /\ i \in Nat
              /\ Machine[p].edges[i][1] \in Nat \ {0}
              /\ Machine[p].edges[i][2] \in Nat \ {0}
<1> DEFINE m == Machine[p]
<1>1. /\ m.size \in Nat /\ m.initial \in 1..m.size
      /\ m.edges \in Seq((1..m.size) \X (1..m.size))
  BY DEF Positions
<1> HIDE DEF m
<1>2. m.initial \in Nat
  BY <1>1
<1>3. \A i \in DOMAIN m.edges : i \in Nat /\ m.edges[i] \in (1..m.size) \X (1..m.size)
  BY <1>1, LenProperties
<1>4. \A x \in 1..m.size : x \in Nat \ {0}
  BY <1>1
<1> QED BY <1>2, <1>3, <1>4 DEF m

LEMMA MachineEdges ==
  ASSUME NEW p \in Procedures, NEW i \in DOMAIN Machine[p].edges
  PROVE  Machine[p].edges[i] \in (Nat \ {0}) \X (Nat \ {0})
<1> DEFINE m == Machine[p]
<1>1. m.size \in Nat /\ m.edges \in Seq((1..m.size) \X (1..m.size))
  BY DEF Positions
<1> HIDE DEF m
<1>2. m.edges[i] \in (1..m.size) \X (1..m.size)
  BY <1>1, LenProperties DEF m
<1>3. \A x \in 1..m.size : x \in Nat \ {0}
  BY <1>1
<1> QED BY <1>2, <1>3 DEF m

(* The inductive invariant. *)

(* Beside the order: what the mode says of it, and of the walks so far. *)
Walks ==
  /\ mode \in {"sort", "next", "walk", "done", "cycle"}
  /\ position \in 0..Len(sorted)
  /\ mode = "walk" => position >= 1
  /\ mode = "sort" => \A p \in Procedures : state[p] = 0
  /\ mode = "cycle" => queue = <<>> /\ SeqToSet(sorted) # Procedures
  /\ mode \in {"next", "walk", "done"} => SeqToSet(sorted) = Procedures
  /\ \A i \in 1..Len(sorted) : i > position => state[sorted[i]] = 0

(* The types of what the walks alone change. *)
WalkTypeOK ==
  /\ skipped \subseteq Procedures
  /\ state \in [Procedures -> Nat]
  /\ iterations \in 0..MaxIterations
  /\ selfLoops \in Nat
  /\ stepsDone \subseteq Procedures
  /\ loops \in [Procedures -> Nat]
  /\ completed \subseteq DOMAIN Gates

AuditInv == Order(preconditions, unmet, queue, sorted) /\ Walks /\ WalkTypeOK

LEMMA InitEstablishesAudit == Init => AuditInv
<1> SUFFICES ASSUME Init PROVE AuditInv
  OBVIOUS
<1>1. Order(preconditions, unmet, queue, sorted)
  BY InitialOrder DEF Init
<1>2. Len(sorted) = 0
  BY DEF Init
<1>3. Walks
  BY <1>2 DEF Init, Walks
<1>4. WalkTypeOK
  BY DEF Init, WalkTypeOK
<1> QED BY <1>1, <1>3, <1>4 DEF AuditInv

LEMMA SortNextKeepsAudit ==
  ASSUME AuditInv, SortNext PROVE AuditInv'
<1> DEFINE node == Head(queue)
<1>1. /\ mode = "sort" /\ queue # <<>>
      /\ sorted' = Append(sorted, node)
      /\ unmet' = [p \in Procedures |-> unmet[p] \ {node}]
      /\ \E f \in NameOrders({p \in Procedures : unmet[p] = {node}}) : queue' = Tail(queue) \o f
      /\ UNCHANGED <<preconditions, skipped, mode, position, state, iterations,
                     selfLoops, stepsDone, loops, completed>>
  BY DEF SortNext, FreedBy, walk
<1>2. Order(preconditions, unmet, queue, sorted)
  BY DEF AuditInv
<1>3. PICK f \in NameOrders({p \in Procedures : unmet[p] = {node}}) : queue' = Tail(queue) \o f
  BY <1>1
<1>4. Order(preconditions, [p \in Procedures |-> unmet[p] \ {node}], Tail(queue) \o f,
            Append(sorted, node))
  BY <1>1, <1>2, SortingKeepsOrder
<1>5. Order(preconditions, unmet, queue, sorted)'
  BY <1>1, <1>3, <1>4
<1>6. Walks'
  <2>1. /\ sorted \in Seq(Procedures) /\ queue \in Seq(Procedures) /\ Distinct(queue)
        /\ sorted' \in Seq(Procedures)
    BY <1>2, <1>5 DEF Order
  <2>2. node \in Procedures
    BY <1>1, <2>1, ElementsOfTail
  <2>3. Len(sorted) \in Nat /\ Len(sorted') = Len(sorted) + 1
    BY <1>1, <2>1, <2>2, AppendProperties, LenProperties
  <2>4. \A i \in 1..Len(sorted') : sorted'[i] \in Procedures
    BY <2>1, LenProperties
  <2>5. mode' = "sort" /\ position' = position /\ state' = state
    BY <1>1
  <2>6. position \in 0..Len(sorted) /\ \A p \in Procedures : state[p] = 0
    BY <1>1 DEF AuditInv, Walks
  <2>7. position' \in 0..Len(sorted')
    BY <2>3, <2>5, <2>6
  <2>8. \A i \in 1..Len(sorted') : state'[sorted'[i]] = 0
    BY <2>4, <2>5, <2>6
  <2>9. \A p \in Procedures : state'[p] = 0
    BY <2>5, <2>6
  <2> QED BY <2>5, <2>7, <2>8, <2>9 DEF Walks
<1>7. WalkTypeOK'
  BY <1>1 DEF AuditInv, WalkTypeOK
<1> QED BY <1>5, <1>6, <1>7 DEF AuditInv

LEMMA SortEndsKeepsAudit ==
  ASSUME AuditInv, SortEnds PROVE AuditInv'
<1>1. /\ mode = "sort" /\ queue = <<>>
      /\ mode' = IF Len(sorted) = Cardinality(Procedures) THEN "next" ELSE "cycle"
      /\ UNCHANGED <<preconditions, skipped, unmet, queue, sorted, position, state,
                     iterations, selfLoops, stepsDone, loops, completed>>
  BY DEF SortEnds, sorting, walk
<1>2. Order(preconditions, unmet, queue, sorted)'
  BY <1>1 DEF AuditInv
<1>3. sorted \in Seq(Procedures) /\ Distinct(sorted)
  BY DEF AuditInv, Order
<1>4. mode' = IF SeqToSet(sorted) = Procedures THEN "next" ELSE "cycle"
  BY <1>1, <1>3, LengthOfDistinct
<1>5. Walks'
  BY <1>1, <1>4 DEF AuditInv, Walks
<1>6. WalkTypeOK'
  BY <1>1 DEF AuditInv, WalkTypeOK
<1> QED BY <1>2, <1>5, <1>6 DEF AuditInv

LEMMA NextProcedureKeepsAudit ==
  ASSUME AuditInv, NextProcedure PROVE AuditInv'
<1> DEFINE p == sorted[position + 1]
<1>1. /\ mode = "next" /\ position < Len(sorted) /\ position' = position + 1
      /\ \/ UNCHANGED <<mode, state, iterations, selfLoops>>
         \/ /\ state' = [state EXCEPT ![p] = Machine[p].initial]
            /\ iterations' = 0 /\ selfLoops' = 0 /\ mode' = "walk"
      /\ UNCHANGED <<preconditions, skipped, unmet, queue, sorted, stepsDone, loops, completed>>
  BY DEF NextProcedure, sorting
<1>2. Order(preconditions, unmet, queue, sorted)'
  BY <1>1 DEF AuditInv
<1>3. sorted \in Seq(Procedures) /\ Distinct(sorted) /\ Len(sorted) \in Nat
  BY LenProperties DEF AuditInv, Order
<1>4. position \in 0..Len(sorted) /\ state \in [Procedures -> Nat]
  BY DEF AuditInv, Walks, WalkTypeOK
<1>5. position + 1 \in 1..Len(sorted) /\ p \in Procedures
  BY <1>1, <1>3, <1>4, LenProperties
<1>6. Machine[p].initial \in Nat
  BY <1>5, MachineStates
<1>7. state' \in [Procedures -> Nat]
  BY <1>1, <1>4, <1>6
<1>8. \A i \in 1..Len(sorted) : i > position + 1 => state'[sorted[i]] = 0
  <2> SUFFICES ASSUME NEW i \in 1..Len(sorted), i > position + 1
               PROVE  state'[sorted[i]] = 0
    OBVIOUS
  <2>1. state[sorted[i]] = 0
    BY <1>3, <1>4 DEF AuditInv, Walks
  <2>2. sorted[i] # p /\ sorted[i] \in Procedures
    BY <1>3, <1>4, <1>5, LenProperties DEF Distinct
  <2> QED BY <1>1, <1>4, <2>1, <2>2
<1>9. Walks'
  BY <1>1, <1>4, <1>5, <1>8 DEF AuditInv, Walks
<1>10. WalkTypeOK'
  BY <1>1, <1>7 DEF AuditInv, WalkTypeOK
<1> QED BY <1>2, <1>9, <1>10 DEF AuditInv

(* Taking a transition of the procedure that is walked. *)
LEMMA TakeKeepsAudit ==
  ASSUME AuditInv, mode = "walk", iterations < MaxIterations, iterations' = iterations + 1,
         NEW e \in (Nat \ {0}) \X (Nat \ {0}), NEW count \in Nat, Take(current, e, count),
         UNCHANGED <<mode, preconditions, skipped, unmet, queue, sorted, position, completed>>
  PROVE  AuditInv'
<1> DEFINE p == current
<1>1. /\ state' = [state EXCEPT ![p] = e[2]]
      /\ selfLoops' = count
      /\ loops' = loops \/ loops' = [loops EXCEPT ![p] = @ + 1]
      /\ stepsDone' = stepsDone \/ stepsDone' = stepsDone \cup {p}
  BY DEF Take
<1>2. Order(preconditions, unmet, queue, sorted)'
  BY DEF AuditInv
<1>3. sorted \in Seq(Procedures) /\ Distinct(sorted) /\ Len(sorted) \in Nat
  BY LenProperties DEF AuditInv, Order
<1>4. /\ position \in 1..Len(sorted) /\ state \in [Procedures -> Nat]
      /\ loops \in [Procedures -> Nat] /\ stepsDone \subseteq Procedures
      /\ iterations \in 0..MaxIterations
  BY <1>3 DEF AuditInv, Walks, WalkTypeOK
<1>5. p \in Procedures
  BY <1>3, <1>4, LenProperties DEF current
<1>6. state' \in [Procedures -> Nat]
  BY <1>1, <1>4
<1>7. \A i \in 1..Len(sorted) : i > position => state'[sorted[i]] = 0
  <2> SUFFICES ASSUME NEW i \in 1..Len(sorted), i > position
               PROVE  state'[sorted[i]] = 0
    OBVIOUS
  <2>1. state[sorted[i]] = 0
    BY DEF AuditInv, Walks
  <2>2. sorted[i] # p /\ sorted[i] \in Procedures
    BY <1>3, <1>4, LenProperties DEF Distinct, current
  <2> QED BY <1>1, <1>4, <2>1, <2>2
<1>8. Walks'
  <2>1. SeqToSet(sorted) = Procedures
    BY DEF AuditInv, Walks
  <2> QED BY <1>4, <1>7, <2>1 DEF Walks
<1>9. loops' \in [Procedures -> Nat]
  BY <1>1, <1>4
<1>10. iterations' \in 0..MaxIterations
  BY <1>4
<1>11. WalkTypeOK'
  BY <1>1, <1>4, <1>5, <1>6, <1>9, <1>10 DEF AuditInv, WalkTypeOK
<1> QED BY <1>2, <1>8, <1>11 DEF AuditInv

(* Transitions that may be taken are transitions of the list. *)
LEMMA SelectedIsOutgoing ==
  ASSUME NEW m, NEW out \in SUBSET Nat, out # {}, NEW i \in Selected(m, out)
  PROVE  i \in out
<1> DEFINE ahead == Ahead(m, out)
<1>1. ahead \in SUBSET out
  BY DEF Ahead
<1>2. First(IF ahead # {} THEN ahead ELSE out) \in out
  BY <1>1, FirstIsIn
<1>3. out \ ahead # {} => First(out \ ahead) \in out
  <2>1. out \ ahead \in SUBSET Nat
    OBVIOUS
  <2> QED BY <2>1, FirstIsIn
<1> HIDE DEF ahead
<1>4. i \in {First(IF ahead # {} THEN ahead ELSE out)}
             \cup (IF out \ ahead # {} THEN {First(out \ ahead)} ELSE {})
  BY DEF Selected, ahead
<1> QED BY <1>2, <1>3, <1>4

(* The count that goes with a transition: a self-loop adds one below the   *)
(* limit, any other transition starts it again.                            *)
CountsLoop(e, count) ==
  IF e[1] = e[2] THEN count = selfLoops + 1 /\ ~MustLeave(count) ELSE count = 0

(* A round of the walk takes a transition out of the procedure's state, or *)
(* the walk is over.                                                       *)
LEMMA TransitionTakesAnEdge ==
  ASSUME AuditInv, Transition
  PROVE  \/ \E i \in DOMAIN Machine[current].edges, count \in Nat :
              /\ Machine[current].edges[i][1] = state[current]
              /\ CountsLoop(Machine[current].edges[i], count)
              /\ Take(current, Machine[current].edges[i], count)
              /\ UNCHANGED mode
         \/ Stop
<1> DEFINE m == Machine[current]
           out == Outgoing(m, state[current])
           leaving == Leaving(m, out)
<1>1. current \in Procedures /\ selfLoops \in Nat
  <2>1. /\ sorted \in Seq(Procedures) /\ position \in 1..Len(sorted) /\ selfLoops \in Nat
    BY LenProperties DEF AuditInv, Order, Walks, WalkTypeOK, Transition
  <2> QED BY <2>1, LenProperties DEF current
<1>2. out \in SUBSET Nat
      /\ \A i \in out : i \in DOMAIN m.edges /\ m.edges[i][1] = state[current]
  <2>1. \A i \in DOMAIN m.edges : i \in Nat
    BY <1>1, MachineStates
  <2> QED BY <2>1 DEF Outgoing
<1>3. leaving \in SUBSET out
      /\ \A i \in out : i \in leaving <=> m.edges[i][2] # m.edges[i][1]
  BY DEF Leaving
<1>4. leaving # {} => First(leaving) \in leaving
  <2>1. leaving \in SUBSET Nat
    BY <1>2, <1>3
  <2> HIDE DEF leaving
  <2> QED BY <2>1, FirstIsIn
<1>5. CASE out = {}
  BY <1>5 DEF Transition
<1>6. CASE out # {}
  <2>1. PICK i \in Selected(m, out) :
          IF i \in leaving
            THEN Take(current, m.edges[i], 0) /\ UNCHANGED mode
          ELSE IF ~MustLeave(selfLoops + 1)
            THEN Take(current, m.edges[i], selfLoops + 1) /\ UNCHANGED mode
          ELSE IF leaving # {}
            THEN Take(current, m.edges[First(leaving)], 0) /\ UNCHANGED mode
          ELSE Stop
    BY <1>6 DEF Transition
  <2>2. i \in out
    BY <1>2, <1>6, SelectedIsOutgoing
  <2>3. 0 \in Nat /\ selfLoops + 1 \in Nat
    BY <1>1
  <2> DEFINE first == First(leaving)
             loopsOn == selfLoops + 1
             taken(j, count) == /\ m.edges[j][1] = state[current]
                                /\ CountsLoop(m.edges[j], count)
                                /\ Take(current, m.edges[j], count)
                                /\ UNCHANGED mode
  <2>4. CASE i \in leaving
    <3>1. i \in DOMAIN m.edges /\ m.edges[i][1] = state[current] /\ CountsLoop(m.edges[i], 0)
      BY <1>2, <1>3, <2>2, <2>4 DEF CountsLoop
    <3>2. taken(i, 0)
      BY <2>1, <2>4, <3>1
    <3> QED BY <2>3, <3>1, <3>2
  <2>5. CASE i \notin leaving /\ ~MustLeave(loopsOn)
    <3>1. /\ i \in DOMAIN m.edges /\ m.edges[i][1] = state[current]
          /\ CountsLoop(m.edges[i], loopsOn)
      BY <1>2, <1>3, <2>2, <2>5 DEF CountsLoop
    <3>2. taken(i, loopsOn)
      BY <2>1, <2>5, <3>1
    <3> QED BY <2>3, <3>1, <3>2
  <2>6. CASE i \notin leaving /\ MustLeave(loopsOn) /\ leaving # {}
    <3>1. first \in leaving /\ first \in out
      BY <1>3, <1>4, <2>6
    <3>2. /\ first \in DOMAIN m.edges /\ m.edges[first][1] = state[current]
          /\ CountsLoop(m.edges[first], 0)
      BY <1>2, <1>3, <3>1 DEF CountsLoop
    <3>3. taken(first, 0)
      BY <2>1, <2>6, <3>2
    <3> QED BY <2>3, <3>2, <3>3
  <2>7. CASE i \notin leaving /\ MustLeave(loopsOn) /\ leaving = {}
    BY <2>1, <2>7
  <2> QED BY <2>4, <2>5, <2>6, <2>7
<1> QED BY <1>5, <1>6

LEMMA TransitionKeepsAudit ==
  ASSUME AuditInv, Transition PROVE AuditInv'
<1>1. /\ mode = "walk" /\ iterations < MaxIterations /\ iterations' = iterations + 1
      /\ UNCHANGED <<preconditions, skipped, unmet, queue, sorted, position, completed>>
  BY DEF Transition, sorting
<1>2. CASE Stop
  <2>1. mode' = "next" /\ UNCHANGED <<state, selfLoops, stepsDone, loops>>
    BY <1>2 DEF Stop
  <2>2. Order(preconditions, unmet, queue, sorted)'
    BY <1>1 DEF AuditInv
  <2>3. Walks'
    BY <1>1, <2>1 DEF AuditInv, Walks
  <2>4. iterations' \in 0..MaxIterations
    BY <1>1 DEF AuditInv, WalkTypeOK
  <2>5. WalkTypeOK'
    BY <1>1, <2>1, <2>4 DEF AuditInv, WalkTypeOK
  <2> QED BY <2>2, <2>3, <2>5 DEF AuditInv
<1>3. ASSUME NEW i \in DOMAIN Machine[current].edges, NEW count \in Nat,
             Take(current, Machine[current].edges[i], count), UNCHANGED mode
      PROVE  AuditInv'
  <2>1. /\ sorted \in Seq(Procedures) /\ position \in 1..Len(sorted)
    BY <1>1, LenProperties DEF AuditInv, Order, Walks
  <2>2. current \in Procedures
    BY <2>1, LenProperties DEF current
  <2>3. Machine[current].edges[i] \in (Nat \ {0}) \X (Nat \ {0})
    BY <2>2, MachineEdges
  <2> QED BY <1>1, <1>3, <2>3, TakeKeepsAudit
<1> QED BY <1>2, <1>3, TransitionTakesAnEdge

LEMMA LimitReachedKeepsAudit ==
  ASSUME AuditInv, LimitReached PROVE AuditInv'
<1>1. /\ mode = "walk" /\ mode' = "next"
      /\ UNCHANGED <<preconditions, skipped, unmet, queue, sorted, position, state,
                     iterations, selfLoops, stepsDone, loops, completed>>
  BY DEF LimitReached, sorting, walk
<1>2. Order(preconditions, unmet, queue, sorted)' /\ WalkTypeOK'
  BY <1>1 DEF AuditInv, WalkTypeOK
<1>3. Walks'
  BY <1>1 DEF AuditInv, Walks
<1> QED BY <1>2, <1>3 DEF AuditInv

LEMMA FinishKeepsAudit ==
  ASSUME AuditInv, Finish PROVE AuditInv'
<1>1. /\ mode = "next" /\ mode' = "done"
      /\ completed' \subseteq DOMAIN Gates
      /\ UNCHANGED <<preconditions, skipped, unmet, queue, sorted, position, state,
                     iterations, selfLoops, stepsDone, loops>>
  BY DEF Finish, sorting, walk
<1>2. Order(preconditions, unmet, queue, sorted)' /\ WalkTypeOK'
  BY <1>1 DEF AuditInv, WalkTypeOK
<1>3. Walks'
  BY <1>1 DEF AuditInv, Walks
<1> QED BY <1>2, <1>3 DEF AuditInv

LEMMA StutterKeepsAudit ==
  ASSUME AuditInv, UNCHANGED vars PROVE AuditInv'
<1>1. UNCHANGED <<preconditions, skipped, mode, unmet, queue, sorted, position, state,
                  iterations, selfLoops, stepsDone, loops, completed>>
  BY DEF vars, sorting, walk
<1>2. Order(preconditions, unmet, queue, sorted)' /\ WalkTypeOK' /\ Walks'
  BY <1>1 DEF AuditInv, WalkTypeOK, Walks
<1> QED BY <1>2 DEF AuditInv

(* The invariant holds of every engagement. *)
THEOREM AuditInvariant == Spec => []AuditInv
<1>1. Init => AuditInv
  BY InitEstablishesAudit
<1>2. AuditInv /\ [Next]_vars => AuditInv'
  BY SortNextKeepsAudit, SortEndsKeepsAudit, NextProcedureKeepsAudit,
     TransitionKeepsAudit, LimitReachedKeepsAudit, FinishKeepsAudit,
     StutterKeepsAudit DEF Next
<1> QED BY <1>1, <1>2, PTL DEF Spec
-----------------------------------------------------------------------------
(* The theorems. *)

(* The engine's variables keep their types. *)
THEOREM AuditTypeCorrect == Spec => []TypeOK
<1>1. AuditInv => TypeOK
  BY DEF AuditInv, Order, Walks, WalkTypeOK, TypeOK
<1> QED BY <1>1, AuditInvariant, PTL

(* Whatever the preconditions of a blueprint, the procedures are walked in *)
(* an order that respects them, none of them twice                         *)
(* (topological_sort_with_preconditions and the loop of run_engagement).   *)
THEOREM OrderFollowsPreconditions == Spec => []FollowsPreconditions
<1>1. AuditInv => FollowsPreconditions
  BY DEF AuditInv, Order, Walks, Distinct, FollowsPreconditions
<1> QED BY <1>1, AuditInvariant, PTL

(* Whatever the preconditions of a blueprint, the engine refuses it if and *)
(* only if procedures wait for each other in a circle (the comparison of   *)
(* the two lengths in topological_sort_with_preconditions).                *)
THEOREM CyclesAreRefused == Spec => []RefusesCycles
<1>1. AuditInv => RefusesCycles
  <2> SUFFICES ASSUME AuditInv PROVE RefusesCycles
    OBVIOUS
  <2> DEFINE A == SeqToSet(sorted)
  <2>1. /\ preconditions \in [Procedures -> SUBSET Procedures]
        /\ \A p \in Procedures : unmet[p] = preconditions[p] \ A
        /\ \A p \in Procedures : unmet[p] = {} <=> p \in A \cup SeqToSet(queue)
        /\ \A S \in SUBSET A : Acyclic(preconditions, S)
        /\ sorted \in Seq(Procedures) /\ Distinct(sorted)
    BY DEF AuditInv, Order
  <2>2. A \subseteq Procedures
    BY <2>1, LengthOfDistinct
  <2>3. ASSUME mode = "cycle"
        PROVE  \E S \in SUBSET Procedures : Circular(S)
    <3>1. queue = <<>> /\ A # Procedures
      BY <2>3 DEF AuditInv, Walks
    <3>2. SeqToSet(queue) = {}
      BY <3>1 DEF SeqToSet
    <3> HIDE DEF A
    <3>3. \A p \in Procedures \ A : preconditions[p] \cap (Procedures \ A) # {}
      BY <2>1, <3>2
    <3>4. Procedures \ A # {}
      BY <2>2, <3>1
    <3>5. Circular(Procedures \ A)
      BY <3>3, <3>4 DEF Circular
    <3> QED BY <3>5
  <2>4. ASSUME mode \in {"next", "walk", "done"}, NEW S \in SUBSET Procedures
        PROVE  ~Circular(S)
    <3>1. A = Procedures
      BY <2>4 DEF AuditInv, Walks
    <3>2. Acyclic(preconditions, S)
      BY <2>1, <3>1
    <3> QED BY <3>2 DEF Acyclic, Circular
  <2> QED BY <2>3, <2>4 DEF RefusesCycles
<1> QED BY <1>1, AuditInvariant, PTL

(* A blueprint whose procedures begin with their work: from the first      *)
(* state a transition leads to the second, the work state, as it does in   *)
(* every built-in blueprint.                                               *)
WorkComesFirst ==
  \A p \in Procedures :
    /\ Machine[p].initial = 1
    /\ \A i \in DOMAIN Machine[p].edges :
         Machine[p].edges[i][1] = 1 => Machine[p].edges[i][2] = 2

LEMMA StepKeepsGuards ==
  ASSUME WorkComesFirst, AuditInv, AuditInv', GuardsHold, [Next]_vars
  PROVE  GuardsHold'
<1>1. /\ state \in [Procedures -> Nat] /\ completed \subseteq DOMAIN Gates
      /\ sorted \in Seq(Procedures)
  BY DEF AuditInv, Order, WalkTypeOK
<1>2. CASE UNCHANGED <<state, stepsDone, completed>>
  BY <1>2 DEF GuardsHold
<1>3. CASE SortNext \/ SortEnds \/ LimitReached \/ UNCHANGED vars
  BY <1>2, <1>3 DEF SortNext, SortEnds, LimitReached, vars, walk
<1>4. CASE NextProcedure
  <2> DEFINE p == sorted[position + 1]
  <2>1. /\ position < Len(sorted)
        /\ state' = state \/ state' = [state EXCEPT ![p] = Machine[p].initial]
        /\ UNCHANGED <<stepsDone, completed>>
    BY <1>4 DEF NextProcedure
  <2>2. p \in Procedures
    <3>1. position + 1 \in 1..Len(sorted)
      BY <1>1, <2>1, LenProperties DEF AuditInv, Walks
    <3> QED BY <1>1, <3>1, LenProperties
  <2>3. Machine[p].initial = 1
    BY <2>2 DEF WorkComesFirst
  <2> HIDE DEF p
  <2>4. \A q \in Procedures : state'[q] >= 2 => q \in stepsDone
    BY <1>1, <2>1, <2>3 DEF GuardsHold
  <2> QED BY <2>1, <2>4 DEF GuardsHold
<1>5. CASE Transition
  <2> DEFINE p == current
  <2>1. UNCHANGED completed
    BY <1>5 DEF Transition
  <2>2. CASE Stop
    BY <1>2, <2>1, <2>2 DEF Stop
  <2>3. ASSUME NEW i \in DOMAIN Machine[p].edges, NEW count \in Nat,
               Machine[p].edges[i][1] = state[p], Take(p, Machine[p].edges[i], count)
        PROVE  GuardsHold'
    <3>1. p \in Procedures
      <4>1. position \in 1..Len(sorted)
        BY <1>1, <1>5, LenProperties DEF AuditInv, Walks, Transition
      <4> QED BY <1>1, <4>1, LenProperties DEF current
    <3> DEFINE e == Machine[p].edges[i]
    <3>2. e[1] \in Nat \ {0} /\ e[2] \in Nat \ {0} /\ (e[1] = 1 => e[2] = 2)
      BY <3>1, MachineStates DEF WorkComesFirst
    <3>3. /\ state' = [state EXCEPT ![p] = e[2]]
          /\ stepsDone' = IF (e[2] = 2 /\ e[1] # 2) \/ e[1] = e[2]
                          THEN stepsDone \cup {p} ELSE stepsDone
      BY <2>3 DEF Take
    <3>4. e[1] = state[p]
      BY <2>3
    <3> HIDE DEF e, p
    <3>5. e[1] >= 2 => p \in stepsDone
      BY <3>1, <3>4 DEF GuardsHold
    <3>6. p \in stepsDone' /\ stepsDone \subseteq stepsDone'
      BY <3>2, <3>3, <3>5
    <3>7. \A q \in Procedures : state'[q] >= 2 => q \in stepsDone'
      BY <1>1, <3>3, <3>6 DEF GuardsHold
    <3> QED BY <2>1, <3>6, <3>7 DEF GuardsHold
  <2> QED BY <1>5, <2>2, <2>3, TransitionTakesAnEdge
<1>6. CASE Finish
  <2>1. /\ completed' = {phase \in DOMAIN Gates \ Continuous : Met(Gates[phase])}
        /\ UNCHANGED <<state, stepsDone>>
    BY <1>6 DEF Finish, walk
  <2>2. ASSUME NEW phase \in completed', NEW condition \in Gates[phase], condition[2] >= 2
        PROVE  condition[1] \in stepsDone
    <3>1. phase \in DOMAIN Gates /\ Met(Gates[phase])
      BY <2>1
    <3>2. condition[1] \in Procedures /\ condition[2] = state[condition[1]]
      BY <3>1 DEF Met
    <3> QED BY <2>2, <3>2 DEF GuardsHold
  <2> QED BY <2>1, <2>2 DEF GuardsHold
<1> QED BY <1>3, <1>4, <1>5, <1>6 DEF Next

(* In such a blueprint the guards hold although nobody evaluates them: a   *)
(* procedure past its work state has executed its steps, and so has all    *)
(* that the gate of a completed phase asks for (run_engagement and         *)
(* compute_completed_phases).                                              *)
THEOREM GuardsHoldUnchecked ==
  ASSUME WorkComesFirst PROVE Spec => []GuardsHold
<1>1. Init => GuardsHold
  BY DEF Init, GuardsHold
<1>2. AuditInv /\ AuditInv' /\ GuardsHold /\ [Next]_vars => GuardsHold'
  BY StepKeepsGuards
<1> QED BY <1>1, <1>2, AuditInvariant, PTL DEF Spec

-----------------------------------------------------------------------------
(* Self-loops.                                                             *)

Loops(p, s) ==
  \E i \in DOMAIN Machine[p].edges :
    Machine[p].edges[i][1] = s /\ Machine[p].edges[i][2] = s

(* States without self-loops from which only such states are reached, and  *)
(* to which every transition out of a state with a self-loop leads.        *)
IsBeyondLoops(p, S) ==
  \A i \in DOMAIN Machine[p].edges :
    LET e == Machine[p].edges[i] IN
    /\ e[1] \in S => e[2] \in S /\ e[1] # e[2]
    /\ Loops(p, e[1]) /\ e[1] # e[2] => e[2] \in S

(* A blueprint in which no state with a self-loop is entered after one has *)
(* been left, as in every built-in blueprint.                              *)
LoopsAreLeftForGood ==
  \A p \in Procedures : \E S \in SUBSET Positions(Machine[p]) : IsBeyondLoops(p, S)

BeyondLoops(p) == 
  CHOOSE S \in SUBSET Positions(Machine[p]) : IsBeyondLoops(p, S)

(* The count of self-loops is the number taken in the state the procedure  *)
(* is in, and that is all of them, unless it is past its last self-loop.   *)
CountIsAll ==
  /\ \A i \in 1..Len(sorted) : i > position => loops[sorted[i]] = 0
  /\ mode = "sort" => \A p \in Procedures : loops[p] = 0
  /\ mode = "walk" =>
       \/ state[current] \in BeyondLoops(current)
       \/ /\ loops[current] = selfLoops
          /\ selfLoops = 0 \/ Loops(current, state[current])

LoopsInv == SelfLoopsBounded /\ CountIsAll

LEMMA BeyondLoopsIs ==
  ASSUME LoopsAreLeftForGood, NEW p \in Procedures
  PROVE  IsBeyondLoops(p, BeyondLoops(p))
<1>1. \E S \in SUBSET Positions(Machine[p]) : IsBeyondLoops(p, S)
  BY DEF LoopsAreLeftForGood
<1> HIDE DEF IsBeyondLoops
<1> QED BY <1>1, Zenon DEF BeyondLoops

(* The procedure that is walked is not one of those to come, and no two    *)
(* positions hold the same.                                                *)
LEMMA CurrentIsOne ==
  ASSUME AuditInv, mode = "walk"
  PROVE  /\ current \in Procedures /\ position \in 1..Len(sorted)
         /\ \A i \in 1..Len(sorted) :
              /\ sorted[i] \in Procedures
              /\ i > position => sorted[i] # current
<1>1. sorted \in Seq(Procedures) /\ Distinct(sorted) /\ Len(sorted) \in Nat
  BY LenProperties DEF AuditInv, Order
<1>2. position \in 1..Len(sorted)
  BY <1>1 DEF AuditInv, Walks
<1> QED BY <1>1, <1>2, LenProperties DEF Distinct, current

LEMMA TakeKeepsLoops ==
  ASSUME LoopsAreLeftForGood, AuditInv, LoopsInv, mode = "walk",
         NEW i \in DOMAIN Machine[current].edges, NEW count \in Nat,
         Machine[current].edges[i][1] = state[current],
         CountsLoop(Machine[current].edges[i], count),
         Take(current, Machine[current].edges[i], count),
         UNCHANGED <<mode, sorted, position>>
  PROVE  LoopsInv'
<1> DEFINE p == current
           e == Machine[p].edges[i]
           S == BeyondLoops(p)
<1>1. /\ p \in Procedures /\ position \in 1..Len(sorted)
      /\ \A j \in 1..Len(sorted) :
           /\ sorted[j] \in Procedures
           /\ j > position => sorted[j] # p
  BY CurrentIsOne
<1>2. /\ state \in [Procedures -> Nat] /\ loops \in [Procedures -> Nat] /\ selfLoops \in Nat
  BY DEF AuditInv, WalkTypeOK
<1>3. /\ state' = [state EXCEPT ![p] = e[2]]
      /\ selfLoops' = count
      /\ loops' = IF e[1] # e[2] THEN loops ELSE [loops EXCEPT ![p] = @ + 1]
      /\ e[1] = state[p]
  BY DEF Take
<1>4. /\ e[1] \in S => e[2] \in S /\ e[1] # e[2]
      /\ Loops(p, e[1]) /\ e[1] # e[2] => e[2] \in S
  BY <1>1, BeyondLoopsIs DEF IsBeyondLoops
<1>5. e[1] = e[2] => Loops(p, e[2])
  BY DEF Loops
<1>6. /\ e[1] = e[2] => count = selfLoops + 1 /\ ~(count >= MaxSelfLoops)
      /\ e[1] # e[2] => count = 0
  BY DEF CountsLoop, MustLeave
<1>7. current' = p
  BY DEF current
<1>8. \/ state[p] \in S
      \/ loops[p] = selfLoops /\ (selfLoops = 0 \/ Loops(p, state[p]))
  BY DEF LoopsInv, CountIsAll
<1>9. /\ \A q \in Procedures : loops[q] < MaxSelfLoops \/ loops[q] = 0
      /\ \A j \in 1..Len(sorted) : j > position => loops[sorted[j]] = 0
  BY DEF LoopsInv, SelfLoopsBounded, CountIsAll
<1> HIDE DEF p, e, S
<1>10. state'[p] = e[2]
  BY <1>1, <1>2, <1>3
<1>11. \/ e[2] \in S
       \/ loops'[p] = count /\ (count = 0 \/ Loops(p, e[2]))
  <2>1. CASE e[1] = e[2]
    <3>1. state[p] \notin S
      BY <1>3, <1>4, <2>1
    <3>2. loops'[p] = loops[p] + 1
      BY <1>1, <1>2, <1>3, <2>1
    <3> QED BY <1>5, <1>6, <1>8, <2>1, <3>1, <3>2
  <2>2. CASE e[1] # e[2]
    <3>1. loops'[p] = loops[p] /\ count = 0
      BY <1>3, <1>6, <2>2
    <3>2. CASE state[p] \in S \/ Loops(p, state[p])
      BY <1>3, <1>4, <2>2, <3>2
    <3>3. CASE ~(state[p] \in S \/ Loops(p, state[p]))
      BY <1>8, <3>1, <3>3
    <3> QED BY <3>2, <3>3
  <2> QED BY <2>1, <2>2
<1>12. \A q \in Procedures \ {p} : loops'[q] = loops[q]
  BY <1>1, <1>2, <1>3
<1>13. loops'[p] < MaxSelfLoops \/ loops'[p] = 0
  <2>1. CASE e[1] = e[2]
    <3>1. loops'[p] = loops[p] + 1 /\ loops[p] = selfLoops
      BY <1>1, <1>2, <1>3, <1>4, <1>8, <2>1
    <3> QED BY <1>2, <1>6, <2>1, <3>1
  <2>2. CASE e[1] # e[2]
    BY <1>1, <1>3, <1>9, <2>2
  <2> QED BY <2>1, <2>2
<1>14. SelfLoopsBounded'
  BY <1>9, <1>12, <1>13 DEF SelfLoopsBounded
<1>15. CountIsAll'
  <2>1. \A j \in 1..Len(sorted) : j > position => loops'[sorted[j]] = 0
    BY <1>1, <1>9, <1>12
  <2>2. state'[current'] = e[2] /\ loops'[current'] = loops'[p]
        /\ BeyondLoops(current') = S /\ Loops(current', e[2]) = Loops(p, e[2])
    BY <1>7, <1>10 DEF S
  <2>3. mode' = "walk" => \/ state'[current'] \in BeyondLoops(current')
                          \/ /\ loops'[current'] = selfLoops'
                             /\ selfLoops' = 0 \/ Loops(current', state'[current'])
    BY <1>3, <1>11, <2>2
  <2> QED BY <2>1, <2>3 DEF CountIsAll
<1> QED BY <1>14, <1>15 DEF LoopsInv

LEMMA StepKeepsLoops ==
  ASSUME LoopsAreLeftForGood, AuditInv, AuditInv', LoopsInv, [Next]_vars
  PROVE  LoopsInv'
<1>1. CASE SortNext
  <2>1. /\ mode = "sort" /\ mode' = "sort" /\ UNCHANGED loops
    BY <1>1 DEF SortNext, walk
  <2>2. \A i \in 1..Len(sorted') : sorted'[i] \in Procedures
    <3>1. sorted' \in Seq(Procedures)
      BY DEF AuditInv, Order
    <3> QED BY <3>1, LenProperties
  <2> QED BY <2>1, <2>2 DEF LoopsInv, SelfLoopsBounded, CountIsAll
<1>2. CASE SortEnds \/ LimitReached \/ Finish
  <2>1. /\ mode' # "walk" /\ mode' # "sort"
        /\ UNCHANGED <<sorted, position, loops>>
    BY <1>2 DEF SortEnds, LimitReached, Finish, sorting, walk
  <2> QED BY <2>1 DEF LoopsInv, SelfLoopsBounded, CountIsAll
<1>3. CASE NextProcedure
  <2> DEFINE p == sorted[position + 1]
  <2>1. /\ mode = "next" /\ position < Len(sorted) /\ position' = position + 1
        /\ \/ UNCHANGED mode
           \/ selfLoops' = 0 /\ mode' = "walk"
        /\ UNCHANGED <<sorted, loops>>
    BY <1>3 DEF NextProcedure, sorting
  <2>2. position + 1 \in 1..Len(sorted) /\ position \in Nat /\ Len(sorted) \in Nat
    BY <2>1, LenProperties DEF AuditInv, Order, Walks
  <2>3. loops[p] = 0 /\ current' = p
    BY <2>1, <2>2 DEF LoopsInv, CountIsAll, current
  <2> HIDE DEF p
  <2>4. CountIsAll'
    BY <2>1, <2>2, <2>3 DEF LoopsInv, CountIsAll
  <2> QED BY <2>1, <2>4 DEF LoopsInv, SelfLoopsBounded
<1>4. CASE Transition
  <2>1. mode = "walk" /\ UNCHANGED <<sorted, position>>
    BY <1>4 DEF Transition, sorting
  <2>2. CASE Stop
    BY <2>1, <2>2 DEF Stop, LoopsInv, SelfLoopsBounded, CountIsAll
  <2> QED BY <1>4, <2>1, <2>2, TransitionTakesAnEdge, TakeKeepsLoops
<1>5. CASE UNCHANGED vars
  <2>1. UNCHANGED <<mode, sorted, position, state, selfLoops, loops>> /\ current' = current
    BY <1>5 DEF vars, sorting, walk, current
  <2> QED BY <2>1 DEF LoopsInv, SelfLoopsBounded, CountIsAll
<1> QED BY <1>1, <1>2, <1>3, <1>4, <1>5 DEF Next

(* In such a blueprint the limit on self-loops holds of a procedure as a   *)
(* whole, although the count starts again whenever a state is left         *)
(* (run_engagement, test_self_loop_bounded_by_overlay).                    *)
THEOREM SelfLoopsStayBounded ==
  ASSUME LoopsAreLeftForGood PROVE Spec => []SelfLoopsBounded
<1>1. Init => LoopsInv
  <2> SUFFICES ASSUME Init PROVE LoopsInv
    OBVIOUS
  <2>1. mode = "sort" /\ \A p \in Procedures : loops[p] = 0
    BY DEF Init
  <2>2. \A i \in 1..Len(sorted) : i > position => loops[sorted[i]] = 0
    <3>1. Len(sorted) = 0
      BY DEF Init
    <3> QED BY <3>1
  <2>3. SelfLoopsBounded
    BY <2>1 DEF SelfLoopsBounded
  <2>4. CountIsAll
    BY <2>1, <2>2 DEF CountIsAll
  <2> QED BY <2>3, <2>4 DEF LoopsInv
<1>2. AuditInv /\ AuditInv' /\ LoopsInv /\ [Next]_vars => LoopsInv'
  BY StepKeepsLoops
<1>3. LoopsInv => SelfLoopsBounded
  BY DEF LoopsInv
<1> QED BY <1>1, <1>2, <1>3, AuditInvariant, PTL DEF Spec
=============================================================================
