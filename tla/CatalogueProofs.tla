--------------------------- MODULE CatalogueProofs ---------------------------
(***************************************************************************)
(* Nodes, projects, cached clients and the RAM accounts of the nodes, for  *)
(* any number of tenants and operators.  The accounts are sums over the    *)
(* tenants, so the first part is about sums.                               *)
(***************************************************************************)
EXTENDS Catalogue, FiniteSetTheorems, WellFoundedInduction, TLAPS

(***************************************************************************)
(* Sums.  SumFunctionOnSet is a recursive function on the subsets of its   *)
(* second argument; these lemmas give it the recursion one expects.        *)
(***************************************************************************)

(* Induction over the natural numbers, for a set in place of a predicate.  *)
LEMMA SetInduction ==
    ASSUME NEW S, 0 \in S, \A n \in Nat : n \in S => n + 1 \in S
    PROVE  Nat \subseteq S
<1> SUFFICES ASSUME Nat \ S # {} PROVE FALSE
  OBVIOUS
<1>1. PICK m \in Nat \ S : \A k \in Nat \ S : <<k, m>> \notin OpToRel(<, Nat)
  BY NatLessThanWellFounded, WFMin
<1>2. m # 0 /\ m - 1 \in Nat
  OBVIOUS
<1>3. <<m - 1, m>> \in OpToRel(<, Nat)
  BY <1>2 DEF OpToRel
<1>4. m - 1 \in S
  BY <1>1, <1>2, <1>3
<1> QED BY <1>2, <1>4

\* One step of the recursion, and the function it defines.
SumStep(f, g, s) == IF s = {} THEN 0 ELSE LET x == CHOOSE y \in s : TRUE IN f[x] + g[s \ {x}]
Iter(f, S) == CHOOSE g : g = [s \in SUBSET S |-> SumStep(f, g, s)]

LEMMA SumIsIter == ASSUME NEW f, NEW S PROVE SumFunctionOnSet(f, S) = Iter(f, S)[S]
  BY DEF SumFunctionOnSet, FoldFunctionOnSet, MapThenFoldSet, SumStep, Iter

(* SumStep reads g only on smaller sets.                                   *)
LEMMA SumStepLocal ==
    ASSUME NEW f, NEW s, NEW g, NEW h, \A x \in s : g[s \ {x}] = h[s \ {x}]
    PROVE  SumStep(f, g, s) = SumStep(f, h, s)
<1>1. CASE s = {}
  BY <1>1 DEF SumStep
<1>2. CASE s # {}
  <2> DEFINE x == CHOOSE y \in s : TRUE
  <2>1. x \in s
    BY <1>2
  <2>2. g[s \ {x}] = h[s \ {x}]
    BY <2>1
  <2> QED BY <1>2, <2>2 DEF SumStep
<1> QED BY <1>1, <1>2

LEMMA SubsetCards ==
    ASSUME NEW S, IsFiniteSet(S), NEW s \in SUBSET S
    PROVE  /\ IsFiniteSet(s) /\ Cardinality(s) \in Nat /\ Cardinality(s) <= Cardinality(S)
           /\ \A x \in s : Cardinality(s \ {x}) = Cardinality(s) - 1 /\ s \ {x} \in SUBSET S
           /\ Cardinality(s) = 0 <=> s = {}
<1>1. IsFiniteSet(s) /\ Cardinality(s) \in Nat /\ Cardinality(s) <= Cardinality(S)
  BY FS_Subset, FS_CardinalityType
<1> QED BY <1>1, FS_RemoveElement, FS_EmptySet

(* The recursion has a solution on the sets of up to n elements ...        *)
LEMMA SumApproximated ==
    ASSUME NEW f, NEW S, IsFiniteSet(S), NEW n \in Nat
    PROVE  \E g : \A s \in SUBSET S : Cardinality(s) <= n => g[s] = SumStep(f, g, s)
<1> DEFINE G(m) == \E g : \A s \in SUBSET S : Cardinality(s) <= m => g[s] = SumStep(f, g, s)
           N == {m \in Nat : G(m)}
<1>1. 0 \in N
  <2> DEFINE g == [s \in SUBSET S |-> 0]
  <2>1. \A s \in SUBSET S : Cardinality(s) <= 0 => s = {}
    BY SubsetCards
  <2>2. \A s \in SUBSET S : Cardinality(s) <= 0 => g[s] = SumStep(f, g, s)
    BY <2>1 DEF SumStep
  <2> QED BY <2>2
<1>2. ASSUME NEW k \in Nat, k \in N PROVE k + 1 \in N
  <2>1. PICK g : \A s \in SUBSET S : Cardinality(s) <= k => g[s] = SumStep(f, g, s)
    BY <1>2
  <2> DEFINE h == [s \in SUBSET S |-> IF Cardinality(s) <= k THEN g[s] ELSE SumStep(f, g, s)]
  <2>2. ASSUME NEW s \in SUBSET S, Cardinality(s) <= k + 1 PROVE h[s] = SumStep(f, h, s)
    <3>1. h[s] = SumStep(f, g, s)
      BY <2>1
    <3>2. ASSUME NEW x \in s PROVE h[s \ {x}] = g[s \ {x}]
      <4>1. /\ Cardinality(s \ {x}) = Cardinality(s) - 1 /\ s \ {x} \in SUBSET S
            /\ Cardinality(s) \in Nat
        BY SubsetCards
      <4>2. Cardinality(s \ {x}) <= k
        BY <2>2, <4>1
      <4> QED BY <4>1, <4>2
    <3> HIDE DEF h
    <3>3. SumStep(f, g, s) = SumStep(f, h, s)
      BY <3>2, SumStepLocal
    <3> QED BY <3>1, <3>3
  <2> HIDE DEF h
  <2>3. G(k + 1)
    BY <2>2
  <2> QED BY <2>3
<1> HIDE DEF N
<1>3. Nat \subseteq N
  BY <1>1, <1>2, SetInduction
<1> QED BY <1>3 DEF N

(* ... and so on all of them.                                              *)
LEMMA IterRecursion ==
    ASSUME NEW f, NEW S, IsFiniteSet(S), NEW s \in SUBSET S
    PROVE  Iter(f, S)[s] = SumStep(f, Iter(f, S), s)
<1>1. Cardinality(S) \in Nat /\ \A t \in SUBSET S : Cardinality(t) <= Cardinality(S)
  BY SubsetCards
<1>2. PICK g : \A t \in SUBSET S : g[t] = SumStep(f, g, t)
  <2>1. \E g : \A t \in SUBSET S : Cardinality(t) <= Cardinality(S) => g[t] = SumStep(f, g, t)
    BY <1>1, SumApproximated
  <2> QED BY <1>1, <2>1
<1> DEFINE h == [t \in SUBSET S |-> g[t]]
<1>3. \A t \in SUBSET S : SumStep(f, h, t) = SumStep(f, g, t)
  <2> SUFFICES ASSUME NEW t \in SUBSET S PROVE SumStep(f, h, t) = SumStep(f, g, t)
    OBVIOUS
  <2>1. \A x \in t : h[t \ {x}] = g[t \ {x}]
    OBVIOUS
  <2> HIDE DEF h
  <2> QED BY <2>1, SumStepLocal
<1>4. h = [t \in SUBSET S |-> SumStep(f, h, t)]
  <2>1. \A t \in SUBSET S : h[t] = SumStep(f, h, t)
    BY <1>2, <1>3
  <2> QED BY <2>1
<1> HIDE DEF h
<1>5. Iter(f, S) = [t \in SUBSET S |-> SumStep(f, Iter(f, S), t)]
  BY <1>4 DEF Iter
<1> QED BY <1>5

(* The set that the recursion started from does not matter.                *)
LEMMA IterAgrees ==
    ASSUME NEW f, NEW T, IsFiniteSet(T), NEW U \in SUBSET T, NEW s \in SUBSET U
    PROVE  Iter(f, U)[s] = Iter(f, T)[s]
<1> DEFINE N == {m \in Nat : \A u \in SUBSET U : Cardinality(u) <= m => Iter(f, U)[u] = Iter(f, T)[u]}
<1>0. IsFiniteSet(U)
  BY SubsetCards
<1>1. 0 \in N
  <2>1. \A u \in SUBSET U : Cardinality(u) <= 0 => u = {}
    BY <1>0, SubsetCards
  <2>2. \A u \in SUBSET U : u = {} => Iter(f, U)[u] = Iter(f, T)[u]
    <3>1. Iter(f, U)[{}] = SumStep(f, Iter(f, U), {}) /\ Iter(f, T)[{}] = SumStep(f, Iter(f, T), {})
      BY <1>0, IterRecursion
    <3> QED BY <3>1 DEF SumStep
  <2> QED BY <2>1, <2>2
<1>2. ASSUME NEW k \in Nat, k \in N PROVE k + 1 \in N
  <2>1. ASSUME NEW u \in SUBSET U, Cardinality(u) <= k + 1 PROVE Iter(f, U)[u] = Iter(f, T)[u]
    <3>1. ASSUME NEW x \in u PROVE Iter(f, U)[u \ {x}] = Iter(f, T)[u \ {x}]
      <4>1. /\ Cardinality(u \ {x}) = Cardinality(u) - 1 /\ u \ {x} \in SUBSET U
            /\ Cardinality(u) \in Nat
        BY <1>0, SubsetCards
      <4>2. Cardinality(u \ {x}) <= k
        BY <2>1, <4>1
      <4> QED BY <1>2, <4>1, <4>2
    <3>2. SumStep(f, Iter(f, U), u) = SumStep(f, Iter(f, T), u)
      BY <3>1, SumStepLocal
    <3> QED BY <1>0, <3>2, IterRecursion
  <2> QED BY <2>1
<1> HIDE DEF N
<1>3. Nat \subseteq N
  BY <1>1, <1>2, SetInduction
<1>4. Cardinality(s) \in Nat
  BY <1>0, SubsetCards
<1> QED BY <1>3, <1>4 DEF N

LEMMA SumEmpty == ASSUME NEW f PROVE SumFunctionOnSet(f, {}) = 0
<1>1. Iter(f, {})[{}] = SumStep(f, Iter(f, {}), {})
  BY IterRecursion, FS_EmptySet
<1> QED BY <1>1, SumIsIter DEF SumStep

LEMMA SumSome ==
    ASSUME NEW f, NEW S, IsFiniteSet(S), S # {}
    PROVE  \E x \in S : SumFunctionOnSet(f, S) = f[x] + SumFunctionOnSet(f, S \ {x})
<1> DEFINE x == CHOOSE y \in S : TRUE
<1>1. x \in S
  OBVIOUS
<1>2. Iter(f, S)[S] = f[x] + Iter(f, S)[S \ {x}]
  <2>1. Iter(f, S)[S] = SumStep(f, Iter(f, S), S)
    BY IterRecursion
  <2> QED BY <2>1 DEF SumStep
<1>3. Iter(f, S \ {x})[S \ {x}] = Iter(f, S)[S \ {x}]
  BY IterAgrees
<1> HIDE DEF x
<1> QED BY <1>1, <1>2, <1>3, SumIsIter

LEMMA SumNat ==
    ASSUME NEW T, IsFiniteSet(T), NEW f \in [T -> Nat], NEW S \in SUBSET T
    PROVE  SumFunctionOnSet(f, S) \in Nat
<1> DEFINE N == {m \in Nat : \A s \in SUBSET T : Cardinality(s) <= m => SumFunctionOnSet(f, s) \in Nat}
<1>1. 0 \in N
  BY SubsetCards, SumEmpty
<1>2. ASSUME NEW k \in Nat, k \in N PROVE k + 1 \in N
  <2>1. ASSUME NEW s \in SUBSET T, Cardinality(s) <= k + 1, s # {} PROVE SumFunctionOnSet(f, s) \in Nat
    <3>1. PICK x \in s : SumFunctionOnSet(f, s) = f[x] + SumFunctionOnSet(f, s \ {x})
      BY <2>1, SubsetCards, SumSome
    <3>2. /\ Cardinality(s \ {x}) = Cardinality(s) - 1 /\ s \ {x} \in SUBSET T
          /\ Cardinality(s) \in Nat
      BY SubsetCards
    <3>3. Cardinality(s \ {x}) <= k
      BY <2>1, <3>2
    <3>4. SumFunctionOnSet(f, s \ {x}) \in Nat
      BY <1>2, <3>2, <3>3
    <3> QED BY <3>1, <3>4
  <2> QED BY <2>1, SumEmpty
<1> HIDE DEF N
<1>3. Nat \subseteq N
  BY <1>1, <1>2, SetInduction
<1>4. Cardinality(S) \in Nat
  BY SubsetCards
<1> QED BY <1>3, <1>4 DEF N

(* A sum is an element and the sum of the others, whichever it is.         *)
LEMMA SumSplit ==
    ASSUME NEW T, IsFiniteSet(T), NEW f \in [T -> Nat], NEW S \in SUBSET T, NEW z \in S
    PROVE  SumFunctionOnSet(f, S) = f[z] + SumFunctionOnSet(f, S \ {z})
<1> DEFINE Splits(s) == \A x \in s : SumFunctionOnSet(f, s) = f[x] + SumFunctionOnSet(f, s \ {x})
           N == {m \in Nat : \A s \in SUBSET T : Cardinality(s) <= m => Splits(s)}
<1>1. 0 \in N
  BY SubsetCards
<1>2. ASSUME NEW k \in Nat, k \in N PROVE k + 1 \in N
  <2>1. ASSUME NEW s \in SUBSET T, Cardinality(s) <= k + 1, NEW x \in s
        PROVE  SumFunctionOnSet(f, s) = f[x] + SumFunctionOnSet(f, s \ {x})
    <3>1. PICK y \in s : SumFunctionOnSet(f, s) = f[y] + SumFunctionOnSet(f, s \ {y})
      BY <2>1, SubsetCards, SumSome
    <3>2. CASE y = x
      BY <3>1, <3>2
    <3>3. CASE y # x
      <4>1. \A u \in s : /\ Cardinality(s \ {u}) = Cardinality(s) - 1 /\ s \ {u} \in SUBSET T
                         /\ Cardinality(s) \in Nat
        BY SubsetCards
      <4>2. \A u \in s : Cardinality(s \ {u}) <= k
        BY <2>1, <4>1
      <4>3. \A u \in s : Splits(s \ {u})
        BY <1>2, <4>1, <4>2
      <4>4. SumFunctionOnSet(f, s \ {y}) = f[x] + SumFunctionOnSet(f, (s \ {y}) \ {x})
        BY <3>3, <4>3
      <4>5. SumFunctionOnSet(f, s \ {x}) = f[y] + SumFunctionOnSet(f, (s \ {x}) \ {y})
        BY <3>3, <4>3
      <4>6. (s \ {y}) \ {x} = (s \ {x}) \ {y} /\ SumFunctionOnSet(f, (s \ {y}) \ {x}) \in Nat
        BY SumNat
      <4>7. f[x] \in Nat /\ f[y] \in Nat
        OBVIOUS
      <4> DEFINE rest == SumFunctionOnSet(f, (s \ {y}) \ {x})
      <4>8. SumFunctionOnSet(f, s) = f[y] + (f[x] + rest) /\ SumFunctionOnSet(f, s \ {x}) = f[y] + rest
        BY <3>1, <4>4, <4>5, <4>6
      <4>9. rest \in Nat
        BY <4>6
      <4> HIDE DEF rest
      <4> QED BY <4>7, <4>8, <4>9
    <3> QED BY <3>2, <3>3
  <2> QED BY <2>1
<1> HIDE DEF N
<1>3. Nat \subseteq N
  BY <1>1, <1>2, SetInduction
<1>4. Cardinality(S) \in Nat
  BY SubsetCards
<1> QED BY <1>3, <1>4 DEF N

(* A sum depends only on the values it adds up.                            *)
LEMMA SumSame ==
    ASSUME NEW T, IsFiniteSet(T), NEW f, NEW g, NEW S \in SUBSET T, \A x \in S : f[x] = g[x]
    PROVE  SumFunctionOnSet(f, S) = SumFunctionOnSet(g, S)
<1>0. IsFiniteSet(S)
  BY SubsetCards
<1> DEFINE N == {m \in Nat : \A s \in SUBSET S : Cardinality(s) <= m => Iter(f, S)[s] = Iter(g, S)[s]}
<1>a. ASSUME NEW s \in SUBSET S PROVE /\ Iter(f, S)[s] = SumStep(f, Iter(f, S), s)
                                     /\ Iter(g, S)[s] = SumStep(g, Iter(g, S), s)
  BY <1>0, IterRecursion
<1>b. ASSUME NEW s \in SUBSET S PROVE SumStep(f, Iter(f, S), s) = SumStep(g, Iter(f, S), s)
  BY DEF SumStep
<1>1. 0 \in N
  <2>1. \A s \in SUBSET S : Cardinality(s) <= 0 => s = {}
    BY <1>0, SubsetCards
  <2>2. Iter(f, S)[{}] = 0 /\ Iter(g, S)[{}] = 0
    BY <1>a DEF SumStep
  <2> QED BY <2>1, <2>2
<1>2. ASSUME NEW k \in Nat, k \in N PROVE k + 1 \in N
  <2>1. ASSUME NEW s \in SUBSET S, Cardinality(s) <= k + 1 PROVE Iter(f, S)[s] = Iter(g, S)[s]
    <3>1. ASSUME NEW x \in s PROVE Iter(f, S)[s \ {x}] = Iter(g, S)[s \ {x}]
      <4>1. /\ Cardinality(s \ {x}) = Cardinality(s) - 1 /\ s \ {x} \in SUBSET S
            /\ Cardinality(s) \in Nat
        BY <1>0, SubsetCards
      <4>2. Cardinality(s \ {x}) <= k
        BY <2>1, <4>1
      <4> QED BY <1>2, <4>1, <4>2
    <3>2. SumStep(g, Iter(f, S), s) = SumStep(g, Iter(g, S), s)
      BY <3>1, SumStepLocal
    <3> QED BY <1>a, <1>b, <3>2
  <2> QED BY <2>1
<1> HIDE DEF N
<1>3. Nat \subseteq N
  BY <1>1, <1>2, SetInduction
<1>4. Cardinality(S) \in Nat
  BY <1>0, SubsetCards
<1>5. Iter(f, S)[S] = Iter(g, S)[S]
  BY <1>3, <1>4 DEF N
<1> QED BY <1>5, SumIsIter

-----------------------------------------------------------------------------
(* The inductive invariant. *)

\* What a create has chosen exists or has existed, and it has chosen just what
\* the step that it has come to needs.
Chosen == \A t \in Tenants :
    /\ tenant[t].node # Absent => node[tenant[t].node] # Absent
    /\ tenant[t].project # Absent => project[tenant[t].project] # Absent
    /\ tenant[t].step \notin {"new", "node"} <=> tenant[t].node # Absent
    /\ tenant[t].step \notin {"new", "project"} <=> tenant[t].project # Absent

\* A client is only made for a node that had a row.
Known ==
    /\ \A n \in Nodes : clients[n] # Absent => node[n] # Absent
    /\ filling.node = Absent => filling = NotFilling
    /\ filling.node # Absent => node[filling.node] # Absent /\ filling.url # Absent

\* An InvalidateClient for node n is still to come.
Stale(n) == \E r \in Ops : op[r] = [kind |-> "invalidate", of |-> n]

\* What is cached, and what getClient has read so far under its lock, is what
\* the row says, or InvalidateClient is still to come.
Fresh == \A n \in Nodes : HasNode(n) /\ ~Stale(n) =>
    /\ clients[n] # Absent =>
          clients[n].token = node[n].token /\ (n \in movedAlone \/ clients[n].url = node[n].url)
    /\ filling.node = n =>
          /\ n \in movedAlone \/ filling.url = node[n].url
          /\ filling.token # Absent => filling.token = node[n].token

\* The RAM figure of a tenant is that of its project, unless it was edited.
Figures == \A t \in Tenants : LET p == tenant[t].project IN
    /\ p # Absent /\ p \notin edited /\ HasProject(p) => tenant[t].ram = project[p]
    /\ tenant[t].step \in {"failing", "error"} => t \in failed

CInv == CatTypeOK /\ Chosen /\ Known /\ NoOrphans /\ Fresh /\ Figures

-----------------------------------------------------------------------------
(* Types. *)

(* ReleaseRAM floors the counter at zero.                                  *)
LEMMA MaxZero ==
    ASSUME NEW a \in Int
    PROVE  Max({a, 0}) \in Nat /\ (a >= 0 => Max({a, 0}) = a) /\ Max({a, 0}) \in {a, 0}
<1> DEFINE b == IF a >= 0 THEN a ELSE 0
<1>1. b \in {a, 0} /\ \A y \in {a, 0} : b >= y
  OBVIOUS
<1>2. \A c \in {a, 0} : (\A y \in {a, 0} : c >= y) => c = b
  OBVIOUS
<1>3. Max({a, 0}) = b
  BY <1>1, <1>2 DEF Max
<1> QED BY <1>3

NodeTable == [Nodes -> NodeRow \cup {Absent, Gone}]
Steps == {"new", "project", "node", "reserve", "insert", "release", "running", "failing",
          "deleting", "refused", "active", "error", "deleted"}
TenantRow == [step : Steps, node : Maybe(Nodes), project : Maybe(Projects), ram : RamValues \cup {0}]

(* A row of a node is a NodeRow, so a number is in its counters.           *)
LEMMA RowTyped ==
    ASSUME node \in NodeTable, NEW n \in Nodes, HasNode(n)
    PROVE  /\ node[n] \in NodeRow
           /\ node[n].allocated \in Nat /\ node[n].total \in Nat
           /\ node[n].url \in URLs /\ node[n].token \in ApiTokens
  BY ValueAssumption DEF NodeTable, HasNode, NodeRow

(* UPDATE nodes SET keeps a row a row.                                     *)
LEMMA ReleaseTyped ==
    ASSUME node \in NodeTable, NEW n, HasNode(n) => n \in Nodes, NEW ram \in Nat, Release(n, ram)
    PROVE  node' \in NodeTable
<1>1. CASE HasNode(n)
  <2>1. node[n] \in NodeRow /\ node[n].allocated \in Nat
    BY <1>1, RowTyped
  <2> DEFINE rest == node[n].allocated - ram
  <2>a. rest \in Int
    BY <2>1
  <2> HIDE DEF rest
  <2>b. Max({rest, 0}) \in Nat
    BY <2>a, MaxZero
  <2>2. Max({node[n].allocated - ram, 0}) \in Nat
    BY <2>b DEF rest
  <2>3. node' = [node EXCEPT ![n].allocated = Max({node[n].allocated - ram, 0})]
    BY <1>1 DEF Release
  <2> QED BY <1>1, <2>1, <2>2, <2>3 DEF NodeTable, NodeRow
<1>2. CASE ~HasNode(n)
  BY <1>2 DEF Release
<1> QED BY <1>1, <1>2

LEMMA AdvanceTyped ==
    ASSUME tenant \in [Tenants -> TenantRow], NEW t \in Tenants, NEW s \in Steps, Advance(t, s)
    PROVE  tenant' \in [Tenants -> TenantRow]
  BY DEF Advance, TenantRow

LEMMA RamNat == \A x \in RamValues \cup {0} : x \in Nat
  BY ValueAssumption

(* A read of a node or of a project's figure goes into the tenant's row.   *)
LEMMA ReadNodeTyped ==
    ASSUME tenant \in [Tenants -> TenantRow], NEW t \in Tenants, NEW s \in Steps, NEW n \in Nodes,
           tenant' = [tenant EXCEPT ![t].step = s, ![t].node = n]
    PROVE  tenant' \in [Tenants -> TenantRow]
  BY DEF TenantRow, Maybe

LEMMA ReadProjectTyped ==
    ASSUME tenant \in [Tenants -> TenantRow], NEW t \in Tenants, NEW s \in Steps, NEW p \in Projects,
           HasProject(p), project \in [Projects -> RamValues \cup {Absent, Gone}],
           tenant' = [tenant EXCEPT ![t].step = s, ![t].project = p, ![t].ram = project[p]]
    PROVE  tenant' \in [Tenants -> TenantRow]
<1> DEFINE Ram == RamValues \cup {0}
           ram == project[p]
<1>1. ram \in Ram
  BY DEF HasProject
<1>5. tenant' = [tenant EXCEPT ![t].step = s, ![t].project = p, ![t].ram = ram]
  OBVIOUS
<1> HIDE DEF Ram, ram
<1>2. TenantRow = [step : Steps, node : Maybe(Nodes), project : Maybe(Projects), ram : Ram]
  BY DEF TenantRow, Ram
<1>3. p \in Maybe(Projects)
  BY DEF Maybe
<1> DEFINE now == [tenant[t] EXCEPT !.step = s, !.project = p, !.ram = ram]
<1>4. now \in TenantRow
  <2> SUFFICES ASSUME NEW r \in TenantRow PROVE [r EXCEPT !.step = s, !.project = p, !.ram = ram] \in TenantRow
    OBVIOUS
  <2> QED BY <1>1, <1>2, <1>3
<1>6. tenant' = [tenant EXCEPT ![t] = now]
  BY <1>5
<1> HIDE DEF now
<1> QED BY <1>4, <1>6

LEMMA ReadRamTyped ==
    ASSUME tenant \in [Tenants -> TenantRow], NEW t \in Tenants, NEW s \in Steps, NEW ram \in RamValues \cup {0},
           tenant' = [tenant EXCEPT ![t].step = s, ![t].ram = ram]
    PROVE  tenant' \in [Tenants -> TenantRow]
<1> DEFINE Ram == RamValues \cup {0}
<1>1. ram \in Ram
  OBVIOUS
<1> HIDE DEF Ram
<1>2. TenantRow = [step : Steps, node : Maybe(Nodes), project : Maybe(Projects), ram : Ram]
  BY DEF TenantRow, Ram
<1> QED BY <1>1, <1>2

LEMMA InitCInv == CatInit => CInv
<1> SUFFICES ASSUME CatInit PROVE CInv
  OBVIOUS
<1>1. CatTypeOK
  BY EditsAssumption DEF CatInit, CatTypeOK, Fits, HasNode, OpIdle, NotFilling, Unborn, Maybe
<1>2. Chosen /\ Known /\ NoOrphans /\ Figures
  BY DEF CatInit, Chosen, Known, NoOrphans, Rows, Figures, Unborn, NotFilling
<1>3. Fresh
  BY DEF CatInit, Fresh, HasNode
<1> QED BY <1>1, <1>2, <1>3 DEF CInv

(* The rows, the requests and the cache keep their types.                  *)
LEMMA StepTypeOK == CatTypeOK /\ Chosen /\ Known /\ Fits' /\ [CatNext]_catVars => CatTypeOK'
<1> SUFFICES ASSUME CatTypeOK, Chosen, Known, Fits', [CatNext]_catVars PROVE CatTypeOK'
  OBVIOUS
<1> DEFINE Op == [kind : {"idle"}] \cup [kind : {"invalidate", "deleteNode"}, of : Nodes]
                    \cup [kind : {"deleteProject"}, of : Projects]
           Filling == [node : Maybe(Nodes), url : Maybe(URLs), token : Maybe(ApiTokens)]
           Rest == /\ project \in [Projects -> RamValues \cup {Absent, Gone}]
                   /\ op \in [Ops -> Op]
                   /\ clients \in [Nodes -> Client \cup {Absent}]
                   /\ filling \in Filling
                   /\ edits \in 0..MaxEdits
                   /\ movedAlone \subseteq Nodes /\ edited \subseteq Projects /\ failed \subseteq Tenants
<1>0. node \in NodeTable /\ tenant \in [Tenants -> TenantRow] /\ Rest
  BY DEF CatTypeOK, NodeTable, TenantRow, Steps
<1>a. node' \in NodeTable /\ tenant' \in [Tenants -> TenantRow] /\ Rest' => CatTypeOK'
  BY DEF CatTypeOK, NodeTable, TenantRow, Steps
<1>b. ASSUME NEW t \in Tenants
      PROVE  /\ tenant[t] \in TenantRow /\ tenant[t].ram \in Nat
             /\ HasNode(tenant[t].node) /\ tenant[t].node # Absent => tenant[t].node \in Nodes
             /\ tenant[t].step \notin {"new", "node"} => tenant[t].node \in Nodes
  <2>1. tenant[t] \in TenantRow
    BY <1>0
  <2>a. tenant[t].ram \in RamValues \cup {0} /\ tenant[t].node \in Maybe(Nodes)
    BY <2>1 DEF TenantRow
  <2>2. tenant[t].ram \in Nat /\ tenant[t].node \in Maybe(Nodes)
    BY <2>a, RamNat
  <2>3. tenant[t].step \notin {"new", "node"} => tenant[t].node # Absent
    BY DEF Chosen
  <2> QED BY <2>1, <2>2, <2>3 DEF Maybe
<1>c. Edit => edits' \in 0..MaxEdits
  BY <1>0, EditsAssumption DEF Edit
<1> USE DEF historyVars
<1>1. ASSUME NEW n \in Nodes, CreateNode(n) PROVE CatTypeOK'
  <2>1. node' \in NodeTable
    BY <1>0, <1>1, StatusAssumption DEF CreateNode, NodeTable, NodeRow
  <2> QED BY <1>0, <1>1, <1>a, <2>1 DEF CreateNode
<1>2. ASSUME NEW n \in Nodes, NEW s \in NodeStatuses, NEW ram \in Totals, UpdateNodeRow(n, s, ram)
      PROVE CatTypeOK'
  <2>1. node' \in NodeTable
    <3> DEFINE now == [node[n] EXCEPT !.status = s, !.total = ram]
    <3>1. node[n] \in NodeRow
      BY <1>0, <1>2, RowTyped DEF UpdateNodeRow
    <3>2. now \in NodeRow
      BY <3>1 DEF NodeRow
    <3>3. node' = [node EXCEPT ![n] = now]
      BY <1>0, <1>2 DEF UpdateNodeRow, NodeTable
    <3> HIDE DEF now
    <3> QED BY <1>0, <3>2, <3>3 DEF NodeTable
  <2> QED BY <1>0, <1>2, <1>a, <1>c, <2>1 DEF UpdateNodeRow
<1>3. ASSUME NEW n \in Nodes, NEW u \in URLs, UpdateNodeURL(n, u) PROVE CatTypeOK'
  <2>1. node' \in NodeTable
    BY <1>0, <1>3, RowTyped DEF UpdateNodeURL, NodeTable, NodeRow
  <2> QED BY <1>0, <1>3, <1>a, <1>c, <2>1 DEF UpdateNodeURL
<1>4. ASSUME NEW p \in Projects, CreateProject(p) PROVE CatTypeOK'
  BY <1>0, <1>4, <1>a DEF CreateProject
<1>5. ASSUME NEW p \in Projects, NEW ram \in RamValues, UpdateProject(p, ram) PROVE CatTypeOK'
  BY <1>0, <1>5, <1>a, <1>c DEF UpdateProject
<1>6. ASSUME NEW r \in Ops, NEW n \in Nodes, DeleteNodeCheck(r, n) PROVE CatTypeOK'
  BY <1>0, <1>6, <1>a, <1>c DEF DeleteNodeCheck
<1>7. ASSUME NEW r \in Ops, NEW n \in Nodes, NEW u \in URLs, NEW k \in ApiTokens,
             UpdateNodeAccess(r, n, u, k) PROVE CatTypeOK'
  <2>1. node' \in NodeTable
    <3> DEFINE now == [node[n] EXCEPT !.url = u, !.token = k]
    <3>1. node[n] \in NodeRow
      BY <1>0, <1>7, RowTyped DEF UpdateNodeAccess
    <3>2. now \in NodeRow
      BY <3>1 DEF NodeRow
    <3>3. node' = [node EXCEPT ![n] = now]
      BY <1>0, <1>7 DEF UpdateNodeAccess, NodeTable
    <3> HIDE DEF now
    <3> QED BY <1>0, <3>2, <3>3 DEF NodeTable
  <2> QED BY <1>0, <1>7, <1>a, <1>c, <2>1 DEF UpdateNodeAccess
<1>8. ASSUME NEW r \in Ops, NEW p \in Projects, DeleteProjectCheck(r, p) PROVE CatTypeOK'
  BY <1>0, <1>8, <1>a, <1>c DEF DeleteProjectCheck
<1>9. ASSUME NEW r \in Ops, DeleteNode(r) PROVE CatTypeOK'
  <2>1. node' \in NodeTable
    BY <1>0, <1>9 DEF DeleteNode, NodeTable
  <2>2. op' \in [Ops -> Op]
    BY <1>0, <1>9 DEF DeleteNode, OpIdle
  <2> QED BY <1>0, <1>9, <1>a, <2>1, <2>2 DEF DeleteNode
<1>10. ASSUME NEW r \in Ops, DeleteProject(r) PROVE CatTypeOK'
  BY <1>0, <1>10, <1>a DEF DeleteProject, OpIdle
<1>11. ASSUME NEW r \in Ops, InvalidateClient(r) PROVE CatTypeOK'
  BY <1>0, <1>11, <1>a DEF InvalidateClient, OpIdle
<1>12. CASE GetClientToken
  <2>1. filling' \in Filling
    BY <1>0, <1>12, RowTyped DEF GetClientToken, NotFilling, Maybe
  <2> QED BY <1>0, <1>12, <1>a, <2>1 DEF GetClientToken
<1>13. CASE GetClientStore
  <2>1. filling.node \in Nodes /\ filling.url \in URLs /\ filling.token \in ApiTokens
    BY <1>0, <1>13 DEF GetClientStore, Known, NotFilling, Maybe
  <2>2. filling' \in Filling
    BY <1>13 DEF GetClientStore, NotFilling, Maybe
  <2> QED BY <1>0, <1>13, <1>a, <2>1, <2>2 DEF GetClientStore, Client
<1>14. ASSUME NEW n \in Nodes, GetClientLock(n) PROVE CatTypeOK'
  <2>1. filling' \in Filling
    BY <1>0, <1>14, RowTyped DEF GetClientLock, Maybe
  <2> QED BY <1>0, <1>14, <1>a, <2>1 DEF GetClientLock
<1>15. ASSUME NEW t \in Tenants, NEW n \in Nodes, CreateReadNode(t, n) PROVE CatTypeOK'
  <2>1. "project" \in Steps
    BY DEF Steps
  <2>2. tenant' \in [Tenants -> TenantRow]
    BY <1>0, <1>15, <2>1, ReadNodeTyped DEF CreateReadNode
  <2> QED BY <1>0, <1>15, <1>a, <2>2 DEF CreateReadNode
<1>16. ASSUME NEW t \in Tenants, NEW n \in Nodes, GetLeastLoaded(t, n) PROVE CatTypeOK'
  <2>1. "reserve" \in Steps
    BY DEF Steps
  <2>2. tenant' \in [Tenants -> TenantRow]
    BY <1>0, <1>16, <2>1, ReadNodeTyped DEF GetLeastLoaded
  <2> QED BY <1>0, <1>16, <1>a, <2>2 DEF GetLeastLoaded
<1>17. ASSUME NEW t \in Tenants, NEW p \in Projects, CreateReadProject(t, p) PROVE CatTypeOK'
  <2>1. "reserve" \in Steps
    BY DEF Steps
  <2>2. tenant' \in [Tenants -> TenantRow]
    BY <1>0, <1>17, <2>1, ReadProjectTyped DEF CreateReadProject
  <2> QED BY <1>0, <1>17, <1>a, <2>2 DEF CreateReadProject
<1>18. ASSUME NEW t \in Tenants, GetDefault(t) PROVE CatTypeOK'
  <2>1. "node" \in Steps
    BY DEF Steps
  <2>2. PICK p \in Projects : HasProject(p) /\ tenant' =
            [tenant EXCEPT ![t].step = "node", ![t].project = p, ![t].ram = project[p]]
    BY <1>18 DEF GetDefault
  <2>3. tenant' \in [Tenants -> TenantRow]
    BY <1>0, <2>1, <2>2, ReadProjectTyped
  <2> QED BY <1>0, <1>18, <1>a, <2>3 DEF GetDefault
<1>19. ASSUME NEW t \in Tenants, ReserveRAM(t) PROVE CatTypeOK'
  <2>1. Advance(t, "insert") \/ Advance(t, "refused")
    BY <1>19 DEF ReserveRAM
  <2>2. tenant' \in [Tenants -> TenantRow]
    BY <1>0, <2>1, AdvanceTyped DEF Steps
  <2>3. node' \in NodeTable
    BY <1>0, <1>19, <1>b, RowTyped DEF ReserveRAM, NodeTable, NodeRow
  <2> QED BY <1>0, <1>19, <1>a, <2>2, <2>3 DEF ReserveRAM
<1>20. ASSUME NEW t \in Tenants, CreateInsert(t) PROVE CatTypeOK'
  <2>1. tenant' \in [Tenants -> TenantRow]
    BY <1>0, <1>20, AdvanceTyped DEF CreateInsert, Steps
  <2> QED BY <1>0, <1>20, <1>a, <2>1 DEF CreateInsert
<1>21. ASSUME NEW t \in Tenants, CreateRelease(t) \/ JobRelease(t) \/ DeleteRelease(t) PROVE CatTypeOK'
  <2>1. tenant' \in [Tenants -> TenantRow]
    BY <1>0, <1>21, AdvanceTyped DEF CreateRelease, JobRelease, DeleteRelease, Steps
  <2>2. Release(tenant[t].node, tenant[t].ram) /\ tenant[t].node \in Nodes
    BY <1>21, <1>b DEF CreateRelease, JobRelease, DeleteRelease
  <2>3. node' \in NodeTable
    BY <1>0, <1>b, <2>2, ReleaseTyped
  <2> QED BY <1>0, <1>21, <1>a, <2>1, <2>3 DEF CreateRelease, JobRelease, DeleteRelease
<1>22. ASSUME NEW t \in Tenants, JobEnds(t) PROVE CatTypeOK'
  <2>1. tenant' \in [Tenants -> TenantRow]
    BY <1>0, <1>22, AdvanceTyped DEF JobEnds, Steps
  <2> QED BY <1>0, <1>22, <1>a, <2>1 DEF JobEnds
<1>23. ASSUME NEW t \in Tenants, DeleteRead(t) PROVE CatTypeOK'
  <2>1. tenant[t].project \in Projects
    BY <1>0, <1>23, <1>b DEF DeleteRead, Chosen, TenantRow, Maybe
  <2>2. HasProject(tenant[t].project) => project[tenant[t].project] \in RamValues
    BY <1>0, <2>1 DEF HasProject
  <2> DEFINE ram == IF HasProject(tenant[t].project) THEN project[tenant[t].project] ELSE 0
  <2>a. ram \in RamValues \cup {0}
    BY <2>2
  <2>b. tenant' = [tenant EXCEPT ![t].step = "deleting", ![t].ram = ram]
    BY <1>23 DEF DeleteRead
  <2> HIDE DEF ram
  <2>3. tenant' \in [Tenants -> TenantRow]
    <3>1. "deleting" \in Steps
      BY DEF Steps
    <3> QED BY <1>0, <2>a, <2>b, <3>1, ReadRamTyped
  <2> QED BY <1>0, <1>23, <1>a, <2>3 DEF DeleteRead
<1>24. CASE UNCHANGED catVars
  BY <1>0, <1>24, <1>a DEF catVars
<1> QED BY <1>1, <1>2, <1>3, <1>4, <1>5, <1>6, <1>7, <1>8, <1>9, <1>10, <1>11, <1>12, <1>13, <1>14,
           <1>15, <1>16, <1>17, <1>18, <1>19, <1>20, <1>21, <1>22, <1>23, <1>24
        DEF CatNext, OperatorStep, ClientStep, TenantStep

-----------------------------------------------------------------------------
(* What a step may do to the rows of nodes and projects. *)

(* The columns an UPDATE does not name stay as they are.                   *)
LEMMA ReleaseEffect ==
    ASSUME node \in NodeTable, NEW m, HasNode(m) => m \in Nodes, NEW ram \in Nat, Release(m, ram)
    PROVE  \A n \in Nodes :
              /\ HasNode(n)' <=> HasNode(n)
              /\ node'[n] = Absent <=> node[n] = Absent
              /\ HasNode(n) => node'[n].url = node[n].url /\ node'[n].token = node[n].token
              /\ HasNode(n) => node'[n].total = node[n].total /\ node'[n].allocated <= node[n].allocated
              /\ n # m => node'[n] = node[n]
              /\ n = m /\ HasNode(n) /\ ram <= node[n].allocated
                    => node'[n].allocated = node[n].allocated - ram
<1>1. CASE HasNode(m)
  <2> DEFINE rest == node[m].allocated - ram
             now == Max({rest, 0})
  <2>1. node[m] \in NodeRow /\ node[m].allocated \in Nat
    BY <1>1, RowTyped
  <2>2. rest \in Int /\ (ram <= node[m].allocated => rest >= 0)
    BY <2>1
  <2> HIDE DEF rest
  <2>3. now \in Nat /\ (ram <= node[m].allocated => now = rest) /\ (now = rest \/ now = 0)
    BY <2>2, MaxZero
  <2>4. node' = [node EXCEPT ![m].allocated = now]
    BY <1>1 DEF Release, rest
  <2> HIDE DEF now
  <2>5. node'[m] = [node[m] EXCEPT !.allocated = now] /\ \A n \in Nodes \ {m} : node'[n] = node[n]
    BY <1>1, <2>4 DEF NodeTable
  <2>6. node'[m] \in NodeRow /\ node'[m].url = node[m].url /\ node'[m].token = node[m].token
        /\ node'[m].total = node[m].total /\ node'[m].allocated = now
    BY <2>1, <2>3, <2>5 DEF NodeRow
  <2>7. HasNode(m)' /\ node'[m] # Absent
    BY <2>6, AbsentAssumption DEF HasNode
  <2>8. node[m] # Absent
    BY <1>1 DEF HasNode
  <2>9. now <= node[m].allocated
    BY <2>1, <2>3 DEF rest
  <2>10. \A n \in Nodes : HasNode(n) => node[n].allocated \in Nat
    BY RowTyped
  <2>11. node'[m].allocated <= node[m].allocated /\ \A n \in Nodes \ {m} :
            HasNode(n) => node'[n].allocated <= node[n].allocated /\ node'[n].total = node[n].total
    BY <2>5, <2>6, <2>9, <2>10
  <2> QED BY <1>1, <2>3, <2>5, <2>6, <2>7, <2>8, <2>11 DEF HasNode, rest
<1>2. CASE ~HasNode(m)
  BY <1>2, RowTyped DEF Release, HasNode
<1> QED BY <1>1, <1>2

LEMMA ReserveEffect ==
    ASSUME node \in NodeTable, NEW m \in Nodes, HasNode(m), NEW ram \in Nat,
           node' = [node EXCEPT ![m].allocated = @ + ram]
    PROVE  \A n \in Nodes :
              /\ HasNode(n)' <=> HasNode(n)
              /\ node'[n] = Absent <=> node[n] = Absent
              /\ HasNode(n) => node'[n].url = node[n].url /\ node'[n].token = node[n].token
              /\ HasNode(n) => node'[n].total = node[n].total
              /\ n # m => node'[n] = node[n]
              /\ n = m => node'[n].allocated = node[n].allocated + ram
<1> DEFINE now == node[m].allocated + ram
<1>1. node[m] \in NodeRow /\ node[m].allocated \in Nat
  BY RowTyped
<1>2. now \in Nat
  BY <1>1
<1>3. node'[m] = [node[m] EXCEPT !.allocated = now] /\ \A n \in Nodes \ {m} : node'[n] = node[n]
  BY DEF NodeTable
<1> HIDE DEF now
<1>4. node'[m] \in NodeRow /\ node'[m].url = node[m].url /\ node'[m].token = node[m].token
      /\ node'[m].total = node[m].total /\ node'[m].allocated = now
  BY <1>1, <1>2, <1>3 DEF NodeRow
<1>5. HasNode(m)' /\ node'[m] # Absent /\ node[m] # Absent
  BY <1>4, AbsentAssumption DEF HasNode
<1> QED BY <1>3, <1>4, <1>5 DEF HasNode, now

\* A tenant's request is at a step that releases what it reserved.
Releases(t) == CreateRelease(t) \/ JobRelease(t) \/ DeleteRelease(t)

(* No node's counter passes its total.                                     *)
LEMMA StepFits == CatTypeOK /\ Chosen /\ [CatNext]_catVars => Fits'
<1> SUFFICES ASSUME CatTypeOK, Chosen, [CatNext]_catVars, NEW n \in Nodes, HasNode(n)'
             PROVE  node'[n].allocated <= node'[n].total
  BY DEF Fits
<1> DEFINE Goal == node'[n].allocated <= node'[n].total
<1>0. node \in NodeTable
  BY DEF CatTypeOK, NodeTable
<1>h. HasNode(n) => /\ node[n] \in NodeRow /\ node[n].allocated \in Nat /\ node[n].total \in Nat
                    /\ node[n].allocated <= node[n].total
  BY <1>0, RowTyped DEF CatTypeOK, Fits
<1>a. ASSUME node'[n] = node[n] PROVE Goal
  BY <1>a, <1>h DEF HasNode
<1>t. ASSUME NEW t \in Tenants
      PROVE  /\ tenant[t].ram \in Nat
             /\ tenant[t].step \notin {"new", "node"} => tenant[t].node \in Nodes
  <2>1. tenant[t].ram \in RamValues \cup {0} /\ tenant[t].node \in Maybe(Nodes)
    BY DEF CatTypeOK
  <2>2. tenant[t].step \notin {"new", "node"} => tenant[t].node # Absent
    BY DEF Chosen
  <2> QED BY <2>1, <2>2, RamNat DEF Maybe
<1>1. ASSUME NEW m \in Nodes, CreateNode(m) PROVE Goal
  <2>1. PICK ram \in Totals : node'[m].allocated = 0 /\ node'[m].total = ram /\ (n # m => node'[n] = node[n])
    BY <1>0, <1>1 DEF CreateNode, NodeTable
  <2> QED BY <1>a, <2>1, ValueAssumption
<1>2. ASSUME NEW m \in Nodes, NEW s \in NodeStatuses, NEW ram \in Totals, UpdateNodeRow(m, s, ram) PROVE Goal
  <2>1. n # m => node'[n] = node[n]
    BY <1>0, <1>2 DEF UpdateNodeRow, NodeTable
  <2>2. n = m => node'[n].allocated = node[n].allocated /\ node'[n].total = ram /\ node[n].allocated <= ram
    BY <1>0, <1>2, <1>h DEF UpdateNodeRow, NodeTable, NodeRow
  <2> QED BY <1>a, <2>1, <2>2
<1>3. ASSUME NEW m \in Nodes, NEW u \in URLs,
             UpdateNodeURL(m, u) \/ \E r \in Ops, k \in ApiTokens : UpdateNodeAccess(r, m, u, k) PROVE Goal
  <2>1. n # m => node'[n] = node[n]
    BY <1>0, <1>3 DEF UpdateNodeURL, UpdateNodeAccess, NodeTable
  <2>2. n = m => HasNode(n) /\ node'[n].allocated = node[n].allocated /\ node'[n].total = node[n].total
    BY <1>0, <1>3, <1>h DEF UpdateNodeURL, UpdateNodeAccess, NodeTable, NodeRow
  <2> QED BY <1>a, <1>h, <2>1, <2>2
<1>4. ASSUME NEW r \in Ops, DeleteNode(r) PROVE Goal
  <2>1. node'[n] = node[n] \/ node'[n] = Gone
    BY <1>0, <1>4 DEF DeleteNode, NodeTable
  <2> QED BY <1>a, <2>1 DEF HasNode
<1>5. ASSUME NEW t \in Tenants, ReserveRAM(t) PROVE Goal
  <2>1. CASE UNCHANGED node
    BY <1>a, <2>1
  <2>2. CASE /\ HasNode(tenant[t].node) /\ Free(tenant[t].node) >= tenant[t].ram
             /\ node' = [node EXCEPT ![tenant[t].node].allocated = @ + tenant[t].ram]
    <3>1. tenant[t].node \in Nodes /\ tenant[t].ram \in Nat
      BY <1>5, <1>t DEF ReserveRAM
    <3>2. /\ HasNode(n) /\ node'[n].total = node[n].total
          /\ n # tenant[t].node => node'[n] = node[n]
          /\ n = tenant[t].node => node'[n].allocated = node[n].allocated + tenant[t].ram
      BY <1>0, <2>2, <3>1, ReserveEffect
    <3>3. n = tenant[t].node => node[n].total - node[n].allocated >= tenant[t].ram
      BY <2>2 DEF Free
    <3> QED BY <1>a, <1>h, <3>1, <3>2, <3>3
  <2> QED BY <1>5, <2>1, <2>2 DEF ReserveRAM
<1>6. ASSUME NEW t \in Tenants, Releases(t) PROVE Goal
  <2>1. Release(tenant[t].node, tenant[t].ram) /\ tenant[t].node \in Nodes /\ tenant[t].ram \in Nat
    BY <1>6, <1>t DEF Releases, CreateRelease, JobRelease, DeleteRelease
  <2>2. /\ HasNode(n) /\ node'[n].total = node[n].total /\ node'[n].allocated <= node[n].allocated
        /\ node'[n] = node[n] \/ n = tenant[t].node
    BY <1>0, <2>1, ReleaseEffect
  <2>3. node' \in NodeTable
    BY <1>0, <2>1, ReleaseTyped
  <2>4. node'[n].allocated \in Nat
    BY <2>3, AbsentAssumption DEF NodeTable, NodeRow, HasNode
  <2> QED BY <1>h, <2>2, <2>4
<1>7. ASSUME UNCHANGED catVars \/ ClientStep PROVE Goal
  BY <1>7, <1>a DEF catVars, ClientStep, GetClientToken, GetClientStore, GetClientLock
<1>8. ASSUME NEW p \in Projects, CreateProject(p) \/ \E ram \in RamValues : UpdateProject(p, ram) PROVE Goal
  BY <1>8, <1>a DEF CreateProject, UpdateProject
<1>9. ASSUME NEW r \in Ops, (\E m \in Nodes : DeleteNodeCheck(r, m)) \/ (\E p \in Projects : DeleteProjectCheck(r, p))
             \/ DeleteProject(r) \/ InvalidateClient(r) PROVE Goal
  BY <1>9, <1>a DEF DeleteNodeCheck, DeleteProjectCheck, DeleteProject, InvalidateClient
<1>10. ASSUME NEW t \in Tenants, (\E m \in Nodes : CreateReadNode(t, m) \/ GetLeastLoaded(t, m))
              \/ (\E p \in Projects : CreateReadProject(t, p)) \/ GetDefault(t) \/ CreateInsert(t)
              \/ JobEnds(t) \/ DeleteRead(t) PROVE Goal
  BY <1>10, <1>a DEF CreateReadNode, GetLeastLoaded, CreateReadProject, GetDefault, CreateInsert, JobEnds, DeleteRead
<1> QED BY <1>1, <1>2, <1>3, <1>4, <1>5, <1>6, <1>7, <1>8, <1>9, <1>10
        DEF CatNext, OperatorStep, TenantStep, Releases

(* An id of a node or project that was given out stays given out; a row    *)
(* appears only by its INSERT, and goes only when no tenant refers to it.  *)
LEMMA NodesKept ==
    ASSUME CatTypeOK, Chosen, [CatNext]_catVars, NEW n \in Nodes
    PROVE  /\ node[n] # Absent => node'[n] # Absent
           /\ HasNode(n)' => HasNode(n) \/ (CreateNode(n) /\ node[n] = Absent)
           /\ HasNode(n) => HasNode(n)' \/ (UNCHANGED tenant /\ \A t \in Rows : tenant[t].node # n)
<1> DEFINE Goal == /\ node[n] # Absent => node'[n] # Absent
                   /\ HasNode(n)' => HasNode(n) \/ (CreateNode(n) /\ node[n] = Absent)
                   /\ HasNode(n) => HasNode(n)' \/ (UNCHANGED tenant /\ \A t \in Rows : tenant[t].node # n)
<1>0. node \in NodeTable
  BY DEF CatTypeOK, NodeTable
<1>a. ASSUME UNCHANGED node PROVE Goal
  BY <1>a DEF HasNode
<1>t. ASSUME NEW t \in Tenants
      PROVE  /\ tenant[t].ram \in Nat
             /\ tenant[t].step \notin {"new", "node"} => tenant[t].node \in Nodes
  <2>1. tenant[t].ram \in RamValues \cup {0} /\ tenant[t].node \in Maybe(Nodes)
    BY DEF CatTypeOK
  <2>2. tenant[t].step \notin {"new", "node"} => tenant[t].node # Absent
    BY DEF Chosen
  <2> QED BY <2>1, <2>2, RamNat DEF Maybe
<1>1. ASSUME NEW m \in Nodes, CreateNode(m) PROVE Goal
  <2>1. PICK u \in URLs, k \in ApiTokens, ram \in Totals :
           node' = [node EXCEPT ![m] = [status |-> "active", url |-> u, token |-> k,
                                        total |-> ram, allocated |-> 0]]
    BY <1>1 DEF CreateNode
  <2>2. n # m => node'[n] = node[n]
    BY <1>0, <2>1 DEF NodeTable
  <2>3. node'[m] \in NodeRow /\ node[m] = Absent
    BY <1>0, <1>1, <2>1, StatusAssumption DEF CreateNode, NodeTable, NodeRow
  <2> QED BY <1>1, <2>2, <2>3, AbsentAssumption DEF HasNode
<1>2. ASSUME NEW m \in Nodes, HasNode(m), NEW row \in NodeRow, node' = [node EXCEPT ![m] = row] PROVE Goal
  <2>1. (n # m => node'[n] = node[n]) /\ node'[m] = row
    BY <1>0, <1>2 DEF NodeTable
  <2> QED BY <1>2, <2>1, AbsentAssumption DEF HasNode
<1>3. ASSUME NEW m \in Nodes, NEW s \in NodeStatuses, NEW ram \in Totals, UpdateNodeRow(m, s, ram) PROVE Goal
  <2>1. HasNode(m) /\ node[m] \in NodeRow
    BY <1>0, <1>3, RowTyped DEF UpdateNodeRow
  <2>2. /\ [node[m] EXCEPT !.status = s, !.total = ram] \in NodeRow
        /\ node' = [node EXCEPT ![m] = [node[m] EXCEPT !.status = s, !.total = ram]]
    BY <1>0, <1>3, <2>1 DEF UpdateNodeRow, NodeRow, NodeTable
  <2> QED BY <1>2, <2>1, <2>2
<1>4. ASSUME NEW m \in Nodes, NEW u \in URLs, UpdateNodeURL(m, u) PROVE Goal
  <2>1. HasNode(m) /\ node[m] \in NodeRow
    BY <1>0, <1>4, RowTyped DEF UpdateNodeURL
  <2>2. /\ [node[m] EXCEPT !.url = u] \in NodeRow
        /\ node' = [node EXCEPT ![m] = [node[m] EXCEPT !.url = u]]
    BY <1>0, <1>4, <2>1 DEF UpdateNodeURL, NodeRow, NodeTable
  <2> QED BY <1>2, <2>1, <2>2
<1>5. ASSUME NEW r \in Ops, NEW m \in Nodes, NEW u \in URLs, NEW k \in ApiTokens,
             UpdateNodeAccess(r, m, u, k) PROVE Goal
  <2>1. HasNode(m) /\ node[m] \in NodeRow
    BY <1>0, <1>5, RowTyped DEF UpdateNodeAccess
  <2>2. /\ [node[m] EXCEPT !.url = u, !.token = k] \in NodeRow
        /\ node' = [node EXCEPT ![m] = [node[m] EXCEPT !.url = u, !.token = k]]
    BY <1>0, <1>5, <2>1 DEF UpdateNodeAccess, NodeRow, NodeTable
  <2> QED BY <1>2, <2>1, <2>2
<1>6. ASSUME NEW r \in Ops, DeleteNode(r) PROVE Goal
  <2>1. CASE Referenced("node", op[r].of)
    BY <1>6, <1>a, <2>1 DEF DeleteNode
  <2>2. CASE ~Referenced("node", op[r].of)
    <3>1. node' = [node EXCEPT ![op[r].of] = Gone] /\ UNCHANGED tenant
      BY <1>6, <2>2 DEF DeleteNode
    <3>2. \A t \in Rows : tenant[t].node # op[r].of
      BY <2>2 DEF Referenced
    <3>3. node'[n] = node[n] \/ (n = op[r].of /\ node'[n] = Gone)
      BY <1>0, <3>1 DEF NodeTable
    <3> QED BY <3>1, <3>2, <3>3, AbsentAssumption DEF HasNode
  <2> QED BY <2>1, <2>2
<1>7. ASSUME NEW t \in Tenants, ReserveRAM(t) PROVE Goal
  <2>1. CASE UNCHANGED node
    BY <1>a, <2>1
  <2>2. CASE HasNode(tenant[t].node) /\ node' = [node EXCEPT ![tenant[t].node].allocated = @ + tenant[t].ram]
    <3>1. tenant[t].node \in Nodes /\ tenant[t].ram \in Nat
      BY <1>7, <1>t DEF ReserveRAM
    <3> QED BY <1>0, <2>2, <3>1, ReserveEffect
  <2> QED BY <1>7, <2>1, <2>2 DEF ReserveRAM
<1>8. ASSUME NEW t \in Tenants, Releases(t) PROVE Goal
  <2>1. Release(tenant[t].node, tenant[t].ram) /\ tenant[t].node \in Nodes /\ tenant[t].ram \in Nat
    BY <1>8, <1>t DEF Releases, CreateRelease, JobRelease, DeleteRelease
  <2> QED BY <1>0, <2>1, ReleaseEffect
<1>9. ASSUME UNCHANGED catVars \/ ClientStep PROVE Goal
  BY <1>9, <1>a DEF catVars, ClientStep, GetClientToken, GetClientStore, GetClientLock
<1>10. ASSUME NEW p \in Projects, CreateProject(p) \/ \E ram \in RamValues : UpdateProject(p, ram) PROVE Goal
  BY <1>10, <1>a DEF CreateProject, UpdateProject
<1>11. ASSUME NEW r \in Ops, (\E m \in Nodes : DeleteNodeCheck(r, m)) \/ (\E p \in Projects : DeleteProjectCheck(r, p))
              \/ DeleteProject(r) \/ InvalidateClient(r) PROVE Goal
  BY <1>11, <1>a DEF DeleteNodeCheck, DeleteProjectCheck, DeleteProject, InvalidateClient
<1>12. ASSUME NEW t \in Tenants, (\E m \in Nodes : CreateReadNode(t, m) \/ GetLeastLoaded(t, m))
              \/ (\E p \in Projects : CreateReadProject(t, p)) \/ GetDefault(t) \/ CreateInsert(t)
              \/ JobEnds(t) \/ DeleteRead(t) PROVE Goal
  BY <1>12, <1>a DEF CreateReadNode, GetLeastLoaded, CreateReadProject, GetDefault, CreateInsert, JobEnds, DeleteRead
<1> QED BY <1>1, <1>3, <1>4, <1>5, <1>6, <1>7, <1>8, <1>9, <1>10, <1>11, <1>12
        DEF CatNext, OperatorStep, TenantStep, Releases

LEMMA ProjectsKept ==
    ASSUME CatTypeOK, [CatNext]_catVars, NEW p \in Projects
    PROVE  /\ project[p] # Absent => project'[p] # Absent
           /\ HasProject(p)' => HasProject(p) \/ project[p] = Absent
           /\ HasProject(p) => HasProject(p)' \/ (UNCHANGED tenant /\ \A t \in Rows : tenant[t].project # p)
           /\ HasProject(p) /\ HasProject(p)' /\ project'[p] # project[p]
                 => UNCHANGED tenant /\ ((\E t \in Tenants : tenant[t].project = p) => p \in edited')
<1> DEFINE Goal == /\ project[p] # Absent => project'[p] # Absent
                   /\ HasProject(p)' => HasProject(p) \/ project[p] = Absent
                   /\ HasProject(p) => HasProject(p)' \/ (UNCHANGED tenant /\ \A t \in Rows : tenant[t].project # p)
                   /\ HasProject(p) /\ HasProject(p)' /\ project'[p] # project[p]
                        => UNCHANGED tenant /\ ((\E t \in Tenants : tenant[t].project = p) => p \in edited')
<1>0. project \in [Projects -> RamValues \cup {Absent, Gone}]
  BY DEF CatTypeOK
<1>a. ASSUME UNCHANGED project PROVE Goal
  BY <1>a DEF HasProject
<1>1. ASSUME NEW q \in Projects, CreateProject(q) PROVE Goal
  BY <1>0, <1>1, AbsentAssumption DEF CreateProject, HasProject
<1>2. ASSUME NEW q \in Projects, NEW ram \in RamValues, UpdateProject(q, ram) PROVE Goal
  BY <1>0, <1>2, AbsentAssumption DEF UpdateProject, HasProject
<1>3. ASSUME NEW r \in Ops, DeleteProject(r) PROVE Goal
  <2>1. CASE Referenced("project", op[r].of)
    BY <1>3, <1>a, <2>1 DEF DeleteProject
  <2>2. CASE ~Referenced("project", op[r].of)
    <3>1. project' = [project EXCEPT ![op[r].of] = Gone] /\ UNCHANGED tenant
      BY <1>3, <2>2 DEF DeleteProject
    <3>2. \A t \in Rows : tenant[t].project # op[r].of
      BY <2>2 DEF Referenced
    <3>3. project'[p] = project[p] \/ (p = op[r].of /\ project'[p] = Gone)
      BY <1>0, <3>1
    <3> QED BY <3>1, <3>2, <3>3, AbsentAssumption DEF HasProject
  <2> QED BY <2>1, <2>2
<1>4. ASSUME UNCHANGED catVars \/ ClientStep PROVE Goal
  BY <1>4, <1>a DEF catVars, ClientStep, GetClientToken, GetClientStore, GetClientLock
<1>5. ASSUME NEW n \in Nodes, CreateNode(n) \/ (\E s \in NodeStatuses, ram \in Totals : UpdateNodeRow(n, s, ram))
             \/ (\E u \in URLs : UpdateNodeURL(n, u)) PROVE Goal
  BY <1>5, <1>a DEF CreateNode, UpdateNodeRow, UpdateNodeURL
<1>6. ASSUME NEW r \in Ops, (\E n \in Nodes : DeleteNodeCheck(r, n) \/ \E u \in URLs, k \in ApiTokens : UpdateNodeAccess(r, n, u, k))
             \/ (\E q \in Projects : DeleteProjectCheck(r, q)) \/ DeleteNode(r) \/ InvalidateClient(r) PROVE Goal
  BY <1>6, <1>a DEF DeleteNodeCheck, UpdateNodeAccess, DeleteProjectCheck, DeleteNode, InvalidateClient
<1>7. ASSUME NEW t \in Tenants, TenantStep(t) PROVE Goal
  <2>1. UNCHANGED project
    BY <1>7 DEF TenantStep, CreateReadNode, GetLeastLoaded, CreateReadProject, GetDefault, ReserveRAM, CreateInsert,
                CreateRelease, JobEnds, JobRelease, DeleteRead, DeleteRelease
  <2> QED BY <1>a, <2>1
<1> QED BY <1>1, <1>2, <1>3, <1>4, <1>5, <1>6, <1>7 DEF CatNext, OperatorStep

-----------------------------------------------------------------------------
(* The tenants. *)

\* What a step of tenant t's create, job or delete may do to its row, with
\* what it reads.
TenantMoves(t) ==
    \/ /\ tenant[t].step = "new"
       /\ \E n \in Nodes : HasNode(n) /\ tenant' = [tenant EXCEPT ![t].step = "project", ![t].node = n]
       /\ UNCHANGED <<node, failed>>
    \/ /\ tenant[t].step = "node"
       /\ \E n \in Nodes : HasNode(n) /\ tenant' = [tenant EXCEPT ![t].step = "reserve", ![t].node = n]
       /\ UNCHANGED <<node, failed>>
    \/ \E s \in {"new", "project"}, p \in Projects :
          /\ tenant[t].step = s
          /\ HasProject(p)
          /\ tenant' = [tenant EXCEPT ![t].step = IF s = "new" THEN "node" ELSE "reserve",
                                      ![t].project = p, ![t].ram = project[p]]
          /\ UNCHANGED <<node, failed>>
    \/ \E from, to \in Steps :
          /\ <<from, to>> \in {<<"reserve", "insert">>, <<"reserve", "refused">>, <<"insert", "running">>,
                               <<"insert", "release">>, <<"release", "refused">>, <<"running", "active">>,
                               <<"running", "failing">>, <<"failing", "error">>, <<"deleting", "deleted">>}
          /\ tenant[t].step = from
          /\ tenant' = [tenant EXCEPT ![t].step = to]
          /\ to = "running" => HasNode(tenant[t].node) /\ HasProject(tenant[t].project)
          /\ failed' = failed \cup {x \in {t} : to = "failing"}
    \/ /\ tenant[t].step \in {"active", "error"}
       /\ tenant' = [tenant EXCEPT ![t].step = "deleting",
                                   ![t].ram = IF HasProject(tenant[t].project)
                                                 THEN project[tenant[t].project] ELSE 0]
       /\ UNCHANGED <<node, failed>>

LEMMA OthersLeaveTenants == OperatorStep \/ ClientStep \/ UNCHANGED catVars => UNCHANGED <<tenant, failed>>
  BY DEF OperatorStep, ClientStep, catVars, historyVars, CreateNode, UpdateNodeRow, UpdateNodeURL, CreateProject,
         UpdateProject, DeleteNodeCheck, UpdateNodeAccess, DeleteProjectCheck, DeleteNode, DeleteProject,
         InvalidateClient, GetClientToken, GetClientStore, GetClientLock

LEMMA TenantStepMoves == ASSUME NEW t \in Tenants, TenantStep(t) PROVE TenantMoves(t)
<1> USE DEF historyVars
<1>1. ASSUME NEW n \in Nodes, CreateReadNode(t, n) PROVE TenantMoves(t)
  BY <1>1 DEF CreateReadNode, TenantMoves
<1>2. ASSUME NEW n \in Nodes, GetLeastLoaded(t, n) PROVE TenantMoves(t)
  BY <1>2 DEF GetLeastLoaded, TenantMoves
<1>3. ASSUME NEW p \in Projects, CreateReadProject(t, p) PROVE TenantMoves(t)
  BY <1>3 DEF CreateReadProject, TenantMoves
<1>4. CASE GetDefault(t)
  BY <1>4 DEF GetDefault, TenantMoves
<1>5. CASE ReserveRAM(t)
  BY <1>5 DEF ReserveRAM, TenantMoves, Advance, Steps
<1>6. CASE CreateInsert(t)
  BY <1>6 DEF CreateInsert, TenantMoves, Advance, Steps
<1>7. CASE CreateRelease(t)
  BY <1>7 DEF CreateRelease, TenantMoves, Advance, Steps
<1>8. CASE JobEnds(t)
  BY <1>8 DEF JobEnds, TenantMoves, Advance, Steps
<1>9. CASE JobRelease(t)
  BY <1>9 DEF JobRelease, TenantMoves, Advance, Steps
<1>10. CASE DeleteRead(t)
  BY <1>10 DEF DeleteRead, TenantMoves
<1>11. CASE DeleteRelease(t)
  BY <1>11 DEF DeleteRelease, TenantMoves, Advance, Steps
<1> QED BY <1>1, <1>2, <1>3, <1>4, <1>5, <1>6, <1>7, <1>8, <1>9, <1>10, <1>11 DEF TenantStep

LEMMA Moves ==
    ASSUME [CatNext]_catVars
    PROVE  \/ UNCHANGED <<tenant, failed>>
           \/ /\ UNCHANGED <<project, edited, op, clients, filling, movedAlone>>
              /\ \E t \in Tenants : TenantMoves(t)
<1>1. ASSUME NEW t \in Tenants, TenantStep(t)
      PROVE  UNCHANGED <<project, edited, op, clients, filling, movedAlone>>
  BY <1>1 DEF TenantStep, historyVars, CreateReadNode, GetLeastLoaded, CreateReadProject, GetDefault, ReserveRAM,
              CreateInsert, CreateRelease, JobEnds, JobRelease, DeleteRead, DeleteRelease
<1> QED BY <1>1, OthersLeaveTenants, TenantStepMoves DEF CatNext

LEMMA EditedGrows == ASSUME [CatNext]_catVars PROVE edited \subseteq edited'
<1> USE DEF historyVars
<1>1. ASSUME ClientStep \/ UNCHANGED catVars PROVE edited \subseteq edited'
  BY <1>1 DEF ClientStep, GetClientToken, GetClientStore, GetClientLock, catVars
<1>2. ASSUME OperatorStep PROVE edited \subseteq edited'
  BY <1>2 DEF OperatorStep, CreateNode, UpdateNodeRow, UpdateNodeURL, CreateProject, UpdateProject, DeleteNodeCheck,
              UpdateNodeAccess, DeleteProjectCheck, DeleteNode, DeleteProject, InvalidateClient
<1>3. ASSUME NEW t \in Tenants, TenantStep(t) PROVE edited \subseteq edited'
  BY <1>3 DEF TenantStep, CreateReadNode, GetLeastLoaded, CreateReadProject, GetDefault, ReserveRAM, CreateInsert,
              CreateRelease, JobEnds, JobRelease, DeleteRead, DeleteRelease
<1> QED BY <1>1, <1>2, <1>3 DEF CatNext

\* The fields of a tenant hold what they can hold.
TenantOf(t) == /\ tenant[t].step \in Steps
               /\ tenant[t].node \in Maybe(Nodes) /\ tenant[t].project \in Maybe(Projects)

LEMMA TenantTyped == ASSUME CatTypeOK, NEW t \in Tenants PROVE TenantOf(t) /\ tenant[t].ram \in Nat
<1>1. TenantOf(t) /\ tenant[t].ram \in RamValues \cup {0}
  BY DEF CatTypeOK, TenantOf, Steps
<1> QED BY <1>1, RamNat

(* What a tenant has chosen stays chosen, and a tenant with a row keeps    *)
(* its node and its project: DELETE is refused while the row refers to it. *)
LEMMA StepChosen == CatTypeOK /\ Chosen /\ NoOrphans /\ [CatNext]_catVars => Chosen' /\ NoOrphans'
<1> SUFFICES ASSUME CatTypeOK, Chosen, NoOrphans, [CatNext]_catVars PROVE Chosen' /\ NoOrphans'
  OBVIOUS
<1> DEFINE Choice(u) == /\ tenant[u].node # Absent => node[tenant[u].node] # Absent
                        /\ tenant[u].project # Absent => project[tenant[u].project] # Absent
                        /\ tenant[u].step \notin {"new", "node"} <=> tenant[u].node # Absent
                        /\ tenant[u].step \notin {"new", "project"} <=> tenant[u].project # Absent
           Placed(u) == u \in Rows => HasNode(tenant[u].node) /\ HasProject(tenant[u].project)
<1>0. ASSUME NEW u \in Tenants PROVE Choice(u) /\ Placed(u) /\ TenantOf(u)
  BY TenantTyped DEF Chosen, NoOrphans
<1>r. ASSUME NEW u \in Tenants, u \in Rows PROVE tenant[u].node \in Nodes /\ tenant[u].project \in Projects
  BY <1>0, <1>r DEF Rows, TenantOf, Maybe
<1>s. SUFFICES ASSUME NEW u \in Tenants PROVE Choice(u)' /\ Placed(u)'
  BY DEF Chosen, NoOrphans, Rows
<1>a. ASSUME tenant'[u] = tenant[u] PROVE Choice(u)' /\ Placed(u)'
  <2>1. Choice(u)'
    BY <1>0, <1>a, NodesKept, ProjectsKept DEF TenantOf, Maybe
  <2>2. ASSUME u \in Rows' PROVE HasNode(tenant[u].node)' /\ HasProject(tenant[u].project)'
    <3>1. u \in Rows
      BY <1>a, <2>2 DEF Rows
    <3> QED BY <1>0, <1>a, <1>r, <3>1, NodesKept, ProjectsKept
  <2> QED BY <1>a, <2>1, <2>2 DEF HasNode, HasProject
<1>1. CASE UNCHANGED tenant
  BY <1>1, <1>a
<1>2. ASSUME NEW t \in Tenants, TenantMoves(t), UNCHANGED project PROVE Choice(u)' /\ Placed(u)'
  <2>0. tenant \in [Tenants -> TenantRow]
    BY DEF CatTypeOK, TenantRow, Steps
  <2>a. ASSUME NEW n \in Nodes, HasNode(n), UNCHANGED node, NEW s,
               (tenant[t].step = "new" /\ s = "project") \/ (tenant[t].step = "node" /\ s = "reserve"),
               tenant' = [tenant EXCEPT ![t].step = s, ![t].node = n]
        PROVE  Choice(u)' /\ Placed(u)'
    <3>1. CASE u # t
      BY <1>a, <2>0, <2>a, <3>1
    <3>2. CASE u = t
      <4>1. tenant'[u].step = s /\ tenant'[u].node = n /\ tenant'[u].project = tenant[u].project
        BY <2>0, <2>a, <3>2 DEF TenantRow
      <4>2. u \notin Rows'
        BY <2>a, <4>1 DEF Rows
      <4>3. node[n] # Absent /\ n # Absent
        BY <2>a, AbsentAssumption DEF HasNode
      <4> QED BY <1>0, <1>2, <2>a, <3>2, <4>1, <4>2, <4>3
    <3> QED BY <3>1, <3>2
  <2>b. ASSUME NEW p \in Projects, HasProject(p), UNCHANGED node, NEW s, NEW ram,
               (tenant[t].step = "new" /\ s = "node") \/ (tenant[t].step = "project" /\ s = "reserve"),
               tenant' = [tenant EXCEPT ![t].step = s, ![t].project = p, ![t].ram = ram]
        PROVE  Choice(u)' /\ Placed(u)'
    <3>1. CASE u # t
      BY <1>a, <2>0, <2>b, <3>1
    <3>2. CASE u = t
      <4>1. tenant'[u].step = s /\ tenant'[u].node = tenant[u].node /\ tenant'[u].project = p
        BY <2>0, <2>b, <3>2 DEF TenantRow
      <4>2. u \notin Rows'
        BY <2>b, <4>1 DEF Rows
      <4>3. project[p] # Absent /\ p # Absent
        BY <2>b, AbsentAssumption DEF HasProject
      <4> QED BY <1>0, <1>2, <2>b, <3>2, <4>1, <4>2, <4>3
    <3> QED BY <3>1, <3>2
  <2>c. ASSUME tenant[t].step \notin {"new", "node", "project"}, NEW s, NEW ram,
               s \in {"running", "failing", "active", "error", "deleting", "deleted"} =>
                   t \in Rows \/ (HasNode(tenant[t].node) /\ HasProject(tenant[t].project)),
               s \notin {"new", "node", "project"},
               \/ tenant' = [tenant EXCEPT ![t].step = s]
               \/ tenant' = [tenant EXCEPT ![t].step = s, ![t].ram = ram]
        PROVE  Choice(u)' /\ Placed(u)'
    <3>1. CASE u # t
      BY <1>a, <2>0, <2>c, <3>1
    <3>2. CASE u = t
      <4>1. tenant'[u].step = s /\ tenant'[u].node = tenant[u].node /\ tenant'[u].project = tenant[u].project
        BY <2>0, <2>c, <3>2 DEF TenantRow
      <4>2. tenant[u].node \in Nodes /\ tenant[u].project \in Projects
        BY <1>0, <2>c, <3>2 DEF TenantOf, Maybe
      <4>3. Choice(u)'
        BY <1>0, <2>c, <3>2, <4>1, <4>2, NodesKept, ProjectsKept
      <4>4. ASSUME u \in Rows' PROVE HasNode(tenant[u].node)' /\ HasProject(tenant[u].project)'
        <5>1. HasNode(tenant[u].node) /\ HasProject(tenant[u].project)
          BY <1>0, <2>c, <3>2, <4>1, <4>4 DEF Rows
        <5>2. ~UNCHANGED tenant \/ u \in Rows
          BY <4>4 DEF Rows
        <5> QED BY <4>2, <5>1, <5>2, <4>1, NodesKept, ProjectsKept
      <4> QED BY <4>1, <4>3, <4>4
    <3> QED BY <3>1, <3>2
  <2> HIDE DEF Choice, Placed
  <2>1. CASE /\ tenant[t].step = "new"
             /\ \E n \in Nodes : HasNode(n) /\ tenant' = [tenant EXCEPT ![t].step = "project", ![t].node = n]
             /\ UNCHANGED node
    BY <2>1, <2>a
  <2>2. CASE /\ tenant[t].step = "node"
             /\ \E n \in Nodes : HasNode(n) /\ tenant' = [tenant EXCEPT ![t].step = "reserve", ![t].node = n]
             /\ UNCHANGED node
    BY <2>2, <2>a
  <2>3. ASSUME NEW s \in {"new", "project"}, NEW p \in Projects, tenant[t].step = s, HasProject(p), UNCHANGED node,
               tenant' = [tenant EXCEPT ![t].step = IF s = "new" THEN "node" ELSE "reserve",
                                        ![t].project = p, ![t].ram = project[p]]
        PROVE  Choice(u)' /\ Placed(u)'
    <3>1. CASE s = "new"
      BY <2>3, <3>1, <2>b
    <3>2. CASE s = "project"
      BY <2>3, <3>2, <2>b
    <3> QED BY <3>1, <3>2
  <2>4. ASSUME NEW from \in Steps, NEW to \in Steps,
               <<from, to>> \in {<<"reserve", "insert">>, <<"reserve", "refused">>, <<"insert", "running">>,
                                 <<"insert", "release">>, <<"release", "refused">>, <<"running", "active">>,
                                 <<"running", "failing">>, <<"failing", "error">>, <<"deleting", "deleted">>},
               tenant[t].step = from, tenant' = [tenant EXCEPT ![t].step = to],
               to = "running" => HasNode(tenant[t].node) /\ HasProject(tenant[t].project)
        PROVE  Choice(u)' /\ Placed(u)'
    <3>1. from \notin {"new", "node", "project"} /\ to \notin {"new", "node", "project"}
      BY <2>4
    <3>2. to \in {"running", "failing", "active", "error", "deleting", "deleted"} =>
             t \in Rows \/ (HasNode(tenant[t].node) /\ HasProject(tenant[t].project))
      <4>1. to \in {"failing", "active", "error", "deleting", "deleted"} => from \in {"running", "failing", "deleting"}
        BY <2>4
      <4>2. from \in {"running", "failing", "deleting"} => t \in Rows
        BY <2>4 DEF Rows
      <4>3. CASE to = "running"
        BY <2>4, <4>3
      <4>4. CASE to # "running"
        BY <4>1, <4>2, <4>4
      <4> QED BY <4>3, <4>4
    <3> QED BY <2>4, <2>c, <3>1, <3>2
  <2>5. ASSUME tenant[t].step \in {"active", "error"}, NEW ram,
               tenant' = [tenant EXCEPT ![t].step = "deleting", ![t].ram = ram]
        PROVE  Choice(u)' /\ Placed(u)'
    <3>1. t \in Rows
      BY <2>5 DEF Rows
    <3>2. tenant[t].step \notin {"new", "node", "project"} /\ "deleting" \notin {"new", "node", "project"}
      BY <2>5
    <3> QED BY <2>5, <2>c, <3>1, <3>2
  <2> QED BY <1>2, <2>1, <2>2, <2>3, <2>4, <2>5 DEF TenantMoves
<1> QED BY <1>1, <1>2, Moves

(* The figure a tenant was given is that of its project until an operator  *)
(* edits it; a tenant whose job has failed is in failed.                   *)
LEMMA StepFigures == CInv /\ [CatNext]_catVars => Figures'
<1> SUFFICES ASSUME CInv, [CatNext]_catVars PROVE Figures'
  OBVIOUS
<1> DEFINE Figure(u) == /\ /\ tenant[u].project # Absent /\ tenant[u].project \notin edited
                           /\ HasProject(tenant[u].project)
                           => tenant[u].ram = project[tenant[u].project]
                        /\ tenant[u].step \in {"failing", "error"} => u \in failed
<1>0. CatTypeOK /\ Chosen /\ NoOrphans /\ \A u \in Tenants : Figure(u) /\ TenantOf(u)
  BY TenantTyped DEF CInv, Figures
<1>s. SUFFICES ASSUME NEW u \in Tenants PROVE Figure(u)'
  BY DEF Figures
<1>e. edited \subseteq edited'
  BY EditedGrows
<1>a. ASSUME tenant'[u] = tenant[u], failed \subseteq failed' PROVE Figure(u)'
  <2>1. ASSUME tenant[u].project # Absent, tenant[u].project \notin edited', HasProject(tenant[u].project)'
        PROVE  tenant[u].ram = project'[tenant[u].project]
    <3> DEFINE p == tenant[u].project
    <3>1. p \in Projects /\ project[p] # Absent
      BY <1>0, <2>1 DEF TenantOf, Maybe, Chosen
    <3>2. HasProject(p) /\ HasProject(p)'
      BY <1>0, <1>a, <2>1, <3>1, ProjectsKept DEF HasProject
    <3>3. tenant[u].ram = project[p]
      BY <1>0, <1>e, <2>1, <3>2
    <3>4. project'[p] = project[p]
      BY <1>0, <2>1, <3>1, <3>2, ProjectsKept
    <3> QED BY <3>3, <3>4
  <2>2. HasProject(tenant[u].project)' <=> project'[tenant'[u].project] \notin {Absent, Gone}
    BY DEF HasProject
  <2> QED BY <1>0, <1>a, <2>1, <2>2 DEF HasProject
<1>1. CASE UNCHANGED <<tenant, failed>>
  BY <1>1, <1>a
<1>2. ASSUME NEW t \in Tenants, TenantMoves(t), UNCHANGED <<project, edited>> PROVE Figure(u)'
  <2>0. tenant \in [Tenants -> TenantRow]
    BY <1>0 DEF CatTypeOK, TenantRow, Steps
  <2>f. failed \subseteq failed'
    BY <1>2 DEF TenantMoves
  <2>u. CASE u # t
    <3>1. tenant'[u] = tenant[u]
      BY <1>2, <2>0, <2>u DEF TenantMoves
    <3> QED BY <1>a, <2>f, <3>1
  <2>t. CASE u = t
    <3> DEFINE Same == /\ tenant'[t].project # Absent /\ tenant'[t].project \notin edited
                       /\ HasProject(tenant'[t].project)
                       => tenant'[t].ram = project[tenant'[t].project]
    <3>a. ASSUME Same, tenant'[t].step \in {"failing", "error"} => t \in failed' PROVE Figure(u)'
      BY <1>2, <2>t, <3>a DEF HasProject
    <3>1. ASSUME NEW n \in Nodes, NEW s, s \notin {"failing", "error"},
                 tenant' = [tenant EXCEPT ![t].step = s, ![t].node = n]
          PROVE  Figure(u)'
      <4>1. tenant'[t].step = s /\ tenant'[t].project = tenant[t].project /\ tenant'[t].ram = tenant[t].ram
        BY <2>0, <3>1 DEF TenantRow
      <4> QED BY <1>0, <3>1, <3>a, <4>1
    <3>2. ASSUME NEW p \in Projects,
                 \/ tenant' = [tenant EXCEPT ![t].step = "node", ![t].project = p, ![t].ram = project[p]]
                 \/ tenant' = [tenant EXCEPT ![t].step = "reserve", ![t].project = p, ![t].ram = project[p]]
          PROVE  Figure(u)'
      <4>1. tenant'[t].step \in {"node", "reserve"} /\ tenant'[t].project = p /\ tenant'[t].ram = project[p]
        BY <2>0, <3>2 DEF TenantRow
      <4> QED BY <3>2, <3>a, <4>1
    <3>3. ASSUME NEW s, s = "failing" => t \in failed', s = "error" => t \in failed,
                 tenant' = [tenant EXCEPT ![t].step = s]
          PROVE  Figure(u)'
      <4>1. tenant'[t].step = s /\ tenant'[t].project = tenant[t].project /\ tenant'[t].ram = tenant[t].ram
        BY <2>0, <3>3 DEF TenantRow
      <4> QED BY <1>0, <2>f, <3>3, <3>a, <4>1
    <3>4. ASSUME NEW ram, HasProject(tenant[t].project) => ram = project[tenant[t].project],
                 tenant' = [tenant EXCEPT ![t].step = "deleting", ![t].ram = ram]
          PROVE  Figure(u)'
      <4>1. tenant'[t].step = "deleting" /\ tenant'[t].project = tenant[t].project /\ tenant'[t].ram = ram
        BY <2>0, <3>4 DEF TenantRow
      <4> QED BY <3>4, <3>a, <4>1
    <3>5. tenant[t].step = "failing" => t \in failed
      BY <1>0
    <3> HIDE DEF Figure
    <3>6. CASE \E n \in Nodes : \/ tenant' = [tenant EXCEPT ![t].step = "project", ![t].node = n]
                                \/ tenant' = [tenant EXCEPT ![t].step = "reserve", ![t].node = n]
      BY <3>1, <3>6
    <3>7. ASSUME NEW s \in {"new", "project"}, NEW p \in Projects,
                 tenant' = [tenant EXCEPT ![t].step = IF s = "new" THEN "node" ELSE "reserve",
                                          ![t].project = p, ![t].ram = project[p]]
          PROVE  Figure(u)'
      <4>1. \/ tenant' = [tenant EXCEPT ![t].step = "node", ![t].project = p, ![t].ram = project[p]]
            \/ tenant' = [tenant EXCEPT ![t].step = "reserve", ![t].project = p, ![t].ram = project[p]]
        BY <3>7
      <4> QED BY <3>2, <4>1
    <3>8. ASSUME NEW from \in Steps, NEW to \in Steps,
                 <<from, to>> \in {<<"reserve", "insert">>, <<"reserve", "refused">>, <<"insert", "running">>,
                                   <<"insert", "release">>, <<"release", "refused">>, <<"running", "active">>,
                                   <<"running", "failing">>, <<"failing", "error">>, <<"deleting", "deleted">>},
                 tenant[t].step = from, tenant' = [tenant EXCEPT ![t].step = to],
                 failed' = failed \cup {x \in {t} : to = "failing"}
          PROVE  Figure(u)'
      <4>1. to = "failing" => t \in failed'
        BY <3>8
      <4>2. to = "error" => from = "failing"
        BY <3>8
      <4> QED BY <3>3, <3>5, <3>8, <4>1, <4>2
    <3>9. CASE tenant' = [tenant EXCEPT ![t].step = "deleting",
                                        ![t].ram = IF HasProject(tenant[t].project)
                                                      THEN project[tenant[t].project] ELSE 0]
      BY <3>4, <3>9
    <3> QED BY <1>2, <3>6, <3>7, <3>8, <3>9 DEF TenantMoves
  <2> QED BY <2>u, <2>t
<1> QED BY <1>1, <1>2, Moves

-----------------------------------------------------------------------------
(* The clients. *)

\* The actions that neither read nor write a client or a node's access.
Elsewhere ==
    /\ UNCHANGED <<clients, filling, movedAlone>>
    /\ \A n \in Nodes : HasNode(n)' => HasNode(n) /\ node'[n].url = node[n].url /\ node'[n].token = node[n].token
    /\ \A n \in Nodes : Stale(n) => Stale(n)'

(* Only CreateNode, the two updates of a node's access, InvalidateClient   *)
(* and getClient concern the cache.                                        *)
LEMMA ElsewhereSteps ==
    ASSUME CatTypeOK, Chosen, [CatNext]_catVars
    PROVE  \/ Elsewhere \/ ClientStep
           \/ \E n \in Nodes : CreateNode(n) \/ \E u \in URLs : UpdateNodeURL(n, u)
           \/ \E r \in Ops : \/ \E n \in Nodes, u \in URLs, k \in ApiTokens : UpdateNodeAccess(r, n, u, k)
                             \/ InvalidateClient(r)
<1>0. node \in NodeTable
  BY DEF CatTypeOK, NodeTable
<1> USE DEF historyVars
<1>a. ASSUME UNCHANGED <<node, clients, filling, movedAlone, op>> PROVE Elsewhere
  BY <1>a DEF Elsewhere, HasNode, Stale
<1>b. ASSUME NEW r \in Ops, op[r].kind # "invalidate", NEW w, op' = [op EXCEPT ![r] = w]
      PROVE  \A n \in Nodes : Stale(n) => Stale(n)'
  <2> SUFFICES ASSUME NEW n \in Nodes, NEW q \in Ops, op[q] = [kind |-> "invalidate", of |-> n] PROVE Stale(n)'
    BY DEF Stale
  <2>1. q # r
    BY <1>b
  <2>2. op'[q] = op[q]
    BY <1>b, <2>1 DEF CatTypeOK
  <2> QED BY <2>2 DEF Stale
<1>1. ASSUME UNCHANGED catVars PROVE Elsewhere
  BY <1>1, <1>a DEF catVars
<1>2. ASSUME NEW p \in Projects, CreateProject(p) \/ \E ram \in RamValues : UpdateProject(p, ram) PROVE Elsewhere
  BY <1>2, <1>a DEF CreateProject, UpdateProject
<1>3. ASSUME NEW n \in Nodes, NEW s \in NodeStatuses, NEW ram \in Totals, UpdateNodeRow(n, s, ram) PROVE Elsewhere
  <2>1. HasNode(n) /\ node[n] \in NodeRow
    BY <1>0, <1>3, RowTyped DEF UpdateNodeRow
  <2>2. node'[n] = [node[n] EXCEPT !.status = s, !.total = ram] /\ \A m \in Nodes \ {n} : node'[m] = node[m]
    BY <1>0, <1>3 DEF UpdateNodeRow, NodeTable
  <2>3. node'[n].url = node[n].url /\ node'[n].token = node[n].token
    BY <2>1, <2>2 DEF NodeRow
  <2>4. \A m \in Nodes : HasNode(m)' => HasNode(m) /\ node'[m].url = node[m].url /\ node'[m].token = node[m].token
    BY <2>1, <2>2, <2>3 DEF HasNode
  <2> QED BY <1>3, <2>4 DEF UpdateNodeRow, Elsewhere, Stale
<1>4. ASSUME NEW r \in Ops, NEW m \in Nodes, DeleteNodeCheck(r, m) PROVE Elsewhere
  <2>1. op[r].kind # "invalidate"
    BY <1>4 DEF DeleteNodeCheck, OpIdle
  <2>2. \A n \in Nodes : Stale(n) => Stale(n)'
    BY <1>4, <1>b, <2>1 DEF DeleteNodeCheck
  <2> QED BY <1>4, <2>2 DEF DeleteNodeCheck, Elsewhere, HasNode
<1>5. ASSUME NEW r \in Ops, NEW p \in Projects, DeleteProjectCheck(r, p) PROVE Elsewhere
  <2>1. op[r].kind # "invalidate"
    BY <1>5 DEF DeleteProjectCheck, OpIdle
  <2>2. \A n \in Nodes : Stale(n) => Stale(n)'
    BY <1>5, <1>b, <2>1 DEF DeleteProjectCheck
  <2> QED BY <1>5, <2>2 DEF DeleteProjectCheck, Elsewhere, HasNode
<1>6. ASSUME NEW r \in Ops, DeleteNode(r) PROVE Elsewhere
  <2>1. \A n \in Nodes : Stale(n) => Stale(n)'
    BY <1>6, <1>b DEF DeleteNode
  <2>2. \A m \in Nodes : node'[m] = node[m] \/ node'[m] = Gone
    BY <1>0, <1>6 DEF DeleteNode, NodeTable
  <2> QED BY <1>6, <2>1, <2>2 DEF DeleteNode, Elsewhere, HasNode
<1>7. ASSUME NEW r \in Ops, DeleteProject(r) PROVE Elsewhere
  <2>1. \A n \in Nodes : Stale(n) => Stale(n)'
    BY <1>7, <1>b DEF DeleteProject
  <2> QED BY <1>7, <2>1 DEF DeleteProject, Elsewhere, HasNode
<1>8. ASSUME NEW t \in Tenants, TenantStep(t) PROVE Elsewhere
  <2>0. UNCHANGED <<clients, filling, movedAlone, op>>
    BY <1>8 DEF TenantStep, CreateReadNode, GetLeastLoaded, CreateReadProject, GetDefault, ReserveRAM, CreateInsert,
                CreateRelease, JobEnds, JobRelease, DeleteRead, DeleteRelease
  <2>t. /\ tenant[t].ram \in Nat
        /\ tenant[t].step \notin {"new", "node"} => tenant[t].node \in Nodes
    <3>1. tenant[t].node \in Maybe(Nodes) /\ tenant[t].ram \in Nat
      BY TenantTyped DEF TenantOf
    <3>2. tenant[t].step \notin {"new", "node"} => tenant[t].node # Absent
      BY DEF Chosen
    <3> QED BY <3>1, <3>2 DEF Maybe
  <2>a. ASSUME \A m \in Nodes : /\ HasNode(m)' <=> HasNode(m)
                                /\ HasNode(m) => node'[m].url = node[m].url /\ node'[m].token = node[m].token
        PROVE  Elsewhere
    BY <2>0, <2>a DEF Elsewhere, Stale
  <2>1. CASE UNCHANGED node
    BY <2>a, <2>1 DEF HasNode
  <2>2. CASE Releases(t)
    <3>1. Release(tenant[t].node, tenant[t].ram) /\ tenant[t].node \in Nodes /\ tenant[t].ram \in Nat
      BY <2>2, <2>t DEF Releases, CreateRelease, JobRelease, DeleteRelease
    <3> QED BY <1>0, <2>a, <3>1, ReleaseEffect
  <2>3. CASE ReserveRAM(t) /\ ~UNCHANGED node
    <3>1. HasNode(tenant[t].node) /\ node' = [node EXCEPT ![tenant[t].node].allocated = @ + tenant[t].ram]
      BY <2>3 DEF ReserveRAM
    <3>2. tenant[t].node \in Nodes /\ tenant[t].ram \in Nat
      BY <2>3, <2>t DEF ReserveRAM
    <3> QED BY <1>0, <2>a, <3>1, <3>2, ReserveEffect
  <2> QED BY <1>8, <2>1, <2>2, <2>3 DEF TenantStep, CreateReadNode, GetLeastLoaded, CreateReadProject, GetDefault,
                CreateInsert, JobEnds, DeleteRead, Releases
<1> QED BY <1>1, <1>2, <1>3, <1>4, <1>5, <1>6, <1>7, <1>8 DEF CatNext, OperatorStep

(* The cache stays fresh: whoever writes a token leaves an invalidation to *)
(* come, and an invalidation waits for the getClient that holds the lock.  *)
LEMMA StepFresh == CInv /\ [CatNext]_catVars => Known' /\ Fresh'
<1> SUFFICES ASSUME CInv, [CatNext]_catVars PROVE Known' /\ Fresh'
  OBVIOUS
<1> DEFINE FreshAt(n) == HasNode(n) /\ ~Stale(n) =>
              /\ clients[n] # Absent =>
                    clients[n].token = node[n].token /\ (n \in movedAlone \/ clients[n].url = node[n].url)
              /\ filling.node = n =>
                    /\ n \in movedAlone \/ filling.url = node[n].url
                    /\ filling.token # Absent => filling.token = node[n].token
<1>0. CatTypeOK /\ Chosen /\ Known /\ \A n \in Nodes : FreshAt(n)
  BY DEF CInv, Fresh
<1>n. node \in NodeTable /\ op \in [Ops -> Range(op)] /\ clients \in [Nodes -> Client \cup {Absent}]
      /\ filling \in [node : Maybe(Nodes), url : Maybe(URLs), token : Maybe(ApiTokens)]
  <2>1. node \in NodeTable /\ clients \in [Nodes -> Client \cup {Absent}]
        /\ filling \in [node : Maybe(Nodes), url : Maybe(URLs), token : Maybe(ApiTokens)]
    BY <1>0 DEF CatTypeOK, NodeTable
  <2>2. op = [r \in Ops |-> op[r]]
    BY <1>0 DEF CatTypeOK
  <2> QED BY <2>1, <2>2 DEF Range
<1>k. ASSUME UNCHANGED <<clients, filling>> PROVE Known'
  <2>1. filling.node # Absent => filling.node \in Nodes
    BY <1>n DEF Maybe
  <2> QED BY <1>0, <1>k, <2>1, NodesKept DEF Known, NotFilling
<1>f. ASSUME \A n \in Nodes : FreshAt(n)' PROVE Fresh'
  BY <1>f DEF Fresh
<1>a. CASE Elsewhere
  <2>1. \A n \in Nodes : FreshAt(n)'
    BY <1>0, <1>a DEF Elsewhere
  <2>2. Known'
    BY <1>a, <1>k DEF Elsewhere
  <2> QED BY <1>f, <2>1, <2>2
<1>1. ASSUME NEW m \in Nodes, CreateNode(m) PROVE Known' /\ Fresh'
  <2>1. UNCHANGED <<clients, filling, op, movedAlone>> /\ node[m] = Absent
    BY <1>1 DEF CreateNode, historyVars
  <2>2. clients[m] = Absent /\ filling.node # m
    BY <1>0, <2>1, AbsentAssumption DEF Known
  <2>3. \A n \in Nodes \ {m} : node'[n] = node[n]
    BY <1>1, <1>n DEF CreateNode, NodeTable
  <2>4. \A n \in Nodes : FreshAt(n)'
    BY <1>0, <2>1, <2>2, <2>3 DEF HasNode, Stale
  <2> QED BY <1>f, <1>k, <2>1, <2>4
<1>2. ASSUME NEW m \in Nodes, NEW u \in URLs, UpdateNodeURL(m, u) PROVE Known' /\ Fresh'
  <2>1. UNCHANGED <<clients, filling, op>> /\ movedAlone' = movedAlone \cup {m} /\ HasNode(m)
    BY <1>2 DEF UpdateNodeURL
  <2>2. node'[m] = [node[m] EXCEPT !.url = u] /\ \A n \in Nodes \ {m} : node'[n] = node[n]
    BY <1>2, <1>n DEF UpdateNodeURL, NodeTable
  <2>3. node'[m].token = node[m].token
    BY <1>n, <2>1, <2>2, RowTyped DEF NodeRow
  <2>4. \A n \in Nodes : FreshAt(n)'
    BY <1>0, <2>1, <2>2, <2>3 DEF HasNode, Stale
  <2> QED BY <1>f, <1>k, <2>1, <2>4
<1>3. ASSUME NEW r \in Ops, NEW m \in Nodes, NEW u \in URLs, NEW k \in ApiTokens, UpdateNodeAccess(r, m, u, k)
      PROVE  Known' /\ Fresh'
  <2>1. UNCHANGED <<clients, filling, movedAlone>> /\ HasNode(m) /\ op[r] = OpIdle
        /\ op' = [op EXCEPT ![r] = [kind |-> "invalidate", of |-> m]]
    BY <1>3 DEF UpdateNodeAccess, historyVars
  <2>2. \A n \in Nodes \ {m} : node'[n] = node[n]
    BY <1>3, <1>n DEF UpdateNodeAccess, NodeTable
  <2>3. Stale(m)'
    BY <1>n, <2>1 DEF Stale
  <2>4. \A n \in Nodes : Stale(n) => Stale(n)'
    <3> SUFFICES ASSUME NEW n \in Nodes, NEW q \in Ops, op[q] = [kind |-> "invalidate", of |-> n] PROVE Stale(n)'
      BY DEF Stale
    <3>1. q # r
      BY <2>1 DEF OpIdle
    <3>2. op'[q] = op[q]
      BY <1>n, <2>1, <3>1
    <3> QED BY <3>2 DEF Stale
  <2>5. \A n \in Nodes : FreshAt(n)'
    BY <1>0, <2>1, <2>2, <2>3, <2>4 DEF HasNode
  <2> QED BY <1>f, <1>k, <2>1, <2>5
<1>4. ASSUME NEW r \in Ops, InvalidateClient(r) PROVE Known' /\ Fresh'
  <2> DEFINE m == op[r].of
  <2>1. UNCHANGED <<node, filling, movedAlone>> /\ filling = NotFilling /\ op[r].kind = "invalidate"
        /\ clients' = [clients EXCEPT ![m] = Absent] /\ op' = [op EXCEPT ![r] = OpIdle]
    BY <1>4 DEF InvalidateClient, historyVars
  <2>2. clients'[m] = Absent \/ m \notin Nodes
    BY <1>n, <2>1
  <2>3. \A n \in Nodes \ {m} : clients'[n] = clients[n]
    BY <1>n, <2>1
  <2>4. \A n \in Nodes \ {m} : Stale(n) => Stale(n)'
    <3> SUFFICES ASSUME NEW n \in Nodes \ {m}, NEW q \in Ops, op[q] = [kind |-> "invalidate", of |-> n] PROVE Stale(n)'
      BY DEF Stale
    <3>1. q # r
      OBVIOUS
    <3>2. op'[q] = op[q]
      BY <1>n, <2>1, <3>1
    <3> QED BY <3>2 DEF Stale
  <2> HIDE DEF m
  <2>5. \A n \in Nodes : filling'.node # n
    BY <2>1, AbsentAssumption DEF NotFilling
  <2>6. \A n \in Nodes : FreshAt(n)'
    BY <1>0, <2>1, <2>2, <2>3, <2>4, <2>5 DEF HasNode
  <2>7. Known'
    BY <1>0, <2>1, <2>2, <2>3 DEF Known, NotFilling
  <2> QED BY <1>f, <2>6, <2>7
<1>5. ASSUME NEW m \in Nodes, GetClientLock(m) PROVE Known' /\ Fresh'
  <2>1. UNCHANGED <<node, clients, movedAlone, op>> /\ HasNode(m) /\ node[m].url \in URLs
        /\ filling' = [node |-> m, url |-> node[m].url, token |-> Absent]
    BY <1>5, <1>n, RowTyped DEF GetClientLock, historyVars
  <2>2. \A n \in Nodes : FreshAt(n)'
    BY <1>0, <2>1 DEF HasNode, Stale
  <2>3. Known'
    BY <1>0, <2>1, AbsentAssumption DEF Known, HasNode, NotFilling
  <2> QED BY <1>f, <2>2, <2>3
<1>6. CASE GetClientToken
  <2>1. UNCHANGED <<node, clients, movedAlone, op>> /\ filling.node # Absent
    BY <1>6 DEF GetClientToken, historyVars
  <2>2. CASE filling' = NotFilling
    <3>1. \A n \in Nodes : FreshAt(n)'
      BY <1>0, <2>1, <2>2, AbsentAssumption DEF NotFilling, HasNode, Stale
    <3>2. Known'
      BY <1>0, <2>1, <2>2 DEF Known, NotFilling
    <3> QED BY <1>f, <3>1, <3>2
  <2>3. CASE filling' = [filling EXCEPT !.token = node[filling.node].token]
    <3>1. filling'.node = filling.node /\ filling'.url = filling.url /\ filling'.token = node[filling.node].token
      BY <1>n, <2>3
    <3>2. \A n \in Nodes : FreshAt(n)'
      BY <1>0, <2>1, <3>1 DEF HasNode, Stale
    <3>3. Known'
      BY <1>0, <2>1, <3>1 DEF Known, NotFilling
    <3> QED BY <1>f, <3>2, <3>3
  <2> QED BY <1>6, <2>2, <2>3 DEF GetClientToken
<1>7. CASE GetClientStore
  <2>0. PICK m : m = filling.node
    OBVIOUS
  <2>1. UNCHANGED <<node, movedAlone, op>> /\ filling' = NotFilling /\ filling.token # Absent
        /\ clients' = [clients EXCEPT ![m] = [url |-> filling.url, token |-> filling.token]]
    BY <1>7, <2>0 DEF GetClientStore, historyVars
  <2>2. m \in Nodes /\ node[m] # Absent
    BY <1>0, <1>n, <2>0, <2>1 DEF Known, NotFilling, Maybe
  <2>3. clients'[m] = [url |-> filling.url, token |-> filling.token] /\ \A n \in Nodes \ {m} : clients'[n] = clients[n]
    BY <1>n, <2>1, <2>2
  <2>4. clients'[m].url = filling.url /\ clients'[m].token = filling.token
    BY <2>3
  <2>5. FreshAt(m)'
    BY <1>0, <2>0, <2>1, <2>2, <2>4, AbsentAssumption DEF HasNode, Stale, NotFilling
  <2>6. \A n \in Nodes \ {m} : FreshAt(n)'
    BY <1>0, <2>1, <2>3, AbsentAssumption DEF HasNode, Stale, NotFilling
  <2>7. Known'
    BY <1>0, <2>1, <2>2, <2>3 DEF Known, NotFilling
  <2> QED BY <1>f, <2>5, <2>6, <2>7
<1> QED BY <1>0, <1>a, <1>1, <1>2, <1>3, <1>4, <1>5, <1>6, <1>7, ElsewhereSteps DEF ClientStep

(* CInv is inductive.                                                      *)
LEMMA StepCInv == CInv /\ [CatNext]_catVars => CInv'
  BY StepTypeOK, StepFits, StepChosen, StepFigures, StepFresh DEF CInv

LEMMA CatalogueCorrect == CatSpec => []CInv
  BY InitCInv, StepCInv, PTL DEF CatSpec

(* The rows of nodes, projects and tenants, the operators' requests and    *)
(* the cache hold what their columns and fields can hold; above all, a     *)
(* node's RAM counter is never below zero and never above its total.       *)
THEOREM CatalogueTyped == CatSpec => []CatTypeOK
<1>1. CInv => CatTypeOK
  BY DEF CInv
<1> QED BY <1>1, CatalogueCorrect, PTL

(* InvalidateClient takes the lock that getClient holds over both of its   *)
(* reads; so a client made from what a row said before a change of the     *)
(* token is always dropped after it.                                       *)
THEOREM ClientFreshCorrect == CatSpec => []CachedClientFresh
<1>1. CInv => CachedClientFresh
  BY DEF CInv, Fresh, CachedClientFresh, Stale
<1> QED BY <1>1, CatalogueCorrect, PTL

(* However the check and the DELETE of a node or project interleave with   *)
(* creates, a tenant's row never loses its node or its project.            *)
THEOREM OrphansCorrect == CatSpec => []NoOrphans
<1>1. CInv => NoOrphans
  BY DEF CInv
<1> QED BY <1>1, CatalogueCorrect, PTL

-----------------------------------------------------------------------------
(* The RAM accounts. *)

LEMMA SumGrows ==
    ASSUME NEW T, IsFiniteSet(T), NEW f \in [T -> Nat], NEW g \in [T -> Nat], NEW S \in SUBSET T,
           NEW t \in T \ S, \A u \in S : g[u] = f[u]
    PROVE  /\ SumFunctionOnSet(f, S) \in Nat
           /\ SumFunctionOnSet(g, S \cup {t}) = SumFunctionOnSet(f, S) + g[t]
<1>1. SumFunctionOnSet(f, S) \in Nat
  BY SumNat
<1>2. SumFunctionOnSet(f, S) = SumFunctionOnSet(g, S)
  BY SumSame
<1>3. S \cup {t} \in SUBSET T /\ t \in S \cup {t} /\ (S \cup {t}) \ {t} = S
  OBVIOUS
<1>4. SumFunctionOnSet(g, S \cup {t}) = g[t] + SumFunctionOnSet(g, (S \cup {t}) \ {t})
  BY <1>3, SumSplit
<1>5. g[t] \in Nat
  OBVIOUS
<1> QED BY <1>1, <1>2, <1>3, <1>4, <1>5

LEMMA SumMore ==
    ASSUME NEW f \in [Tenants -> Nat], NEW g \in [Tenants -> Nat], NEW S \in SUBSET Tenants,
           NEW t \in Tenants \ S, \A u \in S : g[u] = f[u]
    PROVE  /\ SumFunctionOnSet(f, S) \in Nat
           /\ SumFunctionOnSet(g, S \cup {t}) = SumFunctionOnSet(f, S) + g[t]
  BY SumGrows, TenantAssumption

\* The RAM figures, what the tenants of a node hold, and the tenants of a
\* node being such that its account is to match.
Figure == [t \in Tenants |-> tenant[t].ram]
Held(n) == SumFunctionOnSet(Figure, Holders(n))
Untouched(n) == \A t \in Tenants : tenant[t].node = n => t \notin failed /\ tenant[t].project \notin edited

LEMMA FigureTyped == CatTypeOK => Figure \in [Tenants -> Nat]
  BY TenantTyped DEF Figure

LEMMA FigureTypedNext == CatTypeOK' => Figure' \in [Tenants -> Nat]
<1> SUFFICES ASSUME CatTypeOK', NEW t \in Tenants PROVE tenant'[t].ram \in Nat
  BY DEF Figure
<1>1. tenant'[t].ram \in RamValues \cup {0}
  BY DEF CatTypeOK
<1> QED BY <1>1, RamNat

LEMMA HeldSame ==
    ASSUME NEW n, Holders(n)' = Holders(n), \A u \in Holders(n) : tenant'[u].ram = tenant[u].ram
    PROVE  Held(n)' = Held(n)
<1>1. Holders(n) \in SUBSET Tenants
  BY DEF Holders
<1>2. \A u \in Holders(n) : Figure'[u] = Figure[u]
  BY <1>1 DEF Figure
<1>3. SumFunctionOnSet(Figure', Holders(n)) = SumFunctionOnSet(Figure, Holders(n))
  BY <1>1, <1>2, SumSame, TenantAssumption
<1> QED BY <1>3 DEF Held

LEMMA HeldMore ==
    ASSUME CatTypeOK, CatTypeOK', NEW n, NEW t \in Tenants, t \notin Holders(n), Holders(n)' = Holders(n) \cup {t},
           \A u \in Holders(n) : tenant'[u].ram = tenant[u].ram
    PROVE  Held(n) \in Nat /\ Held(n)' = Held(n) + tenant'[t].ram
<1>1. Holders(n) \in SUBSET Tenants
  BY DEF Holders
<1>2. Figure \in [Tenants -> Nat] /\ Figure' \in [Tenants -> Nat]
  BY FigureTyped, FigureTypedNext
<1>3. (\A u \in Holders(n) : Figure'[u] = Figure[u]) /\ Figure'[t] = tenant'[t].ram
  BY <1>1 DEF Figure
<1>a. t \in Tenants \ Holders(n)
  OBVIOUS
<1>4. /\ SumFunctionOnSet(Figure, Holders(n)) \in Nat
      /\ SumFunctionOnSet(Figure', Holders(n) \cup {t}) = SumFunctionOnSet(Figure, Holders(n)) + Figure'[t]
  BY <1>1, <1>2, <1>3, <1>a, SumMore
<1> QED BY <1>3, <1>4 DEF Held

LEMMA HeldLess ==
    ASSUME CatTypeOK, CatTypeOK', NEW n, NEW t \in Tenants, t \notin Holders(n)', Holders(n) = Holders(n)' \cup {t},
           \A u \in Holders(n)' : tenant'[u].ram = tenant[u].ram
    PROVE  Held(n)' \in Nat /\ Held(n) = Held(n)' + tenant[t].ram
<1>1. Holders(n)' \in SUBSET Tenants
  BY DEF Holders
<1>2. Figure \in [Tenants -> Nat] /\ Figure' \in [Tenants -> Nat]
  BY FigureTyped, FigureTypedNext
<1>3. (\A u \in Holders(n)' : Figure[u] = Figure'[u]) /\ Figure[t] = tenant[t].ram
  BY <1>1 DEF Figure
<1> QED BY <1>1, <1>2, <1>3, SumGrows, TenantAssumption DEF Held

(* An account that is to match after a step was to match before it, unless *)
(* its node is new.                                                        *)
LEMMA UntouchedBefore ==
    ASSUME CInv, [CatNext]_catVars, NEW n \in Nodes, Untouched(n)'
    PROVE  Untouched(n)
<1>0. CatTypeOK /\ Chosen
  BY DEF CInv
<1> SUFFICES ASSUME NEW u \in Tenants, tenant[u].node = n PROVE u \notin failed /\ tenant[u].project \notin edited
  BY DEF Untouched
<1>e. edited \subseteq edited'
  BY EditedGrows
<1>1. CASE UNCHANGED <<tenant, failed>>
  BY <1>1, <1>e DEF Untouched
<1>2. ASSUME NEW t \in Tenants, TenantMoves(t) PROVE u \notin failed /\ tenant[u].project \notin edited
  <2>0. tenant \in [Tenants -> TenantRow]
    BY <1>0 DEF CatTypeOK, TenantRow, Steps
  <2>1. failed \subseteq failed'
    BY <1>2 DEF TenantMoves
  <2>2. tenant[u].step \notin {"new", "node"}
    BY <1>0, AbsentAssumption DEF Chosen
  <2>3. tenant'[u].node = n /\ (tenant'[u].project = tenant[u].project \/ tenant[u].project = Absent)
    <3>1. CASE u # t
      BY <1>2, <2>0, <3>1 DEF TenantMoves
    <3>2. CASE u = t
      <4>1. ASSUME NEW p \in Projects, NEW s, NEW ram, tenant[t].step = "project",
                   tenant' = [tenant EXCEPT ![t].step = s, ![t].project = p, ![t].ram = ram]
            PROVE  tenant'[u].node = n /\ (tenant'[u].project = tenant[u].project \/ tenant[u].project = Absent)
        <5>1. tenant[u].project = Absent
          BY <1>0, <3>2, <4>1 DEF Chosen
        <5>2. tenant'[u].node = n
          BY <2>0, <3>2, <4>1 DEF TenantRow
        <5> QED BY <5>1, <5>2
      <4>2. ASSUME NEW s, NEW ram, \/ tenant' = [tenant EXCEPT ![t].step = s]
                                   \/ tenant' = [tenant EXCEPT ![t].step = s, ![t].ram = ram]
            PROVE  tenant'[u].node = n /\ (tenant'[u].project = tenant[u].project \/ tenant[u].project = Absent)
        BY <2>0, <3>2, <4>2 DEF TenantRow
      <4>3. \/ \E p \in Projects :
                  /\ tenant[t].step = "project"
                  /\ tenant' = [tenant EXCEPT ![t].step = "reserve", ![t].project = p, ![t].ram = project[p]]
            \/ \E to \in Steps : tenant' = [tenant EXCEPT ![t].step = to]
            \/ tenant' = [tenant EXCEPT ![t].step = "deleting",
                                        ![t].ram = IF HasProject(tenant[t].project)
                                                      THEN project[tenant[t].project] ELSE 0]
        BY <1>2, <2>2, <3>2 DEF TenantMoves
      <4> QED BY <4>1, <4>2, <4>3
    <3> QED BY <3>1, <3>2
  <2>4. Absent \notin edited
    BY <1>0, AbsentAssumption DEF CatTypeOK
  <2> QED BY <1>e, <2>1, <2>3, <2>4 DEF Untouched
<1> QED BY <1>1, <1>2, Moves

HolderSteps == {"insert", "release", "running", "failing", "active", "deleting"}

(* A step of one tenant's create, job or delete moves its figure into or   *)
(* out of its node's account just when it moves the tenant into or out of  *)
(* the node's holders.                                                     *)
LEMMA TenantAccounts ==
    ASSUME CInv, CInv', [CatNext]_catVars, NEW t \in Tenants, TenantStep(t), TenantMoves(t), NEW n \in Nodes,
           HasNode(n), Untouched(n)', node[n].allocated = Held(n)
    PROVE  node'[n].allocated = Held(n)'
<1>0. CatTypeOK /\ CatTypeOK' /\ Chosen /\ NoOrphans /\ Figures
  BY DEF CInv
<1>n. node \in NodeTable /\ tenant \in [Tenants -> TenantRow] /\ tenant[t].ram \in Nat /\ node[n].allocated \in Nat
  <2>1. node \in NodeTable /\ tenant \in [Tenants -> TenantRow]
    BY <1>0 DEF CatTypeOK, NodeTable, TenantRow, Steps
  <2> QED BY <1>0, <2>1, TenantTyped, RowTyped
<1>m. tenant[t].step \notin {"new", "node"} => tenant[t].node \in Nodes
  <2>1. tenant[t].step \notin {"new", "node"} => tenant[t].node # Absent
    BY <1>0 DEF Chosen
  <2>2. tenant[t].node \in Maybe(Nodes)
    BY <1>0, TenantTyped DEF TenantOf
  <2> QED BY <2>1, <2>2 DEF Maybe
<1>u. \A u \in Tenants \ {t} : tenant'[u] = tenant[u]
  BY <1>n DEF TenantMoves
<1>h. \A u \in Tenants \ {t} : u \in Holders(n)' <=> u \in Holders(n)
  BY <1>u DEF Holders
<1>a. ASSUME node'[n] = node[n], t \in Holders(n)' <=> t \in Holders(n),
             t \in Holders(n) => tenant'[t].ram = tenant[t].ram
      PROVE  node'[n].allocated = Held(n)'
  <2>1. Holders(n)' = Holders(n) /\ \A u \in Holders(n) : tenant'[u].ram = tenant[u].ram
    BY <1>a, <1>h, <1>u DEF Holders
  <2> QED BY <1>a, <2>1, HeldSame
<1>1. CASE (\E m \in Nodes : CreateReadNode(t, m) \/ GetLeastLoaded(t, m))
           \/ (\E p \in Projects : CreateReadProject(t, p)) \/ GetDefault(t)
  <2>1. UNCHANGED node /\ tenant[t].step \notin HolderSteps /\ tenant'[t].step \in {"project", "node", "reserve"}
    <3>1. CASE \E m \in Nodes : CreateReadNode(t, m) \/ GetLeastLoaded(t, m)
      BY <1>n, <3>1 DEF CreateReadNode, GetLeastLoaded, HolderSteps, TenantRow
    <3>2. CASE \E p \in Projects : CreateReadProject(t, p)
      BY <1>n, <3>2 DEF CreateReadProject, HolderSteps, TenantRow
    <3>3. CASE GetDefault(t)
      BY <1>n, <3>3 DEF GetDefault, HolderSteps, TenantRow
    <3> QED BY <1>1, <3>1, <3>2, <3>3
  <2>2. t \notin Holders(n)' /\ t \notin Holders(n)
    BY <2>1 DEF Holders, HolderSteps
  <2> QED BY <1>a, <2>1, <2>2
<1>2. CASE ReserveRAM(t)
  <2> DEFINE m == tenant[t].node
  <2>1. CASE UNCHANGED node /\ Advance(t, "refused")
    <3>1. t \notin Holders(n)' /\ t \notin Holders(n)
      BY <1>2, <1>n, <2>1 DEF ReserveRAM, Advance, Holders, TenantRow
    <3> QED BY <1>a, <2>1, <3>1
  <2>2. CASE HasNode(m) /\ node' = [node EXCEPT ![m].allocated = @ + tenant[t].ram] /\ Advance(t, "insert")
    <3>1. m \in Nodes
      BY <1>2, <1>m DEF ReserveRAM
    <3>2. /\ n # m => node'[n] = node[n]
          /\ n = m => node'[n].allocated = node[n].allocated + tenant[t].ram
      BY <1>n, <2>2, <3>1, ReserveEffect
    <3>3. tenant'[t].node = m /\ tenant'[t].step = "insert" /\ tenant'[t].ram = tenant[t].ram
          /\ tenant[t].step = "reserve"
      BY <1>2, <1>n, <2>2 DEF ReserveRAM, Advance, TenantRow
    <3>4. CASE n # m
      <4>1. t \notin Holders(n)' /\ t \notin Holders(n)
        BY <3>3, <3>4 DEF Holders
      <4> QED BY <1>a, <3>2, <3>4, <4>1
    <3>5. CASE n = m
      <4>1. t \notin Holders(n) /\ t \in Holders(n)'
        BY <3>3, <3>5 DEF Holders
      <4>2. Holders(n)' = Holders(n) \cup {t}
        BY <1>h, <4>1 DEF Holders
      <4>3. \A u \in Holders(n) : tenant'[u].ram = tenant[u].ram
        BY <1>u, <4>1 DEF Holders
      <4>4. Held(n)' = Held(n) + tenant'[t].ram
        BY <1>0, <4>1, <4>2, <4>3, HeldMore
      <4> QED BY <3>2, <3>3, <3>5, <4>4
    <3> QED BY <3>4, <3>5
  <2> QED BY <1>2, <2>1, <2>2 DEF ReserveRAM
<1>3. CASE CreateInsert(t)
  <2>1. UNCHANGED node /\ tenant[t].step = "insert" /\ tenant'[t].step \in {"running", "release"}
        /\ tenant'[t].node = tenant[t].node /\ tenant'[t].ram = tenant[t].ram
    BY <1>3, <1>n DEF CreateInsert, Advance, TenantRow
  <2>2. t \in Holders(n)' <=> t \in Holders(n)
    BY <2>1 DEF Holders
  <2> QED BY <1>a, <2>1, <2>2
<1>4. CASE JobEnds(t)
  <2>1. UNCHANGED node /\ tenant[t].step = "running" /\ tenant'[t].step \in {"active", "failing"}
        /\ tenant'[t].node = tenant[t].node /\ tenant'[t].ram = tenant[t].ram
    BY <1>4, <1>n DEF JobEnds, Advance, TenantRow
  <2>2. t \in Holders(n)' <=> t \in Holders(n)
    BY <2>1 DEF Holders
  <2> QED BY <1>a, <2>1, <2>2
<1>5. CASE DeleteRead(t)
  <2>1. UNCHANGED node /\ tenant[t].step \in {"active", "error"} /\ tenant'[t].step = "deleting"
        /\ tenant'[t].node = tenant[t].node /\ tenant'[t].project = tenant[t].project
    BY <1>5, <1>n DEF DeleteRead, TenantRow
  <2>2. CASE tenant[t].node # n
    <3>1. t \notin Holders(n)' /\ t \notin Holders(n)
      BY <2>1, <2>2 DEF Holders
    <3> QED BY <1>a, <2>1, <3>1
  <2>3. CASE tenant[t].node = n
    <3>1. t \notin failed' /\ tenant[t].project \notin edited'
      BY <2>1, <2>3 DEF Untouched
    <3>2. failed' = failed /\ edited' = edited
      BY <1>5 DEF DeleteRead, historyVars
    <3>3. tenant[t].step = "active"
      BY <1>0, <2>1, <3>1, <3>2 DEF Figures
    <3>4. t \in Rows
      BY <3>3 DEF Rows
    <3>5. HasProject(tenant[t].project)
      BY <1>0, <3>4 DEF NoOrphans
    <3>6. tenant[t].project # Absent
      BY <1>0, <3>3 DEF Chosen
    <3>7. tenant[t].ram = project[tenant[t].project]
      BY <1>0, <3>1, <3>2, <3>5, <3>6 DEF Figures
    <3>8. tenant'[t].ram = project[tenant[t].project]
      BY <1>5, <1>n, <3>5 DEF DeleteRead, TenantRow
    <3>9. t \in Holders(n)' /\ t \in Holders(n)
      BY <2>1, <2>3, <3>3 DEF Holders
    <3> QED BY <1>a, <2>1, <3>7, <3>8, <3>9
  <2> QED BY <2>2, <2>3
<1>6. CASE Releases(t)
  <2> DEFINE m == tenant[t].node
             ram == tenant[t].ram
  <2>1. Release(m, ram) /\ m \in Nodes /\ tenant[t].step \in {"release", "failing", "deleting"}
        /\ tenant'[t].step \in {"refused", "error", "deleted"} /\ tenant'[t].node = m
    BY <1>6, <1>m, <1>n DEF Releases, CreateRelease, JobRelease, DeleteRelease, Advance, TenantRow
  <2>2. /\ n # m => node'[n] = node[n]
        /\ n = m /\ ram <= node[n].allocated => node'[n].allocated = node[n].allocated - ram
    BY <1>n, <2>1, ReleaseEffect
  <2>3. CASE n # m
    <3>1. t \notin Holders(n)' /\ t \notin Holders(n)
      BY <2>1, <2>3 DEF Holders
    <3> QED BY <1>a, <2>2, <2>3, <3>1
  <2>4. CASE n = m
    <3>1. t \in Holders(n) /\ t \notin Holders(n)'
      BY <2>1, <2>4 DEF Holders
    <3>2. Holders(n) = Holders(n)' \cup {t}
      BY <1>h, <3>1 DEF Holders
    <3>3. \A u \in Holders(n)' : tenant'[u].ram = tenant[u].ram
      BY <1>u, <3>1 DEF Holders
    <3>4. Held(n)' \in Nat /\ Held(n) = Held(n)' + ram
      BY <1>0, <3>1, <3>2, <3>3, HeldLess
    <3>5. ram <= node[n].allocated /\ node[n].allocated - ram = Held(n)'
      BY <1>n, <3>4
    <3> QED BY <2>2, <2>4, <3>5
  <2> QED BY <2>3, <2>4
<1> QED BY <1>1, <1>2, <1>3, <1>4, <1>5, <1>6 DEF TenantStep, Releases

(* Operators and getClient move no RAM.                                    *)
LEMMA OtherAccounts ==
    ASSUME CatTypeOK, Chosen, [CatNext]_catVars, UNCHANGED tenant, OperatorStep \/ ClientStep \/ UNCHANGED catVars,
           NEW n \in Nodes, HasNode(n), HasNode(n)'
    PROVE  node'[n].allocated = node[n].allocated
<1>0. node \in NodeTable /\ node[n] \in NodeRow
  BY RowTyped DEF CatTypeOK, NodeTable
<1>a. ASSUME UNCHANGED node PROVE node'[n].allocated = node[n].allocated
  BY <1>a
<1>1. ASSUME NEW m \in Nodes, CreateNode(m) PROVE node'[n].allocated = node[n].allocated
  BY <1>0, <1>1, AbsentAssumption DEF CreateNode, NodeTable, HasNode
<1>2. ASSUME NEW m \in Nodes, NEW s \in NodeStatuses, NEW ram \in Totals, UpdateNodeRow(m, s, ram)
      PROVE  node'[n].allocated = node[n].allocated
  BY <1>0, <1>2 DEF UpdateNodeRow, NodeTable, NodeRow
<1>3. ASSUME NEW m \in Nodes, NEW u \in URLs, UpdateNodeURL(m, u) PROVE node'[n].allocated = node[n].allocated
  BY <1>0, <1>3 DEF UpdateNodeURL, NodeTable, NodeRow
<1>4. ASSUME NEW r \in Ops, NEW m \in Nodes, NEW u \in URLs, NEW k \in ApiTokens, UpdateNodeAccess(r, m, u, k)
      PROVE  node'[n].allocated = node[n].allocated
  BY <1>0, <1>4 DEF UpdateNodeAccess, NodeTable, NodeRow
<1>5. ASSUME NEW r \in Ops, DeleteNode(r) PROVE node'[n].allocated = node[n].allocated
  <2>1. node'[n] = node[n] \/ node'[n] = Gone
    BY <1>0, <1>5 DEF DeleteNode, NodeTable
  <2> QED BY <2>1 DEF HasNode
<1>6. ASSUME NEW p \in Projects, CreateProject(p) \/ \E ram \in RamValues : UpdateProject(p, ram)
      PROVE  UNCHANGED node
  BY <1>6 DEF CreateProject, UpdateProject
<1>7. ASSUME NEW r \in Ops, (\E m \in Nodes : DeleteNodeCheck(r, m)) \/ (\E p \in Projects : DeleteProjectCheck(r, p))
             \/ DeleteProject(r) \/ InvalidateClient(r)
      PROVE  UNCHANGED node
  BY <1>7 DEF DeleteNodeCheck, DeleteProjectCheck, DeleteProject, InvalidateClient
<1>8. ASSUME ClientStep \/ UNCHANGED catVars PROVE UNCHANGED node
  BY <1>8 DEF ClientStep, GetClientToken, GetClientStore, GetClientLock, catVars
<1> QED BY <1>a, <1>1, <1>2, <1>3, <1>4, <1>5, <1>6, <1>7, <1>8 DEF OperatorStep

LEMMA StepReservations == CInv /\ CInv' /\ ReservationsMatch /\ [CatNext]_catVars => ReservationsMatch'
<1> SUFFICES ASSUME CInv, CInv', ReservationsMatch, [CatNext]_catVars, NEW n \in Nodes, HasNode(n)', Untouched(n)'
             PROVE  node'[n].allocated = Held(n)'
  BY DEF ReservationsMatch, Held, Figure, Untouched
<1>0. CatTypeOK /\ Chosen
  BY DEF CInv
<1>1. CASE HasNode(n)
  <2>1. Untouched(n)
    BY UntouchedBefore
  <2>2. node[n].allocated = Held(n)
    BY <1>1, <2>1 DEF ReservationsMatch, Held, Figure, Untouched
  <2>3. ASSUME NEW t \in Tenants, TenantStep(t) PROVE node'[n].allocated = Held(n)'
    <3>1. TenantMoves(t)
      BY <2>3, TenantStepMoves
    <3> QED BY <1>1, <2>2, <2>3, <3>1, TenantAccounts
  <2>4. ASSUME OperatorStep \/ ClientStep \/ UNCHANGED catVars PROVE node'[n].allocated = Held(n)'
    <3>1. UNCHANGED tenant
      BY <2>4, OthersLeaveTenants
    <3>2. Holders(n)' = Holders(n) /\ \A u \in Holders(n) : tenant'[u].ram = tenant[u].ram
      BY <3>1 DEF Holders
    <3>3. Held(n)' = Held(n)
      BY <3>2, HeldSame
    <3> QED BY <1>0, <1>1, <2>2, <2>4, <3>1, <3>3, OtherAccounts
  <2> QED BY <2>3, <2>4 DEF CatNext
<1>2. CASE ~HasNode(n)
  <2>1. CreateNode(n) /\ node[n] = Absent
    BY <1>0, <1>2, NodesKept
  <2>2. UNCHANGED tenant /\ node'[n].allocated = 0
    BY <1>0, <2>1 DEF CreateNode, CatTypeOK
  <2>3. Holders(n)' = {}
    <3> SUFFICES ASSUME NEW u \in Tenants, tenant[u].node = n PROVE FALSE
      BY <2>2 DEF Holders
    <3> QED BY <1>0, <2>1, AbsentAssumption DEF Chosen
  <2>4. Held(n)' = 0
    BY <2>3, SumEmpty DEF Held
  <2> QED BY <2>2, <2>4
<1> QED BY <1>1, <1>2

(* A node's RAM counter is the sum of the figures of the tenants that hold *)
(* RAM on it: what CreateWithCapacity reserved by one read of the project  *)
(* is what a failed INSERT, and a delete by a later read, gives back; so   *)
(* the floor in ReleaseRAM hides nothing.  Excepted are nodes on which a   *)
(* job failed, and those with a tenant whose project was edited.           *)
THEOREM ReservationsCorrect == CatSpec => []ReservationsMatch
<1>1. CatInit => ReservationsMatch
  BY DEF CatInit, ReservationsMatch, HasNode
<1> QED BY <1>1, StepReservations, CatalogueCorrect, PTL DEF CatSpec
=============================================================================
