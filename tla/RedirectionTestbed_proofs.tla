--------------------- MODULE RedirectionTestbed_proofs ---------------------
(***************************************************************************)
(* Theorems about the redirection server, its client and the routing map,  *)
(* for every number of sockets, requests, losses and signals and every     *)
(* table.                                                                  *)
(***************************************************************************)
EXTENDS RedirectionTestbed, EpollSockets_proofs, WellFoundedInduction

(* Folds.  SumFunction and the routing map are recursive functions over    *)
(* the subsets of a finite set; what they are is proved by induction, in   *)
(* the form of a least counterexample.                                     *)
LEMMA LeastElement ==
  ASSUME NEW T \in SUBSET Nat, T # {}
  PROVE  \E n \in T : \A m \in T : n <= m
<1> DEFINE R == {ss \in Nat \X Nat : ss[1] < ss[2]}
<1>1. IsWellFoundedOn(R, Nat)
  BY NatLessThanWellFounded DEF OpToRel
<1>2. \E n \in T : \A m \in T : ~(<<m, n>> \in R)
  <2> HIDE DEF R
  <2> QED BY <1>1, WFMin
<1>3. PICK n \in T : \A m \in T : ~(<<m, n>> \in R)
  BY <1>2
<1>4. ASSUME NEW m \in T PROVE n <= m
  <2>1. n \in Nat /\ m \in Nat /\ ~(<<m, n>> \in R)
    BY <1>3
  <2> QED BY <2>1
<1> QED BY <1>4

(* A set of subsets of D that has each subset all of whose one-smaller     *)
(* subsets it has, has all of them.                                        *)
LEMMA SubsetInduction ==
  ASSUME NEW D, IsFiniteSet(D), NEW C,
         \A s \in SUBSET D : (\A x \in s : s \ {x} \in C) => s \in C
  PROVE  \A s \in SUBSET D : s \in C
<1> DEFINE T == {n \in Nat : \E s \in SUBSET D : s \notin C /\ Cardinality(s) = n}
<1>1. \A s \in SUBSET D : /\ Cardinality(s) \in Nat
                          /\ \A x \in s : Cardinality(s \ {x}) = Cardinality(s) - 1
  BY FS_Subset, FS_CardinalityType, FS_RemoveElement
<1>2. SUFFICES ASSUME T # {} PROVE FALSE
  BY <1>1
<1>3. PICK n \in T : \A m \in T : n <= m
  <2>1. T \in SUBSET Nat
    OBVIOUS
  <2> HIDE DEF T
  <2> QED BY <1>2, <2>1, LeastElement
<1>4. PICK s \in SUBSET D : s \notin C /\ Cardinality(s) = n
  BY <1>3, Zenon
<1>5. ASSUME NEW x \in s PROVE s \ {x} \in C
  <2>1. Cardinality(s \ {x}) = n - 1 /\ Cardinality(s \ {x}) \in Nat /\ n \in Nat
    BY <1>1, <1>4
  <2>2. n - 1 \notin T
    <3> HIDE DEF T
    <3> QED BY <1>3, <2>1
  <2> QED BY <2>1, <2>2
<1> QED BY <1>4, <1>5

(* g folds op over the subsets of D: the element that pick takes out of a  *)
(* set is put to the fold of the rest.                                     *)
FoldOver(D, pick, op, base, g) ==
  g = [s \in SUBSET D |-> IF s = {} THEN base ELSE op[<<pick[s], g[s \ {pick[s]}]>>]]

(* There is such a function.                                               *)
LEMMA FoldExists ==
  ASSUME NEW D, IsFiniteSet(D), NEW V, NEW base \in V, NEW op \in [D \X V -> V], NEW pick,
         \A s \in SUBSET D : s # {} => pick[s] \in s
  PROVE  \E g \in [SUBSET D -> V] : FoldOver(D, pick, op, base, g)
<1> DEFINE Small(n) == {s \in SUBSET D : Cardinality(s) <= n}
           Step(g, s) == IF s = {} THEN base ELSE op[<<pick[s], g[s \ {pick[s]}]>>]
           Upto(g, n) == \A s \in Small(n) : g[s] = Step(g, s)
           T == {n \in Nat : ~ \E g \in [SUBSET D -> V] : Upto(g, n)}
<1>1. \A s \in SUBSET D : /\ Cardinality(s) \in Nat /\ Cardinality(s) <= Cardinality(D)
                          /\ \A x \in s : Cardinality(s \ {x}) = Cardinality(s) - 1
                          /\ s # {} => Cardinality(s) # 0
  BY FS_Subset, FS_CardinalityType, FS_RemoveElement, FS_EmptySet
<1>2. ASSUME NEW n \in T, \A m \in T : n <= m PROVE FALSE
  <2>1. n # 0
    <3>1. SUFFICES ASSUME n = 0 PROVE FALSE
      OBVIOUS
    <3> DEFINE g == [s \in SUBSET D |-> base]
    <3>2. g \in [SUBSET D -> V] /\ g[{}] = base
      OBVIOUS
    <3>3. Small(0) = {{}}
      <4>1. Cardinality({}) = 0 /\ {} \in SUBSET D
        BY FS_EmptySet
      <4>2. ASSUME NEW s \in SUBSET D, s # {} PROVE ~(Cardinality(s) <= 0)
        BY <1>1, <4>2
      <4>3. {} \in Small(0)
        BY <4>1
      <4>4. ASSUME NEW s \in Small(0) PROVE s = {}
        BY <4>2
      <4> HIDE DEF Small
      <4> QED BY <4>3, <4>4
    <3>4. Upto(g, 0)
      BY <3>2, <3>3
    <3> HIDE DEF g, Upto
    <3> QED BY <1>2, <3>1, <3>2, <3>4
  <2>2. n - 1 \in Nat /\ n - 1 \notin T
    <3>1. n \in Nat
      OBVIOUS
    <3> HIDE DEF T
    <3> QED BY <1>2, <2>1, <3>1
  <2>3. PICK g \in [SUBSET D -> V] : Upto(g, n - 1)
    <3> HIDE DEF Upto
    <3> QED BY <2>2
  <2> DEFINE h == [s \in SUBSET D |-> IF Cardinality(s) <= n - 1 THEN g[s] ELSE Step(g, s)]
  <2>4. ASSUME NEW s \in SUBSET D PROVE Step(g, s) \in V
    <3>1. CASE s = {}
      BY <3>1
    <3>2. CASE s # {}
      <4>1. pick[s] \in D /\ g[s \ {pick[s]}] \in V
        BY <3>2
      <4> QED BY <3>2, <4>1
    <3> QED BY <3>1, <3>2
  <2>5. h \in [SUBSET D -> V]
    <3> HIDE DEF Step
    <3> QED BY <2>4
  <2>6. ASSUME NEW s \in Small(n) PROVE h[s] = Step(h, s)
    <3>1. h[s] = Step(g, s)
      <4>1. CASE Cardinality(s) <= n - 1
        BY <2>3, <4>1
      <4>2. CASE ~(Cardinality(s) <= n - 1)
        BY <4>2
      <4> QED BY <4>1, <4>2
    <3>2. ASSUME s # {} PROVE h[s \ {pick[s]}] = g[s \ {pick[s]}]
      <4>1. pick[s] \in s
        BY <3>2
      <4>2. Cardinality(s \ {pick[s]}) = Cardinality(s) - 1 /\ Cardinality(s) \in Nat
        BY <1>1, <4>1
      <4>3. Cardinality(s \ {pick[s]}) <= n - 1
        BY <4>2
      <4> HIDE DEF Step
      <4> QED BY <4>3
    <3>3. Step(h, s) = Step(g, s)
      <4> HIDE DEF h
      <4> QED BY <3>2
    <3> QED BY <3>1, <3>3
  <2>7. Upto(h, n)
    BY <2>6
  <2> HIDE DEF h, Upto
  <2> QED BY <1>2, <2>5, <2>7
<1>3. T = {}
  <2>1. T \in SUBSET Nat
    OBVIOUS
  <2> HIDE DEF T
  <2> QED BY <1>2, <2>1, LeastElement
<1>4. Cardinality(D) \in Nat
  BY FS_CardinalityType
<1>5. PICK g \in [SUBSET D -> V] : Upto(g, Cardinality(D))
  <2> HIDE DEF Upto
  <2> QED BY <1>3, <1>4
<1>6. \A s \in SUBSET D : g[s] = Step(g, s)
  <2>1. Small(Cardinality(D)) = SUBSET D
    BY <1>1
  <2> HIDE DEF Small, Step
  <2> QED BY <1>5, <2>1
<1>7. FoldOver(D, pick, op, base, g)
  <2>1. g = [s \in SUBSET D |-> g[s]]
    OBVIOUS
  <2> QED BY <1>6, <2>1 DEF FoldOver
<1> QED BY <1>7

(* SumFunction takes elements in the order in which SumPick has them.      *)
SumPick(s) == CHOOSE x \in s : TRUE

Sums(f, g) ==
  g = [s \in SUBSET DOMAIN f |-> IF s = {} THEN 0 ELSE f[SumPick(s)] + g[s \ {SumPick(s)}]]

(* The sum is the value of such a function, and a natural number.          *)
LEMMA SumFcn ==
  ASSUME NEW D, IsFiniteSet(D), NEW f \in [D -> Nat]
  PROVE  \E g \in [SUBSET D -> Nat] : Sums(f, g) /\ SumFunction(f) = g[D]
<1> DEFINE G == CHOOSE g : Sums(f, g)
<1>1. SumFunction(f) = G[D]
  BY DEF SumFunction, SumFunctionOnSet, FoldFunctionOnSet, MapThenFoldSet, Sums, SumPick
<1>2. \E g : Sums(f, g)
  <2> DEFINE op == [xv \in D \X Nat |-> f[xv[1]] + xv[2]]
             pick == [s \in SUBSET D |-> SumPick(s)]
  <2>1. op \in [D \X Nat -> Nat]
    OBVIOUS
  <2>2. \A s \in SUBSET D : s # {} => pick[s] \in s
    BY DEF SumPick
  <2>3. PICK g \in [SUBSET D -> Nat] : FoldOver(D, pick, op, 0, g)
    <3> HIDE DEF op, pick
    <3> QED BY <2>1, <2>2, FoldExists
  <2>4. ASSUME NEW s \in SUBSET D
        PROVE  g[s] = IF s = {} THEN 0 ELSE f[SumPick(s)] + g[s \ {SumPick(s)}]
    <3>1. g[s] = IF s = {} THEN 0 ELSE op[<<pick[s], g[s \ {pick[s]}]>>]
      <4> HIDE DEF op, pick
      <4> QED BY <2>3 DEF FoldOver
    <3>2. CASE s # {}
      <4>1. pick[s] = SumPick(s) /\ SumPick(s) \in D
        BY <2>2, <3>2
      <4>2. g[s \ {SumPick(s)}] \in Nat
        OBVIOUS
      <4>3. op[<<SumPick(s), g[s \ {SumPick(s)}]>>] = f[SumPick(s)] + g[s \ {SumPick(s)}]
        BY <4>1, <4>2
      <4> HIDE DEF op, pick
      <4> QED BY <3>1, <3>2, <4>1, <4>3
    <3> QED BY <3>1, <3>2
  <2>5. Sums(f, g)
    BY <2>4 DEF Sums
  <2> QED BY <2>5
<1>3. Sums(f, G)
  BY <1>2
<1> HIDE DEF G
<1>4. \A s \in SUBSET D :
         G[s] = IF s = {} THEN 0 ELSE f[SumPick(s)] + G[s \ {SumPick(s)}]
  BY <1>3 DEF Sums
<1> DEFINE C == {s \in SUBSET D : G[s] \in Nat}
<1>5. ASSUME NEW s \in SUBSET D, \A x \in s : s \ {x} \in C PROVE s \in C
  <2>1. CASE s # {}
    <3>1. SumPick(s) \in s
      BY <2>1 DEF SumPick
    <3>2. G[s \ {SumPick(s)}] \in Nat /\ f[SumPick(s)] \in Nat
      BY <1>5, <3>1
    <3>3. G[s] = f[SumPick(s)] + G[s \ {SumPick(s)}]
      BY <1>4, <2>1
    <3> QED BY <3>2, <3>3
  <2>2. CASE s = {}
    <3>1. G[s] = 0
      BY <1>4, <2>2
    <3> QED BY <3>1
  <2> QED BY <2>1, <2>2
<1>6. \A s \in SUBSET D : s \in C
  <2> HIDE DEF C
  <2> QED BY <1>5, SubsetInduction
<1>7. G \in [SUBSET D -> Nat]
  <2>1. G = [s \in SUBSET D |-> G[s]]
    BY <1>3 DEF Sums
  <2> QED BY <1>6, <2>1
<1> QED BY <1>1, <1>3, <1>7

(* The value of one element changed.                                       *)
LEMMA SumChange ==
  ASSUME NEW D, IsFiniteSet(D), NEW f \in [D -> Nat], NEW c \in D, NEW v \in Nat
  PROVE  /\ SumFunction(f) \in Nat /\ SumFunction([f EXCEPT ![c] = v]) \in Nat
         /\ SumFunction([f EXCEPT ![c] = v]) = SumFunction(f) - f[c] + v
<1> DEFINE e == [f EXCEPT ![c] = v]
<1>1. e \in [D -> Nat] /\ e[c] = v /\ \A x \in D : x # c => e[x] = f[x]
  OBVIOUS
<1> HIDE DEF e
<1>2. PICK g \in [SUBSET D -> Nat] : Sums(f, g) /\ SumFunction(f) = g[D]
  BY SumFcn
<1>3. PICK h \in [SUBSET D -> Nat] : Sums(e, h) /\ SumFunction(e) = h[D]
  BY <1>1, SumFcn
<1>4. ASSUME NEW s \in SUBSET D, s # {}
      PROVE  /\ SumPick(s) \in s
             /\ g[s] = f[SumPick(s)] + g[s \ {SumPick(s)}]
             /\ h[s] = e[SumPick(s)] + h[s \ {SumPick(s)}]
  BY <1>1, <1>2, <1>3, <1>4 DEF Sums, SumPick
<1>5. g[{}] = 0 /\ h[{}] = 0
  BY <1>1, <1>2, <1>3 DEF Sums
<1> DEFINE C == {s \in SUBSET D : h[s] = IF c \in s THEN g[s] - f[c] + v ELSE g[s]}
<1>6. ASSUME NEW s \in SUBSET D, \A x \in s : s \ {x} \in C PROVE s \in C
  <2>1. CASE s = {}
    BY <1>5, <2>1
  <2>2. CASE s # {}
    <3> DEFINE x == SumPick(s)
               r == s \ {x}
    <3>1. /\ x \in s /\ x \in D /\ r \in SUBSET D /\ r \in C
          /\ g[s] = f[x] + g[r] /\ h[s] = e[x] + h[r]
      BY <1>4, <1>6, <2>2
    <3>2. g[r] \in Nat /\ h[r] \in Nat /\ f[x] \in Nat /\ f[c] \in Nat
      BY <3>1
    <3>3. (c \in r <=> c \in s /\ c # x) /\ (h[r] = IF c \in r THEN g[r] - f[c] + v ELSE g[r])
      BY <3>1
    <3> HIDE DEF x, r
    <3>4. CASE x = c
      BY <1>1, <3>1, <3>2, <3>3, <3>4
    <3>5. CASE x # c
      BY <1>1, <3>1, <3>2, <3>3, <3>5
    <3> QED BY <3>4, <3>5
  <2> QED BY <2>1, <2>2
<1>7. D \in C
  <2> HIDE DEF C
  <2> QED BY <1>6, SubsetInduction
<1> QED BY <1>2, <1>3, <1>7 DEF e

(* Nothing adds up to nothing.                                             *)
LEMMA SumZero ==
  ASSUME NEW D, IsFiniteSet(D)
  PROVE  SumFunction([x \in D |-> 0]) = 0
<1> DEFINE f == [x \in D |-> 0]
<1>1. PICK g \in [SUBSET D -> Nat] : Sums(f, g) /\ SumFunction(f) = g[D]
  <2>1. f \in [D -> Nat]
    OBVIOUS
  <2> HIDE DEF f
  <2> QED BY <2>1, SumFcn
<1> DEFINE C == {s \in SUBSET D : g[s] = 0}
<1>2. ASSUME NEW s \in SUBSET D, \A x \in s : s \ {x} \in C PROVE s \in C
  <2>1. g[s] = IF s = {} THEN 0 ELSE f[SumPick(s)] + g[s \ {SumPick(s)}]
    BY <1>1 DEF Sums
  <2>2. CASE s # {}
    <3>1. SumPick(s) \in s
      BY <2>2 DEF SumPick
    <3> QED BY <1>2, <2>1, <2>2, <3>1
  <2> QED BY <2>1, <2>2
<1>3. D \in C
  <2> HIDE DEF C
  <2> QED BY <1>2, SubsetInduction
<1> QED BY <1>1, <1>3

-----------------------------------------------------------------------------
(* The routing map takes in the lines of the table in their order: the     *)
(* last of a set of lines is inserted after the others.                    *)
LastLine(s) == CHOOSE i \in s : \A j \in s : i >= j

Lines == DOMAIN RoutingTable

Insert(m, i) == map_insert(m, RoutingTable[i][1], RoutingTable[i][2])

Inserts(g) ==
  g = [s \in SUBSET Lines |-> IF s = {} THEN << >> ELSE Insert(g[s \ {LastLine(s)}], LastLine(s))]

(* The table is a sequence: its lines are finitely many numbers.           *)
LEMMA LinesFinite == IsFiniteSet(Lines) /\ Lines \subseteq Nat
<1>1. Len(RoutingTable) \in Nat /\ Lines = 1 .. Len(RoutingTable)
  BY TableAssumption DEF Lines
<1>2. IsFiniteSet(1 .. Len(RoutingTable))
  BY <1>1, FS_Interval
<1> QED BY <1>1, <1>2

(* A set of lines has a last one.                                          *)
LEMMA LastLineIs ==
  ASSUME NEW s \in SUBSET Lines, s # {}
  PROVE  LastLine(s) \in s /\ \A j \in s : j <= LastLine(s)
<1> DEFINE C == {t \in SUBSET Lines : t # {} => \E i \in t : \A j \in t : i >= j}
<1>1. ASSUME NEW t \in SUBSET Lines, \A x \in t : t \ {x} \in C PROVE t \in C
  <2>1. SUFFICES ASSUME NEW x \in t PROVE \E i \in t : \A j \in t : i >= j
    OBVIOUS
  <2>2. t \subseteq Nat
    BY LinesFinite
  <2>3. CASE t \ {x} = {}
    BY <2>2, <2>3
  <2>4. CASE t \ {x} # {}
    <3>1. PICK i \in t \ {x} : \A j \in t \ {x} : i >= j
      BY <1>1, <2>4
    <3>2. CASE i >= x
      BY <3>1, <3>2
    <3>3. CASE ~(i >= x)
      <4>1. x >= i /\ x \in Nat /\ i \in Nat
        BY <2>2, <3>3
      <4>2. \A j \in t : x >= j
        BY <2>2, <3>1, <4>1
      <4> QED BY <4>2
    <3> QED BY <3>2, <3>3
  <2> QED BY <2>3, <2>4
<1>2. s \in C
  <2> HIDE DEF C
  <2> QED BY <1>1, LinesFinite, SubsetInduction
<1>3. \E i \in s : \A j \in s : i >= j
  BY <1>2
<1>4. LastLine(s) \in s /\ \A j \in s : LastLine(s) >= j
  BY <1>3 DEF LastLine
<1> QED BY <1>4, LinesFinite

(* There is such a function, and the routing map is its value.             *)
LEMMA InsertsFcn ==
  \E g : Inserts(g) /\ routing_map = g[Lines]
<1> DEFINE G == CHOOSE g : Inserts(g)
<1>1. routing_map = G[Lines]
  BY DEF routing_map, FoldLeft, MapThenFoldSet, Max, Inserts, Insert, LastLine, Lines
<1> DEFINE H == {RoutingTable[i][1] : i \in Lines}
           W == {RoutingTable[i][2] : i \in Lines}
           V == UNION {[K -> W] : K \in SUBSET H}
           op == [iv \in Lines \X V |-> Insert(iv[2], iv[1])]
           pick == [s \in SUBSET Lines |-> LastLine(s)]
<1>2. << >> \in V
  <2>1. << >> \in [{} -> W]
    OBVIOUS
  <2> HIDE DEF W
  <2> QED BY <2>1
<1>3. op \in [Lines \X V -> V]
  <2>1. ASSUME NEW i \in Lines, NEW m \in V PROVE Insert(m, i) \in V
    <3>1. PICK K \in SUBSET H : m \in [K -> W]
      OBVIOUS
    <3>2. RoutingTable[i][1] \in H /\ RoutingTable[i][2] \in W
      OBVIOUS
    <3> HIDE DEF H, W
    <3>3. Insert(m, i) \in [K \cup {RoutingTable[i][1]} -> W]
      BY <3>1, <3>2 DEF Insert, map_insert
    <3> QED BY <3>1, <3>2, <3>3
  <2> HIDE DEF V
  <2> QED BY <2>1
<1>4. \A s \in SUBSET Lines : s # {} => pick[s] \in s
  BY LastLineIs
<1>5. PICK g \in [SUBSET Lines -> V] : FoldOver(Lines, pick, op, << >>, g)
  <2> HIDE DEF V, op, pick
  <2> QED BY <1>2, <1>3, <1>4, LinesFinite, FoldExists
<1>6. ASSUME NEW s \in SUBSET Lines
      PROVE  g[s] = IF s = {} THEN << >> ELSE Insert(g[s \ {LastLine(s)}], LastLine(s))
  <2>1. g[s] = IF s = {} THEN << >> ELSE op[<<pick[s], g[s \ {pick[s]}]>>]
    <3> HIDE DEF op, pick
    <3> QED BY <1>5 DEF FoldOver
  <2>2. CASE s # {}
    <3>1. pick[s] = LastLine(s) /\ LastLine(s) \in Lines
      BY <1>4, <2>2
    <3>2. g[s \ {LastLine(s)}] \in V
      <4> HIDE DEF V
      <4> QED OBVIOUS
    <3>3. op[<<LastLine(s), g[s \ {LastLine(s)}]>>] = Insert(g[s \ {LastLine(s)}], LastLine(s))
      <4> HIDE DEF V
      <4> QED BY <3>1, <3>2
    <3> HIDE DEF op, pick
    <3> QED BY <2>1, <2>2, <3>1, <3>3
  <2> QED BY <2>1, <2>2
<1>7. Inserts(g)
  <2> HIDE DEF V
  <2> QED BY <1>6 DEF Inserts
<1>8. Inserts(G)
  <2> HIDE DEF V
  <2> QED BY <1>7
<1> HIDE DEF G
<1> QED BY <1>1, <1>8

FirstFor(s, host, i) ==
  /\ i \in s /\ RoutingTable[i][1] = host
  /\ \A j \in s : RoutingTable[j][1] = host => i <= j

(* The map of a set of lines has the hosts of those lines, each with the   *)
(* switch of its first.                                                    *)
LEMMA InsertsFirst ==
  ASSUME NEW g, Inserts(g), NEW s \in SUBSET Lines
  PROVE  /\ \A host : host \in DOMAIN g[s] <=> \E i \in s : RoutingTable[i][1] = host
         /\ \A host \in DOMAIN g[s] :
               \E i \in s : FirstFor(s, host, i) /\ g[s][host] = RoutingTable[i][2]
<1> DEFINE Hosts(t) == {RoutingTable[i][1] : i \in t}
           Right(t) == /\ DOMAIN g[t] = Hosts(t)
                       /\ \A host \in Hosts(t) :
                             \E i \in t : FirstFor(t, host, i) /\ g[t][host] = RoutingTable[i][2]
           C == {t \in SUBSET Lines : Right(t)}
<1>1. ASSUME NEW t \in SUBSET Lines, \A x \in t : t \ {x} \in C PROVE Right(t)
  <2>1. CASE t = {}
    <3>1. g[t] = << >>
      BY <1>1, <2>1 DEF Inserts
    <3>2. DOMAIN g[t] = {} /\ Hosts(t) = {}
      BY <2>1, <3>1
    <3> QED BY <3>2
  <2>2. CASE t # {}
    <3> DEFINE l == LastLine(t)
               r == t \ {l}
               key == RoutingTable[l][1]
    <3>1. l \in t /\ l \in Nat /\ \A j \in t : j <= l
      BY <2>2, LastLineIs, LinesFinite
    <3>2. Right(r)
      BY <1>1, <3>1
    <3>3. g[t] = Insert(g[r], l)
      BY <1>1, <2>2 DEF Inserts
    <3>4. /\ DOMAIN g[t] = DOMAIN g[r] \cup {key}
          /\ \A k \in DOMAIN g[r] : g[t][k] = g[r][k]
          /\ key \notin DOMAIN g[r] => g[t][key] = RoutingTable[l][2]
      BY <3>3 DEF Insert, map_insert
    <3> HIDE DEF l
    <3>5. Hosts(t) = Hosts(r) \cup {key}
      BY <3>1
    <3>6. ASSUME NEW host \in Hosts(t)
          PROVE  \E i \in t : FirstFor(t, host, i) /\ g[t][host] = RoutingTable[i][2]
      <4>1. CASE host \in Hosts(r)
        <5>1. PICK i \in r : FirstFor(r, host, i) /\ g[r][host] = RoutingTable[i][2]
          BY <3>2, <4>1
        <5>2. FirstFor(t, host, i)
          BY <3>1, <5>1 DEF FirstFor
        <5>3. g[t][host] = g[r][host]
          BY <3>2, <3>4, <4>1
        <5> QED BY <5>1, <5>2, <5>3
      <4>2. CASE host \notin Hosts(r)
        <5>1. host = key
          BY <3>5, <4>2
        <5>2. FirstFor(t, host, l)
          BY <3>1, <4>2, <5>1 DEF FirstFor
        <5>3. g[t][host] = RoutingTable[l][2]
          BY <3>2, <3>4, <4>2, <5>1
        <5> QED BY <3>1, <5>2, <5>3
      <4> QED BY <4>1, <4>2
    <3>7. DOMAIN g[t] = Hosts(t)
      BY <3>2, <3>4, <3>5
    <3> QED BY <3>6, <3>7
  <2> QED BY <2>1, <2>2
<1>2. \A t \in SUBSET Lines : (\A x \in t : t \ {x} \in C) => t \in C
  <2> HIDE DEF Right
  <2> QED BY <1>1
<1>3. s \in C
  <2> HIDE DEF C
  <2> QED BY <1>2, LinesFinite, SubsetInduction
<1>4. Right(s)
  <2> HIDE DEF Right
  <2> QED BY <1>3
<1> QED BY <1>4

(* The switch that is looked up for a host is that of the host's first     *)
(* line in the table, and a host without a line has none (map_lookup).     *)
THEOREM FirstLineCounts == \A host : map_lookup(host) = FirstLine(host)
<1> SUFFICES ASSUME NEW host PROVE map_lookup(host) = FirstLine(host)
  OBVIOUS
<1>1. PICK g : Inserts(g) /\ routing_map = g[Lines]
  BY InsertsFcn
<1>2. /\ host \in DOMAIN routing_map <=> \E i \in Lines : RoutingTable[i][1] = host
      /\ host \in DOMAIN routing_map =>
           \E i \in Lines : FirstFor(Lines, host, i)
                            /\ routing_map[host] = RoutingTable[i][2]
  BY <1>1, InsertsFirst
<1> DEFINE lines == {i \in DOMAIN RoutingTable : RoutingTable[i][1] = host}
<1>3. CASE host \in DOMAIN routing_map
  <2>1. PICK i \in Lines : FirstFor(Lines, host, i) /\ routing_map[host] = RoutingTable[i][2]
    BY <1>2, <1>3
  <2>2. i \in lines /\ (\A j \in lines : i <= j) /\ lines \subseteq Nat
    BY <2>1, LinesFinite DEF FirstFor, Lines
  <2>3. i = CHOOSE k \in lines : \A j \in lines : k <= j
    <3> HIDE DEF lines
    <3>1. \A k \in lines : (\A j \in lines : k <= j) => k = i
      BY <2>2
    <3> QED BY <2>2, <3>1
  <2>4. FirstLine(host) = RoutingTable[i][2]
    BY <2>2, <2>3 DEF FirstLine
  <2> QED BY <1>3, <2>1, <2>4 DEF map_lookup
<1>4. CASE host \notin DOMAIN routing_map
  <2>1. lines = {}
    BY <1>2, <1>4 DEF Lines
  <2> QED BY <1>4, <2>1 DEF FirstLine, map_lookup
<1> QED BY <1>3, <1>4

-----------------------------------------------------------------------------
(* The server.  A request received is stamped before it is counted.        *)
Unstamped == IF pc = "count" \/ (pc = "stamp" /\ ~drained_flag) THEN 1 ELSE 0

(* The times stamped are those of the requests counted, in the order in    *)
(* which they were received.                                               *)
Stamped ==
  /\ received = req_pkt_counter + Unstamped
  /\ \A i \in 0 .. req_pkt_counter - 1 : rx_timestamps[i] = i + 1
  /\ pc = "count" => rx_timestamps[req_pkt_counter] = req_pkt_counter + 1

ServerInv == ServerOK /\ Ordered /\ Stamped /\ (InHand => request \in Requests)

AtMostOne == handling = {} \/ \E s : handling = {s}

(* As long as one signal at most has come the file is written once, and    *)
(* closed only if it was open.                                             *)
OneDump ==
  /\ handling = {} => phase = "dump" /\ exit = "no"
  /\ AtMostOne =>
       /\ phase \in {"dump", "close"} => rxts_fp = IF pc = "start" THEN "none" ELSE "open"
       /\ phase = "dump" => written = << >>
       /\ phase # "dump" /\ pc # "start" => written = Dumped
       /\ phase \in {"free", "kill"} => pc # "start"
       /\ exit = "killed" => phase = "kill"

(* There is room for some number of times.                                 *)
LEMMA StampsInNat == MaxStamps \in Nat
BY SocketsAssumption DEF MaxStamps

(* A server that has just started has stamped nothing.                     *)
LEMMA InitServerInv == InitServer => ServerInv /\ OneDump
<1> SUFFICES ASSUME InitServer PROVE ServerInv /\ OneDump
  OBVIOUS
<1>1. SocketsOK /\ Ordered
  BY InitSocketsOK, InitOrdered DEF InitServer
<1>2. ServerOK
  <2>1. refused \in 0 .. MaxRefused
    BY RedirectionAssumption DEF InitServer
  <2>2. /\ req_pkt_counter \in 0 .. MaxStamps /\ received \in 0 .. MaxStamps
        /\ rx_timestamps \in [0 .. MaxStamps -> 0 .. MaxStamps]
    BY StampsInNat DEF InitServer
  <2>3. written \in Seq(0 .. MaxStamps)
    BY DEF InitServer
  <2>4. drained_flag \in BOOLEAN /\ freed \in BOOLEAN
    BY DEF InitServer
  <2> QED BY <1>1, <2>1, <2>2, <2>3, <2>4, SocketsInNat DEF InitServer, ServerOK
<1>3. Stamped
  BY DEF InitServer, Stamped, Unstamped
<1>4. OneDump
  BY DEF InitServer, OneDump
<1> QED BY <1>1, <1>2, <1>3, <1>4 DEF InitServer, ServerInv, InHand

(* The sequence of times that a signal has written.                        *)
LEMMA DumpedIs ==
  ASSUME ServerOK
  PROVE  /\ Dumped \in Seq(0 .. MaxStamps)
         /\ req_pkt_counter > 0 => Len(Dumped) = req_pkt_counter - 1
         /\ req_pkt_counter = 0 => Len(Dumped) = 0
         /\ \A i \in 1 .. Len(Dumped) : i \in 1 .. req_pkt_counter - 1
                                        /\ Dumped[i] = rx_timestamps[i]
<1>1. /\ req_pkt_counter \in Nat /\ MaxStamps \in Nat /\ req_pkt_counter <= MaxStamps
      /\ rx_timestamps \in [0 .. MaxStamps -> 0 .. MaxStamps]
  BY StampsInNat DEF ServerOK
<1> DEFINE n == IF req_pkt_counter = 0 THEN 0 ELSE req_pkt_counter - 1
<1>2. 1 .. req_pkt_counter - 1 = 1 .. n /\ n \in Nat /\ n <= MaxStamps
  BY <1>1
<1>3. Dumped = [i \in 1 .. n |-> rx_timestamps[i]]
  BY <1>2 DEF Dumped
<1> HIDE DEF n
<1>4. \A i \in 1 .. n : rx_timestamps[i] \in 0 .. MaxStamps
  BY <1>1, <1>2
<1>5. Dumped \in Seq(0 .. MaxStamps) /\ Len(Dumped) = n
  BY <1>2, <1>3, <1>4
<1> QED BY <1>1, <1>2, <1>3, <1>5 DEF n

(* The loop's steps.  Only the receipt of a request needs room.            *)
LEMMA NextSocketIs ==
  ASSUME ServerOK, pc = "stamp", NextSocket
  PROVE  /\ todo' \subseteq Sockets /\ cur' \in Sockets /\ pc' \in {"wait", "recv"}
         /\ pc' = "recv" => cur' \in todo'
BY DEF ServerOK, NextSocket

(* Types and order of the loop's next state.                               *)
LEMMA LoopTypes ==
  ASSUME ServerInv, Loop, Receive => received < MaxStamps
  PROVE  ServerOK' /\ Ordered' /\ (InHand => request \in Requests)'
<1>0. ServerOK /\ SocketsOK /\ Ordered /\ cur \in Sockets /\ MaxStamps \in Nat
  BY StampsInNat DEF ServerInv, ServerOK
<1>1. CASE OpenFile
  BY <1>0, <1>1 DEF OpenFile, ServerOK, SocketsOK, Ordered, Gone, kernel, stamps, InHand
<1>2. CASE EpollWait
  <2>1. /\ pc' = "recv" /\ todo' \subseteq Sockets /\ cur' \in todo'
        /\ UNCHANGED <<arrived, sock, replies, drained_flag, request, stamps, handler>>
        /\ armed' \in [Sockets -> BOOLEAN]
    BY <1>2 DEF EpollWait, Readable, Report
  <2> QED BY <1>0, <2>1 DEF ServerOK, SocketsOK, Ordered, Gone, stamps, handler, InHand
<1>3. CASE Receive
  <2>1. /\ pc = "recv" /\ pc' = "stamp" /\ sock[cur] # << >> /\ TakeFirst(cur)
        /\ drained_flag' = FALSE /\ request' = Head(sock[cur]) /\ received' = received + 1
        /\ UNCHANGED <<arrived, armed, replies, todo, cur, req_pkt_counter, rx_timestamps,
                       refused, handler>>
    BY <1>3 DEF Receive
  <2>2. /\ Ordered' /\ sock' \in [Sockets -> Seq(Requests)] /\ request' \in Requests
    BY <1>0, <2>1, TakeOrdered
  <2>3. SocketsOK'
    BY <1>0, <2>1, <2>2 DEF SocketsOK
  <2>4. received' \in 0 .. MaxStamps
    <3>1. received \in 0 .. MaxStamps
      BY <1>0 DEF ServerOK
    <3>2. received < MaxStamps
      BY <1>3
    <3> QED BY <1>0, <2>1, <3>1, <3>2
  <2>5. drained_flag' \in BOOLEAN
    BY <2>1
  <2> QED BY <1>0, <2>1, <2>2, <2>3, <2>4, <2>5 DEF ServerOK, handler
<1>4. CASE Drained
  <2>1. drained_flag' \in BOOLEAN
    BY <1>4 DEF Drained
  <2>2. ~InHand'
    BY <1>4 DEF Drained, InHand
  <2> QED BY <1>0, <1>4, <2>1, <2>2
        DEF Drained, ServerOK, SocketsOK, Ordered, Gone, kernel, stamps, handler
<1>5. CASE Stamp
  <2>1. /\ pc = "stamp"
        /\ UNCHANGED <<arrived, sock, armed, replies, drained_flag, request, req_pkt_counter,
                       received, refused, handling, phase, rxts_fp, written, freed, exit>>
        /\ rx_timestamps' = [rx_timestamps EXCEPT ![req_pkt_counter] =
                               IF drained_flag THEN 0 ELSE received]
    BY <1>5 DEF Stamp, kernel, handler
  <2>2. rx_timestamps' \in [0 .. MaxStamps -> 0 .. MaxStamps]
    <3>1. /\ rx_timestamps \in [0 .. MaxStamps -> 0 .. MaxStamps]
          /\ received \in 0 .. MaxStamps /\ MaxStamps \in Nat
      BY <1>0 DEF ServerOK
    <3>2. (IF drained_flag THEN 0 ELSE received) \in 0 .. MaxStamps
      BY <3>1
    <3> HIDE DEF MaxStamps
    <3> QED BY ONLY <2>1, <3>1, <3>2
  <2>3. /\ todo' \subseteq Sockets /\ cur' \in Sockets /\ pc' \in {"wait", "recv", "count"}
        /\ pc' \in {"recv", "count"} => cur' \in todo'
        /\ pc' = "count" => ~drained_flag
    <3>1. CASE drained_flag
      <4>1. NextSocket
        BY <1>5, <3>1 DEF Stamp
      <4> QED BY <1>0, <2>1, <4>1, NextSocketIs
    <3>2. CASE ~drained_flag
      <4>1. pc' = "count" /\ UNCHANGED <<todo, cur>>
        BY <1>5, <3>2 DEF Stamp
      <4> QED BY <1>0, <2>1, <3>2, <4>1 DEF ServerOK
    <3> QED BY <3>1, <3>2
  <2>4. pc' = "count" => request \in Requests
    BY <2>1, <2>3 DEF ServerInv, InHand
  <2> QED BY <1>0, <2>1, <2>2, <2>3, <2>4 DEF ServerOK, SocketsOK, Ordered, Gone, InHand
<1>6. CASE Count
  <2>1. /\ pc = "count" /\ pc' = "send" /\ req_pkt_counter' = req_pkt_counter + 1
        /\ UNCHANGED <<arrived, sock, armed, replies, todo, cur, drained_flag, request,
                       rx_timestamps, received, refused, handling, phase, rxts_fp, written,
                       freed, exit>>
    BY <1>6 DEF Count, kernel, handler
  <2>2. received = req_pkt_counter + 1
    BY <2>1 DEF ServerInv, Stamped, Unstamped
  <2>3. req_pkt_counter' \in 0 .. MaxStamps
    BY <1>0, <2>1, <2>2 DEF ServerOK
  <2> QED BY <1>0, <2>1, <2>3 DEF ServerOK, SocketsOK, Ordered, Gone, InHand
<1> QED BY <1>1, <1>2, <1>3, <1>4, <1>5, <1>6 DEF Loop

(* The time of a receive that found nothing is where the next goes; that   *)
(* of a request is where the next is not.                                  *)
LEMMA LoopStamps ==
  ASSUME ServerInv, Loop
  PROVE  Stamped'
<1>0. /\ req_pkt_counter \in Nat /\ req_pkt_counter <= MaxStamps /\ MaxStamps \in Nat
      /\ rx_timestamps \in [0 .. MaxStamps -> 0 .. MaxStamps]
      /\ received = req_pkt_counter + Unstamped
      /\ \A i \in 0 .. req_pkt_counter - 1 : rx_timestamps[i] = i + 1
      /\ pc = "count" => rx_timestamps[req_pkt_counter] = req_pkt_counter + 1
  <2>1. /\ req_pkt_counter \in 0 .. MaxStamps /\ MaxStamps \in Nat
        /\ rx_timestamps \in [0 .. MaxStamps -> 0 .. MaxStamps]
    BY StampsInNat DEF ServerInv, ServerOK
  <2> QED BY <2>1 DEF ServerInv, Stamped
<1>1. CASE OpenFile \/ EpollWait \/ Drained
  <2>1. UNCHANGED <<req_pkt_counter, rx_timestamps, received>>
    BY <1>1 DEF OpenFile, EpollWait, Drained, stamps
  <2>2. Unstamped = 0 /\ Unstamped' = 0 /\ pc' # "count"
    BY <1>1 DEF OpenFile, EpollWait, Drained, Unstamped
  <2> QED BY <1>0, <2>1, <2>2 DEF Stamped
<1>2. CASE Receive
  <2>1. /\ UNCHANGED <<req_pkt_counter, rx_timestamps>> /\ received' = received + 1
        /\ Unstamped = 0 /\ Unstamped' = 1 /\ pc' # "count"
    BY <1>2 DEF Receive, Unstamped
  <2> QED BY <1>0, <2>1 DEF Stamped
<1>3. CASE Stamp
  <2>1. /\ pc = "stamp" /\ UNCHANGED <<req_pkt_counter, received, drained_flag>>
        /\ rx_timestamps' = [rx_timestamps EXCEPT ![req_pkt_counter] =
                               IF drained_flag THEN 0 ELSE received]
    BY <1>3 DEF Stamp
  <2>2. \A i \in 0 .. req_pkt_counter - 1 : rx_timestamps'[i] = i + 1
    BY <1>0, <2>1
  <2>3. CASE drained_flag
    <3>1. pc' \in {"wait", "recv"}
      BY <1>3, <2>3 DEF Stamp, NextSocket
    <3>2. Unstamped = 0 /\ Unstamped' = 0 /\ pc' # "count"
      BY <2>1, <2>3, <3>1 DEF Unstamped
    <3> QED BY <1>0, <2>1, <2>2, <3>2 DEF Stamped
  <2>4. CASE ~drained_flag
    <3>1. pc' = "count"
      BY <1>3, <2>4 DEF Stamp
    <3>2. Unstamped = 1 /\ Unstamped' = 1
      BY <2>1, <2>4, <3>1 DEF Unstamped
    <3>3. rx_timestamps'[req_pkt_counter] = received
      BY <1>0, <2>1, <2>4
    <3> QED BY <1>0, <2>1, <2>2, <3>2, <3>3 DEF Stamped
  <2> QED BY <2>3, <2>4
<1>4. CASE Count
  <2>1. /\ pc = "count" /\ pc' = "send" /\ req_pkt_counter' = req_pkt_counter + 1
        /\ UNCHANGED <<rx_timestamps, received>>
    BY <1>4 DEF Count
  <2>2. Unstamped = 1 /\ Unstamped' = 0
    BY <2>1 DEF Unstamped
  <2>3. \A i \in 0 .. req_pkt_counter : rx_timestamps[i] = i + 1
    BY <1>0, <2>1
  <2> QED BY <1>0, <2>1, <2>2, <2>3 DEF Stamped
<1> QED BY <1>1, <1>2, <1>3, <1>4 DEF Loop

(* Other steps take none of the times stamped and receive nothing.         *)
LEMMA SendKeeps ==
  ASSUME ServerInv, Replies \/ Fails
  PROVE  ServerInv'
<1>1. /\ pc = "send" /\ pc' = "recv"
      /\ UNCHANGED <<arrived, sock, armed, todo, cur, drained_flag, request, req_pkt_counter,
                     rx_timestamps, received, handling, phase, rxts_fp, written, freed, exit>>
      /\ Sent \/ NotSent
  BY DEF Replies, Fails, AfterSend, handler
<1>2. replies' \in [Requests -> Nat] /\ refused' \in 0 .. MaxRefused
  <2>1. replies \in [Requests -> Nat] /\ refused \in 0 .. MaxRefused /\ MaxRefused \in Nat
    BY RedirectionAssumption DEF ServerInv, ServerOK, SocketsOK
  <2>2. [replies EXCEPT ![request] = @ + 1] \in [Requests -> Nat]
    BY <2>1, CountUp
  <2>3. CASE Sent
    BY <2>1, <2>2, <2>3 DEF Sent, ReplyTo
  <2>4. CASE NotSent
    BY <2>1, <2>4 DEF NotSent
  <2> QED BY <1>1, <2>3, <2>4
<1>3. ServerOK' /\ Ordered'
  BY <1>1, <1>2 DEF ServerInv, ServerOK, SocketsOK, Ordered, Gone
<1>4. Unstamped = 0 /\ Unstamped' = 0 /\ ~InHand'
  BY <1>1 DEF Unstamped, InHand
<1> QED BY <1>1, <1>3, <1>4 DEF ServerInv, Stamped

(* What is appended to a sequence of times.                                *)
LEMMA Joined ==
  ASSUME NEW S, NEW s \in Seq(S), NEW t \in Seq(S)
  PROVE  s \o t \in Seq(S) /\ << >> \o t = t
OBVIOUS

(* A signal and its handler leave loop and times as they are.              *)
LEMMA SignalKeeps ==
  ASSUME ServerInv, Signal \/ (handling # {} /\ Handler)
  PROVE  ServerInv'
<1>1. UNCHANGED <<kernel, loop, stamps>>
  BY DEF Signal, Handler, Dump, Close, Free, Kill, Crash
<1>2. /\ UNCHANGED <<arrived, sock, armed, replies>>
      /\ UNCHANGED <<pc, todo, cur, drained_flag, request>>
      /\ UNCHANGED <<req_pkt_counter, rx_timestamps, received, refused>>
  BY <1>1 DEF kernel, loop, stamps
<1>3. /\ handling' \subseteq Signals /\ phase' \in {"dump", "close", "free", "kill"}
      /\ rxts_fp' \in {"none", "open", "closed"} /\ exit' \in {"no", "killed", "crashed"}
  BY DEF ServerInv, ServerOK, Signal, Handler, Dump, Close, Free, Kill, Crash
<1>4. freed' \in BOOLEAN
  BY DEF ServerInv, ServerOK, Signal, Handler, Dump, Close, Free, Kill, Crash
<1>5. written' \in Seq(0 .. MaxStamps)
  <2>1. written \in Seq(0 .. MaxStamps) /\ Dumped \in Seq(0 .. MaxStamps)
    BY DumpedIs DEF ServerInv, ServerOK
  <2>2. written' = written \/ written' = written \o Dumped
    BY DEF Signal, Handler, Dump, Close, Free, Kill, Crash
  <2>3. written \o Dumped \in Seq(0 .. MaxStamps)
    BY <2>1, Joined
  <2> QED BY <2>1, <2>2, <2>3
<1>6. ServerOK'
  BY <1>2, <1>3, <1>4, <1>5 DEF ServerInv, ServerOK, SocketsOK
<1> QED BY <1>2, <1>6 DEF ServerInv, Ordered, Gone, Stamped, Unstamped, InHand

(* An arrival changes the sockets only.                                    *)
LEMMA ArriveKeeps ==
  ASSUME ServerInv, NEW c \in Sockets, Arrive(c), UNCHANGED server
  PROVE  ServerInv'
<1>1. /\ UNCHANGED <<pc, todo, cur, drained_flag, request>>
      /\ UNCHANGED <<req_pkt_counter, rx_timestamps, received, refused>>
      /\ UNCHANGED <<handling, phase, rxts_fp, written, freed, exit>>
  BY DEF server, loop, stamps, handler
<1>2. SocketsOK' /\ Ordered'
  BY ArriveOrdered DEF ServerInv, ServerOK
<1> QED BY <1>1, <1>2 DEF ServerInv, ServerOK, Stamped, Unstamped, InHand

(* The loop does not go on once a signal has come.                         *)
LEMMA LoopDumps ==
  ASSUME OneDump, Loop \/ Replies \/ Fails
  PROVE  OneDump'
<1>1. handling = {} /\ handling' = {} /\ UNCHANGED <<phase, exit, written>>
  BY DEF Loop, Replies, Fails, Running, OpenFile, EpollWait, Receive, Drained, Stamp, Count,
         AfterSend, handler
<1>2. /\ phase = "dump" /\ exit = "no" /\ written = << >>
      /\ rxts_fp = IF pc = "start" THEN "none" ELSE "open"
  BY <1>1 DEF OneDump, AtMostOne
<1>3. rxts_fp' = IF pc' = "start" THEN "none" ELSE "open"
  <2>1. CASE OpenFile
    BY <2>1 DEF OpenFile
  <2>2. CASE EpollWait \/ Receive \/ Drained \/ Count \/ Replies \/ Fails
    BY <1>2, <2>2 DEF EpollWait, Receive, Drained, Count, Replies, Fails, AfterSend, handler
  <2>3. CASE Stamp
    BY <1>2, <2>3 DEF Stamp, NextSocket, handler
  <2> QED BY <2>1, <2>2, <2>3 DEF Loop
<1> QED BY <1>1, <1>2, <1>3 DEF OneDump, AtMostOne

(* The first signal finds nothing written; the handler writes once.        *)
LEMMA SignalDumps ==
  ASSUME ServerInv, OneDump, Signal \/ (handling # {} /\ Handler)
  PROVE  OneDump'
<1>1. UNCHANGED <<kernel, loop, stamps>>
  BY DEF Signal, Handler, Dump, Close, Free, Kill, Crash
<1>2. pc' = pc /\ Dumped' = Dumped
  BY <1>1 DEF loop, stamps, Dumped
<1>3. CASE Signal
  <2>1. PICK s \in Signals \ handling :
          /\ handling' = handling \cup {s} /\ phase' = "dump" /\ exit = "no"
          /\ UNCHANGED <<rxts_fp, written, freed, exit>>
    BY <1>3 DEF Signal
  <2>2. handling' # {}
    BY <2>1
  <2>3. ASSUME AtMostOne' PROVE handling = {}
    BY <2>1, <2>3 DEF AtMostOne
  <2>4. ASSUME handling = {}
        PROVE  /\ rxts_fp = IF pc = "start" THEN "none" ELSE "open"
               /\ written = << >> /\ exit = "no"
    BY <2>4 DEF OneDump, AtMostOne
  <2> QED BY <1>2, <2>1, <2>2, <2>3, <2>4 DEF OneDump
<1>4. CASE handling # {} /\ Handler
  <2>1. handling' = handling /\ handling # {} /\ AtMostOne' = AtMostOne
    BY <1>4 DEF Handler, Dump, Close, Free, Kill, Crash, AtMostOne
  <2>2. SUFFICES ASSUME AtMostOne
        PROVE  /\ phase' \in {"dump", "close"} => rxts_fp' = IF pc = "start" THEN "none" ELSE "open"
               /\ phase' = "dump" => written' = << >>
               /\ phase' # "dump" /\ pc # "start" => written' = Dumped
               /\ phase' \in {"free", "kill"} => pc # "start"
               /\ exit' = "killed" => phase' = "kill"
    BY <1>2, <2>1 DEF OneDump
  <2>3. /\ phase \in {"dump", "close"} => rxts_fp = IF pc = "start" THEN "none" ELSE "open"
        /\ phase = "dump" => written = << >>
        /\ phase # "dump" /\ pc # "start" => written = Dumped
        /\ phase \in {"free", "kill"} => pc # "start"
    BY <2>2 DEF OneDump
  <2> HIDE DEF Dumped
  <2>4. CASE Crash
    BY <2>3, <2>4 DEF Crash
  <2>5. CASE Dump /\ ~Crash
    <3>1. /\ phase = "dump" /\ phase' = "close" /\ UNCHANGED <<rxts_fp, exit>> /\ exit = "no"
          /\ written' = IF rxts_fp = "open" THEN written \o Dumped ELSE written
      BY <2>5 DEF Dump, Handles
    <3>2. << >> \o Dumped = Dumped
      BY DumpedIs DEF ServerInv
    <3> QED BY <2>3, <3>1, <3>2
  <2>6. CASE Close /\ ~Crash
    BY <2>3, <2>6 DEF Close, Handles
  <2>7. CASE Free /\ ~Crash
    BY <2>3, <2>7 DEF Free, Handles
  <2>8. CASE Kill
    BY <2>3, <2>8 DEF Kill, Handles
  <2> QED BY <1>4, <2>4, <2>5, <2>6, <2>7, <2>8 DEF Handler
<1> QED BY <1>3, <1>4

-----------------------------------------------------------------------------
(* The client.  Connection and socket are of the same port.                *)
LEMMA ConnsAreSockets == Conns = Sockets /\ conn_perthread \in Nat \ {0}
BY TestbedAssumption, SocketsAssumption DEF Conns, Sockets

(* There is a replica.                                                     *)
LEMMA FirstReplica == recv_ip_addr \in Replicas
BY ReplicaAssumption DEF recv_ip_addr, Replicas, Range

(* What is looked up is the switch of some line, or none.                  *)
LEMMA LookupType == \A host : map_lookup(host) \in Switches \cup {Nowhere}
<1> SUFFICES ASSUME NEW host PROVE map_lookup(host) \in Switches \cup {Nowhere}
  OBVIOUS
<1>1. PICK g : Inserts(g) /\ routing_map = g[Lines]
  BY InsertsFcn
<1>2. CASE host \in DOMAIN routing_map
  <2>1. PICK i \in Lines : routing_map[host] = RoutingTable[i][2]
    BY <1>1, <1>2, InsertsFirst
  <2> QED BY <1>2, <2>1 DEF map_lookup, Switches, Lines
<1>3. CASE host \notin DOMAIN routing_map
  BY <1>3 DEF map_lookup
<1> QED BY <1>2, <1>3

(* Connections are used in turn.                                           *)
LEMMA NextConn ==
  ASSUME NEW n \in Nat \ {0}, NEW i \in 1 .. n
  PROVE  (i % n) + 1 \in 1 .. n
OBVIOUS

(* A direct client goes on with the server's address; so does a connection *)
(* of one that does not choose, from the first reply it reads.             *)
AddressInv ==
  /\ is_direct_to_server => \A c \in Conns : server_addr[c] = recv_ip_addr
  /\ ~is_direct_to_server /\ ~is_random_selection
       => \A c \in Conns : server_addr[c] = IF c \in heard THEN recv_ip_addr
                                            ELSE map_lookup(recv_ip_addr)

ClientInv == ClientOK /\ AddressInv

(* A client that has just started knows the address of the table.          *)
LEMMA InitClientInv == InitClient => ClientInv
<1> SUFFICES ASSUME InitClient PROVE ClientInv
  OBVIOUS
<1>1. /\ is_direct_to_server \in BOOLEAN /\ is_random_selection \in BOOLEAN
      /\ edge \in [Conns -> BOOLEAN]
  BY DEF InitClient
<1>2. /\ server_addr \in [Conns -> Replicas \cup Switches \cup {Nowhere}]
      /\ alt_dst_ip \in [Conns -> Replicas] /\ heard \subseteq Conns /\ AddressInv
  BY FirstReplica, LookupType DEF InitClient, AddressInv
<1>3. /\ 1 \in Conns /\ 0 \in 0 .. ToSend
  BY ConnsAreSockets, SocketsInNat, ClientAssumption
<1>4. inbox \in [Conns -> Nat]
  BY DEF InitClient
<1> QED BY <1>1, <1>2, <1>3, <1>4 DEF InitClient, ClientInv, ClientOK

(* A request is sent where its connection's address says, which is written *)
(* on the way: with what it was, but by a client that chooses.             *)
LEMMA SendSteps ==
  ASSUME ClientInv, NEW r \in Targets, SendRequest(r)
  PROVE  /\ ClientInv' /\ send_conn_id \in Conns
         /\ sent_req' = sent_req + 1 /\ UNCHANGED <<completed_req, inbox>>
         /\ server_addr'[send_conn_id] = Address(r) /\ alt_dst_ip'[send_conn_id] = r
<1>1. /\ UNCHANGED <<is_direct_to_server, is_random_selection, heard, cpc, completed_req, reported,
                     conn_index, inbox, edge>>
      /\ sent_req < ToSend /\ sent_req' = sent_req + 1
      /\ server_addr' = [server_addr EXCEPT ![send_conn_id] = Address(r)]
      /\ alt_dst_ip' = [alt_dst_ip EXCEPT ![send_conn_id] = r]
      /\ send_conn_id' = (send_conn_id % conn_perthread) + 1
  BY DEF SendRequest, modes, mailbox
<1>2. send_conn_id \in Conns /\ sent_req \in 0 .. ToSend /\ ToSend \in Nat
      /\ server_addr \in [Conns -> Replicas \cup Switches \cup {Nowhere}]
      /\ alt_dst_ip \in [Conns -> Replicas]
  BY ClientAssumption DEF ClientInv, ClientOK
<1>3. send_conn_id' \in Conns
  BY <1>1, <1>2, NextConn, ConnsAreSockets DEF Conns
<1>4. sent_req' \in 0 .. ToSend
  BY <1>1, <1>2
<1>5. Address(r) \in Replicas \cup Switches \cup {Nowhere}
  BY <1>2, LookupType DEF Address
<1>6. /\ server_addr' \in [Conns -> Replicas \cup Switches \cup {Nowhere}]
      /\ alt_dst_ip' \in [Conns -> Replicas]
  BY <1>1, <1>2, <1>5 DEF Targets
<1>7. ClientOK'
  BY <1>1, <1>3, <1>4, <1>6 DEF ClientInv, ClientOK
<1>8. AddressInv'
  BY <1>1, <1>2 DEF ClientInv, AddressInv, Address, Selects
<1> QED BY <1>1, <1>2, <1>7, <1>8 DEF ClientInv

(* After a socket that was found empty comes another, or the loop.         *)
LEMMA NextEventIs ==
  ASSUME ClientOK, cpc = "recv", NextEvent
  PROVE  /\ reported' \subseteq Conns /\ conn_index' \in Conns /\ cpc' \in {"recv", "loop"}
         /\ cpc' = "recv" => conn_index' \in reported'
BY DEF ClientOK, NextEvent

(* Replies are counted one by one.                                         *)
LEMMA CountsSteps ==
  ASSUME ClientInv, Counts
  PROVE  /\ ClientInv' /\ UNCHANGED sent_req
         /\ \/ UNCHANGED <<inbox, completed_req>>
            \/ /\ conn_index \in Conns /\ inbox[conn_index] > 0
               /\ inbox' = [inbox EXCEPT ![conn_index] = @ - 1]
               /\ completed_req' = completed_req + 1
<1>0. ClientOK /\ AddressInv
  BY DEF ClientInv
<1>1. CASE Poll
  <2>1. /\ UNCHANGED <<is_direct_to_server, is_random_selection, addresses, send_conn_id,
                       sent_req, completed_req, inbox>>
        /\ cpc = "loop" /\ reported' \subseteq Conns
        /\ \/ UNCHANGED <<cpc, conn_index>>
           \/ cpc' = "recv" /\ conn_index' \in reported'
    BY <1>1 DEF Poll, modes, Reported
  <2>2. edge' \in [Conns -> BOOLEAN]
    BY <1>1 DEF Poll
  <2>3. ClientOK'
    BY <1>0, <2>1, <2>2 DEF ClientOK, addresses
  <2> QED BY <1>0, <2>1, <2>3 DEF ClientInv, AddressInv, addresses
<1>2. CASE ReceiveReply
  <2>1. /\ UNCHANGED <<is_direct_to_server, is_random_selection, alt_dst_ip, cpc, send_conn_id, sent_req,
                       reported, conn_index, edge>>
        /\ inbox[conn_index] > 0 /\ inbox' = [inbox EXCEPT ![conn_index] = @ - 1]
        /\ completed_req' = completed_req + 1 /\ heard' = heard \cup {conn_index}
    BY <1>2 DEF ReceiveReply, TakeReply, modes
  <2>2. PICK a \in Senders : server_addr' = [server_addr EXCEPT ![conn_index] = a]
    BY <1>2 DEF ReceiveReply, TakeReply
  <2>3. /\ conn_index \in Conns /\ inbox \in [Conns -> Nat] /\ completed_req \in Nat
        /\ server_addr \in [Conns -> Replicas \cup Switches \cup {Nowhere}]
    BY <1>0 DEF ClientOK
  <2>4. a \in Replicas /\ (~Selects => a = recv_ip_addr)
    BY FirstReplica DEF Senders
  <2>5. inbox' \in [Conns -> Nat] /\ completed_req' \in Nat
    BY <2>1, <2>3
  <2>6. server_addr' \in [Conns -> Replicas \cup Switches \cup {Nowhere}]
    BY <2>2, <2>3, <2>4
  <2>7. ClientOK'
    BY <1>0, <2>1, <2>3, <2>5, <2>6 DEF ClientOK
  <2>8. AddressInv'
    BY <1>0, <2>1, <2>2, <2>3, <2>4, <2>5 DEF AddressInv, Selects
  <2> QED BY <2>1, <2>3, <2>7, <2>8 DEF ClientInv
<1>3. CASE SocketDrained
  <2>1. /\ UNCHANGED <<is_direct_to_server, is_random_selection, addresses, send_conn_id,
                       sent_req, completed_req, inbox, edge>>
        /\ cpc = "recv" /\ NextEvent
    BY <1>3 DEF SocketDrained, modes, mailbox
  <2>2. ClientOK'
    BY <1>0, <2>1, NextEventIs DEF ClientOK, addresses
  <2> QED BY <1>0, <2>1, <2>2 DEF ClientInv, AddressInv, addresses
<1>4. CASE Finish
  BY <1>0, <1>4 DEF Finish, modes, addresses, mailbox, ClientInv, ClientOK, AddressInv
<1> QED BY <1>1, <1>2, <1>3, <1>4 DEF Counts

(* A reply that comes is one more in its connection's socket.              *)
LEMMA ComesSteps ==
  ASSUME ClientInv, NEW c \in Sockets, Comes(c)
  PROVE  /\ ClientInv' /\ UNCHANGED <<sent_req, completed_req>>
         /\ inbox' = [inbox EXCEPT ![c] = @ + 1]
<1>1. /\ UNCHANGED <<is_direct_to_server, is_random_selection, addresses, cpc, send_conn_id,
                     sent_req, completed_req, reported, conn_index>>
      /\ inbox' = [inbox EXCEPT ![c] = @ + 1] /\ edge' = [edge EXCEPT ![c] = TRUE]
  BY DEF Comes, modes, thread
<1>2. inbox \in [Conns -> Nat] /\ edge \in [Conns -> BOOLEAN]
  BY DEF ClientInv, ClientOK
<1>3. inbox' \in [Conns -> Nat]
  BY <1>1, <1>2, CountUp
<1>4. edge' \in [Conns -> BOOLEAN]
  BY <1>1, <1>2
<1>5. ClientOK'
  BY <1>1, <1>3, <1>4 DEF ClientInv, ClientOK, addresses
<1> QED BY <1>1, <1>5 DEF ClientInv, AddressInv, addresses

-----------------------------------------------------------------------------
(* The testbed: where the requests are.                                    *)
LEMMA SocketsFinite == IsFiniteSet(Sockets)
<1>1. NumSockets \in Int /\ IsFiniteSet(1 .. NumSockets)
  BY SocketsAssumption, FS_Interval
<1> QED BY <1>1 DEF Sockets

(* One more and one less at a socket.                                      *)
LEMMA TotalSteps ==
  ASSUME NEW g \in [Sockets -> Nat], NEW c \in Sockets
  PROVE  /\ Total(g) \in Nat
         /\ [g EXCEPT ![c] = @ + 1] \in [Sockets -> Nat]
         /\ Total([g EXCEPT ![c] = @ + 1]) = Total(g) + 1
         /\ g[c] > 0 => /\ [g EXCEPT ![c] = @ - 1] \in [Sockets -> Nat]
                        /\ Total([g EXCEPT ![c] = @ - 1]) = Total(g) - 1
<1>1. g[c] \in Nat
  OBVIOUS
<1>2. ASSUME NEW v \in Nat
      PROVE  /\ Total(g) \in Nat /\ [g EXCEPT ![c] = v] \in [Sockets -> Nat]
             /\ Total([g EXCEPT ![c] = v]) = Total(g) - g[c] + v
  BY SocketsFinite, SumChange DEF Total
<1>3. /\ [g EXCEPT ![c] = @ + 1] = [g EXCEPT ![c] = g[c] + 1]
      /\ [g EXCEPT ![c] = @ - 1] = [g EXCEPT ![c] = g[c] - 1]
  OBVIOUS
<1>4. g[c] + 1 \in Nat /\ (g[c] > 0 => g[c] - 1 \in Nat)
  BY <1>1
<1>5. /\ Total(g) \in Nat /\ [g EXCEPT ![c] = g[c] + 1] \in [Sockets -> Nat]
      /\ Total([g EXCEPT ![c] = g[c] + 1]) = Total(g) - g[c] + (g[c] + 1)
  BY <1>2, <1>4
<1>6. g[c] > 0 => /\ [g EXCEPT ![c] = g[c] - 1] \in [Sockets -> Nat]
                  /\ Total([g EXCEPT ![c] = g[c] - 1]) = Total(g) - g[c] + (g[c] - 1)
  BY <1>2, <1>4
<1> HIDE DEF Total
<1> QED BY <1>1, <1>3, <1>5, <1>6

Buffered == [f \in Sockets |-> Len(sock[f])]

(* A receive takes one request of a socket, an arrival brings one.         *)
LEMMA BufferedSteps ==
  ASSUME SocketsOK, Ordered, NEW c \in Sockets
  PROVE  /\ Buffered \in [Sockets -> Nat]
         /\ sock[c] # << >> /\ TakeFirst(c) /\ UNCHANGED arrived =>
              Buffered[c] > 0 /\ Buffered' = [Buffered EXCEPT ![c] = @ - 1]
         /\ Arrive(c) => Buffered' = [Buffered EXCEPT ![c] = @ + 1]
<1>1. Buffered \in [Sockets -> Nat]
  BY LenInNat DEF Buffered
<1>2. ASSUME sock[c] # << >>, TakeFirst(c), UNCHANGED arrived
      PROVE  Buffered[c] > 0 /\ Buffered' = [Buffered EXCEPT ![c] = @ - 1]
  <2>1. /\ Len(sock[c]) > 0 /\ Len(sock'[c]) = Len(sock[c]) - 1
        /\ \A f \in Sockets : f # c => sock'[f] = sock[f]
    BY <1>2, TakeOrdered
  <2>2. ASSUME NEW f \in Sockets
        PROVE  Len(sock'[f]) = IF f = c THEN Len(sock[c]) - 1 ELSE Len(sock[f])
    BY <2>1
  <2> QED BY <2>1, <2>2 DEF Buffered
<1>3. ASSUME Arrive(c) PROVE Buffered' = [Buffered EXCEPT ![c] = @ + 1]
  <2>1. /\ Len(sock'[c]) = Len(sock[c]) + 1
        /\ \A f \in Sockets : f # c => sock'[f] = sock[f]
    BY <1>3, ArriveOrdered
  <2>2. ASSUME NEW f \in Sockets
        PROVE  Len(sock'[f]) = IF f = c THEN Len(sock[c]) + 1 ELSE Len(sock[f])
    BY <2>1
  <2> QED BY <2>2 DEF Buffered
<1> QED BY <1>1, <1>2, <1>3

InHands == IF InHand THEN 1 ELSE 0

NetworkOK ==
  up \in [Sockets -> Nat] /\ down \in [Sockets -> Nat] /\ lost \in 0 .. MaxLoss
  /\ astray \in 0 .. ToSend

(* What the server has received the client has sent, and it was not sent   *)
(* to nobody.                                                              *)
SentBefore == received + Total(up) + Total(Buffered) + astray <= sent_req

TestbedInv ==
  ServerInv /\ OneDump /\ ClientInv /\ NetworkOK /\ SentBefore /\ EachInOnePlace

(* The counts are numbers, none above what the client has to send.         *)
LEMMA PlacesInNat ==
  ASSUME ServerOK, ClientOK, NetworkOK
  PROVE  /\ Total(up) \in Nat /\ Total(Buffered) \in Nat /\ Total(down) \in Nat
         /\ Total(inbox) \in Nat
         /\ sent_req \in Nat /\ sent_req <= ToSend /\ ToSend \in Nat /\ completed_req \in Nat
         /\ refused \in Nat /\ lost \in Nat /\ astray \in Nat /\ received \in Nat
         /\ InHands \in Nat
         /\ Buffered \in [Sockets -> Nat] /\ inbox \in [Sockets -> Nat]
<1>1. SocketsOK /\ 1 \in Sockets
  BY SocketsInNat DEF ServerOK
<1>2. Buffered \in [Sockets -> Nat]
  BY <1>1, LenInNat DEF Buffered
<1>3. inbox \in [Sockets -> Nat]
  BY ConnsAreSockets DEF ClientOK
<1>4. /\ Total(up) \in Nat /\ Total(Buffered) \in Nat /\ Total(down) \in Nat
      /\ Total(inbox) \in Nat
  BY <1>1, <1>2, <1>3, TotalSteps DEF NetworkOK
<1>5. /\ sent_req \in 0 .. ToSend /\ ToSend \in Nat /\ completed_req \in Nat
      /\ refused \in 0 .. MaxRefused /\ MaxRefused \in Nat
      /\ lost \in 0 .. MaxLoss /\ MaxLoss \in Nat
      /\ astray \in 0 .. ToSend /\ received \in 0 .. MaxStamps /\ MaxStamps \in Nat
  BY ClientAssumption, RedirectionAssumption, TestbedAssumption, StampsInNat
     DEF ServerOK, ClientOK, NetworkOK
<1>6. InHands \in Nat
  BY DEF InHands
<1> QED BY <1>2, <1>3, <1>4, <1>5, <1>6

(* The client sends no more than there is room to stamp.                   *)
LEMMA RoomToStamp == ToSend <= MaxStamps
<1>1. /\ NumSockets \in Nat /\ NumSockets >= 1 /\ MaxRequests \in Nat /\ ToSend <= MaxRequests
      /\ ToSend \in Nat
  BY SocketsAssumption, TestbedAssumption, ClientAssumption
<1>2. MaxRequests <= NumSockets * MaxRequests
  BY <1>1
<1> QED BY <1>1, <1>2, StampsInNat DEF MaxStamps

(* EachInOnePlace in the terms used here.                                  *)
LEMMA PlacesIs ==
  EachInOnePlace <=>
    sent_req = completed_req + Total(up) + Total(Buffered) + InHands + Total(down)
               + Total(inbox) + refused + lost + astray
BY DEF EachInOnePlace, Buffered, InHands

(* Nothing is anywhere at first.                                           *)
LEMMA InitTestbedInv == Init => TestbedInv
<1> SUFFICES ASSUME Init PROVE TestbedInv
  OBVIOUS
<1>1. ServerInv /\ OneDump /\ ClientInv
  BY InitServerInv, InitClientInv DEF Init
<1>2. NetworkOK
  BY TestbedAssumption, ClientAssumption DEF Init, NetworkOK
<1>3. /\ up = [f \in Sockets |-> 0] /\ down = [f \in Sockets |-> 0]
      /\ inbox = [f \in Sockets |-> 0] /\ Buffered = [f \in Sockets |-> 0]
      /\ sent_req = 0 /\ completed_req = 0 /\ refused = 0 /\ lost = 0 /\ astray = 0
      /\ received = 0 /\ InHands = 0
  BY ConnsAreSockets
     DEF Init, InitServer, InitSockets, InitClient, Buffered, InHands, InHand
<1>4. /\ Total(up) = 0 /\ Total(down) = 0 /\ Total(inbox) = 0 /\ Total(Buffered) = 0
  BY <1>3, SocketsFinite, SumZero DEF Total
<1>5. SentBefore
  BY <1>3, <1>4 DEF SentBefore
<1>6. EachInOnePlace
  BY <1>3, <1>4, PlacesIs
<1> QED BY <1>1, <1>2, <1>5, <1>6 DEF TestbedInv

(* The same of the next state.                                             *)
LEMMA PlacesIsNext ==
  EachInOnePlace' <=>
    sent_req' = completed_req' + Total(up') + Total(Buffered') + InHands' + Total(down')
                + Total(inbox') + refused' + lost' + astray'
BY DEF EachInOnePlace, Buffered, InHands

(* The counts that the two invariants relate.                              *)
LEMMA PlacesOf ==
  ASSUME TestbedInv
  PROVE  /\ Total(up) \in Nat /\ Total(Buffered) \in Nat /\ Total(down) \in Nat
         /\ Total(inbox) \in Nat /\ sent_req \in Nat /\ completed_req \in Nat
         /\ refused \in Nat /\ lost \in Nat /\ astray \in Nat /\ received \in Nat
         /\ InHands \in Nat /\ sent_req <= ToSend /\ ToSend \in Nat
         /\ Buffered \in [Sockets -> Nat] /\ inbox \in [Sockets -> Nat]
         /\ up \in [Sockets -> Nat] /\ down \in [Sockets -> Nat]
         /\ received + Total(up) + Total(Buffered) + astray <= sent_req
         /\ sent_req = completed_req + Total(up) + Total(Buffered) + InHands + Total(down)
                       + Total(inbox) + refused + lost + astray
<1>1. ServerOK /\ ClientOK /\ NetworkOK /\ SentBefore /\ EachInOnePlace
  BY DEF TestbedInv, ServerInv, ClientInv
<1> QED BY <1>1, PlacesInNat, PlacesIs DEF SentBefore, NetworkOK

(* A step that leaves the client alone.                                    *)
LEMMA ClientStays ==
  ASSUME UNCHANGED client, ClientInv
  PROVE  ClientInv' /\ UNCHANGED <<sent_req, completed_req, inbox>>
BY DEF client, modes, addresses, thread, mailbox, ClientInv, ClientOK, AddressInv

(* A step that leaves the server alone.                                    *)
LEMMA ServerStays ==
  ASSUME UNCHANGED <<kernel, server>>, ServerInv, OneDump
  PROVE  ServerInv' /\ OneDump' /\ UNCHANGED <<Buffered, InHands, received, refused>>
<1>1. /\ UNCHANGED <<arrived, sock, armed, replies>>
      /\ UNCHANGED <<pc, todo, cur, drained_flag, request>>
      /\ UNCHANGED <<req_pkt_counter, rx_timestamps, received, refused>>
      /\ UNCHANGED <<handling, phase, rxts_fp, written, freed, exit>>
  BY DEF kernel, server, loop, stamps, handler
<1>2. ServerInv'
  BY <1>1 DEF ServerInv, ServerOK, SocketsOK, Ordered, Gone, Stamped, Unstamped, InHand
<1>3. OneDump'
  <2>1. Dumped' = Dumped
    BY <1>1 DEF Dumped
  <2> QED BY <1>1, <2>1 DEF OneDump, AtMostOne
<1> QED BY <1>1, <1>2, <1>3 DEF Buffered, InHands, InHand

(* What a step of the server's loop moves.                                 *)
LEMMA LoopMoves ==
  ASSUME ServerInv, Loop
  PROVE  \/ ~Receive /\ UNCHANGED <<Buffered, InHands, received>>
         \/ /\ cur \in Sockets /\ Buffered[cur] > 0
            /\ Buffered' = [Buffered EXCEPT ![cur] = @ - 1]
            /\ InHands = 0 /\ InHands' = 1 /\ received' = received + 1
<1>0. SocketsOK /\ Ordered /\ cur \in Sockets
  BY DEF ServerInv, ServerOK
<1>1. CASE OpenFile \/ EpollWait \/ Drained \/ Count
  <2>1. UNCHANGED <<sock, received>>
    BY <1>1 DEF OpenFile, EpollWait, Drained, Count, kernel, stamps
  <2>2. (InHand' <=> InHand) /\ ~Receive
    BY <1>1 DEF OpenFile, EpollWait, Drained, Count, InHand, Receive
  <2> QED BY <2>1, <2>2 DEF Buffered, InHands
<1>2. CASE Receive
  <2>1. Buffered[cur] > 0 /\ Buffered' = [Buffered EXCEPT ![cur] = @ - 1]
    BY <1>0, <1>2, BufferedSteps DEF Receive
  <2>2. ~InHand /\ InHand' /\ received' = received + 1
    BY <1>2 DEF Receive, InHand
  <2> QED BY <1>0, <2>1, <2>2 DEF InHands
<1>3. CASE Stamp
  <2>1. UNCHANGED <<sock, received, drained_flag>> /\ pc = "stamp" /\ ~Receive
    BY <1>3 DEF Stamp, kernel, Receive
  <2>2. InHand' <=> InHand
    <3>1. CASE drained_flag
      <4>1. pc' \in {"wait", "recv"}
        BY <1>3, <3>1 DEF Stamp, NextSocket
      <4> QED BY <2>1, <3>1, <4>1 DEF InHand
    <3>2. CASE ~drained_flag
      BY <1>3, <3>2 DEF Stamp, InHand
    <3> QED BY <3>1, <3>2
  <2> QED BY <2>1, <2>2 DEF Buffered, InHands
<1> QED BY <1>1, <1>2, <1>3 DEF Loop

(* A receive moves a request from a socket to the server's hands.          *)
LEMMA NextServerActs == ASSUME TestbedInv, ServerActs PROVE TestbedInv'
<1>0. ServerInv /\ OneDump /\ ClientInv /\ NetworkOK
  BY DEF TestbedInv
<1>1. /\ ClientInv' /\ UNCHANGED <<sent_req, completed_req, inbox>>
      /\ UNCHANGED <<up, down, lost, astray>>
  BY <1>0, ClientStays DEF ServerActs, network
<1>2. NetworkOK'
  BY <1>0, <1>1 DEF NetworkOK
<1>3. CASE Loop
  <2>1. UNCHANGED refused
    BY <1>3 DEF Loop, OpenFile, EpollWait, Receive, Drained, Stamp, Count, stamps
  <2>2. CASE ~Receive /\ UNCHANGED <<Buffered, InHands, received>>
    <3>1. ServerInv' /\ OneDump'
      BY <1>0, <1>3, <2>2, LoopTypes, LoopStamps, LoopDumps DEF ServerInv
    <3>2. SentBefore' /\ EachInOnePlace'
      BY <1>1, <2>1, <2>2, PlacesOf, PlacesIsNext DEF SentBefore
    <3> QED BY <1>1, <1>2, <3>1, <3>2 DEF TestbedInv
  <2>3. CASE /\ cur \in Sockets /\ Buffered[cur] > 0
             /\ Buffered' = [Buffered EXCEPT ![cur] = @ - 1]
             /\ InHands = 0 /\ InHands' = 1 /\ received' = received + 1
    <3>1. Total(Buffered') = Total(Buffered) - 1 /\ Total(Buffered') \in Nat
      <4>1. Buffered' \in [Sockets -> Nat] /\ Total(Buffered') = Total(Buffered) - 1
        BY <2>3, PlacesOf, TotalSteps
      <4> QED BY <2>3, <4>1, TotalSteps
    <3>2. received < MaxStamps
      BY <3>1, PlacesOf, RoomToStamp, StampsInNat
    <3>3. ServerInv' /\ OneDump'
      BY <1>0, <1>3, <3>2, LoopTypes, LoopStamps, LoopDumps DEF ServerInv
    <3>4. SentBefore' /\ EachInOnePlace'
      BY <1>1, <2>1, <2>3, <3>1, PlacesOf, PlacesIsNext DEF SentBefore
    <3> QED BY <1>1, <1>2, <3>3, <3>4 DEF TestbedInv
  <2> QED BY <1>0, <1>3, <2>2, <2>3, LoopMoves
<1>4. CASE Fails
  <2>1. /\ UNCHANGED <<sock, received>> /\ refused' = refused + 1
        /\ pc = "send" /\ pc' = "recv"
    BY <1>4 DEF Fails, AfterSend, NotSent
  <2>2. UNCHANGED Buffered /\ InHands = 1 /\ InHands' = 0
    BY <2>1 DEF Buffered, InHands, InHand
  <2>3. ServerInv' /\ OneDump'
    BY <1>0, <1>4, SendKeeps, LoopDumps
  <2>4. SentBefore' /\ EachInOnePlace'
    BY <1>1, <2>1, <2>2, PlacesOf, PlacesIsNext DEF SentBefore
  <2> QED BY <1>1, <1>2, <2>3, <2>4 DEF TestbedInv
<1>5. CASE handling # {} /\ Handler
  <2>1. UNCHANGED <<kernel, loop, stamps>>
    BY <1>5 DEF Handler, Dump, Close, Free, Kill, Crash
  <2>2. UNCHANGED <<Buffered, InHands, received, refused>>
    BY <2>1 DEF kernel, loop, stamps, Buffered, InHands, InHand
  <2>3. ServerInv' /\ OneDump'
    BY <1>0, <1>5, SignalKeeps, SignalDumps
  <2>4. SentBefore' /\ EachInOnePlace'
    BY <1>1, <2>2, PlacesOf, PlacesIsNext DEF SentBefore
  <2> QED BY <1>1, <1>2, <2>3, <2>4 DEF TestbedInv
<1> QED BY <1>3, <1>4, <1>5 DEF ServerActs

(* A reply moves it from there to the network.                             *)
LEMMA NextServerReplies == ASSUME TestbedInv, ServerReplies PROVE TestbedInv'
<1>0. ServerInv /\ OneDump /\ ClientInv /\ NetworkOK /\ ServerOK
  BY DEF TestbedInv, ServerInv
<1>1. /\ ClientInv' /\ UNCHANGED <<sent_req, completed_req, inbox>>
      /\ UNCHANGED <<up, lost, astray>>
  BY <1>0, ClientStays DEF ServerReplies
<1>2. /\ UNCHANGED <<sock, received, refused>> /\ pc = "send" /\ pc' = "recv"
      /\ down' = [down EXCEPT ![request[1]] = @ + 1]
  BY DEF ServerReplies, Replies, AfterSend, Sent
<1>3. request[1] \in Sockets
  BY <1>0, <1>2 DEF ServerOK, Requests
<1>4. Total(down') = Total(down) + 1 /\ down' \in [Sockets -> Nat]
  BY <1>2, <1>3, PlacesOf, TotalSteps
<1>5. UNCHANGED Buffered /\ InHands = 1 /\ InHands' = 0
  BY <1>2 DEF Buffered, InHands, InHand
<1>6. ServerInv' /\ OneDump'
  BY <1>0, SendKeeps, LoopDumps DEF ServerReplies
<1>7. NetworkOK'
  BY <1>0, <1>1, <1>4 DEF NetworkOK
<1>8. SentBefore' /\ EachInOnePlace'
  BY <1>1, <1>2, <1>4, <1>5, PlacesOf, PlacesIsNext DEF SentBefore
<1> QED BY <1>1, <1>6, <1>7, <1>8 DEF TestbedInv

(* A signal moves nothing.                                                 *)
LEMMA NextSignalComes == ASSUME TestbedInv, SignalComes PROVE TestbedInv'
<1>0. ServerInv /\ OneDump /\ ClientInv /\ NetworkOK
  BY DEF TestbedInv
<1>1. /\ ClientInv' /\ UNCHANGED <<sent_req, completed_req, inbox>>
      /\ UNCHANGED <<up, down, lost, astray>>
  BY <1>0, ClientStays DEF SignalComes, network
<1>2. UNCHANGED <<kernel, loop, stamps>>
  BY DEF SignalComes, Signal
<1>3. UNCHANGED <<Buffered, InHands, received, refused>>
  BY <1>2 DEF kernel, loop, stamps, Buffered, InHands, InHand
<1>4. ServerInv' /\ OneDump'
  BY <1>0, SignalKeeps, SignalDumps DEF SignalComes
<1>5. NetworkOK' /\ SentBefore' /\ EachInOnePlace'
  BY <1>0, <1>1, <1>3, PlacesOf, PlacesIsNext DEF SentBefore, NetworkOK
<1> QED BY <1>1, <1>4, <1>5 DEF TestbedInv

(* A request sent is on its way up, answered elsewhere, or astray.         *)
LEMMA NextClientSends == ASSUME TestbedInv, ClientSends PROVE TestbedInv'
<1>0. ServerInv /\ OneDump /\ ClientInv /\ NetworkOK
  BY DEF TestbedInv
<1>1. PICK r \in Targets :
        LET c == send_conn_id
            nowhere == server_addr'[c] = Nowhere
            here == ~nowhere /\ alt_dst_ip'[c] = recv_ip_addr
        IN  /\ SendRequest(r)
            /\ up' = IF here THEN [up EXCEPT ![c] = @ + 1] ELSE up
            /\ down' = IF here \/ nowhere THEN down ELSE [down EXCEPT ![c] = @ + 1]
            /\ astray' = IF nowhere THEN astray + 1 ELSE astray
  BY DEF ClientSends
<1> DEFINE c == send_conn_id
<1>2. /\ ClientInv' /\ c \in Sockets /\ sent_req' = sent_req + 1
      /\ UNCHANGED <<completed_req, inbox>>
  BY <1>0, <1>1, SendSteps, ConnsAreSockets
<1>3. UNCHANGED lost /\ UNCHANGED <<kernel, server>>
  BY DEF ClientSends
<1>4. ServerInv' /\ OneDump' /\ UNCHANGED <<Buffered, InHands, received, refused>>
  BY <1>0, <1>3, ServerStays
<1>5. \/ up' = [up EXCEPT ![c] = @ + 1] /\ UNCHANGED <<down, astray>>
      \/ down' = [down EXCEPT ![c] = @ + 1] /\ UNCHANGED <<up, astray>>
      \/ astray' = astray + 1 /\ UNCHANGED <<up, down>>
  BY <1>1
<1> HIDE DEF c
<1>6. /\ [up EXCEPT ![c] = @ + 1] \in [Sockets -> Nat]
      /\ Total([up EXCEPT ![c] = @ + 1]) = Total(up) + 1
      /\ [down EXCEPT ![c] = @ + 1] \in [Sockets -> Nat]
      /\ Total([down EXCEPT ![c] = @ + 1]) = Total(down) + 1
  BY <1>2, PlacesOf, TotalSteps
<1>7. SentBefore' /\ EachInOnePlace'
  <2>1. \/ Total(up') = Total(up) + 1 /\ UNCHANGED <<down, astray>>
        \/ Total(down') = Total(down) + 1 /\ UNCHANGED <<up, astray>>
        \/ astray' = astray + 1 /\ UNCHANGED <<up, down>>
    BY <1>5, <1>6
  <2> QED BY <1>2, <1>3, <1>4, <2>1, PlacesOf, PlacesIsNext DEF SentBefore
<1>8. sent_req' <= ToSend /\ astray' \in Nat /\ astray' <= sent_req'
  <2>1. sent_req' <= ToSend
    BY <1>2, ClientAssumption DEF ClientInv, ClientOK
  <2>2. astray' \in Nat /\ astray' <= sent_req'
    BY <1>2, <1>5, PlacesOf
  <2> QED BY <2>1, <2>2
<1>9. NetworkOK'
  <2>1. astray' \in 0 .. ToSend
    BY <1>8, <1>2, PlacesOf
  <2> QED BY <1>0, <1>3, <1>5, <1>6, <2>1 DEF NetworkOK
<1> QED BY <1>2, <1>4, <1>7, <1>9 DEF TestbedInv

(* A reply that is read moves from a socket to the count.                  *)
LEMMA NextClientCounts == ASSUME TestbedInv, ClientCounts PROVE TestbedInv'
<1>0. ServerInv /\ OneDump /\ ClientInv /\ NetworkOK
  BY DEF TestbedInv
<1>1. /\ ServerInv' /\ OneDump' /\ UNCHANGED <<Buffered, InHands, received, refused>>
      /\ UNCHANGED <<up, down, lost, astray>>
  BY <1>0, ServerStays DEF ClientCounts, network
<1>2. /\ ClientInv' /\ UNCHANGED sent_req
      /\ \/ UNCHANGED <<inbox, completed_req>>
         \/ /\ conn_index \in Sockets /\ inbox[conn_index] > 0
            /\ inbox' = [inbox EXCEPT ![conn_index] = @ - 1]
            /\ completed_req' = completed_req + 1
  BY <1>0, CountsSteps, ConnsAreSockets DEF ClientCounts
<1>3. \/ UNCHANGED <<inbox, completed_req>>
      \/ Total(inbox') = Total(inbox) - 1 /\ completed_req' = completed_req + 1
  <2>1. ASSUME conn_index \in Sockets, inbox[conn_index] > 0
        PROVE  Total([inbox EXCEPT ![conn_index] = @ - 1]) = Total(inbox) - 1
    BY <2>1, PlacesOf, TotalSteps
  <2> QED BY <1>2, <2>1
<1>4. NetworkOK' /\ SentBefore' /\ EachInOnePlace'
  BY <1>0, <1>1, <1>2, <1>3, PlacesOf, PlacesIsNext DEF SentBefore, NetworkOK
<1> QED BY <1>1, <1>2, <1>4 DEF TestbedInv

(* A request that arrives moves from the network to a socket.              *)
LEMMA NextRequestArrives ==
  ASSUME TestbedInv, NEW c \in Sockets, RequestArrives(c)
  PROVE  TestbedInv'
<1>0. ServerInv /\ OneDump /\ ClientInv /\ NetworkOK /\ SocketsOK /\ Ordered
  BY DEF TestbedInv, ServerInv, ServerOK
<1>1. /\ ClientInv' /\ UNCHANGED <<sent_req, completed_req, inbox>>
      /\ UNCHANGED <<down, lost, astray>>
  BY <1>0, ClientStays DEF RequestArrives
<1>2. up[c] > 0 /\ up' = [up EXCEPT ![c] = @ - 1] /\ Arrive(c) /\ UNCHANGED server
  BY DEF RequestArrives
<1>3. UNCHANGED <<pc, drained_flag, received, refused>> /\ UNCHANGED <<handling, phase, exit>>
      /\ UNCHANGED <<req_pkt_counter, rx_timestamps, written, rxts_fp>>
  BY <1>2 DEF server, loop, stamps, handler
<1>4. ServerInv'
  BY <1>0, <1>2, ArriveKeeps
<1>5. OneDump'
  <2>1. Dumped' = Dumped
    BY <1>3 DEF Dumped
  <2> QED BY <1>0, <1>3, <2>1 DEF OneDump, AtMostOne
<1>6. UNCHANGED InHands
  BY <1>3 DEF InHands, InHand
<1>7. Total(Buffered') = Total(Buffered) + 1
  <2>1. Buffered' = [Buffered EXCEPT ![c] = @ + 1]
    BY <1>0, <1>2, BufferedSteps
  <2> QED BY <2>1, PlacesOf, TotalSteps
<1>8. Total(up') = Total(up) - 1 /\ up' \in [Sockets -> Nat]
  BY <1>2, PlacesOf, TotalSteps
<1>9. NetworkOK'
  BY <1>0, <1>1, <1>8 DEF NetworkOK
<1>10. SentBefore' /\ EachInOnePlace'
  BY <1>1, <1>3, <1>6, <1>7, <1>8, PlacesOf, PlacesIsNext DEF SentBefore
<1> QED BY <1>1, <1>4, <1>5, <1>9, <1>10 DEF TestbedInv

(* So does a reply.                                                        *)
LEMMA NextReplyArrives ==
  ASSUME TestbedInv, NEW c \in Sockets, ReplyArrives(c)
  PROVE  TestbedInv'
<1>0. ServerInv /\ OneDump /\ ClientInv /\ NetworkOK
  BY DEF TestbedInv
<1>1. /\ ServerInv' /\ OneDump' /\ UNCHANGED <<Buffered, InHands, received, refused>>
      /\ UNCHANGED <<up, lost, astray>>
  BY <1>0, ServerStays DEF ReplyArrives
<1>2. /\ ClientInv' /\ UNCHANGED <<sent_req, completed_req>>
      /\ inbox' = [inbox EXCEPT ![c] = @ + 1]
      /\ down[c] > 0 /\ down' = [down EXCEPT ![c] = @ - 1]
  BY <1>0, ComesSteps DEF ReplyArrives
<1>3. /\ Total(inbox') = Total(inbox) + 1
      /\ Total(down') = Total(down) - 1 /\ down' \in [Sockets -> Nat]
  BY <1>2, PlacesOf, TotalSteps
<1>4. NetworkOK'
  BY <1>0, <1>1, <1>3 DEF NetworkOK
<1>5. SentBefore' /\ EachInOnePlace'
  BY <1>1, <1>2, <1>3, PlacesOf, PlacesIsNext DEF SentBefore
<1> QED BY <1>1, <1>2, <1>4, <1>5 DEF TestbedInv

(* A datagram lost is counted as lost.                                     *)
LEMMA NextLose ==
  ASSUME TestbedInv, NEW c \in Sockets, Lose(c)
  PROVE  TestbedInv'
<1>0. ServerInv /\ OneDump /\ ClientInv /\ NetworkOK
  BY DEF TestbedInv
<1>1. /\ ServerInv' /\ OneDump' /\ UNCHANGED <<Buffered, InHands, received, refused>>
      /\ ClientInv' /\ UNCHANGED <<sent_req, completed_req, inbox>>
      /\ UNCHANGED astray
  BY <1>0, ServerStays, ClientStays DEF Lose
<1>2. lost' = lost + 1 /\ lost' \in 0 .. MaxLoss
  BY <1>0, TestbedAssumption DEF Lose, NetworkOK
<1>3. \/ /\ Total(up') = Total(up) - 1 /\ up' \in [Sockets -> Nat]
         /\ UNCHANGED down
      \/ /\ Total(down') = Total(down) - 1 /\ down' \in [Sockets -> Nat]
         /\ UNCHANGED up
  <2>1. CASE up[c] > 0 /\ up' = [up EXCEPT ![c] = @ - 1] /\ UNCHANGED down
    BY <2>1, PlacesOf, TotalSteps
  <2>2. CASE down[c] > 0 /\ down' = [down EXCEPT ![c] = @ - 1] /\ UNCHANGED up
    BY <2>2, PlacesOf, TotalSteps
  <2> QED BY <2>1, <2>2 DEF Lose
<1>4. NetworkOK'
  BY <1>0, <1>1, <1>2, <1>3 DEF NetworkOK
<1>5. SentBefore' /\ EachInOnePlace'
  BY <1>1, <1>2, <1>3, PlacesOf, PlacesIsNext DEF SentBefore
<1> QED BY <1>1, <1>4, <1>5 DEF TestbedInv

(* The invariant holds in every state.                                     *)
LEMMA TestbedInvariance == Spec => []TestbedInv
<1>1. TestbedInv /\ [Next]_vars => TestbedInv'
  <2> SUFFICES ASSUME TestbedInv, [Next]_vars PROVE TestbedInv'
    OBVIOUS
  <2>1. CASE \E c \in Sockets : RequestArrives(c) \/ ReplyArrives(c) \/ Lose(c)
    BY <2>1, NextRequestArrives, NextReplyArrives, NextLose
  <2>2. CASE UNCHANGED vars
    <3>1. /\ UNCHANGED <<kernel, server>> /\ UNCHANGED client
          /\ UNCHANGED <<up, down, lost, astray>>
      BY <2>2 DEF vars, network
    <3>2. ServerInv /\ OneDump /\ ClientInv /\ NetworkOK
      BY DEF TestbedInv
    <3>3. /\ ServerInv' /\ OneDump' /\ ClientInv'
          /\ UNCHANGED <<Buffered, InHands, received, refused>>
          /\ UNCHANGED <<sent_req, completed_req, inbox>>
      BY <3>1, <3>2, ServerStays, ClientStays
    <3>4. NetworkOK' /\ SentBefore' /\ EachInOnePlace'
      BY <3>1, <3>2, <3>3, PlacesOf, PlacesIsNext DEF SentBefore, NetworkOK
    <3> QED BY <3>3, <3>4 DEF TestbedInv
  <2> QED BY <2>1, <2>2, NextClientSends, NextClientCounts, NextServerActs, NextServerReplies,
             NextSignalComes DEF Next
<1> QED BY <1>1, InitTestbedInv, PTL DEF Spec
-----------------------------------------------------------------------------
(* Requests received are never more than there is room for their times,    *)
(* and every index and address is one there is (TypeOK).                   *)
THEOREM TypeCorrect == Spec => []TypeOK
<1>1. TestbedInv => TypeOK
  BY DEF TestbedInv, ServerInv, ClientInv, NetworkOK, TypeOK
<1> QED BY <1>1, TestbedInvariance, PTL

(* No request is in two places, nor in none (EachInOnePlace).              *)
THEOREM RequestsInOnePlace == Spec => []EachInOnePlace
<1>1. TestbedInv => EachInOnePlace
  BY DEF TestbedInv
<1> QED BY <1>1, TestbedInvariance, PTL

(* The file of a server that one signal has ended has the times of the     *)
(* requests after the first, in order (DumpExact).                         *)
THEOREM DumpIsExact == Spec => []DumpExact
<1>1. ASSUME TestbedInv, exit = "killed", Cardinality(handling) = 1
      PROVE  /\ \A i \in 1 .. Len(written) : written[i] = i + 1
             /\ Len(written) >= received - (IF InHand THEN 2 ELSE 1)
  <2>1. ServerOK /\ Stamped /\ OneDump
    BY <1>1 DEF TestbedInv, ServerInv
  <2>2. \E s : handling = {s}
    <3>1. IsFiniteSet(handling)
      BY <2>1, FS_Subset, RedirectionAssumption DEF ServerOK
    <3> QED BY <1>1, <3>1, FS_Singleton
  <2>3. written = Dumped
    BY <1>1, <2>1, <2>2 DEF OneDump, AtMostOne
  <2>4. req_pkt_counter \in Nat /\ received \in Nat
    BY <2>1, StampsInNat DEF ServerOK
  <2>5. ASSUME NEW i \in 1 .. Len(written) PROVE written[i] = i + 1
    <3>1. i \in 1 .. req_pkt_counter - 1 /\ written[i] = rx_timestamps[i]
      BY <2>1, <2>3, DumpedIs
    <3> QED BY <2>1, <2>4, <3>1 DEF Stamped
  <2>6. Len(written) >= req_pkt_counter - 1
    BY <2>1, <2>3, <2>4, DumpedIs
  <2>7. received = req_pkt_counter + Unstamped /\ (Unstamped = 1 => InHand) /\ Unstamped \in {0, 1}
    BY <2>1 DEF Stamped, Unstamped, InHand
  <2>8. Len(written) \in Nat
    BY <2>1 DEF ServerOK
  <2> QED BY <2>4, <2>5, <2>6, <2>7, <2>8
<1>2. TestbedInv => DumpExact
  BY <1>1 DEF DumpExact
<1> QED BY <1>2, TestbedInvariance, PTL

(* A client that chooses sends each request to the switch the table has    *)
(* for the replica chosen, whatever the replies have left in the           *)
(* connection's address; a direct one sends to the server, and a routed    *)
(* one that does not choose to the switch until a reply is read on the     *)
(* connection and to the server after (SentByTable).                       *)
THEOREM RequestsSentByTable == Spec => SentByTable
<1> DEFINE c == send_conn_id
           sent_to == server_addr'[c]
           ByTable == CASE is_direct_to_server -> sent_to = recv_ip_addr
                        [] Selects -> sent_to = FirstLine(alt_dst_ip'[c])
                        [] OTHER -> sent_to = IF c \in heard THEN recv_ip_addr
                                              ELSE FirstLine(recv_ip_addr)
<1>1. ASSUME TestbedInv, [Next]_vars, sent_req' # sent_req PROVE ByTable
  <2>1. ClientInv /\ ClientOK /\ ServerInv /\ OneDump
    BY <1>1 DEF TestbedInv, ClientInv
  <2>2. ClientSends
    <3>1. ASSUME UNCHANGED client PROVE FALSE
      BY <1>1, <2>1, <3>1, ClientStays
    <3>2. ASSUME ClientCounts PROVE FALSE
      BY <1>1, <2>1, <3>2, CountsSteps DEF ClientCounts
    <3>3. ASSUME NEW d \in Sockets, ReplyArrives(d) PROVE FALSE
      BY <1>1, <2>1, <3>3, ComesSteps DEF ReplyArrives
    <3> QED BY <1>1, <3>1, <3>2, <3>3
          DEF Next, vars, ServerActs, ServerReplies, SignalComes, RequestArrives, Lose
  <2>3. PICK r \in Targets : SendRequest(r)
    BY <2>2 DEF ClientSends
  <2>4. sent_to = Address(r) /\ alt_dst_ip'[c] = r /\ c \in Conns
    BY <2>1, <2>3, SendSteps
  <2>5. CASE is_direct_to_server
    BY <2>1, <2>4, <2>5 DEF ClientInv, AddressInv, Address, Selects
  <2>6. CASE ~is_direct_to_server /\ Selects
    <3>1. sent_to = FirstLine(alt_dst_ip'[c])
      BY <2>4, <2>6, FirstLineCounts DEF Address
    <3> QED BY <2>6, <3>1
  <2>7. CASE ~is_direct_to_server /\ ~Selects
    <3>1. sent_to = server_addr[c] /\ ~is_random_selection
      BY <2>1, <2>4, <2>7 DEF Address, Selects, ClientOK
    <3>2. sent_to = IF c \in heard THEN recv_ip_addr ELSE FirstLine(recv_ip_addr)
      BY <2>1, <2>4, <2>7, <3>1, FirstLineCounts DEF ClientInv, AddressInv
    <3> QED BY <2>7, <3>2
  <2> QED BY <2>5, <2>6, <2>7
<1>2. TestbedInv /\ [Next]_vars => [sent_req' # sent_req => ByTable]_vars
  BY <1>1
<1> QED BY <1>2, TestbedInvariance, PTL DEF Spec, SentByTable
=============================================================================
