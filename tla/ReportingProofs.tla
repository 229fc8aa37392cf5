---------------------------- MODULE ReportingProofs ----------------------------
(***************************************************************************)
(* What module Reporting promises of the figures, from the command that a  *)
(* user runs to the number that Query prints, for any number of clients    *)
(* and modules, any commands and options, however the threads, the server  *)
(* and the query are interleaved.                                          *)
(*                                                                         *)
(* The loops of the code are folds in the model.  A fold over a finite set *)
(* is pinned down here without induction over an operator: of the subsets  *)
(* for which something fails there is a smallest one (Smallest), and all   *)
(* that a fold says of a set it says of one element and the others.        *)
(***************************************************************************)
EXTENDS Reporting, FiniteSetTheorems, SequenceTheorems, TLAPS

(* Among natural numbers there is a least one ... *)
LEMMA Least ==
  ASSUME NEW T, T \subseteq Nat, T # {}
  PROVE  \E x \in T : \A y \in T : x <= y
<1>1. PICK x \in T : \A y \in T : <<y, x>> \notin OpToRel(<, Nat)
  BY NatLessThanWellFounded, WFMin
<1>2. ASSUME NEW y \in T PROVE x <= y
  <2>1. x \in Nat /\ y \in Nat
    OBVIOUS
  <2>2. <<y, x>> \in Nat \X Nat
    BY <2>1
  <2>3. ~ (y < x)
    BY <1>1, <2>2 DEF OpToRel
  <2>. QED
    BY <2>1, <2>3
<1>. QED
  BY <1>2

(* ... and so a set of them that has 0, and n + 1 with n, has them all. *)
LEMMA Induct ==
  ASSUME NEW P, 0 \in P, \A n \in Nat : n \in P => n + 1 \in P
  PROVE  Nat \subseteq P
<1>. SUFFICES ASSUME Nat \ P # {} PROVE FALSE
  OBVIOUS
<1>1. PICK n \in Nat \ P : \A m \in Nat \ P : n <= m
  BY Least
<1>2. n - 1 \in Nat /\ n - 1 < n
  OBVIOUS
<1>3. n - 1 \in P
  BY <1>1, <1>2
<1>. QED
  BY <1>2, <1>3

(* Induction over the subsets of a finite set: one of the counterexamples  *)
(* is not one any more without any of its elements.                        *)
LEMMA Smallest ==
  ASSUME NEW S, IsFiniteSet(S), NEW B, B \subseteq SUBSET S, B # {}
  PROVE  \E T \in B : \A x \in T : T \ {x} \notin B
<1>1. B \subseteq FiniteSubsetsOf(S)
  BY FS_FiniteSubsetsOfFinite
<1>2. PICK T \in B : \A U \in B : <<U, T>> \notin StrictSubsetOrdering(S)
  BY <1>1, FS_StrictSubsetOrderingWellFounded, WFMin
<1>3. ASSUME NEW x \in T PROVE <<T \ {x}, T>> \in StrictSubsetOrdering(S)
  BY DEF StrictSubsetOrdering
<1>. QED
  BY <1>2, <1>3

-----------------------------------------------------------------------------
(* The folds of the community modules: a function on the subsets of S that *)
(* takes the element pick chooses and goes on with the others.             *)
Picks(pick, S) == \A T \in SUBSET S : T # {} => pick[T] \in T

(* Step by step: what is folded of T is step of the element picked and     *)
(* what is folded of the others.                                           *)
IsFold(g, S, base, step, pick) ==
  \A T \in SUBSET S : g[T] = IF T = {} THEN base ELSE step[<<pick[T], g[T \ {pick[T]}]>>]

(* There is such a fold of every finite set: without one there would be a  *)
(* smallest set without, and one element less has one, to which the next   *)
(* step can be added.                                                      *)
LEMMA FoldExists ==
  ASSUME NEW S, IsFiniteSet(S), NEW V, NEW base \in V, NEW step \in [S \X V -> V],
         NEW pick, Picks(pick, S)
  PROVE  \E g \in [SUBSET S -> V] : IsFold(g, S, base, step, pick)
<1>. USE DEF Picks, IsFold
<1>. DEFINE Small(n) == {T \in SUBSET S : Cardinality(T) <= n}
            Good(n, g) == \A T \in Small(n) :
              g[T] = IF T = {} THEN base ELSE step[<<pick[T], g[T \ {pick[T]}]>>]
            P == {n \in Nat : \E g \in [Small(n) -> V] : Good(n, g)}
<1>1. \A T \in SUBSET S : IsFiniteSet(T) /\ Cardinality(T) \in Nat
  BY FS_Subset, FS_CardinalityType
<1>2. \A T \in SUBSET S : T # {} =>
        T \ {pick[T]} \in SUBSET S /\ Cardinality(T \ {pick[T]}) = Cardinality(T) - 1
  BY <1>1, FS_RemoveElement
<1>3. 0 \in P
  <2>. DEFINE g == [T \in Small(0) |-> base]
  <2>1. \A T \in Small(0) : T = {}
    BY <1>1, FS_EmptySet
  <2>2. g \in [Small(0) -> V] /\ Good(0, g)
    BY <2>1
  <2>. HIDE DEF g, Good, Small
  <2>. QED
    BY <2>2
<1>4. ASSUME NEW n \in Nat, n \in P PROVE n + 1 \in P
  <2>1. PICK g \in [Small(n) -> V] : Good(n, g)
    BY <1>4
  <2>. DEFINE h == [T \in Small(n + 1) |->
          IF T = {} THEN base ELSE step[<<pick[T], g[T \ {pick[T]}]>>]]
  <2>2. ASSUME NEW T \in Small(n + 1), T # {}
        PROVE  T \ {pick[T]} \in Small(n)
    BY <1>1, <1>2, <2>2
  <2>3. h \in [Small(n + 1) -> V]
    <3>1. ASSUME NEW T \in Small(n + 1), T # {} PROVE step[<<pick[T], g[T \ {pick[T]}]>>] \in V
      BY <2>2, <3>1
    <3>. QED
      BY <3>1
  <2>4. \A T \in Small(n) : T \in Small(n + 1) /\ h[T] = g[T]
    BY <1>1, <2>1
  <2>5. Good(n + 1, h)
    <3>. SUFFICES ASSUME NEW T \in Small(n + 1), T # {}
                  PROVE  h[T] = step[<<pick[T], h[T \ {pick[T]}]>>]
      OBVIOUS
    <3>1. h[T \ {pick[T]}] = g[T \ {pick[T]}]
      BY <2>2, <2>4
    <3>. QED
      BY <3>1
  <2>6. n + 1 \in Nat
    OBVIOUS
  <2>. HIDE DEF h, Good, Small
  <2>7. \E k \in [Small(n + 1) -> V] : Good(n + 1, k)
    BY <2>3, <2>5
  <2>. QED
    BY <2>6, <2>7
<1>5. Nat \subseteq P
  <2>. HIDE DEF P
  <2>. QED
    BY <1>3, <1>4, Induct
<1>6. Cardinality(S) \in P
  BY <1>1, <1>5
<1>7. Small(Cardinality(S)) = SUBSET S
  BY <1>1, FS_Subset
<1>. QED
  BY <1>6, <1>7

(* SumFunctionOnSet is such a fold. *)
IsSum(g, f, S) ==
  \A T \in SUBSET S : g[T] = IF T = {} THEN 0
     ELSE f[CHOOSE x \in T : TRUE] + g[T \ {CHOOSE x \in T : TRUE}]

(* The community module's sum is computed by such a fold, over all the     *)
(* subsets at once.                                                        *)
LEMMA SumRec ==
  ASSUME NEW f, NEW S, IsFiniteSet(S), \A x \in S : f[x] \in Int
  PROVE  \E g \in [SUBSET S -> Int] : SumFunctionOnSet(f, S) = g[S] /\ IsSum(g, f, S)
<1>. DEFINE V == Int
            zero == 0
            step == [p \in S \X V |-> f[p[1]] + p[2]]
            pick == [T \in SUBSET S |-> CHOOSE x \in T : TRUE]
            Rec(h) == h = [s \in SUBSET S |-> IF s = {} THEN 0
                            ELSE f[CHOOSE x \in s : TRUE] + h[s \ {CHOOSE x \in s : TRUE}]]
<1>1. step \in [S \X V -> V] /\ zero \in V
  OBVIOUS
<1>2. \A T \in SUBSET S : pick[T] = (CHOOSE x \in T : TRUE)
  OBVIOUS
<1>3. Picks(pick, S)
  BY DEF Picks
<1>4. \A x \in S, v \in V : step[<<x, v>>] = f[x] + v
  OBVIOUS
<1>5. PICK g \in [SUBSET S -> V] : IsFold(g, S, zero, step, pick)
  <2>. HIDE DEF step, pick, V, zero
  <2>. QED
    BY <1>1, <1>3, FoldExists
<1>6. \A T \in SUBSET S : g[T] = IF T = {} THEN 0
        ELSE f[CHOOSE x \in T : TRUE] + g[T \ {CHOOSE x \in T : TRUE}]
  <2>. HIDE DEF step, pick
  <2>. SUFFICES ASSUME NEW T \in SUBSET S, T # {}
                PROVE  g[T] = f[pick[T]] + g[T \ {pick[T]}]
    BY <1>2, <1>5 DEF IsFold
  <2>1. T \ {pick[T]} \in SUBSET S /\ pick[T] \in S
    BY <1>3 DEF Picks
  <2>. QED
    BY <1>4, <1>5, <2>1 DEF IsFold
<1>7. Rec(g)
  BY <1>6
<1>. DEFINE h == CHOOSE h : Rec(h)
<1>8. SumFunctionOnSet(f, S) = h[S]
  BY DEF SumFunctionOnSet, FoldFunctionOnSet, MapThenFoldSet
<1>9. Rec(h)
  <2>. HIDE DEF Rec
  <2>. QED
    BY <1>7
<1>10. \A T \in SUBSET S : h[T] \in Int
  <2>. DEFINE B == {T \in SUBSET S : h[T] \notin Int}
  <2>. HIDE DEF h
  <2>. SUFFICES ASSUME B # {} PROVE FALSE
    OBVIOUS
  <2>1. PICK T \in B : \A x \in T : T \ {x} \notin B
    <3>. HIDE DEF B
    <3>1. B \subseteq SUBSET S
      BY DEF B
    <3>. QED
      BY <3>1, Smallest
  <2>2. T # {}
    BY <1>9
  <2>. DEFINE x == CHOOSE x \in T : TRUE
  <2>3. x \in T /\ h[T \ {x}] \in Int /\ f[x] \in Int
    BY <2>1, <2>2
  <2>4. h[T] = f[x] + h[T \ {x}]
    BY <1>9, <2>2
  <2>. QED
    BY <2>3, <2>4
<1>11. h \in [SUBSET S -> Int] /\ IsSum(h, f, S)
  BY <1>9, <1>10 DEF IsSum
<1>. HIDE DEF h
<1>. QED
  BY <1>8, <1>11

(* Of nothing the sum is 0 ... *)
LEMMA SumEmpty == ASSUME NEW f PROVE SumFunctionOnSet(f, {}) = 0
<1>1. IsFiniteSet({})
  BY FS_EmptySet
<1>2. PICK g \in [SUBSET {} -> Int] : SumFunctionOnSet(f, {}) = g[{}] /\ IsSum(g, f, {})
  BY <1>1, SumRec
<1>. QED
  BY <1>2 DEF IsSum

(* ... of integers it is one ... *)
LEMMA SumInt ==
  ASSUME NEW f, NEW S, IsFiniteSet(S), \A x \in S : f[x] \in Int
  PROVE  SumFunctionOnSet(f, S) \in Int
<1>1. PICK g \in [SUBSET S -> Int] : SumFunctionOnSet(f, S) = g[S] /\ IsSum(g, f, S)
  BY SumRec
<1>. QED
  BY <1>1

(* ... and it starts with the element that is chosen. *)
LEMMA SumChoose ==
  ASSUME NEW f, NEW S, IsFiniteSet(S), S # {}, \A x \in S : f[x] \in Int
  PROVE  LET x == CHOOSE x \in S : TRUE
         IN  SumFunctionOnSet(f, S) = f[x] + SumFunctionOnSet(f, S \ {x})
<1>. DEFINE c == CHOOSE x \in S : TRUE
            R == S \ {c}
<1>1. IsFiniteSet(R) /\ R \subseteq S /\ c \in S
  BY FS_RemoveElement
<1>2. PICK g \in [SUBSET S -> Int] : SumFunctionOnSet(f, S) = g[S] /\ IsSum(g, f, S)
  BY SumRec
<1>3. PICK h \in [SUBSET R -> Int] : SumFunctionOnSet(f, R) = h[R] /\ IsSum(h, f, R)
  BY <1>1, SumRec
<1>4. h[R] = g[R]
  <2>. DEFINE B == {T \in SUBSET R : g[T] # h[T]}
  <2>. SUFFICES ASSUME B # {} PROVE FALSE
    OBVIOUS
  <2>1. PICK T \in B : \A x \in T : T \ {x} \notin B
    <3>. HIDE DEF B
    <3>1. B \subseteq SUBSET R
      BY DEF B
    <3>. QED
      BY <1>1, <3>1, Smallest
  <2>2. T \subseteq S /\ T \subseteq R
    BY <1>1
  <2>3. T # {}
    BY <1>2, <1>3 DEF IsSum
  <2>. DEFINE x == CHOOSE x \in T : TRUE
  <2>4. g[T \ {x}] = h[T \ {x}]
    BY <2>1, <2>2, <2>3
  <2>5. g[T] = f[x] + g[T \ {x}] /\ h[T] = f[x] + h[T \ {x}]
    BY <1>2, <1>3, <2>2, <2>3 DEF IsSum
  <2>. QED
    BY <2>4, <2>5
<1>5. g[S] = f[c] + g[R]
  BY <1>2 DEF IsSum
<1>. QED
  BY <1>2, <1>3, <1>4, <1>5

(* The order does not matter: any element may be taken first. *)
LEMMA SumRemove ==
  ASSUME NEW f, NEW S, IsFiniteSet(S), \A x \in S : f[x] \in Int, NEW x \in S
  PROVE  SumFunctionOnSet(f, S) = f[x] + SumFunctionOnSet(f, S \ {x})
<1>. DEFINE P == {n \in Nat : \A T \in SUBSET S : Cardinality(T) = n =>
                    \A y \in T : SumFunctionOnSet(f, T) = f[y] + SumFunctionOnSet(f, T \ {y})}
<1>1. \A T \in SUBSET S : IsFiniteSet(T) /\ Cardinality(T) \in Nat
  BY FS_Subset, FS_CardinalityType
<1>2. 0 \in P
  BY <1>1, FS_EmptySet
<1>3. ASSUME NEW n \in Nat, n \in P PROVE n + 1 \in P
  <2>. SUFFICES ASSUME NEW T \in SUBSET S, Cardinality(T) = n + 1, NEW y \in T
                PROVE  SumFunctionOnSet(f, T) = f[y] + SumFunctionOnSet(f, T \ {y})
    OBVIOUS
  <2>. DEFINE z == CHOOSE z \in T : TRUE
  <2>1. z \in T /\ SumFunctionOnSet(f, T) = f[z] + SumFunctionOnSet(f, T \ {z})
    BY <1>1, SumChoose
  <2>. HIDE DEF z
  <2>2. CASE y = z
    BY <2>1, <2>2
  <2>3. CASE y # z
    <3>1. Cardinality(T \ {y}) = n /\ Cardinality(T \ {z}) = n
      BY <1>1, <2>1, FS_RemoveElement
    <3>. DEFINE rest == SumFunctionOnSet(f, (T \ {y}) \ {z})
    <3>2. SumFunctionOnSet(f, T \ {y}) = f[z] + rest
      BY <1>3, <2>1, <2>3, <3>1
    <3>3. SumFunctionOnSet(f, T \ {z}) = f[y] + rest
      <4>1. (T \ {y}) \ {z} = (T \ {z}) \ {y}
        OBVIOUS
      <4>. QED
        BY <1>3, <2>1, <2>3, <3>1, <4>1
    <3>4. IsFiniteSet((T \ {y}) \ {z}) /\ (T \ {y}) \ {z} \subseteq S
      BY <1>1
    <3>5. rest \in Int
      BY <3>4, SumInt
    <3>6. f[y] \in Int /\ f[z] \in Int
      BY <2>1
    <3>. HIDE DEF rest
    <3>. QED
      BY <2>1, <3>2, <3>3, <3>5, <3>6
  <2>. QED
    BY <2>2, <2>3
<1>4. Nat \subseteq P
  <2>. HIDE DEF P
  <2>. QED
    BY <1>2, <1>3, Induct
<1>5. Cardinality(S) \in P
  BY <1>1, <1>4
<1>. QED
  BY <1>5

(* Two functions have the same sum if one is the other, seen through an    *)
(* injection, and 0 elsewhere.                                             *)
LEMMA SumImage ==
  ASSUME NEW f, NEW S, IsFiniteSet(S), \A x \in S : f[x] \in Int,
         NEW g, NEW U, IsFiniteSet(U), \A y \in U : g[y] \in Int,
         NEW h \in Injection(S, U), \A x \in S : f[x] = g[h[x]],
         \A y \in U : g[y] # 0 => \E x \in S : h[x] = y
  PROVE  SumFunctionOnSet(f, S) = SumFunctionOnSet(g, U)
<1>. DEFINE Im(T) == {h[x] : x \in T}
            Zeros(T) == SumFunctionOnSet(g, Im(S) \cup T)
<1>1. /\ h \in [S -> U] /\ \A x, y \in S : h[x] = h[y] => x = y
  BY DEF Injection, IsInjective
<1>2. \A T \in SUBSET U : IsFiniteSet(T)
  BY FS_Subset
<1>3. SumFunctionOnSet(f, S) = SumFunctionOnSet(g, Im(S))
  <2>. DEFINE B == {T \in SUBSET S : SumFunctionOnSet(f, T) # SumFunctionOnSet(g, Im(T))}
  <2>. SUFFICES ASSUME B # {} PROVE FALSE
    OBVIOUS
  <2>1. PICK T \in B : \A x \in T : T \ {x} \notin B
    <3>. HIDE DEF B
    <3>1. B \subseteq SUBSET S
      BY DEF B
    <3>. QED
      BY <3>1, Smallest
  <2>2. T # {}
    <3>1. Im({}) = {}
      OBVIOUS
    <3>2. SumFunctionOnSet(f, {}) = 0 /\ SumFunctionOnSet(g, {}) = 0
      BY SumEmpty
    <3>. QED
      BY <3>1, <3>2
  <2>3. PICK x \in T : TRUE
    BY <2>2
  <2>4. SumFunctionOnSet(f, T \ {x}) = SumFunctionOnSet(g, Im(T \ {x}))
    BY <2>1
  <2>5. Im(T \ {x}) = Im(T) \ {h[x]}
    BY <1>1
  <2>6. SumFunctionOnSet(f, T) = f[x] + SumFunctionOnSet(f, T \ {x})
    <3>1. IsFiniteSet(T) /\ \A y \in T : f[y] \in Int
      BY FS_Subset
    <3>. QED
      BY <3>1, SumRemove
  <2>7. SumFunctionOnSet(g, Im(T)) = g[h[x]] + SumFunctionOnSet(g, Im(T) \ {h[x]})
    <3>1. Im(T) \subseteq U /\ h[x] \in Im(T)
      BY <1>1
    <3>2. IsFiniteSet(Im(T)) /\ \A y \in Im(T) : g[y] \in Int
      BY <1>2, <3>1
    <3>. HIDE DEF Im
    <3>. QED
      BY <3>1, <3>2, SumRemove
  <2>. QED
    BY <2>4, <2>5, <2>6, <2>7
<1>4. SumFunctionOnSet(g, U) = SumFunctionOnSet(g, Im(S))
  <2>. DEFINE Z == U \ Im(S)
              B == {T \in SUBSET Z : Zeros(T) # SumFunctionOnSet(g, Im(S))}
  <2>0. Im(S) \subseteq U
    BY <1>1
  <2>. HIDE DEF Im
  <2>1. U = Im(S) \cup Z /\ IsFiniteSet(Z)
    BY <1>2, <2>0
  <2>. SUFFICES ASSUME B # {} PROVE FALSE
    <3>1. Z \in SUBSET Z /\ Im(S) \cup Z = U
      BY <2>1
    <3>. HIDE DEF Z
    <3>. QED
      BY <3>1
  <2>2. PICK T \in B : \A x \in T : T \ {x} \notin B
    <3>. HIDE DEF B
    <3>1. B \subseteq SUBSET Z
      BY DEF B
    <3>. QED
      BY <2>1, <3>1, Smallest
  <2>3. T # {}
    <3>1. Im(S) \cup {} = Im(S)
      OBVIOUS
    <3>. QED
      BY <3>1
  <2>4. PICK x \in T : TRUE
    BY <2>3
  <2>5. Zeros(T \ {x}) = SumFunctionOnSet(g, Im(S))
    BY <2>2
  <2>6. x \in U /\ x \notin Im(S)
    OBVIOUS
  <2>7. g[x] = 0
    BY <2>6 DEF Im
  <2>8. (Im(S) \cup T) \ {x} = Im(S) \cup (T \ {x})
    BY <2>6
  <2>9. Zeros(T) = g[x] + SumFunctionOnSet(g, (Im(S) \cup T) \ {x})
    <3>. DEFINE W == Im(S) \cup T
    <3>1. W \subseteq U /\ x \in W
      BY <2>0
    <3>2. IsFiniteSet(W) /\ \A y \in W : g[y] \in Int
      BY <1>2, <3>1
    <3>. HIDE DEF W
    <3>. QED
      BY <3>1, <3>2, SumRemove DEF W
  <2>10. SumFunctionOnSet(g, Im(S)) \in Int
    BY <1>2, <2>0, SumInt
  <2>11. SumFunctionOnSet(g, (Im(S) \cup T) \ {x}) = SumFunctionOnSet(g, Im(S))
    BY <2>5, <2>8
  <2>12. Zeros(T) = 0 + SumFunctionOnSet(g, Im(S))
    BY <2>7, <2>9, <2>11
  <2>. HIDE DEF Zeros
  <2>. QED
    BY <2>10, <2>12
<1>. QED
  BY <1>3, <1>4

(* How often x stands in a sequence, as Ran counts in what was selected. *)
Occurrences(s, x) == Cardinality({i \in DOMAIN s : s[i] = x})

(* Every command of every module; the commands with their modules; the     *)
(* maps of m_usage; the objects of Analytics; the reports; and the last    *)
(* value of thread.                                                        *)
Cmds == UNION Range(allCommands)
Tags == (DOMAIN moduleNames) \X Cmds
Usages(C) == UNION {[D -> Nat] : D \in SUBSET C}
ModuleTypes == [m_id : DOMAIN moduleNames, m_commands : Seq(Cmds), m_usage : Usages(Cmds)]
Reports == [from : Clients, DateTime : 0 .. MaxTime, text : Texts]
Sent == Len(Modules) + 3

(* The commands that a user ran, with their modules. *)
Pairs(c) == {x \in Tags : Ran(c, x[1], x[2]) > 0}

(* The table that a module's commands go to. *)
Table(id) == FindTableName(moduleNames[id])

(* The lines are one for each command that c ran, and no others. *)
Tells(c, lines) ==
  /\ \A l \in lines : \E x \in Pairs(c) :
       l.table = Table(x[1]) /\ l.Command = x[2] /\ l.Count = Ran(c, x[1], x[2])
  /\ \A x \in Pairs(c) : \E l \in lines : l.table = Table(x[1]) /\ l.Command = x[2]
  /\ \A l, k \in lines : l.table = k.table /\ l.Command = k.Command => l = k

-----------------------------------------------------------------------------
(* The types of what belongs to the clients. *)
ClientTypeOK ==
  /\ clock \in 0 .. MaxTime /\ count \in Counts
  /\ thread \in [Clients -> 1 .. Sent]
  /\ selected \in [Clients -> Seq(Tags)]
  /\ analytics \in [Clients -> Seq(ModuleTypes)]

(* No two objects are of one module. *)
Distinct(m) == \A i, j \in DOMAIN m : m[i].m_id = m[j].m_id => i = j

(* No module has more than one object, and those that were used have one. *)
OneObject(c) ==
  /\ Distinct(analytics[c])
  /\ \A x \in Pairs(c) : \E i \in DOMAIN analytics[c] : analytics[c][i].m_id = x[1]

(* No more commands than were asked for: numbers that std::atoi can read. *)
AsAsked(c) ==
  Len(selected[c]) = (IF thread[c] < Collected THEN thread[c] - 1 ELSE Len(Modules)) * count

(* The objects hold what was selected, first the commands ... *)
Held(c) ==
  thread[c] <= Collected => \A i \in DOMAIN analytics[c] :
    /\ DOMAIN analytics[c][i].m_usage = {}
    /\ \A x \in Cmds :
         Occurrences(analytics[c][i].m_commands, x) = Ran(c, analytics[c][i].m_id, x)

(* ... and then their numbers. *)
Counted(c) ==
  thread[c] > Collected => \A i \in DOMAIN analytics[c] :
    analytics[c][i].m_usage =
      [x \in {y \in Cmds : Ran(c, analytics[c][i].m_id, y) > 0} |->
         Ran(c, analytics[c][i].m_id, x)]

(* What holds of each thread, wherever it is. *)
ClientInv ==
  ClientTypeOK /\ \A c \in Clients : OneObject(c) /\ AsAsked(c) /\ Held(c) /\ Counted(c)

-----------------------------------------------------------------------------
(* The reports that tell what their senders did, who are done with it. *)
Told ==
  {r \in Reports : thread[r.from] = Sent /\ Tells(r.from, UNION Says(r.text))}

(* A client is the sender of one report, which is on its way, with the     *)
(* server or committed.                                                    *)
SentOnce ==
  /\ \A r, s \in inFlight : r.from = s.from => r = s
  /\ \A i, j \in DOMAIN instances : instances[i].from = instances[j].from => i = j
  /\ \A r \in inFlight, i \in DOMAIN instances : r.from # instances[i].from
  /\ inbox # NoReport =>
       /\ \A r \in inFlight : r.from # inbox.from
       /\ \A i \in DOMAIN instances : instances[i].from # inbox.from

(* What is on its way, or with the server, tells what its sender did, and  *)
(* what is committed is all the lines of what it tells.                    *)
StoreInv ==
  /\ inFlight \subseteq Told
  /\ inbox # NoReport => inbox \in Told
  /\ DOMAIN stored = DOMAIN instances /\ DOMAIN instances \subseteq 1 .. MaxId
  /\ \A id \in DOMAIN instances :
       /\ instances[id] \in Told
       /\ stored[id] = UNION Says(instances[id].text) /\ stored[id] # {}

-----------------------------------------------------------------------------
(* There is a set of ids, those that were counted as instances, and in     *)
(* each table counted since then there were at least as many records as    *)
(* there are such ids with records in it.                                  *)
CountedBefore ==
  \E ids \in SUBSET Query!Since :
    /\ Cardinality(ids) = instanceCount
    /\ \A k \in DOMAIN recordCounts :
         Cardinality(RecordsOf(ids, Query!tableNames[k])) <= recordCounts[k]

(* How far the query is decides how much it has counted. *)
QueryInv ==
  /\ options \in SUBSET {"since", "stats"}
  /\ recordCounts \in Seq(Nat)
  /\ at \in {"connecting", "instances", "records", "stats", "done", "failed"}
  /\ "since" \notin options \/ at \in {"connecting", "instances"} =>
       instanceCount = 0 /\ recordCounts = <<>>
  /\ at = "connecting" => options # {}
  /\ at \in {"instances", "records"} => "since" \in options
  /\ at = "records" => Len(recordCounts) < Len(Query!tableNames)
  /\ at \in {"stats", "done"} /\ "since" \in options => Len(recordCounts) = Len(Query!tableNames)
  /\ at # "failed" => CountedBefore

(* How often the users whose reports have the ids up to last ran each      *)
(* command of a table.                                                     *)
Users(last) == {instances[id].from : id \in DOMAIN instances \cap 1 .. last}

(* The modules whose table it is. *)
IdsOf(table) == {id \in DOMAIN moduleNames : Table(id) = table}

(* How often those users ran each command. *)
Totals(last, table) ==
  [command \in Cmds |->
     SumFunction([u \in Users(last) \X IdsOf(table) |-> Ran(u[1], u[2], command)])]

(* The figures are those of the commands with the largest totals.          *)
Ranks(figures, total) ==
  LET shown == {figures[i].command : i \in DOMAIN figures}
  IN  /\ Cardinality(shown) = Len(figures) /\ Len(figures) <= limit
      /\ \A i \in DOMAIN figures :
           /\ figures[i].command \in Cmds
           /\ figures[i].sum = total[figures[i].command] /\ figures[i].sum > 0
           /\ \A command \in Cmds :
                total[command] > figures[i].sum =>
                  \E j \in 1 .. i - 1 : figures[j].command = command
      /\ Len(figures) < limit => \A command \in Cmds : total[command] > 0 => command \in shown

(* What was printed of a table is right for the reports up to some id.     *)
Right(t, last) == Ranks(inUse[t], Totals(last, Query!tableNames[t]))

(* Every table that was printed is right, for the reports that were        *)
(* committed then.                                                         *)
StatsInv ==
  /\ inUse \in Seq(Seq([command : Cmds, sum : Nat]))
  /\ \A t \in DOMAIN inUse : \E last \in DOMAIN instances \cup {0} : Right(t, last)

-----------------------------------------------------------------------------
(* Loops over sequences, and counting. *)

(* The image of a finite set is finite. *)
LEMMA ImageFinite ==
  ASSUME NEW S, IsFiniteSet(S), NEW f
  PROVE  IsFiniteSet({f[x] : x \in S})
<1>. DEFINE g == [x \in S |-> f[x]]
<1>1. g \in Surjection(S, {f[x] : x \in S})
  BY DEF Surjection
<1>. QED
  BY <1>1, FS_Surjection

(* Of the first numbers those that are picked have a greatest ... *)
LEMMA Greatest ==
  ASSUME NEW n \in Nat, NEW T, T \subseteq 1 .. n, T # {}
  PROVE  Max(T) \in T /\ \A y \in T : Max(T) >= y
<1>. DEFINE P == {k \in Nat : \A U \in SUBSET (1 .. k) : U # {} => \E x \in U : \A y \in U : x >= y}
<1>1. 0 \in P
  <2>1. 1 .. 0 = {}
    OBVIOUS
  <2>. QED
    BY <2>1
<1>2. ASSUME NEW k \in Nat, k \in P PROVE k + 1 \in P
  <2>. SUFFICES ASSUME NEW U \in SUBSET (1 .. k + 1), U # {}
                PROVE  \E x \in U : \A y \in U : x >= y
    OBVIOUS
  <2>1. CASE k + 1 \in U
    BY <2>1
  <2>2. CASE k + 1 \notin U
    <3>1. U \in SUBSET (1 .. k)
      BY <2>2
    <3>. QED
      BY <1>2, <3>1
  <2>. QED
    BY <2>1, <2>2
<1>3. Nat \subseteq P
  <2>. HIDE DEF P
  <2>. QED
    BY <1>1, <1>2, Induct
<1>4. \E x \in T : \A y \in T : x >= y
  BY <1>3
<1>. QED
  BY <1>4 DEF Max

(* ... so that a fold may pick it, and takes a sequence from its end. *)
LEMMA PrefixMax ==
  ASSUME NEW n \in Nat
  PROVE  /\ Picks([T \in SUBSET (1 .. n) |-> Max(T)], 1 .. n)
         /\ \A k \in 1 .. n : Max(1 .. k) = k
<1>1. ASSUME NEW T \in SUBSET (1 .. n), T # {} PROVE Max(T) \in T
  BY <1>1, Greatest
<1>2. ASSUME NEW k \in 1 .. n PROVE Max(1 .. k) = k
  <2>1. k \in Nat /\ 1 .. k # {} /\ 1 .. k \subseteq 1 .. k
    OBVIOUS
  <2>2. Max(1 .. k) \in 1 .. k /\ \A y \in 1 .. k : Max(1 .. k) >= y
    BY <2>1, Greatest
  <2>3. k \in 1 .. k
    OBVIOUS
  <2>. QED
    BY <2>2, <2>3
<1>. QED
  BY <1>1, <1>2 DEF Picks

(* How often something occurs is at most the length ... *)
LEMMA OccurrencesType ==
  ASSUME NEW C, NEW s \in Seq(C), NEW x
  PROVE  /\ Occurrences(s, x) \in 0 .. Len(s)
         /\ Occurrences(s, x) > 0 <=> \E i \in DOMAIN s : s[i] = x
<1>. DEFINE O == {i \in DOMAIN s : s[i] = x}
<1>1. DOMAIN s = 1 .. Len(s) /\ Len(s) \in Nat
  OBVIOUS
<1>2. IsFiniteSet(1 .. Len(s)) /\ Cardinality(1 .. Len(s)) = Len(s)
  BY <1>1, FS_Interval
<1>3. O \in SUBSET (1 .. Len(s))
  BY <1>1
<1>. HIDE DEF O
<1>4. IsFiniteSet(O) /\ Cardinality(O) \in Nat /\ Cardinality(O) <= Len(s)
  BY <1>2, <1>3, FS_Subset, FS_CardinalityType
<1>5. Cardinality(O) = 0 <=> O = {}
  BY <1>4, FS_EmptySet
<1>. QED
  BY <1>1, <1>4, <1>5 DEF Occurrences, O

(* ... and of two sequences, one behind the other, it is the sum. *)
LEMMA OccurrencesOfConcat ==
  ASSUME NEW C, NEW s \in Seq(C), NEW t \in Seq(C), NEW x
  PROVE  Occurrences(s \o t, x) = Occurrences(s, x) + Occurrences(t, x)
<1>. DEFINE A == {i \in 1 .. Len(s) : s[i] = x}
            B == {i \in 1 .. Len(t) : t[i] = x}
            D == {Len(s) + i : i \in B}
            shift == [i \in B |-> Len(s) + i]
<1>0. Len(s) \in Nat /\ Len(t) \in Nat /\ DOMAIN s = 1 .. Len(s) /\ DOMAIN t = 1 .. Len(t)
  OBVIOUS
<1>1. /\ DOMAIN (s \o t) = 1 .. Len(s) + Len(t)
      /\ \A i \in 1 .. Len(s) + Len(t) : (s \o t)[i] = IF i <= Len(s) THEN s[i] ELSE t[i - Len(s)]
  BY ConcatProperties, LenProperties
<1>2. {i \in DOMAIN (s \o t) : (s \o t)[i] = x} = A \cup D
  <2>1. ASSUME NEW i \in DOMAIN (s \o t), (s \o t)[i] = x PROVE i \in A \cup D
    <3>1. CASE i <= Len(s)
      BY <1>0, <1>1, <2>1, <3>1
    <3>2. CASE ~ (i <= Len(s))
      <4>1. i - Len(s) \in B /\ i = Len(s) + (i - Len(s))
        BY <1>0, <1>1, <2>1, <3>2
      <4>. QED
        BY <4>1
    <3>. QED
      BY <3>1, <3>2
  <2>2. ASSUME NEW i \in A PROVE i \in DOMAIN (s \o t) /\ (s \o t)[i] = x
    BY <1>0, <1>1
  <2>3. ASSUME NEW j \in B PROVE Len(s) + j \in DOMAIN (s \o t) /\ (s \o t)[Len(s) + j] = x
    BY <1>0, <1>1
  <2>. DEFINE E == {i \in DOMAIN (s \o t) : (s \o t)[i] = x}
  <2>4. E \subseteq A \cup D
    <3>. HIDE DEF A, D
    <3>. QED
      BY <2>1
  <2>5. A \subseteq E
    BY <2>2
  <2>6. D \subseteq E
    BY <2>3
  <2>. QED
    BY <2>4, <2>5, <2>6
<1>3. IsFiniteSet(A) /\ IsFiniteSet(B)
  <2>1. IsFiniteSet(1 .. Len(s)) /\ IsFiniteSet(1 .. Len(t))
    BY <1>0, FS_Interval
  <2>. QED
    BY <2>1, FS_Subset
<1>4. IsFiniteSet(D) /\ Cardinality(D) = Cardinality(B)
  <2>1. shift \in Bijection(B, D)
    BY <1>0 DEF Bijection, Injection, Surjection, IsInjective
  <2>2. ExistsBijection(B, D)
    BY <2>1 DEF ExistsBijection
  <2>. QED
    BY <1>3, <2>2, FS_Bijection
<1>5. A \cap D = {}
  BY <1>0
<1>6. Cardinality(A \cup D) = Cardinality(A) + Cardinality(B)
  <2>. HIDE DEF A, B, D
  <2>1. Cardinality(A \cap D) = 0
    BY <1>5, FS_EmptySet
  <2>2. Cardinality(A) \in Nat /\ Cardinality(D) \in Nat
    BY <1>3, <1>4, FS_CardinalityType
  <2>3. Cardinality(A \cup D) = Cardinality(A) + Cardinality(D) - Cardinality(A \cap D)
    BY <1>3, <1>4, FS_Union
  <2>. QED
    BY <1>4, <2>1, <2>2, <2>3
<1>. QED
  BY <1>0, <1>2, <1>6 DEF Occurrences

(* The map that FoldLeft fills from the words of s is that of their        *)
(* numbers.                                                                *)
CountsOf(u, s) == FoldLeft(CountCommand, u, s)
Numbers(C, s) == [x \in {y \in C : Occurrences(s, y) > 0} |-> Occurrences(s, x)]

(* What CountCommand makes of a sequence, command by command, is how often *)
(* each occurs: the loop of Analytics::Gather.                             *)
LEMMA FoldCounts ==
  ASSUME NEW C, NEW s \in Seq(C), NEW u \in Usages(C), DOMAIN u = {}
  PROVE  CountsOf(u, s) = Numbers(C, s)
<1>. USE DEF Usages
<1>. DEFINE N == Len(s)
            V == UNION {[D -> Nat] : D \in SUBSET C}
            step == [p \in (1 .. N) \X V |-> CountCommand(p[2], s[p[1]])]
            pick == [T \in SUBSET (1 .. N) |-> Max(T)]
            Rec(h) == h = [S \in SUBSET DOMAIN s |-> IF S = {} THEN u
                            ELSE CountCommand(h[S \ {Max(S)}], s[Max(S)])]
            Upto(k, x) == Cardinality({i \in 1 .. k : s[i] = x})
            counts(k) == [x \in {y \in C : Upto(k, y) > 0} |-> Upto(k, x)]
<1>0. N \in Nat /\ DOMAIN s = 1 .. N /\ IsFiniteSet(1 .. N)
  BY FS_Interval
<1>1. step \in [(1 .. N) \X V -> V]
  <2>1. ASSUME NEW i \in 1 .. N, NEW v \in V PROVE CountCommand(v, s[i]) \in V
    <3>1. PICK D \in SUBSET C : v \in [D -> Nat]
      OBVIOUS
    <3>2. s[i] \in C
      OBVIOUS
    <3>3. CountCommand(v, s[i]) \in [D \cup {s[i]} -> Nat]
      BY <3>1 DEF CountCommand
    <3>. QED
      BY <3>2, <3>3
  <2>. HIDE DEF V
  <2>. QED
    BY <2>1
<1>2. Picks(pick, 1 .. N)
  BY <1>0, PrefixMax
<1>3. PICK g \in [SUBSET (1 .. N) -> V] : IsFold(g, 1 .. N, u, step, pick)
  <2>1. u \in V
    OBVIOUS
  <2>. HIDE DEF step, pick, V
  <2>. QED
    BY <1>0, <1>1, <1>2, <2>1, FoldExists
<1>4. Rec(g)
  <2>1. \A T \in SUBSET (1 .. N) : T # {} => Max(T) \in 1 .. N /\ T \ {Max(T)} \in SUBSET (1 .. N)
    BY <1>2 DEF Picks
  <2>2. \A i \in 1 .. N, v \in V : step[<<i, v>>] = CountCommand(v, s[i])
    OBVIOUS
  <2>3. ASSUME NEW T \in SUBSET (1 .. N), T # {}
        PROVE  g[T] = CountCommand(g[T \ {Max(T)}], s[Max(T)])
    <3>1. g[T] = step[<<Max(T), g[T \ {Max(T)}]>>]
      BY <1>3, <2>3 DEF IsFold
    <3>. HIDE DEF step, V
    <3>. QED
      BY <2>1, <2>2, <2>3, <3>1
  <2>4. g[{}] = u
    BY <1>3 DEF IsFold
  <2>. HIDE DEF V
  <2>. QED
    BY <1>0, <2>3, <2>4
<1>. DEFINE h == CHOOSE h : Rec(h)
<1>5. CountsOf(u, s) = h[DOMAIN s]
  BY DEF CountsOf, FoldLeft, MapThenFoldSet
<1>6. Rec(h)
  <2>. HIDE DEF Rec
  <2>. QED
    BY <1>4
<1>. HIDE DEF h
<1>. DEFINE P == {k \in Nat : k <= N => h[1 .. k] = counts(k)}
<1>7. 0 \in P
  <2>1. 1 .. 0 = {}
    OBVIOUS
  <2>2. h[{}] = u
    BY <1>0, <1>6
  <2>3. \A y : {i \in 1 .. 0 : s[i] = y} = {}
    BY <2>1
  <2>4. \A y : Upto(0, y) = 0
    BY <2>3, FS_EmptySet
  <2>5. DOMAIN counts(0) = {}
    BY <2>4
  <2>6. u = [x \in {} |-> u[x]] /\ counts(0) = [x \in {} |-> u[x]]
    BY <2>5
  <2>. QED
    BY <2>1, <2>2, <2>6
<1>8. ASSUME NEW k \in Nat, k \in P PROVE k + 1 \in P
  <2>. SUFFICES ASSUME k + 1 <= N PROVE h[1 .. k + 1] = counts(k + 1)
    OBVIOUS
  <2>1. Max(1 .. k + 1) = k + 1 /\ (1 .. k + 1) \ {k + 1} = 1 .. k /\ 1 .. k + 1 # {}
    <3>1. k + 1 \in 1 .. N
      BY <1>0
    <3>2. Max(1 .. k + 1) = k + 1
      BY <1>0, <3>1, PrefixMax
    <3>. QED
      BY <3>2
  <2>2. h[1 .. k + 1] = CountCommand(h[1 .. k], s[k + 1])
    <3>1. 1 .. k + 1 \in SUBSET DOMAIN s
      BY <1>0
    <3>. QED
      BY <1>6, <2>1, <3>1
  <2>3. h[1 .. k] = counts(k)
    <3>1. k <= N
      BY <1>0
    <3>. HIDE DEF counts
    <3>. QED
      BY <1>8, <3>1
  <2>4. ASSUME NEW y
        PROVE  /\ Upto(k, y) \in Nat
               /\ Upto(k + 1, y) = Upto(k, y) + (IF y = s[k + 1] THEN 1 ELSE 0)
    <3>. DEFINE O == {i \in 1 .. k : s[i] = y}
    <3>1. IsFiniteSet(1 .. k) /\ O \in SUBSET (1 .. k) /\ k + 1 \notin O
      BY FS_Interval
    <3>2. IsFiniteSet(O)
      BY <3>1, FS_Subset
    <3>3. Cardinality(O) \in Nat
      BY <3>2, FS_CardinalityType
    <3>4. CASE y = s[k + 1]
      <4>1. {i \in 1 .. k + 1 : s[i] = y} = O \cup {k + 1}
        BY <3>4
      <4>. HIDE DEF O
      <4>2. Cardinality(O \cup {k + 1}) = Cardinality(O) + 1
        BY <3>1, <3>2, FS_AddElement
      <4>. QED
        BY <3>3, <3>4, <4>1, <4>2 DEF O
    <3>5. CASE y # s[k + 1]
      <4>1. {i \in 1 .. k + 1 : s[i] = y} = O
        BY <3>5
      <4>. HIDE DEF O
      <4>2. Upto(k + 1, y) = Cardinality(O) /\ Upto(k, y) = Cardinality(O)
        BY <4>1 DEF O
      <4>. HIDE DEF Upto
      <4>. QED
        BY <3>3, <3>5, <4>2
    <3>. QED
      BY <3>4, <3>5
  <2>5. s[k + 1] \in C
    BY <1>0
  <2>. HIDE DEF Upto
  <2>6. {y \in C : Upto(k + 1, y) > 0} = {y \in C : Upto(k, y) > 0} \cup {s[k + 1]}
    BY <2>4, <2>5
  <2>7. ASSUME NEW y \in {z \in C : Upto(k + 1, z) > 0}
        PROVE  counts(k + 1)[y] =
                 (IF y \in DOMAIN counts(k) THEN counts(k)[y] ELSE 0)
                 + (IF y = s[k + 1] THEN 1 ELSE 0)
    BY <2>4
  <2>8. CountCommand(counts(k), s[k + 1]) = counts(k + 1)
    <3>. DEFINE c == counts(k)
                d == counts(k + 1)
    <3>1. DOMAIN d = DOMAIN c \cup {s[k + 1]}
      BY <2>6
    <3>2. \A y \in DOMAIN d : d[y] =
            (IF y \in DOMAIN c THEN c[y] ELSE 0) + (IF y = s[k + 1] THEN 1 ELSE 0)
      BY <2>7
    <3>3. d = [y \in DOMAIN d |-> d[y]]
      OBVIOUS
    <3>. HIDE DEF c, d
    <3>4. CountCommand(c, s[k + 1]) = d
      BY <3>1, <3>2, <3>3 DEF CountCommand
    <3>. QED
      BY <3>4 DEF c, d
  <2>. QED
    BY <2>2, <2>3, <2>8
<1>9. N \in P
  <2>1. Nat \subseteq P
    <3>. HIDE DEF P
    <3>. QED
      BY <1>7, <1>8, Induct
  <2>. QED
    BY <1>0, <2>1
<1>10. \A x : Upto(N, x) = Occurrences(s, x)
  BY <1>0 DEF Occurrences
<1>11. h[DOMAIN s] = counts(N)
  BY <1>0, <1>9
<1>12. counts(N) = Numbers(C, s)
  <2>. HIDE DEF Upto
  <2>. QED
    BY <1>10 DEF Numbers
<1>. QED
  BY <1>5, <1>11, <1>12

-----------------------------------------------------------------------------
(* What AddCommands and Gather do to the objects of a thread. *)

(* find_if finds an object of the module, if there is one. *)
LEMMA FindOne ==
  ASSUME NEW m \in Seq(ModuleTypes), NEW id
  PROVE  \/ /\ Find(m, id) = 0
            /\ \A i \in DOMAIN m : m[i].m_id # id
         \/ /\ Find(m, id) \in DOMAIN m
            /\ m[Find(m, id)].m_id = id
<1>. DEFINE I == {i \in 1 .. Len(m) : m[i].m_id = id}
<1>1. Find(m, id) = IF I # {} THEN Min(I) ELSE 0
  BY DEF Find, SelectInSeq
<1>2. I # {} => Min(I) \in I
  <2>. SUFFICES ASSUME I # {} PROVE Min(I) \in I
    OBVIOUS
  <2>1. \E x \in I : \A y \in I : x <= y
    <3>1. I \subseteq Nat
      OBVIOUS
    <3>. HIDE DEF I
    <3>. QED
      BY <3>1, Least
  <2>. QED
    BY <2>1 DEF Min
<1>3. DOMAIN m = 1 .. Len(m)
  OBVIOUS
<1>. QED
  BY <1>1, <1>2, <1>3

(* AddCommands touches the object of one module, which it may create. *)
Added(new, m, id, commands) ==
  /\ new \in Seq(ModuleTypes) /\ Distinct(new)
  /\ \A i \in DOMAIN m : i \in DOMAIN new /\ new[i].m_id = m[i].m_id
  /\ \E k \in DOMAIN new :
       /\ new[k].m_id = id
       /\ \A i \in DOMAIN new : i # k => i \in DOMAIN m /\ new[i] = m[i]
       /\ \/ /\ k \in DOMAIN m
             /\ new[k].m_commands = m[k].m_commands \o commands
             /\ new[k].m_usage = m[k].m_usage
          \/ /\ \A i \in DOMAIN m : m[i].m_id # id
             /\ new[k].m_commands = commands /\ DOMAIN new[k].m_usage = {}

(* AddCommands does that, whether or not it finds the object. *)
LEMMA AddsToOne ==
  ASSUME NEW m \in Seq(ModuleTypes), NEW id \in DOMAIN moduleNames, NEW commands \in Seq(Cmds),
         Distinct(m)
  PROVE  Added(AddCommands(m, id, commands), m, id, commands)
<1>. USE DEF Distinct
<1>. DEFINE M == ModuleAnalytics(id)
            data == IF Find(m, id) = 0 THEN Append(m, M) ELSE m
            k == Find(data, id)
            new == AddCommands(m, id, commands)
<1>1. M \in ModuleTypes /\ M.m_id = id /\ M.m_commands = <<>> /\ DOMAIN M.m_usage = {}
  <2>1. [c \in {} |-> 0] \in [{} -> Nat] /\ {} \in SUBSET Cmds
    OBVIOUS
  <2>2. [c \in {} |-> 0] \in Usages(Cmds)
    BY <2>1 DEF Usages
  <2>3. <<>> \in Seq(Cmds)
    OBVIOUS
  <2>. QED
    BY <2>2, <2>3 DEF ModuleAnalytics, ModuleTypes
<1>. HIDE DEF M
<1>2. /\ data \in Seq(ModuleTypes)
      /\ \A i \in DOMAIN m : i \in DOMAIN data /\ data[i] = m[i]
      /\ \A i, j \in DOMAIN data : data[i].m_id = data[j].m_id => i = j
      /\ k \in DOMAIN data /\ data[k].m_id = id
      /\ \/ data = m
         \/ /\ \A i \in DOMAIN m : m[i].m_id # id
            /\ data[k] = M /\ \A i \in DOMAIN data : i # k => i \in DOMAIN m
  <2>1. CASE Find(m, id) = 0
    <3>1. data = Append(m, M)
      BY <2>1
    <3>2. \A i \in DOMAIN m : m[i].m_id # id
      BY <2>1, FindOne
    <3>. HIDE DEF data
    <3>3. /\ data \in Seq(ModuleTypes) /\ Len(data) = Len(m) + 1
          /\ \A i \in 1 .. Len(m) : data[i] = m[i]
          /\ data[Len(m) + 1] = M
      BY <1>1, <3>1, AppendProperties
    <3>4. DOMAIN data = 1 .. Len(m) + 1 /\ DOMAIN m = 1 .. Len(m) /\ Len(m) \in Nat
      BY <3>3, LenProperties
    <3>5. \A i \in DOMAIN data : data[i].m_id = id => i = Len(m) + 1
      BY <3>2, <3>3, <3>4
    <3>6. k \in DOMAIN data /\ data[k].m_id = id
      <4>1. Len(m) + 1 \in DOMAIN data /\ data[Len(m) + 1].m_id = id
        BY <1>1, <3>3, <3>4
      <4>. QED
        BY <3>3, <4>1, FindOne
    <3>7. k = Len(m) + 1
      BY <3>5, <3>6
    <3>8. \A i, j \in DOMAIN data : data[i].m_id = data[j].m_id => i = j
      BY <1>1, <3>3, <3>4, <3>5
    <3>. QED
      BY <3>2, <3>3, <3>4, <3>6, <3>7, <3>8
  <2>2. CASE Find(m, id) # 0
    <3>1. data = m
      BY <2>2
    <3>2. Find(m, id) \in DOMAIN m /\ m[Find(m, id)].m_id = id
      BY <2>2, FindOne
    <3>. QED
      BY <3>1, <3>2
  <2>. QED
    BY <2>1, <2>2
<1>3. new = [data EXCEPT ![k].m_commands = @ \o commands]
  BY DEF AddCommands, M
<1>. HIDE DEF data, k, new
<1>4. /\ DOMAIN new = DOMAIN data
      /\ \A i \in DOMAIN data : i # k => new[i] = data[i]
      /\ new[k] = [data[k] EXCEPT !.m_commands = @ \o commands]
  BY <1>2, <1>3
<1>5. data[k] \in ModuleTypes
  BY <1>2
<1>6. data[k].m_commands \o commands \in Seq(Cmds)
  BY <1>5, ConcatProperties DEF ModuleTypes
<1>7. /\ new[k] \in ModuleTypes /\ new[k].m_id = id
      /\ new[k].m_commands = data[k].m_commands \o commands
      /\ new[k].m_usage = data[k].m_usage
  BY <1>2, <1>4, <1>5, <1>6 DEF ModuleTypes
<1>8. new \in Seq(ModuleTypes)
  <2>1. new = [data EXCEPT ![k] = new[k]]
    BY <1>2, <1>3, <1>4
  <2>2. k \in 1 .. Len(data)
    BY <1>2
  <2>3. [data EXCEPT ![k] = new[k]] \in Seq(ModuleTypes)
    BY <1>2, <1>7, <2>2, ExceptSeq
  <2>. QED
    BY <2>1, <2>3
<1>9. \A i \in DOMAIN data : new[i].m_id = data[i].m_id
  BY <1>2, <1>4, <1>7
<1>10. data[k] = M => new[k].m_commands = commands
  <2>1. <<>> \o commands = commands
    BY ConcatEmptySeq
  <2>. QED
    BY <1>1, <1>7, <2>1
<1>11. /\ k \in DOMAIN new /\ new[k].m_id = id
       /\ \A i \in DOMAIN new : i # k => i \in DOMAIN m /\ new[i] = m[i]
       /\ \/ /\ k \in DOMAIN m
             /\ new[k].m_commands = m[k].m_commands \o commands
             /\ new[k].m_usage = m[k].m_usage
          \/ /\ \A i \in DOMAIN m : m[i].m_id # id
             /\ new[k].m_commands = commands /\ DOMAIN new[k].m_usage = {}
  BY <1>1, <1>2, <1>4, <1>7, <1>10
<1>12. Distinct(new)
  BY <1>2, <1>4, <1>9
<1>13. \A i \in DOMAIN m : i \in DOMAIN new /\ new[i].m_id = m[i].m_id
  BY <1>2, <1>4, <1>9
<1>. QED
  BY <1>8, <1>11, <1>12, <1>13 DEF new, Added

(* Which module a command was selected for is written down beside it. *)
LEMMA OccurrencesTagged ==
  ASSUME NEW s \in Seq(Cmds), NEW id \in DOMAIN moduleNames
  PROVE  LET tagged == [i \in DOMAIN s |-> <<id, s[i]>>]
         IN  /\ tagged \in Seq(Tags) /\ Len(tagged) = Len(s)
             /\ \A d, x : Occurrences(tagged, <<d, x>>) = IF d = id THEN Occurrences(s, x) ELSE 0
<1>. DEFINE tagged == [i \in DOMAIN s |-> <<id, s[i]>>]
<1>1. DOMAIN s = 1 .. Len(s) /\ Len(s) \in Nat
  OBVIOUS
<1>2. tagged \in Seq(Tags) /\ Len(tagged) = Len(s)
  <2>1. \A i \in 1 .. Len(s) : <<id, s[i]>> \in Tags
    BY DEF Tags
  <2>. QED
    BY <1>1, <2>1
<1>3. ASSUME NEW d, NEW x
      PROVE  Occurrences(tagged, <<d, x>>) = IF d = id THEN Occurrences(s, x) ELSE 0
  <2>1. CASE d = id
    <3>1. {i \in DOMAIN tagged : tagged[i] = <<d, x>>} = {i \in DOMAIN s : s[i] = x}
      BY <2>1
    <3>. QED
      BY <2>1, <3>1 DEF Occurrences
  <2>2. CASE d # id
    <3>1. {i \in DOMAIN tagged : tagged[i] = <<d, x>>} = {}
      BY <2>2
    <3>. QED
      BY <2>2, <3>1, FS_EmptySet DEF Occurrences
  <2>. QED
    BY <2>1, <2>2
<1>. QED
  BY <1>2, <1>3

-----------------------------------------------------------------------------
(* The clients: every step keeps ClientInv. *)

(* What ClientInv says of one client. *)
ClientOK(c) == OneObject(c) /\ AsAsked(c) /\ Held(c) /\ Counted(c)

(* What the constants are, in one place. *)
LEMMA Constants ==
  /\ Len(Modules) \in Nat
  /\ \A i \in DOMAIN Modules :
       /\ i \in 1 .. Len(Modules)
       /\ Modules[i] \in DOMAIN moduleNames /\ Modules[i] \in DOMAIN allCommands
  /\ \A id \in DOMAIN allCommands : allCommands[id] \subseteq Cmds
  /\ Cmds \subseteq STRING \ {""}
  /\ Counts \subseteq Int
  /\ MaxId \in Nat /\ MaxTime \in Nat /\ limit \in Nat
  /\ \A id \in DOMAIN moduleNames : moduleNames[id] \in STRING
<1>1. Modules \in Seq(DOMAIN moduleNames \cap DOMAIN allCommands)
  BY ReportingAssumption
<1>2. /\ Len(Modules) \in Nat
      /\ \A i \in DOMAIN Modules :
           /\ i \in 1 .. Len(Modules)
           /\ Modules[i] \in DOMAIN moduleNames /\ Modules[i] \in DOMAIN allCommands
  <2>. DEFINE M == DOMAIN moduleNames \cap DOMAIN allCommands
  <2>1. Modules \in Seq(M)
    BY <1>1
  <2>2. \A id \in M : id \in DOMAIN moduleNames /\ id \in DOMAIN allCommands
    OBVIOUS
  <2>. HIDE DEF M
  <2>. QED
    BY <2>1, <2>2
<1>3. \A id \in DOMAIN allCommands : allCommands[id] \subseteq STRING \ {""}
  BY ReportingAssumption
<1>4. Counts \subseteq Int /\ MaxId \in Nat /\ MaxTime \in Nat /\ limit \in Nat
  BY ReportingAssumption
<1>5. \A id \in DOMAIN moduleNames : moduleNames[id] \in STRING
  BY ReportingAssumption
<1>. QED
  BY <1>2, <1>3, <1>4, <1>5 DEF Cmds, Range

(* How often a user ran a command, now and after a step. *)
LEMMA RanIs ==
  ASSUME NEW c, NEW id, NEW x
  PROVE  /\ Ran(c, id, x) = Occurrences(selected[c], <<id, x>>)
         /\ Ran(c, id, x)' = Occurrences(selected'[c], <<id, x>>)
BY DEF Ran, Occurrences

(* It is no more than what was selected altogether. *)
LEMMA RanType ==
  ASSUME NEW c \in Clients, ClientTypeOK, NEW id, NEW x
  PROVE  Ran(c, id, x) \in 0 .. Len(selected[c])
<1>1. selected[c] \in Seq(Tags)
  BY DEF ClientTypeOK
<1>2. Ran(c, id, x) = Occurrences(selected[c], <<id, x>>)
  BY RanIs
<1>3. Occurrences(selected[c], <<id, x>>) \in 0 .. Len(selected[c])
  BY <1>1, OccurrencesType
<1>. QED
  BY <1>2, <1>3

(* What holds of a thread depends on what it keeps. *)
LEMMA SameRan ==
  ASSUME NEW c, selected'[c] = selected[c]
  PROVE  /\ \A id, x : Ran(c, id, x)' = Ran(c, id, x)
         /\ Pairs(c)' = Pairs(c)
BY DEF Ran, Pairs

(* A thread that keeps all of it keeps what holds of it. *)
LEMMA SameClient ==
  ASSUME NEW c, ClientOK(c), UNCHANGED count,
         selected'[c] = selected[c], thread'[c] = thread[c], analytics'[c] = analytics[c]
  PROVE  ClientOK(c)'
<1>1. OneObject(c)'
  BY SameRan DEF ClientOK, OneObject
<1>2. AsAsked(c)'
  BY DEF ClientOK, AsAsked
<1>3. Held(c)'
  BY SameRan DEF ClientOK, Held
<1>4. Counted(c)'
  BY SameRan DEF ClientOK, Counted
<1>. QED
  BY <1>1, <1>2, <1>3, <1>4 DEF ClientOK

(* CollectCommands adds what it selects to the object of its module, and   *)
(* to nothing else.                                                        *)
LEMMA CollectStep ==
  ASSUME ClientInv, NEW c \in Clients, CollectCommands(c)
  PROVE  ClientInv'
<1>. DEFINE id == Modules[thread[c]]
<1>1. /\ ClientTypeOK /\ ClientOK(c)
      /\ id \in DOMAIN moduleNames /\ id \in DOMAIN allCommands
      /\ thread[c] \in 1 .. Len(Modules) /\ Len(Modules) \in Nat
  <2>1. ClientTypeOK /\ ClientOK(c)
    BY DEF ClientInv, ClientOK
  <2>2. thread[c] \in DOMAIN Modules
    BY DEF CollectCommands, AtModule
  <2>. QED
    BY <2>1, <2>2, Constants
<1>2. PICK commands \in [1 .. count -> allCommands[id]] :
        /\ analytics' = [analytics EXCEPT ![c] = AddCommands(@, id, commands)]
        /\ selected' = [selected EXCEPT ![c] = @ \o [i \in DOMAIN commands |-> <<id, commands[i]>>]]
  BY DEF CollectCommands, GetCommandSelection
<1>3. count \in Nat
  <2>1. count \in Int
    BY <1>1, Constants DEF ClientTypeOK
  <2>. QED
    BY <2>1 DEF CollectCommands, SelectionThrows
<1>4. commands \in Seq(Cmds) /\ Len(commands) = count
  <2>1. allCommands[id] \subseteq Cmds
    BY <1>1, Constants
  <2>2. commands \in [1 .. count -> Cmds]
    BY <2>1
  <2>. QED
    BY <1>3, <2>2
<1>. DEFINE tagged == [i \in DOMAIN commands |-> <<id, commands[i]>>]
            new == AddCommands(analytics[c], id, commands)
<1>5. /\ thread' = [thread EXCEPT ![c] = @ + 1] /\ UNCHANGED <<clock, count>>
  BY DEF CollectCommands, Goes
<1>6. /\ thread'[c] = thread[c] + 1 /\ analytics'[c] = new /\ selected'[c] = selected[c] \o tagged
      /\ \A d \in Clients : d # c =>
           thread'[d] = thread[d] /\ analytics'[d] = analytics[d] /\ selected'[d] = selected[d]
  BY <1>1, <1>2, <1>5 DEF ClientTypeOK
<1>7. /\ analytics[c] \in Seq(ModuleTypes)
      /\ selected[c] \in Seq(Tags)
      /\ Distinct(analytics[c])
  BY <1>1 DEF ClientTypeOK, ClientOK, OneObject
<1>8. /\ tagged \in Seq(Tags) /\ Len(tagged) = count
      /\ \A d, x : Occurrences(tagged, <<d, x>>) = IF d = id THEN Occurrences(commands, x) ELSE 0
  BY <1>1, <1>4, OccurrencesTagged
<1>9. Added(new, analytics[c], id, commands)
  BY <1>1, <1>4, <1>7, AddsToOne
<1>10. PICK k \in DOMAIN new :
          /\ new[k].m_id = id
          /\ \A i \in DOMAIN new : i # k => i \in DOMAIN analytics[c] /\ new[i] = analytics[c][i]
          /\ \/ /\ k \in DOMAIN analytics[c]
                /\ new[k].m_commands = analytics[c][k].m_commands \o commands
                /\ new[k].m_usage = analytics[c][k].m_usage
             \/ /\ \A i \in DOMAIN analytics[c] : analytics[c][i].m_id # id
                /\ new[k].m_commands = commands /\ DOMAIN new[k].m_usage = {}
  BY <1>9 DEF Added
<1>. HIDE DEF new, tagged, id
<1>11. \A d, x : Ran(c, d, x)' = Ran(c, d, x) + IF d = id THEN Occurrences(commands, x) ELSE 0
  <2>1. ASSUME NEW d, NEW x
        PROVE  Occurrences(selected[c] \o tagged, <<d, x>>) =
                 Occurrences(selected[c], <<d, x>>) + Occurrences(tagged, <<d, x>>)
    BY <1>7, <1>8, OccurrencesOfConcat
  <2>2. \A d, x : Ran(c, d, x)' = Occurrences(selected[c] \o tagged, <<d, x>>)
    BY <1>6, RanIs
  <2>3. \A d, x : Ran(c, d, x) = Occurrences(selected[c], <<d, x>>)
    BY RanIs
  <2>. SUFFICES ASSUME NEW d, NEW x
                PROVE  Ran(c, d, x)' = Ran(c, d, x) + IF d = id THEN Occurrences(commands, x) ELSE 0
    OBVIOUS
  <2>4. Occurrences(tagged, <<d, x>>) = IF d = id THEN Occurrences(commands, x) ELSE 0
    BY <1>8
  <2>. QED
    BY <2>1, <2>2, <2>3, <2>4
<1>12. \A d, x : Ran(c, d, x) \in Nat /\ Occurrences(commands, x) \in Nat
  BY <1>1, <1>4, RanType, OccurrencesType
<1>13. ClientTypeOK'
  <2>1. thread' \in [Clients -> 1 .. Sent]
    BY <1>1, <1>5 DEF ClientTypeOK, Sent
  <2>2. selected[c] \o tagged \in Seq(Tags)
    BY <1>7, <1>8, ConcatProperties
  <2>3. selected' \in [Clients -> Seq(Tags)]
    BY <1>1, <1>2, <1>6, <2>2 DEF ClientTypeOK
  <2>4. analytics' \in [Clients -> Seq(ModuleTypes)]
    BY <1>1, <1>2, <1>6, <1>9 DEF ClientTypeOK, Added
  <2>. QED
    BY <1>1, <1>5, <2>1, <2>3, <2>4 DEF ClientTypeOK
<1>14. OneObject(c)'
  <2>1. ASSUME NEW x \in Pairs(c)' PROVE \E i \in DOMAIN new : new[i].m_id = x[1]
    <3>1. CASE x[1] = id
      BY <1>10, <3>1
    <3>2. CASE x[1] # id
      <4>1. x \in Pairs(c)
        BY <1>11, <1>12, <2>1, <3>2 DEF Pairs
      <4>2. PICK i \in DOMAIN analytics[c] : analytics[c][i].m_id = x[1]
        BY <1>1, <4>1 DEF ClientOK, OneObject
      <4>. QED
        BY <1>9, <4>2 DEF Added
    <3>. QED
      BY <3>1, <3>2
  <2>. QED
    BY <1>6, <1>9, <2>1 DEF OneObject, Added
<1>15. AsAsked(c)'
  <2>1. Len(selected'[c]) = Len(selected[c]) + count
    BY <1>6, <1>7, <1>8, ConcatProperties
  <2>2. Len(selected[c]) = (thread[c] - 1) * count
    BY <1>1 DEF ClientOK, AsAsked, Collected
  <2>3. Len(selected'[c]) = thread[c] * count
    BY <1>1, <1>3, <2>1, <2>2
  <2>4. (IF thread'[c] < Collected THEN thread'[c] - 1 ELSE Len(Modules)) = thread[c]
    BY <1>1, <1>6 DEF Collected
  <2>. QED
    BY <1>5, <2>3, <2>4 DEF AsAsked, Collected
<1>16. Held(c)'
  <2>1. thread[c] <= Collected
    BY <1>1 DEF Collected
  <2>2. \A i \in DOMAIN analytics[c] :
          /\ DOMAIN analytics[c][i].m_usage = {}
          /\ \A x \in Cmds :
               Occurrences(analytics[c][i].m_commands, x) = Ran(c, analytics[c][i].m_id, x)
    BY <1>1, <2>1 DEF ClientOK, Held
  <2>. DEFINE now(d, x) == Occurrences(selected'[c], <<d, x>>)
  <2>3. \A d, x : now(d, x) = Ran(c, d, x) + IF d = id THEN Occurrences(commands, x) ELSE 0
    BY <1>11, RanIs
  <2>. HIDE DEF now
  <2>4. ASSUME NEW i \in DOMAIN new
        PROVE  /\ DOMAIN new[i].m_usage = {}
               /\ \A x \in Cmds : Occurrences(new[i].m_commands, x) = now(new[i].m_id, x)
    <3>1. CASE i # k
      <4>1. i \in DOMAIN analytics[c] /\ new[i] = analytics[c][i]
        BY <1>10, <3>1
      <4>2. new[i].m_id # id
        BY <1>9, <1>10, <3>1 DEF Added, Distinct
      <4>. QED
        BY <1>12, <2>2, <2>3, <4>1, <4>2
    <3>2. CASE /\ i = k /\ k \in DOMAIN analytics[c]
                /\ new[k].m_commands = analytics[c][k].m_commands \o commands
                /\ new[k].m_usage = analytics[c][k].m_usage
      <4>1. analytics[c][k].m_id = id
        BY <1>9, <1>10, <3>2 DEF Added
      <4>2. analytics[c][k] \in ModuleTypes
        BY <1>7, <3>2
      <4>3. analytics[c][k].m_commands \in Seq(Cmds)
        BY <4>2 DEF ModuleTypes
      <4>4. ASSUME NEW x \in Cmds
            PROVE  Occurrences(new[k].m_commands, x) =
                     Occurrences(analytics[c][k].m_commands, x) + Occurrences(commands, x)
        BY <1>4, <3>2, <4>3, OccurrencesOfConcat
      <4>. QED
        BY <1>10, <2>2, <2>3, <3>2, <4>1, <4>4
    <3>3. CASE i = k /\ (\A j \in DOMAIN analytics[c] : analytics[c][j].m_id # id)
                /\ new[k].m_commands = commands /\ DOMAIN new[k].m_usage = {}
      <4>1. ASSUME NEW x \in Cmds PROVE Ran(c, id, x) = 0
        <5>1. \A y \in Pairs(c) : y[1] # id
          BY <1>1, <3>3 DEF ClientOK, OneObject
        <5>2. <<id, x>> \in Tags /\ <<id, x>>[1] = id /\ <<id, x>>[2] = x
          BY <1>1 DEF Tags, id
        <5>3. ~ (Ran(c, id, x) > 0)
          BY <5>1, <5>2 DEF Pairs
        <5>. QED
          BY <1>12, <5>3
      <4>. QED
        BY <1>10, <1>12, <2>3, <3>3, <4>1
    <3>. QED
      BY <1>10, <3>1, <3>2, <3>3
  <2>5. ASSUME NEW i \in DOMAIN analytics'[c], NEW x \in Cmds
        PROVE  now(analytics'[c][i].m_id, x) = Ran(c, analytics[c][i].m_id, x)'
    BY RanIs DEF now
  <2>. QED
    BY <1>6, <2>4, <2>5 DEF Held
<1>17. Counted(c)'
  BY <1>1, <1>6 DEF Counted, Collected
<1>18. \A d \in Clients : ClientOK(d)'
  <2>1. ASSUME NEW d \in Clients, d # c PROVE ClientOK(d)'
    BY <1>5, <1>6, <2>1, SameClient DEF ClientInv, ClientOK
  <2>. QED
    BY <1>14, <1>15, <1>16, <1>17, <2>1 DEF ClientOK
<1>. QED
  BY <1>13, <1>18 DEF ClientInv, ClientOK

(* Gather counts what the objects hold. *)
LEMMA GatherStep ==
  ASSUME ClientInv, NEW c \in Clients, Gather(c)
  PROVE  ClientInv'
<1>1. /\ ClientTypeOK /\ ClientOK(c) /\ thread[c] = Collected /\ Len(Modules) \in Nat
      /\ thread' = [thread EXCEPT ![c] = @ + 1]
      /\ analytics' = [analytics EXCEPT ![c] = GatherUsage(@)]
      /\ UNCHANGED <<clock, count, selected>>
  BY Constants DEF ClientInv, ClientOK, Gather, Goes
<1>. DEFINE m == analytics[c]
            new == GatherUsage(m)
            counts(i) == [x \in {y \in Cmds : Ran(c, m[i].m_id, y) > 0} |-> Ran(c, m[i].m_id, x)]
<1>2. /\ thread'[c] = thread[c] + 1 /\ analytics'[c] = new
      /\ \A d \in Clients : selected'[d] = selected[d]
      /\ \A d \in Clients : d # c => thread'[d] = thread[d] /\ analytics'[d] = analytics[d]
  BY <1>1 DEF ClientTypeOK
<1>3. m \in Seq(ModuleTypes) /\ DOMAIN m = 1 .. Len(m) /\ Len(m) \in Nat
  BY <1>1 DEF ClientTypeOK
<1>4. ASSUME NEW i \in DOMAIN m
      PROVE  /\ new[i] \in ModuleTypes /\ new[i].m_id = m[i].m_id
             /\ new[i].m_usage = counts(i)
  <2>1. m[i] \in ModuleTypes
    BY <1>3
  <2>2. m[i].m_commands \in Seq(Cmds) /\ m[i].m_usage \in Usages(Cmds)
    BY <2>1 DEF ModuleTypes
  <2>3. /\ DOMAIN m[i].m_usage = {}
        /\ \A x \in Cmds : Occurrences(m[i].m_commands, x) = Ran(c, m[i].m_id, x)
    BY <1>1 DEF ClientOK, Held, Collected
  <2>. DEFINE u == CountsOf(m[i].m_usage, m[i].m_commands)
  <2>4. u = [x \in {y \in Cmds : Occurrences(m[i].m_commands, y) > 0} |->
               Occurrences(m[i].m_commands, x)]
    <3>. DEFINE s == m[i].m_commands
                v == m[i].m_usage
    <3>1. s \in Seq(Cmds) /\ v \in Usages(Cmds) /\ DOMAIN v = {}
      BY <2>2, <2>3
    <3>. HIDE DEF s, v
    <3>2. CountsOf(v, s) = Numbers(Cmds, s)
      BY <3>1, FoldCounts
    <3>. QED
      BY <3>2 DEF s, v, Numbers
  <2>5. u = counts(i)
    BY <2>3, <2>4
  <2>6. u \in Usages(Cmds)
    <3>1. \A x \in Cmds : Ran(c, m[i].m_id, x) \in Nat
      BY <1>1, RanType
    <3>. DEFINE D == {y \in Cmds : Ran(c, m[i].m_id, y) > 0}
    <3>2. counts(i) \in [D -> Nat] /\ D \in SUBSET Cmds
      BY <3>1
    <3>. HIDE DEF D, counts, u
    <3>. QED
      BY <2>5, <3>2 DEF Usages
  <2>7. new[i] = [m[i] EXCEPT !.m_usage = u, !.m_commands = <<>>]
    BY DEF GatherUsage, CountsOf
  <2>. HIDE DEF u, counts, new
  <2>8. <<>> \in Seq(Cmds)
    OBVIOUS
  <2>. QED
    BY <2>1, <2>5, <2>6, <2>7, <2>8 DEF ModuleTypes
<1>5. DOMAIN new = DOMAIN m
  BY DEF GatherUsage
<1>6. new \in Seq(ModuleTypes)
  <2>. HIDE DEF new, m
  <2>1. new = [i \in 1 .. Len(m) |-> new[i]]
    BY <1>3, <1>5 DEF new, GatherUsage
  <2>2. \A i \in 1 .. Len(m) : new[i] \in ModuleTypes
    BY <1>3, <1>4
  <2>. QED
    BY <1>3, <2>1, <2>2
<1>. HIDE DEF new, m, counts
<1>7. ClientTypeOK'
  <2>1. thread' \in [Clients -> 1 .. Sent]
    BY <1>1 DEF ClientTypeOK, Sent, Collected
  <2>2. analytics' \in [Clients -> Seq(ModuleTypes)]
    BY <1>1, <1>2, <1>6 DEF ClientTypeOK
  <2>. QED
    BY <1>1, <2>1, <2>2 DEF ClientTypeOK
<1>8. OneObject(c)'
  <2>1. Distinct(m) /\ \A x \in Pairs(c) : \E i \in DOMAIN m : m[i].m_id = x[1]
    BY <1>1 DEF ClientOK, OneObject, m
  <2>2. Distinct(new) /\ \A x \in Pairs(c) : \E i \in DOMAIN new : new[i].m_id = x[1]
    BY <1>4, <1>5, <2>1 DEF Distinct
  <2>3. Pairs(c)' = Pairs(c)
    BY <1>2, SameRan
  <2>. QED
    BY <1>2, <2>2, <2>3 DEF OneObject, Distinct
<1>9. AsAsked(c)'
  BY <1>1, <1>2 DEF ClientOK, AsAsked, Collected
<1>10. Held(c)'
  BY <1>1, <1>2 DEF Held, Collected
<1>11. Counted(c)'
  <2>1. \A id, x : Ran(c, id, x)' = Ran(c, id, x)
    BY <1>2, SameRan
  <2>2. ASSUME NEW i \in DOMAIN new
        PROVE  new[i].m_usage =
                 [x \in {y \in Cmds : Ran(c, new[i].m_id, y) > 0} |-> Ran(c, new[i].m_id, x)]
    BY <1>4, <1>5 DEF counts
  <2>3. analytics'[c] = new
    BY <1>2
  <2>. QED
    BY <2>1, <2>2, <2>3 DEF Counted
<1>12. \A d \in Clients : ClientOK(d)'
  <2>1. ASSUME NEW d \in Clients, d # c PROVE ClientOK(d)'
    BY <1>1, <1>2, <2>1, SameClient DEF ClientInv, ClientOK
  <2>. QED
    BY <1>8, <1>9, <1>10, <1>11, <2>1 DEF ClientOK
<1>. QED
  BY <1>7, <1>12 DEF ClientInv, ClientOK

(* Sending changes nothing of what was collected. *)
LEMMA SendStep ==
  ASSUME ClientInv, NEW c \in Clients, SendAnalytics(c)
  PROVE  ClientInv'
<1>1. /\ ClientTypeOK /\ ClientOK(c) /\ thread[c] = Gathered /\ Len(Modules) \in Nat
      /\ thread' = [thread EXCEPT ![c] = @ + 1]
      /\ UNCHANGED <<clock, count, selected, analytics>>
  BY Constants DEF ClientInv, ClientOK, SendAnalytics, Goes
<1>2. /\ thread'[c] = thread[c] + 1
      /\ \A d \in Clients : d # c => thread'[d] = thread[d]
  BY <1>1 DEF ClientTypeOK
<1>3. ClientTypeOK'
  <2>1. thread' \in [Clients -> 1 .. Sent]
    BY <1>1 DEF ClientTypeOK, Sent, Gathered
  <2>. QED
    BY <1>1, <2>1 DEF ClientTypeOK
<1>4. OneObject(c)'
  BY <1>1, SameRan DEF ClientOK, OneObject
<1>5. AsAsked(c)'
  BY <1>1, <1>2 DEF ClientOK, AsAsked, Collected, Gathered
<1>6. Held(c)'
  BY <1>1, <1>2 DEF Held, Collected, Gathered
<1>7. Counted(c)'
  <2>1. thread[c] > Collected
    BY <1>1 DEF Collected, Gathered
  <2>2. \A id, x : Ran(c, id, x)' = Ran(c, id, x)
    BY <1>1, SameRan
  <2>. QED
    BY <1>1, <2>1, <2>2 DEF ClientOK, Counted
<1>8. \A d \in Clients : ClientOK(d)'
  <2>1. ASSUME NEW d \in Clients, d # c PROVE ClientOK(d)'
    BY <1>1, <1>2, <2>1, SameClient DEF ClientInv, ClientOK
  <2>. QED
    BY <1>4, <1>5, <1>6, <1>7, <2>1 DEF ClientOK
<1>. QED
  BY <1>3, <1>8 DEF ClientInv, ClientOK

(* No other step touches the clients. *)
LEMMA OtherStep ==
  ASSUME ClientInv, UNCHANGED <<count, thread, selected, analytics>>, clock' \in 0 .. MaxTime
  PROVE  ClientInv'
<1>1. ClientTypeOK'
  BY DEF ClientInv, ClientTypeOK
<1>2. \A d \in Clients : ClientOK(d)'
  BY SameClient DEF ClientInv, ClientOK
<1>. QED
  BY <1>1, <1>2 DEF ClientInv, ClientOK

(* Nothing is selected yet, and there are no objects. *)
LEMMA InitClient == Init => ClientInv
<1>. SUFFICES ASSUME Init PROVE ClientInv
  OBVIOUS
<1>1. /\ clock = 0 /\ count \in Counts /\ thread = [c \in Clients |-> 1]
      /\ analytics = [c \in Clients |-> <<>>] /\ selected = [c \in Clients |-> <<>>]
      /\ Len(Modules) \in Nat /\ MaxTime \in Nat /\ Counts \subseteq Int
  BY Constants DEF Init
<1>2. ClientTypeOK
  <2>1. <<>> \in Seq(Tags) /\ <<>> \in Seq(ModuleTypes)
    OBVIOUS
  <2>2. 1 \in 1 .. Sent
    BY <1>1 DEF Sent
  <2>. QED
    BY <1>1, <2>1, <2>2 DEF ClientTypeOK
<1>3. ASSUME NEW c \in Clients PROVE ClientOK(c)
  <2>1. selected[c] = <<>> /\ analytics[c] = <<>> /\ thread[c] = 1
    BY <1>1
  <2>2. \A id, x : Ran(c, id, x) = 0
    <3>1. \A id, x : {i \in DOMAIN selected[c] : selected[c][i] = <<id, x>>} = {}
      BY <2>1
    <3>. QED
      BY <3>1, FS_EmptySet DEF Ran
  <2>3. OneObject(c)
    BY <2>1, <2>2 DEF OneObject, Distinct, Pairs
  <2>4. AsAsked(c)
    <3>1. 0 * count = 0
      BY <1>1
    <3>2. (IF thread[c] < Collected THEN thread[c] - 1 ELSE Len(Modules)) = 0
      BY <1>1, <2>1 DEF Collected
    <3>. QED
      BY <2>1, <3>1, <3>2 DEF AsAsked
  <2>5. Held(c) /\ Counted(c)
    BY <2>1 DEF Held, Counted
  <2>. QED
    BY <2>3, <2>4, <2>5 DEF ClientOK
<1>. QED
  BY <1>2, <1>3 DEF ClientInv, ClientOK

-----------------------------------------------------------------------------
(* The text of a report, and what InsertDatabase reads in it. *)

(* A set in some order: each of its elements once. *)
LEMMA SeqsOfSet ==
  ASSUME NEW S, IsFiniteSet(S), NEW s \in SetToSeqs(S)
  PROVE  /\ s \in Seq(S) /\ DOMAIN s = 1 .. Cardinality(S) /\ Len(s) = Cardinality(S)
         /\ \A i \in DOMAIN s : s[i] \in S
         /\ \A i, j \in DOMAIN s : s[i] = s[j] => i = j
         /\ \A x \in S : \E i \in DOMAIN s : s[i] = x
<1>. DEFINE n == Cardinality(S)
<1>1. n \in Nat
  BY FS_CardinalityType
<1>2. s \in [1 .. n -> S] /\ \A i, j \in 1 .. n : i # j => s[i] # s[j]
  BY DEF SetToSeqs
<1>3. s \in Injection(1 .. n, S)
  BY <1>2 DEF Injection, IsInjective
<1>4. IsFiniteSet(1 .. n) /\ Cardinality(1 .. n) = n
  BY <1>1, FS_Interval
<1>5. s \in Surjection(1 .. n, S)
  BY <1>3, <1>4, FS_Injection
<1>6. s \in Seq(S) /\ Len(s) = n
  BY <1>1, <1>2
<1>. QED
  BY <1>2, <1>5, <1>6 DEF Surjection

(* Modules have tables of their own. *)
LEMMA Tables ==
  /\ \A id \in DOMAIN moduleNames : Table(id) # "" /\ moduleNames[id] \in STRING
  /\ \A d, e \in DOMAIN moduleNames : Table(d) = Table(e) => d = e
  /\ \A id \in DOMAIN moduleNames : Table(id) \in Range(Query!tableNames)
<1>1. DOMAIN moduleNames =
        {"SURVEY_ID", "TERRAIN_ID", "ROAD_ID", "SEWER_ID", "STORM_ID", "WATER_ID", "SIGNAGE_ID"}
  BY DEF moduleNames
<1>2. /\ Table("SURVEY_ID") = "SurveyTbl" /\ Table("TERRAIN_ID") = "TerrainTbl"
      /\ Table("ROAD_ID") = "RoadTbl" /\ Table("SEWER_ID") = "SewerTbl"
      /\ Table("STORM_ID") = "StormTbl" /\ Table("WATER_ID") = "WaterTbl"
      /\ Table("SIGNAGE_ID") = "SignageTbl"
  BY DEF Table, FindTableName, tableNames, moduleNames
<1>3. \A id \in DOMAIN moduleNames : moduleNames[id] \in STRING
  BY Constants
<1>4. {"SurveyTbl", "TerrainTbl", "RoadTbl", "SewerTbl", "StormTbl", "WaterTbl", "SignageTbl"}
        \subseteq Range(Query!tableNames)
  BY DEF Query!tableNames, Range
<1>5. \A id \in DOMAIN moduleNames : Table(id) # ""
  BY <1>1, <1>2
<1>6. \A d, e \in DOMAIN moduleNames : Table(d) = Table(e) => d = e
  BY <1>1, <1>2
<1>7. \A id \in DOMAIN moduleNames : Table(id) \in Range(Query!tableNames)
  BY <1>1, <1>2, <1>4
<1>. QED
  BY <1>3, <1>5, <1>6, <1>7

(* The words of an entry are those of a map of numbers that std::atoi can  *)
(* read: each is a line.                                                   *)
Readable(u) ==
  \A x \in DOMAIN u :
    /\ x \in STRING \ {""} /\ ToString(u[x]) \in STRING \ {""}
    /\ Number[ToString(u[x])] = u[x] /\ u[x] # 0

(* Words that say what a map of usage holds: one for each of its commands, *)
(* with its number.                                                        *)
WordsOf(words, u) ==
  /\ words \in Seq(Words)
  /\ \A k \in DOMAIN words : /\ words[k].left \in DOMAIN u /\ Usable(words[k])
                             /\ Number[Second(words[k])] = u[words[k].left]
  /\ \A k, l \in DOMAIN words : words[k].left = words[l].left => k = l
  /\ \A x \in DOMAIN u : \E k \in DOMAIN words : words[k].left = x

(* An entry of the report says what its object counted, and can be read. *)
LEMMA EntryOf ==
  ASSUME NEW module \in ModuleTypes, IsFiniteSet(DOMAIN module.m_usage), Readable(module.m_usage),
         NEW entry \in ModuleToJson(module)
  PROVE  /\ entry \in Entries /\ entry.module = moduleNames[module.m_id]
         /\ WordsOf(entry.words, module.m_usage)
<1>. DEFINE u == module.m_usage
<1>1. PICK order \in SetToSeqs(DOMAIN u) :
        entry = [keys |-> TRUE, module |-> moduleNames[module.m_id],
                 words |-> [i \in DOMAIN order |-> UsageWord(u, order[i])]]
  BY DEF ModuleToJson
<1>. HIDE DEF u
<1>2. IsFiniteSet(DOMAIN u) /\ Readable(u)
  BY DEF u
<1>. DEFINE n == Cardinality(DOMAIN u)
<1>3. /\ order \in Seq(DOMAIN u) /\ DOMAIN order = 1 .. n
      /\ \A i \in DOMAIN order : order[i] \in DOMAIN u
      /\ \A i, j \in DOMAIN order : order[i] = order[j] => i = j
      /\ \A x \in DOMAIN u : \E i \in DOMAIN order : order[i] = x
  BY <1>1, <1>2, SeqsOfSet
<1>4. n \in Nat
  BY <1>2, FS_CardinalityType
<1>. DEFINE words == [i \in DOMAIN order |-> UsageWord(u, order[i])]
<1>5. ASSUME NEW i \in DOMAIN order
      PROVE  /\ words[i] \in Words /\ words[i].left = order[i] /\ order[i] \in DOMAIN u
             /\ Usable(words[i]) /\ Number[Second(words[i])] = u[order[i]]
  <2>. DEFINE x == order[i]
              w == UsageWord(u, x)
  <2>1. x \in DOMAIN u
    BY <1>3
  <2>. HIDE DEF x
  <2>2. /\ x \in STRING /\ x # "" /\ ToString(u[x]) \in STRING /\ ToString(u[x]) # ""
        /\ Number[ToString(u[x])] = u[x] /\ u[x] # 0
    BY <1>2, <2>1 DEF Readable
  <2>3. w = [left |-> x, comma |-> TRUE, right |-> ToString(u[x])]
    BY DEF UsageWord
  <2>. HIDE DEF w
  <2>4. Second(w) = ToString(u[x])
    BY <2>3 DEF Second
  <2>5. w \in Words /\ w.left = x
    BY <2>2, <2>3 DEF Words
  <2>6. Usable(w)
    BY <2>2, <2>4, <2>5 DEF Usable
  <2>7. words[i] = w
    BY DEF w, x
  <2>. HIDE DEF words
  <2>8. /\ words[i] \in Words /\ words[i].left = x /\ x \in DOMAIN u
        /\ Usable(words[i]) /\ Number[Second(words[i])] = u[x]
    BY <2>1, <2>2, <2>4, <2>5, <2>6, <2>7
  <2>. QED
    BY <2>8 DEF x
<1>6. words \in Seq(Words) /\ DOMAIN words = DOMAIN order
  <2>1. words \in [1 .. n -> Words]
    BY <1>3, <1>5
  <2>. QED
    BY <1>3, <1>4, <2>1
<1>7. entry.words = words /\ entry.module = moduleNames[module.m_id] /\ entry.keys = TRUE
  BY <1>1
<1>8. entry \in Entries
  <2>1. moduleNames[module.m_id] \in STRING
    BY Tables DEF ModuleTypes
  <2>. HIDE DEF words
  <2>2. entry = [keys |-> TRUE, module |-> moduleNames[module.m_id], words |-> words]
    BY <1>1 DEF words
  <2>. QED
    BY <1>6, <2>1, <2>2 DEF Entries
<1>. HIDE DEF words
<1>9. WordsOf(words, u)
  BY <1>3, <1>5, <1>6 DEF WordsOf
<1>. QED
  BY <1>7, <1>8, <1>9 DEF u

(* std::atoi reads the numbers that std::to_string wrote. *)
LEMMA Numerals ==
  \A most \in Counts : \A n \in 1 .. Len(Modules) * most :
    ToString(n) \in STRING \ {""} /\ Number[ToString(n)] = n
BY ReportingAssumption

(* A user ran finitely many commands: no more than were selected. *)
LEMMA PairsFinite ==
  ASSUME ClientTypeOK, NEW c \in Clients
  PROVE  IsFiniteSet(Pairs(c))
<1>. DEFINE s == selected[c]
            I == {s[i] : i \in 1 .. Len(s)}
<1>1. s \in Seq(Tags) /\ Len(s) \in Nat /\ DOMAIN s = 1 .. Len(s)
  BY DEF ClientTypeOK
<1>2. IsFiniteSet(I)
  <2>1. IsFiniteSet(1 .. Len(s))
    BY <1>1, FS_Interval
  <2>. HIDE DEF s
  <2>. QED
    BY <2>1, ImageFinite
<1>3. ASSUME NEW x \in Pairs(c) PROVE x \in I
  <2>1. x = <<x[1], x[2]>> /\ Ran(c, x[1], x[2]) > 0
    BY DEF Pairs, Tags
  <2>2. Occurrences(s, <<x[1], x[2]>>) > 0
    BY <2>1, RanIs
  <2>3. Occurrences(s, x) > 0
    BY <2>1, <2>2
  <2>. HIDE DEF s
  <2>4. \E i \in DOMAIN s : s[i] = x
    BY <1>1, <2>3, OccurrencesType
  <2>. QED
    BY <1>1, <2>4
<1>4. Pairs(c) \subseteq I
  BY <1>3
<1>. QED
  BY <1>2, <1>4, FS_Subset

(* What a thread is about to send can be read. *)
LEMMA UsageReadable ==
  ASSUME ClientInv, NEW c \in Clients, thread[c] > Collected, NEW i \in DOMAIN analytics[c]
  PROVE  LET u == analytics[c][i].m_usage
             id == analytics[c][i].m_id
         IN  /\ analytics[c][i] \in ModuleTypes /\ id \in DOMAIN moduleNames
             /\ IsFiniteSet(DOMAIN u) /\ Readable(u)
             /\ \A x : x \in DOMAIN u <=> <<id, x>> \in Pairs(c)
             /\ \A x \in DOMAIN u : u[x] = Ran(c, id, x)
<1>. DEFINE u == analytics[c][i].m_usage
            id == analytics[c][i].m_id
<1>1. ClientTypeOK /\ ClientOK(c) /\ count \in Counts
  BY DEF ClientInv, ClientOK, ClientTypeOK
<1>2. analytics[c] \in Seq(ModuleTypes)
  BY <1>1 DEF ClientTypeOK
<1>3. analytics[c][i] \in ModuleTypes
  BY <1>2
<1>4. id \in DOMAIN moduleNames
  BY <1>3 DEF ModuleTypes
<1>5. u = [x \in {y \in Cmds : Ran(c, id, y) > 0} |-> Ran(c, id, x)]
  BY <1>1 DEF ClientOK, Counted
<1>. HIDE DEF u, id
<1>6. ASSUME NEW x PROVE x \in DOMAIN u <=> <<id, x>> \in Pairs(c)
  <2>1. <<id, x>> \in Tags <=> x \in Cmds
    BY <1>4 DEF Tags
  <2>. QED
    BY <1>5, <2>1 DEF Pairs
<1>7. \A x \in DOMAIN u : u[x] = Ran(c, id, x)
  BY <1>5
<1>8. IsFiniteSet(DOMAIN u)
  <2>1. IsFiniteSet(Pairs(c))
    BY <1>1, PairsFinite
  <2>. DEFINE f == [x \in DOMAIN u |-> <<id, x>>]
  <2>2. f \in Injection(DOMAIN u, Pairs(c))
    BY <1>6 DEF Injection, IsInjective
  <2>. QED
    BY <2>1, <2>2, FS_Injection
<1>9. ASSUME NEW x \in DOMAIN u
      PROVE  /\ x \in STRING \ {""} /\ ToString(u[x]) \in STRING \ {""}
             /\ Number[ToString(u[x])] = u[x] /\ u[x] # 0
  <2>1. x \in Cmds /\ u[x] > 0 /\ u[x] = Ran(c, id, x)
    BY <1>5
  <2>2. x \in STRING \ {""}
    BY <2>1, Constants
  <2>3. u[x] \in 0 .. Len(selected[c])
    BY <1>1, <2>1, RanType
  <2>4. Len(selected[c]) = Len(Modules) * count
    <3>1. ~ (thread[c] < Collected)
      <4>1. thread[c] \in Int /\ Collected \in Int
        <5>1. thread[c] \in 1 .. Sent
          BY <1>1 DEF ClientTypeOK
        <5>2. Len(Modules) \in Nat
          BY Constants
        <5>. QED
          BY <5>1, <5>2 DEF Collected
      <4>. QED
        BY <4>1
    <3>. QED
      BY <1>1, <3>1 DEF ClientOK, AsAsked
  <2>5. u[x] \in 1 .. Len(Modules) * count
    BY <2>1, <2>3, <2>4
  <2>7. u[x] # 0
    BY <2>1
  <2>. HIDE DEF u
  <2>6. ToString(u[x]) \in STRING \ {""} /\ Number[ToString(u[x])] = u[x]
    BY <1>1, <2>5, Numerals
  <2>. QED
    BY <2>2, <2>6, <2>7
<1>10. Readable(u)
  BY <1>9 DEF Readable
<1>. QED
  BY <1>3, <1>4, <1>6, <1>7, <1>8, <1>10 DEF u, id

(* The text that a thread sends is read as what its user did. *)
LEMMA TextTells ==
  ASSUME ClientInv, NEW c \in Clients, thread[c] > Collected, NEW text \in ToJson(analytics[c])
  PROVE  text \in Texts /\ Tells(c, UNION Says(text))
<1>. DEFINE m == analytics[c]
            D == DOMAIN m
            lines == UNION Says(text)
<1>1. /\ ClientTypeOK /\ OneObject(c)
      /\ m \in Seq(ModuleTypes) /\ D = 1 .. Len(m) /\ Len(m) \in Nat
  BY DEF ClientInv, ClientTypeOK
<1>2. PICK e : /\ text = [parses |-> TRUE, header |-> TRUE, entries |-> e]
               /\ DOMAIN e = D /\ e = [i \in D |-> e[i]]
               /\ \A i \in D : e[i] \in ModuleToJson(m[i])
  BY DEF ToJson
<1>. HIDE DEF m, lines, D
<1>3. ASSUME NEW i \in D
      PROVE  /\ m[i] \in ModuleTypes /\ IsFiniteSet(DOMAIN m[i].m_usage) /\ Readable(m[i].m_usage)
             /\ m[i].m_id \in DOMAIN moduleNames
             /\ \A x : x \in DOMAIN m[i].m_usage <=> <<m[i].m_id, x>> \in Pairs(c)
             /\ \A x \in DOMAIN m[i].m_usage : m[i].m_usage[x] = Ran(c, m[i].m_id, x)
  BY UsageReadable DEF m, D
<1>4. ASSUME NEW i \in D
      PROVE  /\ e[i] \in Entries /\ FindTableName(e[i].module) = Table(m[i].m_id)
             /\ WordsOf(e[i].words, m[i].m_usage)
  <2>1. /\ e[i] \in Entries /\ e[i].module = moduleNames[m[i].m_id]
        /\ WordsOf(e[i].words, m[i].m_usage)
    BY <1>2, <1>3, EntryOf
  <2>. QED
    BY <2>1 DEF Table
<1>5. text \in Texts
  <2>1. e \in Seq(Entries)
    BY <1>1, <1>2, <1>4
  <2>. QED
    BY <1>2, <2>1 DEF Texts
<1>. DEFINE Line(j, k) ==
       [table |-> FindTableName(e[j].module), Command |-> e[j].words[k].left,
        Count |-> Number[Second(e[j].words[k])], entry |-> j, word |-> k]
<1>6. \A l : l \in lines <=> \E j \in D : \E k \in DOMAIN e[j].words : l = Line(j, k)
  <2>1. ASSUME NEW j \in D
        PROVE  Lines(text, j) = {Line(j, k) : k \in DOMAIN e[j].words}
    <3>1. FindTableName(e[j].module) # ""
      BY <1>3, <1>4, Tables
    <3>2. {w \in DOMAIN e[j].words : Usable(e[j].words[w])} = DOMAIN e[j].words
      BY <1>4 DEF WordsOf
    <3>3. text.entries[j] = e[j]
      BY <1>2
    <3>. QED
      BY <3>1, <3>2, <3>3 DEF Lines
  <2>2. lines = UNION {Lines(text, j) : j \in D}
    BY <1>2 DEF lines, Says
  <2>. HIDE DEF Line
  <2>. QED
    BY <2>1, <2>2
<1>7. ASSUME NEW j \in D, NEW k \in DOMAIN e[j].words
      PROVE  /\ <<m[j].m_id, e[j].words[k].left>> \in Pairs(c)
             /\ Line(j, k).table = Table(m[j].m_id) /\ Line(j, k).Command = e[j].words[k].left
             /\ Line(j, k).Count = Ran(c, m[j].m_id, e[j].words[k].left)
  <2>1. /\ e[j].words[k].left \in DOMAIN m[j].m_usage
        /\ Number[Second(e[j].words[k])] = m[j].m_usage[e[j].words[k].left]
    BY <1>4 DEF WordsOf
  <2>. QED
    BY <1>3, <1>4, <2>1
<1>8. ASSUME NEW l \in lines
      PROVE  \E x \in Pairs(c) :
               l.table = Table(x[1]) /\ l.Command = x[2] /\ l.Count = Ran(c, x[1], x[2])
  <2>0. PICK j \in D : \E k \in DOMAIN e[j].words : l = Line(j, k)
    BY <1>6
  <2>1. PICK k \in DOMAIN e[j].words : l = Line(j, k)
    BY <2>0
  <2>. DEFINE x == <<m[j].m_id, e[j].words[k].left>>
  <2>2. x[1] = m[j].m_id /\ x[2] = e[j].words[k].left
    OBVIOUS
  <2>. HIDE DEF x, Line
  <2>3. x \in Pairs(c)
    BY <1>7 DEF x
  <2>. QED
    BY <1>7, <2>1, <2>2, <2>3
<1>9. ASSUME NEW x \in Pairs(c)
      PROVE  \E l \in lines : l.table = Table(x[1]) /\ l.Command = x[2]
  <2>1. PICK j \in D : m[j].m_id = x[1]
    BY <1>1 DEF OneObject, m, D
  <2>2. x = <<m[j].m_id, x[2]>>
    BY <2>1 DEF Pairs, Tags
  <2>3. x[2] \in DOMAIN m[j].m_usage
    BY <1>3, <2>2
  <2>4. PICK k \in DOMAIN e[j].words : e[j].words[k].left = x[2]
    BY <1>4, <2>3 DEF WordsOf
  <2>5. Line(j, k).table = Table(x[1]) /\ Line(j, k).Command = x[2]
    BY <1>7, <2>1, <2>4
  <2>. HIDE DEF Line
  <2>6. Line(j, k) \in lines
    BY <1>6
  <2>. QED
    BY <2>5, <2>6
<1>10. ASSUME NEW l \in lines, NEW n \in lines, l.table = n.table, l.Command = n.Command
       PROVE  l = n
  <2>0. PICK j \in D : \E k \in DOMAIN e[j].words : l = Line(j, k)
    BY <1>6
  <2>1. PICK k \in DOMAIN e[j].words : l = Line(j, k)
    BY <2>0
  <2>10. PICK i \in D : \E h \in DOMAIN e[i].words : n = Line(i, h)
    BY <1>6
  <2>2. PICK h \in DOMAIN e[i].words : n = Line(i, h)
    BY <2>10
  <2>3. Table(m[j].m_id) = Table(m[i].m_id) /\ e[j].words[k].left = e[i].words[h].left
    <3>. HIDE DEF Line
    <3>. QED
      BY <1>7, <1>10, <2>1, <2>2
  <2>4. m[j].m_id = m[i].m_id
    BY <1>3, <2>3, Tables
  <2>5. i = j
    BY <1>1, <2>4 DEF OneObject, Distinct, m, D
  <2>6. k = h
    BY <1>4, <2>3, <2>5 DEF WordsOf
  <2>. QED
    BY <2>1, <2>2, <2>5, <2>6
<1>11. Tells(c, lines)
  BY <1>8, <1>9, <1>10 DEF Tells
<1>. QED
  BY <1>5, <1>11 DEF lines

-----------------------------------------------------------------------------
(* The way of a report to the database. *)

(* A report that tells what its sender did goes on doing so, since the     *)
(* sender is done.                                                         *)
LEMMA ToldStays ==
  ASSUME \A c \in Clients : thread[c] = Sent => thread'[c] = Sent /\ selected'[c] = selected[c]
  PROVE  Told \subseteq Told'
<1>1. ASSUME NEW r \in Told PROVE r \in Told'
  <2>. DEFINE c == r.from
              lines == UNION Says(r.text)
  <2>1. r \in Reports /\ c \in Clients /\ thread[c] = Sent /\ Tells(c, lines)
    BY DEF Told, Reports
  <2>. HIDE DEF c, lines
  <2>2. thread'[c] = Sent /\ selected'[c] = selected[c]
    BY <2>1
  <2>3. /\ \A id, x : Ran(c, id, x)' = Ran(c, id, x)
        /\ Pairs(c)' = Pairs(c)
    BY <2>2, SameRan
  <2>4. Tells(c, lines)'
    BY <2>1, <2>3 DEF Tells
  <2>. QED
    BY <2>1, <2>2, <2>4 DEF Told, c, lines, Reports, Sent
<1>. QED
  BY <1>1

(* What a report says does not depend on a step that leaves it where it    *)
(* is.                                                                     *)
LEMMA StoreKept ==
  ASSUME StoreInv, SentOnce, Told \subseteq Told', UNCHANGED <<inFlight, inbox, stored, instances>>
  PROVE  StoreInv' /\ SentOnce'
<1>1. StoreInv'
  BY DEF StoreInv
<1>2. SentOnce'
  BY DEF SentOnce
<1>. QED
  BY <1>1, <1>2

(* Collecting and gathering come before the report. *)
LEMMA WorkStep ==
  ASSUME ClientInv, StoreInv, SentOnce, NEW c \in Clients, CollectCommands(c) \/ Gather(c)
  PROVE  StoreInv' /\ SentOnce'
<1>1. thread \in [Clients -> 1 .. Sent] /\ Len(Modules) \in Nat
      /\ selected \in [Clients -> Seq(Tags)]
  BY Constants DEF ClientInv, ClientTypeOK
<1>2. UNCHANGED <<inFlight, inbox, stored, instances>>
  BY DEF CollectCommands, Gather, storeVars
<1>3. /\ thread[c] # Sent
      /\ \A d \in Clients : d # c => thread'[d] = thread[d] /\ selected'[d] = selected[d]
  <2>1. CASE CollectCommands(c)
    <3>1. thread[c] \in 1 .. Len(Modules)
      BY <2>1, Constants DEF CollectCommands, AtModule
    <3>2. \A d \in Clients : d # c => thread'[d] = thread[d] /\ selected'[d] = selected[d]
      BY <1>1, <2>1 DEF CollectCommands, Goes
    <3>. QED
      BY <1>1, <3>1, <3>2 DEF Sent
  <2>2. CASE Gather(c)
    BY <1>1, <2>2 DEF Gather, Goes, Collected, Sent
  <2>. QED
    BY <2>1, <2>2
<1>4. Told \subseteq Told'
  BY <1>3, ToldStays
<1>. QED
  BY <1>2, <1>4, StoreKept

(* A report is sent when its thread is done, and only then. *)
LEMMA SendStoreStep ==
  ASSUME ClientInv, StoreInv, SentOnce, NEW c \in Clients, SendAnalytics(c)
  PROVE  StoreInv' /\ SentOnce'
<1>1. PICK text \in ToJson(analytics[c]) :
        inFlight' = inFlight \cup {[from |-> c, DateTime |-> clock, text |-> text]}
  BY DEF SendAnalytics
<1>. DEFINE r == [from |-> c, DateTime |-> clock, text |-> text]
<1>2. /\ thread \in [Clients -> 1 .. Sent] /\ clock \in 0 .. MaxTime
      /\ Len(Modules) \in Nat
      /\ thread[c] = Gathered /\ thread' = [thread EXCEPT ![c] = @ + 1]
      /\ UNCHANGED <<selected, inbox, stored, instances>>
  BY Constants DEF ClientInv, ClientTypeOK, SendAnalytics, Goes, storeVars
<1>3. thread'[c] = Sent /\ thread[c] > Collected /\ thread[c] # Sent
      /\ \A d \in Clients : d # c => thread'[d] = thread[d]
  BY <1>2 DEF Sent, Gathered, Collected
<1>4. Told \subseteq Told'
  BY <1>2, <1>3, ToldStays
<1>5. r \in Reports /\ r.from = c /\ r.text = text
  <2>1. text \in Texts
    BY <1>3, TextTells
  <2>. QED
    BY <1>2, <2>1 DEF Reports
<1>. HIDE DEF r
<1>6. Tells(c, UNION Says(text))'
  <2>. DEFINE lines == UNION Says(text)
  <2>1. Tells(c, lines)
    BY <1>3, TextTells
  <2>2. /\ \A id, x : Ran(c, id, x)' = Ran(c, id, x)
        /\ Pairs(c)' = Pairs(c)
    BY <1>2, SameRan
  <2>. HIDE DEF lines
  <2>3. Tells(c, lines)'
    BY <2>1, <2>2 DEF Tells
  <2>. QED
    BY <2>3 DEF lines
<1>7. r \in Told'
  BY <1>3, <1>5, <1>6 DEF Told, Reports, Sent
<1>8. \A s \in Told : s.from # c
  BY <1>3 DEF Told
<1>9. inFlight' = inFlight \cup {r}
  BY <1>1 DEF r
<1>10. StoreInv'
  BY <1>2, <1>4, <1>7, <1>9 DEF StoreInv
<1>11. SentOnce'
  <2>1. /\ \A s \in inFlight : s.from # c
        /\ \A id \in DOMAIN instances : instances[id].from # c
        /\ inbox # NoReport => inbox.from # c
    BY <1>8 DEF StoreInv
  <2>. QED
    BY <1>2, <1>5, <1>9, <2>1 DEF SentOnce
<1>. QED
  BY <1>10, <1>11

(* The server takes a report from the network. *)
LEMMA TakeStep ==
  ASSUME StoreInv, SentOnce, TakeReport
  PROVE  StoreInv' /\ SentOnce'
<1>1. PICK r \in inFlight : /\ inbox' = r /\ inFlight' = inFlight \ {r}
                            /\ UNCHANGED <<stored, instances, thread, selected>>
  BY DEF TakeReport, Store!Submit, clientVars
<1>2. Told \subseteq Told'
  BY <1>1, ToldStays
<1>3. StoreInv'
  BY <1>1, <1>2 DEF StoreInv
<1>4. SentOnce'
  BY <1>1 DEF SentOnce
<1>. QED
  BY <1>3, <1>4

(* The server stores what it works on under a number of its own, or not. *)
Grows ==
  /\ inFlight' = inFlight /\ inbox' \in {inbox, NoReport}
  /\ \A id \in DOMAIN instances : stored'[id] = stored[id] /\ instances'[id] = instances[id]
  /\ DOMAIN instances' = DOMAIN stored'
  /\ \/ DOMAIN stored' = DOMAIN stored
     \/ \E new \in 1 .. MaxId :
          /\ DOMAIN stored' = DOMAIN stored \cup {new} /\ \A old \in DOMAIN stored : old < new
          /\ inbox # NoReport /\ inbox' = NoReport /\ instances'[new] = inbox
          /\ stored'[new] = UNION Says(inbox.text) /\ stored'[new] # {}

(* That is what InsertDatabase does, read as ReportStore: begin, insert,   *)
(* commit or not.                                                          *)
LEMMA ServeGrows ==
  ASSUME StoreInv, Serve
  PROVE  Grows
<1>1. /\ DOMAIN stored = DOMAIN instances /\ DOMAIN instances \subseteq 1 .. MaxId
      /\ inbox # NoReport => inbox \in Reports
  BY DEF StoreInv, Told
<1>2. /\ inFlight' = inFlight
      /\ instances' = [id \in DOMAIN stored' |->
                       IF id \in DOMAIN instances THEN instances[id] ELSE inbox]
  BY DEF Serve
<1>3. CASE UNCHANGED stored /\ inbox' \in {inbox, NoReport}
  BY <1>1, <1>2, <1>3 DEF Grows
<1>4. CASE inbox' = NoReport /\ \E new \in 1 .. MaxId : Store!StoreAs(new)
  <2>1. PICK new \in 1 .. MaxId : Store!StoreAs(new)
    BY <1>4
  <2>. DEFINE content == Says(inbox.text)
  <2>2. /\ inbox # NoReport /\ \A old \in DOMAIN stored : old < new
        /\ \E kept \in (SUBSET content) \ {{}} :
             /\ kept = content
             /\ stored' = [i \in DOMAIN stored \cup {new} |->
                           IF i = new THEN UNION kept ELSE stored[i]]
    BY <1>1, <2>1 DEF Store!StoreAs, Reports
  <2>3. content # {} /\ {} \notin content
    BY <2>2 DEF Says
  <2>. HIDE DEF content
  <2>4. /\ stored' = [i \in DOMAIN stored \cup {new} |->
                      IF i = new THEN UNION content ELSE stored[i]]
    BY <2>2
  <2>5. UNION content # {}
    BY <2>3
  <2>6. new \notin DOMAIN stored
    BY <2>2
  <2>7. /\ DOMAIN stored' = DOMAIN stored \cup {new} /\ stored'[new] = UNION content
        /\ \A id \in DOMAIN instances : stored'[id] = stored[id] /\ instances'[id] = instances[id]
        /\ DOMAIN instances' = DOMAIN stored' /\ instances'[new] = inbox
    BY <1>1, <1>2, <2>4, <2>6
  <2>. QED
    BY <1>2, <1>4, <2>2, <2>5, <2>7 DEF Grows, content
<1>5. (UNCHANGED stored /\ inbox' \in {inbox, NoReport})
      \/ (inbox' = NoReport /\ \E new \in 1 .. MaxId : Store!StoreAs(new))
  BY DEF Serve, Store!Store, Store!Discard, Store!Die, Store!Restart
<1>. QED
  BY <1>3, <1>4, <1>5

(* So what is committed goes on telling what its senders did. *)
LEMMA ServeStep ==
  ASSUME StoreInv, SentOnce, Grows, UNCHANGED <<thread, selected>>
  PROVE  StoreInv' /\ SentOnce'
<1>1. Told \subseteq Told'
  BY ToldStays
<1>2. CASE DOMAIN stored' = DOMAIN stored
  <2>1. StoreInv'
    BY <1>1, <1>2 DEF StoreInv, Grows
  <2>2. SentOnce'
    BY <1>2 DEF SentOnce, StoreInv, Grows
  <2>. QED
    BY <2>1, <2>2
<1>3. CASE \E new \in 1 .. MaxId :
          /\ DOMAIN stored' = DOMAIN stored \cup {new} /\ \A old \in DOMAIN stored : old < new
          /\ inbox # NoReport /\ inbox' = NoReport /\ instances'[new] = inbox
          /\ stored'[new] = UNION Says(inbox.text) /\ stored'[new] # {}
  <2>1. PICK new \in 1 .. MaxId :
          /\ DOMAIN stored' = DOMAIN stored \cup {new} /\ \A old \in DOMAIN stored : old < new
          /\ inbox # NoReport /\ inbox' = NoReport /\ instances'[new] = inbox
          /\ stored'[new] = UNION Says(inbox.text) /\ stored'[new] # {}
    BY <1>3
  <2>2. /\ inFlight' = inFlight /\ DOMAIN instances' = DOMAIN instances \cup {new}
        /\ DOMAIN stored' = DOMAIN instances'
        /\ \A id \in DOMAIN instances : stored'[id] = stored[id] /\ instances'[id] = instances[id]
    BY <2>1 DEF Grows, StoreInv
  <2>3. StoreInv'
    BY <1>1, <2>1, <2>2 DEF StoreInv
  <2>4. SentOnce'
    BY <2>1, <2>2 DEF SentOnce
  <2>. QED
    BY <2>3, <2>4
<1>. QED
  BY <1>2, <1>3 DEF Grows

(* There are no reports yet. *)
LEMMA InitStore == Init => StoreInv /\ SentOnce
<1>. SUFFICES ASSUME Init PROVE StoreInv /\ SentOnce
  OBVIOUS
<1>1. /\ inFlight = {} /\ inbox = NoReport /\ stored = [i \in {} |-> {}]
      /\ instances = [id \in {} |-> NoReport]
  BY DEF Init, Store!Init
<1>2. DOMAIN stored = {} /\ DOMAIN instances = {}
  BY <1>1
<1>. QED
  BY <1>1, <1>2 DEF StoreInv, SentOnce

-----------------------------------------------------------------------------
(* What the reports say. *)

(* The lines that tell what a user did are as many as the commands. *)
LEMMA TellsEach ==
  ASSUME NEW c, NEW lines, Tells(c, lines), IsFiniteSet(Pairs(c))
  PROVE  IsFiniteSet(lines) /\ Cardinality(lines) = Cardinality(Pairs(c))
<1>. DEFINE f == [l \in lines |-> CHOOSE x \in Pairs(c) : l.table = Table(x[1]) /\ l.Command = x[2]]
<1>1. ASSUME NEW l \in lines
      PROVE  f[l] \in Pairs(c) /\ l.table = Table(f[l][1]) /\ l.Command = f[l][2]
  <2>1. \E x \in Pairs(c) : l.table = Table(x[1]) /\ l.Command = x[2]
    BY DEF Tells
  <2>. QED
    BY <2>1
<1>2. DOMAIN f = lines /\ f \in [lines -> Pairs(c)]
  BY <1>1
<1>. HIDE DEF f
<1>3. ASSUME NEW l \in lines, NEW k \in lines, f[l] = f[k] PROVE l = k
  BY <1>1, <1>3 DEF Tells
<1>4. ASSUME NEW x \in Pairs(c) PROVE \E l \in lines : f[l] = x
  <2>1. PICK l \in lines : l.table = Table(x[1]) /\ l.Command = x[2]
    BY DEF Tells
  <2>2. f[l] \in Tags /\ x \in Tags
    BY <1>1 DEF Pairs
  <2>3. Table(f[l][1]) = Table(x[1]) /\ f[l][2] = x[2]
    BY <1>1, <2>1
  <2>4. f[l][1] = x[1]
    BY <2>2, <2>3, Tables DEF Tags
  <2>5. f[l] = x
    BY <2>2, <2>3, <2>4 DEF Tags
  <2>. QED
    BY <2>5
<1>5. f \in Injection(lines, Pairs(c)) /\ f \in Surjection(lines, Pairs(c))
  BY <1>2, <1>3, <1>4 DEF Injection, IsInjective, Surjection
<1>. QED
  BY <1>5, FS_Injection

(* That is what a run checks of the reports. *)
LEMMA ReportsTell ==
  ASSUME ClientInv, StoreInv
  PROVE  ReportSaysUsage
<1>. SUFFICES ASSUME NEW r \in inFlight
              PROVE  LET lines == UNION Says(r.text)
                         ran == {x \in (DOMAIN moduleNames) \X UNION Range(allCommands) :
                                   Ran(r.from, x[1], x[2]) > 0}
                     IN  /\ Cardinality(lines) = Cardinality(ran)
                         /\ {Figure(l.table, l.Command, l.Count) : l \in lines} =
                              {Figure(FindTableName(moduleNames[x[1]]), x[2],
                                      Ran(r.from, x[1], x[2])) : x \in ran}
  BY DEF ReportSaysUsage
<1>. DEFINE c == r.from
            lines == UNION Says(r.text)
            figure(x) == Figure(Table(x[1]), x[2], Ran(c, x[1], x[2]))
<1>1. c \in Clients /\ Tells(c, lines) /\ IsFiniteSet(Pairs(c))
  BY PairsFinite DEF StoreInv, Told, Reports, ClientInv
<1>. HIDE DEF c, lines
<1>2. Cardinality(lines) = Cardinality(Pairs(c))
  BY <1>1, TellsEach
<1>3. {Figure(l.table, l.Command, l.Count) : l \in lines} = {figure(x) : x \in Pairs(c)}
  <2>1. ASSUME NEW l \in lines
        PROVE  \E x \in Pairs(c) : Figure(l.table, l.Command, l.Count) = figure(x)
    BY <1>1 DEF Tells
  <2>2. ASSUME NEW x \in Pairs(c)
        PROVE  \E l \in lines : figure(x) = Figure(l.table, l.Command, l.Count)
    <3>1. PICK l \in lines : l.table = Table(x[1]) /\ l.Command = x[2]
      BY <1>1 DEF Tells
    <3>2. PICK y \in Pairs(c) : /\ l.table = Table(y[1]) /\ l.Command = y[2]
                             /\ l.Count = Ran(c, y[1], y[2])
      BY <1>1 DEF Tells
    <3>3. y[1] = x[1] /\ y[2] = x[2]
      BY <3>1, <3>2, Tables DEF Pairs, Tags
    <3>. QED
      BY <3>1, <3>2, <3>3
  <2>. HIDE DEF figure
  <2>. QED
    BY <2>1, <2>2
<1>4. Pairs(c) = {x \in (DOMAIN moduleNames) \X UNION Range(allCommands) : Ran(c, x[1], x[2]) > 0}
  BY DEF Pairs, Tags, Cmds
<1>. QED
  BY <1>2, <1>3, <1>4 DEF c, lines, Table

(* From the command that a thread selects to the lines of the database. *)
UsageInv == ClientInv /\ StoreInv /\ SentOnce

(* Every step keeps it. *)
LEMMA UsageStep == UsageInv /\ [Next]_vars => UsageInv'
<1>. SUFFICES ASSUME UsageInv, [Next]_vars PROVE UsageInv'
  OBVIOUS
<1>. USE DEF UsageInv
<1>1. ASSUME NEW c \in Clients, CollectCommands(c) PROVE UsageInv'
  BY <1>1, CollectStep, WorkStep
<1>2. ASSUME NEW c \in Clients, Gather(c) PROVE UsageInv'
  BY <1>2, GatherStep, WorkStep
<1>3. ASSUME NEW c \in Clients, SendAnalytics(c) PROVE UsageInv'
  BY <1>3, SendStep, SendStoreStep
<1>4. ASSUME UNCHANGED <<count, thread, selected, analytics>>, clock' \in 0 .. MaxTime,
             UNCHANGED <<inFlight, inbox, stored, instances>>
      PROVE  UsageInv'
  <2>1. Told \subseteq Told'
    BY <1>4, ToldStays
  <2>. QED
    BY <1>4, <2>1, OtherStep, StoreKept
<1>5. clock \in 0 .. MaxTime /\ MaxTime \in Nat
  BY Constants DEF ClientInv, ClientTypeOK
<1>6. ASSUME NEW c \in Clients, SelectionFails(c) PROVE UsageInv'
  BY <1>4, <1>5, <1>6 DEF SelectionFails, storeVars
<1>7. CASE TakeReport
  <2>1. UNCHANGED <<clock, count, thread, selected, analytics>>
    BY <1>7 DEF TakeReport, clientVars
  <2>. QED
    BY <1>5, <1>7, <2>1, OtherStep, TakeStep
<1>8. CASE Serve
  <2>1. UNCHANGED <<clock, count, thread, selected, analytics>>
    BY <1>8 DEF Serve, clientVars
  <2>2. Grows
    BY <1>8, ServeGrows
  <2>. QED
    BY <1>5, <2>1, <2>2, OtherStep, ServeStep
<1>9. CASE Ask
  BY <1>4, <1>5, <1>9 DEF Ask, clientVars, storeVars
<1>10. CASE Tick
  BY <1>4, <1>5, <1>10 DEF Tick, clientVars, storeVars
<1>11. CASE UNCHANGED vars
  BY <1>4, <1>5, <1>11 DEF vars, clientVars, storeVars
<1>. QED
  BY <1>1, <1>2, <1>3, <1>6, <1>7, <1>8, <1>9, <1>10, <1>11 DEF Next

(* Whatever the interleaving of threads, server and query, each committed  *)
(* report tells exactly what its client did: what CollectCommands          *)
(* selected, Gather counted, ToJson wrote and InsertDatabase read back.    *)
THEOREM UsageInvariant == Spec => []UsageInv
<1>1. Init => UsageInv
  BY InitClient, InitStore DEF UsageInv
<1>. QED
  BY <1>1, UsageStep, PTL DEF Spec

(* What InsertDatabase reads in a report that was sent is how often its    *)
(* user ran each command: AddCommands, Gather, ToJson and InsertDatabase   *)
(* lose nothing, and mix up neither commands nor modules.                  *)
THEOREM ReportsSayUsage == Spec => []ReportSaysUsage
<1>1. UsageInv => ReportSaysUsage
  BY ReportsTell DEF UsageInv
<1>. QED
  BY <1>1, UsageInvariant, PTL

-----------------------------------------------------------------------------
(* The query: --since. *)

(* The library's operators, as module Query has them: Cardinality ... *)
LEMMA SameCardinality == \A S : Query!Cardinality(S) = Cardinality(S)
BY DEF Query!Cardinality, Cardinality

(* ... sums ... *)
LEMMA SameSum == \A f : Query!SumFunction(f) = SumFunctionOnSet(f, DOMAIN f)
BY DEF Query!SumFunction, Query!SumFunctionOnSet, Query!FoldFunctionOnSet, Query!MapThenFoldSet,
       SumFunctionOnSet, FoldFunctionOnSet, MapThenFoldSet

(* ... and the least of a set. *)
LEMMA SameMin == \A S : Query!Min(S) = Min(S)
BY DEF Query!Min, Min

(* The order of the query's steps, for the options it was given. *)
LEMMA LeastOf ==
  ASSUME NEW T, T \subseteq Nat, NEW x \in T, \A y \in T : x <= y
  PROVE  Min(T) = x
<1>1. Min(T) \in T /\ \A y \in T : Min(T) <= y
  BY DEF Min
<1>2. Min(T) <= x /\ x <= Min(T) /\ Min(T) \in Nat /\ x \in Nat
  BY <1>1
<1>. QED
  BY <1>2

(* main connects if any option was given, and goes on to what was asked    *)
(* for.                                                                    *)
LEMMA Order ==
  ASSUME options \in SUBSET {"since", "stats"}
  PROVE  /\ Query!FirstOf(DOMAIN Query!steps) = IF options = {} THEN "done" ELSE "connecting"
         /\ options # {} => Query!After("connecting") =
              IF "since" \in options THEN "instances"
              ELSE IF "stats" \in options THEN "stats" ELSE "done"
         /\ "since" \in options => Query!After("instances") = "records"
         /\ Query!After("records") = IF "stats" \in options THEN "stats" ELSE "done"
         /\ Query!After("stats") = "done"
<1>1. /\ Query!steps = <<"connecting", "instances", "records", "stats", "done">>
      /\ DOMAIN Query!steps = 1 .. 5
  BY DEF Query!steps
<1>2. /\ Query!steps[1] = "connecting" /\ Query!steps[2] = "instances" /\ Query!steps[3] = "records"
      /\ Query!steps[4] = "stats" /\ Query!steps[5] = "done"
  BY <1>1
<1>. DEFINE asked == {i \in 1 .. 5 : Query!Asked(Query!steps[i])}
<1>3. /\ 1 \in asked <=> options # {}
      /\ 2 \in asked <=> "since" \in options
      /\ 3 \in asked <=> "since" \in options
      /\ 4 \in asked <=> "stats" \in options
      /\ 5 \in asked
  BY <1>2 DEF Query!Asked
<1>4. asked \subseteq {1, 2, 3, 4, 5}
  OBVIOUS
<1>5. ASSUME NEW k \in 0 .. 4,
             NEW n \in asked, n > k, \A y \in asked : y > k => n <= y
      PROVE  Min({i \in k + 1 .. 5 : Query!Asked(Query!steps[i])}) = n
  <2>. DEFINE T == {i \in k + 1 .. 5 : Query!Asked(Query!steps[i])}
  <2>1. T \subseteq Nat /\ n \in T /\ \A y \in T : n <= y
    BY <1>5
  <2>. HIDE DEF T
  <2>2. Min(T) = n
    BY <2>1, LeastOf
  <2>. QED
    BY <2>2 DEF T
<1>6. ASSUME NEW k \in 0 .. 4, NEW n \in asked, n > k, \A y \in asked : y > k => n <= y
      PROVE  Query!FirstOf(k + 1 .. 5) = Query!steps[n]
  BY <1>5, <1>6, SameMin DEF Query!FirstOf
<1>7. ASSUME NEW k \in 1 .. 4 PROVE Query!After(Query!steps[k]) = Query!FirstOf(k + 1 .. 5)
  <2>1. {i \in 1 .. 5 : \E j \in 1 .. i - 1 : Query!steps[j] = Query!steps[k]} = k + 1 .. 5
    BY <1>2
  <2>. QED
    BY <1>1, <2>1 DEF Query!After
<1>. HIDE DEF asked
<1>8. Query!FirstOf(DOMAIN Query!steps) = IF options = {} THEN "done" ELSE "connecting"
  <2>1. DOMAIN Query!steps = 0 + 1 .. 5
    BY <1>1
  <2>2. CASE options = {}
    <3>1. \A y \in asked : y > 0 => 5 <= y
      BY <1>3, <1>4, <2>2
    <3>. QED
      BY <1>2, <1>3, <1>6, <2>1, <2>2, <3>1
  <2>3. CASE options # {}
    <3>1. 1 \in asked /\ \A y \in asked : y > 0 => 1 <= y
      BY <1>3, <1>4, <2>3
    <3>2. Query!FirstOf(0 + 1 .. 5) = Query!steps[1]
      BY <1>6, <3>1
    <3>. QED
      BY <1>2, <2>1, <2>3, <3>2
  <2>. QED
    BY <2>2, <2>3
<1>9. options # {} => Query!After("connecting") =
        IF "since" \in options THEN "instances" ELSE IF "stats" \in options THEN "stats" ELSE "done"
  <2>1. Query!After("connecting") = Query!FirstOf(1 + 1 .. 5)
    BY <1>2, <1>7
  <2>2. CASE "since" \in options
    <3>1. \A y \in asked : y > 1 => 2 <= y
      BY <1>4
    <3>. QED
      BY <1>2, <1>3, <1>6, <2>1, <2>2, <3>1
  <2>3. CASE "since" \notin options /\ "stats" \in options
    <3>1. \A y \in asked : y > 1 => 4 <= y
      BY <1>3, <1>4, <2>3
    <3>. QED
      BY <1>2, <1>3, <1>6, <2>1, <2>3, <3>1
  <2>4. options # {} => "since" \in options \/ "stats" \in options
    OBVIOUS
  <2>. QED
    BY <2>2, <2>3, <2>4
<1>10. "since" \in options => Query!After("instances") = "records"
  <2>1. Query!After("instances") = Query!FirstOf(2 + 1 .. 5)
    BY <1>2, <1>7
  <2>2. \A y \in asked : y > 2 => 3 <= y
    BY <1>4
  <2>. QED
    BY <1>2, <1>3, <1>6, <2>1, <2>2
<1>11. Query!After("records") = IF "stats" \in options THEN "stats" ELSE "done"
  <2>1. Query!After("records") = Query!FirstOf(3 + 1 .. 5)
    BY <1>2, <1>7
  <2>2. CASE "stats" \in options
    <3>1. \A y \in asked : y > 3 => 4 <= y
      BY <1>4
    <3>. QED
      BY <1>2, <1>3, <1>6, <2>1, <2>2, <3>1
  <2>3. CASE "stats" \notin options
    <3>1. \A y \in asked : y > 3 => 5 <= y
      BY <1>3, <1>4, <2>3
    <3>. QED
      BY <1>2, <1>3, <1>6, <2>1, <2>3, <3>1
  <2>. QED
    BY <2>2, <2>3
<1>12. Query!After("stats") = "done"
  <2>1. Query!After("stats") = Query!FirstOf(4 + 1 .. 5)
    BY <1>2, <1>7
  <2>2. \A y \in asked : y > 4 => 5 <= y
    BY <1>4
  <2>. QED
    BY <1>2, <1>3, <1>6, <2>1, <2>2
<1>. QED
  BY <1>8, <1>9, <1>10, <1>11, <1>12

(* The lines of a committed report tell what a client did. *)
LEMMA StoredTells ==
  ASSUME UsageInv, NEW id \in DOMAIN instances
  PROVE  LET c == instances[id].from
         IN  /\ c \in Clients /\ Tells(c, stored[id]) /\ IsFiniteSet(Pairs(c))
             /\ IsFiniteSet(stored[id]) /\ stored[id] # {}
<1>. DEFINE c == instances[id].from
            lines == stored[id]
<1>1. c \in Clients /\ Tells(c, lines) /\ lines # {}
  BY DEF UsageInv, StoreInv, Told, Reports
<1>. HIDE DEF c, lines
<1>2. IsFiniteSet(Pairs(c))
  BY <1>1, PairsFinite DEF UsageInv, ClientInv
<1>3. IsFiniteSet(lines)
  BY <1>1, <1>2, TellsEach
<1>. QED
  BY <1>1, <1>2, <1>3 DEF c, lines

(* The rows of the database, as the query sees them. *)
Rows == UNION {{[InstanceID |-> id, line |-> l] : l \in stored[id]} : id \in DOMAIN stored}

(* There are finitely many rows, so that they can be counted. *)
LEMMA RowsFinite ==
  ASSUME UsageInv
  PROVE  IsFiniteSet(DOMAIN instances) /\ IsFiniteSet(Rows)
<1>. DEFINE f == [id \in DOMAIN stored |-> {[InstanceID |-> id, line |-> l] : l \in stored[id]}]
<1>1. DOMAIN stored = DOMAIN instances /\ DOMAIN instances \subseteq 1 .. MaxId /\ MaxId \in Nat
  BY Constants DEF UsageInv, StoreInv
<1>2. IsFiniteSet(DOMAIN instances)
  <2>1. IsFiniteSet(1 .. MaxId)
    BY <1>1, FS_Interval
  <2>. QED
    BY <1>1, <2>1, FS_Subset
<1>3. ASSUME NEW id \in DOMAIN stored PROVE IsFiniteSet(f[id])
  <2>. DEFINE g == [l \in stored[id] |-> [InstanceID |-> id, line |-> l]]
              S == stored[id]
  <2>1. IsFiniteSet(S)
    BY <1>1, StoredTells
  <2>2. f[id] = {g[l] : l \in S}
    OBVIOUS
  <2>. HIDE DEF g, f, S
  <2>. QED
    BY <2>1, <2>2, ImageFinite
<1>4. Rows = UNION {f[id] : id \in DOMAIN stored}
  BY DEF Rows
<1>. HIDE DEF f
<1>5. IsFiniteSet({f[id] : id \in DOMAIN stored})
  BY <1>1, <1>2, ImageFinite
<1>. QED
  BY <1>2, <1>3, <1>4, <1>5, FS_UNION

(* More reports may be committed, but none is taken back: the counts stay  *)
(* too small, if anything.                                                 *)
LEMMA RecordsKept ==
  ASSUME UsageInv, CountedBefore, UNCHANGED <<instanceCount, recordCounts>>,
         Grows \/ UNCHANGED <<stored, instances>>
  PROVE  CountedBefore'
<1>1. /\ DOMAIN stored = DOMAIN instances
      /\ \A id \in DOMAIN instances :
           id \in DOMAIN instances' /\ stored'[id] = stored[id] /\ instances'[id] = instances[id]
  BY DEF UsageInv, StoreInv, Grows
<1>2. /\ Query!Since = {id \in DOMAIN instances : instances[id].DateTime > timestamp}
      /\ Query!Since' = {id \in DOMAIN instances' : instances'[id].DateTime > timestamp}
  BY DEF Query!Since
<1>3. Query!Since \subseteq Query!Since' /\ Query!Since \subseteq DOMAIN instances
  BY <1>1, <1>2
<1>4. PICK ids \in SUBSET Query!Since :
        /\ Cardinality(ids) = instanceCount
        /\ \A k \in DOMAIN recordCounts :
             Cardinality(RecordsOf(ids, Query!tableNames[k])) <= recordCounts[k]
  BY DEF CountedBefore
<1>5. ids \in SUBSET Query!Since'
  BY <1>3
<1>6. \A table : RecordsOf(ids, table)' = RecordsOf(ids, table)
  BY <1>1, <1>3 DEF RecordsOf
<1>7. Query!tableNames' = Query!tableNames
  BY DEF Query!tableNames
<1>. QED
  BY <1>4, <1>5, <1>6, <1>7 DEF CountedBefore

(* The tables that are asked for, one after the other. *)
LEMMA Moments ==
  /\ Len(Query!tableNames) = 7 /\ DOMAIN Query!tableNames = 1 .. 7
  /\ Query!tableNames' = Query!tableNames
BY DEF Query!tableNames

(* The query starts with no counts. *)
LEMMA InitQuery == Init => QueryInv
<1>. SUFFICES ASSUME Init PROVE QueryInv
  OBVIOUS
<1>1. /\ options \in SUBSET {"since", "stats"} /\ at = Query!FirstOf(DOMAIN Query!steps)
      /\ instanceCount = 0 /\ recordCounts = <<>>
  BY DEF Init, Query!Init
<1>2. at = IF options = {} THEN "done" ELSE "connecting"
  BY <1>1, Order
<1>3. CountedBefore
  <2>1. {} \in SUBSET Query!Since /\ Cardinality({}) = 0
    BY FS_EmptySet
  <2>2. DOMAIN recordCounts = {}
    BY <1>1
  <2>. QED
    BY <1>1, <2>1, <2>2 DEF CountedBefore
<1>4. recordCounts \in Seq(Nat)
  BY <1>1
<1>. QED
  BY <1>1, <1>2, <1>3, <1>4 DEF QueryInv

(* Connecting counts nothing. *)
LEMMA ConnectStep ==
  ASSUME UsageInv, QueryInv, Query!Connect, UNCHANGED <<options, stored, instances>>
  PROVE  QueryInv'
<1>1. /\ at = "connecting" /\ at' = Query!After(at) /\ options # {}
      /\ UNCHANGED <<options, instanceCount, recordCounts>>
      /\ options \in SUBSET {"since", "stats"}
      /\ instanceCount = 0 /\ recordCounts = <<>> /\ CountedBefore
  BY DEF Query!Connect, Query!printed, QueryInv
<1>2. at' = IF "since" \in options THEN "instances"
            ELSE IF "stats" \in options THEN "stats" ELSE "done"
  BY <1>1, Order
<1>3. CountedBefore'
  BY <1>1, RecordsKept
<1>4. recordCounts' \in Seq(Nat)
  BY <1>1
<1>. QED
  BY <1>1, <1>2, <1>3, <1>4 DEF QueryInv

(* The ids that are counted are those that are committed now. *)
LEMMA CountInstancesStep ==
  ASSUME UsageInv, QueryInv, Query!CountInstances, UNCHANGED <<options, stored, instances>>
  PROVE  QueryInv'
<1>1. /\ at = "instances" /\ at' = Query!After(at) /\ "since" \in options
      /\ UNCHANGED <<options, recordCounts>> /\ instanceCount' = Cardinality(Query!Since)
      /\ options \in SUBSET {"since", "stats"} /\ recordCounts = <<>>
  BY SameCardinality DEF Query!CountInstances, QueryInv
<1>2. at' = "records"
  BY <1>1, Order
<1>3. CountedBefore'
  <2>1. Query!Since' = Query!Since
    BY DEF Query!Since
  <2>2. DOMAIN recordCounts' = {}
    BY <1>1
  <2>. QED
    BY <1>1, <2>1, <2>2 DEF CountedBefore
<1>4. recordCounts' \in Seq(Nat) /\ Len(recordCounts') = 0
  BY <1>1
<1>. QED
  BY <1>1, <1>2, <1>3, <1>4, Moments DEF QueryInv

(* The rows that a table's record count counts. *)
LEMMA CountRecordsStep ==
  ASSUME UsageInv, QueryInv, Query!CountRecords, UNCHANGED <<options, stored, instances>>
  PROVE  QueryInv'
<1>. DEFINE next == Len(recordCounts) + 1
            table == Query!tableNames[next]
            counted == {row \in Rows : row.line.table = table /\ row.InstanceID \in Query!Since}
<1>1. /\ at = "records" /\ UNCHANGED <<options, instanceCount>> /\ "since" \in options
      /\ recordCounts \in Seq(Nat) /\ Len(recordCounts) < Len(Query!tableNames)
      /\ options \in SUBSET {"since", "stats"} /\ CountedBefore
  BY DEF Query!CountRecords, QueryInv
<1>2. /\ recordCounts' = Append(recordCounts, Cardinality(counted))
      /\ at' = IF next = Len(Query!tableNames) THEN Query!After(at) ELSE at
  BY SameCardinality DEF Query!CountRecords, Rows
<1>3. IsFiniteSet(counted)
  BY RowsFinite, FS_Subset
<1>4. Cardinality(counted) \in Nat
  BY <1>3, FS_CardinalityType
<1>5. Len(recordCounts) \in Nat /\ DOMAIN recordCounts = 1 .. Len(recordCounts)
  BY <1>1
<1>. DEFINE n == Cardinality(counted)
<1>6. /\ recordCounts' \in Seq(Nat) /\ Len(recordCounts') = next /\ DOMAIN recordCounts' = 1 .. next
      /\ \A k \in DOMAIN recordCounts : recordCounts'[k] = recordCounts[k]
      /\ recordCounts'[next] = n
  <2>. HIDE DEF n
  <2>1. recordCounts' = Append(recordCounts, n) /\ n \in Nat
    BY <1>2, <1>4 DEF n
  <2>. QED
    BY <1>1, <1>5, <2>1, AppendProperties
<1>7. /\ at' \in {"records", "stats", "done"}
      /\ (at' = "records" => next < 7) /\ (at' # "records" => next = 7)
  BY <1>1, <1>2, <1>5, Order, Moments
<1>8. PICK ids \in SUBSET Query!Since :
        /\ Cardinality(ids) = instanceCount
        /\ \A k \in DOMAIN recordCounts :
             Cardinality(RecordsOf(ids, Query!tableNames[k])) <= recordCounts[k]
  BY <1>1 DEF CountedBefore
<1>9. Cardinality(RecordsOf(ids, table)) <= n
  <2>. DEFINE g == [id \in RecordsOf(ids, table) |->
                      [InstanceID |-> id, line |-> CHOOSE l \in stored[id] : l.table = table]]
  <2>1. ids \subseteq DOMAIN stored
    BY DEF Query!Since, UsageInv, StoreInv
  <2>. HIDE DEF table
  <2>2. ASSUME NEW id \in RecordsOf(ids, table) PROVE g[id] \in counted
    <3>1. id \in ids /\ \E l \in stored[id] : l.table = table
      BY DEF RecordsOf
    <3>2. PICK l \in stored[id] : l.table = table /\ g[id] = [InstanceID |-> id, line |-> l]
      BY <3>1
    <3>3. g[id] \in Rows
      <4>1. id \in DOMAIN stored
        BY <2>1, <3>1
      <4>. DEFINE each == {[InstanceID |-> id, line |-> m] : m \in stored[id]}
      <4>2. g[id] \in each
        BY <3>2
      <4>3. each \subseteq Rows
        BY <4>1 DEF Rows
      <4>. QED
        BY <4>2, <4>3
    <3>. QED
      BY <3>1, <3>2, <3>3
  <2>3. \A i, j \in RecordsOf(ids, table) : g[i] = g[j] => i = j
    <3>1. \A i \in RecordsOf(ids, table) : g[i].InstanceID = i
      OBVIOUS
    <3>. QED
      BY <3>1
  <2>4. g \in Injection(RecordsOf(ids, table), counted)
    BY <2>2, <2>3 DEF Injection, IsInjective
  <2>. HIDE DEF counted, g
  <2>. QED
    BY <1>3, <2>4, FS_Injection DEF n
<1>10. CountedBefore'
  <2>1. Query!Since' = Query!Since /\ \A t : RecordsOf(ids, t)' = RecordsOf(ids, t)
    BY DEF Query!Since, RecordsOf
  <2>. HIDE DEF n
  <2>2. ASSUME NEW k \in DOMAIN recordCounts'
        PROVE  Cardinality(RecordsOf(ids, Query!tableNames[k])) <= recordCounts'[k]
    <3>1. k \in DOMAIN recordCounts \/ k = next
      BY <1>5, <1>6
    <3>. QED
      BY <1>6, <1>8, <1>9, <3>1
  <2>. QED
    BY <1>1, <1>8, <2>1, <2>2, Moments DEF CountedBefore
<1>. QED
  BY <1>1, <1>5, <1>6, <1>7, <1>10, Moments DEF QueryInv

(* What --stats prints has no part in the counts. *)
LEMMA PrintInUseStep ==
  ASSUME UsageInv, QueryInv, Query!PrintInUse, UNCHANGED <<options, stored, instances>>
  PROVE  QueryInv'
<1>1. /\ at = "stats" /\ at' \in {at, Query!After(at)}
      /\ UNCHANGED <<options, instanceCount, recordCounts>>
      /\ options \in SUBSET {"since", "stats"} /\ CountedBefore
  BY DEF Query!PrintInUse, QueryInv
<1>2. at' \in {"stats", "done"}
  BY <1>1, Order
<1>3. CountedBefore'
  BY <1>1, RecordsKept
<1>. QED
  BY <1>1, <1>2, <1>3, Moments DEF QueryInv

(* Whatever step is next. *)
LEMMA QueryStep ==
  ASSUME UsageInv, QueryInv, [Next]_vars
  PROVE  QueryInv'
<1>1. CASE Ask
  <2>1. UNCHANGED <<options, stored, instances>>
    BY <1>1 DEF Ask, Query!Next, storeVars
  <2>2. CASE Query!Fail
    BY <2>1, <2>2 DEF Query!Fail, Query!printed, QueryInv
  <2>. QED
    BY <1>1, <2>1, <2>2, ConnectStep, CountInstancesStep, CountRecordsStep, PrintInUseStep
       DEF Ask, Query!Next
<1>2. CASE UNCHANGED queryVars /\ (Serve \/ UNCHANGED <<stored, instances>>)
  <2>1. UNCHANGED <<options, at, instanceCount, recordCounts>>
    BY <1>2 DEF queryVars
  <2>2. Grows \/ UNCHANGED <<stored, instances>>
    BY <1>2, ServeGrows DEF UsageInv
  <2>3. at # "failed" => CountedBefore'
    BY <2>1, <2>2, RecordsKept DEF QueryInv
  <2>. QED
    BY <2>1, <2>3, Moments DEF QueryInv
<1>3. Ask \/ (UNCHANGED queryVars /\ (Serve \/ UNCHANGED <<stored, instances>>))
  BY DEF Next, CollectCommands, SelectionFails, Gather, SendAnalytics, TakeReport, Store!Submit,
         Serve, Tick, storeVars, vars
<1>. QED
  BY <1>1, <1>2, <1>3

(* Each counted id has a record in some table, and all of the tables have  *)
(* been asked for by then.                                                 *)
LEMMA CountedHasRows ==
  ASSUME UsageInv, QueryInv
  PROVE  EveryReportCountedHasRows
<1>. SUFFICES ASSUME at \in {"stats", "done"}
              PROVE  \E ids \in SUBSET Query!Since :
                       /\ Cardinality(ids) = instanceCount
                       /\ \A id \in ids : \E k \in DOMAIN recordCounts :
                            id \in RecordsOf(ids, Query!tableNames[k])
                       /\ \A k \in DOMAIN recordCounts :
                            Cardinality(RecordsOf(ids, Query!tableNames[k])) <= recordCounts[k]
  BY DEF EveryReportCountedHasRows
<1>1. CASE "since" \notin options
  <2>1. instanceCount = 0 /\ DOMAIN recordCounts = {}
    BY <1>1 DEF QueryInv
  <2>2. {} \in SUBSET Query!Since /\ Cardinality({}) = 0
    BY FS_EmptySet
  <2>. QED
    BY <2>1, <2>2
<1>2. CASE "since" \in options
  <2>1. DOMAIN recordCounts = 1 .. 7
    <3>1. recordCounts \in Seq(Nat) /\ Len(recordCounts) = 7
      BY <1>2, Moments DEF QueryInv
    <3>. QED
      BY <3>1, LenProperties
  <2>2. PICK ids \in SUBSET Query!Since :
          /\ Cardinality(ids) = instanceCount
          /\ \A k \in DOMAIN recordCounts :
               Cardinality(RecordsOf(ids, Query!tableNames[k])) <= recordCounts[k]
    BY DEF QueryInv, CountedBefore
  <2>3. ASSUME NEW id \in ids
        PROVE  \E k \in DOMAIN recordCounts : id \in RecordsOf(ids, Query!tableNames[k])
    <3>1. id \in DOMAIN instances
      BY DEF Query!Since
    <3>2. Tells(instances[id].from, stored[id]) /\ stored[id] # {}
      BY <3>1, StoredTells
    <3>3. PICK l \in stored[id], x \in Pairs(instances[id].from) : l.table = Table(x[1])
      BY <3>2 DEF Tells
    <3>4. PICK d \in DOMAIN moduleNames : l.table = Table(d)
      BY <3>3 DEF Pairs, Tags
    <3>5. PICK k \in 1 .. 7 : l.table = Query!tableNames[k]
      BY <3>4, Tables, Moments DEF Range
    <3>. QED
      BY <2>1, <3>5 DEF RecordsOf
  <2>. QED
    BY <2>2, <2>3
<1>. QED
  BY <1>1, <1>2

(* That the counts come from committed reports holds of every behaviour,   *)
(* however many reports are committed between one query and the next.      *)
THEOREM QueryInvariant == Spec => [](UsageInv /\ QueryInv)
<1>1. Init => UsageInv /\ QueryInv
  BY InitClient, InitStore, InitQuery DEF UsageInv
<1>2. UsageInv /\ QueryInv /\ [Next]_vars => (UsageInv /\ QueryInv)'
  BY UsageStep, QueryStep
<1>. QED
  BY <1>1, <1>2, PTL DEF Spec

(* What Query --since prints of InstanceTbl is the number of certain       *)
(* reports, each of which is found in the records of its tables, although  *)
(* it counts the reports first and the records of each table in queries of *)
(* their own.                                                              *)
THEOREM ReportsCountedHaveRows == Spec => []EveryReportCountedHasRows
<1>1. UsageInv /\ QueryInv => EveryReportCountedHasRows
  BY CountedHasRows
<1>. QED
  BY <1>1, QueryInvariant, PTL

-----------------------------------------------------------------------------
(* The query: --stats. *)

(* A sum of natural numbers is one, and positive if one of them is. *)
LEMMA SumPositive ==
  ASSUME NEW f, NEW S, IsFiniteSet(S), \A x \in S : f[x] \in Nat
  PROVE  /\ SumFunctionOnSet(f, S) \in Nat
         /\ (\E x \in S : f[x] > 0) => SumFunctionOnSet(f, S) > 0
<1>1. ASSUME NEW T \in SUBSET S PROVE SumFunctionOnSet(f, T) \in Nat
  <2>. DEFINE B == {V \in SUBSET S : SumFunctionOnSet(f, V) \notin Nat}
  <2>. SUFFICES ASSUME B # {} PROVE FALSE
    OBVIOUS
  <2>1. PICK V \in B : \A x \in V : V \ {x} \notin B
    <3>. HIDE DEF B
    <3>1. B \subseteq SUBSET S
      BY DEF B
    <3>. QED
      BY <3>1, Smallest
  <2>2. V # {}
    BY SumEmpty
  <2>3. PICK x \in V : TRUE
    BY <2>2
  <2>4. V \in SUBSET S /\ V \ {x} \in SUBSET S /\ x \in S
    OBVIOUS
  <2>5. SumFunctionOnSet(f, V \ {x}) \in Nat
    BY <2>1, <2>3, <2>4
  <2>6. SumFunctionOnSet(f, V) = f[x] + SumFunctionOnSet(f, V \ {x})
    <3>1. IsFiniteSet(V) /\ \A y \in V : f[y] \in Int
      BY <2>4, FS_Subset
    <3>. QED
      BY <2>3, <3>1, SumRemove
  <2>7. f[x] \in Nat
    BY <2>4
  <2>. QED
    BY <2>5, <2>6, <2>7
<1>2. ASSUME NEW x \in S, f[x] > 0 PROVE SumFunctionOnSet(f, S) > 0
  <2>1. SumFunctionOnSet(f, S) = f[x] + SumFunctionOnSet(f, S \ {x})
    <3>1. \A y \in S : f[y] \in Int
      OBVIOUS
    <3>. QED
      BY <3>1, SumRemove
  <2>2. SumFunctionOnSet(f, S \ {x}) \in Nat /\ f[x] \in Nat
    BY <1>1
  <2>. QED
    BY <1>2, <2>1, <2>2
<1>. QED
  BY <1>1, <1>2

(* The library's SetToSeqs, as module Query has it. *)
LEMMA SameSeqs == \A S : Query!SetToSeqs(S) = SetToSeqs(S)
BY SameCardinality DEF Query!SetToSeqs, SetToSeqs

(* A figure of the answer, and the commands that have one: those that      *)
(* anybody ran.                                                            *)
FigureOf(total, x) == [command |-> x, sum |-> total[x]]
Run(total) == {x \in Cmds : total[x] > 0}

(* An answer with all the figures, as ORDER BY puts them. *)
Orders(s, total) ==
  /\ s \in SetToSeqs({FigureOf(total, x) : x \in Run(total)})
  /\ \A i, j \in DOMAIN s : i < j => s[i].sum >= s[j].sum

(* A sequence is of the type of its elements. *)
LEMMA SeqOfType ==
  ASSUME NEW S, NEW s \in Seq(S), NEW C, \A i \in 1 .. Len(s) : s[i] \in C
  PROVE  s \in Seq(C)
<1>1. Len(s) \in Nat /\ s = [i \in 1 .. Len(s) |-> s[i]]
  OBVIOUS
<1>. QED
  BY <1>1

(* LIMIT cuts it, if it is longer. *)
LEMMA LesserOf ==
  ASSUME NEW a \in Nat, NEW b \in Nat
  PROVE  LET k == Min({a, b}) IN k \in Nat /\ k <= a /\ k <= b /\ (k = a \/ k = b)
<1>. DEFINE T == {a, b}
<1>1. T \subseteq Nat /\ a \in T /\ b \in T /\ (\A y \in T : y = a \/ y = b)
  OBVIOUS
<1>2. CASE a <= b
  <2>1. \A y \in T : a <= y
    BY <1>2
  <2>. HIDE DEF T
  <2>2. Min(T) = a
    BY <1>1, <2>1, LeastOf
  <2>. QED
    BY <1>2, <2>2 DEF T
<1>3. CASE ~ (a <= b)
  <2>1. \A y \in T : b <= y
    BY <1>3
  <2>. HIDE DEF T
  <2>2. Min(T) = b
    BY <1>1, <2>1, LeastOf
  <2>. QED
    BY <1>3, <2>2 DEF T
<1>. QED
  BY <1>2, <1>3

(* Such an answer, cut at the limit, has the largest totals. *)
LEMMA Ranked ==
  ASSUME NEW total \in [Cmds -> Nat], IsFiniteSet(Run(total)), NEW s, Orders(s, total)
  PROVE  LET answer == SubSeq(s, 1, Min({limit, Len(s)}))
         IN  Ranks(answer, total) /\ answer \in Seq([command : Cmds, sum : Nat])
<1>. DEFINE sums == {FigureOf(total, x) : x \in Run(total)}
            k == Min({limit, Len(s)})
            answer == SubSeq(s, 1, k)
<1>1. IsFiniteSet(sums)
  <2>. DEFINE f == [x \in Run(total) |-> FigureOf(total, x)]
  <2>1. sums = {f[x] : x \in Run(total)}
    OBVIOUS
  <2>. HIDE DEF f, sums
  <2>. QED
    BY <2>1, ImageFinite
<1>. HIDE DEF sums
<1>2. s \in SetToSeqs(sums)
  BY DEF sums, Orders
<1>3. /\ s \in Seq(sums)
      /\ \A i \in DOMAIN s : s[i] \in sums
      /\ \A i, j \in DOMAIN s : s[i] = s[j] => i = j
      /\ \A x \in sums : \E i \in DOMAIN s : s[i] = x
  BY <1>1, <1>2, SeqsOfSet
<1>. DEFINE n == Len(s)
<1>4. n \in Nat /\ \A i : i \in DOMAIN s <=> i \in Nat /\ 1 <= i /\ i <= n
  BY <1>3
<1>. HIDE DEF n
<1>5. limit \in Nat
  BY Constants
<1>6. k \in Nat /\ k <= limit /\ k <= n /\ (k = limit \/ k = n)
  BY <1>4, <1>5, LesserOf DEF n
<1>. HIDE DEF k
<1>7. /\ answer \in Seq(sums) /\ Len(answer) = k /\ DOMAIN answer = 1 .. k
      /\ \A i \in 1 .. k : answer[i] = s[i]
  <2>1. 1 \in 1 .. n + 1 /\ k \in (1 - 1) .. n
    BY <1>4, <1>6
  <2>2. /\ answer \in Seq(sums) /\ Len(answer) = k - 1 + 1
        /\ \A i \in 1 .. k - 1 + 1 : answer[i] = s[1 + i - 1]
    BY <1>3, <2>1, SubSeqProperties DEF n
  <2>3. DOMAIN answer = 1 .. Len(answer)
    BY <2>2, LenProperties
  <2>. HIDE DEF answer
  <2>4. Len(answer) = k
    BY <1>6, <2>2
  <2>5. \A i \in 1 .. k : answer[i] = s[i]
    BY <1>6, <2>2
  <2>. QED
    BY <2>2, <2>3, <2>4, <2>5
<1>. HIDE DEF answer
<1>8. ASSUME NEW i \in DOMAIN s
      PROVE  /\ s[i].command \in Run(total) /\ s[i].sum = total[s[i].command]
             /\ s[i] = FigureOf(total, s[i].command)
  <2>1. PICK x \in Run(total) : s[i] = FigureOf(total, x)
    BY <1>3 DEF sums
  <2>. QED
    BY <2>1 DEF FigureOf
<1>9. ASSUME NEW x \in Run(total) PROVE \E i \in DOMAIN s : s[i].command = x /\ s[i].sum = total[x]
  <2>1. FigureOf(total, x) \in sums
    BY DEF sums
  <2>2. PICK i \in DOMAIN s : s[i] = FigureOf(total, x)
    BY <1>3, <2>1
  <2>. QED
    BY <2>2 DEF FigureOf
<1>10. \A x \in Run(total) : x \in Cmds /\ total[x] > 0 /\ total[x] \in Nat
  BY DEF Run
<1>. DEFINE shown == {answer[i].command : i \in DOMAIN answer}
<1>11. Cardinality(shown) = k
  <2>. DEFINE f == [i \in 1 .. k |-> answer[i].command]
  <2>1. ASSUME NEW i \in 1 .. k, NEW j \in 1 .. k, f[i] = f[j] PROVE i = j
    <3>1. i \in DOMAIN s /\ j \in DOMAIN s
      BY <1>4, <1>6
    <3>2. s[i].command = s[j].command
      BY <1>7, <2>1
    <3>. QED
      BY <1>3, <1>8, <3>1, <3>2
  <2>2. f \in Surjection(1 .. k, shown) /\ f \in Injection(1 .. k, shown)
    BY <1>7, <2>1 DEF Surjection, Injection, IsInjective
  <2>3. IsFiniteSet(1 .. k) /\ Cardinality(1 .. k) = k
    BY <1>6, FS_Interval
  <2>. HIDE DEF f, shown
  <2>. QED
    BY <2>2, <2>3, FS_Surjection
<1>12. ASSUME NEW i \in 1 .. k
       PROVE  /\ answer[i].command \in Cmds
              /\ answer[i].sum = total[answer[i].command] /\ answer[i].sum > 0
              /\ \A x \in Cmds :
                   total[x] > answer[i].sum => \E j \in 1 .. i - 1 : answer[j].command = x
  <2>1. i \in DOMAIN s /\ answer[i] = s[i] /\ i \in Nat
    BY <1>4, <1>6, <1>7
  <2>2. s[i].command \in Cmds /\ s[i].sum = total[s[i].command] /\ s[i].sum > 0 /\ s[i].sum \in Nat
    BY <1>8, <1>10, <2>1
  <2>3. ASSUME NEW x \in Cmds, total[x] > s[i].sum
        PROVE  \E j \in 1 .. i - 1 : answer[j].command = x
    <3>1. total[x] \in Nat
      OBVIOUS
    <3>2. x \in Run(total)
      BY <2>2, <2>3, <3>1 DEF Run
    <3>3. PICK j \in DOMAIN s : s[j].command = x /\ s[j].sum = total[x]
      BY <1>9, <3>2
    <3>4. j < i
      <4>1. ~ (i < j)
        <5>1. i < j => s[i].sum >= s[j].sum
          BY <2>1 DEF Orders
        <5>. QED
          BY <2>2, <2>3, <3>1, <3>3, <5>1
      <4>2. i # j
        BY <2>2, <2>3, <3>1, <3>3
      <4>3. j \in Nat
        BY <1>4
      <4>. QED
        BY <2>1, <4>1, <4>2, <4>3
    <3>5. j \in 1 .. i - 1 /\ j \in 1 .. k
      BY <1>4, <1>6, <2>1, <3>4
    <3>. QED
      BY <1>7, <3>3, <3>5
  <2>. QED
    BY <2>1, <2>2, <2>3
<1>13. ASSUME k < limit, NEW x \in Cmds, total[x] > 0 PROVE x \in shown
  <2>1. k = n
    BY <1>4, <1>5, <1>6, <1>13
  <2>2. x \in Run(total)
    BY <1>13 DEF Run
  <2>3. PICK i \in DOMAIN s : s[i].command = x
    BY <1>9, <2>2
  <2>. QED
    BY <1>4, <1>7, <2>1, <2>3
<1>14. answer \in Seq([command : Cmds, sum : Nat])
  <2>1. \A y \in sums : y \in [command : Cmds, sum : Nat]
    BY <1>10 DEF sums, FigureOf
  <2>2. \A i \in 1 .. k : answer[i] \in [command : Cmds, sum : Nat]
    BY <1>3, <1>4, <1>6, <1>7, <2>1
  <2>. DEFINE C == [command : Cmds, sum : Nat]
  <2>. HIDE DEF C
  <2>3. Len(answer) = k /\ answer \in Seq(sums) /\ \A i \in 1 .. k : answer[i] \in C
    BY <1>7, <2>2 DEF C
  <2>4. answer \in Seq(C)
    BY <2>3, SeqOfType
  <2>. QED
    BY <2>4 DEF C
<1>15. Ranks(answer, total)
  <2>. HIDE DEF shown
  <2>1. shown = {answer[i].command : i \in DOMAIN answer}
    BY DEF shown
  <2>. QED
    BY <1>6, <1>7, <1>11, <1>12, <1>13, <2>1 DEF Ranks
<1>. QED
  BY <1>14, <1>15 DEF answer, k

(* A row is a line that some client's report told ... *)
LEMMA RowIs ==
  ASSUME UsageInv, NEW row \in Rows
  PROVE  LET id == row.InstanceID
             c == instances[id].from
         IN  /\ id \in DOMAIN instances /\ row.line \in stored[id]
             /\ row = [InstanceID |-> id, line |-> row.line]
             /\ \E x \in Pairs(c) : /\ row.line.table = Table(x[1]) /\ row.line.Command = x[2]
                                    /\ row.line.Count = Ran(c, x[1], x[2])
<1>1. PICK id \in DOMAIN stored : row \in {[InstanceID |-> id, line |-> l] : l \in stored[id]}
  BY DEF Rows
<1>2. PICK l \in stored[id] : row = [InstanceID |-> id, line |-> l]
  BY <1>1
<1>3. id \in DOMAIN instances
  BY DEF UsageInv, StoreInv
<1>4. Tells(instances[id].from, stored[id])
  BY <1>3, StoredTells
<1>. DEFINE c == instances[id].from
<1>5. \E x \in Pairs(c) : l.table = Table(x[1]) /\ l.Command = x[2] /\ l.Count = Ran(c, x[1], x[2])
  BY <1>4 DEF Tells
<1>6. row.InstanceID = id /\ row.line = l
  BY <1>2
<1>. QED
  BY <1>2, <1>3, <1>5, <1>6

(* ... and all such lines are rows. *)
LEMMA RowOf ==
  ASSUME UsageInv, NEW id \in DOMAIN instances, NEW l \in stored[id]
  PROVE  [InstanceID |-> id, line |-> l] \in Rows
<1>1. id \in DOMAIN stored
  BY DEF UsageInv, StoreInv
<1>2. [InstanceID |-> id, line |-> l] \in {[InstanceID |-> id, line |-> m] : m \in stored[id]}
  OBVIOUS
<1>. QED
  BY <1>1, <1>2 DEF Rows

(* Of a table's rows for a command no two are of the same user. *)
LEMMA RowsDiffer ==
  ASSUME UsageInv, NEW row \in Rows, NEW other \in Rows,
         instances[row.InstanceID].from = instances[other.InstanceID].from,
         row.line.table = other.line.table, row.line.Command = other.line.Command
  PROVE  row = other
<1>. DEFINE id == row.InstanceID
<1>1. /\ id \in DOMAIN instances /\ row.line \in stored[id]
      /\ row = [InstanceID |-> id, line |-> row.line]
  BY RowIs
<1>2. /\ other.InstanceID \in DOMAIN instances /\ other.line \in stored[other.InstanceID]
      /\ other = [InstanceID |-> other.InstanceID, line |-> other.line]
  BY RowIs
<1>3. other.InstanceID = id
  BY <1>1, <1>2 DEF UsageInv, SentOnce
<1>4. Tells(instances[id].from, stored[id])
  BY <1>1, StoredTells
<1>5. row.line = other.line
  BY <1>1, <1>2, <1>3, <1>4 DEF Tells
<1>. QED
  BY <1>1, <1>2, <1>3, <1>5

(* Totals are natural numbers. *)
LEMMA TotalsType ==
  ASSUME UsageInv, NEW last, NEW table
  PROVE  /\ IsFiniteSet(Users(last) \X IdsOf(table)) /\ Users(last) \subseteq Clients
         /\ \A c \in Clients : \A id, x : Ran(c, id, x) \in Nat
         /\ Totals(last, table) \in [Cmds -> Nat]
         /\ \A x \in Cmds : Totals(last, table)[x] =
              SumFunctionOnSet([u \in Users(last) \X IdsOf(table) |-> Ran(u[1], u[2], x)],
                               Users(last) \X IdsOf(table))
<1>. DEFINE U == Users(last) \X IdsOf(table)
            g(x) == [u \in U |-> Ran(u[1], u[2], x)]
<1>1. IsFiniteSet(Users(last))
  <2>. DEFINE D == DOMAIN instances \cap 1 .. last
              f == [id \in D |-> instances[id].from]
  <2>1. IsFiniteSet(D)
    BY RowsFinite, FS_Subset
  <2>2. Users(last) = {f[id] : id \in D}
    BY DEF Users
  <2>. HIDE DEF f, D
  <2>. QED
    BY <2>1, <2>2, ImageFinite
<1>2. IsFiniteSet(IdsOf(table))
  <2>1. IsFiniteSet(DOMAIN moduleNames)
    <3>. DEFINE f == [k \in 1 .. 7 |->
                       CHOOSE id \in DOMAIN moduleNames : Table(id) = Query!tableNames[k]]
    <3>1. \A id \in DOMAIN moduleNames : \E k \in 1 .. 7 : f[k] = id
      <4>1. ASSUME NEW id \in DOMAIN moduleNames PROVE \E k \in 1 .. 7 : f[k] = id
        <5>1. PICK k \in 1 .. 7 : Table(id) = Query!tableNames[k]
          BY Tables, Moments DEF Range
        <5>2. \A d \in DOMAIN moduleNames : Table(d) = Query!tableNames[k] => d = id
          BY <5>1, Tables
        <5>. QED
          BY <5>1, <5>2
      <4>. QED
        BY <4>1
    <3>2. IsFiniteSet(1 .. 7)
      <4>1. 1 \in Int /\ 7 \in Int
        OBVIOUS
      <4>. QED
        BY <4>1, FS_Interval
    <3>. HIDE DEF f
    <3>3. IsFiniteSet({f[k] : k \in 1 .. 7})
      BY <3>2, ImageFinite
    <3>4. DOMAIN moduleNames \subseteq {f[k] : k \in 1 .. 7}
      BY <3>1
    <3>. QED
      BY <3>3, <3>4, FS_Subset
  <2>2. IdsOf(table) \subseteq DOMAIN moduleNames
    BY DEF IdsOf
  <2>. QED
    BY <2>1, <2>2, FS_Subset
<1>3. IsFiniteSet(U)
  BY <1>1, <1>2, FS_Product
<1>4. Users(last) \subseteq Clients
  BY StoredTells DEF Users
<1>5. \A c \in Clients : \A id, x : Ran(c, id, x) \in Nat
  BY RanType DEF UsageInv, ClientInv
<1>6. ASSUME NEW x \in Cmds
      PROVE  Totals(last, table)[x] = SumFunctionOnSet(g(x), U) /\ Totals(last, table)[x] \in Nat
  <2>1. Totals(last, table)[x] = SumFunctionOnSet(g(x), U)
    BY DEF Totals, SumFunction
  <2>2. ASSUME NEW u \in U PROVE g(x)[u] \in Nat
    BY <1>4, <1>5
  <2>. DEFINE f == g(x)
  <2>. HIDE DEF f, U
  <2>3. SumFunctionOnSet(f, U) \in Nat
    BY <1>3, <2>2, SumPositive DEF f
  <2>. QED
    BY <2>1, <2>3 DEF f
<1>7. Totals(last, table) = [x \in Cmds |-> Totals(last, table)[x]]
  BY DEF Totals
<1>8. Totals(last, table) \in [Cmds -> Nat]
  <2>. HIDE DEF U
  <2>. QED
    BY <1>6, <1>7
<1>. QED
  BY <1>3, <1>4, <1>5, <1>6, <1>8

(* No report has been committed after last. *)
Covers(last) == \A id \in DOMAIN instances : id \in 1 .. last

(* The sum over the rows is that over the users. *)
LEMMA SumOfRows ==
  ASSUME UsageInv, NEW last, Covers(last),
         NEW table, NEW x \in Cmds
  PROVE  /\ Query!Sum(table, x) = Totals(last, table)[x]
         /\ Totals(last, table)[x] > 0 <=>
              \E row \in Rows : row.line.table = table /\ row.line.Command = x
<1>. DEFINE S == {row \in Rows : row.line.table = table /\ row.line.Command = x}
            f == [row \in S |-> row.line.Count]
            U == Users(last) \X IdsOf(table)
            g == [u \in U |-> Ran(u[1], u[2], x)]
            d == CHOOSE id \in DOMAIN moduleNames : Table(id) = table
            h == [row \in S |-> <<instances[row.InstanceID].from, d>>]
<1>1. Query!Sum(table, x) = SumFunctionOnSet(f, S)
  <2>1. Query!Uses(table, x) = S
    BY DEF Query!Uses, Rows
  <2>2. Query!Sum(table, x) = Query!SumFunction(f)
    BY <2>1 DEF Query!Sum
  <2>3. DOMAIN f = S
    OBVIOUS
  <2>. HIDE DEF f, S
  <2>. QED
    BY <2>2, <2>3, SameSum
<1>2. Totals(last, table)[x] = SumFunctionOnSet(g, U)
  BY TotalsType
<1>3. IsFiniteSet(S) /\ IsFiniteSet(U)
  BY RowsFinite, TotalsType, FS_Subset
<1>4. \A u \in U : g[u] \in Nat
  BY TotalsType
<1>5. ASSUME NEW row \in S
      PROVE  /\ h[row] \in U /\ f[row] = g[h[row]] /\ f[row] \in Nat /\ f[row] > 0
  <2>. DEFINE id == row.InstanceID
              c == instances[id].from
  <2>1. id \in DOMAIN instances /\ c \in Users(last)
    BY RowIs DEF Users, Covers
  <2>2. PICK y \in Pairs(c) : /\ row.line.table = Table(y[1]) /\ row.line.Command = y[2]
                              /\ row.line.Count = Ran(c, y[1], y[2])
    BY RowIs
  <2>3. y[1] \in DOMAIN moduleNames /\ Ran(c, y[1], y[2]) > 0
    BY DEF Pairs, Tags
  <2>4. d = y[1]
    BY <2>2, <2>3, Tables
  <2>5. d \in IdsOf(table)
    BY <2>2, <2>3, <2>4 DEF IdsOf
  <2>6. h[row] = <<c, d>> /\ f[row] = Ran(c, d, x)
    BY <2>2, <2>4
  <2>7. h[row] \in U /\ g[h[row]] = Ran(c, d, x)
    <3>. HIDE DEF c, d, h
    <3>1. <<c, d>> \in U /\ g[<<c, d>>] = Ran(c, d, x)
      BY <2>1, <2>5
    <3>. HIDE DEF g, U
    <3>. QED
      BY <2>6, <3>1
  <2>. QED
    BY <1>4, <2>2, <2>3, <2>4, <2>6, <2>7
<1>6. \A row, other \in S : h[row] = h[other] => row = other
  BY RowsDiffer
<1>7. ASSUME NEW u \in U, g[u] # 0 PROVE \E row \in S : h[row] = u
  <2>1. u[1] \in Users(last) /\ u[2] \in IdsOf(table) /\ u = <<u[1], u[2]>>
    OBVIOUS
  <2>2. PICK id \in DOMAIN instances : u[1] = instances[id].from
    BY <2>1 DEF Users
  <2>3. u[2] \in DOMAIN moduleNames /\ Table(u[2]) = table
    BY <2>1 DEF IdsOf
  <2>4. Ran(u[1], u[2], x) > 0
    BY <1>4, <1>7
  <2>5. <<u[2], x>> \in Pairs(u[1])
    BY <2>3, <2>4 DEF Pairs, Tags
  <2>6. Tells(u[1], stored[id])
    BY <2>2, StoredTells
  <2>7. PICK l \in stored[id] : l.table = table /\ l.Command = x
    BY <2>3, <2>5, <2>6 DEF Tells
  <2>. DEFINE row == [InstanceID |-> id, line |-> l]
  <2>8. row \in S
    BY <2>7, RowOf
  <2>9. d = u[2]
    BY <2>3, Tables
  <2>10. h[row] = u
    BY <2>1, <2>2, <2>8, <2>9
  <2>. QED
    BY <2>8, <2>10
<1>8. h \in Injection(S, U)
  BY <1>5, <1>6 DEF Injection, IsInjective
<1>9. S # {} <=> \E row \in Rows : row.line.table = table /\ row.line.Command = x
  OBVIOUS
<1>. HIDE DEF S, U, f, g, h, d
<1>10. SumFunctionOnSet(f, S) = SumFunctionOnSet(g, U)
  BY <1>3, <1>4, <1>5, <1>7, <1>8, SumImage
<1>11. SumFunctionOnSet(f, S) > 0 <=> S # {}
  <2>1. CASE S = {}
    BY <2>1, SumEmpty
  <2>2. CASE S # {}
    BY <1>3, <1>5, <2>2, SumPositive
  <2>. QED
    BY <2>1, <2>2
<1>. QED
  BY <1>1, <1>2, <1>9, <1>10, <1>11

(* A thread that has sent its report selects nothing any more. *)
LEMMA SentStay ==
  ASSUME UsageInv, [Next]_vars
  PROVE  \A c \in Clients : thread[c] = Sent => selected'[c] = selected[c]
<1>1. /\ thread \in [Clients -> 1 .. Sent] /\ selected \in [Clients -> Seq(Tags)]
      /\ Len(Modules) \in Nat
  BY Constants DEF UsageInv, ClientInv, ClientTypeOK
<1>2. ASSUME NEW d \in Clients, CollectCommands(d)
      PROVE  \A c \in Clients : thread[c] = Sent => selected'[c] = selected[c]
  <2>1. thread[d] \in 1 .. Len(Modules)
    BY <1>2, Constants DEF CollectCommands, AtModule
  <2>2. thread[d] # Sent
    BY <1>1, <2>1 DEF Sent
  <2>3. \A c \in Clients : c # d => selected'[c] = selected[c]
    BY <1>1, <1>2 DEF CollectCommands
  <2>. QED
    BY <2>2, <2>3
<1>3. (\E d \in Clients : CollectCommands(d)) \/ UNCHANGED selected
  BY DEF Next, SelectionFails, Gather, SendAnalytics, TakeReport, Serve, Ask, Tick, clientVars, vars
<1>. QED
  BY <1>2, <1>3

(* What is committed later is not among the reports up to last, so their   *)
(* totals stay.                                                            *)
LEMMA TotalsKept ==
  ASSUME UsageInv, Grows \/ UNCHANGED <<stored, instances>>,
         \A c \in Clients : thread[c] = Sent => selected'[c] = selected[c],
         NEW last \in DOMAIN instances \cup {0}, NEW t
  PROVE  /\ last \in DOMAIN instances' \cup {0}
         /\ Totals(last, Query!tableNames[t])' = Totals(last, Query!tableNames[t])
<1>. DEFINE table == Query!tableNames[t]
<1>1. /\ DOMAIN stored = DOMAIN instances /\ DOMAIN instances \subseteq 1 .. MaxId /\ MaxId \in Nat
      /\ \A id \in DOMAIN instances :
           /\ instances[id].from \in Clients /\ thread[instances[id].from] = Sent
           /\ id \in DOMAIN instances' /\ instances'[id] = instances[id]
  BY Constants DEF UsageInv, StoreInv, Told, Reports, Grows
<1>2. DOMAIN instances' \cap 1 .. last = DOMAIN instances \cap 1 .. last
  <2>1. ASSUME NEW new \in 1 .. MaxId, DOMAIN stored' = DOMAIN stored \cup {new},
               \A old \in DOMAIN stored : old < new
        PROVE  new \notin 1 .. last
    BY <1>1, <2>1
  <2>2. \/ DOMAIN instances' = DOMAIN instances
        \/ \E new \in 1 .. MaxId : /\ DOMAIN instances' = DOMAIN instances \cup {new}
                                    /\ new \notin 1 .. last
    BY <1>1, <2>1 DEF Grows
  <2>. QED
    BY <2>2
<1>3. Users(last)' = Users(last)
  BY <1>1, <1>2 DEF Users
<1>4. ASSUME NEW c \in Users(last) PROVE \A id, x : Ran(c, id, x)' = Ran(c, id, x)
  <2>1. selected'[c] = selected[c]
    BY <1>1 DEF Users
  <2>. QED
    BY <2>1, SameRan
<1>5. IdsOf(table)' = IdsOf(table)
  BY Moments DEF IdsOf
<1>6. ASSUME NEW x \in Cmds
      PROVE  [u \in Users(last) \X IdsOf(table) |-> Ran(u[1], u[2], x)]' =
               [u \in Users(last) \X IdsOf(table) |-> Ran(u[1], u[2], x)]
  <2>. DEFINE U == Users(last) \X IdsOf(table)
  <2>1. U' = U
    BY <1>3, <1>5
  <2>2. \A u \in U : Ran(u[1], u[2], x)' = Ran(u[1], u[2], x)
    BY <1>4
  <2>. HIDE DEF U
  <2>3. [u \in U' |-> Ran(u[1], u[2], x)'] = [u \in U |-> Ran(u[1], u[2], x)]
    BY <2>1, <2>2
  <2>. QED
    BY <2>3 DEF U
<1>7. Totals(last, table)' = Totals(last, table)
  BY <1>6 DEF Totals
<1>. QED
  BY <1>1, <1>7

(* What was right for the totals that are the same after a step is right   *)
(* then.                                                                   *)
LEMMA RightNext ==
  ASSUME NEW t, NEW last, NEW figures, NEW total, Ranks(figures, total),
         inUse'[t] = figures, Totals(last, Query!tableNames[t])' = total
  PROVE  Right(t, last)'
BY DEF Right, Ranks

(* The figures of the table that is printed are those of all that is       *)
(* committed now.                                                          *)
LEMMA PrintStep ==
  ASSUME UsageInv, StatsInv, Query!PrintInUse, UNCHANGED <<stored, instances, selected>>
  PROVE  StatsInv'
<1>. DEFINE next == Len(inUse) + 1
            table == Query!tableNames[next]
            Answers == Seq([command : Cmds, sum : Nat])
<1>1. PICK answer \in Query!MostUsed(table) : inUse' = Append(inUse, answer)
  BY DEF Query!PrintInUse
<1>. HIDE DEF table
<1>2. PICK last \in DOMAIN instances \cup {0} : Covers(last)
  <2>1. DOMAIN instances \subseteq 1 .. MaxId /\ MaxId \in Nat
    BY Constants DEF UsageInv, StoreInv
  <2>2. CASE DOMAIN instances = {}
    BY <2>2 DEF Covers
  <2>3. CASE DOMAIN instances # {}
    <3>1. /\ Max(DOMAIN instances) \in DOMAIN instances
          /\ \A id \in DOMAIN instances : Max(DOMAIN instances) >= id
      BY <2>1, <2>3, Greatest
    <3>2. \A id \in DOMAIN instances : id \in 1 .. Max(DOMAIN instances)
      BY <2>1, <3>1
    <3>. QED
      BY <3>1, <3>2 DEF Covers
  <2>. QED
    BY <2>2, <2>3
<1>. DEFINE total == Totals(last, table)
<1>3. total \in [Cmds -> Nat]
  BY TotalsType
<1>4. ASSUME NEW x \in Cmds
      PROVE  /\ Query!Sum(table, x) = total[x]
             /\ total[x] > 0 <=> \E row \in Rows : row.line.table = table /\ row.line.Command = x
  BY <1>2, SumOfRows
<1>. HIDE DEF total
<1>. DEFINE commands == {row.line.Command : row \in {r \in Rows : r.line.table = table}}
<1>5. commands = Run(total) /\ IsFiniteSet(Run(total))
  <2>1. \A row \in Rows : row.line.Command \in Cmds
    BY RowIs DEF Pairs, Tags
  <2>2. commands = Run(total)
    BY <1>4, <2>1 DEF Run
  <2>. DEFINE f == [row \in Rows |-> row.line.Command]
              all == {f[row] : row \in Rows}
  <2>3. commands \subseteq all
    OBVIOUS
  <2>4. IsFiniteSet(all)
    <3>. HIDE DEF f
    <3>. QED
      BY RowsFinite, ImageFinite
  <2>. QED
    BY <2>2, <2>3, <2>4, FS_Subset
<1>. DEFINE sums == {[command |-> x, sum |-> Query!Sum(table, x)] : x \in commands}
<1>6. sums = {FigureOf(total, x) : x \in Run(total)}
  <2>1. \A x \in Run(total) : [command |-> x, sum |-> Query!Sum(table, x)] = FigureOf(total, x)
    BY <1>4 DEF Run, FigureOf
  <2>. HIDE DEF commands
  <2>. QED
    BY <1>5, <2>1
<1>7. PICK s : Orders(s, total) /\ answer = SubSeq(s, 1, Min({limit, Len(s)}))
  <2>1. \E s \in Query!SetToSeqs(sums) :
          /\ \A i, j \in DOMAIN s : i < j => s[i].sum >= s[j].sum
          /\ answer = SubSeq(s, 1, Query!Min({limit, Len(s)}))
    BY <1>1 DEF Query!MostUsed, Rows
  <2>2. PICK s \in Query!SetToSeqs(sums) :
          /\ \A i, j \in DOMAIN s : i < j => s[i].sum >= s[j].sum
          /\ answer = SubSeq(s, 1, Query!Min({limit, Len(s)}))
    BY <2>1
  <2>3. s \in SetToSeqs({FigureOf(total, x) : x \in Run(total)})
    BY <1>6, SameSeqs
  <2>4. Query!Min({limit, Len(s)}) = Min({limit, Len(s)})
    BY SameMin
  <2>. QED
    BY <2>2, <2>3, <2>4 DEF Orders
<1>. HIDE DEF sums, commands
<1>8. Ranks(answer, total) /\ answer \in Answers
  BY <1>3, <1>5, <1>7, Ranked
<1>. HIDE DEF Answers
<1>9. /\ inUse' \in Seq(Answers) /\ DOMAIN inUse' = 1 .. next /\ inUse'[next] = answer
      /\ \A t \in DOMAIN inUse : inUse'[t] = inUse[t]
      /\ DOMAIN inUse = 1 .. Len(inUse) /\ Len(inUse) \in Nat
  <2>1. inUse \in Seq(Answers)
    BY DEF StatsInv, Answers
  <2>. QED
    BY <1>1, <1>8, <2>1, AppendProperties, LenProperties
<1>10. ASSUME NEW k, NEW t
       PROVE  Totals(k, Query!tableNames[t])' = Totals(k, Query!tableNames[t])
  BY Moments DEF Totals, Users, IdsOf, Ran
<1>11. ASSUME NEW t \in DOMAIN inUse'
       PROVE  \E k \in DOMAIN instances' \cup {0} : Right(t, k)'
  <2>1. t \in DOMAIN inUse \/ t = next
    BY <1>9
  <2>2. CASE t \in DOMAIN inUse
    <3>1. PICK k \in DOMAIN instances \cup {0} : Right(t, k)
      BY <2>2 DEF StatsInv
    <3>2. Right(t, k)'
      BY <1>9, <1>10, <2>2, <3>1, RightNext DEF Right
    <3>. QED
      BY <3>1, <3>2
  <2>3. CASE t = next
    <3>1. Ranks(answer, Totals(last, Query!tableNames[t]))
      BY <1>8, <2>3 DEF total, table
    <3>2. Right(t, last)'
      BY <1>9, <1>10, <2>3, <3>1, RightNext
    <3>. QED
      BY <1>2, <3>2
  <2>. QED
    BY <2>1, <2>2, <2>3
<1>. QED
  BY <1>9, <1>11 DEF StatsInv, Answers

(* Whatever step is next. *)
LEMMA StatsStep ==
  ASSUME UsageInv, StatsInv, [Next]_vars
  PROVE  StatsInv'
<1>1. CASE Query!PrintInUse /\ UNCHANGED <<stored, instances, selected>>
  BY <1>1, PrintStep
<1>2. CASE UNCHANGED inUse /\ (Grows \/ UNCHANGED <<stored, instances>>)
  <2>1. \A c \in Clients : thread[c] = Sent => selected'[c] = selected[c]
    BY SentStay
  <2>2. ASSUME NEW t \in DOMAIN inUse'
        PROVE  \E k \in DOMAIN instances' \cup {0} : Right(t, k)'
    <3>1. t \in DOMAIN inUse /\ inUse'[t] = inUse[t]
      BY <1>2
    <3>2. PICK k \in DOMAIN instances \cup {0} : Right(t, k)
      BY <3>1 DEF StatsInv
    <3>3. /\ k \in DOMAIN instances' \cup {0}
          /\ Totals(k, Query!tableNames[t])' = Totals(k, Query!tableNames[t])
      BY <1>2, <2>1, TotalsKept
    <3>4. Right(t, k)'
      BY <3>1, <3>2, <3>3, RightNext DEF Right
    <3>. QED
      BY <3>3, <3>4
  <2>. QED
    BY <1>2, <2>2 DEF StatsInv
<1>3. \/ Query!PrintInUse /\ UNCHANGED <<stored, instances, selected>>
      \/ UNCHANGED inUse /\ (Serve \/ UNCHANGED <<stored, instances>>)
  <2>1. CASE Ask
    <3>1. UNCHANGED <<stored, instances, selected>>
      BY <2>1 DEF Ask, storeVars, clientVars
    <3>2. Query!PrintInUse \/ UNCHANGED inUse
      BY <2>1 DEF Ask, Query!Next, Query!Connect, Query!CountInstances,
                  Query!CountRecords, Query!Fail, Query!printed
    <3>. QED
      BY <3>1, <3>2
  <2>2. Ask \/ (UNCHANGED queryVars /\ (Serve \/ UNCHANGED <<stored, instances>>))
    BY DEF Next, CollectCommands, SelectionFails, Gather, SendAnalytics, TakeReport, Store!Submit,
           Serve, Tick, storeVars, vars
  <2>. QED
    BY <2>1, <2>2 DEF queryVars
<1>. QED
  BY <1>1, <1>2, <1>3, ServeGrows DEF UsageInv

(* That is what a run checks of the figures. *)
LEMMA StatsRight ==
  ASSUME UsageInv, StatsInv
  PROVE  StatsAreUsage
<1>. SUFFICES ASSUME NEW t \in DOMAIN inUse
              PROVE  \E last \in 0 .. MaxId :
    LET users == {instances[id].from : id \in DOMAIN instances \cap 1 .. last}
        ids == {id \in DOMAIN moduleNames : FindTableName(moduleNames[id]) = Query!tableNames[t]}
        ran(command) == SumFunction([u \in users \X ids |-> Ran(u[1], u[2], command)])
        figures == inUse[t]
        shown == {figures[i].command : i \in DOMAIN figures}
    IN  /\ Cardinality(shown) = Len(figures) /\ Len(figures) <= limit
        /\ \A i \in DOMAIN figures :
             /\ figures[i].sum = ran(figures[i].command) /\ figures[i].sum > 0
             /\ \A command \in UNION Range(allCommands) :
                  ran(command) > figures[i].sum =>
                    \E j \in 1 .. i - 1 : figures[j].command = command
        /\ Len(figures) < limit =>
             \A command \in UNION Range(allCommands) : ran(command) > 0 => command \in shown
  BY DEF StatsAreUsage
<1>1. PICK last \in DOMAIN instances \cup {0} : Right(t, last)
  BY DEF StatsInv
<1>2. last \in 0 .. MaxId
  <2>1. DOMAIN instances \subseteq 1 .. MaxId /\ MaxId \in Nat
    BY Constants DEF UsageInv, StoreInv
  <2>. QED
    BY <2>1
<1>. DEFINE table == Query!tableNames[t]
            total == Totals(last, table)
            users == {instances[id].from : id \in DOMAIN instances \cap 1 .. last}
            ids == {id \in DOMAIN moduleNames : FindTableName(moduleNames[id]) = table}
            ran(command) == SumFunction([u \in users \X ids |-> Ran(u[1], u[2], command)])
<1>3. \A x \in Cmds : total[x] = ran(x)
  BY DEF Totals, Users, IdsOf, Table
<1>4. Ranks(inUse[t], total)
  BY <1>1 DEF Right
<1>5. Cmds = UNION Range(allCommands)
  BY DEF Cmds
<1>. DEFINE figures == inUse[t]
            shown == {figures[i].command : i \in DOMAIN figures}
<1>. HIDE DEF total, ran
<1>6. /\ Cardinality(shown) = Len(figures) /\ Len(figures) <= limit
      /\ \A i \in DOMAIN figures :
           /\ figures[i].sum = ran(figures[i].command) /\ figures[i].sum > 0
           /\ \A command \in Cmds :
                ran(command) > figures[i].sum =>
                  \E j \in 1 .. i - 1 : figures[j].command = command
      /\ Len(figures) < limit => \A command \in Cmds : ran(command) > 0 => command \in shown
  BY <1>3, <1>4 DEF Ranks
<1>. QED
  BY <1>2, <1>5, <1>6 DEF ran

(* Nothing is printed yet. *)
LEMMA InitStats == Init => StatsInv
<1>. SUFFICES ASSUME Init PROVE StatsInv
  OBVIOUS
<1>1. inUse = <<>>
  BY DEF Init, Query!Init
<1>2. <<>> \in Seq(Seq([command : Cmds, sum : Nat])) /\ DOMAIN <<>> = {}
  OBVIOUS
<1>. QED
  BY <1>1, <1>2 DEF StatsInv

(* For every table, what Query --stats prints are the commands that the    *)
(* users ran most often, at the moment of that table's query, and how      *)
(* often all of them together ran each: SUM, GROUP BY, ORDER BY and LIMIT  *)
(* of what the reports told.                                               *)
THEOREM StatsAreTheUsage == Spec => []StatsAreUsage
<1>1. Init => UsageInv /\ StatsInv
  BY InitClient, InitStore, InitStats DEF UsageInv
<1>2. UsageInv /\ StatsInv /\ [Next]_vars => (UsageInv /\ StatsInv)'
  BY UsageStep, StatsStep
<1>3. UsageInv /\ StatsInv => StatsAreUsage
  BY StatsRight
<1>. QED
  BY <1>1, <1>2, <1>3, PTL DEF Spec
=============================================================================
