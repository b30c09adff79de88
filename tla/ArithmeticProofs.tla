---------------------------- MODULE ArithmeticProofs ----------------------------
(***************************************************************************)
(* Facts about numbers, for every amount and every finite set.              *)
(*                                                                          *)
(* Money: rounding goes to a nearest integer and breaks ties towards the    *)
(* even one, the browser rounds as the server does, and the cents a sale    *)
(* allocates together with what remains are the basis it started from.      *)
(*                                                                          *)
(* Sums: a sum is a fold over a finite set, defined by recursion.  What the *)
(* induction needs is derived from the definition: the sum of the empty     *)
(* set, and that any one element can be taken out.  Induction is by the     *)
(* smallest subset for which a statement fails (Smallest).                  *)
(***************************************************************************)
EXTENDS Money, FiniteSets, Functions, FiniteSetTheorems, WellFoundedInduction, TLAPS

--------------------------------------------------------------------------------
(* Money.                                                                      *)


\* Division with remainder: the quotient and what is left below the divisor.
LEMMA Division ==
  ASSUME NEW n \in Int, NEW d \in Nat \ {0}
  PROVE  /\ n \div d \in Int /\ n % d \in Int
         /\ 0 <= n % d /\ n % d < d
         /\ n = d * (n \div d) + (n % d)
  BY SMT

\* HalfEven lands at most half a divisor away from the fraction it rounds.
THEOREM RoundsToNearest ==
  ASSUME NEW n \in Int, NEW d \in Nat \ {0}
  PROVE  /\ HalfEven(n, d) \in Int
         /\ 2 * (d * HalfEven(n, d) - n) <= d
         /\ 2 * (n - d * HalfEven(n, d)) <= d
<1> DEFINE whole == n \div d
           rest == n % d
<1>1. /\ whole \in Int /\ rest \in Int /\ 0 <= rest /\ rest < d
      /\ n = d * whole + rest
  BY Division
<1>2. HalfEven(n, d) = IF 2 * rest < d \/ (2 * rest = d /\ whole % 2 = 0)
                         THEN whole ELSE whole + 1
  BY DEF HalfEven
<1> HIDE DEF whole, rest
<1>3. d * (whole + 1) = d * whole + d /\ d * whole \in Int
  BY <1>1
<1>4. CASE 2 * rest < d \/ (2 * rest = d /\ whole % 2 = 0)
  BY <1>1, <1>2, <1>3, <1>4
<1>5. CASE ~(2 * rest < d \/ (2 * rest = d /\ whole % 2 = 0))
  <2>1. HalfEven(n, d) = whole + 1 /\ 2 * rest >= d
    BY <1>1, <1>2, <1>5
  <2> QED BY <2>1, <1>1, <1>3
<1> QED BY <1>4, <1>5

\* Of two integers equally near, it takes the even one.
THEOREM TiesGoToEven ==
  ASSUME NEW n \in Int, NEW d \in Nat \ {0}, 2 * (n % d) = d
  PROVE  HalfEven(n, d) % 2 = 0
<1> DEFINE whole == n \div d
<1>1. whole \in Int
  BY Division
<1>2. HalfEven(n, d) = IF whole % 2 = 0 THEN whole ELSE whole + 1
  BY Division DEF HalfEven
<1> HIDE DEF whole
<1>3. whole % 2 # 0 => (whole + 1) % 2 = 0
  BY <1>1
<1> QED BY <1>2, <1>3

\* The ticket's estimate is the notional the server computes, to the cent.
THEOREM BrowserEstimates ==
  ASSUME NEW px \in Nat, NEW qty \in Nat
  PROVE  EstimateNotional(px, qty) = Notional(px, qty)
<1> DEFINE units == px * qty
           cents == units \div 100
           rest == units % 100
<1>1. units \in Nat
  OBVIOUS
<1> HIDE DEF units
<1>2. cents \in Int /\ rest \in Int /\ 0 <= rest /\ rest < 100
  BY <1>1
<1>3. Notional(px, qty) = IF 2 * rest < 100 \/ (2 * rest = 100 /\ cents % 2 = 0)
                            THEN cents ELSE cents + 1
  BY DEF Notional, HalfEven, UnitsPerCent, units
<1>4. EstimateNotional(px, qty) = IF rest > 50 \/ (rest = 50 /\ cents % 2 = 1)
                                    THEN cents + 1 ELSE cents
  BY DEF EstimateNotional, units
<1> HIDE DEF cents, rest
<1>5. cents % 2 = 0 \/ cents % 2 = 1
  BY <1>2
<1> QED BY <1>2, <1>3, <1>4, <1>5

\* The reserve the ticket shows for a market buy is the one placement takes.
THEOREM BrowserReserves ==
  ASSUME NEW px \in Nat, NEW qty \in Nat, NEW bps \in Nat
  PROVE  ReserveInBrowser(px, qty, bps) = ReserveWithBuffer(px, qty, bps)
<1> DEFINE n == px * qty * (10000 + bps)
           cents == n \div 1000000
           rest == n % 1000000
<1>1. n \in Nat
  OBVIOUS
<1>2. UnitsPerCent * 10000 = 1000000
  BY DEF UnitsPerCent
<1>3. ReserveWithBuffer(px, qty, bps) =
        IF 2 * rest < 1000000 \/ (2 * rest = 1000000 /\ cents % 2 = 0)
          THEN cents ELSE cents + 1
  BY <1>2 DEF ReserveWithBuffer, HalfEven
<1>4. ReserveInBrowser(px, qty, bps) =
        IF rest * 2 > 1000000 \/ (rest * 2 = 1000000 /\ cents % 2 = 1)
          THEN cents + 1 ELSE cents
  BY <1>2 DEF ReserveInBrowser
<1> HIDE DEF n
<1>5. cents \in Int /\ rest \in Int /\ 0 <= rest /\ rest < 1000000
  BY <1>1
<1> HIDE DEF cents, rest
<1>6. cents % 2 = 0 \/ cents % 2 = 1
  BY <1>5
<1> QED BY <1>3, <1>4, <1>5, <1>6

\* No cent of a cost basis appears or vanishes: a sale's share and what stays.
THEOREM BasisIsConserved ==
  ASSUME NEW basis \in Int, NEW sold \in Nat \ {0}, NEW total \in Nat \ {0}, sold < total
  PROVE  Allocated(basis, sold, total) * UnitsPerCent + Remaining(basis, sold, total) = basis
<1>1. Allocated(basis, sold, total) = HalfEven(basis * sold, total * UnitsPerCent)
  BY DEF Allocated
<1>2. basis * sold \in Int /\ total * UnitsPerCent \in Nat \ {0} /\ UnitsPerCent = 100
  BY DEF UnitsPerCent
<1>3. HalfEven(basis * sold, total * UnitsPerCent) \in Int
  BY <1>2, RoundsToNearest
<1> QED BY <1>1, <1>2, <1>3 DEF Remaining

\* A basis of whole cents keeps its value and stays at whole cents.
THEOREM BasisStaysInCents ==
  ASSUME NEW basis \in Int, NEW sold \in Nat \ {0}, NEW total \in Nat \ {0}, sold <= total,
         basis % UnitsPerCent = 0
  PROVE  Remaining(basis, sold, total) % UnitsPerCent = 0
<1>1. UnitsPerCent = 100
  BY DEF UnitsPerCent
<1>2. CASE sold = total
  BY <1>1, <1>2 DEF Remaining
<1>3. CASE sold # total
  <2>1. basis * sold \in Int /\ total * UnitsPerCent \in Nat \ {0}
    BY <1>1
  <2>2. PICK a \in Int : a = Allocated(basis, sold, total)
    BY <2>1, <1>3, RoundsToNearest DEF Allocated
  <2>3. Remaining(basis, sold, total) = basis - a * 100
    BY <2>2, <1>1, <1>3 DEF Remaining
  <2> QED BY <2>3, <1>1
<1> QED BY <1>2, <1>3

--------------------------------------------------------------------------------
(* Sums over finite sets.                                                      *)

\* The element the fold takes out of s first.
Some(s) == CHOOSE x \in s : TRUE

\* One turn of the fold, with h for the sums of smaller sets.
Turn(fun, h, s) == IF s = {} THEN 0 ELSE fun[Some(s)] + h[s \ {Some(s)}]

\* The function the fold defines on the subsets of S.
Partial(fun, S) == CHOOSE h : h = [s \in SUBSET S |-> Turn(fun, h, s)]

LEMMA SumIsPartial ==
  ASSUME NEW fun, NEW S
  PROVE  SumFunctionOnSet(fun, S) = Partial(fun, S)[S]
BY DEF SumFunctionOnSet, FoldFunctionOnSet, MapThenFoldSet, Partial, Turn, Some

LEMMA Smallest ==
  ASSUME NEW U, IsFiniteSet(U), NEW Q \in SUBSET (SUBSET U), Q # {}
  PROVE  \E T \in Q : \A V \in Q : ~(V \subseteq T /\ V # T)
<1>1. IsWellFoundedOn(StrictSubsetOrdering(U), FiniteSubsetsOf(U))
  BY FS_StrictSubsetOrderingWellFounded
<1>2. \A T \in SUBSET U : IsFiniteSet(T)
  BY FS_Subset
<1>3. Q \subseteq FiniteSubsetsOf(U)
  BY <1>2 DEF FiniteSubsetsOf
<1>4. \E T \in Q : \A V \in Q : ~(<<V, T>> \in StrictSubsetOrdering(U))
  BY <1>1, <1>3, WFMin
<1> QED BY <1>4, <1>3 DEF StrictSubsetOrdering, FiniteSubsetsOf

LEMMA SomeIsIn == \A s : s # {} => Some(s) \in s
BY DEF Some

\* The fold is defined: its equation has a solution on the small subsets, and so on all.
UpTo(S, T) == {s \in SUBSET S : Cardinality(s) <= Cardinality(T)}
Solves(fun, h, D) == h = [s \in D |-> Turn(fun, h, s)]

LEMMA PartialExists ==
  ASSUME NEW fun, NEW S, IsFiniteSet(S)
  PROVE  \E h : Solves(fun, h, SUBSET S)
<1> DEFINE Q == {T \in SUBSET S : ~\E h : Solves(fun, h, UpTo(S, T))}
<1>1. \A T \in SUBSET S : IsFiniteSet(T) /\ Cardinality(T) \in Nat
  BY FS_Subset, FS_CardinalityType
<1>2. ASSUME Q # {} PROVE FALSE
  <2>1. PICK T \in Q : \A V \in Q : ~(V \subseteq T /\ V # T)
    <3>1. Q \in SUBSET (SUBSET S)
      OBVIOUS
    <3> HIDE DEF Q
    <3> QED BY <1>2, <3>1, Smallest
  <2>2. T \in SUBSET S
    OBVIOUS
  <2>3. CASE T = {}
    <3> DEFINE h == [s \in UpTo(S, T) |-> 0]
    <3>1. \A s \in UpTo(S, T) : s = {}
      BY <1>1, <2>3, FS_EmptySet DEF UpTo
    <3>2. \A s \in UpTo(S, T) : Turn(fun, h, s) = 0
      BY <3>1 DEF Turn
    <3>3. Solves(fun, h, UpTo(S, T))
      BY <3>2 DEF Solves
    <3> QED BY <2>1, <3>3
  <2>4. CASE T # {}
    <3>1. PICK x \in T : TRUE
      BY <2>4
    <3> DEFINE V == T \ {x}
    <3>2. V \in SUBSET S /\ V \subseteq T /\ V # T
      BY <2>2, <3>1
    <3>3. Cardinality(V) = Cardinality(T) - 1
      BY <1>1, <2>2, <3>1, FS_RemoveElement
    <3>4. V \notin Q
      BY <2>1, <3>2
    <3>5. PICK f : Solves(fun, f, UpTo(S, V))
      BY <3>2, <3>4
    <3> HIDE DEF V, Q
    <3> DEFINE h == [s \in UpTo(S, T) |-> Turn(fun, f, s)]
    <3>6. \A s \in UpTo(S, V) : s \in UpTo(S, T) /\ h[s] = f[s]
      BY <1>1, <2>2, <3>2, <3>3, <3>5 DEF UpTo, Solves
    <3>7. ASSUME NEW s \in UpTo(S, T), s # {}
          PROVE  s \ {Some(s)} \in UpTo(S, V)
      <4>1. Some(s) \in s /\ s \in SUBSET S /\ Cardinality(s) <= Cardinality(T)
        BY <3>7, SomeIsIn DEF UpTo
      <4>2. Cardinality(s \ {Some(s)}) = Cardinality(s) - 1
        BY <1>1, <4>1, FS_RemoveElement
      <4>3. Cardinality(s \ {Some(s)}) <= Cardinality(V)
        BY <1>1, <2>2, <3>3, <4>1, <4>2
      <4> QED BY <4>1, <4>3 DEF UpTo
    <3>8. \A s \in UpTo(S, T) : Turn(fun, h, s) = Turn(fun, f, s)
      BY <3>6, <3>7 DEF Turn
    <3>9. Solves(fun, h, UpTo(S, T))
      BY <3>8 DEF Solves
    <3> QED BY <2>1, <3>9 DEF Q
  <2> QED BY <2>3, <2>4
<1>3. PICK h : Solves(fun, h, UpTo(S, S))
  BY <1>2
<1>4. UpTo(S, S) = SUBSET S
  BY FS_Subset DEF UpTo
<1> QED BY <1>3, <1>4

LEMMA PartialTurns ==
  ASSUME NEW fun, NEW S, IsFiniteSet(S)
  PROVE  \A s \in SUBSET S : Partial(fun, S)[s] = Turn(fun, Partial(fun, S), s)
<1> DEFINE h == Partial(fun, S)
<1>1. Solves(fun, h, SUBSET S)
  BY PartialExists DEF Partial, Solves
<1> HIDE DEF h
<1>2. \A s \in SUBSET S : h[s] = Turn(fun, h, s)
  BY <1>1 DEF Solves
<1> QED BY <1>2 DEF h

\* The sum of a part does not depend on the whole.
LEMMA PartialIsSum ==
  ASSUME NEW fun, NEW S, IsFiniteSet(S), NEW T \in SUBSET S
  PROVE  \A s \in SUBSET T : Partial(fun, S)[s] = Partial(fun, T)[s]
<1> DEFINE Q == {s \in SUBSET T : Partial(fun, S)[s] # Partial(fun, T)[s]}
<1>1. IsFiniteSet(T) /\ Q \in SUBSET (SUBSET T)
  BY FS_Subset
<1>2. ASSUME Q # {} PROVE FALSE
  <2>1. PICK s \in Q : \A r \in Q : ~(r \subseteq s /\ r # s)
    <3> HIDE DEF Q
    <3> QED BY <1>1, <1>2, Smallest
  <2>2. s \in SUBSET T /\ s \in SUBSET S
    OBVIOUS
  <2>3. /\ Partial(fun, S)[s] = Turn(fun, Partial(fun, S), s)
        /\ Partial(fun, T)[s] = Turn(fun, Partial(fun, T), s)
    BY <1>1, <2>2, PartialTurns
  <2>4. s # {} => s \ {Some(s)} \subseteq s /\ s \ {Some(s)} # s
    BY SomeIsIn
  <2>5. s # {} => Partial(fun, S)[s \ {Some(s)}] = Partial(fun, T)[s \ {Some(s)}]
    BY <2>1, <2>2, <2>4
  <2>6. Turn(fun, Partial(fun, S), s) = Turn(fun, Partial(fun, T), s)
    BY <2>5 DEF Turn
  <2> QED BY <2>1, <2>3, <2>6
<1> QED BY <1>2

\* The sum of a set is an element's value and the sum of the others.
LEMMA SumTurn ==
  ASSUME NEW fun, NEW S, IsFiniteSet(S)
  PROVE  SumFunctionOnSet(fun, S) =
           IF S = {} THEN 0 ELSE fun[Some(S)] + SumFunctionOnSet(fun, S \ {Some(S)})
<1> DEFINE R == S \ {Some(S)}
<1>1. R \in SUBSET S /\ S \in SUBSET S
  OBVIOUS
<1>2. Partial(fun, S)[R] = Partial(fun, R)[R]
  BY <1>1, PartialIsSum
<1>3. Partial(fun, S)[S] = Turn(fun, Partial(fun, S), S)
  BY <1>1, PartialTurns
<1>4. SumFunctionOnSet(fun, S) = Partial(fun, S)[S] /\ SumFunctionOnSet(fun, R) = Partial(fun, R)[R]
  BY SumIsPartial
<1> QED BY <1>2, <1>3, <1>4 DEF Turn

\* The smallest subset of S, if any, for which something fails.
LEMMA SumType ==
  ASSUME NEW fun, NEW S, IsFiniteSet(S), \A x \in S : fun[x] \in Int
  PROVE  \A T \in SUBSET S : SumFunctionOnSet(fun, T) \in Int
<1> DEFINE Q == {T \in SUBSET S : SumFunctionOnSet(fun, T) \notin Int}
<1>1. ASSUME Q # {} PROVE FALSE
  <2>1. PICK T \in Q : \A V \in Q : ~(V \subseteq T /\ V # T)
    <3>1. Q \in SUBSET (SUBSET S)
      OBVIOUS
    <3> HIDE DEF Q
    <3> QED BY <1>1, <3>1, Smallest
  <2>2. T \in SUBSET S /\ IsFiniteSet(T)
    BY FS_Subset
  <2> DEFINE V == T \ {Some(T)}
  <2>3. SumFunctionOnSet(fun, T) =
          IF T = {} THEN 0 ELSE fun[Some(T)] + SumFunctionOnSet(fun, V)
    BY <2>2, SumTurn
  <2>4. T # {} => Some(T) \in S /\ V \subseteq T /\ V # T
    BY <2>2, SomeIsIn
  <2>5. T # {} => SumFunctionOnSet(fun, V) \in Int
    BY <2>1, <2>2, <2>4
  <2> QED BY <2>1, <2>3, <2>4, <2>5
<1> QED BY <1>1

\* Any element can be taken out of a sum.
LEMMA SumRemove ==
  ASSUME NEW fun, NEW S, IsFiniteSet(S), \A x \in S : fun[x] \in Int
  PROVE  \A T \in SUBSET S : \A x \in T :
           SumFunctionOnSet(fun, T) = fun[x] + SumFunctionOnSet(fun, T \ {x})
<1> DEFINE Splits(T) == \A x \in T :
             SumFunctionOnSet(fun, T) = fun[x] + SumFunctionOnSet(fun, T \ {x})
           Q == {T \in SUBSET S : ~Splits(T)}
<1>1. ASSUME Q # {} PROVE FALSE
  <2>1. PICK T \in Q : \A V \in Q : ~(V \subseteq T /\ V # T)
    <3>1. Q \in SUBSET (SUBSET S)
      OBVIOUS
    <3> HIDE DEF Q
    <3> QED BY <1>1, <3>1, Smallest
  <2>2. T \in SUBSET S /\ ~Splits(T)
    OBVIOUS
  <2>3. PICK x \in T : SumFunctionOnSet(fun, T) # fun[x] + SumFunctionOnSet(fun, T \ {x})
    BY <2>2
  <2> DEFINE c == Some(T)
             A == T \ {c}
             B == T \ {x}
             C == A \ {x}
  <2>4. c \in T
    BY <2>3, SomeIsIn
  <2>5. SumFunctionOnSet(fun, T) = fun[c] + SumFunctionOnSet(fun, A)
    BY <2>2, <2>4, SumTurn, FS_Subset
  <2>6. x # c
    BY <2>3, <2>5
  <2>7. Splits(A) /\ Splits(B)
    <3>1. A \notin Q /\ B \notin Q
      BY <2>1, <2>3, <2>4
    <3>2. A \in SUBSET S /\ B \in SUBSET S
      BY <2>2
    <3> QED BY <3>1, <3>2
  <2>8. x \in A /\ c \in B /\ B \ {c} = C
    BY <2>3, <2>4, <2>6
  <2> HIDE DEF c, A, B
  <2>9. /\ SumFunctionOnSet(fun, A) = fun[x] + SumFunctionOnSet(fun, C)
        /\ SumFunctionOnSet(fun, B) = fun[c] + SumFunctionOnSet(fun, C)
    BY <2>7, <2>8
  <2>10. fun[x] \in Int /\ fun[c] \in Int /\ SumFunctionOnSet(fun, C) \in Int
    <3>1. C \in SUBSET S
      BY <2>2 DEF A
    <3> HIDE DEF C
    <3> QED BY <2>2, <2>3, <2>4, <3>1, SumType
  <2>11. SumFunctionOnSet(fun, T) = fun[x] + SumFunctionOnSet(fun, B)
    BY <2>5, <2>9, <2>10
  <2> QED BY <2>3, <2>11 DEF B
<1> QED BY <1>1

\* Functions that agree on a set have the same sum.
LEMMA SumSame ==
  ASSUME NEW fun, NEW gun, NEW S, IsFiniteSet(S), \A x \in S : fun[x] = gun[x]
  PROVE  SumFunctionOnSet(fun, S) = SumFunctionOnSet(gun, S)
<1> DEFINE Q == {T \in SUBSET S : SumFunctionOnSet(fun, T) # SumFunctionOnSet(gun, T)}
<1>1. ASSUME Q # {} PROVE FALSE
  <2>1. PICK T \in Q : \A V \in Q : ~(V \subseteq T /\ V # T)
    <3>1. Q \in SUBSET (SUBSET S)
      OBVIOUS
    <3> HIDE DEF Q
    <3> QED BY <1>1, <3>1, Smallest
  <2>2. T \in SUBSET S /\ IsFiniteSet(T)
    BY FS_Subset
  <2> DEFINE V == T \ {Some(T)}
  <2>3. T # {} => Some(T) \in S /\ V \subseteq T /\ V # T
    BY <2>2, SomeIsIn
  <2>4. T # {} => SumFunctionOnSet(fun, V) = SumFunctionOnSet(gun, V)
    BY <2>1, <2>2, <2>3
  <2>5. T # {} => fun[Some(T)] = gun[Some(T)]
    BY <2>3
  <2>6. /\ SumFunctionOnSet(fun, T) =
             IF T = {} THEN 0 ELSE fun[Some(T)] + SumFunctionOnSet(fun, V)
        /\ SumFunctionOnSet(gun, T) =
             IF T = {} THEN 0 ELSE gun[Some(T)] + SumFunctionOnSet(gun, V)
    BY <2>2, SumTurn
  <2> QED BY <2>1, <2>4, <2>5, <2>6
<1> QED BY <1>1

\* A part of a sum of naturals is no more than the whole.
LEMMA SumPart ==
  ASSUME NEW fun, NEW S, IsFiniteSet(S), \A x \in S : fun[x] \in Nat, NEW P \in SUBSET S
  PROVE  /\ SumFunctionOnSet(fun, P) \in Int /\ SumFunctionOnSet(fun, S) \in Int
         /\ SumFunctionOnSet(fun, P) <= SumFunctionOnSet(fun, S)
<1> DEFINE Q == {T \in SUBSET S : P \subseteq T /\ ~(SumFunctionOnSet(fun, P) <= SumFunctionOnSet(fun, T))}
<1>1. \A T \in SUBSET S : SumFunctionOnSet(fun, T) \in Int
  <2>1. \A x \in S : fun[x] \in Int
    OBVIOUS
  <2> QED BY <2>1, SumType
<1>2. ASSUME Q # {} PROVE FALSE
  <2>1. PICK T \in Q : \A V \in Q : ~(V \subseteq T /\ V # T)
    <3>1. Q \in SUBSET (SUBSET S)
      OBVIOUS
    <3> HIDE DEF Q
    <3> QED BY <1>2, <3>1, Smallest
  <2>2. T \in SUBSET S /\ P \subseteq T /\ ~(SumFunctionOnSet(fun, P) <= SumFunctionOnSet(fun, T))
    BY <2>1
  <2>3. T # P
    BY <1>1, <2>2
  <2>4. PICK x \in T : x \notin P
    BY <2>2, <2>3
  <2> DEFINE V == T \ {x}
  <2>5. V \in SUBSET S /\ P \subseteq V /\ V \subseteq T /\ V # T
    BY <2>2, <2>4
  <2>6. SumFunctionOnSet(fun, P) <= SumFunctionOnSet(fun, V)
    BY <2>1, <2>5
  <2>7. SumFunctionOnSet(fun, T) = fun[x] + SumFunctionOnSet(fun, V)
    <3>1. \A y \in S : fun[y] \in Int
      OBVIOUS
    <3> QED BY <2>2, <2>4, <3>1, SumRemove
  <2>8. fun[x] \in Nat /\ SumFunctionOnSet(fun, V) \in Int /\ SumFunctionOnSet(fun, P) \in Int
    BY <1>1, <2>2, <2>4, <2>5
  <2> HIDE DEF V, Q
  <2> QED BY <2>2, <2>6, <2>7, <2>8
<1> QED BY <1>1, <1>2

\* A sum of naturals is a natural, and the smaller the terms the smaller the sum.
LEMMA SumAtMost ==
  ASSUME NEW fun, NEW gun, NEW S, IsFiniteSet(S),
         \A x \in S : fun[x] \in Nat /\ gun[x] \in Nat /\ fun[x] <= gun[x]
  PROVE  /\ SumFunctionOnSet(fun, S) \in Nat /\ SumFunctionOnSet(gun, S) \in Nat
         /\ SumFunctionOnSet(fun, S) <= SumFunctionOnSet(gun, S)
<1> DEFINE Low(T) == /\ SumFunctionOnSet(fun, T) \in Nat /\ SumFunctionOnSet(gun, T) \in Nat
                     /\ SumFunctionOnSet(fun, T) <= SumFunctionOnSet(gun, T)
           Q == {T \in SUBSET S : ~Low(T)}
<1>1. ASSUME Q # {} PROVE FALSE
  <2>1. PICK T \in Q : \A V \in Q : ~(V \subseteq T /\ V # T)
    <3>1. Q \in SUBSET (SUBSET S)
      OBVIOUS
    <3> HIDE DEF Q
    <3> QED BY <1>1, <3>1, Smallest
  <2>2. T \in SUBSET S /\ IsFiniteSet(T)
    BY FS_Subset
  <2> DEFINE V == T \ {Some(T)}
  <2>3. T # {} => Some(T) \in S /\ V \subseteq T /\ V # T
    BY <2>2, SomeIsIn
  <2>4. T # {} => Low(V)
    BY <2>1, <2>2, <2>3
  <2>5. /\ SumFunctionOnSet(fun, T) =
             IF T = {} THEN 0 ELSE fun[Some(T)] + SumFunctionOnSet(fun, V)
        /\ SumFunctionOnSet(gun, T) =
             IF T = {} THEN 0 ELSE gun[Some(T)] + SumFunctionOnSet(gun, V)
    BY <2>2, SumTurn
  <2>6. CASE T = {}
    BY <2>5, <2>6
  <2>7. CASE T # {}
    <3>1. PICK f, g, m, n : /\ f = fun[Some(T)] /\ g = gun[Some(T)]
                            /\ m = SumFunctionOnSet(fun, V) /\ n = SumFunctionOnSet(gun, V)
      OBVIOUS
    <3>2. f \in Nat /\ g \in Nat /\ f <= g /\ m \in Nat /\ n \in Nat /\ m <= n
      BY <2>3, <2>4, <2>7, <3>1
    <3>3. f + m \in Nat /\ g + n \in Nat /\ f + m <= g + n
      BY <3>2
    <3>4. SumFunctionOnSet(fun, T) = f + m /\ SumFunctionOnSet(gun, T) = g + n
      BY <2>5, <2>7, <3>1
    <3> QED BY <3>3, <3>4
  <2> QED BY <2>6, <2>7
<1> QED BY <1>1

\* Two sums over sets that have nothing in common.
LEMMA SumApart ==
  ASSUME NEW fun, NEW S, IsFiniteSet(S), \A x \in S : fun[x] \in Int,
         NEW P \in SUBSET S, NEW R \in SUBSET S, P \cap R = {}
  PROVE  SumFunctionOnSet(fun, P \cup R) = SumFunctionOnSet(fun, P) + SumFunctionOnSet(fun, R)
<1> DEFINE Q == {T \in SUBSET R : SumFunctionOnSet(fun, P \cup T) # SumFunctionOnSet(fun, P) + SumFunctionOnSet(fun, T)}
<1>1. \A T \in SUBSET S : SumFunctionOnSet(fun, T) \in Int
  BY SumType
<1>2. SumFunctionOnSet(fun, {}) = 0
  BY SumTurn, FS_EmptySet
<1>3. ASSUME Q # {} PROVE FALSE
  <2>1. PICK T \in Q : \A V \in Q : ~(V \subseteq T /\ V # T)
    <3>1. Q \in SUBSET (SUBSET S)
      OBVIOUS
    <3> HIDE DEF Q
    <3> QED BY <1>3, <3>1, Smallest
  <2>2. T \in SUBSET R /\ SumFunctionOnSet(fun, P \cup T) # SumFunctionOnSet(fun, P) + SumFunctionOnSet(fun, T)
    BY <2>1
  <2>3. T # {}
    <3> SUFFICES ASSUME T = {} PROVE FALSE
      OBVIOUS
    <3>1. P \cup T = P /\ P \in SUBSET S
      OBVIOUS
    <3>2. SumFunctionOnSet(fun, P) \in Int
      BY <1>1, <3>1
    <3> HIDE DEF Q
    <3> QED BY <1>2, <2>2, <3>1, <3>2
  <2>4. PICK x \in T : TRUE
    BY <2>3
  <2> DEFINE V == T \ {x}
             B == P \cup T
  <2>5. V \in SUBSET R /\ V \subseteq T /\ V # T /\ B \ {x} = P \cup V /\ x \in B /\ B \in SUBSET S
    BY <2>2, <2>4
  <2>6. SumFunctionOnSet(fun, P \cup V) = SumFunctionOnSet(fun, P) + SumFunctionOnSet(fun, V)
    BY <2>1, <2>5
  <2>7. T \in SUBSET S /\ V \in SUBSET S /\ fun[x] \in Int
    BY <2>2, <2>4
  <2> HIDE DEF Q, B
  <2>8. SumFunctionOnSet(fun, T) = fun[x] + SumFunctionOnSet(fun, V)
    BY <2>4, <2>7, SumRemove
  <2>9. SumFunctionOnSet(fun, B) = fun[x] + SumFunctionOnSet(fun, B \ {x})
    BY <2>5, SumRemove
  <2>10. SumFunctionOnSet(fun, B \ {x}) = SumFunctionOnSet(fun, P) + SumFunctionOnSet(fun, V)
    BY <2>5, <2>6
  <2>11. SumFunctionOnSet(fun, P) \in Int /\ SumFunctionOnSet(fun, V) \in Int
    BY <1>1, <2>7
  <2> HIDE DEF V
  <2> QED BY <2>2, <2>7, <2>8, <2>9, <2>10, <2>11 DEF B
<1> QED BY <1>3

\* What o adds to the sum of fun over S.
Share(fun, S, o) == IF o \in S THEN fun[o] ELSE 0

\* Two sums that differ at one element at most.
LEMMA SumMoves ==
  ASSUME NEW fun, NEW gun, NEW S, NEW T, NEW o, IsFiniteSet(S), T \ {o} = S \ {o},
         \A x \in S : fun[x] \in Int, \A x \in T : gun[x] \in Int,
         \A x \in S \ {o} : fun[x] = gun[x]
  PROVE  /\ SumFunctionOnSet(fun, S) \in Int
         /\ SumFunctionOnSet(gun, T) = SumFunctionOnSet(fun, S) - Share(fun, S, o) + Share(gun, T, o)
<1> USE DEF Share
<1> DEFINE R == S \ {o}
<1>1. IsFiniteSet(R) /\ R \in SUBSET S /\ R \in SUBSET T /\ T \in SUBSET (R \cup {o})
  BY FS_RemoveElement
<1>2. IsFiniteSet(T)
  BY <1>1, FS_AddElement, FS_Subset
<1>3. SumFunctionOnSet(fun, R) = SumFunctionOnSet(gun, R)
  BY <1>1, SumSame
<1>4. SumFunctionOnSet(fun, R) \in Int /\ SumFunctionOnSet(fun, S) \in Int
  BY <1>1, SumType
<1>5. SumFunctionOnSet(fun, S) = (IF o \in S THEN fun[o] ELSE 0) + SumFunctionOnSet(fun, R)
  <2>1. CASE o \in S
    <3>1. S \in SUBSET S
      OBVIOUS
    <3> HIDE DEF R
    <3> QED BY <2>1, <3>1, SumRemove DEF R
  <2>2. CASE o \notin S
    BY <1>4, <2>2, R = S
  <2> QED BY <2>1, <2>2
<1>6. SumFunctionOnSet(gun, T) = (IF o \in T THEN gun[o] ELSE 0) + SumFunctionOnSet(gun, R)
  <2>1. CASE o \in T
    <3>1. R = T \ {o} /\ T \in SUBSET T
      OBVIOUS
    <3> HIDE DEF R
    <3> QED BY <1>2, <2>1, <3>1, SumRemove
  <2>2. CASE o \notin T
    <3>1. R = T
      BY <2>2
    <3> HIDE DEF R
    <3> QED BY <1>3, <1>4, <2>2, <3>1
  <2> QED BY <2>1, <2>2
<1> HIDE DEF R
<1> QED BY <1>3, <1>4, <1>5, <1>6

\* A set of naturals that is not empty has a least element.
LEMMA LeastNatural ==
  ASSUME NEW Q \in SUBSET Nat, Q # {}
  PROVE  \E n \in Q : \A m \in Q : n <= m
<1> DEFINE R == OpToRel(<, Nat)
<1>1. IsWellFoundedOn(R, Nat)
  BY NatLessThanWellFounded
<1>2. \A m, n \in Nat : <<m, n>> \in R <=> m < n
  BY DEF OpToRel
<1> HIDE DEF R
<1>3. \E n \in Q : \A m \in Q : ~(<<m, n>> \in R)
  BY <1>1, WFMin
<1>4. PICK n \in Q : \A m \in Q : ~(<<m, n>> \in R)
  BY <1>3
<1>5. \A m \in Q : m \in Nat /\ n \in Nat /\ ~(m < n)
  BY <1>2, <1>4
<1>6. \A m \in Q : n <= m
  BY <1>5
<1> QED BY <1>4, <1>6

================================================================================
