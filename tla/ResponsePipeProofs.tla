------------------------- MODULE ResponsePipeProofs -------------------------
(***************************************************************************)
(* What the harvest of a run of tokens is, token by token: the recursive   *)
(* function of ResponsePipe satisfies the equation that defines it.  The   *)
(* proofs about the exchange and about the terminal reason from it.        *)
(***************************************************************************)
EXTENDS ResponsePipe, Integers, Sequences, FiniteSetTheorems, WellFoundedInduction, TLAPS

-----------------------------------------------------------------------------
(* Induction on the natural numbers.  The library's induction theorems take an
   operator as a parameter; the same said of a set is enough: a statement P(n) is
   proved of every n by taking the set {n \in Nat : P(n)}. *)

LessThan == {pair \in Nat \X Nat : pair[1] < pair[2]}

\* The order of the natural numbers has no endless descent.
LEMMA LessThanWellFounded == IsWellFoundedOn(LessThan, Nat)
BY NatLessThanWellFounded DEF OpToRel, LessThan, IsWellFoundedOn

\* A set with 0 and the successor of each of its numbers holds them all.
LEMMA NatInduct ==
    ASSUME NEW S, 0 \in S, \A n \in Nat : n \in S => n + 1 \in S
    PROVE  Nat \subseteq S
<1> DEFINE T == Nat \ S
<1>1. SUFFICES ASSUME T # {} PROVE FALSE
  OBVIOUS
<1>2. PICK x \in T : \A y \in T : <<y, x>> \notin LessThan
  <2>1. T \subseteq Nat
    OBVIOUS
  <2> HIDE DEF T
  <2> QED
    BY <1>1, <2>1, LessThanWellFounded, WFMin
<1>3. x \in Nat \ {0}
  OBVIOUS
<1>4. x - 1 \in T
  BY <1>3
<1>5. <<x - 1, x>> \in LessThan
  BY <1>3 DEF LessThan
<1> QED
  BY <1>2, <1>4, <1>5

-----------------------------------------------------------------------------
(* The harvest. *)

\* A function on 0..n that follows the harvest's equation.
HarvestUpTo(f, n, p, tokens) ==
    f = [i \in 0..n |-> IF i = 0 THEN p ELSE Absorb(f[i - 1], tokens[i])]

\* There is such a function however many tokens arrive.
LEMMA HarvestExists ==
    ASSUME NEW p, NEW tokens, NEW m \in Nat
    PROVE  \E f : HarvestUpTo(f, m, p, tokens)
<1> DEFINE S == {n \in Nat : \E f : HarvestUpTo(f, n, p, tokens)}
<1>1. 0 \in S
  <2>1. HarvestUpTo([i \in 0..0 |-> p], 0, p, tokens)
    BY DEF HarvestUpTo
  <2> QED
    BY <2>1
<1>2. ASSUME NEW n \in Nat, n \in S PROVE n + 1 \in S
  <2>1. PICK f : HarvestUpTo(f, n, p, tokens)
    BY <1>2
  <2> DEFINE g == [i \in 0..(n + 1) |-> IF i = n + 1 THEN Absorb(f[n], tokens[n + 1])
                                        ELSE f[i]]
  <2>2. \A i \in 0..n : f[i] = IF i = 0 THEN p ELSE Absorb(f[i - 1], tokens[i])
    BY <2>1 DEF HarvestUpTo
  <2>3. \A i \in 0..n : g[i] = f[i]
    OBVIOUS
  <2>4. \A i \in 0..(n + 1) : g[i] = IF i = 0 THEN p ELSE Absorb(g[i - 1], tokens[i])
    <3> SUFFICES ASSUME NEW i \in 0..(n + 1)
                 PROVE  g[i] = IF i = 0 THEN p ELSE Absorb(g[i - 1], tokens[i])
      OBVIOUS
    <3>1. CASE i = n + 1
      <4>1. n + 1 # 0 /\ i - 1 = n /\ n \in 0..n
        BY <3>1
      <4>2. g[i] = Absorb(f[n], tokens[n + 1])
        BY <3>1
      <4> HIDE DEF g
      <4> QED
        BY <3>1, <4>1, <4>2, <2>3
    <3>2. CASE i \in 0..n
      <4>1. i # 0 => i - 1 \in 0..n
        BY <3>2
      <4> HIDE DEF g
      <4> QED
        BY <3>2, <4>1, <2>2, <2>3
    <3> QED
      BY <3>1, <3>2
  <2>5. HarvestUpTo(g, n + 1, p, tokens)
    <3>1. g = [i \in 0..(n + 1) |-> g[i]]
      OBVIOUS
    <3> HIDE DEF g
    <3> QED
      BY <3>1, <2>4 DEF HarvestUpTo
  <2> QED
    BY <2>5
<1>3. Nat \subseteq S
  <2> HIDE DEF S
  <2> QED
    BY <1>1, <1>2, NatInduct
<1> QED
  BY <1>3

\* The harvest starts from the pipe and absorbs the tokens in order.
THEOREM HarvestSteps ==
    ASSUME NEW p, NEW tokens, Len(tokens) \in Nat
    PROVE  /\ Harvest(p, tokens)[0] = p
           /\ \A i \in 1..Len(tokens) :
                 Harvest(p, tokens)[i] = Absorb(Harvest(p, tokens)[i - 1], tokens[i])
<1>1. HarvestUpTo(Harvest(p, tokens), Len(tokens), p, tokens)
  <2>1. PICK f : HarvestUpTo(f, Len(tokens), p, tokens)
    BY HarvestExists
  <2>2. Harvest(p, tokens) = CHOOSE h : HarvestUpTo(h, Len(tokens), p, tokens)
    BY DEF Harvest, HarvestUpTo
  <2> QED
    BY <2>1, <2>2
<1> DEFINE h == Harvest(p, tokens)
<1>2. \A i \in 0..Len(tokens) :
         h[i] = IF i = 0 THEN p ELSE Absorb(h[i - 1], tokens[i])
  <2> HIDE DEF h
  <2>1. h = [i \in 0..Len(tokens) |-> IF i = 0 THEN p ELSE Absorb(h[i - 1], tokens[i])]
    BY <1>1 DEF HarvestUpTo, h
  <2> QED
    BY <2>1
<1> QED
  BY <1>2
=============================================================================
