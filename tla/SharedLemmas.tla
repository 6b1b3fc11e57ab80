--------------------------- MODULE SharedLemmas ---------------------------
(***************************************************************************)
(* Facts that the proofs share: about sequences used as stacks (push =     *)
(* Append, pop = all but the last), and why CHOOSE finds the first of the  *)
(* best, where the code keeps the best it has seen.                        *)
(***************************************************************************)
EXTENDS Integers, Sequences, SequenceTheorems, WellFoundedInduction, TLAPS

\* A function on 1..m is a sequence of length m.
LEMMA TableIsSeq ==
    ASSUME NEW S, NEW m \in Nat, NEW f \in [1..m -> S]
    PROVE  f \in Seq(S) /\ Len(f) = m
  BY SeqDef

\* Append as a function on the indices.
LEMMA AppendTable ==
    ASSUME NEW n \in Nat, NEW f, f = [i \in 1..n |-> f[i]], NEW e
    PROVE  Append(f, e) = [i \in 1..(n + 1) |-> IF i = n + 1 THEN e ELSE f[i]]
<1> DEFINE S == {f[i] : i \in 1..n} \cup {e}
           g == [i \in 1..(n + 1) |-> IF i = n + 1 THEN e ELSE f[i]]
<1>1. f \in [1..n -> S]
  OBVIOUS
<1>2. f \in Seq(S) /\ Len(f) = n
  BY <1>1, SeqDef
<1>3. g \in [1..(n + 1) -> S]
  OBVIOUS
<1>4. g \in Seq(S) /\ Len(g) = n + 1
  <2> HIDE DEF S, g
  <2> QED BY <1>3, n + 1 \in Nat, TableIsSeq
<1>5. e \in S
  OBVIOUS
<1>6. /\ Append(f, e) \in Seq(S)
      /\ Len(Append(f, e)) = n + 1
      /\ \A i \in 1..n : Append(f, e)[i] = f[i]
      /\ Append(f, e)[n + 1] = e
  <2> HIDE DEF S, g
  <2> QED BY <1>2, <1>5, AppendProperties
<1>7. \A i \in 1..(n + 1) : g[i] = Append(f, e)[i]
  BY <1>6
<1> HIDE DEF S, g
<1>8. g = Append(f, e)
  BY <1>4, <1>6, <1>7, SeqEqual
<1> QED
  BY <1>8 DEF g

\* Popping the last element keeps the others (std::vector::pop_back).
LEMMA FrontProperties ==
    ASSUME NEW S, NEW s \in Seq(S), Len(s) > 0
    PROVE  /\ SubSeq(s, 1, Len(s) - 1) \in Seq(S)
           /\ Len(SubSeq(s, 1, Len(s) - 1)) = Len(s) - 1
           /\ \A i \in 1..(Len(s) - 1) : SubSeq(s, 1, Len(s) - 1)[i] = s[i]
<1> DEFINE n == Len(s) - 1
<1>1. 1 \in Int /\ n \in Int /\ \A i \in 1..n : s[i] \in S
  OBVIOUS
<1>2. /\ SubSeq(s, 1, n) \in Seq(S)
      /\ Len(SubSeq(s, 1, n)) = IF 1 <= n THEN n - 1 + 1 ELSE 0
      /\ \A i \in 1 .. (n - 1 + 1) : SubSeq(s, 1, n)[i] = s[1 + i - 1]
  <2> HIDE DEF n
  <2> QED BY <1>1, SubSeqProperties
<1>3. n \in Nat
  BY LenProperties
<1> HIDE DEF n
<1>4. n - 1 + 1 = n /\ (IF 1 <= n THEN n - 1 + 1 ELSE 0) = n
  BY <1>3
<1>5. \A i \in 1..n : 1 + i - 1 = i
  BY <1>3
<1>6. Len(SubSeq(s, 1, n)) = n
  BY <1>2, <1>4
<1>7. \A i \in 1..n : SubSeq(s, 1, n)[i] = s[i]
  BY <1>2, <1>4, <1>5
<1> QED
  BY <1>2, <1>6, <1>7 DEF n

-----------------------------------------------------------------------------
\* A set of naturals that is not empty has a least element.
LEMMA LeastOf ==
    ASSUME NEW T, T \subseteq Nat, T # {}
    PROVE  \E x \in T : \A y \in T : x <= y
<1>1. \E x \in T : \A y \in T : ~ (<< y, x >> \in OpToRel(<, Nat))
  BY NatLessThanWellFounded, WFMin
<1>2. PICK x \in T : \A y \in T : ~ (<< y, x >> \in OpToRel(<, Nat))
  BY <1>1
<1>3. \A y \in T : ~ (y < x)
  BY <1>2 DEF OpToRel
<1> QED
  BY <1>3

\* A bounded one has a greatest.
LEMMA GreatestOf ==
    ASSUME NEW n \in Nat, NEW T, T \subseteq 0..n, T # {}
    PROVE  \E x \in T : \A y \in T : y <= x
<1> DEFINE U == { n - x : x \in T }
<1>0. \A x \in T : n - x \in Nat /\ x \in Int
  OBVIOUS
<1>1. U \subseteq Nat /\ U # {}
  BY <1>0
<1>2. PICK u \in U : \A v \in U : u <= v
  <2> HIDE DEF U
  <2> QED BY <1>1, LeastOf
<1>3. PICK x \in T : u = n - x
  BY <1>2
<1>4. \A y \in T : n - x <= n - y
  BY <1>2, <1>3
<1> HIDE DEF U
<1> QED
  BY <1>0, <1>4
=============================================================================
