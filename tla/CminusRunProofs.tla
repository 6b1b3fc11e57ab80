--------------------------- MODULE CminusRunProofs ---------------------------
(***************************************************************************)
(* Proof that the code CminusBuilder emits does what its source says, for  *)
(* every set of programs of class WellBehaved.                             *)
(*                                                                         *)
(* Each position of each basic block gets a label: what the source has     *)
(* still to do when the machine comes there.  The labels are not in the    *)
(* program; the invariants say that there are some that fit.               *)
(***************************************************************************)
EXTENDS CminusRun, CminusBlockProofs

-----------------------------------------------------------------------------
(* What there is to do.                                                    *)

Work == [do : {"stmt", "index", "effect", "test", "result", "leave", "abort"}, stmt : Stmt]

Cont == Seq(Work)

Ahead(w, K) == << w >> \o K

LEMMA DoIs ==
    /\ \A w, s : M!Do(w, s).do = w /\ M!Do(w, s).stmt = s
    /\ \A s \in Stmt : \A w \in {"stmt", "index", "effect", "test", "result", "leave", "abort"} : M!Do(w, s) \in Work
  BY DEF M!Do, Work

LEMMA AheadIs ==
    ASSUME NEW w \in Work, NEW K \in Cont
    PROVE  /\ Ahead(w, K) \in Cont /\ Ahead(w, K) # << >>
           /\ Head(Ahead(w, K)) = w /\ Tail(Ahead(w, K)) = K
<1> DEFINE one == << w >>
           a == one \o K
           n == Len(K)
<1>1. one \in Cont /\ Len(one) = 1 /\ one[1] = w
  BY DEF Cont
<1>2. n \in Nat
  BY LenProperties DEF Cont
<1> HIDE DEF one
<1>3. /\ a \in Cont /\ Len(a) = Len(one) + n
      /\ \A i \in 1..(Len(one) + n) : a[i] = IF i <= Len(one) THEN one[i] ELSE K[i - Len(one)]
  BY <1>1, ConcatProperties DEF Cont
<1> HIDE DEF a, n
<1>4. /\ a \in Cont /\ Len(a) = 1 + n
      /\ \A i \in 1..(1 + n) : a[i] = IF i <= 1 THEN one[i] ELSE K[i - 1]
  BY <1>1, <1>3
<1>5. a # << >> /\ a[1] = w
  <2>1. 1 \in 1..(1 + n) /\ 1 + n # 0
    BY <1>2
  <2>2. a[1] = one[1]
    BY <1>4, <2>1
  <2> QED
    BY <1>1, <1>4, <2>1, <2>2, EmptySeq
<1>6. Head(a) = w
  BY <1>4, <1>5 DEF Cont
<1>7. /\ Tail(a) \in Cont /\ Len(Tail(a)) = Len(a) - 1
      /\ \A i \in 1..Len(Tail(a)) : Tail(a)[i] = a[i + 1]
  BY <1>4, <1>5, HeadTailProperties DEF Cont
<1>8. /\ 1 + n - 1 = n
      /\ \A i \in 1..n : i + 1 \in 1..(1 + n) /\ ~(i + 1 <= 1) /\ i + 1 - 1 = i
  BY <1>2
<1>9. \A i \in 1..n : Tail(a)[i] = K[i]
  <2> SUFFICES ASSUME NEW i \in 1..n PROVE Tail(a)[i] = K[i]
    OBVIOUS
  <2>1. Tail(a)[i] = a[i + 1]
    BY <1>4, <1>7, <1>8
  <2>2. a[i + 1] = K[i + 1 - 1]
    BY <1>4, <1>8
  <2> QED
    BY <1>8, <2>1, <2>2
<1>10. Len(Tail(a)) = Len(K)
  BY <1>4, <1>7, <1>8 DEF n
<1>11. Tail(a) = K
  BY <1>7, <1>9, <1>10, SeqEqual DEF Cont, n
<1> QED
  BY <1>4, <1>5, <1>6, <1>11 DEF Ahead, a, one

\* The statements of a list from the j-th on, and j subscript checks.
Listed(list, j) == SubSeq(M!Statements(list), j, Len(list))
Indexes(j, s) == [i \in 1..j |-> M!Do("index", s)]

LEMMA ListedIs ==
    ASSUME NEW list \in Seq(Stmt), NEW K \in Cont
    PROVE  /\ M!Statements(list) \o K = Listed(list, 1) \o K
           /\ \A j \in Nat \ {0} : j <= Len(list) =>
                 Listed(list, j) \o K = Ahead(M!Do("stmt", list[j]), Listed(list, j + 1) \o K)
           /\ Listed(list, Len(list) + 1) \o K = K
           /\ \A j \in Nat \ {0} : Listed(list, j) \o K \in Cont
<1> DEFINE n == Len(list)
           q == M!Statements(list)
<1>1. n \in Nat
  BY LenProperties
<1>2. \A i \in 1..n : list[i] \in Stmt
  BY ElementOfSeq
<1>3. q \in [1..n -> Work]
  BY <1>2, DoIs DEF M!Statements
<1>4. \A i \in 1..n : q[i] = M!Do("stmt", list[i])
  BY DEF M!Statements
<1> HIDE DEF q, n
<1>5. q \in Cont /\ Len(q) = n
  BY <1>1, <1>3, TableIsSeq DEF Cont
<1>6. SubSeq(q, 1, n) = q
  BY <1>5, SubSeqFull DEF Cont
<1>7. SubSeq(q, n + 1, n) = << >>
  <2>1. n + 1 \in Int /\ n \in Int /\ n < n + 1
    BY <1>1
  <2> QED
    BY <2>1, SubSeqEmpty
<1>8. << >> \o K = K
  BY ConcatEmptySeq DEF Cont
<1>9. \A j \in Nat \ {0} : SubSeq(q, j, n) \in Cont
  <2> SUFFICES ASSUME NEW j \in Nat \ {0} PROVE SubSeq(q, j, n) \in Cont
    OBVIOUS
  <2>1. j \in Int /\ n \in Int /\ \A i \in j..n : i \in 1..n
    BY <1>1
  <2>2. \A i \in j..n : q[i] \in Work
    BY <1>3, <2>1
  <2> QED
    BY <2>1, <2>2, SubSeqProperties DEF Cont
<1>10. ASSUME NEW j \in Nat \ {0}, j <= n
       PROVE  SubSeq(q, j, n) \o K = Ahead(M!Do("stmt", list[j]), SubSeq(q, j + 1, n) \o K)
  <2> DEFINE one == << q[j] >>
             rest == SubSeq(q, j + 1, n)
  <2>1. j \in 1..n /\ n \in j..n /\ j + 1 \in Nat \ {0}
    BY <1>1, <1>10
  <2>2. SubSeq(q, j, n) = one \o rest
    BY <1>5, <2>1, SubSeqRecursiveFirst DEF Cont
  <2>3. one \in Cont /\ rest \in Cont
    BY <1>3, <1>9, <2>1 DEF Cont
  <2>4. q[j] = M!Do("stmt", list[j])
    BY <1>4, <2>1
  <2> HIDE DEF one, rest
  <2>5. (one \o rest) \o K = one \o (rest \o K)
    BY <2>3, ConcatAssociative DEF Cont
  <2> QED
    BY <2>2, <2>4, <2>5 DEF Ahead, one, rest
<1>11. \A j \in Nat \ {0} : SubSeq(q, j, n) \o K \in Cont
  BY <1>9, ConcatProperties DEF Cont
<1> QED
  BY <1>6, <1>7, <1>8, <1>10, <1>11 DEF Listed, q, n

LEMMA IndexesIs ==
    ASSUME NEW s \in Stmt, NEW K \in Cont
    PROVE  /\ M!Indices(s) = Indexes(s.subscripts, s)
           /\ Indexes(0, s) \o K = K
           /\ \A j \in Nat : Indexes(j, s) \in Cont /\ Indexes(j, s) \o K \in Cont
           /\ \A j \in Nat : j > 0 => Indexes(j, s) \o K = Ahead(M!Do("index", s), Indexes(j - 1, s) \o K)
<1> DEFINE w == M!Do("index", s)
           q(j) == [i \in 1..j |-> w]
<1>1. w \in Work
  BY DoIs
<1>2. \A j \in Nat : q(j) \in [1..j -> Work] /\ \A i \in 1..j : q(j)[i] = w
  BY <1>1
<1>3. \A j \in Nat : Indexes(j, s) = q(j)
  BY DEF Indexes
<1> HIDE DEF w, q
<1>4. \A j \in Nat : q(j) \in Cont /\ Len(q(j)) = j
  BY <1>2, TableIsSeq DEF Cont
<1>5. M!Indices(s) = Indexes(s.subscripts, s)
  BY DEF M!Indices, Indexes
<1>6. q(0) = << >>
  BY <1>4, EmptySeq DEF Cont
<1>7. << >> \o K = K
  BY ConcatEmptySeq DEF Cont
<1>8. \A j \in Nat : q(j) \o K \in Cont
  BY <1>4, ConcatProperties DEF Cont
<1>9. ASSUME NEW j \in Nat, j > 0 PROVE q(j) \o K = Ahead(w, q(j - 1) \o K)
  <2> DEFINE r == q(j - 1)
             one == << w >>
             t == one \o r
  <2>1. j - 1 \in Nat /\ 1 + (j - 1) = j
    BY <1>9
  <2>2. r \in Cont /\ Len(r) = j - 1 /\ \A i \in 1..(j - 1) : r[i] = w
    BY <1>2, <1>4, <2>1
  <2>3. one \in Cont /\ Len(one) = 1 /\ one[1] = w
    BY <1>1 DEF Cont
  <2> HIDE DEF r, one
  <2>4. /\ t \in Cont /\ Len(t) = Len(one) + Len(r)
        /\ \A i \in 1..(Len(one) + Len(r)) : t[i] = IF i <= Len(one) THEN one[i] ELSE r[i - Len(one)]
    BY <2>2, <2>3, ConcatProperties DEF Cont
  <2> HIDE DEF t
  <2>5. t \in Cont /\ Len(t) = j /\ \A i \in 1..j : t[i] = IF i <= 1 THEN one[i] ELSE r[i - 1]
    BY <2>1, <2>2, <2>3, <2>4
  <2>6. \A i \in 1..j : (i <= 1 /\ i = 1) \/ (~(i <= 1) /\ i - 1 \in 1..(j - 1))
    BY <1>9
  <2>7. \A i \in 1..j : t[i] = w
    BY <2>2, <2>3, <2>5, <2>6
  <2>8. q(j) \in Cont /\ Len(q(j)) = j /\ \A i \in 1..j : q(j)[i] = w
    BY <1>2, <1>4
  <2>9. q(j) = t
    BY <2>5, <2>7, <2>8, SeqEqual DEF Cont
  <2>10. t \o K = one \o (r \o K)
    BY <2>2, <2>3, ConcatAssociative DEF Cont, t
  <2> QED
    BY <2>9, <2>10 DEF Ahead, one, r
<1>10. \A j \in Nat : j > 0 => Indexes(j, s) \o K = Ahead(w, Indexes(j - 1, s) \o K)
  <2> SUFFICES ASSUME NEW j \in Nat, j > 0 PROVE Indexes(j, s) \o K = Ahead(w, Indexes(j - 1, s) \o K)
    OBVIOUS
  <2>1. j - 1 \in Nat
    OBVIOUS
  <2> QED
    BY <1>3, <1>9, <2>1
<1> QED
  BY <1>3, <1>4, <1>5, <1>6, <1>7, <1>8, <1>10 DEF w
\* What follows the subscripts of s; nothing follows a return.
Leaving(s) == << M!Do("leave", s) >>

After(s, K) ==
    IF s.kind = "expr" THEN Ahead(M!Do("effect", s), K)
    ELSE IF s.kind = "return" THEN IF s.value THEN Ahead(M!Do("result", s), Leaving(s)) ELSE Leaving(s)
    ELSE Ahead(M!Do("test", s), K)

LEMMA LeavingIs ==
    ASSUME NEW s \in Stmt
    PROVE  /\ Leaving(s) \in Cont /\ Leaving(s) # << >>
           /\ Head(Leaving(s)) = M!Do("leave", s) /\ Leaving(s) = Ahead(M!Do("leave", s), << >>)
<1> DEFINE w == M!Do("leave", s)
<1>1. w \in Work /\ << >> \in Cont
  BY DoIs, EmptySeq DEF Cont
<1> HIDE DEF w
<1>2. << w >> \in Cont
  BY <1>1 DEF Cont
<1>3. << w >> \o << >> = << w >>
  BY <1>2, ConcatEmptySeq DEF Cont
<1>4. Leaving(s) = Ahead(w, << >>) /\ Leaving(s) \in Cont
  BY <1>2, <1>3 DEF Ahead, Leaving, w
<1> QED
  BY <1>1, <1>4, AheadIs DEF w

LEMMA AfterType ==
    ASSUME NEW s \in Stmt, NEW K \in Cont
    PROVE  After(s, K) \in Cont
<1>1. /\ M!Do("effect", s) \in Work /\ M!Do("result", s) \in Work /\ M!Do("test", s) \in Work
      /\ Leaving(s) \in Cont
  BY DoIs, LeavingIs
<1>2. /\ Ahead(M!Do("effect", s), K) \in Cont /\ Ahead(M!Do("test", s), K) \in Cont
      /\ Ahead(M!Do("result", s), Leaving(s)) \in Cont
  BY <1>1, AheadIs
<1> QED
  BY <1>1, <1>2 DEF After

\* A statement at the head, taken apart.
LEMMA Parts ==
    ASSUME NoEmpty(Stmt), NEW s \in Stmt, NEW K \in Cont,
           NEW x, Head(x).stmt = s, Tail(x) = K
    PROVE  /\ s.kind = "compound" => M!Unfolded(x) = Listed(s.list, 1) \o K
           /\ s.kind # "compound" => M!Unfolded(x) = Indexes(s.subscripts, s) \o After(s, K)
           /\ M!Unfolded(x) \in Cont
<1>1. s.kind \in {"expr", "compound", "if", "while", "return"} /\ s.subscripts \in Nat
  BY StmtAssumption DEF IsStmt, Kind, NoEmpty
<1> DEFINE q == M!Indices(s)
           effect == M!Do("effect", s)
           test == M!Do("test", s)
           result == M!Do("result", s)
           leave == M!Do("leave", s)
<1>2. q = Indexes(s.subscripts, s) /\ q \in Cont
  BY <1>1, IndexesIs
<1>3. effect \in Work /\ test \in Work /\ result \in Work /\ leave \in Work
  BY DoIs
<1>4. CASE s.kind = "compound"
  <2>1. M!Unfolded(x) = M!Statements(s.list) \o K
    BY <1>4 DEF M!Unfolded
  <2>2. s.list \in Seq(Stmt)
    BY <1>4, StmtAssumption DEF IsStmt
  <2>3. M!Statements(s.list) \o K = Listed(s.list, 1) \o K
    BY <2>2, ListedIs
  <2>4. 1 \in Nat \ {0} /\ \A j \in Nat \ {0} : Listed(s.list, j) \o K \in Cont
    BY <2>2, ListedIs
  <2> QED
    BY <1>4, <2>1, <2>3, <2>4
<1>5. ASSUME s.kind # "compound" PROVE M!Unfolded(x) = q \o After(s, K)
  <2>1. CASE s.kind = "expr"
    <3>1. M!Unfolded(x) = (q \o << effect >>) \o K
      BY <2>1 DEF M!Unfolded
    <3> HIDE DEF q, effect
    <3>2. << effect >> \in Cont
      BY <1>3 DEF Cont
    <3>3. (q \o << effect >>) \o K = q \o (<< effect >> \o K)
      BY <1>2, <3>2, ConcatAssociative DEF Cont
    <3> QED
      BY <2>1, <3>1, <3>3 DEF After, Ahead, effect
  <2>2. CASE s.kind \in {"if", "while"}
    <3>1. M!Unfolded(x) = (q \o << test >>) \o K
      BY <2>2 DEF M!Unfolded
    <3> HIDE DEF q, test
    <3>2. << test >> \in Cont
      BY <1>3 DEF Cont
    <3>3. (q \o << test >>) \o K = q \o (<< test >> \o K)
      BY <1>2, <3>2, ConcatAssociative DEF Cont
    <3> QED
      BY <2>2, <3>1, <3>3 DEF After, Ahead, test
  <2>3. CASE s.kind = "return"
    <3> DEFINE r == IF s.value THEN << result >> ELSE << >>
    <3>1. M!Unfolded(x) = (q \o r) \o << leave >>
      BY <2>3 DEF M!Unfolded
    <3> HIDE DEF q, result, leave
    <3>2. << leave >> \in Cont /\ << result >> \in Cont /\ << >> \in Cont
      BY <1>3, EmptySeq DEF Cont
    <3>3. (q \o r) \o << leave >> = q \o (r \o << leave >>)
      BY <1>2, <3>2, ConcatAssociative DEF Cont
    <3>4. << >> \o << leave >> = << leave >>
      BY <3>2, ConcatEmptySeq DEF Cont
    <3>5. After(s, K) = r \o << leave >>
      BY <2>3, <3>4 DEF After, Ahead, Leaving, result, leave
    <3> QED
      BY <3>1, <3>3, <3>5
  <2> QED
    BY <1>1, <1>5, <2>1, <2>2, <2>3
<1> HIDE DEF q
<1>6. After(s, K) \in Cont
  BY AfterType
<1>7. q \o After(s, K) \in Cont
  BY <1>2, <1>6, ConcatProperties DEF Cont
<1> QED
  BY <1>2, <1>4, <1>5, <1>7

LEMMA AheadSeen ==
    ASSUME NEW w \in Work, NEW K \in Cont
    PROVE  M!Visible(Ahead(w, K)) <=> w.do # "stmt"
  BY AheadIs DEF M!Visible

LEMMA UnfoldedType ==
    ASSUME NoEmpty(Stmt), NEW x \in Cont, x # << >>, ~M!Visible(x)
    PROVE  M!Unfolded(x) \in Cont
<1>1. Head(x) \in Work /\ Tail(x) \in Cont
  BY HeadTailProperties DEF Cont
<1>2. Head(x).stmt \in Stmt
  BY <1>1 DEF Work
<1> QED
  BY <1>1, <1>2, Parts

-----------------------------------------------------------------------------
(* x leads to y when the source comes from x to y without doing anything    *)
(* that is seen.                                                           *)

Closed(S) == \A u \in S : u # << >> /\ ~M!Visible(u) => M!Unfolded(u) \in S

Leads(x, y) == \A S \in SUBSET Cont : x \in S /\ Closed(S) => y \in S

LEMMA LeadsSelf == \A x : Leads(x, x)
  BY DEF Leads

LEMMA LeadsOn == \A x, y, z : Leads(x, y) /\ Leads(y, z) => Leads(x, z)
  BY DEF Leads

LEMMA LeadsOne == \A x \in Cont : x # << >> /\ ~M!Visible(x) => Leads(x, M!Unfolded(x))
  BY DEF Leads, Closed

\* Nothing happens before something seen but that.
LEMMA LeadsStuck == ASSUME NEW x \in Cont, M!Visible(x), NEW y, Leads(x, y) PROVE y = x
<1>1. {x} \in SUBSET Cont /\ Closed({x})
  BY DEF Closed
<1> QED
  BY <1>1 DEF Leads

\* There is one way to come to what is seen.
LEMMA LeadsNext ==
    ASSUME NoEmpty(Stmt), NEW x \in Cont, ~M!Visible(x), x # << >>, NEW y, y # x, Leads(x, y)
    PROVE  Leads(M!Unfolded(x), y)
<1>1. M!Unfolded(x) \in Cont
  BY UnfoldedType
<1> SUFFICES ASSUME NEW S \in SUBSET Cont, M!Unfolded(x) \in S, Closed(S) PROVE y \in S
  BY DEF Leads
<1>2. S \cup {x} \in SUBSET Cont /\ Closed(S \cup {x})
  BY DEF Closed
<1>3. y \in S \cup {x}
  BY <1>2 DEF Leads
<1> QED
  BY <1>3

LEMMA LeadsSame ==
    ASSUME NoEmpty(Stmt), NEW x \in Cont, NEW y, NEW z, Leads(x, y), Leads(x, z), M!Visible(z)
    PROVE  Leads(y, z)
<1> DEFINE T == { u \in Cont : Leads(u, z) }
<1>1. T \in SUBSET Cont /\ x \in T
  OBVIOUS
<1>2. Closed(T)
  <2> SUFFICES ASSUME NEW u \in T, u # << >>, ~M!Visible(u) PROVE M!Unfolded(u) \in T
    BY DEF Closed
  <2>1. u \in Cont /\ Leads(u, z) /\ u # z
    OBVIOUS
  <2>2. M!Unfolded(u) \in Cont
    BY <2>1, UnfoldedType
  <2>3. Leads(M!Unfolded(u), z)
    BY <2>1, LeadsNext
  <2> QED
    BY <2>2, <2>3
<1>3. y \in T
  <2> HIDE DEF T
  <2> QED
    BY <1>1, <1>2 DEF Leads
<1> QED
  BY <1>3
-----------------------------------------------------------------------------
(* Labels.                                                                 *)

Labels == [Nat -> [Nat -> Cont]]

\* Position n of block b gets label y, the next one z.
Advanced(L, b, n, y, z) == [L EXCEPT ![b] = [L[b] EXCEPT ![n] = y, ![n + 1] = z]]

\* The label of the position at which block b of code c goes on.
EndOf(c, L, b) == L[b][Len(c[b]) + 1]

\* The source has still x to do when the machine goes to block b.
Arrives(x, b, L) ==
    IF b = return_block THEN \E s \in Stmt : Leads(x, Leaving(s)) ELSE Leads(x, L[b][1])

\* The first thing in x is what an observer sees of instruction i.
Shows(x, i) == M!Visible(x) /\ Head(x).do = Seen[i.op] /\ Head(x).stmt.tag = i.tag

\* Instruction i, before which the label is x and after which it is y.
Fits(i, x, y, L) ==
    /\ i.op \notin {"ret", "stray_store"}
    /\ i.op = "alloca" => Leads(x, y)
    /\ i.op = "br" => Len(i.to) = 1 /\ Arrives(x, i.to[1], L)
    /\ i.op \in {"effect", "store"} => Shows(x, i) /\ Leads(M!Rest(x), y)
    /\ i.op = "neg_idx_except" => Shows(x, i)
    /\ i.op = "check" => /\ Len(i.to) = 2 /\ Shows(x, i)
                         /\ Arrives(M!Checked(x, TRUE), i.to[1], L)
                         /\ Arrives(M!Checked(x, FALSE), i.to[2], L)
    /\ i.op = "condbr" => /\ Len(i.to) = 2 /\ Shows(x, i)
                          /\ M!Tested(x, TRUE) \in Cont /\ M!Tested(x, FALSE) \in Cont
                          /\ Arrives(M!Tested(x, TRUE), i.to[1], L)
                          /\ Arrives(M!Tested(x, FALSE), i.to[2], L)

CodeFits(code, l, L) == \A k \in 1..Len(code) : Fits(code[k], l[k], l[k + 1], L)

Labelled(c, L) == \A b \in 1..Len(c) : b # return_block => CodeFits(c[b], L[b], L)

Advances(L, L2, b, n, y, z) ==
    /\ L2 \in Labels
    /\ \A d \in Nat : d # b => L2[d] = L[d]
    /\ L2[b][n] = y /\ L2[b][n + 1] = z
    /\ \A k \in Nat : k # n /\ k # n + 1 => L2[b][k] = L[b][k]

LEMMA AdvancedIs ==
    ASSUME NEW L \in Labels, NEW b \in Nat, NEW n \in Nat, NEW y \in Cont, NEW z \in Cont
    PROVE  Advances(L, Advanced(L, b, n, y, z), b, n, y, z)
<1> DEFINE l == [L[b] EXCEPT ![n] = y, ![n + 1] = z]
<1>1. L[b] \in [Nat -> Cont] /\ n + 1 \in Nat /\ n + 1 # n
  BY DEF Labels
<1>2. /\ l \in [Nat -> Cont] /\ l[n] = y /\ l[n + 1] = z
      /\ \A k \in Nat : k # n /\ k # n + 1 => l[k] = L[b][k]
  BY <1>1
<1> HIDE DEF l
<1>3. /\ [L EXCEPT ![b] = l] \in Labels
      /\ [L EXCEPT ![b] = l][b] = l
      /\ \A d \in Nat : d # b => [L EXCEPT ![b] = l][d] = L[d]
  BY <1>2 DEF Labels
<1> QED
  BY <1>2, <1>3 DEF Advances, Advanced, l

LEMMA ArrivesLater ==
    ASSUME NEW x, NEW b, NEW L, NEW L2, Arrives(x, b, L), Leads(L[b][1], L2[b][1])
    PROVE  Arrives(x, b, L2)
  BY LeadsOn DEF Arrives

\* Later labels fit as well.
LEMMA FitsLater ==
    ASSUME NEW i, NEW x, NEW y, NEW L, Fits(i, x, y, L), NEW P, ToInside(i, P),
           NEW y2, Leads(y, y2), NEW L2, \A b \in P : Leads(L[b][1], L2[b][1])
    PROVE  Fits(i, x, y2, L2)
<1>1. \A v, k : k \in 1..Len(i.to) /\ Arrives(v, i.to[k], L) => Arrives(v, i.to[k], L2)
  BY ArrivesLater DEF ToInside
<1>2. \A v : Len(i.to) = 1 /\ Arrives(v, i.to[1], L) => Arrives(v, i.to[1], L2)
  BY <1>1
<1>3. \A v : Len(i.to) = 2 /\ Arrives(v, i.to[1], L) => Arrives(v, i.to[1], L2)
  BY <1>1
<1>4. \A v : Len(i.to) = 2 /\ Arrives(v, i.to[2], L) => Arrives(v, i.to[2], L2)
  BY <1>1
<1>5. \A v : Leads(v, y) => Leads(v, y2)
  BY LeadsOn
<1> QED
  BY <1>2, <1>3, <1>4, <1>5 DEF Fits

LEMMA ItemInside == ASSUME NEW i \in Item PROVE ToInside(i, Nat)
<1>1. i.to \in Seq(Nat)
  BY DEF Item
<1> QED
  BY <1>1, ElementOfSeq DEF ToInside

\* A block that is not there yet can be given labels.
LEMMA LabelsOfNew ==
    ASSUME NEW c \in Seq(Code), NEW L \in Labels, Labelled(c, L), AllInside(c, 1..Len(c)),
           NEW b \in Nat, b \notin 1..Len(c), NEW n, NEW y, NEW z,
           NEW L2, Advances(L, L2, b, n, y, z)
    PROVE  Labelled(c, L2)
<1>1. \A d \in 1..Len(c) : L2[d] = L[d]
  <2>1. \A d \in 1..Len(c) : d \in Nat /\ d # b
    OBVIOUS
  <2> QED
    BY <2>1 DEF Advances
<1>2. \A d \in 1..Len(c) : Leads(L[d][1], L2[d][1])
  BY <1>1, LeadsSelf
<1>3. ASSUME NEW d \in 1..Len(c), d # return_block, NEW k \in 1..Len(c[d])
      PROVE  Fits(c[d][k], L2[d][k], L2[d][k + 1], L2)
  <2>1. Fits(c[d][k], L[d][k], L[d][k + 1], L)
    BY <1>3 DEF Labelled, CodeFits
  <2>2. ToInside(c[d][k], 1..Len(c))
    BY <1>3 DEF AllInside, Inside
  <2>3. Fits(c[d][k], L[d][k], L[d][k + 1], L2)
    BY <1>2, <2>1, <2>2, LeadsSelf, FitsLater
  <2> QED
    BY <1>1, <1>3, <2>3
<1> QED
  BY <1>3 DEF Labelled, CodeFits

\* Instruction i is emitted into block b, which went on with something that
\* leads to y; z is what it goes on with.
LEMMA EmitLabelled ==
    ASSUME NEW c \in Seq(Code), NEW L \in Labels, Labelled(c, L),
           NEW b \in 1..Len(c), b # return_block, NEW i \in Item, NEW y \in Cont, NEW z \in Cont,
           Leads(EndOf(c, L, b), y),
           Fits(i, y, z, L), NEW L2, Advances(L, L2, b, Len(c[b]) + 1, y, z)
    PROVE  /\ Labelled(Emit(c, b, i), L2) /\ L2 \in Labels
           /\ \A d \in Nat : Leads(L[d][1], L2[d][1])
           /\ \A d \in Nat : d # b => L2[d] = L[d]
           /\ EndOf(Emit(c, b, i), L2, b) = z
           /\ \A d \in 1..Len(c) : d # b => EndOf(Emit(c, b, i), L2, d) = EndOf(c, L, d)
<1> DEFINE e == Emit(c, b, i)
           n == Len(c[b])
<1>1. c[b] \in Code /\ n \in Nat /\ b \in Nat
  BY ElementOfSeq, LenProperties DEF Code
<1>2. /\ e \in Seq(Code) /\ Len(e) = Len(c)
      /\ \A k \in 1..Len(c) : k # b => e[k] = c[k]
      /\ e[b] = Append(c[b], i)
  BY Emitted
<1>3. /\ Len(e[b]) = n + 1 /\ e[b][n + 1] = i
      /\ \A k \in 1..n : e[b][k] = c[b][k]
  BY <1>1, <1>2, AppendProperties DEF Code
<1>4. n + 1 \in Nat
  BY <1>1
<1> HIDE DEF e, n
<1>5. Advances(L, L2, b, n + 1, y, z)
  BY DEF n
<1>6. /\ L2 \in Labels
      /\ \A d \in Nat : d # b => L2[d] = L[d]
      /\ L2[b][n + 1] = y /\ L2[b][n + 1 + 1] = z
      /\ \A k \in Nat : k # n + 1 /\ k # n + 1 + 1 => L2[b][k] = L[b][k]
  BY <1>5 DEF Advances
<1>7. Leads(L[b][n + 1], y)
  BY DEF EndOf, n
<1>8. \A k \in 1..(n + 1) : Leads(L[b][k], L2[b][k])
  <2> SUFFICES ASSUME NEW k \in 1..(n + 1) PROVE Leads(L[b][k], L2[b][k])
    OBVIOUS
  <2>1. k \in Nat /\ (k = n + 1 \/ (k # n + 1 /\ k # n + 1 + 1))
    BY <1>1
  <2> QED
    BY <1>6, <1>7, <2>1, LeadsSelf
<1>9. \A d \in Nat : Leads(L[d][1], L2[d][1])
  <2> SUFFICES ASSUME NEW d \in Nat PROVE Leads(L[d][1], L2[d][1])
    OBVIOUS
  <2>1. 1 \in 1..(n + 1)
    BY <1>1
  <2> QED
    BY <1>6, <1>8, <2>1, LeadsSelf
<1>10. ASSUME NEW d \in 1..Len(e), d # return_block, NEW k \in 1..Len(e[d])
       PROVE  Fits(e[d][k], L2[d][k], L2[d][k + 1], L2)
  <2>1. CASE d # b
    <3>1. d \in 1..Len(c) /\ d \in Nat /\ e[d] = c[d] /\ L2[d] = L[d] /\ k \in 1..Len(c[d])
      BY <1>2, <1>6, <1>10, <2>1
    <3>2. Fits(c[d][k], L[d][k], L[d][k + 1], L)
      BY <1>10, <3>1 DEF Labelled, CodeFits
    <3>3. c[d] \in Seq(Item)
      BY <3>1, ElementOfSeq DEF Code
    <3>4. c[d][k] \in Item
      BY <3>1, <3>3, ElementOfSeq
    <3>5. ToInside(c[d][k], Nat)
      BY <3>4, ItemInside
    <3> QED
      BY <1>9, <3>1, <3>2, <3>5, LeadsSelf, FitsLater
  <2>2. CASE d = b /\ k = n + 1
    <3>1. ToInside(i, Nat)
      BY ItemInside
    <3>2. Fits(i, y, z, L2)
      BY <1>9, <3>1, LeadsSelf, FitsLater
    <3> QED
      BY <1>3, <1>6, <2>2, <3>2
  <2>3. CASE d = b /\ k # n + 1
    <3>1. k \in 1..n /\ k \in Nat /\ k # n + 1 + 1 /\ k + 1 \in 1..(n + 1)
      BY <1>1, <1>3, <1>10, <2>3
    <3>2. Fits(c[b][k], L[b][k], L[b][k + 1], L)
      BY <1>10, <2>3, <3>1 DEF Labelled, CodeFits, n
    <3>3. c[b][k] \in Item
      BY <1>1, <3>1, ElementOfSeq DEF Code, n
    <3>4. ToInside(c[b][k], Nat)
      BY <3>3, ItemInside
    <3>5. Leads(L[b][k + 1], L2[b][k + 1])
      BY <1>8, <3>1
    <3>6. Fits(c[b][k], L[b][k], L2[b][k + 1], L2)
      BY <1>9, <3>2, <3>4, <3>5, FitsLater
    <3> QED
      BY <1>3, <1>6, <2>3, <3>1, <3>6
  <2> QED
    BY <2>1, <2>2, <2>3
<1>11. Labelled(e, L2)
  BY <1>10 DEF Labelled, CodeFits
<1>12. EndOf(e, L2, b) = z
  BY <1>3, <1>6 DEF EndOf
<1>13. \A d \in 1..Len(c) : d # b => EndOf(e, L2, d) = EndOf(c, L, d)
  BY <1>2, <1>6 DEF EndOf
<1> QED
  BY <1>6, <1>9, <1>11, <1>12, <1>13 DEF e

\* A new, empty block has nothing to fit.
LEMMA NewLabelled ==
    ASSUME NEW c \in Seq(Code), NEW L, Labelled(c, L)
    PROVE  Labelled(Append(c, << >>), L)
<1> DEFINE d == Append(c, << >>)
<1>1. /\ Len(c) \in Nat /\ Len(d) = Len(c) + 1
      /\ \A k \in 1..Len(c) : d[k] = c[k]
      /\ d[Len(c) + 1] = << >>
  BY EmptyCode, Created, LenProperties
<1> HIDE DEF d
<1>2. \A k \in 1..Len(d) : k \in 1..Len(c) \/ k = Len(c) + 1
  BY <1>1
<1>3. \A l : CodeFits(<< >>, l, L)
  BY DEF CodeFits
<1>4. \A b \in 1..Len(d) : b # return_block => CodeFits(d[b], L[b], L)
  BY <1>1, <1>2, <1>3 DEF Labelled
<1> QED
  BY <1>4 DEF Labelled, d

-----------------------------------------------------------------------------
(* The handlers in progress and what they still have to do.                *)

\* What there is to do when handler f goes on, K being what follows its node.
Now(f, K) ==
    IF f.pc \in {"start", "body"} THEN Ahead(M!Do("stmt", f.node), K)
    ELSE IF f.pc = "list" THEN Listed(f.node.list, f.next) \o K
    ELSE IF f.pc = "eval" THEN Indexes(f.left, f.node) \o After(f.node, K)
    ELSE K

\* The labels of the blocks that handler f still has to end or to branch to.
Pend(f, K, c, L) ==
    /\ f.pc \in {"then", "else"} =>
          /\ Leads(EndOf(c, L, f.orig_block), Ahead(M!Do("test", f.node), K))
          /\ Leads(Ahead(M!Do("stmt", f.node.then), K), L[f.trueBB][1])
    /\ f.pc = "else" =>
          /\ f.node.else \in Stmt
          /\ Leads(Ahead(M!Do("stmt", f.node.else), K), L[f.falseBB][1])
          /\ ~f.trueBB_returned => Leads(EndOf(c, L, f.trueBB_location), K)
    /\ f.node.kind = "while" /\ f.pc \in {"eval", "body"} =>
          Leads(Ahead(M!Do("stmt", f.node), K), L[f.orig_block][1])
    /\ f.pc = "body" =>
          /\ Leads(EndOf(c, L, f.orig_block), Ahead(M!Do("test", f.node), K))
          /\ Leads(Ahead(M!Do("stmt", f.node.body), Ahead(M!Do("stmt", f.node), K)), L[f.trueBB][1])

\* Code c, emitted so far by the handlers t for the function body src, has the
\* labels L; K[k] is what follows the node of the k-th handler.
Good(c, t, cur, src, L, K) ==
    /\ L \in Labels /\ Labelled(c, L)
    /\ K \in [Nat -> Cont]
    /\ \A k \in 1..Len(t) : K[k + 1] = Now(t[k], K[k]) /\ Pend(t[k], K[k], c, L)
    /\ t # << >> /\ ~HasTerminator(c[cur]) => Leads(EndOf(c, L, cur), K[Len(t) + 1])
    /\ Leads(Ahead(M!Do("stmt", src), << >>), L[entrybb][1])

Fit(c, t, cur, src) == \E L, K : Good(c, t, cur, src, L, K)

LEMMA NowType ==
    ASSUME NEW f \in Frame, FrameOK(f), NEW K \in Cont
    PROVE  Now(f, K) \in Cont
<1>1. /\ f.node \in Stmt /\ f.left \in Nat /\ f.next \in Nat \ {0}
      /\ f.pc \in {"start", "eval", "list", "then", "else", "body"}
  BY DEF Frame
<1>2. Ahead(M!Do("stmt", f.node), K) \in Cont
  <2>1. M!Do("stmt", f.node) \in Work
    BY <1>1, DoIs
  <2> QED
    BY <2>1, AheadIs
<1>3. ASSUME f.pc = "list" PROVE Listed(f.node.list, f.next) \o K \in Cont
  <2>1. f.node.kind = "compound"
    BY <1>3 DEF FrameOK
  <2>2. f.node.list \in Seq(Stmt)
    BY <1>1, <2>1, StmtAssumption DEF IsStmt
  <2> QED
    BY <1>1, <2>2, ListedIs
<1>4. Indexes(f.left, f.node) \o After(f.node, K) \in Cont
  <2>1. After(f.node, K) \in Cont
    BY <1>1, AfterType
  <2> QED
    BY <1>1, <2>1, IndexesIs
<1> QED
  BY <1>2, <1>3, <1>4 DEF Now

\* Calling accept on s, before which s was still to do.
LEMMA CalledNow ==
    ASSUME NoEmpty(Stmt), NEW s \in Stmt, NEW K \in Cont
    PROVE  /\ Leads(Ahead(M!Do("stmt", s), K), Now(Handler(s), K))
           /\ Now(Handler(s), K) \in Cont
<1> DEFINE x == Ahead(M!Do("stmt", s), K)
<1>1. M!Do("stmt", s) \in Work /\ M!Do("stmt", s).do = "stmt" /\ M!Do("stmt", s).stmt = s
  BY DoIs
<1>2. x \in Cont /\ x # << >> /\ Head(x).stmt = s /\ Tail(x) = K /\ ~M!Visible(x)
  BY <1>1, AheadIs, AheadSeen
<1> HIDE DEF x
<1>3. Leads(x, M!Unfolded(x)) /\ M!Unfolded(x) \in Cont
  BY <1>2, LeadsOne, UnfoldedType
<1>4. s.kind \in {"expr", "compound", "if", "while", "return"}
  BY StmtAssumption DEF IsStmt, Kind, NoEmpty
<1>5. CASE s.kind \in {"compound", "while"}
  <2>1. Handler(s).pc = "start" /\ Handler(s).node = s
    BY <1>5 DEF Handler
  <2>2. Now(Handler(s), K) = x
    BY <2>1 DEF Now, x
  <2> QED
    BY <1>2, <2>2, LeadsSelf DEF x
<1>6. CASE s.kind \in {"expr", "if", "return"}
  <2>1. Handler(s).pc = "eval" /\ Handler(s).node = s /\ Handler(s).left = s.subscripts
    BY <1>6 DEF Handler
  <2>2. Now(Handler(s), K) = Indexes(s.subscripts, s) \o After(s, K)
    BY <2>1 DEF Now
  <2>3. M!Unfolded(x) = Indexes(s.subscripts, s) \o After(s, K)
    BY <1>2, <1>6, Parts
  <2> QED
    BY <1>3, <2>2, <2>3 DEF x
<1> QED
  BY <1>4, <1>5, <1>6

\* A handler that waits for another is not disturbed by what that one does.
LEMMA PendStays ==
    ASSUME NEW f, NEW K, NEW c, NEW d, NEW L, NEW L2, Pend(f, K, c, L),
           NEW P, FrameInside(f, P), \A b \in P : Leads(L[b][1], L2[b][1]),
           \A b \in Debts(f) : d[b] = c[b] /\ L2[b] = L[b]
    PROVE  Pend(f, K, d, L2)
<1>1. \A b \in Debts(f) : EndOf(d, L2, b) = EndOf(c, L, b)
  BY DEF EndOf
<1>2. \A x, b : b \in P /\ Leads(x, L[b][1]) => Leads(x, L2[b][1])
  BY LeadsOn
<1>3. f.pc \in {"then", "else", "body"} => f.orig_block \in Debts(f) /\ f.trueBB \in P
  BY DEF Debts, FrameInside
<1>4. f.pc = "else" => f.falseBB \in P /\ (~f.trueBB_returned => f.trueBB_location \in Debts(f))
  BY DEF Debts, FrameInside
<1>5. f.node.kind = "while" /\ f.pc \in {"eval", "body"} => f.orig_block \in P
  BY DEF FrameInside
<1> QED
  BY <1>1, <1>2, <1>3, <1>4, <1>5 DEF Pend

\* The stack u after a step: the handlers below the innermost one wait, the
\* innermost one has moved on, called another or returned.
Stepped(c, d, t, u, cur, cur2, L, K, L2, K2, P) ==
    /\ t \in Seq(Frame) /\ t # << >> /\ u \in Seq(Frame)
    /\ L2 \in Labels /\ Labelled(d, L2)
    /\ entrybb \in P /\ FramesInside(t, P)
    /\ \A b \in P : Leads(L[b][1], L2[b][1])
    /\ \A k \in 1..(Len(t) - 1) : \A b \in Debts(t[k]) : d[b] = c[b] /\ L2[b] = L[b]
    /\ K2 \in [Nat -> Cont] /\ \A k \in 1..Len(t) : K2[k] = K[k]
    /\ Len(u) \in (Len(t) - 1)..(Len(t) + 1) /\ \A k \in 1..(Len(t) - 1) : u[k] = t[k]
    /\ \A k \in Len(t)..Len(u) : K2[k + 1] = Now(u[k], K2[k]) /\ Pend(u[k], K2[k], d, L2)
    /\ ~HasTerminator(d[cur2]) => Leads(EndOf(d, L2, cur2), K2[Len(u) + 1])

LEMMA GoodStep ==
    ASSUME NEW c, NEW d, NEW t, NEW u, NEW cur, NEW cur2, NEW src, NEW L, NEW K, NEW L2, NEW K2, NEW P,
           Good(c, t, cur, src, L, K), Stepped(c, d, t, u, cur, cur2, L, K, L2, K2, P)
    PROVE  Good(d, u, cur2, src, L2, K2)
<1>0. /\ t \in Seq(Frame) /\ t # << >> /\ u \in Seq(Frame)
      /\ L2 \in Labels /\ Labelled(d, L2)
      /\ entrybb \in P /\ FramesInside(t, P)
      /\ \A b \in P : Leads(L[b][1], L2[b][1])
      /\ \A k \in 1..(Len(t) - 1) : \A b \in Debts(t[k]) : d[b] = c[b] /\ L2[b] = L[b]
      /\ K2 \in [Nat -> Cont] /\ \A k \in 1..Len(t) : K2[k] = K[k]
      /\ Len(u) \in (Len(t) - 1)..(Len(t) + 1) /\ \A k \in 1..(Len(t) - 1) : u[k] = t[k]
      /\ \A k \in Len(t)..Len(u) : K2[k + 1] = Now(u[k], K2[k]) /\ Pend(u[k], K2[k], d, L2)
      /\ ~HasTerminator(d[cur2]) => Leads(EndOf(d, L2, cur2), K2[Len(u) + 1])
  BY DEF Stepped
<1> DEFINE n == Len(t)
           m == Len(u)
<1>1. n \in Nat /\ n > 0 /\ m \in Nat /\ m \in (n - 1)..(n + 1)
  BY <1>0, EmptySeq, LenProperties
<1>2. /\ \A k \in 1..n : K[k + 1] = Now(t[k], K[k]) /\ Pend(t[k], K[k], c, L)
      /\ Leads(Ahead(M!Do("stmt", src), << >>), L[entrybb][1])
  BY DEF Good
<1>3. /\ \A k \in 1..(n - 1) : u[k] = t[k]
      /\ \A k \in 1..n : K2[k] = K[k]
      /\ \A k \in 1..(n - 1) : \A b \in Debts(t[k]) : d[b] = c[b] /\ L2[b] = L[b]
      /\ \A k \in 1..n : FrameInside(t[k], P)
      /\ \A k \in n..m : K2[k + 1] = Now(u[k], K2[k]) /\ Pend(u[k], K2[k], d, L2)
  BY <1>0 DEF FramesInside
<1> HIDE DEF n, m
<1>4. /\ \A k \in 1..m : k \in 1..(n - 1) \/ k \in n..m
      /\ \A k \in 1..(n - 1) : k \in 1..n /\ k + 1 \in 1..n
  BY <1>1
<1>5. \A k \in 1..(n - 1) : K2[k + 1] = Now(u[k], K2[k]) /\ Pend(u[k], K2[k], d, L2)
  <2> SUFFICES ASSUME NEW k \in 1..(n - 1)
               PROVE  K2[k + 1] = Now(u[k], K2[k]) /\ Pend(u[k], K2[k], d, L2)
    OBVIOUS
  <2>1. k \in 1..n /\ k + 1 \in 1..n
    BY <1>4
  <2>2. u[k] = t[k] /\ K2[k] = K[k] /\ K2[k + 1] = K[k + 1]
    BY <1>3, <2>1
  <2>3. K[k + 1] = Now(t[k], K[k]) /\ Pend(t[k], K[k], c, L)
    BY <1>2, <2>1
  <2>4. FrameInside(t[k], P) /\ \A b \in Debts(t[k]) : d[b] = c[b] /\ L2[b] = L[b]
    BY <1>3, <2>1
  <2>5. Pend(t[k], K[k], d, L2)
    BY <1>0, <2>3, <2>4, PendStays
  <2> QED
    BY <2>2, <2>3, <2>5
<1>6. \A k \in 1..m : K2[k + 1] = Now(u[k], K2[k]) /\ Pend(u[k], K2[k], d, L2)
  BY <1>3, <1>4, <1>5
<1>7. Leads(Ahead(M!Do("stmt", src), << >>), L2[entrybb][1])
  BY <1>0, <1>2, LeadsOn
<1> QED
  BY <1>0, <1>6, <1>7 DEF Good, m

-----------------------------------------------------------------------------
(* Emitting, with labels.                                                   *)

\* Code d with labels L2 has grown out of code c with labels L; only the blocks
\* in S have got more instructions.
Grown(c, L, d, L2, S) ==
    /\ d \in Seq(Code) /\ Len(d) >= Len(c)
    /\ L2 \in Labels /\ Labelled(d, L2)
    /\ \A b \in 1..Len(c) : Leads(L[b][1], L2[b][1])
    /\ \A b \in 1..Len(c) : b \notin S => d[b] = c[b] /\ L2[b] = L[b]

LEMMA GrownNone ==
    ASSUME NEW c \in Seq(Code), NEW L \in Labels, Labelled(c, L)
    PROVE  \A S : Grown(c, L, c, L, S)
<1>1. Len(c) >= Len(c)
  BY LenProperties
<1> QED
  BY <1>1, LeadsSelf DEF Grown

\* Labels for block b, which is not there yet.
GivenLabels(L, b, y, z) == Advanced(L, b, 1, y, z)

LEMMA GrownLabels ==
    ASSUME NEW c \in Seq(Code), NEW L, NEW L1, NEW S, Grown(c, L, c, L1, S), AllInside(c, 1..Len(c)),
           NEW b \in Nat, b \notin 1..Len(c), NEW y \in Cont, NEW z \in Cont
    PROVE  LET L2 == GivenLabels(L1, b, y, z) IN
           /\ Grown(c, L, c, L2, S) /\ L2[b][1] = y /\ L2[b][2] = z
           /\ \A k \in Nat : k # b => L2[k] = L1[k]
<1> DEFINE L2 == Advanced(L1, b, 1, y, z)
<1>1. /\ L1 \in Labels /\ Labelled(c, L1) /\ Len(c) >= Len(c)
      /\ \A d \in 1..Len(c) : Leads(L[d][1], L1[d][1])
      /\ \A d \in 1..Len(c) : d \notin S => L1[d] = L[d]
  BY DEF Grown
<1>2. Advances(L1, L2, b, 1, y, z)
  BY <1>1, AdvancedIs
<1> HIDE DEF L2
<1>3. Labelled(c, L2)
  BY <1>1, <1>2, LabelsOfNew
<1>4. /\ L2 \in Labels /\ L2[b][1] = y /\ L2[b][1 + 1] = z
      /\ \A k \in Nat : k # b => L2[k] = L1[k]
  BY <1>2 DEF Advances
<1>5. L2[b][2] = z
  BY <1>4
<1>6. \A d \in 1..Len(c) : L2[d] = L1[d]
  BY <1>4
<1>7. Grown(c, L, c, L2, S)
  BY <1>1, <1>3, <1>4, <1>6 DEF Grown
<1> QED
  BY <1>4, <1>5, <1>7 DEF GivenLabels, L2

\* Instruction i can be put at the end of block b, where the source comes to y
\* and goes on with z.
CanEmit(c, L, d, L1, S, b, i, y, z) ==
    /\ c \in Seq(Code) /\ Grown(c, L, d, L1, S) /\ b \in S
    /\ b \in 1..Len(c) /\ b # return_block
    /\ i \in Item /\ y \in Cont /\ z \in Cont
    /\ Leads(EndOf(d, L1, b), y) /\ Fits(i, y, z, L1)

LEMMA GrownEmit ==
    ASSUME NEW c, NEW L, NEW d, NEW L1, NEW S, NEW b, NEW i, NEW y, NEW z,
           CanEmit(c, L, d, L1, S, b, i, y, z)
    PROVE  \E L2 : /\ Grown(c, L, Emit(d, b, i), L2, S)
                   /\ EndOf(Emit(d, b, i), L2, b) = z
                   /\ \A k \in Nat : k # b => L2[k] = L1[k]
                   /\ \A k \in 1..Len(c) : k # b => EndOf(Emit(d, b, i), L2, k) = EndOf(d, L1, k)
<1> DEFINE n == Len(d[b]) + 1
           e == Emit(d, b, i)
           L2 == Advanced(L1, b, n, y, z)
<1>0. /\ c \in Seq(Code) /\ Grown(c, L, d, L1, S) /\ b \in S
      /\ b \in 1..Len(c) /\ b # return_block
      /\ i \in Item /\ y \in Cont /\ z \in Cont
      /\ Leads(EndOf(d, L1, b), y) /\ Fits(i, y, z, L1)
  BY DEF CanEmit
<1>1. /\ d \in Seq(Code) /\ Len(d) >= Len(c) /\ Len(c) \in Nat /\ Len(d) \in Nat
      /\ L1 \in Labels /\ Labelled(d, L1)
      /\ \A k \in 1..Len(c) : Leads(L[k][1], L1[k][1])
      /\ \A k \in 1..Len(c) : k \notin S => d[k] = c[k] /\ L1[k] = L[k]
  BY <1>0, LenProperties DEF Grown
<1>2. b \in 1..Len(d) /\ b \in Nat /\ \A k \in 1..Len(c) : k \in 1..Len(d) /\ k \in Nat
  BY <1>0, <1>1
<1>3. d[b] \in Code
  BY <1>1, <1>2, ElementOfSeq
<1>4. n \in Nat
  BY <1>3, LenProperties DEF Code
<1>5. Advances(L1, L2, b, Len(d[b]) + 1, y, z)
  BY <1>0, <1>1, <1>2, <1>4, AdvancedIs
<1> HIDE DEF L2, n
<1>6. /\ Labelled(e, L2) /\ L2 \in Labels
      /\ \A k \in Nat : Leads(L1[k][1], L2[k][1])
      /\ \A k \in Nat : k # b => L2[k] = L1[k]
      /\ EndOf(e, L2, b) = z
  BY <1>0, <1>1, <1>2, <1>5, EmitLabelled
<1>7. /\ e \in Seq(Code) /\ Len(e) = Len(d)
      /\ \A k \in 1..Len(d) : k # b => e[k] = d[k]
  BY <1>0, <1>1, <1>2, Emitted
<1> HIDE DEF e
<1>8. \A k \in 1..Len(c) : Leads(L[k][1], L2[k][1])
  BY <1>1, <1>2, <1>6, LeadsOn
<1>9. \A k \in 1..Len(c) : k \notin S => e[k] = c[k] /\ L2[k] = L[k]
  BY <1>0, <1>1, <1>2, <1>6, <1>7
<1>10. Grown(c, L, e, L2, S)
  BY <1>1, <1>6, <1>7, <1>8, <1>9 DEF Grown
<1>11. \A k \in 1..Len(c) : k # b => EndOf(e, L2, k) = EndOf(d, L1, k)
  BY <1>2, <1>6, <1>7 DEF EndOf
<1> QED
  BY <1>6, <1>10, <1>11 DEF e

\* A block more.
LEMMA GrownNew ==
    ASSUME NEW c \in Seq(Code), NEW L, NEW d, NEW L1, NEW S, Grown(c, L, d, L1, S)
    PROVE  /\ Grown(c, L, Append(d, << >>), L1, S)
           /\ EndOf(Append(d, << >>), L1, Len(d) + 1) = L1[Len(d) + 1][1]
<1> DEFINE e == Append(d, << >>)
<1>1. /\ d \in Seq(Code) /\ Len(d) >= Len(c) /\ Len(c) \in Nat /\ Len(d) \in Nat
      /\ L1 \in Labels /\ Labelled(d, L1)
      /\ \A k \in 1..Len(c) : Leads(L[k][1], L1[k][1])
      /\ \A k \in 1..Len(c) : k \notin S => d[k] = c[k] /\ L1[k] = L[k]
  BY LenProperties DEF Grown
<1>2. /\ e \in Seq(Code) /\ Len(e) = Len(d) + 1
      /\ \A k \in 1..Len(d) : e[k] = d[k]
      /\ e[Len(d) + 1] = << >>
  BY <1>1, EmptyCode, Created
<1>3. Labelled(e, L1)
  BY <1>1, NewLabelled
<1> HIDE DEF e
<1>4. Len(e) >= Len(c) /\ \A k \in 1..Len(c) : k \in 1..Len(d)
  BY <1>1, <1>2
<1>5. Grown(c, L, e, L1, S)
  BY <1>1, <1>2, <1>3, <1>4 DEF Grown
<1>6. Len(<< >>) + 1 = 1
  BY EmptySeq
<1>7. EndOf(e, L1, Len(d) + 1) = L1[Len(d) + 1][1]
  BY <1>2, <1>6 DEF EndOf
<1> QED
  BY <1>5, <1>7 DEF e

-----------------------------------------------------------------------------
(* What each instruction asks of its labels.                                *)

LEMMA Parted ==
    ASSUME NEW s \in Stmt, NEW K \in Cont
    PROVE  \A w \in {"stmt", "index", "effect", "test", "result", "leave", "abort"} :
              LET x == Ahead(M!Do(w, s), K) IN
              /\ x \in Cont /\ x # << >> /\ Head(x).do = w /\ Head(x).stmt = s /\ Tail(x) = K
              /\ M!Visible(x) <=> w # "stmt"
<1> SUFFICES ASSUME NEW w \in {"stmt", "index", "effect", "test", "result", "leave", "abort"}
             PROVE  LET x == Ahead(M!Do(w, s), K) IN
                    /\ x \in Cont /\ x # << >> /\ Head(x).do = w /\ Head(x).stmt = s /\ Tail(x) = K
                    /\ M!Visible(x) <=> w # "stmt"
  OBVIOUS
<1> DEFINE v == M!Do(w, s)
<1>1. v \in Work /\ v.do = w /\ v.stmt = s
  BY DoIs
<1> HIDE DEF v
<1>2. /\ Ahead(v, K) \in Cont /\ Ahead(v, K) # << >> /\ Head(Ahead(v, K)) = v /\ Tail(Ahead(v, K)) = K
      /\ M!Visible(Ahead(v, K)) <=> v.do # "stmt"
  BY <1>1, AheadIs, AheadSeen
<1> QED
  BY <1>1, <1>2 DEF v

LEMMA TestedIs ==
    ASSUME NEW s \in Stmt, NEW K \in Cont
    PROVE  LET x == Ahead(M!Do("test", s), K) IN
           /\ s.kind = "while" => /\ M!Tested(x, TRUE) = Ahead(M!Do("stmt", s.body), Ahead(M!Do("stmt", s), K))
                                  /\ M!Tested(x, FALSE) = K
           /\ s.kind = "if" => /\ M!Tested(x, TRUE) = Ahead(M!Do("stmt", s.then), K)
                               /\ M!Tested(x, FALSE) = IF s.else = NoStmt THEN K
                                                       ELSE Ahead(M!Do("stmt", s.else), K)
<1> DEFINE x == Ahead(M!Do("test", s), K)
<1>1. Head(x).stmt = s /\ Tail(x) = K
  BY Parted
<1> HIDE DEF x
<1>2. ASSUME s.kind = "while"
      PROVE  /\ M!Tested(x, TRUE) = Ahead(M!Do("stmt", s.body), Ahead(M!Do("stmt", s), K))
             /\ M!Tested(x, FALSE) = K
  <2> DEFINE a == M!Do("stmt", s.body)
             b == M!Do("stmt", s)
  <2>1. a \in Work /\ b \in Work
    BY <1>2, StmtAssumption, DoIs DEF IsStmt
  <2>2. M!Tested(x, TRUE) = << a, b >> \o K /\ M!Tested(x, FALSE) = K
    BY <1>1, <1>2 DEF M!Tested
  <2> HIDE DEF a, b
  <2>3. << a >> \in Cont /\ << b >> \in Cont /\ << a >> \o << b >> = << a, b >>
    <3>1. << a >> \in Cont /\ << b >> \in Cont /\ << a, b >> \in Cont
      BY <2>1 DEF Cont
    <3> DEFINE one == << a >>
               two == << b >>
               both == << a, b >>
               q == one \o two
    <3>2. /\ Len(one) = 1 /\ one[1] = a /\ Len(two) = 1 /\ two[1] = b
          /\ Len(both) = 2 /\ both[1] = a /\ both[2] = b
      OBVIOUS
    <3> HIDE DEF one, two, both
    <3>3. /\ q \in Cont /\ Len(q) = Len(one) + Len(two)
          /\ \A i \in 1..(Len(one) + Len(two)) : q[i] = IF i <= Len(one) THEN one[i] ELSE two[i - Len(one)]
      BY <3>1, ConcatProperties DEF Cont, one, two
    <3> HIDE DEF q
    <3>4. Len(q) = 2 /\ q[1] = a /\ q[2] = b
      BY <3>2, <3>3
    <3>5. \A i \in 1..Len(q) : q[i] = both[i]
      BY <3>2, <3>4
    <3>6. both \in Cont /\ Len(both) = Len(q)
      BY <3>1, <3>2, <3>4 DEF both
    <3>7. q = both
      BY <3>3, <3>5, <3>6, SeqEqual DEF Cont
    <3> QED
      BY <3>1, <3>7 DEF q, one, two, both
  <2>4. (<< a >> \o << b >>) \o K = << a >> \o (<< b >> \o K)
    BY <2>3, ConcatAssociative DEF Cont
  <2> QED
    BY <2>2, <2>3, <2>4 DEF Ahead, a, b
<1>3. ASSUME s.kind = "if"
      PROVE  /\ M!Tested(x, TRUE) = Ahead(M!Do("stmt", s.then), K)
             /\ M!Tested(x, FALSE) = IF s.else = NoStmt THEN K ELSE Ahead(M!Do("stmt", s.else), K)
  BY <1>1, <1>3 DEF M!Tested, Ahead
<1> QED
  BY <1>2, <1>3 DEF x

LEMMA PlainFits ==
    ASSUME NEW s \in Stmt, NEW K \in Cont, NEW L
    PROVE  /\ Fits(Alloca, K, K, L)
           /\ Fits(Effect(s.tag), Ahead(M!Do("effect", s), K), K, L)
           /\ Fits(StoreResult(s.tag), Ahead(M!Do("result", s), K), K, L)
           /\ \A z : Fits(CallExcept(s.tag), Ahead(M!Do("abort", s), K), z, L)
<1>1. Fits(Alloca, K, K, L)
  BY LeadsSelf DEF Fits, Alloca
<1>2. Fits(Effect(s.tag), Ahead(M!Do("effect", s), K), K, L)
  <2> DEFINE x == Ahead(M!Do("effect", s), K)
  <2>1. Head(x).do = "effect" /\ Head(x).stmt = s /\ Tail(x) = K /\ M!Visible(x)
    BY Parted
  <2> HIDE DEF x
  <2> QED
    BY <2>1, LeadsSelf DEF Fits, Effect, Shows, Seen, M!Rest, x
<1>3. Fits(StoreResult(s.tag), Ahead(M!Do("result", s), K), K, L)
  <2> DEFINE x == Ahead(M!Do("result", s), K)
  <2>1. Head(x).do = "result" /\ Head(x).stmt = s /\ Tail(x) = K /\ M!Visible(x)
    BY Parted
  <2> HIDE DEF x
  <2> QED
    BY <2>1, LeadsSelf DEF Fits, StoreResult, Shows, Seen, M!Rest, x
<1>4. \A z : Fits(CallExcept(s.tag), Ahead(M!Do("abort", s), K), z, L)
  <2> DEFINE x == Ahead(M!Do("abort", s), K)
  <2>1. Head(x).do = "abort" /\ Head(x).stmt = s /\ Tail(x) = K /\ M!Visible(x)
    BY Parted
  <2> HIDE DEF x
  <2> QED
    BY <2>1 DEF Fits, CallExcept, Shows, Seen, x
<1> QED
  BY <1>1, <1>2, <1>3, <1>4

LEMMA BrFits ==
    ASSUME NEW tag, NEW b, NEW x, NEW L, Arrives(x, b, L), NEW z
    PROVE  Fits(Br(tag, b), x, z, L)
<1>1. Br(tag, b).op = "br" /\ Len(Br(tag, b).to) = 1 /\ Br(tag, b).to[1] = b
  BY DEF Br
<1> QED
  BY <1>1 DEF Fits

LEMMA CheckFits ==
    ASSUME NEW s \in Stmt, NEW K \in Cont, NEW n, NEW m, NEW L,
           Arrives(<< M!Do("abort", s) >>, n, L), Arrives(K, m, L), NEW z
    PROVE  Fits(CheckBr(s.tag, n, m), Ahead(M!Do("index", s), K), z, L)
<1> DEFINE x == Ahead(M!Do("index", s), K)
           i == CheckBr(s.tag, n, m)
<1>1. Head(x).do = "index" /\ Head(x).stmt = s /\ Tail(x) = K /\ M!Visible(x)
  BY Parted
<1>2. i.op = "check" /\ Len(i.to) = 2 /\ i.to[1] = n /\ i.to[2] = m /\ i.tag = s.tag
  BY DEF CheckBr
<1> HIDE DEF x, i
<1>3. Shows(x, i)
  BY <1>1, <1>2 DEF Shows, Seen
<1>4. M!Checked(x, TRUE) = << M!Do("abort", s) >> /\ M!Checked(x, FALSE) = K
  BY <1>1 DEF M!Checked
<1> QED
  BY <1>2, <1>3, <1>4 DEF Fits, x, i

LEMMA CondFits ==
    ASSUME NEW s \in Stmt, s.kind \in {"if", "while"}, NEW K \in Cont, NEW n, NEW m, NEW L,
           Arrives(M!Tested(Ahead(M!Do("test", s), K), TRUE), n, L),
           Arrives(M!Tested(Ahead(M!Do("test", s), K), FALSE), m, L), NEW z
    PROVE  Fits(CondBr(s.tag, n, m), Ahead(M!Do("test", s), K), z, L)
<1> DEFINE x == Ahead(M!Do("test", s), K)
           i == CondBr(s.tag, n, m)
<1>1. Head(x).do = "test" /\ Head(x).stmt = s /\ M!Visible(x)
  BY Parted
<1>2. i.op = "condbr" /\ Len(i.to) = 2 /\ i.to[1] = n /\ i.to[2] = m /\ i.tag = s.tag
  BY DEF CondBr
<1>3. M!Tested(x, TRUE) \in Cont /\ M!Tested(x, FALSE) \in Cont
  <2>1. /\ s.kind = "while" => s.body \in Stmt
        /\ s.kind = "if" => s.then \in Stmt /\ (s.else # NoStmt => s.else \in Stmt)
    BY StmtAssumption DEF IsStmt
  <2>2. \A u \in Stmt : \A c \in Cont : Ahead(M!Do("stmt", u), c) \in Cont
    BY Parted
  <2>3. CASE s.kind = "while"
    <3>1. /\ M!Tested(x, TRUE) = Ahead(M!Do("stmt", s.body), Ahead(M!Do("stmt", s), K))
          /\ M!Tested(x, FALSE) = K
      BY <2>3, TestedIs
    <3>2. Ahead(M!Do("stmt", s), K) \in Cont /\ s.body \in Stmt
      BY <2>1, <2>2, <2>3
    <3> HIDE DEF x
    <3> QED
      BY <2>2, <3>1, <3>2
  <2>4. CASE s.kind = "if"
    <3>1. /\ M!Tested(x, TRUE) = Ahead(M!Do("stmt", s.then), K)
          /\ M!Tested(x, FALSE) = IF s.else = NoStmt THEN K ELSE Ahead(M!Do("stmt", s.else), K)
      BY <2>4, TestedIs
    <3> HIDE DEF x
    <3> QED
      BY <2>1, <2>2, <2>4, <3>1
  <2> QED
    BY <2>3, <2>4
<1> HIDE DEF x, i
<1>4. Shows(x, i)
  BY <1>1, <1>2 DEF Shows, Seen
<1> QED
  BY <1>2, <1>3, <1>4 DEF Fits, x, i

-----------------------------------------------------------------------------
(* One step of the innermost handler.                                      *)

Working == IInv /\ TargetInv /\ BlockInv /\ phase = "body" /\ stack # << >>

\* What follows the node of the innermost handler.
Rear(K) == K[Len(stack)]

LEMMA WaitingBelow ==
    ASSUME Working
    PROVE  /\ stack \in Seq(Frame) /\ stack # << >> /\ Len(stack) \in Nat /\ Len(stack) > 0
           /\ entrybb \in 1..Len(blocks) /\ FramesInside(stack, 1..Len(blocks))
           /\ \A k \in 1..(Len(stack) - 1) : \A b \in Debts(stack[k]) :
                 b \in placed /\ b # curr_block /\ b \notin Debts(Top)
<1> USE DEF Working
<1>1. stack \in Seq(Frame) /\ Len(blocks) \in Nat /\ Len(blocks) >= 2
  BY AtWork
<1>2. Len(stack) \in Nat /\ Len(stack) > 0
  BY <1>1, TopAndPopped
<1>3. entrybb \in 1..Len(blocks)
  BY <1>1 DEF entrybb
<1>4. placed \ {entrybb} \subseteq 1..Len(blocks)
  BY OwingAtWork
<1>5. FramesInside(stack, placed \ {entrybb})
  BY BranchesAtWork
<1>6. FramesInside(stack, 1..Len(blocks))
  BY <1>4, <1>5 DEF FramesInside, FrameInside
<1> DEFINE n == Len(stack)
<1>7. /\ \A k \in 1..n : \A b \in Debts(stack[k]) : b \in placed /\ b # curr_block
      /\ \A j, k \in 1..n : j # k => Debts(stack[j]) \cap Debts(stack[k]) = {}
  BY DEF BlockInv, OwedInv
<1>8. Top = stack[n]
  BY DEF Top
<1> HIDE DEF n
<1>9. \A k \in 1..(n - 1) : k \in 1..n /\ n \in 1..n /\ k # n
  BY <1>2 DEF n
<1>10. \A k \in 1..(n - 1) : \A b \in Debts(stack[k]) : b \in placed /\ b # curr_block /\ b \notin Debts(Top)
  BY <1>7, <1>8, <1>9
<1> QED
  BY <1>1, <1>2, <1>3, <1>6, <1>10 DEF n

LEMMA GoodAtWork ==
    ASSUME Working, NEW L, NEW K, Good(blocks, stack, curr_block, source, L, K)
    PROVE  /\ L \in Labels /\ Labelled(blocks, L) /\ K \in [Nat -> Cont]
           /\ Rear(K) \in Cont /\ Pend(Top, Rear(K), blocks, L)
           /\ K[Len(stack) + 1] = Now(Top, Rear(K)) /\ Now(Top, Rear(K)) \in Cont
           /\ ~Ended => Leads(EndOf(blocks, L, curr_block), Now(Top, Rear(K)))
<1> DEFINE n == Len(stack)
<1>1. n \in Nat /\ n > 0
  BY WaitingBelow
<1>2. n \in 1..n
  BY <1>1
<1>3. Top = stack[n] /\ Top \in Frame /\ FrameOK(Top)
  BY AtWork, OwingAtWork DEF Working, Top
<1>4. /\ L \in Labels /\ Labelled(blocks, L) /\ K \in [Nat -> Cont]
      /\ K[n + 1] = Now(stack[n], K[n]) /\ Pend(stack[n], K[n], blocks, L)
      /\ ~Ended => Leads(EndOf(blocks, L, curr_block), K[n + 1])
  BY <1>2 DEF Good, Ended, Working
<1>5. K[n] \in Cont
  BY <1>1, <1>4
<1>6. Now(Top, K[n]) \in Cont
  BY <1>3, <1>5, NowType
<1> QED
  BY <1>3, <1>4, <1>5, <1>6 DEF Rear

\* What a step of the innermost handler leaves alone.
LEMMA GrownAtWork ==
    ASSUME Working, NEW L, NEW L2, NEW S, Grown(blocks, L, blocks', L2, S), S \subseteq Debts(Top) \cup {curr_block}
    PROVE  /\ L2 \in Labels /\ Labelled(blocks', L2)
           /\ \A b \in 1..Len(blocks) : Leads(L[b][1], L2[b][1])
           /\ \A b \in placed : b # curr_block /\ b \notin Debts(Top) => blocks'[b] = blocks[b] /\ L2[b] = L[b]
<1>1. placed \subseteq 1..Len(blocks)
  BY OwingAtWork DEF Working
<1> QED
  BY <1>1 DEF Grown

\* The innermost handler moves on to f.
LEMMA FitMove ==
    ASSUME Working, NEW L, NEW K, Good(blocks, stack, curr_block, source, L, K),
           NEW L2, NEW S, Grown(blocks, L, blocks', L2, S), S \subseteq Debts(Top) \cup {curr_block},
           NEW f \in Frame, FrameOK(f), stack' = Append(Popped, f), Pend(f, Rear(K), blocks', L2),
           ~HasTerminator(blocks'[curr_block']) => Leads(EndOf(blocks', L2, curr_block'), Now(f, Rear(K)))
    PROVE  Fit(blocks', stack', curr_block', source)
<1> DEFINE n == Len(stack)
           u == stack'
           d == blocks'
           c2 == curr_block'
           x == Now(f, K[n])
           K2 == [K EXCEPT ![n + 1] = x]
<1>0. /\ L2 \in Labels /\ Labelled(blocks', L2)
      /\ \A b \in 1..Len(blocks) : Leads(L[b][1], L2[b][1])
      /\ \A b \in placed : b # curr_block /\ b \notin Debts(Top) => blocks'[b] = blocks[b] /\ L2[b] = L[b]
  BY GrownAtWork
<1>1. /\ stack \in Seq(Frame) /\ stack # << >> /\ n \in Nat /\ n > 0
      /\ entrybb \in 1..Len(blocks) /\ FramesInside(stack, 1..Len(blocks))
      /\ \A k \in 1..(n - 1) : \A b \in Debts(stack[k]) : b \in placed /\ b # curr_block /\ b \notin Debts(Top)
  BY WaitingBelow
<1>2. /\ u \in Seq(Frame) /\ Len(u) = n /\ u[n] = f
      /\ \A k \in 1..(n - 1) : u[k] = stack[k]
  BY <1>1, Replaced
<1>3. K \in [Nat -> Cont] /\ K[n] \in Cont
  BY GoodAtWork DEF Rear
<1>4. x \in Cont
  BY <1>3, NowType
<1> HIDE DEF x
<1>5. K2 \in [Nat -> Cont] /\ K2[n + 1] = x /\ \A k \in Nat : k # n + 1 => K2[k] = K[k]
  BY <1>1, <1>3, <1>4
<1> HIDE DEF K2
<1>6. \A k \in 1..n : K2[k] = K[k]
  BY <1>1, <1>5
<1>7. Labelled(d, L2) /\ Pend(f, K[n], d, L2) /\ (~HasTerminator(d[c2]) => Leads(EndOf(d, L2, c2), x))
  BY <1>0 DEF Rear, x
<1> HIDE DEF u, d, c2, n
<1>8. n \in 1..n /\ (\A k \in n..n : k = n) /\ n \in (n - 1)..(n + 1)
  BY <1>1
<1>9. \A k \in n..Len(u) : K2[k + 1] = Now(u[k], K2[k]) /\ Pend(u[k], K2[k], d, L2)
  <2>1. K2[n + 1] = Now(u[n], K2[n]) /\ Pend(u[n], K2[n], d, L2)
    BY <1>2, <1>5, <1>6, <1>7, <1>8 DEF x
  <2> QED
    BY <1>2, <1>8, <2>1
<1>10. \A k \in 1..(n - 1) : \A b \in Debts(stack[k]) : d[b] = blocks[b] /\ L2[b] = L[b]
  BY <1>0, <1>1 DEF d
<1>11. ~HasTerminator(d[c2]) => Leads(EndOf(d, L2, c2), K2[Len(u) + 1])
  BY <1>2, <1>5, <1>7
<1>12. Stepped(blocks, d, stack, u, curr_block, c2, L, K, L2, K2, 1..Len(blocks))
  BY <1>0, <1>1, <1>2, <1>5, <1>6, <1>7, <1>8, <1>9, <1>10, <1>11 DEF Stepped, n
<1>13. Good(d, u, c2, source, L2, K2)
  BY <1>12, GoodStep
<1> QED
  BY <1>13 DEF Fit, d, u, c2

\* The innermost handler moves on to f and calls accept on s.
LEMMA FitCall ==
    ASSUME Working, WellBehaved(Stmt, Decl), NEW L, NEW K, Good(blocks, stack, curr_block, source, L, K),
           NEW L2, NEW S, Grown(blocks, L, blocks', L2, S), S \subseteq Debts(Top) \cup {curr_block},
           NEW f \in Frame, FrameOK(f), NEW s \in Stmt, stack' = Call(f, s), Pend(f, Rear(K), blocks', L2),
           ~HasTerminator(blocks'[curr_block']) =>
               Leads(EndOf(blocks', L2, curr_block'), Ahead(M!Do("stmt", s), Now(f, Rear(K))))
    PROVE  Fit(blocks', stack', curr_block', source)
<1> DEFINE n == Len(stack)
           u == stack'
           d == blocks'
           c2 == curr_block'
           h == Handler(s)
           x == Now(f, K[n])
           y == Now(h, x)
           K2 == [K EXCEPT ![n + 1] = x, ![n + 2] = y]
<1>0. /\ L2 \in Labels /\ Labelled(blocks', L2)
      /\ \A b \in 1..Len(blocks) : Leads(L[b][1], L2[b][1])
      /\ \A b \in placed : b # curr_block /\ b \notin Debts(Top) => blocks'[b] = blocks[b] /\ L2[b] = L[b]
  BY GrownAtWork
<1>1. /\ stack \in Seq(Frame) /\ stack # << >> /\ n \in Nat /\ n > 0
      /\ entrybb \in 1..Len(blocks) /\ FramesInside(stack, 1..Len(blocks))
      /\ \A k \in 1..(n - 1) : \A b \in Debts(stack[k]) : b \in placed /\ b # curr_block /\ b \notin Debts(Top)
  BY WaitingBelow
<1>2. /\ u \in Seq(Frame) /\ Len(u) = n + 1 /\ u[n] = f /\ u[n + 1] = h
      /\ \A k \in 1..(n - 1) : u[k] = stack[k]
  BY <1>1, Called
<1>3. K \in [Nat -> Cont] /\ K[n] \in Cont
  BY GoodAtWork DEF Rear
<1>4. x \in Cont
  BY <1>3, NowType
<1>5. Labelled(d, L2) /\ Pend(f, K[n], d, L2) /\ (~HasTerminator(d[c2]) => Leads(EndOf(d, L2, c2), Ahead(M!Do("stmt", s), x)))
  BY <1>0 DEF Rear
<1> HIDE DEF x
<1>6. y \in Cont /\ (~HasTerminator(d[c2]) => Leads(EndOf(d, L2, c2), y))
  <2>1. Leads(Ahead(M!Do("stmt", s), x), y) /\ y \in Cont
    BY <1>4, CalledNow DEF WellBehaved, Behaved
  <2> QED
    BY <1>5, <2>1, LeadsOn
<1>7. \A w : Pend(h, w, d, L2)
  <2>1. h.pc \in {"start", "eval"} /\ h.node = s /\ (h.pc = "eval" => s.kind # "while")
    BY HandlerOK
  <2> QED
    BY <2>1 DEF Pend
<1> HIDE DEF y
<1>8. K2 \in [Nat -> Cont] /\ K2[n + 1] = x /\ K2[n + 2] = y /\ \A k \in Nat : k # n + 1 /\ k # n + 2 => K2[k] = K[k]
  <2>1. n + 1 \in Nat /\ n + 2 \in Nat /\ n + 1 # n + 2
    BY <1>1
  <2> HIDE DEF n
  <2> QED
    BY <1>3, <1>4, <1>6, <2>1
<1> HIDE DEF K2
<1>9. \A k \in 1..n : K2[k] = K[k]
  BY <1>1, <1>8
<1> HIDE DEF u, d, c2, n, h
<1>10. /\ n \in 1..n /\ (\A k \in n..(n + 1) : k = n \/ k = n + 1) /\ n + 1 \in (n - 1)..(n + 1)
       /\ n + 1 + 1 = n + 2
  BY <1>1
<1>11. \A k \in n..Len(u) : K2[k + 1] = Now(u[k], K2[k]) /\ Pend(u[k], K2[k], d, L2)
  <2>1. K2[n + 1] = Now(u[n], K2[n]) /\ Pend(u[n], K2[n], d, L2)
    BY <1>2, <1>5, <1>8, <1>9, <1>10 DEF x
  <2>2. K2[n + 1 + 1] = Now(u[n + 1], K2[n + 1]) /\ Pend(u[n + 1], K2[n + 1], d, L2)
    BY <1>2, <1>7, <1>8, <1>10 DEF y
  <2> QED
    BY <1>2, <1>10, <2>1, <2>2
<1>12. \A k \in 1..(n - 1) : \A b \in Debts(stack[k]) : d[b] = blocks[b] /\ L2[b] = L[b]
  BY <1>0, <1>1 DEF d
<1>13. ~HasTerminator(d[c2]) => Leads(EndOf(d, L2, c2), K2[Len(u) + 1])
  BY <1>2, <1>6, <1>8, <1>10
<1>14. Stepped(blocks, d, stack, u, curr_block, c2, L, K, L2, K2, 1..Len(blocks))
  BY <1>0, <1>1, <1>2, <1>5, <1>8, <1>9, <1>10, <1>11, <1>12, <1>13 DEF Stepped, n
<1>15. Good(d, u, c2, source, L2, K2)
  BY <1>14, GoodStep
<1> QED
  BY <1>15 DEF Fit, d, u, c2

\* The innermost handler returns.
LEMMA FitReturn ==
    ASSUME Working, NEW L, NEW K, Good(blocks, stack, curr_block, source, L, K),
           NEW L2, NEW S, Grown(blocks, L, blocks', L2, S), S \subseteq Debts(Top) \cup {curr_block},
           stack' = Popped,
           ~HasTerminator(blocks'[curr_block']) => Leads(EndOf(blocks', L2, curr_block'), Rear(K))
    PROVE  Fit(blocks', stack', curr_block', source)
<1> DEFINE n == Len(stack)
           u == stack'
           d == blocks'
           c2 == curr_block'
<1>0. /\ L2 \in Labels /\ Labelled(blocks', L2)
      /\ \A b \in 1..Len(blocks) : Leads(L[b][1], L2[b][1])
      /\ \A b \in placed : b # curr_block /\ b \notin Debts(Top) => blocks'[b] = blocks[b] /\ L2[b] = L[b]
  BY GrownAtWork
<1>1. /\ stack \in Seq(Frame) /\ stack # << >> /\ n \in Nat /\ n > 0
      /\ entrybb \in 1..Len(blocks) /\ FramesInside(stack, 1..Len(blocks))
      /\ \A k \in 1..(n - 1) : \A b \in Debts(stack[k]) : b \in placed /\ b # curr_block /\ b \notin Debts(Top)
  BY WaitingBelow
<1>2. /\ u \in Seq(Frame) /\ Len(u) = n - 1
      /\ \A k \in 1..(n - 1) : u[k] = stack[k]
  BY <1>1, TopAndPopped
<1>3. K \in [Nat -> Cont]
  BY GoodAtWork
<1>4. Labelled(d, L2) /\ (~HasTerminator(d[c2]) => Leads(EndOf(d, L2, c2), K[n]))
  BY <1>0 DEF Rear
<1> HIDE DEF u, d, c2, n
<1>5. (\A k \in n..(n - 1) : FALSE) /\ n - 1 \in (n - 1)..(n + 1) /\ n - 1 + 1 = n
  BY <1>1
<1>6. \A k \in 1..(n - 1) : \A b \in Debts(stack[k]) : d[b] = blocks[b] /\ L2[b] = L[b]
  BY <1>0, <1>1 DEF d
<1>7. \A k \in n..Len(u) : K[k + 1] = Now(u[k], K[k]) /\ Pend(u[k], K[k], d, L2)
  BY <1>2, <1>5
<1>8. ~HasTerminator(d[c2]) => Leads(EndOf(d, L2, c2), K[Len(u) + 1])
  BY <1>2, <1>4, <1>5
<1>9. Stepped(blocks, d, stack, u, curr_block, c2, L, K, L2, K, 1..Len(blocks))
  BY <1>0, <1>1, <1>2, <1>3, <1>4, <1>5, <1>6, <1>7, <1>8 DEF Stepped, n
<1>10. Good(d, u, c2, source, L2, K)
  BY <1>9, GoodStep
<1> QED
  BY <1>10 DEF Fit, d, u, c2
-----------------------------------------------------------------------------
(* The steps of the compiler inside a function.                             *)

LEMMA LabelsAtWork ==
    ASSUME Working, NEW L, NEW K, Good(blocks, stack, curr_block, source, L, K)
    PROVE  /\ blocks \in Seq(Code) /\ (\A S : Grown(blocks, L, blocks, L, S)) /\ AllInside(blocks, 1..Len(blocks))
           /\ NewBlock = Len(blocks) + 1 /\ NewBlock \in Nat /\ NewBlock \notin 1..Len(blocks)
           /\ NewBlock # return_block
           /\ insert = curr_block /\ curr_block \in 1..Len(blocks) /\ curr_block # return_block
           /\ \A b \in Debts(Top) : b \in 1..Len(blocks) /\ b # return_block /\ b # curr_block
<1>1. /\ blocks \in Seq(Code) /\ Len(blocks) \in Nat /\ Len(blocks) >= 2
  BY AtWork DEF Working
<1>2. /\ insert = curr_block /\ curr_block \in placed /\ placed \subseteq 1..Len(blocks)
      /\ return_block \notin placed /\ return_block \in 1..Len(blocks)
      /\ \A b \in Debts(Top) : b \in placed /\ b # curr_block
  BY OwingAtWork DEF Working
<1>3. AllInside(blocks, Targets(placed))
  BY BranchesAtWork DEF Working
<1>4. Targets(placed) \subseteq 1..Len(blocks)
  BY <1>2 DEF Targets
<1>5. AllInside(blocks, 1..Len(blocks))
  BY <1>3, <1>4, InsideMore
<1>6. \A S : Grown(blocks, L, blocks, L, S)
  BY <1>1, GoodAtWork, GrownNone
<1>7. /\ NewBlock = Len(blocks) + 1 /\ NewBlock \in Nat /\ NewBlock \notin 1..Len(blocks)
      /\ NewBlock # return_block
  BY <1>1 DEF NewBlock, return_block
<1> QED
  BY <1>1, <1>2, <1>5, <1>6, <1>7

LEMMA CompoundEnterFits ==
    ASSUME Working, WellBehaved(Stmt, Decl), NEW L, NEW K, Good(blocks, stack, curr_block, source, L, K),
           compound_stmt_enter
    PROVE  Fit(blocks', stack', curr_block', source)
<1> DEFINE s == Top.node
           R == Rear(K)
           x == Ahead(M!Do("stmt", s), R)
           f == [Top EXCEPT !.pc = "list"]
<1>1. /\ phase = "body" /\ stack # << >> /\ s.kind = "compound" /\ Top.pc = "start"
      /\ curr_block' = curr_block /\ stack' = Append(Popped, f)
      /\ blocks' = blocks \/ blocks' = Emit(blocks, insert, Alloca)
  BY DEF compound_stmt_enter, At
<1>2. Top \in Frame /\ s \in Stmt /\ s.list \in Seq(Stmt) /\ FrameOK(Top) /\ ~Ended
  BY <1>1, AtWork, OwingAtWork DEF Working, IsStmt
<1>3. f \in Frame /\ f.node = s /\ f.pc = "list" /\ f.next = Top.next /\ Top.next = 1
  <2>1. f \in Frame /\ f.node = s /\ f.pc = "list" /\ f.next = Top.next
    BY <1>2 DEF Frame
  <2>2. Top.next = 1
    BY <1>1, <1>2 DEF FrameOK
  <2> QED
    BY <2>1, <2>2
<1> HIDE DEF f
<1>4. FrameOK(f)
  <2>1. Len(s.list) \in Nat
    BY <1>2, LenProperties
  <2>2. f.next <= Len(f.node.list) + 1 /\ 1..(f.next - 2) = {}
    BY <1>3, <2>1
  <2> QED
    BY <1>1, <1>3, <2>2 DEF FrameOK
<1>5. R \in Cont /\ Leads(EndOf(blocks, L, curr_block), x)
  BY <1>1, <1>2, GoodAtWork DEF Now
<1>6. x \in Cont /\ x # << >> /\ Head(x).stmt = s /\ Tail(x) = R /\ ~M!Visible(x)
  BY <1>2, <1>5, Parted
<1> HIDE DEF x, R
<1>7. Now(f, R) = M!Unfolded(x)
  BY <1>1, <1>2, <1>3, <1>5, <1>6, Parts DEF Now, WellBehaved, Behaved
<1>8. Leads(x, Now(f, R))
  BY <1>6, <1>7, LeadsOne
<1>9. \A c, L2 : Pend(f, R, c, L2)
  BY <1>1, <1>3 DEF Pend
<1>10. \E L2 : Grown(blocks, L, blocks', L2, {curr_block}) /\ Leads(EndOf(blocks', L2, curr_block), x)
  <2> DEFINE S == {curr_block}
             e == Emit(blocks, curr_block, Alloca)
  <2>1. /\ blocks \in Seq(Code) /\ Grown(blocks, L, blocks, L, S) /\ curr_block \in S
        /\ insert = curr_block /\ curr_block \in 1..Len(blocks) /\ curr_block # return_block
    BY LabelsAtWork
  <2>2. Alloca \in Item /\ Fits(Alloca, x, x, L)
    BY <1>2, <1>6, ItemTypes, PlainFits
  <2> HIDE DEF S
  <2>3. CanEmit(blocks, L, blocks, L, S, curr_block, Alloca, x, x)
    BY <1>5, <1>6, <2>1, <2>2 DEF CanEmit
  <2>4. \E L2 : Grown(blocks, L, e, L2, S) /\ EndOf(e, L2, curr_block) = x
    BY <2>3, GrownEmit
  <2> HIDE DEF e
  <2>5. \E L2 : Grown(blocks, L, e, L2, S) /\ Leads(EndOf(e, L2, curr_block), x)
    BY <2>4, LeadsSelf
  <2>6. CASE blocks' = blocks
    BY <1>5, <2>1, <2>6 DEF S
  <2>7. CASE blocks' = e
    BY <2>5, <2>7 DEF S
  <2> QED
    BY <1>1, <2>1, <2>6, <2>7 DEF e
<1>11. PICK L2 : Grown(blocks, L, blocks', L2, {curr_block}) /\ Leads(EndOf(blocks', L2, curr_block), x)
  BY <1>10
<1>12. Leads(EndOf(blocks', L2, curr_block'), Now(f, R))
  BY <1>1, <1>8, <1>11, LeadsOn
<1> QED
  BY <1>1, <1>3, <1>4, <1>9, <1>11, <1>12, FitMove DEF R
LEMMA CompoundNextFits ==
    ASSUME Working, WellBehaved(Stmt, Decl), NEW L, NEW K, Good(blocks, stack, curr_block, source, L, K),
           compound_stmt_next
    PROVE  Fit(blocks', stack', curr_block', source)
<1> DEFINE n == Top.next
           list == Top.node.list
           R == Rear(K)
           s == list[n]
           f == [Top EXCEPT !.next = @ + 1]
<1>1. /\ phase = "body" /\ stack # << >> /\ Top.node.kind = "compound" /\ Top.pc = "list"
      /\ ~is_returned /\ n <= Len(list)
      /\ UNCHANGED << blocks, curr_block >> /\ stack' = Call(f, s)
  BY DEF compound_stmt_next, At, emitting
<1>2. Top \in Frame /\ list \in Seq(Stmt) /\ FrameOK(Top) /\ FlagInv
  BY <1>1, AtWork, OwingAtWork DEF Working, IsStmt
<1>3. n \in Nat \ {0} /\ Len(list) \in Nat
  BY <1>2, LenProperties DEF Frame
<1>4. s \in Stmt
  <2>1. n \in 1..Len(list)
    BY <1>1, <1>3
  <2> QED
    BY <1>2, <2>1, ElementOfSeq
<1>5. ~Ended /\ ~LastReturned(Top)
  BY <1>1, <1>2 DEF FlagInv
<1>6. f \in Frame /\ f.node = Top.node /\ f.pc = "list" /\ f.next = n + 1
  <2>1. Top \in Frame /\ Top.pc = "list"
    BY <1>1, <1>2
  <2> QED
    BY <2>1 DEF Frame
<1> HIDE DEF f
<1>7. FrameOK(f)
  <2>1. \A i \in 1..(n - 2) : list[i].kind # "return"
    BY <1>1, <1>2 DEF FrameOK
  <2>2. n > 1 => list[n - 1].kind # "return"
    BY <1>5 DEF LastReturned
  <2>3. /\ f.next <= Len(list) + 1
        /\ \A i \in 1..(f.next - 2) : i \in 1..(n - 2) \/ (i = n - 1 /\ n > 1)
    <3> HIDE DEF n, list
    <3> QED
      BY <1>1, <1>3, <1>6
  <2>4. \A i \in 1..(f.next - 2) : list[i].kind # "return"
    BY <2>1, <2>2, <2>3
  <2> QED
    BY <1>1, <1>6, <2>3, <2>4 DEF FrameOK
<1>8. R \in Cont /\ Leads(EndOf(blocks, L, curr_block), Listed(list, n) \o R)
  BY <1>1, <1>5, GoodAtWork DEF Now
<1> HIDE DEF R
<1>9. Listed(list, n) \o R = Ahead(M!Do("stmt", s), Listed(list, n + 1) \o R)
  BY <1>1, <1>2, <1>3, <1>8, ListedIs
<1>10. Now(f, R) = Listed(list, n + 1) \o R
  BY <1>6 DEF Now
<1>11. \A c, L2 : Pend(f, R, c, L2)
  BY <1>1, <1>6 DEF Pend
<1>12. Grown(blocks, L, blocks', L, {})
  BY <1>1, LabelsAtWork
<1> HIDE DEF n, list, s
<1>13. Leads(EndOf(blocks', L, curr_block'), Ahead(M!Do("stmt", s), Now(f, R)))
  BY <1>1, <1>8, <1>9, <1>10
<1>14. {} \subseteq Debts(Top) \cup {curr_block}
  OBVIOUS
<1> QED
  BY <1>1, <1>4, <1>6, <1>7, <1>11, <1>12, <1>13, <1>14, FitCall DEF R

LEMMA CompoundExitFits ==
    ASSUME Working, WellBehaved(Stmt, Decl), NEW L, NEW K, Good(blocks, stack, curr_block, source, L, K),
           compound_stmt_exit
    PROVE  Fit(blocks', stack', curr_block', source)
<1> DEFINE n == Top.next
           list == Top.node.list
           R == Rear(K)
<1>1. /\ phase = "body" /\ stack # << >> /\ Top.node.kind = "compound" /\ Top.pc = "list"
      /\ is_returned \/ n > Len(list)
      /\ UNCHANGED << blocks, curr_block >> /\ stack' = Popped
  BY DEF compound_stmt_exit, At, emitting
<1>2. Top \in Frame /\ list \in Seq(Stmt) /\ FrameOK(Top) /\ FlagInv
  BY <1>1, AtWork, OwingAtWork DEF Working, IsStmt
<1>3. n \in Nat /\ Len(list) \in Nat /\ n <= Len(list) + 1
  BY <1>1, <1>2, LenProperties DEF Frame, FrameOK
<1>4. R \in Cont /\ (~Ended => Leads(EndOf(blocks, L, curr_block), Listed(list, n) \o R))
  BY <1>1, GoodAtWork DEF Now
<1>5. ~Ended => n = Len(list) + 1
  <2>1. ~Ended => ~is_returned
    BY <1>1, <1>2 DEF FlagInv
  <2> HIDE DEF n, list
  <2> QED
    BY <1>1, <1>3, <2>1
<1> HIDE DEF R
<1>6. Listed(list, Len(list) + 1) \o R = R
  BY <1>2, <1>4, ListedIs
<1>7. ~HasTerminator(blocks'[curr_block']) => Leads(EndOf(blocks', L, curr_block'), R)
  BY <1>1, <1>4, <1>5, <1>6 DEF Ended
<1>8. Grown(blocks, L, blocks', L, {})
  BY <1>1, LabelsAtWork
<1>9. {} \subseteq Debts(Top) \cup {curr_block}
  OBVIOUS
<1> QED
  BY <1>1, <1>7, <1>8, <1>9, FitReturn DEF R

LEMMA ExpressionFits ==
    ASSUME Working, WellBehaved(Stmt, Decl), NEW L, NEW K, Good(blocks, stack, curr_block, source, L, K),
           visit_expresion_stmt
    PROVE  Fit(blocks', stack', curr_block', source)
<1> DEFINE s == Top.node
           i == Effect(s.tag)
           R == Rear(K)
           x == Ahead(M!Do("effect", s), R)
           e == Emit(blocks, curr_block, i)
           S == {curr_block}
<1>1. /\ phase = "body" /\ stack # << >> /\ s.kind = "expr" /\ Top.pc = "eval" /\ Top.left = 0
      /\ curr_block' = curr_block /\ blocks' = Emit(blocks, insert, i) /\ stack' = Popped
  BY DEF visit_expresion_stmt, Evaluated, At
<1>2. s \in Stmt /\ s.tag \in Tag /\ ~Ended
  BY <1>1, AtWork, OwingAtWork DEF Working
<1>3. /\ blocks \in Seq(Code) /\ Grown(blocks, L, blocks, L, S) /\ curr_block \in S
      /\ insert = curr_block /\ curr_block \in 1..Len(blocks) /\ curr_block # return_block
  BY LabelsAtWork
<1>4. R \in Cont /\ Leads(EndOf(blocks, L, curr_block), Indexes(0, s) \o After(s, R))
  BY <1>1, <1>2, GoodAtWork DEF Now
<1> HIDE DEF R
<1>5. x \in Cont /\ After(s, R) = x
  BY <1>1, <1>2, <1>4, Parted DEF After
<1>6. Leads(EndOf(blocks, L, curr_block), x)
  BY <1>2, <1>4, <1>5, IndexesIs
<1>7. i \in Item /\ Fits(i, x, R, L)
  BY <1>2, <1>4, ItemTypes, PlainFits
<1> HIDE DEF S, i, x
<1>8. CanEmit(blocks, L, blocks, L, S, curr_block, i, x, R)
  BY <1>3, <1>4, <1>5, <1>6, <1>7 DEF CanEmit
<1>9. \E L2 : Grown(blocks, L, e, L2, S) /\ EndOf(e, L2, curr_block) = R
  BY <1>8, GrownEmit
<1>10. e = blocks'
  BY <1>1, <1>3
<1>11. PICK L2 : Grown(blocks, L, blocks', L2, S) /\ EndOf(blocks', L2, curr_block) = R
  BY <1>9, <1>10
<1>12. Leads(EndOf(blocks', L2, curr_block'), R)
  BY <1>1, <1>11, LeadsSelf
<1>13. S \subseteq Debts(Top) \cup {curr_block}
  BY DEF S
<1> QED
  BY <1>1, <1>11, <1>12, <1>13, FitReturn DEF R
\* A block that gets a terminator has one.
LEMMA EmittedTerminator ==
    ASSUME NEW c \in Seq(Code), NEW b \in 1..Len(c), NEW i \in Item, IsTerminator(i)
    PROVE  HasTerminator(Emit(c, b, i)[b])
<1> DEFINE d == Append(c[b], i)
<1>1. c[b] \in Code /\ Emit(c, b, i)[b] = d
  BY Emitted, ElementOfSeq
<1>2. Len(d) = Len(c[b]) + 1 /\ d[Len(c[b]) + 1] = i /\ Len(c[b]) \in Nat
  BY <1>1, AppendProperties, LenProperties DEF Code
<1> HIDE DEF d
<1>3. Len(d) \in 1..Len(d) /\ d[Len(d)] = i
  BY <1>2
<1> QED
  BY <1>1, <1>3 DEF HasTerminator

LEMMA ReturnFits ==
    ASSUME Working, StoreInv, WellBehaved(Stmt, Decl),
           NEW L, NEW K, Good(blocks, stack, curr_block, source, L, K),
           visit_return_stmt
    PROVE  Fit(blocks', stack', curr_block', source)
<1> DEFINE s == Top.node
           i == Br(s.tag, return_block)
           j == StoreResult(s.tag)
           c == IF s.value THEN Emit(blocks, insert, j) ELSE blocks
           R == Rear(K)
           y == Leaving(s)
           x == Ahead(M!Do("result", s), y)
           e == Emit(c, curr_block, i)
           S == {curr_block}
<1>1. /\ phase = "body" /\ stack # << >> /\ s.kind = "return" /\ Top.pc = "eval" /\ Top.left = 0
      /\ curr_block' = curr_block /\ blocks' = Emit(c, insert, i) /\ stack' = Popped
  <2>1. phase = "body" /\ stack # << >> /\ s.kind = "return"
    BY DEF visit_return_stmt, Evaluated, At
  <2>2. s.value => ResultStore(s.tag) = j
    BY <2>1, ReturnHasSlot DEF Working, StoreInv, ResultStore
  <2> QED
    BY <2>1, <2>2 DEF visit_return_stmt, Evaluated, At
<1>2. s \in Stmt /\ s.tag \in Tag /\ ~Ended
  BY <1>1, AtWork, OwingAtWork DEF Working
<1>3. /\ blocks \in Seq(Code) /\ Grown(blocks, L, blocks, L, S) /\ curr_block \in S
      /\ insert = curr_block /\ curr_block \in 1..Len(blocks) /\ curr_block # return_block
  BY LabelsAtWork
<1>4. R \in Cont /\ Leads(EndOf(blocks, L, curr_block), Indexes(0, s) \o After(s, R))
  BY <1>1, <1>2, GoodAtWork DEF Now
<1> HIDE DEF R
<1>5. y \in Cont
  BY <1>2, LeavingIs
<1> HIDE DEF y
<1>6. x \in Cont /\ After(s, R) = IF s.value THEN x ELSE y
  BY <1>1, <1>2, <1>5, Parted DEF After, y
<1>7. Leads(EndOf(blocks, L, curr_block), IF s.value THEN x ELSE y)
  <2>1. After(s, R) \in Cont
    BY <1>2, <1>4, AfterType
  <2>2. Leads(EndOf(blocks, L, curr_block), After(s, R))
    BY <1>2, <1>4, <2>1, IndexesIs
  <2> QED
    BY <1>6, <2>2
<1>8. /\ j \in Item /\ Fits(j, x, y, L)
      /\ i \in Item /\ IsTerminator(i)
  BY <1>2, <1>5, ItemTypes, PlainFits, Terminators DEF return_block
<1>9. \A L1 : Fits(i, y, y, L1)
  <2>1. \A L1 : Arrives(y, return_block, L1)
    BY <1>2, LeadsSelf DEF Arrives, y
  <2> QED
    BY <2>1, BrFits
<1> HIDE DEF S, i, j, x
<1>10. \E L1 : Grown(blocks, L, c, L1, S) /\ Leads(EndOf(c, L1, curr_block), y)
  <2> DEFINE d == Emit(blocks, curr_block, j)
  <2>1. CASE s.value
    <3>1. CanEmit(blocks, L, blocks, L, S, curr_block, j, x, y)
      BY <1>3, <1>5, <1>6, <1>7, <1>8, <2>1 DEF CanEmit
    <3>2. \E L1 : Grown(blocks, L, d, L1, S) /\ EndOf(d, L1, curr_block) = y
      BY <3>1, GrownEmit
    <3>3. c = d
      BY <1>3, <2>1
    <3> HIDE DEF c, d
    <3>4. \E L1 : Grown(blocks, L, d, L1, S) /\ Leads(EndOf(d, L1, curr_block), y)
      BY <3>2, LeadsSelf
    <3> QED
      BY <3>3, <3>4
  <2>2. CASE ~s.value
    <3>1. c = blocks
      BY <2>2
    <3>2. Grown(blocks, L, blocks, L, S) /\ Leads(EndOf(blocks, L, curr_block), y)
      BY <1>3, <1>7, <2>2
    <3> HIDE DEF c
    <3> QED
      BY <3>1, <3>2
  <2> QED
    BY <2>1, <2>2
<1> HIDE DEF c
<1>11. PICK L1 : Grown(blocks, L, c, L1, S) /\ Leads(EndOf(c, L1, curr_block), y)
  BY <1>10
<1>12. CanEmit(blocks, L, c, L1, S, curr_block, i, y, y)
  BY <1>3, <1>5, <1>8, <1>9, <1>11 DEF CanEmit
<1>13. \E L2 : Grown(blocks, L, e, L2, S)
  BY <1>12, GrownEmit
<1>14. e = blocks'
  BY <1>1, <1>3
<1>15. PICK L2 : Grown(blocks, L, blocks', L2, S)
  BY <1>13, <1>14
<1>16. HasTerminator(blocks'[curr_block'])
  <2>1. c \in Seq(Code) /\ Len(c) >= Len(blocks) /\ Len(c) \in Nat /\ Len(blocks) \in Nat
    BY <1>3, <1>11, LenProperties DEF Grown
  <2>2. curr_block \in 1..Len(c)
    BY <1>3, <2>1
  <2>3. HasTerminator(e[curr_block])
    BY <1>8, <2>1, <2>2, EmittedTerminator
  <2> QED
    BY <1>1, <1>14, <2>3
<1>17. S \subseteq Debts(Top) \cup {curr_block}
  BY DEF S
<1> QED
  BY <1>1, <1>15, <1>16, <1>17, FitReturn

LEMMA SelectionThenFits ==
    ASSUME Working, WellBehaved(Stmt, Decl), NEW L, NEW K, Good(blocks, stack, curr_block, source, L, K),
           selection_stmt_then
    PROVE  Fit(blocks', stack', curr_block', source)
<1> DEFINE s == Top.node
           R == Rear(K)
           t == Ahead(M!Do("test", s), R)
           x == Ahead(M!Do("stmt", s.then), R)
           f == [Top EXCEPT !.pc = "then", !.orig_block = curr_block, !.trueBB = NewBlock]
<1>1. /\ phase = "body" /\ stack # << >> /\ s.kind = "if" /\ Top.pc = "eval" /\ Top.left = 0
      /\ curr_block' = NewBlock /\ blocks' = Append(blocks, << >>) /\ stack' = Call(f, s.then)
  BY DEF selection_stmt_then, Evaluated, At, MoveTo
<1>2. Top \in Frame /\ s \in Stmt /\ s.then \in Stmt /\ ~Ended
  BY <1>1, AtWork, OwingAtWork DEF Working, IsStmt
<1>3. /\ blocks \in Seq(Code) /\ Grown(blocks, L, blocks, L, {}) /\ AllInside(blocks, 1..Len(blocks))
      /\ NewBlock = Len(blocks) + 1 /\ NewBlock \in Nat /\ NewBlock \notin 1..Len(blocks)
      /\ curr_block \in 1..Len(blocks)
  BY LabelsAtWork
<1>4. R \in Cont /\ Leads(EndOf(blocks, L, curr_block), Indexes(0, s) \o After(s, R))
  BY <1>1, <1>2, GoodAtWork DEF Now
<1> HIDE DEF R
<1>5. x \in Cont /\ t \in Cont /\ After(s, R) = t
  BY <1>1, <1>2, <1>4, Parted DEF After
<1>6. Leads(EndOf(blocks, L, curr_block), t)
  BY <1>2, <1>4, <1>5, IndexesIs
<1> DEFINE L2 == GivenLabels(L, NewBlock, x, x)
<1>7. Grown(blocks, L, blocks, L2, {}) /\ L2[NewBlock][1] = x
  BY <1>3, <1>5, GrownLabels
<1> HIDE DEF L2
<1>8. Grown(blocks, L, blocks', L2, {}) /\ EndOf(blocks', L2, curr_block') = x
  <2> HIDE DEF f, x
  <2>1. /\ Grown(blocks, L, Append(blocks, << >>), L2, {})
        /\ EndOf(Append(blocks, << >>), L2, Len(blocks) + 1) = L2[Len(blocks) + 1][1]
    BY <1>3, <1>7, GrownNew
  <2>2. blocks' = Append(blocks, << >>) /\ curr_block' = Len(blocks) + 1
    BY <1>1, <1>3
  <2> QED
    BY <1>3, <1>7, <2>1, <2>2
<1>9. /\ f \in Frame /\ f.node = s /\ f.pc = "then" /\ f.orig_block = curr_block /\ f.trueBB = NewBlock
  <2>1. Top \in Frame /\ curr_block \in Nat /\ NewBlock \in Nat
    BY <1>2, <1>3
  <2> QED
    BY <2>1 DEF Frame
<1> HIDE DEF f
<1>10. FrameOK(f)
  BY <1>1, <1>9 DEF FrameOK
<1>11. EndOf(blocks', L2, curr_block) = EndOf(blocks, L, curr_block)
  BY <1>3, <1>8 DEF Grown, EndOf
<1>12. Pend(f, R, blocks', L2)
  BY <1>1, <1>6, <1>7, <1>9, <1>11, LeadsSelf DEF Pend
<1>13. Now(f, R) = R
  BY <1>9 DEF Now
<1>14. Leads(EndOf(blocks', L2, curr_block'), Ahead(M!Do("stmt", s.then), Now(f, R)))
  BY <1>8, <1>13, LeadsSelf
<1>15. {} \subseteq Debts(Top) \cup {curr_block}
  OBVIOUS
<1> QED
  BY <1>1, <1>2, <1>8, <1>9, <1>10, <1>12, <1>14, <1>15, FitCall DEF R
LEMMA SelectionElseFits ==
    ASSUME Working, WellBehaved(Stmt, Decl), NEW L, NEW K, Good(blocks, stack, curr_block, source, L, K),
           selection_stmt_else
    PROVE  Fit(blocks', stack', curr_block', source)
<1> DEFINE s == Top.node
           R == Rear(K)
           x == Ahead(M!Do("stmt", s.else), R)
           f == [Top EXCEPT !.pc = "else", !.falseBB = NewBlock,
                            !.trueBB_location = curr_block,
                            !.trueBB_returned = is_returned_record]
           L2 == GivenLabels(L, NewBlock, x, x)
<1>1. /\ phase = "body" /\ stack # << >> /\ s.kind = "if" /\ Top.pc = "then" /\ s.else # NoStmt
      /\ curr_block' = NewBlock /\ blocks' = Append(blocks, << >>) /\ stack' = Call(f, s.else)
  BY DEF selection_stmt_else, At, MoveTo
<1>2. /\ Top \in Frame /\ s \in Stmt /\ s.else \in Stmt
      /\ (is_returned_record <=> Ended) /\ is_returned_record \in BOOLEAN
  BY <1>1, AtWork, OwingAtWork DEF Working, IsStmt, FlagInv, IInv, PlainInv
<1>3. /\ blocks \in Seq(Code) /\ Grown(blocks, L, blocks, L, {}) /\ AllInside(blocks, 1..Len(blocks))
      /\ NewBlock = Len(blocks) + 1 /\ NewBlock \in Nat /\ NewBlock \notin 1..Len(blocks)
      /\ curr_block \in 1..Len(blocks)
      /\ \A b \in Debts(Top) : b \in 1..Len(blocks)
  BY LabelsAtWork
<1>4. /\ R \in Cont /\ (~Ended => Leads(EndOf(blocks, L, curr_block), R))
      /\ Pend(Top, R, blocks, L)
  BY <1>1, GoodAtWork DEF Now
<1> HIDE DEF R
<1>5. x \in Cont
  BY <1>2, <1>4, Parted
<1>6. Grown(blocks, L, blocks, L2, {}) /\ L2[NewBlock][1] = x
  BY <1>3, <1>5, GrownLabels
<1> HIDE DEF L2, f, x
<1>7. Grown(blocks, L, blocks', L2, {}) /\ EndOf(blocks', L2, curr_block') = x
  <2>1. /\ Grown(blocks, L, Append(blocks, << >>), L2, {})
        /\ EndOf(Append(blocks, << >>), L2, Len(blocks) + 1) = L2[Len(blocks) + 1][1]
    BY <1>3, <1>6, GrownNew
  <2>2. blocks' = Append(blocks, << >>) /\ curr_block' = Len(blocks) + 1
    BY <1>1, <1>3
  <2> QED
    BY <1>3, <1>6, <2>1, <2>2
<1>8. /\ f \in Frame /\ f.node = s /\ f.pc = "else" /\ f.falseBB = NewBlock
      /\ f.trueBB_location = curr_block /\ f.trueBB_returned = is_returned_record
      /\ f.orig_block = Top.orig_block /\ f.trueBB = Top.trueBB
  <2>1. Top \in Frame /\ curr_block \in Nat /\ NewBlock \in Nat /\ is_returned_record \in BOOLEAN
    BY <1>2, <1>3
  <2> QED
    BY <2>1 DEF Frame, f
<1>9. FrameOK(f)
  BY <1>1, <1>8 DEF FrameOK
<1>10. \A b \in 1..Len(blocks) : L2[b] = L[b] /\ EndOf(blocks', L2, b) = EndOf(blocks, L, b)
  BY <1>7 DEF Grown, EndOf
<1>11. Top.orig_block \in 1..Len(blocks) /\ Top.trueBB \in 1..Len(blocks)
  <2>1. FrameInside(Top, placed \ {entrybb}) /\ placed \subseteq 1..Len(blocks)
    BY BranchesAtWork, OwingAtWork DEF Working
  <2> QED
    BY <1>1, <1>3, <2>1 DEF FrameInside, Debts
<1>12. Pend(f, R, blocks', L2)
  <2>1. /\ Leads(EndOf(blocks, L, f.orig_block), Ahead(M!Do("test", s), R))
        /\ Leads(Ahead(M!Do("stmt", s.then), R), L[f.trueBB][1])
    BY <1>1, <1>4, <1>8 DEF Pend
  <2>2. /\ Leads(EndOf(blocks', L2, f.orig_block), Ahead(M!Do("test", s), R))
        /\ Leads(Ahead(M!Do("stmt", s.then), R), L2[f.trueBB][1])
    BY <1>8, <1>10, <1>11, <2>1
  <2>3. Leads(x, L2[f.falseBB][1])
    BY <1>6, <1>8, LeadsSelf
  <2>4. ~f.trueBB_returned => Leads(EndOf(blocks', L2, f.trueBB_location), R)
    BY <1>2, <1>3, <1>4, <1>8, <1>10
  <2> QED
    BY <1>1, <1>2, <1>8, <2>2, <2>3, <2>4 DEF Pend, x
<1>13. Now(f, R) = R
  BY <1>8 DEF Now
<1>14. Leads(EndOf(blocks', L2, curr_block'), Ahead(M!Do("stmt", s.else), Now(f, R)))
  BY <1>7, <1>13, LeadsSelf DEF x
<1>15. {} \subseteq Debts(Top) \cup {curr_block}
  OBVIOUS
<1>16. stack' = Call(f, s.else)
  BY <1>1 DEF f
<1> QED
  BY <1>2, <1>7, <1>8, <1>9, <1>12, <1>14, <1>15, <1>16, FitCall DEF R

\* Code d with labels L2 is what the blocks with labels L are once those in D
\* have got a branch, and the next block is to be labelled x.
Filled(L, S, D, x, d, L2) ==
    /\ Grown(blocks, L, d, L2, S) /\ Len(d) = Len(blocks) /\ L2[NewBlock][1] = x
    /\ \A k \in 1..Len(blocks) : k \notin D => EndOf(d, L2, k) = EndOf(blocks, L, k)

\* Instruction i can be put at the end of another block b.
CanFill(L, S, D, x, d, L2, b, i, y, D2) ==
    /\ Filled(L, S, D, x, d, L2)
    /\ b \in 1..Len(blocks) /\ b # return_block /\ b \in S /\ b \notin D /\ b \in D2 /\ D \subseteq D2
    /\ i \in Item /\ y \in Cont /\ Leads(EndOf(blocks, L, b), y) /\ Fits(i, y, y, L2)

LEMMA FilledMore ==
    ASSUME blocks \in Seq(Code), NewBlock \in Nat, NewBlock \notin 1..Len(blocks),
           NEW L, NEW S, NEW D, NEW x, NEW d, NEW L2, NEW b, NEW i, NEW y, NEW D2,
           CanFill(L, S, D, x, d, L2, b, i, y, D2)
    PROVE  \E L3 : Filled(L, S, D2, x, Emit(d, b, i), L3)
<1> DEFINE e == Emit(d, b, i)
<1>1. /\ Grown(blocks, L, d, L2, S) /\ Len(d) = Len(blocks) /\ L2[NewBlock][1] = x
      /\ \A k \in 1..Len(blocks) : k \notin D => EndOf(d, L2, k) = EndOf(blocks, L, k)
      /\ b \in 1..Len(blocks) /\ b # return_block /\ b \in S /\ b \notin D /\ b \in D2 /\ D \subseteq D2
      /\ i \in Item /\ y \in Cont /\ Leads(EndOf(blocks, L, b), y) /\ Fits(i, y, y, L2)
  BY DEF CanFill, Filled
<1>2. CanEmit(blocks, L, d, L2, S, b, i, y, y)
  BY <1>1 DEF CanEmit
<1>3. PICK L3 : /\ Grown(blocks, L, e, L3, S)
                /\ EndOf(e, L3, b) = y
                /\ \A k \in Nat : k # b => L3[k] = L2[k]
                /\ \A k \in 1..Len(blocks) : k # b => EndOf(e, L3, k) = EndOf(d, L2, k)
  BY <1>2, GrownEmit
<1>4. Len(e) = Len(blocks)
  <2>1. d \in Seq(Code) /\ i \in Item
    BY <1>1 DEF Grown
  <2> QED
    BY <1>1, <2>1, EmitType
<1>5. L3[NewBlock][1] = x
  BY <1>1, <1>3
<1>6. \A k \in 1..Len(blocks) : k \notin D2 => EndOf(e, L3, k) = EndOf(blocks, L, k)
  BY <1>1, <1>3
<1>7. Filled(L, S, D2, x, e, L3)
  BY <1>3, <1>4, <1>5, <1>6 DEF Filled
<1> QED
  BY <1>7 DEF e

\* No block has got a branch yet.
LEMMA FilledNone ==
    ASSUME Working, NEW L, NEW K, Good(blocks, stack, curr_block, source, L, K), NEW x \in Cont, NEW S
    PROVE  LET L1 == GivenLabels(L, NewBlock, x, x) IN
           /\ Filled(L, S, {}, x, blocks, L1)
           /\ \A b \in 1..Len(blocks) : L1[b] = L[b]
<1> DEFINE L1 == GivenLabels(L, NewBlock, x, x)
<1>1. /\ blocks \in Seq(Code) /\ Grown(blocks, L, blocks, L, S) /\ AllInside(blocks, 1..Len(blocks))
      /\ NewBlock \in Nat /\ NewBlock \notin 1..Len(blocks)
  BY LabelsAtWork
<1>2. /\ Grown(blocks, L, blocks, L1, S) /\ L1[NewBlock][1] = x
      /\ \A k \in Nat : k # NewBlock => L1[k] = L[k]
  BY <1>1, GrownLabels
<1> HIDE DEF L1
<1>3. \A b \in 1..Len(blocks) : b \in Nat /\ b # NewBlock
  BY <1>1
<1>4. \A b \in 1..Len(blocks) : L1[b] = L[b]
  BY <1>2, <1>3
<1>5. Filled(L, S, {}, x, blocks, L1)
  BY <1>2, <1>4 DEF Filled, EndOf
<1> QED
  BY <1>4, <1>5 DEF L1
\* The step ends with a new block, which goes on with x.
LEMMA FilledOpens ==
    ASSUME blocks \in Seq(Code), NewBlock = Len(blocks) + 1,
           NEW L, NEW S, NEW D, NEW x, NEW d, NEW L2, Filled(L, S, D, x, d, L2)
    PROVE  /\ Grown(blocks, L, Append(d, << >>), L2, S)
           /\ EndOf(Append(d, << >>), L2, NewBlock) = x
<1>1. Grown(blocks, L, d, L2, S) /\ Len(d) = Len(blocks) /\ L2[NewBlock][1] = x
  BY DEF Filled
<1>2. /\ Grown(blocks, L, Append(d, << >>), L2, S)
      /\ EndOf(Append(d, << >>), L2, Len(d) + 1) = L2[Len(d) + 1][1]
  BY <1>1, GrownNew
<1>3. Len(d) + 1 = NewBlock
  BY <1>1
<1> QED
  BY <1>1, <1>2, <1>3

LEMMA SelectionEndFits ==
    ASSUME Working, WellBehaved(Stmt, Decl), NEW L, NEW K, Good(blocks, stack, curr_block, source, L, K),
           selection_stmt_end
    PROVE  Fit(blocks', stack', curr_block', source)
<1> DEFINE s == Top.node
           R == Rear(K)
           t == Ahead(M!Do("test", s), R)
           endBB == NewBlock
           hasElse == Top.pc = "else"
           trueBB_location == IF hasElse THEN Top.trueBB_location ELSE curr_block
           trueBB_returned == IF hasElse THEN Top.trueBB_returned ELSE is_returned_record
           falseBB == IF hasElse THEN Top.falseBB ELSE endBB
           tag == s.tag
           i == CondBr(tag, Top.trueBB, falseBB)
           j == Br(tag, endBB)
           c1 == Emit(blocks, Top.orig_block, i)
           c2 == IF trueBB_returned THEN c1 ELSE Emit(c1, trueBB_location, j)
           c3 == IF ~hasElse \/ is_returned_record THEN c2 ELSE Emit(c2, curr_block, j)
           S == Debts(Top) \cup {curr_block}
           L1 == GivenLabels(L, NewBlock, R, R)
           D1 == {Top.orig_block}
           D2 == IF trueBB_returned THEN D1 ELSE {Top.orig_block, trueBB_location}
<1>1. /\ phase = "body" /\ stack # << >> /\ s.kind = "if" /\ Top.pc \in {"then", "else"}
      /\ ~hasElse => s.else = NoStmt
      /\ curr_block' = NewBlock /\ blocks' = Append(c3, << >>) /\ stack' = Popped
  BY DEF selection_stmt_end, At, MoveTo
<1>2. /\ s \in Stmt /\ tag \in Tag /\ Top \in Frame /\ s.then \in Stmt
      /\ (is_returned_record <=> Ended) /\ Distinct(Top)
  BY <1>1, AtWork, OwingAtWork DEF Working, FlagInv, IsStmt
<1>3. /\ blocks \in Seq(Code)
      /\ NewBlock = Len(blocks) + 1 /\ NewBlock \in Nat /\ NewBlock \notin 1..Len(blocks)
      /\ NewBlock # return_block
      /\ curr_block \in 1..Len(blocks) /\ curr_block # return_block
      /\ \A b \in Debts(Top) : b \in 1..Len(blocks) /\ b # return_block /\ b # curr_block
  BY LabelsAtWork
<1>4. /\ R \in Cont /\ (~Ended => Leads(EndOf(blocks, L, curr_block), R))
      /\ Pend(Top, R, blocks, L)
  BY <1>1, GoodAtWork DEF Now
<1>5. Filled(L, S, {}, R, blocks, L1) /\ (\A b \in 1..Len(blocks) : L1[b] = L[b]) /\ L1[NewBlock][1] = R
  BY <1>4, FilledNone DEF Filled
<1> HIDE DEF R, L1
<1>6. /\ Top.orig_block \in Debts(Top)
      /\ hasElse /\ ~trueBB_returned => trueBB_location \in Debts(Top) /\ trueBB_location # Top.orig_block
      /\ ~hasElse => trueBB_location = curr_block /\ trueBB_returned = is_returned_record
  BY <1>1, <1>2 DEF Debts, Distinct
<1>7. /\ Top.trueBB \in 1..Len(blocks) /\ Top.trueBB # return_block
      /\ hasElse => Top.falseBB \in 1..Len(blocks) /\ Top.falseBB # return_block
  <2>1. FrameInside(Top, placed \ {entrybb}) /\ placed \subseteq 1..Len(blocks) /\ return_block \notin placed
    BY BranchesAtWork, OwingAtWork DEF Working
  <2> QED
    BY <1>1, <2>1 DEF FrameInside
<1>8. /\ i \in Item /\ j \in Item
  BY <1>2, <1>3, <1>7, ItemTypes
<1>9. t \in Cont /\ Leads(EndOf(blocks, L, Top.orig_block), t)
  BY <1>1, <1>2, <1>4, Parted DEF Pend
<1>10. /\ Leads(Ahead(M!Do("stmt", s.then), R), L1[Top.trueBB][1])
       /\ hasElse => /\ s.else \in Stmt
                     /\ Leads(Ahead(M!Do("stmt", s.else), R), L1[Top.falseBB][1])
                     /\ ~trueBB_returned => Leads(EndOf(blocks, L, trueBB_location), R)
  BY <1>1, <1>4, <1>5, <1>7 DEF Pend
<1>11. Fits(i, t, t, L1)
  <2>1. /\ M!Tested(t, TRUE) = Ahead(M!Do("stmt", s.then), R)
        /\ M!Tested(t, FALSE) = IF s.else = NoStmt THEN R ELSE Ahead(M!Do("stmt", s.else), R)
    BY <1>1, <1>2, <1>4, TestedIs
  <2>2. Arrives(M!Tested(t, TRUE), Top.trueBB, L1)
    BY <1>7, <1>10, <2>1 DEF Arrives
  <2>3. Arrives(M!Tested(t, FALSE), falseBB, L1)
    <3>1. CASE hasElse
      <4>1. s.else # NoStmt
        BY <1>10, <3>1, StmtAssumption
      <4> QED
        BY <1>7, <1>10, <2>1, <3>1, <4>1 DEF Arrives
    <3>2. CASE ~hasElse
      BY <1>1, <1>3, <1>5, <2>1, <3>2, LeadsSelf DEF Arrives
    <3> QED
      BY <3>1, <3>2
  <2> QED
    BY <1>1, <1>2, <1>4, <2>2, <2>3, CondFits
<1>12. \A L2 : L2[NewBlock][1] = R => Fits(j, R, R, L2)
  <2>1. \A L2 : L2[NewBlock][1] = R => Arrives(R, endBB, L2)
    BY <1>3, LeadsSelf DEF Arrives
  <2> QED
    BY <2>1, BrFits
<1>13. /\ Top.orig_block \in S /\ curr_block \in S
       /\ hasElse /\ ~trueBB_returned => trueBB_location \in S
  BY <1>6
<1> HIDE DEF hasElse, trueBB_location, trueBB_returned, falseBB, i, j, t, S
<1>14. PICK L2 : Filled(L, S, D1, R, c1, L2)
  <2> HIDE DEF D1
  <2>1. Top.orig_block \in D1 /\ Top.orig_block \notin {} /\ {} \subseteq D1
    BY DEF D1
  <2>2. CanFill(L, S, {}, R, blocks, L1, Top.orig_block, i, t, D1)
    BY <1>3, <1>5, <1>6, <1>8, <1>9, <1>11, <1>13, <2>1 DEF CanFill
  <2> QED
    BY <1>3, <2>2, FilledMore
<1> HIDE DEF c1
<1>15. PICK L3 : Filled(L, S, D2, R, c2, L3)
  <2>1. CASE trueBB_returned
    <3>1. c2 = c1 /\ D2 = D1
      BY <2>1
    <3> QED
      BY <1>14, <3>1
  <2>2. CASE ~trueBB_returned
    <3>1. /\ trueBB_location \in 1..Len(blocks) /\ trueBB_location # return_block /\ trueBB_location \in S
          /\ trueBB_location # Top.orig_block
          /\ Leads(EndOf(blocks, L, trueBB_location), R)
      <4>1. CASE hasElse
        BY <1>3, <1>6, <1>10, <1>13, <2>2, <4>1
      <4>2. CASE ~hasElse
        BY <1>2, <1>3, <1>4, <1>6, <1>13, <2>2, <4>2
      <4> QED
        BY <4>1, <4>2
    <3>2. trueBB_location \notin D1 /\ trueBB_location \in D2 /\ D1 \subseteq D2
      BY <2>2, <3>1
    <3>3. Fits(j, R, R, L2)
      BY <1>12, <1>14 DEF Filled
    <3> HIDE DEF D1, D2
    <3>4. CanFill(L, S, D1, R, c1, L2, trueBB_location, j, R, D2)
      BY <1>4, <1>8, <1>14, <3>1, <3>2, <3>3 DEF CanFill
    <3>5. \E L3 : Filled(L, S, D2, R, Emit(c1, trueBB_location, j), L3)
      BY <1>3, <3>4, FilledMore
    <3> QED
      BY <2>2, <3>5
  <2> QED
    BY <2>1, <2>2
<1> HIDE DEF c2
<1>16. \E L4, D : Filled(L, S, D, R, c3, L4)
  <2>1. CASE ~hasElse \/ is_returned_record
    BY <1>15, <2>1
  <2>2. CASE ~(~hasElse \/ is_returned_record)
    <3> DEFINE D3 == {Top.orig_block, trueBB_location, curr_block}
    <3>1. Leads(EndOf(blocks, L, curr_block), R)
      BY <1>2, <1>4, <2>2
    <3>2. Fits(j, R, R, L3)
      BY <1>12, <1>15 DEF Filled
    <3>3. curr_block \notin D2
      BY <1>3, <1>6, <2>2
    <3>4. curr_block \in D3 /\ D2 \subseteq D3
      OBVIOUS
    <3> HIDE DEF D2, D3
    <3>5. CanFill(L, S, D2, R, c2, L3, curr_block, j, R, D3)
      BY <1>3, <1>4, <1>8, <1>13, <1>15, <3>1, <3>2, <3>3, <3>4 DEF CanFill
    <3>6. \E L4 : Filled(L, S, D3, R, Emit(c2, curr_block, j), L4)
      BY <1>3, <3>5, FilledMore
    <3> QED
      BY <2>2, <3>6
  <2> QED
    BY <2>1, <2>2
<1> HIDE DEF c3
<1>17. PICK L4, D : Filled(L, S, D, R, c3, L4)
  BY <1>16
<1>18. Grown(blocks, L, blocks', L4, S) /\ EndOf(blocks', L4, curr_block') = R
  BY <1>1, <1>3, <1>17, FilledOpens
<1>19. S \subseteq Debts(Top) \cup {curr_block}
  BY DEF S
<1>20. Leads(EndOf(blocks', L4, curr_block'), R)
  BY <1>18, LeadsSelf
<1> QED
  BY <1>1, <1>18, <1>19, <1>20, FitReturn DEF R
LEMMA IterationStartFits ==
    ASSUME Working, WellBehaved(Stmt, Decl), NEW L, NEW K, Good(blocks, stack, curr_block, source, L, K),
           iteration_stmt_start
    PROVE  Fit(blocks', stack', curr_block', source)
<1> DEFINE s == Top.node
           R == Rear(K)
           x == Ahead(M!Do("stmt", s), R)
           t == Ahead(M!Do("test", s), R)
           f == [Top EXCEPT !.pc = "eval", !.orig_block = NewBlock]
           i == Br(s.tag, NewBlock)
           c == Emit(blocks, curr_block, i)
           S == {curr_block}
           L1 == GivenLabels(L, NewBlock, t, t)
<1>1. /\ phase = "body" /\ stack # << >> /\ s.kind = "while" /\ Top.pc = "start"
      /\ curr_block' = NewBlock /\ blocks' = Append(Emit(blocks, insert, i), << >>)
      /\ stack' = Append(Popped, f)
  BY DEF iteration_stmt_start, At, MoveTo
<1>2. /\ Top \in Frame /\ s \in Stmt /\ s.tag \in Tag /\ ~Ended /\ FrameOK(Top)
      /\ s.subscripts = 0
  BY <1>1, AtWork, OwingAtWork DEF Working, WellBehaved, Behaved, PlainConditions
<1>3. /\ blocks \in Seq(Code) /\ insert = curr_block
      /\ NewBlock = Len(blocks) + 1 /\ NewBlock \in Nat /\ NewBlock \notin 1..Len(blocks)
      /\ NewBlock # return_block
      /\ curr_block \in 1..Len(blocks) /\ curr_block # return_block
  BY LabelsAtWork
<1>4. R \in Cont /\ Leads(EndOf(blocks, L, curr_block), x)
  BY <1>1, <1>2, GoodAtWork DEF Now
<1>5. t \in Cont /\ x \in Cont /\ x # << >> /\ Head(x).stmt = s /\ Tail(x) = R /\ ~M!Visible(x)
  BY <1>2, <1>4, Parted
<1>6. Filled(L, S, {}, t, blocks, L1) /\ L1[NewBlock][1] = t
  BY <1>5, FilledNone DEF Filled
<1> HIDE DEF R, L1, t, x
<1>7. Indexes(0, s) \o After(s, R) = t
  <2>1. After(s, R) = t
    BY <1>1 DEF After, t
  <2> QED
    BY <1>2, <1>5, <2>1, IndexesIs
<1>8. Leads(x, t)
  <2>1. M!Unfolded(x) = t
    BY <1>1, <1>2, <1>4, <1>5, <1>7, Parts DEF WellBehaved, Behaved
  <2> QED
    BY <1>5, <2>1, LeadsOne
<1>9. i \in Item /\ Fits(i, x, x, L1)
  <2>1. Arrives(x, NewBlock, L1)
    BY <1>3, <1>6, <1>8 DEF Arrives
  <2> QED
    BY <1>2, <1>3, <2>1, ItemTypes, BrFits
<1>10. curr_block \in S /\ S \subseteq Debts(Top) \cup {curr_block} /\ curr_block \notin {} /\ {} \subseteq S
  OBVIOUS
<1>11. f \in Frame /\ f.node = s /\ f.pc = "eval" /\ f.orig_block = NewBlock /\ f.left = 0
  <2>1. Top \in Frame /\ NewBlock \in Nat
    BY <1>2, <1>3
  <2>2. Top.left = 0
    BY <1>1, <1>2 DEF FrameOK
  <2> QED
    BY <2>1, <2>2 DEF Frame
<1> HIDE DEF S, i, c, f
<1>12. FrameOK(f)
  BY <1>1, <1>11 DEF FrameOK
<1>13. CanFill(L, S, {}, t, blocks, L1, curr_block, i, x, S)
  BY <1>3, <1>4, <1>5, <1>6, <1>9, <1>10 DEF CanFill
<1>14. PICK L2 : Filled(L, S, S, t, c, L2)
  BY <1>3, <1>13, FilledMore DEF c
<1>15. Grown(blocks, L, blocks', L2, S) /\ EndOf(blocks', L2, curr_block') = t
  <2>1. blocks' = Append(c, << >>) /\ curr_block' = NewBlock
    BY <1>1, <1>3 DEF c, i
  <2> QED
    BY <1>3, <1>14, <2>1, FilledOpens
<1>16. L2[NewBlock][1] = t
  BY <1>14 DEF Filled
<1>17. Pend(f, R, blocks', L2)
  BY <1>1, <1>8, <1>11, <1>16 DEF Pend, x
<1>18. Now(f, R) = t
  BY <1>7, <1>11 DEF Now
<1>19. Leads(EndOf(blocks', L2, curr_block'), Now(f, R))
  BY <1>15, <1>18, LeadsSelf
<1>20. stack' = Append(Popped, f)
  BY <1>1 DEF f
<1> QED
  BY <1>10, <1>11, <1>12, <1>15, <1>17, <1>19, <1>20, FitMove DEF R

LEMMA IterationBodyFits ==
    ASSUME Working, WellBehaved(Stmt, Decl), NEW L, NEW K, Good(blocks, stack, curr_block, source, L, K),
           iteration_stmt_body
    PROVE  Fit(blocks', stack', curr_block', source)
<1> DEFINE s == Top.node
           R == Rear(K)
           t == Ahead(M!Do("test", s), R)
           z == Ahead(M!Do("stmt", s), R)
           x == Ahead(M!Do("stmt", s.body), z)
           f == [Top EXCEPT !.pc = "body", !.trueBB = NewBlock]
           L2 == GivenLabels(L, NewBlock, x, x)
<1>1. /\ phase = "body" /\ stack # << >> /\ s.kind = "while" /\ Top.pc = "eval" /\ Top.left = 0
      /\ curr_block' = NewBlock /\ blocks' = Append(blocks, << >>) /\ stack' = Call(f, s.body)
  BY DEF iteration_stmt_body, Evaluated, At, MoveTo
<1>2. /\ Top \in Frame /\ s \in Stmt /\ s.body \in Stmt /\ ~Ended /\ FrameOK(Top)
      /\ Top.orig_block = curr_block
  BY <1>1, AtWork, OwingAtWork DEF Working, IsStmt, FlagInv
<1>3. /\ blocks \in Seq(Code)
      /\ NewBlock = Len(blocks) + 1 /\ NewBlock \in Nat /\ NewBlock \notin 1..Len(blocks)
      /\ curr_block \in 1..Len(blocks)
  BY LabelsAtWork
<1>4. /\ R \in Cont /\ Leads(EndOf(blocks, L, curr_block), Indexes(0, s) \o After(s, R))
      /\ Pend(Top, R, blocks, L)
  BY <1>1, <1>2, GoodAtWork DEF Now
<1> HIDE DEF R
<1>5. t \in Cont /\ z \in Cont /\ After(s, R) = t
  BY <1>1, <1>2, <1>4, Parted DEF After
<1> HIDE DEF z
<1>6. x \in Cont
  BY <1>2, <1>5, Parted
<1>7. Leads(EndOf(blocks, L, curr_block), t)
  BY <1>2, <1>4, <1>5, IndexesIs
<1>8. Filled(L, {}, {}, x, blocks, L2) /\ (\A b \in 1..Len(blocks) : L2[b] = L[b]) /\ L2[NewBlock][1] = x
  BY <1>6, FilledNone DEF Filled
<1> HIDE DEF L2, x
<1>9. Grown(blocks, L, blocks', L2, {}) /\ EndOf(blocks', L2, curr_block') = x
  <2> HIDE DEF f
  <2>1. blocks' = Append(blocks, << >>) /\ curr_block' = NewBlock
    BY <1>1
  <2> QED
    BY <1>3, <1>8, <2>1, FilledOpens
<1>10. /\ f \in Frame /\ f.node = s /\ f.pc = "body" /\ f.orig_block = curr_block /\ f.trueBB = NewBlock
       /\ f.left = 0
  <2>1. Top \in Frame /\ NewBlock \in Nat
    BY <1>2, <1>3
  <2>2. Top.left = 0 /\ Top.orig_block = curr_block
    BY <1>1, <1>2
  <2> QED
    BY <2>1, <2>2 DEF Frame
<1> HIDE DEF f
<1>11. FrameOK(f)
  BY <1>1, <1>10 DEF FrameOK
<1>12. EndOf(blocks', L2, curr_block) = EndOf(blocks, L, curr_block) /\ L2[curr_block] = L[curr_block]
  BY <1>3, <1>9 DEF Grown, EndOf
<1>13. Leads(z, L2[f.orig_block][1])
  <2>1. Leads(z, L[Top.orig_block][1])
    BY <1>1, <1>4 DEF Pend, z
  <2> QED
    BY <1>2, <1>10, <1>12, <2>1
<1>14. Pend(f, R, blocks', L2)
  BY <1>1, <1>7, <1>8, <1>10, <1>12, <1>13, LeadsSelf DEF Pend, z, x
<1>15. Now(f, R) = z
  BY <1>10 DEF Now, z
<1>16. Leads(EndOf(blocks', L2, curr_block'), Ahead(M!Do("stmt", s.body), Now(f, R)))
  BY <1>9, <1>15, LeadsSelf DEF x
<1>17. {} \subseteq Debts(Top) \cup {curr_block}
  OBVIOUS
<1>18. stack' = Call(f, s.body)
  BY <1>1 DEF f
<1> QED
  BY <1>2, <1>9, <1>10, <1>11, <1>14, <1>16, <1>17, <1>18, FitCall DEF R

LEMMA IterationEndFits ==
    ASSUME Working, WellBehaved(Stmt, Decl), NEW L, NEW K, Good(blocks, stack, curr_block, source, L, K),
           iteration_stmt_end
    PROVE  Fit(blocks', stack', curr_block', source)
<1> DEFINE s == Top.node
           R == Rear(K)
           t == Ahead(M!Do("test", s), R)
           z == Ahead(M!Do("stmt", s), R)
           endBB == NewBlock
           i == CondBr(s.tag, Top.trueBB, endBB)
           j == Br(s.tag, Top.orig_block)
           c1 == IF is_returned_record THEN blocks ELSE Emit(blocks, insert, j)
           c2 == Emit(c1, Top.orig_block, i)
           S == Debts(Top) \cup {curr_block}
           L1 == GivenLabels(L, NewBlock, R, R)
           D1 == {curr_block}
           D2 == {Top.orig_block, curr_block}
<1>1. /\ phase = "body" /\ stack # << >> /\ s.kind = "while" /\ Top.pc = "body"
      /\ curr_block' = NewBlock /\ blocks' = Append(c2, << >>) /\ stack' = Popped
  BY DEF iteration_stmt_end, At, MoveTo
<1>2. /\ s \in Stmt /\ s.tag \in Tag /\ Top \in Frame /\ (is_returned_record <=> Ended)
  BY <1>1, AtWork, OwingAtWork DEF Working, FlagInv
<1>3. /\ blocks \in Seq(Code) /\ insert = curr_block
      /\ NewBlock = Len(blocks) + 1 /\ NewBlock \in Nat /\ NewBlock \notin 1..Len(blocks)
      /\ NewBlock # return_block
      /\ curr_block \in 1..Len(blocks) /\ curr_block # return_block
      /\ \A b \in Debts(Top) : b \in 1..Len(blocks) /\ b # return_block /\ b # curr_block
  BY LabelsAtWork
<1>4. Top.orig_block \in Debts(Top)
  BY <1>1 DEF Debts
<1>5. Top.trueBB \in 1..Len(blocks) /\ Top.trueBB # return_block
  <2>1. FrameInside(Top, placed \ {entrybb}) /\ placed \subseteq 1..Len(blocks) /\ return_block \notin placed
    BY BranchesAtWork, OwingAtWork DEF Working
  <2> QED
    BY <1>1, <2>1 DEF FrameInside
<1>6. /\ R \in Cont /\ (~Ended => Leads(EndOf(blocks, L, curr_block), z))
      /\ Pend(Top, R, blocks, L)
  BY <1>1, GoodAtWork DEF Now
<1>7. /\ Filled(L, S, {}, R, blocks, L1) /\ (\A b \in 1..Len(blocks) : L1[b] = L[b]) /\ L1[NewBlock][1] = R
  BY <1>6, FilledNone DEF Filled
<1> HIDE DEF R, L1
<1>8. t \in Cont /\ z \in Cont
  BY <1>2, <1>6, Parted
<1>9. /\ Leads(EndOf(blocks, L, Top.orig_block), t)
      /\ Leads(z, L[Top.orig_block][1])
      /\ Leads(Ahead(M!Do("stmt", s.body), z), L[Top.trueBB][1])
  BY <1>1, <1>6 DEF Pend
<1> HIDE DEF z
<1>10. i \in Item /\ j \in Item
  BY <1>2, <1>3, <1>4, <1>5, ItemTypes
<1>11. Fits(j, z, z, L1)
  <2>1. Arrives(z, Top.orig_block, L1)
    BY <1>3, <1>4, <1>7, <1>9 DEF Arrives
  <2> QED
    BY <2>1, BrFits
<1>12. \A L2 : Grown(blocks, L, c1, L2, S) /\ L2[NewBlock][1] = R => Fits(i, t, t, L2)
  <2> HIDE DEF c1, S
  <2> SUFFICES ASSUME NEW L2, Grown(blocks, L, c1, L2, S), L2[NewBlock][1] = R PROVE Fits(i, t, t, L2)
    OBVIOUS
  <2>1. /\ M!Tested(t, TRUE) = Ahead(M!Do("stmt", s.body), z)
        /\ M!Tested(t, FALSE) = R
    BY <1>1, <1>2, <1>6, TestedIs DEF z
  <2>2. Leads(L[Top.trueBB][1], L2[Top.trueBB][1])
    BY <1>5 DEF Grown
  <2>3. Arrives(M!Tested(t, TRUE), Top.trueBB, L2)
    BY <1>5, <1>9, <2>1, <2>2, LeadsOn DEF Arrives
  <2>4. Arrives(M!Tested(t, FALSE), endBB, L2)
    BY <1>3, <2>1, LeadsSelf DEF Arrives
  <2> QED
    BY <1>1, <1>2, <1>6, <2>3, <2>4, CondFits
<1> HIDE DEF t, i, j, S
<1>13. PICK L2 : Filled(L, S, D1, R, c1, L2)
  <2>1. CASE is_returned_record
    <3>1. c1 = blocks /\ Filled(L, S, D1, R, blocks, L1)
      BY <1>7, <2>1 DEF Filled
    <3> QED
      BY <3>1
  <2>2. CASE ~is_returned_record
    <3>1. curr_block \in D1 /\ curr_block \notin {} /\ {} \subseteq D1 /\ curr_block \in S
      BY DEF S
    <3>2. Leads(EndOf(blocks, L, curr_block), z)
      BY <1>2, <1>6, <2>2
    <3> HIDE DEF D1
    <3>3. CanFill(L, S, {}, R, blocks, L1, curr_block, j, z, D1)
      BY <1>3, <1>7, <1>8, <1>10, <1>11, <3>1, <3>2 DEF CanFill
    <3>4. \E L2 : Filled(L, S, D1, R, Emit(blocks, curr_block, j), L2)
      BY <1>3, <3>3, FilledMore
    <3> QED
      BY <1>3, <2>2, <3>4
  <2> QED
    BY <2>1, <2>2
<1>14. PICK L3 : Filled(L, S, D2, R, c2, L3)
  <2> HIDE DEF c1
  <2>1. Top.orig_block \in D2 /\ Top.orig_block \notin D1 /\ D1 \subseteq D2 /\ Top.orig_block \in S
    BY <1>3, <1>4 DEF S
  <2>2. Fits(i, t, t, L2)
    BY <1>12, <1>13 DEF Filled
  <2> HIDE DEF D1, D2
  <2>3. CanFill(L, S, D1, R, c1, L2, Top.orig_block, i, t, D2)
    BY <1>3, <1>4, <1>8, <1>9, <1>10, <1>13, <2>1, <2>2 DEF CanFill
  <2> QED
    BY <1>3, <2>3, FilledMore
<1> HIDE DEF c1, c2
<1>15. Grown(blocks, L, blocks', L3, S) /\ EndOf(blocks', L3, curr_block') = R
  BY <1>1, <1>3, <1>14, FilledOpens
<1>16. S \subseteq Debts(Top) \cup {curr_block}
  BY DEF S
<1>17. Leads(EndOf(blocks', L3, curr_block'), R)
  BY <1>15, LeadsSelf
<1> QED
  BY <1>1, <1>15, <1>16, <1>17, FitReturn DEF R
LEMMA AbortIs ==
    ASSUME NEW s \in Stmt
    PROVE  << M!Do("abort", s) >> \in Cont /\ << M!Do("abort", s) >> = Ahead(M!Do("abort", s), << >>)
<1> DEFINE w == M!Do("abort", s)
<1>1. w \in Work
  BY DoIs
<1> HIDE DEF w
<1>2. << w >> \in Cont
  BY <1>1 DEF Cont
<1>3. << w >> \o << >> = << w >>
  BY <1>2, ConcatEmptySeq DEF Cont
<1> QED
  BY <1>2, <1>3 DEF Ahead, w

\* Two blocks more, the second of them empty.
TwoBlocks(c, L, d, L1, S, code, e) ==
    /\ c \in Seq(Code) /\ Grown(c, L, d, L1, S)
    /\ code \in Code /\ CodeFits(code, L1[Len(d) + 1], L1)
    /\ e = d \o << code, << >> >>

LEMMA GrownTwo ==
    ASSUME NEW c, NEW L, NEW d, NEW L1, NEW S, NEW code, NEW e, TwoBlocks(c, L, d, L1, S, code, e)
    PROVE  /\ Grown(c, L, e, L1, S)
           /\ EndOf(e, L1, Len(d) + 2) = L1[Len(d) + 2][1]
<1> DEFINE n == Len(d)
<1>0. /\ c \in Seq(Code) /\ Grown(c, L, d, L1, S)
      /\ code \in Code /\ CodeFits(code, L1[n + 1], L1)
      /\ e = d \o << code, << >> >>
  BY DEF TwoBlocks
<1>1. /\ d \in Seq(Code) /\ n >= Len(c) /\ Len(c) \in Nat /\ n \in Nat
      /\ L1 \in Labels /\ Labelled(d, L1)
      /\ \A k \in 1..Len(c) : Leads(L[k][1], L1[k][1])
      /\ \A k \in 1..Len(c) : k \notin S => d[k] = c[k] /\ L1[k] = L[k]
  BY <1>0, LenProperties DEF Grown
<1>2. /\ e \in Seq(Code) /\ Len(e) = n + 2
      /\ \A k \in 1..n : e[k] = d[k]
      /\ e[n + 1] = code /\ e[n + 2] = << >>
  BY <1>0, <1>1, EmptyCode, TwoMore
<1>3. CodeFits(code, L1[n + 1], L1)
  BY <1>0
<1> HIDE DEF n
<1>4. /\ \A k \in 1..(n + 2) : k \in 1..n \/ k = n + 1 \/ k = n + 2
      /\ n + 2 >= Len(c) /\ \A k \in 1..Len(c) : k \in 1..n
  BY <1>1
<1>5. \A l : CodeFits(<< >>, l, L1)
  BY DEF CodeFits
<1>6. \A b \in 1..n : b # return_block => CodeFits(e[b], L1[b], L1)
  BY <1>1, <1>2 DEF Labelled, n
<1>7. Labelled(e, L1)
  BY <1>2, <1>3, <1>4, <1>5, <1>6 DEF Labelled
<1>8. Grown(c, L, e, L1, S)
  BY <1>1, <1>2, <1>4, <1>7 DEF Grown
<1>9. Len(<< >>) + 1 = 1
  BY EmptySeq
<1>10. EndOf(e, L1, n + 2) = L1[n + 2][1]
  BY <1>2, <1>9 DEF EndOf
<1> QED
  BY <1>8, <1>10 DEF n

\* The block that a negative subscript goes to.
LEMMA NegativeFits ==
    ASSUME NEW s \in Stmt, NEW b, b # return_block, NEW l, NEW L,
           l[1] = << M!Do("abort", s) >>, l[2] = L[b][1]
    PROVE  CodeFits(<< CallExcept(s.tag), Br(s.tag, b) >>, l, L)
<1> DEFINE i == CallExcept(s.tag)
           j == Br(s.tag, b)
<1>1. Fits(i, l[1], l[2], L)
  <2>1. << >> \in Cont
    BY EmptySeq DEF Cont
  <2>2. \A z : Fits(i, Ahead(M!Do("abort", s), << >>), z, L)
    BY <2>1, PlainFits
  <2> HIDE DEF i
  <2> QED
    BY <2>2, AbortIs
<1>2. Fits(j, l[2], l[3], L)
  <2>1. Arrives(l[2], b, L)
    BY LeadsSelf DEF Arrives
  <2> QED
    BY <2>1, BrFits
<1> HIDE DEF i, j
<1>3. Len(<< i, j >>) = 2 /\ << i, j >>[1] = i /\ << i, j >>[2] = j
  OBVIOUS
<1>4. \A k \in 1..2 : (k = 1 /\ k + 1 = 2) \/ (k = 2 /\ k + 1 = 3)
  OBVIOUS
<1>5. CodeFits(<< i, j >>, l, L)
  BY <1>1, <1>2, <1>3, <1>4 DEF CodeFits
<1> QED
  BY <1>5 DEF i, j

LEMMA SubscriptFits ==
    ASSUME Working, WellBehaved(Stmt, Decl), NEW L, NEW K, Good(blocks, stack, curr_block, source, L, K),
           visit_var_subscript
    PROVE  Fit(blocks', stack', curr_block', source)
<1> DEFINE s == Top.node
           R == Rear(K)
           A == After(s, R)
           x == Indexes(Top.left, s) \o A
           y == Indexes(Top.left - 1, s) \o A
           a == << M!Do("abort", s) >>
           neg == NewBlock
           ok == NewBlock + 1
           i == CheckBr(s.tag, neg, ok)
           c == Emit(blocks, curr_block, i)
           d == << CallExcept(s.tag), Br(s.tag, ok) >>
           f == [Top EXCEPT !.left = @ - 1]
           S == {curr_block}
           L1 == GivenLabels(L, neg, a, y)
           L2 == GivenLabels(L1, ok, y, y)
<1>1. /\ phase = "body" /\ stack # << >> /\ Top.pc = "eval" /\ Top.left > 0
      /\ curr_block' = ok /\ blocks' = Emit(blocks, insert, i) \o << d, << >> >>
      /\ stack' = Append(Popped, f)
  BY DEF visit_var_subscript, MoveTo
<1>2. /\ Top \in Frame /\ s \in Stmt /\ s.tag \in Tag /\ ~Ended /\ FrameOK(Top) /\ Top.left \in Nat
  BY <1>1, AtWork, OwingAtWork DEF Working, Frame
<1>3. /\ blocks \in Seq(Code) /\ Grown(blocks, L, blocks, L, S) /\ AllInside(blocks, 1..Len(blocks))
      /\ neg = Len(blocks) + 1 /\ neg \in Nat /\ neg \notin 1..Len(blocks) /\ neg # return_block
      /\ insert = curr_block /\ curr_block \in 1..Len(blocks) /\ curr_block # return_block
  BY LabelsAtWork
<1>4. ok = Len(blocks) + 2 /\ ok \in Nat /\ ok \notin 1..Len(blocks) /\ ok # return_block /\ ok # neg
  <2>1. Len(blocks) \in Nat
    BY <1>3, LenProperties
  <2> QED
    BY <1>3, <2>1 DEF return_block
<1>5. /\ R \in Cont /\ Leads(EndOf(blocks, L, curr_block), x)
  BY <1>1, <1>2, GoodAtWork DEF Now
<1> HIDE DEF R
<1>6. A \in Cont
  BY <1>2, <1>5, AfterType
<1> HIDE DEF A
<1>7. x = Ahead(M!Do("index", s), y) /\ x \in Cont /\ y \in Cont
  <2>1. Top.left - 1 \in Nat
    BY <1>1, <1>2
  <2> QED
    BY <1>1, <1>2, <1>6, <2>1, IndexesIs
<1> HIDE DEF x
<1>8. f \in Frame /\ f.node = s /\ f.pc = "eval" /\ f.left = Top.left - 1
  <2>1. Top \in Frame /\ Top.pc = "eval" /\ Top.left - 1 \in Nat
    BY <1>1, <1>2
  <2> QED
    BY <2>1 DEF Frame
<1>9. s.kind \in {"if", "expr", "return"}
  <2>1. s.kind = "while" => Top.left = 0
    BY <1>2 DEF FrameOK
  <2>2. s.kind \in {"if", "expr", "return", "while"}
    BY <1>1, <1>2 DEF FrameOK
  <2>3. Top.left # 0
    BY <1>1
  <2> QED
    BY <2>1, <2>2, <2>3
<1> HIDE DEF f
<1>10. FrameOK(f) /\ \A c1, L3 : Pend(f, R, c1, L3)
  BY <1>8, <1>9 DEF FrameOK, Pend
<1>11. Now(f, R) = y
  BY <1>8 DEF Now, A
<1> HIDE DEF y
<1>12. a \in Cont
  BY <1>2, AbortIs
<1> HIDE DEF neg, ok, S
<1>13. /\ Grown(blocks, L, blocks, L1, S) /\ L1[neg][1] = a /\ L1[neg][2] = y
       /\ \A k \in Nat : k # neg => L1[k] = L[k]
  <2> HIDE DEF a
  <2> QED
    BY <1>3, <1>7, <1>12, GrownLabels
<1> HIDE DEF L1
<1>14. /\ Grown(blocks, L, blocks, L2, S) /\ L2[ok][1] = y
       /\ \A k \in Nat : k # ok => L2[k] = L1[k]
  <2>1. /\ blocks \in Seq(Code) /\ Grown(blocks, L, blocks, L1, S) /\ AllInside(blocks, 1..Len(blocks))
        /\ ok \in Nat /\ ok \notin 1..Len(blocks) /\ y \in Cont
    BY <1>3, <1>4, <1>7, <1>13
  <2> QED
    BY <2>1, GrownLabels
<1> HIDE DEF L2
<1>15. L2[neg][1] = a /\ L2[neg][2] = y
  BY <1>3, <1>4, <1>13, <1>14
<1>16. EndOf(blocks, L2, curr_block) = EndOf(blocks, L, curr_block)
  <2>1. curr_block \in Nat /\ curr_block # neg /\ curr_block # ok
    BY <1>3, <1>4
  <2>2. L2[curr_block] = L[curr_block]
    BY <1>13, <1>14, <2>1
  <2> QED
    BY <2>2 DEF EndOf
<1>17. i \in Item /\ Fits(i, x, y, L2)
  <2>1. Arrives(a, neg, L2) /\ Arrives(y, ok, L2)
    BY <1>3, <1>4, <1>14, <1>15, LeadsSelf DEF Arrives
  <2>2. Fits(i, Ahead(M!Do("index", s), y), y, L2)
    BY <1>2, <1>7, <2>1, CheckFits
  <2>3. i \in Item
    BY <1>2, <1>3, <1>4, ItemTypes
  <2> QED
    BY <1>7, <2>2, <2>3
<1>18. d \in Code
  <2>1. CallExcept(s.tag) \in Item /\ Br(s.tag, ok) \in Item
    BY <1>2, <1>4, ItemTypes
  <2> QED
    BY <2>1 DEF Code
<1>19. blocks' = c \o << d, << >> >>
  BY <1>1, <1>3
<1> HIDE DEF i, d
<1>20. CanEmit(blocks, L, blocks, L2, S, curr_block, i, x, y)
  <2>1. curr_block \in S
    BY DEF S
  <2> QED
    BY <1>3, <1>5, <1>7, <1>14, <1>16, <1>17, <2>1 DEF CanEmit
<1>21. PICK L3 : Grown(blocks, L, c, L3, S) /\ \A k \in Nat : k # curr_block => L3[k] = L2[k]
  <2> HIDE DEF c
  <2> QED
    BY <1>20, GrownEmit DEF c
<1>22. L3[neg][1] = a /\ L3[neg][2] = y /\ L3[ok][1] = y
  <2>1. neg # curr_block /\ ok # curr_block
    BY <1>3, <1>4
  <2>2. L3[neg] = L2[neg] /\ L3[ok] = L2[ok]
    BY <1>3, <1>4, <1>21, <2>1
  <2> QED
    BY <1>14, <1>15, <2>2
<1>23. Len(c) = Len(blocks)
  BY <1>3, <1>17, Emitted
<1>24. CodeFits(d, L3[neg], L3)
  BY <1>2, <1>4, <1>22, NegativeFits DEF d
<1> HIDE DEF c
<1>25. Grown(blocks, L, blocks', L3, S) /\ EndOf(blocks', L3, ok) = y
  <2>1. CodeFits(d, L3[Len(c) + 1], L3)
    BY <1>3, <1>23, <1>24
  <2>2. Grown(blocks, L, blocks', L3, S) /\ EndOf(blocks', L3, Len(c) + 2) = L3[Len(c) + 2][1]
    <3>1. Grown(blocks, L, c, L3, S) /\ blocks \in Seq(Code)
      BY <1>3, <1>21
    <3> DEFINE e == blocks'
    <3>2. e = c \o << d, << >> >>
      BY <1>19
    <3> HIDE DEF e
    <3>3. d \in Code /\ CodeFits(d, L3[Len(c) + 1], L3)
      BY <1>18, <2>1
    <3>4. TwoBlocks(blocks, L, c, L3, S, d, e)
      BY <3>1, <3>2, <3>3 DEF TwoBlocks
    <3>5. Grown(blocks, L, e, L3, S) /\ EndOf(e, L3, Len(c) + 2) = L3[Len(c) + 2][1]
      BY <3>4, GrownTwo
    <3> QED
      BY <3>5 DEF e
  <2> QED
    BY <1>4, <1>22, <1>23, <2>2
<1>26. Leads(EndOf(blocks', L3, curr_block'), Now(f, R))
  BY <1>1, <1>11, <1>25, LeadsSelf DEF ok
<1>27. S \subseteq Debts(Top) \cup {curr_block}
  BY DEF S
<1>28. stack' = Append(Popped, f)
  BY <1>1 DEF f
<1> QED
  BY <1>8, <1>10, <1>25, <1>26, <1>27, <1>28, FitMove DEF R
-----------------------------------------------------------------------------
(* A function begins and ends.                                              *)

\* The code of a finished function.
Finished(c, src, L) ==
    /\ L \in Labels /\ Labelled(c, L)
    /\ Leads(Ahead(M!Do("stmt", src), << >>), L[entrybb][1])
    /\ c[return_block] = << Ret >>

LEMMA FunctionBeginFits ==
    ASSUME IInv, WellBehaved(Stmt, Decl), fun_declaration_begin
    PROVE  Fit(blocks', stack', curr_block', Head(todo).body) /\ Head(todo).body \in Stmt
<1> DEFINE fun == Head(todo)
           s == fun.body
           h == Handler(s)
           first == IF fun.params # << >> \/ ~fun.void THEN << Alloca >> ELSE << >>
           x == Ahead(M!Do("stmt", s), << >>)
           L == [b \in Nat |-> [n \in Nat |-> x]]
           K == [k \in Nat |-> IF k = 1 THEN << >> ELSE x]
           c == blocks'
           t == stack'
<1>1. /\ todo # << >> /\ fun.kind = "fun" /\ curr_block' = entrybb
      /\ c = << << >>, first >> /\ t = << h >>
  BY DEF fun_declaration_begin, MoveTo
<1>2. s \in Stmt /\ s.kind = "compound"
  <2>1. IsDecl(fun)
    BY <1>1, NextDeclaration
  <2> QED
    BY <1>1, <2>1 DEF IsDecl
<1>3. h.pc = "start" /\ h.node = s
  BY <1>2 DEF Handler
<1> HIDE DEF s, h, first
<1>4. << >> \in Cont /\ x \in Cont
  <2>1. << >> \in Cont
    BY EmptySeq DEF Cont
  <2> QED
    BY <1>2, <2>1, Parted
<1>5. Now(h, << >>) = x
  BY <1>3 DEF Now
<1> HIDE DEF x
<1>6. L \in Labels /\ \A b \in Nat : \A n \in Nat : L[b][n] = x
  BY <1>4 DEF Labels
<1>7. K \in [Nat -> Cont] /\ K[1] = << >> /\ K[2] = x
  BY <1>4
<1> HIDE DEF L, K
<1>8. CodeFits(first, L[entrybb], L) /\ L[entrybb][1] = x /\ EndOf(c, L, entrybb) = x
  <2>1. entrybb \in Nat /\ c[entrybb] = first
    BY <1>1 DEF entrybb
  <2>2. Fits(Alloca, x, x, L)
    BY <1>2, <1>4, PlainFits
  <2> DEFINE i == Alloca
             l == L[entrybb]
  <2>3. l[1] = x /\ l[2] = x
    BY <1>6, <2>1
  <2> HIDE DEF i, l
  <2>4. Len(<< i >>) = 1 /\ << i >>[1] = i /\ Len(<< >>) = 0
    OBVIOUS
  <2>5. \A k \in 1..1 : k = 1 /\ k + 1 = 2
    OBVIOUS
  <2>6. CodeFits(<< i >>, l, L) /\ CodeFits(<< >>, l, L)
    BY <2>2, <2>3, <2>4, <2>5 DEF CodeFits, i
  <2>7. first \in {<< i >>, << >>}
    BY DEF first, i
  <2>8. CodeFits(first, l, L)
    BY <2>6, <2>7
  <2>9. Len(first) + 1 \in Nat
    BY <2>4, <2>7
  <2>10. EndOf(c, L, entrybb) = x
    BY <1>6, <2>1, <2>9 DEF EndOf
  <2> QED
    BY <2>3, <2>8, <2>10 DEF l
<1>9. Labelled(c, L)
  <2>1. Len(c) = 2 /\ c[entrybb] = first /\ \A b \in 1..2 : b = return_block \/ b = entrybb
    BY <1>1 DEF return_block, entrybb
  <2> QED
    BY <1>8, <2>1 DEF Labelled
<1>10. \A k \in 1..Len(t) : K[k + 1] = Now(t[k], K[k]) /\ Pend(t[k], K[k], c, L)
  <2>1. Len(t) = 1 /\ t[1] = h
    BY <1>1
  <2>2. \A k \in 1..1 : k = 1 /\ k + 1 = 2
    OBVIOUS
  <2>3. Pend(h, K[1], c, L)
    BY <1>3 DEF Pend
  <2> QED
    BY <1>5, <1>7, <2>1, <2>2, <2>3
<1>11. K[Len(t) + 1] = x
  <2>1. Len(t) + 1 = 2
    BY <1>1
  <2> QED
    BY <1>7, <2>1
<1>12. Good(c, t, curr_block', s, L, K)
  BY <1>1, <1>6, <1>7, <1>8, <1>9, <1>10, <1>11, LeadsSelf DEF Good, x
<1> QED
  BY <1>2, <1>12 DEF Fit, s, c, t

LEMMA FunctionEndFits ==
    ASSUME IInv, BlockInv, NEW src, Fit(blocks, stack, curr_block, src), fun_declaration_end
    PROVE  \E L : Finished(blocks', src, L)
<1>1. phase = "body" /\ stack = << >> /\ blocks' = Emit(blocks, return_block, Ret)
  BY DEF fun_declaration_end
<1>2. /\ blocks \in Seq(Code) /\ Len(blocks) \in Nat /\ Len(blocks) >= 2
      /\ blocks[return_block] = << >>
  BY <1>1, LenProperties DEF IInv, EmitInv, BlockInv, OwedInv
<1>3. return_block \in 1..Len(blocks)
  BY <1>2 DEF return_block
<1> DEFINE d == blocks'
<1>4. /\ Len(d) = Len(blocks)
      /\ \A b \in 1..Len(blocks) : b # return_block => d[b] = blocks[b]
      /\ d[return_block] = Append(blocks[return_block], Ret)
  BY <1>1, <1>2, <1>3, ItemTypes, Emitted
<1>5. d[return_block] = << Ret >>
  BY <1>2, <1>4
<1> HIDE DEF d
<1>6. PICK L, K : Good(blocks, stack, curr_block, src, L, K)
  BY DEF Fit
<1>7. L \in Labels /\ Labelled(blocks, L) /\ Leads(Ahead(M!Do("stmt", src), << >>), L[entrybb][1])
  BY <1>6 DEF Good
<1>8. Labelled(d, L)
  BY <1>4, <1>7 DEF Labelled
<1>9. Finished(d, src, L)
  BY <1>5, <1>7, <1>8 DEF Finished
<1> QED
  BY <1>9 DEF d
-----------------------------------------------------------------------------
(* The compiler's steps.                                                    *)

\* While a function is being built its blocks have labels that fit, and they
\* still have them when it is finished.
Built ==
    /\ phase = "body" => entrybb \in placed /\ Fit(blocks, stack, curr_block, source)
    /\ phase = "decls" /\ source # NoStmt => entrybb \in placed /\ \E L : Finished(blocks, source, L)

\* A step of a handler.
Handling ==
    \/ compound_stmt_enter \/ compound_stmt_next \/ compound_stmt_exit
    \/ visit_var_subscript \/ visit_expresion_stmt
    \/ selection_stmt_then \/ selection_stmt_else \/ selection_stmt_end
    \/ iteration_stmt_start \/ iteration_stmt_body \/ iteration_stmt_end
    \/ visit_return_stmt

LEMMA HandlingInside ==
    ASSUME Handling
    PROVE  phase = "body" /\ phase' = "body" /\ stack # << >> /\ placed \subseteq placed'
<1>1. CASE compound_stmt_enter \/ compound_stmt_next \/ compound_stmt_exit
  BY <1>1 DEF compound_stmt_enter, compound_stmt_next, compound_stmt_exit, At, emitting
<1>2. CASE visit_var_subscript \/ visit_expresion_stmt \/ visit_return_stmt
  BY <1>2 DEF visit_var_subscript, visit_expresion_stmt, visit_return_stmt, Evaluated, At
<1>3. CASE selection_stmt_then \/ selection_stmt_else \/ selection_stmt_end
  BY <1>3 DEF selection_stmt_then, selection_stmt_else, selection_stmt_end, Evaluated, At
<1>4. CASE iteration_stmt_start \/ iteration_stmt_body \/ iteration_stmt_end
  BY <1>4 DEF iteration_stmt_start, iteration_stmt_body, iteration_stmt_end, Evaluated, At
<1> QED
  BY <1>1, <1>2, <1>3, <1>4 DEF Handling

LEMMA HandlingFits ==
    ASSUME IInv, TargetInv, BlockInv, StoreInv, WellBehaved(Stmt, Decl), Handling,
           Fit(blocks, stack, curr_block, source)
    PROVE  Fit(blocks', stack', curr_block', source)
<1>1. Working
  BY HandlingInside DEF Working
<1>2. PICK L, K : Good(blocks, stack, curr_block, source, L, K)
  BY DEF Fit
<1>3. CASE compound_stmt_enter
  BY <1>1, <1>2, <1>3, CompoundEnterFits
<1>4. CASE compound_stmt_next
  BY <1>1, <1>2, <1>4, CompoundNextFits
<1>5. CASE compound_stmt_exit
  BY <1>1, <1>2, <1>5, CompoundExitFits
<1>6. CASE visit_var_subscript
  BY <1>1, <1>2, <1>6, SubscriptFits
<1>7. CASE visit_expresion_stmt
  BY <1>1, <1>2, <1>7, ExpressionFits
<1>8. CASE selection_stmt_then
  BY <1>1, <1>2, <1>8, SelectionThenFits
<1>9. CASE selection_stmt_else
  BY <1>1, <1>2, <1>9, SelectionElseFits
<1>10. CASE selection_stmt_end
  BY <1>1, <1>2, <1>10, SelectionEndFits
<1>11. CASE iteration_stmt_start
  BY <1>1, <1>2, <1>11, IterationStartFits
<1>12. CASE iteration_stmt_body
  BY <1>1, <1>2, <1>12, IterationBodyFits
<1>13. CASE iteration_stmt_end
  BY <1>1, <1>2, <1>13, IterationEndFits
<1>14. CASE visit_return_stmt
  BY <1>1, <1>2, <1>14, ReturnFits
<1> QED
  BY <1>3, <1>4, <1>5, <1>6, <1>7, <1>8, <1>9, <1>10, <1>11, <1>12, <1>13, <1>14 DEF Handling

SourceSet == source \in Stmt \cup {NoStmt}

\* Which function is being built, for every set of programs.
LEMMA BuildSource ==
    ASSUME IInv, SourceSet, Build PROVE SourceSet'
<1>1. CASE phase = "decls" /\ phase' = "body"
  <2>1. CASE fun_declaration_begin
    <3>1. todo # << >> /\ Head(todo).kind = "fun"
      BY <2>1 DEF fun_declaration_begin
    <3>2. Head(todo).body \in Stmt
      BY <3>1, NextDeclaration DEF IsDecl
    <3> QED
      BY <1>1, <3>2 DEF Build, SourceSet
  <2>2. CASE visit_var_declaration
    BY <1>1, <2>2 DEF visit_var_declaration
  <2>3. CASE fun_declaration_end
    BY <1>1, <2>3 DEF fun_declaration_end
  <2>4. CASE visit_empty_stmt
    BY <1>1, <2>4 DEF visit_empty_stmt
  <2>5. CASE Handling
    BY <1>1, <2>5, HandlingInside
  <2>6. CASE return_stmt_null
    BY <1>1, <2>6 DEF return_stmt_null
  <2> QED
    BY <2>1, <2>2, <2>3, <2>4, <2>5, <2>6 DEF Build, Walk, Handling
<1>2. CASE ~(phase = "decls" /\ phase' = "body")
  BY <1>2 DEF Build, SourceSet
<1> QED
  BY <1>1, <1>2

LEMMA BuildKeeps ==
    ASSUME IInv, TargetInv, BlockInv, StoreInv, WellBehaved(Stmt, Decl), Built, SourceSet, Build
    PROVE  Built'
<1>1. source' = IF phase = "decls" /\ phase' = "body" THEN Head(todo).body ELSE source
  BY DEF Build
<1>2. CASE visit_var_declaration
  <2>1. phase = "decls" /\ phase' = "decls" /\ blocks' = blocks /\ placed' = placed /\ source' = source
    BY <1>1, <1>2 DEF visit_var_declaration, emitting
  <2> QED
    BY <2>1 DEF Built
<1>3. CASE fun_declaration_begin
  <2>1. phase = "decls" /\ phase' = "body" /\ placed' = {entrybb} /\ source' = Head(todo).body
    BY <1>1, <1>3 DEF fun_declaration_begin
  <2>2. Fit(blocks', stack', curr_block', source')
    BY <1>3, <2>1, FunctionBeginFits
  <2> QED
    BY <2>1, <2>2 DEF Built
<1>4. CASE fun_declaration_end
  <2>1. phase = "body" /\ phase' = "decls" /\ placed \subseteq placed' /\ source' = source
    BY <1>1, <1>4 DEF fun_declaration_end
  <2>2. \E L : Finished(blocks', source, L)
    BY <1>4, <2>1, FunctionEndFits DEF Built
  <2> QED
    BY <2>1, <2>2 DEF Built
<1>5. CASE visit_empty_stmt
  BY <1>5, NoEmptyStatement
<1>7. CASE return_stmt_null
  BY <1>7, NoNullStore
<1>6. CASE Handling
  <2>1. phase = "body" /\ phase' = "body" /\ placed \subseteq placed' /\ source' = source
    BY <1>1, <1>6, HandlingInside
  <2>2. Fit(blocks', stack', curr_block', source)
    BY <1>6, <2>1, HandlingFits DEF Built
  <2> QED
    BY <2>1, <2>2 DEF Built
<1> QED
  BY <1>2, <1>3, <1>4, <1>5, <1>6, <1>7 DEF Build, Walk, Handling
-----------------------------------------------------------------------------
(* The machine's steps.                                                     *)

\* With x still to do, the source and the machine at position n of block b are
\* on the same way: nothing is seen between them.
Meets(x, b, n, L) ==
    IF b = return_block THEN n = 1 /\ \E s \in Stmt : Leads(x, Leaving(s))
    ELSE Leads(x, L[b][n]) \/ Leads(L[b][n], x)

Following(L) ==
    /\ Finished(blocks, source, L)
    /\ cont \in Cont
    /\ at \in [block : placed, pos : Nat] /\ at.pos \in 1..Len(blocks[at.block])
    /\ Meets(cont, at.block, at.pos, L)

\* The source moves on without anything seen.
LEMMA MeetsUnfolded ==
    ASSUME NoEmpty(Stmt), NEW x \in Cont, x # << >>, ~M!Visible(x), NEW b, NEW n, NEW L, Meets(x, b, n, L)
    PROVE  Meets(M!Unfolded(x), b, n, L)
<1>1. Leads(x, M!Unfolded(x))
  BY LeadsOne
<1>2. CASE b = return_block
  <2>1. n = 1
    BY <1>2 DEF Meets
  <2>2. PICK s \in Stmt : Leads(x, Leaving(s))
    BY <1>2 DEF Meets
  <2>3. M!Visible(Leaving(s)) /\ x # Leaving(s)
    <3>1. << >> \in Cont
      BY EmptySeq DEF Cont
    <3>2. M!Visible(Ahead(M!Do("leave", s), << >>))
      BY <3>1, Parted
    <3> QED
      BY <3>2, LeavingIs
  <2>4. Leads(M!Unfolded(x), Leaving(s))
    BY <2>2, <2>3, LeadsNext
  <2> QED
    BY <1>2, <2>1, <2>4 DEF Meets
<1>3. CASE b # return_block
  <2> DEFINE y == L[b][n]
  <2>1. Leads(x, y) \/ Leads(y, x)
    BY <1>3 DEF Meets
  <2> HIDE DEF y
  <2>2. Leads(M!Unfolded(x), y) \/ Leads(y, M!Unfolded(x))
    BY <1>1, <2>1, LeadsOn, LeadsNext
  <2> QED
    BY <1>3, <2>2 DEF Meets, y
<1> QED
  BY <1>2, <1>3

\* The source has come to something seen, the machine catches up.
LEMMA Behind ==
    ASSUME NEW x \in Cont, M!Visible(x), NEW b, NEW n, NEW L, Meets(x, b, n, L)
    PROVE  /\ b # return_block => Leads(L[b][n], x)
           /\ b = return_block => \E s \in Stmt : x = Leaving(s)
<1>1. CASE b = return_block
  BY <1>1, LeadsStuck DEF Meets
<1>2. CASE b # return_block
  <2> DEFINE y == L[b][n]
  <2>1. Leads(x, y) \/ Leads(y, x)
    BY <1>2 DEF Meets
  <2> HIDE DEF y
  <2>2. Leads(y, x)
    BY <2>1, LeadsStuck, LeadsSelf
  <2> QED
    BY <1>2, <2>2 DEF y
<1> QED
  BY <1>1, <1>2

LEMMA MeetsAfterBr ==
    ASSUME NoEmpty(Stmt), NEW x \in Cont, M!Visible(x), NEW y \in Cont, Leads(y, x),
           NEW b, NEW L, Arrives(y, b, L)
    PROVE  Meets(x, b, 1, L)
<1>1. CASE b = return_block
  <2>1. PICK s \in Stmt : Leads(y, Leaving(s))
    BY <1>1 DEF Arrives
  <2>2. Leads(Leaving(s), x)
    BY <2>1, LeadsSame
  <2>3. Leaving(s) \in Cont /\ M!Visible(Leaving(s))
    <3>1. << >> \in Cont
      BY EmptySeq DEF Cont
    <3>2. M!Visible(Ahead(M!Do("leave", s), << >>))
      BY <3>1, Parted
    <3> QED
      BY <3>2, LeavingIs
  <2>4. x = Leaving(s)
    BY <2>2, <2>3, LeadsStuck
  <2> QED
    BY <1>1, <2>4, LeadsSelf DEF Meets
<1>2. CASE b # return_block
  <2> DEFINE z == L[b][1]
  <2>1. Leads(y, z)
    BY <1>2 DEF Arrives
  <2> HIDE DEF z
  <2>2. Leads(z, x)
    BY <2>1, LeadsSame
  <2> QED
    BY <1>2, <2>2 DEF Meets, z
<1> QED
  BY <1>1, <1>2

LEMMA MeetsAtOnce == ASSUME NEW x, NEW b, NEW L, Arrives(x, b, L) PROVE Meets(x, b, 1, L)
  BY DEF Arrives, Meets

\* What the machine finds where it is.
LEMMA Executes ==
    ASSUME IInv, TargetInv, BlockInv, phase = "decls", NEW L, Following(L)
    PROVE  /\ Defined /\ Instruction \in Item /\ L[at.block][at.pos] \in Cont
           /\ at.block # return_block => Fits(Instruction, L[at.block][at.pos], L[at.block][at.pos + 1], L)
           /\ at.block = return_block => Instruction = Ret
           /\ ~IsTerminator(Instruction) => at.pos + 1 \in 1..Len(blocks[at.block])
           /\ \A k \in 1..Len(Instruction.to) : Instruction.to[k] \in placed
           /\ \A b \in placed : 1 \in 1..Len(blocks[b])
<1> DEFINE b == at.block
           n == at.pos
           code == blocks[b]
<1>1. /\ L \in Labels /\ Labelled(blocks, L) /\ blocks[return_block] = << Ret >>
      /\ b \in placed /\ n \in Nat /\ n \in 1..Len(code) /\ Meets(cont, b, n, L)
  BY DEF Following, Finished
<1>2. /\ blocks \in Seq(Code) /\ placed \subseteq 1..Len(blocks) /\ Len(blocks) \in Nat
      /\ \A p \in placed : WellFormed(blocks[p])
      /\ \A p \in placed : \A i \in 1..Len(blocks[p]) :
            \A k \in 1..Len(blocks[p][i].to) : blocks[p][i].to[k] \in placed
  BY LenProperties DEF IInv, EmitInv, BlockInv, EndedInv, TargetInv, BranchesStayInside
<1>3. \A p \in placed : blocks[p] \in Code /\ Len(blocks[p]) \in Nat /\ 1 \in 1..Len(blocks[p])
  <2> SUFFICES ASSUME NEW p \in placed
               PROVE  blocks[p] \in Code /\ Len(blocks[p]) \in Nat /\ 1 \in 1..Len(blocks[p])
    OBVIOUS
  <2>1. blocks[p] \in Code /\ blocks[p] # << >>
    BY <1>2, ElementOfSeq DEF WellFormed
  <2>2. Len(blocks[p]) \in Nat /\ Len(blocks[p]) # 0
    BY <2>1, EmptySeq, LenProperties DEF Code
  <2> QED
    BY <2>1, <2>2
<1>4. code \in Seq(Item) /\ Len(code) \in Nat /\ code[n] \in Item
  <2>1. code \in Code /\ Len(code) \in Nat
    BY <1>1, <1>3
  <2> QED
    BY <1>1, <2>1, ElementOfSeq DEF Code
<1>5. L[b][n] \in Cont
  <2>1. b \in 1..Len(blocks) /\ Len(blocks) \in Nat
    BY <1>1, <1>2
  <2>2. L[b] \in [Nat -> Cont]
    BY <1>1, <2>1 DEF Labels
  <2> QED
    BY <1>1, <2>2
<1>6. ASSUME b # return_block PROVE Fits(code[n], L[b][n], L[b][n + 1], L)
  BY <1>1, <1>2, <1>6 DEF Labelled, CodeFits
<1>7. ASSUME b = return_block PROVE code[n] = Ret
  <2>1. code = << Ret >> /\ Len(<< Ret >>) = 1 /\ << Ret >>[1] = Ret
    BY <1>1, <1>7
  <2>2. n = 1
    BY <1>1, <1>7 DEF Meets
  <2> QED
    BY <2>1, <2>2
<1>8. ASSUME ~IsTerminator(code[n]) PROVE n + 1 \in 1..Len(code)
  <2>1. IsTerminator(code[Len(code)])
    BY <1>1, <1>2 DEF WellFormed
  <2>2. n # Len(code)
    BY <1>8, <2>1
  <2> HIDE DEF n, code
  <2> QED
    BY <1>1, <1>4, <2>2
<1>9. Instruction = code[n]
  BY DEF Instruction
<1>10. \A k \in 1..Len(code[n].to) : code[n].to[k] \in placed
  BY <1>1, <1>2
<1>11. Defined
  BY <1>1, <1>4 DEF Defined
<1> QED
  BY <1>3, <1>4, <1>5, <1>6, <1>7, <1>8, <1>9, <1>10, <1>11
\* The machine has gone where it meets the source.
LEMMA FollowsOn ==
    ASSUME NEW L, Following(L), UNCHANGED << blocks, placed, source >>,
           cont' \in Cont, NEW b \in placed, NEW n \in Nat, at' = [block |-> b, pos |-> n],
           n \in 1..Len(blocks[b]), Meets(cont', b, n, L)
    PROVE  Following(L)'
<1>1. Finished(blocks', source', L)
  BY DEF Following
<1>2. at' \in [block : placed', pos : Nat] /\ at'.block = b /\ at'.pos = n
  OBVIOUS
<1>3. n \in 1..Len(blocks'[b])
  OBVIOUS
<1> QED
  BY <1>1, <1>2, <1>3 DEF Following

LEMMA StartFollows ==
    ASSUME IInv, TargetInv, BlockInv, Built, SourceSet, Start
    PROVE  \E L : Following(L)'
<1> DEFINE x == << M!Do("stmt", source) >>
<1>1. /\ phase = "decls" /\ source # NoStmt /\ cont' = x /\ at' = [block |-> entrybb, pos |-> 1]
      /\ UNCHANGED << blocks, placed, source >>
  BY DEF Start, vars
<1>2. PICK L : Finished(blocks, source, L)
  BY <1>1 DEF Built
<1>3. entrybb \in placed /\ source \in Stmt
  BY <1>1 DEF Built, SourceSet
<1>4. x \in Cont /\ x = Ahead(M!Do("stmt", source), << >>)
  <2> DEFINE w == M!Do("stmt", source)
  <2>1. w \in Work
    BY <1>3, DoIs
  <2> HIDE DEF w
  <2>2. << w >> \in Cont
    BY <2>1 DEF Cont
  <2>3. << w >> \o << >> = << w >>
    BY <2>2, ConcatEmptySeq DEF Cont
  <2> QED
    BY <2>2, <2>3 DEF Ahead, w
<1> HIDE DEF x
<1>5. Leads(x, L[entrybb][1])
  BY <1>2, <1>4 DEF Finished
<1>6. Meets(x, entrybb, 1, L)
  BY <1>5 DEF Meets, entrybb, return_block
<1>7. 1 \in 1..Len(blocks[entrybb])
  <2>1. blocks[entrybb] \in Code /\ blocks[entrybb] # << >>
    BY <1>1, <1>3, ElementOfSeq DEF IInv, EmitInv, BlockInv, EndedInv, WellFormed
  <2>2. Len(blocks[entrybb]) \in Nat /\ Len(blocks[entrybb]) # 0
    BY <2>1, EmptySeq, LenProperties DEF Code
  <2> QED
    BY <2>2
<1>8. Finished(blocks', source', L)
  BY <1>1, <1>2
<1>9. /\ cont' \in Cont /\ at' \in [block : placed', pos : Nat] /\ at'.block = entrybb /\ at'.pos = 1
      /\ 1 \in 1..Len(blocks'[entrybb])
  BY <1>1, <1>3, <1>4, <1>7
<1>10. Meets(cont', entrybb, 1, L)
  BY <1>1, <1>6
<1>11. Following(L)'
  BY <1>8, <1>9, <1>10 DEF Following
<1> QED
  BY <1>11

LEMMA UnfoldFollows ==
    ASSUME WellBehaved(Stmt, Decl), NEW L, Following(L), Unfold
    PROVE  Following(L)'
<1>1. /\ ~M!Visible(cont) /\ cont # << >> /\ cont' = M!Unfolded(cont)
      /\ UNCHANGED << blocks, placed, source, at >>
  BY DEF Unfold, vars
<1>2. cont \in Cont /\ Meets(cont, at.block, at.pos, L) /\ NoEmpty(Stmt)
  BY DEF Following, WellBehaved, Behaved
<1>3. cont' \in Cont
  BY <1>1, <1>2, UnfoldedType
<1>4. Meets(M!Unfolded(cont), at.block, at.pos, L)
  BY <1>1, <1>2, MeetsUnfolded
<1>5. Meets(cont', at'.block, at'.pos, L)
  BY <1>1, <1>4
<1>6. /\ Finished(blocks', source', L) /\ at' \in [block : placed', pos : Nat]
      /\ at'.pos \in 1..Len(blocks'[at'.block])
  BY <1>1 DEF Following
<1> QED
  BY <1>3, <1>5, <1>6 DEF Following

\* The machine about to execute something, the source having come to something
\* seen.
LEMMA AboutTo ==
    ASSUME IInv, TargetInv, BlockInv, phase = "decls", WellBehaved(Stmt, Decl), NEW L, Following(L), Ready
    PROVE  /\ cont \in Cont /\ cont # << >> /\ M!Visible(cont) /\ Head(cont) \in Work /\ Tail(cont) \in Cont
           /\ at \in [block : placed, pos : Nat]
           /\ at.block # return_block => Leads(L[at.block][at.pos], cont)
           /\ at.block = return_block => \E s \in Stmt : cont = Leaving(s)
<1>1. cont \in Cont /\ M!Visible(cont) /\ at \in [block : placed, pos : Nat] /\ Meets(cont, at.block, at.pos, L)
  BY DEF Following, Ready
<1>2. cont # << >>
  BY <1>1 DEF M!Visible
<1>3. Head(cont) \in Work /\ Tail(cont) \in Cont
  BY <1>1, <1>2, HeadTailProperties DEF Cont
<1> QED
  BY <1>1, <1>2, <1>3, Behind

\* Both are about to do the same thing.
LEMMA BothDo ==
    ASSUME IInv, TargetInv, BlockInv, phase = "decls", WellBehaved(Stmt, Decl), NEW L, Following(L), Ready
    PROVE  Together \/ (Defined /\ Instruction.op \in {"alloca", "br"})
<1> DEFINE i == Instruction
           y == L[at.block][at.pos]
           z == L[at.block][at.pos + 1]
<1>1. /\ Defined /\ i \in Item /\ y \in Cont
      /\ at.block # return_block => Fits(i, y, z, L)
      /\ at.block = return_block => i = Ret
  BY Executes
<1>2. i.op \in Op
  BY <1>1 DEF Item
<1>3. /\ DOMAIN Seen = {"effect", "store", "check", "condbr", "neg_idx_except", "ret"}
      /\ Seen["ret"] = "leave"
  BY DEF Seen
<1>4. CASE at.block = return_block
  <2>1. PICK s \in Stmt : cont = Leaving(s)
    BY <1>4, AboutTo
  <2>2. Head(cont).do = "leave"
    BY <2>1, LeavingIs, DoIs
  <2>3. i.op = "ret"
    BY <1>1, <1>4 DEF Ret
  <2> QED
    BY <1>1, <1>3, <2>2, <2>3 DEF Together
<1>5. CASE at.block # return_block /\ i.op \notin {"alloca", "br"}
  <2>1. Fits(i, y, z, L) /\ Leads(y, cont)
    BY <1>1, <1>5, AboutTo
  <2> HIDE DEF i, y, z
  <2>2. i.op \notin {"ret", "stray_store"} /\ Shows(y, i)
    BY <1>2, <1>5, <2>1 DEF Fits, Op
  <2>3. cont = y
    BY <1>1, <2>1, <2>2, LeadsStuck DEF Shows
  <2>4. Head(cont).do = Seen[i.op] /\ Head(cont).stmt.tag = i.tag
    BY <2>2, <2>3 DEF Shows
  <2>5. i.op \in DOMAIN Seen
    BY <1>2, <1>3, <1>5, <2>2 DEF Op
  <2> QED
    BY <1>1, <2>4, <2>5 DEF Together, i
<1> QED
  BY <1>1, <1>4, <1>5
\* The machine has not come to return_block yet.
LEMMA Underway ==
    ASSUME IInv, TargetInv, BlockInv, phase = "decls", WellBehaved(Stmt, Decl), NEW L, Following(L), Ready,
           Instruction.op # "ret"
    PROVE  LET i == Instruction
               y == L[at.block][at.pos]
               z == L[at.block][at.pos + 1]
           IN  /\ i \in Item /\ y \in Cont /\ Fits(i, y, z, L) /\ Leads(y, cont)
               /\ i.op \notin {"alloca", "br"} => y = cont
               /\ at.block # return_block
               /\ at \in [block : placed, pos : Nat]
<1> DEFINE i == Instruction
           y == L[at.block][at.pos]
           z == L[at.block][at.pos + 1]
<1>1. /\ i \in Item /\ y \in Cont
      /\ at.block # return_block => Fits(i, y, z, L)
      /\ at.block = return_block => i = Ret
  BY Executes
<1>2. at.block # return_block
  BY <1>1 DEF Ret
<1>3. Fits(i, y, z, L) /\ Leads(y, cont) /\ at \in [block : placed, pos : Nat]
  BY <1>1, <1>2, AboutTo
<1> HIDE DEF i, y, z
<1>4. i.op \in Op
  BY <1>1 DEF Item, i
<1>5. i.op \notin {"alloca", "br"} => Shows(y, i)
  BY <1>3, <1>4 DEF Fits, Op
<1>6. i.op \notin {"alloca", "br"} => y = cont
  BY <1>1, <1>3, <1>5, LeadsStuck DEF Shows
<1> QED
  BY <1>1, <1>2, <1>3, <1>6 DEF i, y, z

LEMMA GoesTo ==
    ASSUME IInv, TargetInv, BlockInv, phase = "decls", NEW L, Following(L),
           UNCHANGED << blocks, placed, source >>,
           NEW k \in 1..Len(Instruction.to), GoTo(Instruction.to[k]),
           cont' \in Cont, Meets(cont', Instruction.to[k], 1, L)
    PROVE  Following(L)'
<1> DEFINE b == Instruction.to[k]
<1>1. b \in placed /\ 1 \in 1..Len(blocks[b])
  BY Executes
<1>2. at' = [block |-> b, pos |-> 1] /\ Meets(cont', b, 1, L)
  BY DEF GoTo
<1> HIDE DEF b
<1>3. 1 \in Nat
  OBVIOUS
<1> QED
  BY <1>1, <1>2, <1>3, FollowsOn

LEMMA GoesOn ==
    ASSUME IInv, TargetInv, BlockInv, phase = "decls", NEW L, Following(L),
           UNCHANGED << blocks, placed, source >>,
           at \in [block : placed, pos : Nat], ~IsTerminator(Instruction), GoOn, at.block # return_block,
           cont' \in Cont,
           Leads(cont', L[at.block][at.pos + 1]) \/ Leads(L[at.block][at.pos + 1], cont')
    PROVE  Following(L)'
<1> DEFINE b == at.block
           n == at.pos + 1
<1>1. n \in 1..Len(blocks[b])
  BY Executes
<1>2. b \in placed /\ n \in Nat /\ at' = [block |-> b, pos |-> n]
  BY DEF GoOn
<1>3. Meets(cont', b, n, L)
  BY DEF Meets
<1> HIDE DEF b, n
<1> QED
  BY <1>1, <1>2, <1>3, FollowsOn

LEMMA SilentFollows ==
    ASSUME IInv, TargetInv, BlockInv, phase = "decls", WellBehaved(Stmt, Decl), NEW L, Following(L), Silent
    PROVE  Following(L)'
<1> DEFINE i == Instruction
           y == L[at.block][at.pos]
           z == L[at.block][at.pos + 1]
<1>1. /\ Ready /\ i.op \in {"alloca", "br"} /\ cont' = cont /\ UNCHANGED << blocks, placed, source >>
      /\ i.op = "br" => GoTo(i.to[1])
      /\ i.op # "br" => GoOn
  BY DEF Silent, vars
<1>2. /\ y \in Cont /\ Fits(i, y, z, L) /\ Leads(y, cont) /\ at.block # return_block
      /\ at \in [block : placed, pos : Nat]
  BY <1>1, Underway
<1>3. cont \in Cont /\ M!Visible(cont) /\ NoEmpty(Stmt)
  BY <1>1, AboutTo DEF WellBehaved, Behaved
<1>4. CASE i.op = "br"
  <2>1. 1 \in 1..Len(i.to) /\ Arrives(y, i.to[1], L)
    BY <1>2, <1>4 DEF Fits
  <2>2. Meets(cont, i.to[1], 1, L)
    BY <1>2, <1>3, <2>1, MeetsAfterBr
  <2>3. cont' \in Cont /\ Meets(cont', i.to[1], 1, L)
    BY <1>1, <1>3, <2>2
  <2> QED
    BY <1>1, <1>4, <2>1, <2>3, GoesTo
<1>5. CASE i.op = "alloca"
  <2>1. Leads(y, z) /\ ~IsTerminator(i)
    BY <1>2, <1>5 DEF Fits, IsTerminator
  <2>2. Leads(z, cont)
    BY <1>2, <1>3, <2>1, LeadsSame
  <2>3. cont' \in Cont /\ Leads(z, cont') /\ GoOn
    BY <1>1, <1>3, <1>5, <2>2
  <2> QED
    BY <1>1, <1>2, <2>1, <2>3, GoesOn
<1> QED
  BY <1>1, <1>4, <1>5

LEMMA PlainFollows ==
    ASSUME IInv, TargetInv, BlockInv, phase = "decls", WellBehaved(Stmt, Decl), NEW L, Following(L), Plain
    PROVE  Following(L)'
<1> DEFINE i == Instruction
           y == L[at.block][at.pos]
           z == L[at.block][at.pos + 1]
<1>1. /\ Ready /\ i.op \in {"effect", "store"} /\ cont' = M!Rest(cont) /\ GoOn
      /\ UNCHANGED << blocks, placed, source >>
  BY DEF Plain, Executing, vars
<1>2. /\ Fits(i, y, z, L) /\ y = cont /\ at.block # return_block
      /\ at \in [block : placed, pos : Nat]
  BY <1>1, Underway
<1>3. Leads(M!Rest(y), z) /\ ~IsTerminator(i)
  BY <1>1, <1>2 DEF Fits, IsTerminator
<1>4. M!Rest(cont) \in Cont
  BY <1>1, AboutTo DEF M!Rest
<1>5. cont' \in Cont /\ Leads(cont', z)
  BY <1>1, <1>2, <1>3, <1>4
<1> QED
  BY <1>1, <1>2, <1>3, <1>5, GoesOn

LEMMA CheckFollows ==
    ASSUME IInv, TargetInv, BlockInv, phase = "decls", WellBehaved(Stmt, Decl), NEW L, Following(L), Check
    PROVE  Following(L)'
<1> DEFINE i == Instruction
           y == L[at.block][at.pos]
           z == L[at.block][at.pos + 1]
<1>1. Ready /\ i.op = "check" /\ UNCHANGED << blocks, placed, source >>
  BY DEF Check, Executing, vars
<1>2. PICK negative \in BOOLEAN :
         GoTo(i.to[IF negative THEN 1 ELSE 2]) /\ cont' = M!Checked(cont, negative)
  BY DEF Check
<1>3. Fits(i, y, z, L) /\ y = cont
  BY <1>1, Underway
<1>4. /\ Len(i.to) = 2
      /\ Arrives(M!Checked(y, TRUE), i.to[1], L) /\ Arrives(M!Checked(y, FALSE), i.to[2], L)
  BY <1>1, <1>3 DEF Fits
<1>5. M!Checked(cont, TRUE) \in Cont /\ M!Checked(cont, FALSE) \in Cont
  <2>1. Head(cont).stmt \in Stmt /\ Tail(cont) \in Cont
    BY <1>1, AboutTo DEF Work
  <2> QED
    BY <2>1, AbortIs DEF M!Checked
<1>6. 1 \in 1..Len(i.to) /\ 2 \in 1..Len(i.to)
  BY <1>4
<1>7. CASE negative
  <2>1. GoTo(i.to[1]) /\ cont' = M!Checked(y, TRUE)
    BY <1>2, <1>3, <1>7
  <2>2. cont' \in Cont /\ Meets(cont', i.to[1], 1, L)
    BY <1>3, <1>4, <1>5, <2>1, MeetsAtOnce
  <2> QED
    BY <1>1, <1>6, <2>1, <2>2, GoesTo
<1>8. CASE ~negative
  <2>1. GoTo(i.to[2]) /\ cont' = M!Checked(y, FALSE)
    BY <1>2, <1>3, <1>8
  <2>2. cont' \in Cont /\ Meets(cont', i.to[2], 1, L)
    BY <1>3, <1>4, <1>5, <2>1, MeetsAtOnce
  <2> QED
    BY <1>1, <1>6, <2>1, <2>2, GoesTo
<1> QED
  BY <1>7, <1>8

LEMMA TestFollows ==
    ASSUME IInv, TargetInv, BlockInv, phase = "decls", WellBehaved(Stmt, Decl), NEW L, Following(L), Test
    PROVE  Following(L)'
<1> DEFINE i == Instruction
           y == L[at.block][at.pos]
           z == L[at.block][at.pos + 1]
<1>1. Ready /\ i.op = "condbr" /\ UNCHANGED << blocks, placed, source >>
  BY DEF Test, Executing, vars
<1>2. PICK holds \in BOOLEAN :
         GoTo(i.to[IF holds THEN 1 ELSE 2]) /\ cont' = M!Tested(cont, holds)
  BY DEF Test
<1>3. Fits(i, y, z, L) /\ y = cont
  BY <1>1, Underway
<1>4. /\ Len(i.to) = 2
      /\ M!Tested(y, TRUE) \in Cont /\ M!Tested(y, FALSE) \in Cont
      /\ Arrives(M!Tested(y, TRUE), i.to[1], L) /\ Arrives(M!Tested(y, FALSE), i.to[2], L)
  BY <1>1, <1>3 DEF Fits
<1>5. 1 \in 1..Len(i.to) /\ 2 \in 1..Len(i.to)
  BY <1>4
<1>6. CASE holds
  <2>1. GoTo(i.to[1]) /\ cont' = M!Tested(y, TRUE)
    BY <1>2, <1>3, <1>6
  <2>2. cont' \in Cont /\ Meets(cont', i.to[1], 1, L)
    BY <1>4, <2>1, MeetsAtOnce
  <2> QED
    BY <1>1, <1>5, <2>1, <2>2, GoesTo
<1>7. CASE ~holds
  <2>1. GoTo(i.to[2]) /\ cont' = M!Tested(y, FALSE)
    BY <1>2, <1>3, <1>7
  <2>2. cont' \in Cont /\ Meets(cont', i.to[2], 1, L)
    BY <1>4, <2>1, MeetsAtOnce
  <2> QED
    BY <1>1, <1>5, <2>1, <2>2, GoesTo
<1> QED
  BY <1>6, <1>7
-----------------------------------------------------------------------------
(* The compiler and the machine together.                                   *)

RunningInv ==
    /\ running \in {"no", "yes", "done"}
    /\ running # "no" => phase = "decls"

\* Labels that fit exist all along; when the code runs they lead the way.
FollowInv ==
    /\ running = "no" => Built
    /\ running = "yes" => \E L : Following(L)

\* The compiler's steps are those of CminusBuilder, and the machine leaves its
\* variables alone.
LEMMA RunsTheBuilder == RunSpec => Spec
<1>1. RunInit => Init
  BY DEF RunInit
<1>2. [RunNext]_<< vars, runvars >> => [Next]_vars
  BY DEF RunNext, Build, Start, Unfold, Silent, Plain, Check, Test, Finish, Next
<1> QED
  BY <1>1, <1>2, PTL DEF RunSpec, Spec

LEMMA MachineSteps ==
    ASSUME Start \/ Unfold \/ Silent \/ Plain \/ Check \/ Test \/ Finish
           \/ (running = "done" /\ UNCHANGED << vars, runvars >>) \/ UNCHANGED << vars, runvars >>
    PROVE  phase' = phase /\ source' = source
  BY DEF Start, Unfold, Silent, Plain, Check, Test, Finish, vars, runvars

LEMMA RunningKept ==
    ASSUME IInv, RunningInv, SourceSet, [RunNext]_<< vars, runvars >>
    PROVE  RunningInv' /\ SourceSet'
<1>1. CASE Build
  <2>1. running = "no" /\ running' = running
    BY <1>1 DEF Build
  <2> QED
    BY <1>1, <2>1, BuildSource DEF RunningInv
<1>2. CASE Start
  BY <1>2, MachineSteps DEF Start, RunningInv, SourceSet
<1>3. CASE Unfold \/ Silent \/ Plain \/ Check \/ Test
  <2>1. running' = running
    BY <1>3 DEF Unfold, Silent, Plain, Check, Test
  <2> QED
    BY <1>3, <2>1, MachineSteps DEF RunningInv, SourceSet
<1>4. CASE Finish
  <2>1. running = "yes" /\ running' = "done"
    BY <1>4 DEF Finish, Executing, Ready
  <2> QED
    BY <1>4, <2>1, MachineSteps DEF RunningInv, SourceSet
<1>5. CASE UNCHANGED << vars, runvars >>
  BY <1>5, MachineSteps DEF RunningInv, SourceSet, runvars
<1> QED
  BY <1>1, <1>2, <1>3, <1>4, <1>5 DEF RunNext

LEMMA FollowKept ==
    ASSUME IInv, TargetInv, BlockInv, StoreInv, WellBehaved(Stmt, Decl), RunningInv, SourceSet, FollowInv,
           [RunNext]_<< vars, runvars >>
    PROVE  FollowInv'
<1>1. CASE Build
  <2>1. running = "no" /\ running' = running
    BY <1>1 DEF Build
  <2>2. Built'
    BY <1>1, <2>1, BuildKeeps DEF FollowInv
  <2> QED
    BY <2>1, <2>2 DEF FollowInv
<1>2. CASE Start
  <2>1. running = "no" /\ running' = "yes"
    BY <1>2 DEF Start
  <2>2. \E L : Following(L)'
    BY <1>2, <2>1, StartFollows DEF FollowInv
  <2> QED
    BY <2>1, <2>2 DEF FollowInv
<1>3. CASE Unfold \/ Silent \/ Plain \/ Check \/ Test
  <2>1. running = "yes" /\ running' = running
    BY <1>3 DEF Unfold, Silent, Plain, Check, Test, Executing, Ready
  <2>2. phase = "decls"
    BY <2>1 DEF RunningInv
  <2>3. PICK L : Following(L)
    BY <2>1 DEF FollowInv
  <2>4. Following(L)'
    BY <1>3, <2>2, <2>3, UnfoldFollows, SilentFollows, PlainFollows, CheckFollows, TestFollows
  <2> QED
    BY <2>1, <2>4 DEF FollowInv
<1>4. CASE Finish
  <2>1. running' = "done"
    BY <1>4 DEF Finish
  <2> QED
    BY <2>1 DEF FollowInv
<1>5. CASE UNCHANGED << vars, runvars >>
  <2>1. UNCHANGED << blocks, placed, source, cont, at, running, phase, stack, curr_block >>
    BY <1>5 DEF vars, runvars
  <2>2. Built' <=> Built
    BY <2>1 DEF Built
  <2>3. \A L : Following(L)' <=> Following(L)
    BY <2>1 DEF Following
  <2> QED
    BY <2>1, <2>2, <2>3 DEF FollowInv
<1> QED
  BY <1>1, <1>2, <1>3, <1>4, <1>5 DEF RunNext

LEMMA RunningInvariance == RunSpec => [](RunningInv /\ SourceSet)
<1>1. RunInit => RunningInv /\ SourceSet
  BY DEF RunInit, RunningInv, SourceSet
<1>2. IInv /\ RunningInv /\ SourceSet /\ [RunNext]_<< vars, runvars >> => RunningInv' /\ SourceSet'
  BY RunningKept
<1> QED
  BY <1>1, <1>2, RunsTheBuilder, Invariance, PTL DEF RunSpec

\* A test is one of an if or a while.
Apt == { w \in [do : M!Doing, stmt : Stmt] : w.do = "test" => w.stmt.kind \in {"if", "while"} }

LEMMA AptDo ==
    ASSUME NEW s \in Stmt
    PROVE  /\ \A what \in M!Doing \ {"test"} : M!Do(what, s) \in Apt
           /\ s.kind \in {"if", "while"} => M!Do("test", s) \in Apt
  BY DEF M!Do, M!Doing, Apt

\* Seen or not, what is unfolded is of the program, for every statement.
LEMMA UnfoldedApt ==
    ASSUME NEW x \in Seq(Apt), x # << >> PROVE M!Unfolded(x) \in Seq(Apt)
<1> DEFINE s == Head(x).stmt
           t == Tail(x)
           q == M!Indices(s)
<1>1. s \in Stmt /\ t \in Seq(Apt)
  <2>1. Head(x) \in Apt /\ t \in Seq(Apt)
    BY HeadTailProperties
  <2> QED
    BY <2>1 DEF Apt
<1>2. s.kind \in Kind /\ s.subscripts \in Nat
  BY <1>1, StmtAssumption DEF IsStmt
<1>3. /\ M!Do("index", s) \in Apt /\ M!Do("effect", s) \in Apt /\ M!Do("result", s) \in Apt
      /\ M!Do("leave", s) \in Apt
  BY <1>1, AptDo DEF M!Doing
<1>4. q \in Seq(Apt)
  <2>1. q \in [1..s.subscripts -> Apt]
    BY <1>3 DEF M!Indices
  <2> HIDE DEF q
  <2> QED
    BY <1>2, <2>1, TableIsSeq
<1>5. \A w \in Apt : << w >> \in Seq(Apt)
  OBVIOUS
<1>6. << >> \in Seq(Apt)
  BY EmptySeq
<1>7. \A u \in Seq(Apt), v \in Seq(Apt) : u \o v \in Seq(Apt)
  BY ConcatProperties
<1> HIDE DEF q, t
<1>8. CASE s.kind = "expr"
  <2>1. M!Unfolded(x) = q \o << M!Do("effect", s) >> \o t
    BY <1>8 DEF M!Unfolded, q, t
  <2> QED
    BY <1>1, <1>3, <1>4, <1>5, <1>7, <2>1
<1>9. CASE s.kind = "empty"
  BY <1>1, <1>9 DEF M!Unfolded, t
<1>10. CASE s.kind = "compound"
  <2> DEFINE r == M!Statements(s.list)
  <2>1. M!Unfolded(x) = r \o t
    BY <1>10 DEF M!Unfolded, t
  <2>2. s.list \in Seq(Stmt)
    BY <1>1, <1>10, StmtAssumption DEF IsStmt
  <2>3. Len(s.list) \in Nat /\ \A i \in 1..Len(s.list) : s.list[i] \in Stmt
    BY <2>2, LenProperties, ElementOfSeq
  <2>4. r \in [1..Len(s.list) -> Apt]
    BY <2>3, AptDo DEF M!Statements, M!Doing
  <2> HIDE DEF r
  <2>5. r \in Seq(Apt)
    BY <2>3, <2>4, TableIsSeq
  <2> QED
    BY <1>1, <1>7, <2>1, <2>5
<1>11. CASE s.kind \in {"if", "while"}
  <2>1. M!Unfolded(x) = q \o << M!Do("test", s) >> \o t
    BY <1>11 DEF M!Unfolded, q, t
  <2>2. M!Do("test", s) \in Apt
    BY <1>1, <1>11, AptDo
  <2> QED
    BY <1>1, <1>4, <1>5, <1>7, <2>1, <2>2
<1>12. CASE s.kind = "return"
  <2> DEFINE r == IF s.value THEN << M!Do("result", s) >> ELSE << >>
  <2>1. M!Unfolded(x) = q \o r \o << M!Do("leave", s) >>
    BY <1>12 DEF M!Unfolded, q
  <2>2. r \in Seq(Apt)
    BY <1>3, <1>5, <1>6
  <2> HIDE DEF r
  <2> QED
    BY <1>3, <1>4, <1>5, <1>7, <2>1, <2>2
<1> QED
  BY <1>2, <1>8, <1>9, <1>10, <1>11, <1>12 DEF Kind

\* The same of what follows a test.
LEMMA TestedApt ==
    ASSUME NEW x \in Seq(Apt), x # << >>, Head(x).do = "test", NEW holds
    PROVE  M!Tested(x, holds) \in Seq(Apt)
<1> DEFINE s == Head(x).stmt
           t == Tail(x)
<1>1. s \in Stmt /\ t \in Seq(Apt) /\ s.kind \in {"if", "while"}
  <2>1. Head(x) \in Apt /\ t \in Seq(Apt)
    BY HeadTailProperties
  <2> QED
    BY <2>1 DEF Apt
<1>2. /\ s.kind = "while" => s.body \in Stmt
      /\ s.kind = "if" => s.then \in Stmt /\ s.else \in Stmt \cup {NoStmt}
  BY <1>1, StmtAssumption DEF IsStmt
<1>3. \A u \in Stmt : M!Do("stmt", u) \in Apt
  BY AptDo DEF M!Doing
<1>4. \A u \in Stmt : << M!Do("stmt", u) >> \o t \in Seq(Apt)
  BY <1>1, <1>3, ConcatProperties
<1>5. \A u \in Stmt, v \in Stmt : << M!Do("stmt", u), M!Do("stmt", v) >> \o t \in Seq(Apt)
  <2>1. \A u \in Apt, v \in Apt : << u, v >> \in Seq(Apt)
    OBVIOUS
  <2> QED
    BY <1>1, <1>3, <2>1, ConcatProperties
<1> QED
  BY <1>1, <1>2, <1>4, <1>5 DEF M!Tested

\* Where the machine is.
Placed(a) == a \in [block : placed, pos : Nat] /\ a.pos \in 1..(Len(blocks[a.block]) + 1)

MachineInv ==
    /\ cont \in Seq(Apt)
    /\ source # NoStmt => entrybb \in placed
    /\ running # "no" => Placed(at)

LEMMA BuildMachine ==
    ASSUME IInv, MachineInv, Build PROVE MachineInv'
<1>1. running' = "no" /\ cont' = cont
  BY DEF Build
<1>2. source' # NoStmt => entrybb \in placed'
  <2>1. CASE fun_declaration_begin
    BY <2>1 DEF fun_declaration_begin
  <2>2. CASE Handling
    BY <2>2, HandlingInside DEF Build, MachineInv
  <2>3. CASE visit_var_declaration
    BY <2>3 DEF visit_var_declaration, emitting, Build, MachineInv
  <2>4. CASE fun_declaration_end
    BY <2>4 DEF fun_declaration_end, Build, MachineInv
  <2>5. CASE visit_empty_stmt
    BY <2>5 DEF visit_empty_stmt, emitting, Build, MachineInv
  <2>6. CASE return_stmt_null
    BY <2>6 DEF return_stmt_null, emitting, Build, MachineInv
  <2> QED
    BY <2>1, <2>2, <2>3, <2>4, <2>5, <2>6 DEF Build, Walk, Handling
<1> QED
  BY <1>1, <1>2 DEF MachineInv

LEMMA PlacedStart ==
    ASSUME IInv, NEW b \in placed
    PROVE  Placed([block |-> b, pos |-> 1]) /\ blocks[b] \in Code /\ Len(blocks[b]) \in Nat
<1>1. blocks \in Seq(Code) /\ b \in 1..Len(blocks)
  BY DEF IInv, EmitInv
<1>2. blocks[b] \in Code /\ Len(blocks[b]) \in Nat
  BY <1>1, ElementOfSeq, LenProperties DEF Code
<1>3. 1 \in 1..(Len(blocks[b]) + 1)
  BY <1>2
<1> QED
  BY <1>2, <1>3 DEF Placed

\* The instruction the machine executes, and where it leads.
LEMMA PlacedNext ==
    ASSUME IInv, TargetInv, phase = "decls", Placed(at), Defined
    PROVE  /\ Instruction.op = "br" => Instruction.to[1] \in placed
           /\ Instruction.op \in {"condbr", "check"} =>
                 Instruction.to[1] \in placed /\ Instruction.to[2] \in placed
           /\ at.pos + 1 \in 1..(Len(blocks[at.block]) + 1)
<1> DEFINE code == blocks[at.block]
           n == at.pos
           i == code[n]
<1>1. at.block \in placed /\ code \in Code /\ Len(code) \in Nat
  BY PlacedStart DEF Placed
<1>2. n \in 1..Len(code)
  <2>1. n \in 1..(Len(code) + 1) /\ n <= Len(code)
    BY DEF Placed, Defined
  <2> QED
    BY <1>1, <2>1
<1>3. i \in Item
  BY <1>1, <1>2, ElementOfSeq DEF Code
<1>4. \A k \in 1..Len(i.to) : i.to[k] \in placed
  BY <1>1, <1>2 DEF TargetInv, BranchesStayInside
<1>5. Len(i.to) = Arity(i.op)
  BY <1>3 DEF Item
<1>6. n + 1 \in 1..(Len(code) + 1)
  <2> HIDE DEF n, code
  <2> QED BY <1>1, <1>2
<1>7. i.op = "br" => 1 \in 1..Len(i.to)
  BY <1>5, OpTypes
<1>8. i.op \in {"condbr", "check"} => 1 \in 1..Len(i.to) /\ 2 \in 1..Len(i.to)
  BY <1>5, OpTypes
<1> QED
  BY <1>4, <1>6, <1>7, <1>8 DEF Instruction

\* The machine at work: what there is to do keeps its types, and it stays at
\* instructions of blocks of the function.
LEMMA MachineMoves ==
    ASSUME IInv, TargetInv, RunningInv, MachineInv, Unfold \/ Silent \/ Plain \/ Check \/ Test \/ Finish
    PROVE  MachineInv'
<1>1. running = "yes" /\ UNCHANGED << source, blocks, placed >>
  BY DEF Unfold, Silent, Plain, Check, Test, Finish, Executing, Ready, vars
<1>2. phase = "decls" /\ Placed(at) /\ cont \in Seq(Apt)
  BY <1>1 DEF RunningInv, MachineInv
<1>3. \A b \in placed : Placed([block |-> b, pos |-> 1])
  BY PlacedStart
<1>4. cont # << >> => Head(cont).stmt \in Stmt /\ Tail(cont) \in Seq(Apt)
  BY <1>2, HeadTailProperties DEF Apt
<1>5. Defined => Placed([at EXCEPT !.pos = @ + 1])
  <2> SUFFICES ASSUME Defined PROVE Placed([at EXCEPT !.pos = @ + 1])
    OBVIOUS
  <2>1. at.pos + 1 \in 1..(Len(blocks[at.block]) + 1)
    BY <1>2, PlacedNext
  <2> QED
    BY <1>2, <2>1 DEF Placed
<1>6. Ready => cont # << >>
  BY DEF Ready, M!Visible
<1>7. cont' \in Seq(Apt) /\ Placed(at)'
  <2>1. CASE Unfold
    BY <1>1, <1>2, <2>1, UnfoldedApt DEF Unfold, Placed
  <2>2. CASE Silent
    <3>1. Defined /\ cont' = cont
      BY <2>2 DEF Silent
    <3>2. CASE Instruction.op = "br"
      BY <1>1, <1>2, <1>3, <2>2, <3>1, <3>2, PlacedNext DEF Silent, GoTo, Placed
    <3>3. CASE Instruction.op # "br"
      BY <1>1, <1>2, <1>5, <2>2, <3>1, <3>3 DEF Silent, GoOn, Placed
    <3> QED
      BY <3>2, <3>3
  <2>3. CASE Plain
    BY <1>1, <1>4, <1>5, <1>6, <2>3 DEF Plain, Executing, GoOn, M!Rest, Placed
  <2>4. CASE Check
    <3>1. PICK negative \in BOOLEAN :
             GoTo(Instruction.to[IF negative THEN 1 ELSE 2]) /\ cont' = M!Checked(cont, negative)
      BY <2>4 DEF Check
    <3>2. Instruction.to[IF negative THEN 1 ELSE 2] \in placed
      BY <1>2, <2>4, PlacedNext DEF Check, Executing
    <3>3. << M!Do("abort", Head(cont).stmt) >> \in Seq(Apt)
      <4>1. M!Do("abort", Head(cont).stmt) \in Apt
        BY <1>4, <1>6, <2>4, AptDo DEF Check, Executing, M!Doing
      <4> QED
        BY <4>1
    <3>4. cont' \in Seq(Apt)
      BY <1>4, <1>6, <2>4, <3>1, <3>3 DEF Check, Executing, M!Checked
    <3> QED
      BY <1>1, <1>3, <3>1, <3>2, <3>4 DEF GoTo, Placed
  <2>5. CASE Test
    <3>1. PICK holds \in BOOLEAN :
             GoTo(Instruction.to[IF holds THEN 1 ELSE 2]) /\ cont' = M!Tested(cont, holds)
      BY <2>5 DEF Test
    <3>2. Instruction.to[IF holds THEN 1 ELSE 2] \in placed
      BY <1>2, <2>5, PlacedNext DEF Test, Executing
    <3>3. Head(cont).do = "test"
      BY <2>5 DEF Test, Executing, Together, Seen
    <3>4. cont' \in Seq(Apt)
      BY <1>2, <1>6, <2>5, <3>1, <3>3, TestedApt DEF Test, Executing
    <3> QED
      BY <1>1, <1>3, <3>1, <3>2, <3>4 DEF GoTo, Placed
  <2>6. CASE Finish
    BY <1>1, <1>2, <2>6 DEF Finish, Placed
  <2> QED
    BY <2>1, <2>2, <2>3, <2>4, <2>5, <2>6
<1> QED
  BY <1>1, <1>7 DEF MachineInv

LEMMA StartMachine ==
    ASSUME IInv, MachineInv, SourceSet, Start PROVE MachineInv'
<1>1. /\ source # NoStmt /\ cont' = << M!Do("stmt", source) >> /\ at' = [block |-> entrybb, pos |-> 1]
      /\ UNCHANGED << source, blocks, placed >>
  BY DEF Start, vars
<1>2. M!Do("stmt", source) \in Apt
  BY <1>1, AptDo DEF SourceSet, M!Doing
<1>3. cont' \in Seq(Apt)
  BY <1>1, <1>2
<1>4. entrybb \in placed
  BY <1>1 DEF MachineInv
<1>5. Placed(at)'
  BY <1>1, <1>4, PlacedStart DEF Placed
<1> QED
  BY <1>1, <1>3, <1>4, <1>5 DEF MachineInv

LEMMA MachineInvariance == RunSpec => []MachineInv
<1>1. RunInit => MachineInv
  BY EmptySeq DEF RunInit, MachineInv
<1>2. IInv /\ TargetInv /\ RunningInv /\ SourceSet /\ MachineInv /\ [RunNext]_<< vars, runvars >> => MachineInv'
  <2> SUFFICES ASSUME IInv, TargetInv, RunningInv, SourceSet, MachineInv, [RunNext]_<< vars, runvars >>
               PROVE  MachineInv'
    OBVIOUS
  <2>1. CASE UNCHANGED << vars, runvars >>
    BY <2>1 DEF vars, runvars, MachineInv, Placed
  <2> QED
    BY <2>1, BuildMachine, StartMachine, MachineMoves DEF RunNext
<1> QED
  BY <1>1, <1>2, RunsTheBuilder, Invariance, TargetInvariance, RunningInvariance, PTL DEF RunSpec

\* Whatever the program, the source has only statements of it to do, and the
\* machine is in a block that was inserted into the function, at one of its
\* instructions or just past the last: every branch the visitor fills in, late or
\* not, leads to a place in the function.
THEOREM RunTypeCorrect == RunSpec => []RunTypeOK
<1>1. RunningInv /\ SourceSet /\ MachineInv => RunTypeOK
  <2> SUFFICES ASSUME RunningInv, SourceSet, MachineInv PROVE RunTypeOK
    OBVIOUS
  <2>1. cont \in Seq([do : M!Doing, stmt : Stmt])
    <3> DEFINE W == [do : M!Doing, stmt : Stmt]
    <3>1. \A w \in Apt : w \in W
      BY DEF Apt
    <3> HIDE DEF W
    <3>2. cont \in Seq(Apt)
      BY DEF MachineInv
    <3>3. Len(cont) \in Nat /\ cont \in [1..Len(cont) -> Apt]
      BY <3>2, LenProperties, ElementOfSeq
    <3>4. cont \in [1..Len(cont) -> W]
      BY <3>1, <3>3
    <3>5. cont \in Seq(W)
      BY <3>3, <3>4, TableIsSeq
    <3> QED
      BY <3>5 DEF W
  <2> QED
    BY <2>1 DEF RunningInv, SourceSet, MachineInv, Placed, RunTypeOK
<1> QED
  BY <1>1, RunningInvariance, MachineInvariance, PTL

\* The code emitted for a function of a well-behaved program does what its
\* source says, in the same order and however the tests and the subscripts come
\* out: at every visible step both are about to do the same thing, the machine
\* never runs off the end of a block, and a return or a negative subscript ends
\* both.
THEOREM CodeDoesWhatTheSourceSays ==
    ASSUME WellBehaved(Stmt, Decl) PROVE RunSpec => []DoesWhatTheSourceSays
<1>1. RunInit => FollowInv
  BY DEF RunInit, Init, FollowInv, Built
<1>2. IInv /\ TargetInv /\ BlockInv /\ StoreInv /\ RunningInv /\ SourceSet /\ FollowInv
         /\ [RunNext]_<< vars, runvars >> => FollowInv'
  BY FollowKept
<1>3. IInv /\ TargetInv /\ BlockInv /\ RunningInv /\ FollowInv => DoesWhatTheSourceSays
  <2> SUFFICES ASSUME IInv, TargetInv, BlockInv, RunningInv, FollowInv, Ready
               PROVE  Together \/ (Defined /\ Instruction.op \in {"alloca", "br"})
    BY DEF DoesWhatTheSourceSays
  <2>1. running = "yes"
    BY DEF Ready
  <2>2. phase = "decls"
    BY <2>1 DEF RunningInv
  <2>3. PICK L : Following(L)
    BY <2>1 DEF FollowInv
  <2> QED
    BY <2>2, <2>3, BothDo
<1> QED
  BY <1>1, <1>2, <1>3, RunsTheBuilder, Invariance, TargetInvariance, BlockInvariance,
     StoreInvariance, RunningInvariance, PTL DEF RunSpec
=============================================================================
