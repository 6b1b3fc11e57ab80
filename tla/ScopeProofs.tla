---------------------------- MODULE ScopeProofs ----------------------------
(***************************************************************************)
(* Proofs about class Scope: it keeps its type, and it implements block    *)
(* structure (module Bindings) for any names, values and depth.            *)
(***************************************************************************)
EXTENDS Scope, SharedLemmas

\* A name has at most one place where the search stops, so the answer is the
\* binding at that place (Scope::find).
LEMMA FindAt ==
    ASSUME NEW s, NEW k \in Nat, NEW n, NEW i \in 1..k, StopsAt(s, k, n, i)
    PROVE  FindFrom(s, k, n) = s[i][n]
<1>1. \A j \in 1..k : StopsAt(s, k, n, j) => j = i
  BY SMT DEF StopsAt
<1>2. (CHOOSE j \in 1..k : StopsAt(s, k, n, j)) = i
  BY <1>1
<1> QED
  BY <1>2 DEF FindFrom

\* The search from the k-th map reads only the first k maps.
LEMMA FindCongruence ==
    ASSUME NEW s, NEW t, NEW k \in Nat, NEW n,
           \A i \in 1..k : s[i] = t[i]
    PROVE  FindFrom(s, k, n) = FindFrom(t, k, n)
<1>1. \A i \in 1..k : StopsAt(s, k, n, i) <=> StopsAt(t, k, n, i)
  BY SMT DEF StopsAt
<1>2. CASE \E i \in 1..k : StopsAt(s, k, n, i)
  <2>1. PICK i \in 1..k : StopsAt(s, k, n, i)
    BY <1>2
  <2>2. FindFrom(s, k, n) = s[i][n] /\ FindFrom(t, k, n) = t[i][n]
    BY <1>1, <2>1, FindAt
  <2> QED
    BY <2>2
<1>3. CASE ~ \E i \in 1..k : StopsAt(s, k, n, i)
  BY <1>1, <1>3 DEF FindFrom
<1> QED
  BY <1>2, <1>3

\* Where the innermost map does not bind the name, the search goes on in the
\* enclosing ones.
LEMMA FindOutwards ==
    ASSUME NEW s, NEW k \in Nat, NEW n, n \notin DOMAIN s[k + 1]
    PROVE  FindFrom(s, k + 1, n) = FindFrom(s, k, n)
<1>1. \A i \in 1..(k + 1) : StopsAt(s, k + 1, n, i) <=> i \in 1..k /\ StopsAt(s, k, n, i)
  BY SMT DEF StopsAt
<1>2. CASE \E i \in 1..k : StopsAt(s, k, n, i)
  <2>1. PICK i \in 1..k : StopsAt(s, k, n, i)
    BY <1>2
  <2>2. i \in 1..(k + 1) /\ StopsAt(s, k + 1, n, i)
    BY <1>1, <2>1
  <2> QED
    BY <2>1, <2>2, FindAt
<1>3. CASE ~ \E i \in 1..k : StopsAt(s, k, n, i)
  BY <1>1, <1>3 DEF FindFrom
<1> QED
  BY <1>2, <1>3

-----------------------------------------------------------------------------
LEMMA InitType == Init => TypeOK
  BY ScopeAssumption DEF Init, TypeOK, ScopeMap, Reply

\* find answers a value or nullptr.
LEMMA FindType ==
    ASSUME TypeOK, NEW name \in Name
    PROVE  Find(inner, name) \in Value \cup {NoValue}
<1> DEFINE top == Len(inner)
<1>0. top \in Nat
  BY LenProperties DEF TypeOK
<1>1. CASE \E i \in 1..top : StopsAt(inner, top, name, i)
  <2>1. PICK i \in 1..top : StopsAt(inner, top, name, i)
    BY <1>1
  <2>2. FindFrom(inner, top, name) = inner[i][name]
    BY <1>0, <2>1, FindAt
  <2>3. inner[i] \in ScopeMap
    BY DEF TypeOK
  <2>4. PICK N \in SUBSET Name : inner[i] \in [N -> Value]
    BY <2>3 DEF ScopeMap
  <2>5. name \in N
    BY <2>1, <2>4 DEF StopsAt
  <2> QED
    BY <2>2, <2>4, <2>5 DEF Find
<1>2. CASE ~ \E i \in 1..top : StopsAt(inner, top, name, i)
  BY <1>2 DEF FindFrom, Find
<1> QED
  BY <1>1, <1>2

LEMMA ExitedProperties ==
    ASSUME NEW S, NEW s \in Seq(S), Len(s) > 0
    PROVE  /\ Exited(s) \in Seq(S)
           /\ Len(Exited(s)) = Len(s) - 1
           /\ \A i \in 1..(Len(s) - 1) : Exited(s)[i] = s[i]
  BY FrontProperties DEF Exited

LEMMA PushedType ==
    ASSUME TypeOK, NEW name \in Name, NEW val \in Value
    PROVE  /\ Pushed(inner, name, val) \in Seq(ScopeMap)
           /\ Len(Pushed(inner, name, val)) = Len(inner)
<1> DEFINE top == inner[Len(inner)]
           new == [n \in DOMAIN top \cup {name} |-> IF n = name THEN val ELSE top[n]]
<1>1. top \in ScopeMap
  BY DEF TypeOK
<1>2. PICK N \in SUBSET Name : top \in [N -> Value]
  BY <1>1 DEF ScopeMap
<1>3. new \in [N \cup {name} -> Value] /\ N \cup {name} \in SUBSET Name
  BY <1>2
<1>4. new \in ScopeMap
  BY <1>3 DEF ScopeMap
<1> HIDE DEF new
<1>5. /\ [inner EXCEPT ![Len(inner)] = new] \in Seq(ScopeMap)
      /\ Len([inner EXCEPT ![Len(inner)] = new]) = Len(inner)
  BY <1>4 DEF TypeOK
<1> QED
  BY <1>5 DEF Pushed, Innermost, new, TypeOK

\* The scope stack keeps its type, whatever is pushed (class Scope).
THEOREM TypeCorrect == Spec => []TypeOK
<1>1. TypeOK /\ [Next]_vars => TypeOK'
  <2> SUFFICES ASSUME TypeOK, [Next]_vars PROVE TypeOK'
    OBVIOUS
  <2>1. CASE enter
    <3>1. << >> \in ScopeMap
      <4>1. << >> \in [{} -> Value]
        OBVIOUS
      <4> QED
        BY <4>1 DEF ScopeMap
    <3> QED
      BY <2>1, <3>1 DEF enter, Entered, TypeOK, Reply
  <2>2. CASE exit
    <3>1. inner \in Seq(ScopeMap) /\ Len(inner) > 0 /\ Len(inner) # 1 /\ Len(inner) \in Nat
      BY <2>2, LenProperties DEF exit, InGlobal, TypeOK
    <3>2. Exited(inner) \in Seq(ScopeMap) /\ Len(Exited(inner)) = Len(inner) - 1
      BY <3>1, ExitedProperties
    <3> QED
      BY <2>2, <3>1, <3>2 DEF exit, TypeOK, Reply
  <2>3. CASE \E name \in Name, val \in Value : push(name, val)
    <3>1. PICK name \in Name, val \in Value : push(name, val)
      BY <2>3
    <3>2. inner' \in Seq(ScopeMap) /\ Len(inner') > 0
      BY <3>1, PushedType DEF push, TypeOK
    <3>3. PushSucceeds(inner, name) \in BOOLEAN
      BY DEF PushSucceeds
    <3>4. reply' \in Reply
      BY <3>1, <3>3 DEF push, Reply
    <3> QED
      BY <3>2, <3>4 DEF TypeOK
  <2>4. CASE \E name \in Name : find(name)
    <3>1. PICK name \in Name : find(name)
      BY <2>4
    <3>2. reply' \in Reply
      BY <3>1, FindType DEF find, Reply
    <3> QED
      BY <3>1, <3>2 DEF find, TypeOK
  <2>5. CASE UNCHANGED vars
    BY <2>5 DEF vars, TypeOK
  <2> QED
    BY <2>1, <2>2, <2>3, <2>4, <2>5 DEF Next
<1> QED
  BY <1>1, InitType, PTL DEF Spec
-----------------------------------------------------------------------------
(* The tables the maps stand for.                                          *)

LEMMA LenOfTables ==
    ASSUME NEW S, NEW s \in Seq(S)
    PROVE  /\ Len(Tables(s)) = Len(s)
           /\ Len(Domains(s)) = Len(s)
  BY DEF Tables, Domains

\* enter copies the current table: the new, empty map hides nothing.
LEMMA EnterOpens ==
    ASSUME NEW S, NEW s \in Seq(S), << >> \in S, Len(s) > 0
    PROVE  /\ Tables(Entered(s)) = Append(Tables(s), Tables(s)[Len(s)])
           /\ Domains(Entered(s)) = Append(Domains(s), {})
<1> DEFINE t == Entered(s)
<1>0. Len(s) \in Nat
  BY LenProperties
<1>1. /\ t \in Seq(S)
      /\ Len(t) = Len(s) + 1
      /\ \A i \in 1..Len(s) : t[i] = s[i]
      /\ t[Len(s) + 1] = << >>
  BY DEF Entered
<1> HIDE DEF t
<1>2. \A k \in 1..Len(s), n \in Name : FindFrom(t, k, n) = FindFrom(s, k, n)
  <2> TAKE k \in 1..Len(s), n \in Name
  <2>1. k \in Nat /\ \A i \in 1..k : t[i] = s[i]
    BY <1>1
  <2> QED
    BY <2>1, FindCongruence
<1>3. \A n \in Name : FindFrom(t, Len(s) + 1, n) = FindFrom(s, Len(s), n)
  <2> TAKE n \in Name
  <2>1. n \notin DOMAIN t[Len(s) + 1]
    BY <1>1
  <2>2. FindFrom(t, Len(s) + 1, n) = FindFrom(t, Len(s), n)
    BY <2>1, FindOutwards
  <2>3. Len(s) \in 1..Len(s)
    OBVIOUS
  <2> QED
    BY <1>2, <2>2, <2>3
<1>4. Tables(t) = Append(Tables(s), Tables(s)[Len(s)])
  <2> DEFINE a == [n \in Name |-> FindFrom(s, Len(s), n)]
  <2>1. Tables(s)[Len(s)] = a
    BY DEF Tables
  <2>2. \A k \in 1..Len(s) : [n \in Name |-> FindFrom(t, k, n)] = [n \in Name |-> FindFrom(s, k, n)]
    BY <1>2
  <2>3. [n \in Name |-> FindFrom(t, Len(s) + 1, n)] = a
    BY <1>3
  <2> HIDE DEF a
  <2>4. Append(Tables(s), a) = [k \in 1..(Len(s) + 1) |-> IF k = Len(s) + 1 THEN a ELSE Tables(s)[k]]
    <3>1. Tables(s) = [k \in 1..Len(s) |-> Tables(s)[k]]
      BY DEF Tables
    <3> QED
      BY <1>0, <3>1, AppendTable
  <2>5. \A k \in 1..(Len(s) + 1) :
           [n \in Name |-> FindFrom(t, k, n)] = IF k = Len(s) + 1 THEN a ELSE Tables(s)[k]
    BY <1>0, <2>2, <2>3 DEF Tables
  <2>6. Tables(t) = [k \in 1..(Len(s) + 1) |-> IF k = Len(s) + 1 THEN a ELSE Tables(s)[k]]
    BY <1>1, <2>5 DEF Tables
  <2> QED
    BY <2>1, <2>4, <2>6
<1>5. Domains(t) = Append(Domains(s), {})
  <2>1. DOMAIN t[Len(s) + 1] = {}
    BY <1>1
  <2>2. Append(Domains(s), {}) = [k \in 1..(Len(s) + 1) |-> IF k = Len(s) + 1 THEN {} ELSE Domains(s)[k]]
    <3>1. Domains(s) = [k \in 1..Len(s) |-> Domains(s)[k]]
      BY DEF Domains
    <3> QED
      BY <1>0, <3>1, AppendTable
  <2>3. \A k \in 1..(Len(s) + 1) : DOMAIN t[k] = IF k = Len(s) + 1 THEN {} ELSE Domains(s)[k]
    BY <1>0, <1>1, <2>1 DEF Domains
  <2> QED
    BY <1>1, <2>2, <2>3 DEF Domains
<1> QED
  BY <1>4, <1>5 DEF t

\* exit brings back the enclosing table.
LEMMA ExitCloses ==
    ASSUME NEW S, NEW s \in Seq(S), Len(s) > 0
    PROVE  /\ Tables(Exited(s)) = SubSeq(Tables(s), 1, Len(s) - 1)
           /\ Domains(Exited(s)) = SubSeq(Domains(s), 1, Len(s) - 1)
<1> DEFINE t == Exited(s)
<1>1. /\ Len(t) = Len(s) - 1
      /\ \A i \in 1..(Len(s) - 1) : t[i] = s[i]
  BY ExitedProperties
<1> HIDE DEF t
<1>2. \A k \in 1..(Len(s) - 1) :
         [n \in Name |-> FindFrom(t, k, n)] = [n \in Name |-> FindFrom(s, k, n)]
  <2> TAKE k \in 1..(Len(s) - 1)
  <2>1. k \in Nat /\ \A i \in 1..k : t[i] = s[i]
    BY <1>1
  <2>2. \A n \in Name : FindFrom(t, k, n) = FindFrom(s, k, n)
    BY <2>1, FindCongruence
  <2> QED
    BY <2>2
<1>3. Tables(t) = [k \in 1..(Len(s) - 1) |-> Tables(s)[k]]
  <2>1. \A k \in 1..(Len(s) - 1) : [n \in Name |-> FindFrom(t, k, n)] = Tables(s)[k]
    BY <1>2, LenProperties DEF Tables
  <2> QED
    BY <1>1, <2>1 DEF Tables
<1>4. Domains(t) = [k \in 1..(Len(s) - 1) |-> Domains(s)[k]]
  BY <1>1 DEF Domains
<1> QED
  BY <1>3, <1>4, LenOfTables DEF t

\* push changes the current table at the pushed name only, and nothing when
\* the scope already declares the name.
LEMMA PushDeclares ==
    ASSUME NEW S, NEW s \in Seq(S), Len(s) > 0,
           NEW name \in Name, NEW val, name \notin DOMAIN s[Len(s)]
    PROVE  LET top == Len(s) IN
           /\ Tables(Pushed(s, name, val)) =
                 [Tables(s) EXCEPT ![top] = [Tables(s)[top] EXCEPT ![name] = val]]
           /\ Domains(Pushed(s, name, val)) =
                 [Domains(s) EXCEPT ![top] = Domains(s)[top] \cup {name}]
<1> DEFINE top == Len(s)
           new == [n \in DOMAIN s[top] \cup {name} |-> IF n = name THEN val ELSE s[top][n]]
           t == [s EXCEPT ![top] = new]
<1>0. top \in Nat /\ top \in 1..top /\ top - 1 \in Nat /\ top - 1 + 1 = top
  BY LenProperties
<1>1. Pushed(s, name, val) = t
  BY DEF Pushed, PushSucceeds, Innermost
<1>2. /\ Len(t) = top
      /\ \A i \in 1..top : i # top => t[i] = s[i]
      /\ t[top] = new
  <2>1. s \in [1..top -> S] /\ top \in Nat
    BY LenProperties
  <2>2. t = [i \in 1..top |-> IF i = top THEN new ELSE s[i]]
    <3> HIDE DEF new
    <3> QED
      BY <2>1
  <2> HIDE DEF new, t, top
  <2> QED
    BY <2>1, <2>2
<1>3. /\ DOMAIN new = DOMAIN s[top] \cup {name}
      /\ new[name] = val
      /\ \A n \in DOMAIN s[top] : n # name => new[n] = s[top][n]
  OBVIOUS
<1> HIDE DEF new, t, top
<1>4. \A k \in 1..top, n \in Name : k # top => FindFrom(t, k, n) = FindFrom(s, k, n)
  <2> SUFFICES ASSUME NEW k \in 1..top, NEW n \in Name, k # top
               PROVE  FindFrom(t, k, n) = FindFrom(s, k, n)
    OBVIOUS
  <2>1. k \in Nat /\ \A i \in 1..k : t[i] = s[i]
    BY <1>0, <1>2
  <2> QED
    BY <2>1, FindCongruence
<1>5. FindFrom(t, top, name) = val
  <2>1. StopsAt(t, top, name, top)
    BY <1>0, <1>2, <1>3 DEF StopsAt
  <2>2. FindFrom(t, top, name) = t[top][name]
    BY <1>0, <2>1, FindAt
  <2> QED
    BY <1>2, <1>3, <2>2
<1>6. \A n \in Name : n # name => FindFrom(t, top, n) = FindFrom(s, top, n)
  <2> SUFFICES ASSUME NEW n \in Name, n # name
               PROVE  FindFrom(t, top, n) = FindFrom(s, top, n)
    OBVIOUS
  <2>1. CASE n \in DOMAIN s[top]
    <3>1. StopsAt(t, top, n, top) /\ StopsAt(s, top, n, top)
      BY <1>0, <1>2, <1>3, <2>1 DEF StopsAt
    <3>2. FindFrom(t, top, n) = t[top][n] /\ FindFrom(s, top, n) = s[top][n]
      BY <1>0, <3>1, FindAt
    <3> QED
      BY <1>2, <1>3, <2>1, <3>2
  <2>2. CASE n \notin DOMAIN s[top]
    <3> DEFINE k == top - 1
    <3>1. k \in Nat /\ k + 1 = top
      BY <1>0
    <3>2. n \notin DOMAIN s[k + 1] /\ n \notin DOMAIN t[k + 1]
      BY <1>2, <1>3, <2>2, <3>1
    <3>3. \A i \in 1..k : t[i] = s[i]
      BY <1>0, <1>2
    <3> HIDE DEF k
    <3>4. FindFrom(s, k + 1, n) = FindFrom(s, k, n) /\ FindFrom(t, k + 1, n) = FindFrom(t, k, n)
      BY <3>1, <3>2, FindOutwards
    <3>5. FindFrom(s, k, n) = FindFrom(t, k, n)
      BY <3>1, <3>3, FindCongruence
    <3> QED
      BY <3>1, <3>4, <3>5
  <2> QED
    BY <2>1, <2>2
<1>7. Tables(t) = [Tables(s) EXCEPT ![top] = [Tables(s)[top] EXCEPT ![name] = val]]
  <2>1. \A k \in 1..top : k # top => [n \in Name |-> FindFrom(t, k, n)] = Tables(s)[k]
    BY <1>4 DEF Tables, top
  <2>2. [n \in Name |-> FindFrom(t, top, n)] = [Tables(s)[top] EXCEPT ![name] = val]
    BY <1>0, <1>5, <1>6 DEF Tables, top
  <2> DEFINE a == [Tables(s)[top] EXCEPT ![name] = val]
  <2> HIDE DEF a
  <2>3. [Tables(s) EXCEPT ![top] = a] = [k \in 1..top |-> IF k = top THEN a ELSE Tables(s)[k]]
    BY <1>0 DEF Tables, top
  <2>4. \A k \in 1..top : [n \in Name |-> FindFrom(t, k, n)] = IF k = top THEN a ELSE Tables(s)[k]
    BY <2>1, <2>2 DEF a
  <2>5. Tables(t) = [k \in 1..top |-> IF k = top THEN a ELSE Tables(s)[k]]
    BY <1>2, <2>4 DEF Tables
  <2> QED
    BY <2>3, <2>5 DEF a
<1>8. Domains(t) = [Domains(s) EXCEPT ![top] = Domains(s)[top] \cup {name}]
  BY <1>0, <1>2, <1>3 DEF Domains, top
<1> QED
  BY <1>1, <1>7, <1>8 DEF top

\* Class Scope implements block structure: whatever sequence of enter, exit,
\* push and find its client makes, find and push answer as module Bindings promises.
THEOREM ScopeImplementsBindings == Spec => ImplementsBindings
<1>1. Init => Promise!Init
  <2> SUFFICES ASSUME Init PROVE Promise!Init
    OBVIOUS
  <2>1. PICK global \in [Predeclared -> Value] : inner = << global >>
    BY DEF Init
  <2>2. Len(inner) = 1 /\ inner[1] = global /\ DOMAIN global = Predeclared
    BY <2>1
  <2> DEFINE v == [n \in Name |-> FindFrom(inner, 1, n)]
  <2>3. \A n \in Predeclared : FindFrom(inner, 1, n) = global[n]
    <3> TAKE n \in Predeclared
    <3>1. 1 \in 1..1 /\ StopsAt(inner, 1, n, 1)
      BY <2>2 DEF StopsAt
    <3> QED
      BY <2>2, <3>1, FindAt
  <2>4. \A n \in Name \ Predeclared : FindFrom(inner, 1, n) = NoValue
    BY <2>2 DEF FindFrom, StopsAt
  <2>5. v \in [Name -> Value \cup {NoValue}]
    BY <2>3, <2>4
  <2>6. \A n \in Name : v[n] = NoValue <=> n \notin Predeclared
    BY <2>3, <2>4, NoValueAssumption
  <2>7. Tables(inner) = << v >>
    BY <2>2 DEF Tables
  <2>8. Domains(inner) = << Predeclared >>
    BY <2>2 DEF Domains
  <2> HIDE DEF v
  <2> QED
    BY <2>5, <2>6, <2>7, <2>8 DEF Init, Promise!Init
<1>2. TypeOK /\ [Next]_vars => [Promise!Next]_<<Tables(inner), Domains(inner), reply>>
  <2> SUFFICES ASSUME TypeOK, [Next]_vars
               PROVE  [Promise!Next]_<<Tables(inner), Domains(inner), reply>>
    OBVIOUS
  <2>1. inner \in Seq(ScopeMap) /\ Len(inner) > 0 /\ Len(inner) \in Nat
    BY LenProperties DEF TypeOK
  <2>2. << >> \in ScopeMap
    <3>1. << >> \in [{} -> Value]
      OBVIOUS
    <3> QED
      BY <3>1 DEF ScopeMap
  <2>3. Promise!Depth = Len(inner) /\ Len(Domains(inner)) = Len(inner)
    BY <2>1, LenOfTables DEF Promise!Depth
  <2>4. CASE enter
    <3>1. Tables(inner)' = Append(Tables(inner), Tables(inner)[Len(inner)])
          /\ Domains(inner)' = Append(Domains(inner), {})
      BY <2>1, <2>2, <2>4, EnterOpens DEF enter
    <3>2. Promise!Open
      BY <2>3, <2>4, <3>1 DEF enter, Promise!Open
    <3> QED
      BY <3>2 DEF Promise!Next
  <2>5. CASE exit
    <3>1. Tables(inner)' = SubSeq(Tables(inner), 1, Len(inner) - 1)
          /\ Domains(inner)' = SubSeq(Domains(inner), 1, Len(inner) - 1)
      BY <2>1, <2>5, ExitCloses DEF exit
    <3>2. Len(inner) > 1
      <4> DEFINE depth == Len(inner)
      <4>1. depth \in Nat /\ depth > 0 /\ depth # 1
        BY <2>1, <2>5 DEF exit, InGlobal
      <4>2. depth > 1
        <5> HIDE DEF depth
        <5> QED
          BY <4>1
      <4> QED
        BY <4>2
    <3>3. Promise!Close
      BY <2>3, <2>5, <3>1, <3>2 DEF exit, Promise!Close
    <3> QED
      BY <3>3 DEF Promise!Next
  <2>6. CASE \E name \in Name, val \in Value : push(name, val)
    <3>1. PICK name \in Name, val \in Value : push(name, val)
      BY <2>6
    <3>2. CASE name \in DOMAIN inner[Len(inner)]
      <4>1. inner' = inner /\ reply' = << name, val, FALSE >>
        BY <3>1, <3>2 DEF push, Pushed, PushSucceeds, Innermost
      <4>2. Domains(inner)[Len(inner)] = DOMAIN inner[Len(inner)]
        BY <2>1 DEF Domains
      <4>3. Promise!Redeclare(name, val)
        BY <2>3, <3>2, <4>1, <4>2 DEF Promise!Redeclare
      <4> QED
        BY <4>3 DEF Promise!Next
    <3>3. CASE name \notin DOMAIN inner[Len(inner)]
      <4> DEFINE top == Len(inner)
      <4>1. /\ Tables(inner)' = [Tables(inner) EXCEPT ![top] = [Tables(inner)[top] EXCEPT ![name] = val]]
            /\ Domains(inner)' = [Domains(inner) EXCEPT ![top] = Domains(inner)[top] \cup {name}]
        BY <2>1, <3>1, <3>3, PushDeclares DEF push
      <4>2. Domains(inner)[top] = DOMAIN inner[top]
        BY <2>1 DEF Domains
      <4>3. reply' = << name, val, TRUE >>
        BY <3>1, <3>3 DEF push, PushSucceeds, Innermost
      <4>4. Promise!Declare(name, val)
        BY <2>3, <3>3, <4>1, <4>2, <4>3 DEF Promise!Declare
      <4> QED
        BY <4>4 DEF Promise!Next
    <3> QED
      BY <3>2, <3>3
  <2>7. CASE \E name \in Name : find(name)
    <3>1. PICK name \in Name : find(name)
      BY <2>7
    <3>2. Tables(inner)[Len(inner)][name] = Find(inner, name)
      BY <2>1 DEF Tables, Find
    <3>3. Promise!Lookup(name)
      BY <2>3, <3>1, <3>2 DEF find, Promise!Lookup
    <3> QED
      BY <3>3 DEF Promise!Next
  <2>8. CASE UNCHANGED vars
    BY <2>8 DEF vars
  <2> QED
    BY <2>4, <2>5, <2>6, <2>7, <2>8 DEF Next
<1> QED
  BY <1>1, <1>2, TypeCorrect, PTL DEF Spec, ImplementsBindings, Promise!Spec
=============================================================================
