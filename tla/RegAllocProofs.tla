--------------------------- MODULE RegAllocProofs ---------------------------
(***************************************************************************)
(* Proofs about the tables of RegAllocFast and the code it leaves, for     *)
(* every set of registers with any overlaps, every function and either     *)
(* version.                                                                *)
(***************************************************************************)
EXTENDS RegAllocCorrect, SharedLemmas, FiniteSetTheorems

-----------------------------------------------------------------------------
(* The registers.                                                          *)

LEMMA RegisterFacts ==
    /\ \A p \in PReg : p # NoReg /\ p \notin VReg
    /\ \A v \in VReg : v # NoReg /\ v # "disabled" /\ v # "free" /\ v # "reserved"
    /\ Alias \in [PReg -> Seq(PReg)]
    /\ \A p, q \in PReg : q \in Elements(Alias[p]) <=> p # q /\ Overlap(p, q)
    /\ Order \in [VReg -> Seq(PReg)]
    /\ \A v \in VReg : Order[v] # << >>
<1>1. \A p \in PReg : p # NoReg /\ p \notin VReg
  BY RegistersAssumption
<1>2. \A v \in VReg : v # NoReg /\ v # "disabled" /\ v # "free" /\ v # "reserved"
  BY RegistersAssumption
<1>3. \A p, q \in PReg : q \in Elements(Alias[p]) <=> p # q /\ Overlap(p, q)
  BY RegistersAssumption
<1> QED
  BY <1>1, <1>2, <1>3, RegistersAssumption

-----------------------------------------------------------------------------
(* The parts of the invariant, said of a value of ra.                      *)

Members == { "fn", "mbb", "mi", "regState", "live", "used", "slots", "across", "dbg",
             "virtDead", "coalesced", "copyDst", "copySrc", "sameSub", "earlyClobbers",
             "partialDefs", "opEnd", "errors", "stuck" }

IsAllocator(s) ==
    /\ DOMAIN s = Members
    /\ s.regState \in [PReg -> {"disabled", "free", "reserved"} \cup VReg]
    /\ DOMAIN s.live = VReg
    /\ \A v \in VReg : /\ DOMAIN s.live[v] = {"phys", "lastUse", "lastOpNum", "dirty"}
                       /\ s.live[v].phys \in PReg \cup {NoReg}

Agree(s) == \A v \in VReg, p \in PReg : s.live[v].phys = p <=> s.regState[p] = v

OneOwner(s) ==
    \A p \in PReg, q \in PReg :
        p # q /\ Overlap(p, q) => "disabled" \in {s.regState[p], s.regState[q]}

Sound(s) == IsAllocator(s) /\ Agree(s) /\ OneOwner(s)

\* What a step keeps that touches neither map.
SameMaps(s, t) == DOMAIN t = DOMAIN s /\ t.regState = s.regState /\ t.live = s.live

LEMMA SameMapsSound ==
    ASSUME NEW s, NEW t, Sound(s), SameMaps(s, t)
    PROVE  Sound(t)
  BY DEF Sound, SameMaps, IsAllocator, Agree, OneOwner

LEMMA SameMapsTrans ==
    ASSUME NEW s, NEW t, NEW u, SameMaps(s, t), SameMaps(t, u)
    PROVE  SameMaps(s, u)
  BY DEF SameMaps

\* Rewriting code, inserting code and marking units leave the maps alone.
LEMMA CodeChanges ==
    ASSUME NEW s, DOMAIN s = Members
    PROVE  /\ \A ops : SameMaps(s, SetOps(s, ops))
           /\ \A k, o : SameMaps(s, SetOp(s, k, o))
           /\ \A k, flag : SameMaps(s, SetEnds(s, k, flag))
           /\ \A o : SameMaps(s, AddImplicit(s, o))
           /\ \A p : SameMaps(s, AddKilled(s, p))
           /\ \A c : SameMaps(s, Insert(s, c))
           /\ \A p : SameMaps(s, markRegUsedInInstr(s, p))
           /\ \A V : SameMaps(s, addKillFlag(s, V))
<1>1. \A ops : SameMaps(s, SetOps(s, ops))
  BY DEF SameMaps, SetOps, Members
<1>2. \A k, o : SameMaps(s, SetOp(s, k, o))
  BY <1>1 DEF SetOp
<1>3. \A k, flag : SameMaps(s, SetEnds(s, k, flag))
  BY <1>2 DEF SetEnds
<1>4. \A o : SameMaps(s, AddImplicit(s, o))
  BY <1>1 DEF AddImplicit
<1>5. \A p : SameMaps(s, AddKilled(s, p))
  BY <1>4 DEF AddKilled
<1>6. \A c : SameMaps(s, Insert(s, c))
  BY DEF SameMaps, Insert, Members
<1>7. \A p : SameMaps(s, markRegUsedInInstr(s, p))
  BY DEF SameMaps, markRegUsedInInstr, Members
<1>8. \A V : SameMaps(s, addKillFlag(s, V))
  BY DEF SameMaps, addKillFlag, Members
<1> QED
  BY <1>1, <1>2, <1>3, <1>4, <1>5, <1>6, <1>7, <1>8

LEMMA SetPhysReg ==
    ASSUME NEW s, DOMAIN s = Members, NEW k, NEW p
    PROVE  SameMaps(s, setPhysReg(s, k, p))
<1> DEFINE o == Ops(s)[k]
           low == SetOp(s, k, [o EXCEPT !.reg = LowPart[p], !.sub = 0])
<1>1. SameMaps(s, low)
  BY CodeChanges
<1>2. DOMAIN low = Members
  BY <1>1 DEF SameMaps
<1>3. SameMaps(low, AddKilled(low, p)) /\ SameMaps(low, AddImplicit(low, Def(p)))
  <2> HIDE DEF low
  <2> QED BY <1>2, CodeChanges
<1>4. SameMaps(s, AddKilled(low, p)) /\ SameMaps(s, AddImplicit(low, Def(p)))
  BY <1>1, <1>3, SameMapsTrans
<1>5. SameMaps(s, SetOp(s, k, [o EXCEPT !.reg = p]))
  BY CodeChanges
<1> QED
  BY <1>1, <1>4, <1>5 DEF setPhysReg

-----------------------------------------------------------------------------
(* Killing and spilling.                                                   *)

\* The registers of V have left the maps, their physical ones are free.
Released(s, t, V) ==
    /\ DOMAIN t = Members
    /\ t.regState = [p \in PReg |-> IF s.regState[p] \in V THEN "free" ELSE s.regState[p]]
    /\ DOMAIN t.live = VReg
    /\ \A v \in VReg : /\ DOMAIN t.live[v] = {"phys", "lastUse", "lastOpNum", "dirty"}
                       /\ t.live[v].phys = IF v \in V THEN NoReg ELSE s.live[v].phys

LEMMA ReleasedSound ==
    ASSUME NEW s, NEW t, NEW V, Sound(s), V \subseteq VReg, Released(s, t, V)
    PROVE  Sound(t)
<1>1. IsAllocator(t)
  BY DEF Sound, IsAllocator, Released
<1>2. Agree(t)
  <2> SUFFICES ASSUME NEW v \in VReg, NEW p \in PReg
               PROVE  t.live[v].phys = p <=> t.regState[p] = v
    BY DEF Agree
  <2>1. s.live[v].phys = p <=> s.regState[p] = v
    BY DEF Sound, Agree
  <2>2. NoReg # p /\ "free" # v
    BY RegisterFacts
  <2> QED
    BY <2>1, <2>2 DEF Released
<1>3. OneOwner(t)
  <2> SUFFICES ASSUME NEW p \in PReg, NEW q \in PReg, p # q, Overlap(p, q)
               PROVE  "disabled" \in {t.regState[p], t.regState[q]}
    BY DEF OneOwner
  <2>1. "disabled" \in {s.regState[p], s.regState[q]}
    BY DEF Sound, OneOwner
  <2>2. "disabled" \notin V
    BY RegisterFacts
  <2> QED
    BY <2>1, <2>2 DEF Released
<1> QED
  BY <1>1, <1>2, <1>3 DEF Sound

LEMMA KillVirtReg ==
    ASSUME NEW s, NEW V, Sound(s), V \subseteq VReg
    PROVE  Released(s, killVirtReg(s, V), V)
<1> DEFINE a == addKillFlag(s, V)
           t == killVirtReg(s, V)
<1>1. DOMAIN s = Members /\ SameMaps(s, a)
  BY CodeChanges DEF Sound, IsAllocator
<1>2. t = [a EXCEPT
        !.regState = [p \in PReg |-> IF \E v \in V : s.live[v].phys = p THEN "free" ELSE s.regState[p]],
        !.live = [v \in VReg |-> IF v \in V THEN [s.live[v] EXCEPT !.phys = NoReg] ELSE s.live[v]]]
  BY DEF killVirtReg
<1> HIDE DEF a, t
<1>3. /\ DOMAIN t = Members
      /\ t.regState = [p \in PReg |-> IF \E v \in V : s.live[v].phys = p THEN "free" ELSE s.regState[p]]
      /\ t.live = [v \in VReg |-> IF v \in V THEN [s.live[v] EXCEPT !.phys = NoReg] ELSE s.live[v]]
  BY <1>1, <1>2 DEF SameMaps, Members
<1>4. \A p \in PReg : (\E v \in V : s.live[v].phys = p) <=> s.regState[p] \in V
  BY DEF Sound, Agree
<1>5. \A v \in VReg : /\ DOMAIN t.live[v] = {"phys", "lastUse", "lastOpNum", "dirty"}
                      /\ t.live[v].phys = IF v \in V THEN NoReg ELSE s.live[v].phys
  BY <1>3 DEF Sound, IsAllocator
<1>6. t.regState = [p \in PReg |-> IF s.regState[p] \in V THEN "free" ELSE s.regState[p]]
  BY <1>3, <1>4
<1> QED
  BY <1>3, <1>5, <1>6 DEF t, Released

LEMMA SpillVirtReg ==
    ASSUME NEW s, NEW V, Sound(s), V \subseteq VReg
    PROVE  Released(s, spillVirtReg(s, V), V)
<1> DEFINE dirty == { v \in V : s.live[v].dirty }
           spilled == [v \in VReg |->
                          IF v \notin dirty THEN s.live[v]
                          ELSE [s.live[v] EXCEPT !.dirty = FALSE,
                                                 !.lastUse = IF @ # s.mi THEN 0 ELSE @]]
           a == spill(s, dirty)
           b == [a EXCEPT !.live = spilled]
<1>1. DOMAIN s = Members
  BY DEF Sound, IsAllocator
<1>2. SameMaps(s, a)
  <2> HIDE DEF dirty
  <2>1. PICK c : a = [Insert(s, c) EXCEPT !.slots = @ \cup dirty, !.dbg = @ \ dirty]
    BY DEF spill
  <2>2. SameMaps(s, Insert(s, c))
    BY <1>1, CodeChanges
  <2> HIDE DEF a
  <2> QED
    BY <1>1, <2>1, <2>2 DEF SameMaps, Members
<1>3. DOMAIN b = Members /\ b.regState = s.regState /\ b.live = spilled
  <2> HIDE DEF a, spilled
  <2> QED BY <1>1, <1>2 DEF SameMaps, Members
<1>4. /\ DOMAIN b.live = VReg
      /\ \A v \in VReg : /\ DOMAIN b.live[v] = {"phys", "lastUse", "lastOpNum", "dirty"}
                         /\ b.live[v].phys = s.live[v].phys
  <2>1. \A v \in VReg : DOMAIN s.live[v] = {"phys", "lastUse", "lastOpNum", "dirty"}
    BY DEF Sound, IsAllocator
  <2>2. \A v \in VReg : /\ DOMAIN spilled[v] = {"phys", "lastUse", "lastOpNum", "dirty"}
                        /\ spilled[v].phys = s.live[v].phys
    <3> HIDE DEF dirty
    <3> QED BY <2>1
  <2> HIDE DEF b, dirty
  <2> QED BY <1>3, <2>2
<1> HIDE DEF b, spilled
<1>5. Sound(b)
  <2>1. IsAllocator(b)
    BY <1>3, <1>4 DEF Sound, IsAllocator
  <2>2. Agree(b)
    BY <1>3, <1>4 DEF Sound, Agree
  <2>3. OneOwner(b)
    BY <1>3 DEF Sound, OneOwner
  <2> QED
    BY <2>1, <2>2, <2>3 DEF Sound
<1>6. Released(b, killVirtReg(b, V), V)
  BY <1>5, KillVirtReg
<1>7. spillVirtReg(s, V) = killVirtReg(b, V)
  BY DEF spillVirtReg, b, spilled
<1> QED
  BY <1>3, <1>4, <1>6, <1>7 DEF Released

-----------------------------------------------------------------------------
(* Physical registers and their aliases.                                   *)

LEMMA OverlapSymmetric == \A p, q : Overlap(p, q) <=> Overlap(q, p)
  BY DEF Overlap

\* The loop over the aliases passes only registers in use; when p itself is
\* disabled it passes all of them, although it stops at a superregister: what
\* overlaps p overlaps that too, and is disabled.
LEMMA PassedFacts ==
    ASSUME NEW s, Sound(s), NEW p \in PReg
    PROVE  /\ \A q \in Passed(s, p) : q \in PReg /\ q # p /\ Overlap(p, q) /\ s.regState[q] # "disabled"
           /\ \A q \in PReg : q # p /\ Overlap(p, q) /\ s.regState[q] # "disabled" => q \in Passed(s, p)
<1> DEFINE n == Len(Alias[p])
<1>1. /\ n \in Nat
      /\ \A j \in 1..n : Alias[p][j] \in PReg /\ Alias[p][j] # p /\ Overlap(p, Alias[p][j])
      /\ \A q \in PReg : q # p /\ Overlap(p, q) => \E j \in 1..n : q = Alias[p][j]
  <2>1. Alias[p] \in Seq(PReg)
    BY RegisterFacts
  <2>2. n \in Nat /\ \A j \in 1..n : Alias[p][j] \in PReg
    BY <2>1, LenProperties, ElementOfSeq
  <2>3. \A q \in PReg : (\E j \in 1..n : q = Alias[p][j]) <=> q # p /\ Overlap(p, q)
    BY RegisterFacts DEF Elements
  <2> QED
    BY <2>2, <2>3
<1>2. \A q \in Passed(s, p) : q \in PReg /\ q # p /\ Overlap(p, q) /\ s.regState[q] # "disabled"
  BY <1>1 DEF Passed
<1>3. ASSUME NEW q \in PReg, q # p, Overlap(p, q), s.regState[q] # "disabled"
      PROVE  q \in Passed(s, p)
  <2>1. CASE SuperAt(s, p) = {}
    <3>1. PICK j \in 1..n : q = Alias[p][j]
      BY <1>1, <1>3
    <3> QED
      BY <1>3, <2>1, <3>1 DEF Passed
  <2>2. CASE SuperAt(s, p) # {}
    <3>1. SuperAt(s, p) \subseteq Nat
      BY <1>1 DEF SuperAt
    <3>2. PICK h \in SuperAt(s, p) : \A g \in SuperAt(s, p) : h <= g
      BY <2>2, <3>1, LeastOf
    <3>3. /\ h \in 1..n /\ s.regState[Alias[p][h]] # "disabled"
          /\ Units(p) \subseteq Units(Alias[p][h])
      BY <3>2 DEF SuperAt, IsSuper
    <3>4. Overlap(q, Alias[p][h])
      BY <1>3, <3>3 DEF Overlap
    <3>5. q = Alias[p][h]
      BY <1>1, <1>3, <3>3, <3>4 DEF Sound, OneOwner
    <3> QED
      BY <3>2, <3>3, <3>5 DEF Passed
  <2> QED
    BY <2>1, <2>2
<1> QED
  BY <1>2, <1>3

\* Disabling registers that hold no virtual one, and giving p a state of its
\* own when nothing that overlaps it stays in use.
LEMMA ClearedSound ==
    ASSUME NEW s, Sound(s), NEW P, NEW p, NEW new \in {"free", "reserved"},
           \A q \in P \cap PReg : s.regState[q] \notin VReg,
           p \in PReg => /\ s.regState[p] \notin VReg
                         /\ \A q \in PReg : q # p /\ Overlap(p, q) => q \in P \/ s.regState[q] = "disabled"
    PROVE  LET t == Cleared(s, P, p, new)
           IN  /\ Sound(t) /\ t.live = s.live
               /\ p \in PReg => t.regState[p] = new
<1> DEFINE t == Cleared(s, P, p, new)
<1>1. /\ DOMAIN t = Members /\ t.live = s.live
      /\ t.regState = [q \in PReg |-> IF q = p THEN new ELSE IF q \in P THEN "disabled" ELSE s.regState[q]]
  BY DEF Cleared, Sound, IsAllocator, Members
<1> HIDE DEF t
<1>2. IsAllocator(t)
  BY <1>1 DEF Sound, IsAllocator
<1>3. Agree(t)
  <2> SUFFICES ASSUME NEW v \in VReg, NEW q \in PReg
               PROVE  s.live[v].phys = q <=> t.regState[q] = v
    BY <1>1 DEF Agree
  <2>1. s.live[v].phys = q <=> s.regState[q] = v
    BY DEF Sound, Agree
  <2>2. v # new /\ v # "disabled"
    BY RegisterFacts
  <2> QED
    BY <1>1, <2>1, <2>2
<1>4. OneOwner(t)
  <2> SUFFICES ASSUME NEW a \in PReg, NEW b \in PReg, a # b, Overlap(a, b)
               PROVE  "disabled" \in {t.regState[a], t.regState[b]}
    BY DEF OneOwner
  <2>1. "disabled" \in {s.regState[a], s.regState[b]} /\ Overlap(b, a)
    BY OverlapSymmetric DEF Sound, OneOwner
  <2>2. CASE a = p
    BY <1>1, <2>2
  <2>3. CASE b = p
    BY <1>1, <2>1, <2>3
  <2>4. CASE a # p /\ b # p
    BY <1>1, <2>1, <2>4
  <2> QED
    BY <2>2, <2>3, <2>4
<1> QED
  BY <1>1, <1>2, <1>3, <1>4 DEF t, Sound

LEMMA DefinePhysReg ==
    ASSUME NEW s, Sound(s), NEW p, NEW new \in {"free", "reserved"}
    PROVE  LET t == definePhysReg(s, p, new)
           IN  /\ Sound(t)
               /\ p \in PReg => t.regState[p] = new
               /\ \A v \in VReg : s.live[v].phys = NoReg => t.live[v].phys = NoReg
<1> DEFINE hit == IF s.regState[p] = "disabled" THEN Passed(s, p) ELSE {p}
           V == Allocated(s, hit)
           a == markRegUsedInInstr(s, p)
           b == spillVirtReg(a, V)
           t == Cleared(b, hit, p, new)
<1>1. SameMaps(s, a) /\ Sound(a)
  BY CodeChanges, SameMapsSound DEF Sound, IsAllocator
<1>2. V \subseteq VReg
  BY DEF Allocated
<1>3. Released(a, b, V) /\ Sound(b)
  <2> HIDE DEF a, V
  <2> QED BY <1>1, <1>2, SpillVirtReg, ReleasedSound
<1>4. /\ \A q \in PReg : b.regState[q] = IF s.regState[q] \in V THEN "free" ELSE s.regState[q]
      /\ \A v \in VReg : b.live[v].phys = IF v \in V THEN NoReg ELSE s.live[v].phys
  BY <1>1, <1>3 DEF Released, SameMaps
<1>5. \A q \in hit \cap PReg : b.regState[q] \notin VReg
  <2>1. \A q \in hit : s.regState[q] \in VReg => s.regState[q] \in V
    BY DEF Allocated
  <2>2. "free" \notin VReg
    BY RegisterFacts
  <2> HIDE DEF V, hit
  <2> QED BY <1>4, <2>1, <2>2
<1>6. ASSUME p \in PReg
      PROVE  /\ b.regState[p] \notin VReg
             /\ \A q \in PReg : q # p /\ Overlap(p, q) => q \in hit \/ b.regState[q] = "disabled"
  <2>1. "disabled" \notin VReg
    BY RegisterFacts
  <2>2. \A q \in PReg : s.regState[q] = "disabled" => b.regState[q] = "disabled"
    BY <1>2, <1>4, <2>1
  <2>3. CASE s.regState[p] = "disabled"
    <3>1. hit = Passed(s, p)
      BY <2>3
    <3> HIDE DEF hit
    <3> QED BY <1>6, <2>1, <2>2, <2>3, <3>1, PassedFacts
  <2>4. CASE s.regState[p] # "disabled"
    <3>1. p \in hit
      BY <2>4
    <3>2. \A q \in PReg : q # p /\ Overlap(p, q) => s.regState[q] = "disabled"
      BY <1>6, <2>4 DEF Sound, OneOwner
    <3> QED
      BY <1>5, <1>6, <2>2, <3>1, <3>2
  <2> QED
    BY <2>3, <2>4
<1>7. Sound(t) /\ t.live = b.live /\ (p \in PReg => t.regState[p] = new)
  <2> HIDE DEF b, hit
  <2> QED BY <1>3, <1>5, <1>6, ClearedSound
<1>8. \A v \in VReg : s.live[v].phys = NoReg => t.live[v].phys = NoReg
  <2> HIDE DEF b, t
  <2> QED BY <1>4, <1>7
<1>9. definePhysReg(s, p, new) = t
  BY DEF definePhysReg
<1> HIDE DEF t
<1> QED
  BY <1>7, <1>8, <1>9

LEMMA UsePhysReg ==
    ASSUME NEW s, Sound(s), NEW k, Ops(s)[k].reg \in PReg
    PROVE  Sound(usePhysReg(s, k))
<1> DEFINE p == Ops(s)[k].reg
           m == markRegUsedInInstr(s, p)
           supers == { q \in Passed(s, p) : IsSuper(p, q) }
           pick == CHOOSE q \in supers : TRUE
<1>1. SameMaps(s, m) /\ Sound(m)
  BY CodeChanges, SameMapsSound DEF Sound, IsAllocator
<1>2. m.regState = s.regState
  BY <1>1 DEF SameMaps
<1>3. \A q \in PReg : s.regState[q] \in {"disabled", "free", "reserved"} \cup VReg
  BY DEF Sound, IsAllocator
<1>4. \A u, x, flag : Sound(u) => Sound(SetEnds(u, x, flag)) /\ Sound(AddKilled(u, x))
  BY CodeChanges, SameMapsSound DEF Sound, IsAllocator
<1> HIDE DEF m
<1>5. CASE s.regState[p] \in {"reserved", "free"}
  <2>1. s.regState[p] \notin VReg /\ \A q \in PReg : q # p /\ Overlap(p, q) => s.regState[q] = "disabled"
    BY <1>5, RegisterFacts DEF Sound, OneOwner
  <2>2. Sound(Cleared(m, {}, p, "free"))
    BY <1>1, <1>2, <2>1, ClearedSound
  <2> QED
    BY <1>4, <1>5, <2>2 DEF usePhysReg, m
<1>6. CASE s.regState[p] \notin {"reserved", "free"} /\ Allocated(s, Passed(s, p) \cup {p}) = {}
  <2>1. \A q \in Passed(s, p) \cup {p} : s.regState[q] \notin VReg
    BY <1>6 DEF Allocated
  <2>2. s.regState[p] = "disabled"
    BY <1>3, <1>6, <2>1
  <2>3. \A q \in PReg : q # p /\ Overlap(p, q) => q \in Passed(s, p) \/ s.regState[q] = "disabled"
    BY PassedFacts
  <2>4. Sound(Cleared(m, Passed(s, p), p, "free"))
    BY <1>1, <1>2, <2>1, <2>3, ClearedSound
  <2>5. ASSUME supers # {} PROVE Sound(Cleared(m, Passed(s, p), pick, "free"))
    <3>1. pick \in Passed(s, p)
      BY <2>5
    <3> HIDE DEF pick
    <3>2. pick \in PReg /\ s.regState[pick] # "disabled"
      BY <3>1, PassedFacts
    <3>3. \A q \in PReg : q # pick /\ Overlap(pick, q) => s.regState[q] = "disabled"
      BY <3>2 DEF Sound, OneOwner
    <3> QED
      BY <1>1, <1>2, <2>1, <3>1, <3>3, ClearedSound
  <2> QED
    BY <1>4, <1>6, <2>4, <2>5 DEF usePhysReg, m
<1>7. CASE s.regState[p] \notin {"reserved", "free"} /\ Allocated(s, Passed(s, p) \cup {p}) # {}
  <2>1. Sound([m EXCEPT !.stuck = TRUE])
    BY <1>1, SameMapsSound DEF Sound, IsAllocator, SameMaps, Members
  <2> QED
    BY <1>7, <2>1 DEF usePhysReg, m
<1> QED
  BY <1>5, <1>6, <1>7

-----------------------------------------------------------------------------
(* Costs.                                                                  *)

LEMMA CostIsNatural ==
    ASSUME NEW s, Sound(s), NEW q \in PReg
    PROVE  /\ CostOf(s, q) \in Nat
           /\ s.regState[q] = "free" => CostOf(s, q) = 1
           /\ s.regState[q] \in VReg => CostOf(s, q) \in {spillClean, spillDirty}
           /\ s.regState[q] \in VReg \cup {"reserved"} => CostOf(s, q) # 0
<1>1. UnsignedMax \in Nat /\ UnsignedMax > 400
  BY CostAssumption DEF spillDirty
<1>2. s.regState[q] \in {"disabled", "free", "reserved"} \cup VReg
  BY DEF Sound, IsAllocator
<1>3. CASE s.regState[q] = "disabled"
  BY <1>3, RegisterFacts DEF CostOf
<1>4. CASE s.regState[q] = "free"
  BY <1>4, RegisterFacts DEF CostOf
<1>5. CASE s.regState[q] = "reserved"
  BY <1>1, <1>5, RegisterFacts DEF CostOf, spillImpossible
<1>6. CASE s.regState[q] \in VReg
  <2>1. s.regState[q] \notin {"disabled", "free", "reserved"}
    BY <1>6, RegisterFacts
  <2>2. CostOf(s, q) = IF s.live[s.regState[q]].dirty THEN spillDirty ELSE spillClean
    BY <2>1 DEF CostOf
  <2> QED
    BY <1>6, <2>1, <2>2 DEF spillDirty, spillClean
<1> QED
  BY <1>2, <1>3, <1>4, <1>5, <1>6

\* A cost is a number, and nothing is free of charge that is in use or overlaps
\* what is.
LEMMA CostFacts ==
    ASSUME NEW s, Sound(s), NEW p \in PReg
    PROVE  /\ calcSpillCost(s, p) \in Nat
           /\ calcSpillCost(s, p) = 0 =>
                 /\ s.regState[p] \notin VReg
                 /\ \A q \in PReg : q # p /\ Overlap(p, q) => s.regState[q] = "disabled"
<1> DEFINE J(c) == { j \in 1..Len(Alias[p]) : CostOf(s, Alias[p][j]) = c }
           sum == 1 * Cardinality(J(1)) + spillClean * Cardinality(J(spillClean))
                  + spillDirty * Cardinality(J(spillDirty))
<1>1. UnsignedMax \in Nat /\ UnsignedMax > 400
  BY CostAssumption DEF spillDirty
<1>2. /\ Len(Alias[p]) \in Nat
      /\ \A j \in 1..Len(Alias[p]) : Alias[p][j] \in PReg
      /\ \A q \in PReg : q # p /\ Overlap(p, q) =>
            q \in Elements(Alias[p]) /\ \E j \in 1..Len(Alias[p]) : q = Alias[p][j]
  <2>1. Alias[p] \in Seq(PReg)
    BY RegisterFacts
  <2>2. Len(Alias[p]) \in Nat /\ \A j \in 1..Len(Alias[p]) : Alias[p][j] \in PReg
    BY <2>1, LenProperties, ElementOfSeq
  <2>3. \A q \in PReg : q # p /\ Overlap(p, q) => q \in Elements(Alias[p])
    BY RegisterFacts
  <2> QED
    BY <2>2, <2>3 DEF Elements
<1>3. \A c : IsFiniteSet(J(c)) /\ Cardinality(J(c)) \in Nat /\ (Cardinality(J(c)) = 0 => J(c) = {})
  <2> TAKE c
  <2>1. IsFiniteSet(1..Len(Alias[p]))
    BY <1>2, FS_Interval
  <2>2. J(c) \in SUBSET (1..Len(Alias[p]))
    OBVIOUS
  <2> HIDE DEF J
  <2>3. IsFiniteSet(J(c))
    BY <2>1, <2>2, FS_Subset
  <2> QED
    BY <2>3, FS_CardinalityType, FS_EmptySet
<1>4. sum \in Nat /\ (sum = 0 => J(1) = {} /\ J(spillClean) = {} /\ J(spillDirty) = {})
  <2> DEFINE a == Cardinality(J(1))
             b == Cardinality(J(spillClean))
             d == Cardinality(J(spillDirty))
  <2>1. /\ a \in Nat /\ b \in Nat /\ d \in Nat
        /\ a = 0 => J(1) = {}
        /\ b = 0 => J(spillClean) = {}
        /\ d = 0 => J(spillDirty) = {}
    <3> HIDE DEF J
    <3> QED BY <1>3
  <2>2. sum = a + 50 * b + 100 * d
    <3> HIDE DEF J
    <3>1. sum = 1 * a + 50 * b + 100 * d
      BY DEF spillClean, spillDirty
    <3> HIDE DEF a, b, d, sum
    <3> QED BY <2>1, <3>1
  <2> HIDE DEF a, b, d, sum, J
  <2>3. sum \in Nat /\ (sum = 0 => a = 0 /\ b = 0 /\ d = 0)
    BY <2>1, <2>2
  <2> QED
    BY <2>1, <2>3
<1>5. calcSpillCost(s, p) =
        IF isRegUsedInInstr(s, p) THEN spillImpossible
        ELSE IF s.regState[p] = "free" THEN 0
        ELSE IF s.regState[p] # "disabled" THEN CostOf(s, p)
        ELSE IF \E q \in Elements(Alias[p]) : s.regState[q] = "reserved" THEN spillImpossible
        ELSE sum
  BY DEF calcSpillCost
<1> HIDE DEF sum
<1>6. calcSpillCost(s, p) \in Nat
  BY <1>1, <1>4, <1>5, CostIsNatural DEF spillImpossible
<1>7. ASSUME calcSpillCost(s, p) = 0
      PROVE  /\ s.regState[p] \notin VReg
             /\ \A q \in PReg : q # p /\ Overlap(p, q) => s.regState[q] = "disabled"
  <2>1. ~isRegUsedInInstr(s, p)
    BY <1>1, <1>5, <1>7 DEF spillImpossible
  <2>2. s.regState[p] \in {"disabled", "free", "reserved"} \cup VReg
    BY DEF Sound, IsAllocator
  <2>3. s.regState[p] \in {"free", "disabled"}
    BY <1>5, <1>7, <2>1, <2>2, CostIsNatural
  <2>4. s.regState[p] \notin VReg
    BY <2>3, RegisterFacts
  <2>5. CASE s.regState[p] = "free"
    BY <2>4, <2>5 DEF Sound, OneOwner
  <2>6. CASE s.regState[p] = "disabled"
    <3>1. (\A q \in Elements(Alias[p]) : s.regState[q] # "reserved") /\ sum = 0
      BY <1>1, <1>5, <1>7, <2>1, <2>6 DEF spillImpossible
    <3>2. \A j \in 1..Len(Alias[p]) : CostOf(s, Alias[p][j]) \notin {1, spillClean, spillDirty}
      BY <1>4, <3>1
    <3> SUFFICES ASSUME NEW q \in PReg, q # p, Overlap(p, q) PROVE s.regState[q] = "disabled"
      BY <2>4
    <3>3. CostOf(s, q) \notin {1, spillClean, spillDirty} /\ s.regState[q] # "reserved"
      BY <1>2, <3>1, <3>2
    <3>4. s.regState[q] \in {"disabled", "free", "reserved"} \cup VReg
      BY DEF Sound, IsAllocator
    <3> QED
      BY <3>3, <3>4, CostIsNatural
  <2> QED
    BY <2>3, <2>5, <2>6
<1> QED
  BY <1>6, <1>7

-----------------------------------------------------------------------------
(* Giving a virtual register a physical one.                               *)

LEMMA AssignSound ==
    ASSUME NEW s, Sound(s), NEW v \in VReg, s.live[v].phys = NoReg,
           NEW p \in PReg, s.regState[p] \notin VReg,
           \A q \in PReg : q # p /\ Overlap(p, q) => s.regState[q] = "disabled"
    PROVE  Sound(assignVirtToPhysReg(s, v, p))
<1> DEFINE t == assignVirtToPhysReg(s, v, p)
<1>1. /\ DOMAIN t = Members
      /\ t.regState = [s.regState EXCEPT ![p] = v]
      /\ t.live = [s.live EXCEPT ![v].phys = p]
  BY DEF assignVirtToPhysReg, Sound, IsAllocator, Members
<1> HIDE DEF t
<1>2. \A q \in PReg : t.regState[q] = IF q = p THEN v ELSE s.regState[q]
  BY <1>1 DEF Sound, IsAllocator
<1>3. /\ DOMAIN t.live = VReg
      /\ \A w \in VReg : /\ DOMAIN t.live[w] = {"phys", "lastUse", "lastOpNum", "dirty"}
                         /\ t.live[w].phys = IF w = v THEN p ELSE s.live[w].phys
  BY <1>1 DEF Sound, IsAllocator
<1>4. IsAllocator(t)
  <2>1. t.regState \in [PReg -> {"disabled", "free", "reserved"} \cup VReg]
    BY <1>1 DEF Sound, IsAllocator
  <2>2. \A w \in VReg : t.live[w].phys \in PReg \cup {NoReg}
    BY <1>3 DEF Sound, IsAllocator
  <2> QED
    BY <1>1, <1>3, <2>1, <2>2 DEF IsAllocator
<1>5. Agree(t)
  <2> SUFFICES ASSUME NEW w \in VReg, NEW q \in PReg
               PROVE  t.live[w].phys = q <=> t.regState[q] = w
    BY DEF Agree
  <2>1. s.live[w].phys = q <=> s.regState[q] = w
    BY DEF Sound, Agree
  <2>2. q # NoReg
    BY RegisterFacts
  <2>3. CASE w = v
    BY <1>2, <1>3, <2>1, <2>2, <2>3
  <2>4. CASE w # v
    BY <1>2, <1>3, <2>1, <2>4
  <2> QED
    BY <2>3, <2>4
<1>6. OneOwner(t)
  <2> SUFFICES ASSUME NEW a \in PReg, NEW b \in PReg, a # b, Overlap(a, b)
               PROVE  "disabled" \in {t.regState[a], t.regState[b]}
    BY DEF OneOwner
  <2>1. "disabled" \in {s.regState[a], s.regState[b]} /\ Overlap(b, a)
    BY OverlapSymmetric DEF Sound, OneOwner
  <2>2. CASE a = p
    BY <1>2, <2>2
  <2>3. CASE b = p
    BY <1>2, <2>1, <2>3
  <2>4. CASE a # p /\ b # p
    BY <1>2, <2>1, <2>4
  <2> QED
    BY <2>2, <2>3, <2>4
<1> QED
  BY <1>4, <1>5, <1>6 DEF t, Sound

\* After definePhysReg there is room.
LEMMA DefineThenAssign ==
    ASSUME NEW s, Sound(s), NEW v \in VReg, s.live[v].phys = NoReg, NEW p \in PReg
    PROVE  Sound(assignVirtToPhysReg(definePhysReg(s, p, "free"), v, p))
<1> DEFINE u == definePhysReg(s, p, "free")
<1>1. Sound(u) /\ u.regState[p] = "free" /\ u.live[v].phys = NoReg
  BY DefinePhysReg
<1>2. "free" \notin VReg /\ \A q \in PReg : q # p /\ Overlap(p, q) => u.regState[q] = "disabled"
  <2> HIDE DEF u
  <2> QED BY <1>1, RegisterFacts DEF Sound, OneOwner
<1> HIDE DEF u
<1>3. Sound(assignVirtToPhysReg(u, v, p))
  BY <1>1, <1>2, AssignSound
<1> QED
  BY <1>3 DEF u

LEMMA TakeSound ==
    ASSUME NEW s, Sound(s), NEW v \in VReg, s.live[v].phys = NoReg, NEW p \in PReg
    PROVE  Sound(Take(s, v, p))
<1>1. CASE calcSpillCost(s, p) > 0
  BY <1>1, DefineThenAssign DEF Take
<1>2. CASE ~(calcSpillCost(s, p) > 0)
  <2>1. calcSpillCost(s, p) = 0
    BY <1>2, CostFacts
  <2>2. Sound(assignVirtToPhysReg(s, v, p))
    BY <2>1, CostFacts, AssignSound
  <2> QED
    BY <1>2, <2>2 DEF Take
<1> QED
  BY <1>1, <1>2

LEMMA OrderFacts ==
    ASSUME NEW v \in VReg
    PROVE  /\ Len(Order[v]) \in Nat /\ 1 \in 1..Len(Order[v])
           /\ \A i \in 1..Len(Order[v]) : Order[v][i] \in PReg
           /\ \A p : Usable(v, p) => p \in PReg
<1>1. Order[v] \in Seq(PReg) /\ Order[v] # << >>
  BY RegisterFacts
<1>2. Len(Order[v]) \in Nat /\ Len(Order[v]) # 0
  BY <1>1, EmptySeq, LenProperties
<1>3. \A i \in 1..Len(Order[v]) : Order[v][i] \in PReg
  BY <1>1, ElementOfSeq
<1> QED
  BY <1>2, <1>3 DEF Usable, Elements

LEMMA FirstOf ==
    ASSUME NEW S, S \subseteq Nat, S # {}
    PROVE  First(S) \in S
<1>1. \E i \in S : \A j \in S : i <= j
  BY LeastOf
<1> QED
  BY <1>1 DEF First

LEMMA TakeCheapestSound ==
    ASSUME NEW s, Sound(s), NEW v \in VReg, s.live[v].phys = NoReg,
           NEW cost, \A i \in 1..Len(Order[v]) : cost[i] \in Nat
    PROVE  Sound(TakeCheapest(s, v, cost))
<1> DEFINE order == Order[v]
           possible == { i \in 1..Len(order) : cost[i] < spillImpossible }
           cheapest == { i \in possible : \A j \in possible : cost[i] <= cost[j] }
           best == First(cheapest)
           forced == assignVirtToPhysReg(definePhysReg(s, order[1], "free"), v, order[1])
<1>1. TakeCheapest(s, v, cost) =
        IF possible = {} THEN [forced EXCEPT !.errors = TRUE] ELSE Take(s, v, order[best])
  BY DEF TakeCheapest
<1>2. Sound([forced EXCEPT !.errors = TRUE])
  <2>1. order[1] \in PReg
    BY OrderFacts
  <2>2. Sound(forced)
    BY <2>1, DefineThenAssign
  <2> HIDE DEF forced
  <2> QED
    BY <2>2, SameMapsSound DEF SameMaps, Sound, IsAllocator, Members
<1>3. ASSUME possible # {} PROVE Sound(Take(s, v, order[best]))
  <2> DEFINE values == { cost[i] : i \in possible }
  <2>1. possible \subseteq 1..Len(order) /\ possible \subseteq Nat
    BY OrderFacts
  <2>2. values \subseteq Nat /\ values # {}
    <3> HIDE DEF possible
    <3> QED BY <1>3, <2>1
  <2>3. PICK x \in values : \A y \in values : x <= y
    <3> HIDE DEF values
    <3> QED BY <2>2, LeastOf
  <2>4. cheapest # {}
    <3> HIDE DEF possible
    <3> QED BY <2>3
  <2>5. cheapest \subseteq Nat
    <3>1. cheapest \subseteq possible
      OBVIOUS
    <3> HIDE DEF possible, cheapest
    <3> QED BY <2>1, <3>1
  <2>6. best \in cheapest
    <3> HIDE DEF cheapest
    <3> QED BY <2>4, <2>5, FirstOf
  <2>7. best \in 1..Len(order)
    <3> HIDE DEF best
    <3> QED BY <2>6
  <2>8. order[best] \in PReg
    <3> HIDE DEF best
    <3> QED BY <2>7, OrderFacts
  <2> HIDE DEF best, order
  <2> QED
    BY <2>8, TakeSound
<1> QED
  BY <1>1, <1>2, <1>3

LEMMA AllocVirtReg8 ==
    ASSUME NEW s, Sound(s), NEW v \in VReg, s.live[v].phys = NoReg, NEW hint
    PROVE  Sound(allocVirtReg8(s, v, hint))
<1> DEFINE idle == { i \in 1..Len(Order[v]) :
                        s.regState[Order[v][i]] = "free" /\ ~isRegUsedInInstr(s, Order[v][i]) }
<1>1. Usable(v, hint) => Sound(Take(s, v, hint))
  BY OrderFacts, TakeSound
<1>2. ASSUME idle # {} PROVE Sound(assignVirtToPhysReg(s, v, Order[v][First(idle)]))
  <2>1. idle \subseteq Nat
    BY OrderFacts
  <2>2. First(idle) \in idle
    <3> HIDE DEF idle
    <3> QED BY <1>2, <2>1, FirstOf
  <2> DEFINE p == Order[v][First(idle)]
  <2>3. p \in PReg /\ s.regState[p] = "free"
    BY <2>2, OrderFacts
  <2> HIDE DEF p
  <2>4. s.regState[p] \notin VReg /\ \A q \in PReg : q # p /\ Overlap(p, q) => s.regState[q] = "disabled"
    BY <2>3, RegisterFacts DEF Sound, OneOwner
  <2>5. Sound(assignVirtToPhysReg(s, v, p))
    BY <2>3, <2>4, AssignSound
  <2> QED
    BY <2>5 DEF p
<1>3. Sound(TakeCheapest(s, v, Costs(s, v)))
  <2>1. \A i \in 1..Len(Order[v]) : Costs(s, v)[i] \in Nat
    BY OrderFacts, CostFacts DEF Costs
  <2> QED
    BY <2>1, TakeCheapestSound
<1> QED
  BY <1>1, <1>2, <1>3 DEF allocVirtReg8

LEMMA AllocVirtReg10 ==
    ASSUME NEW s, Sound(s), NEW v \in VReg, s.live[v].phys = NoReg, NEW hint
    PROVE  Sound(allocVirtReg10(s, v, hint))
<1> DEFINE traced == traceCopies(s, v)
           hint0 == IF Usable(v, hint) THEN hint ELSE NoReg
           hint1 == IF Usable(v, traced) /\ ~isRegUsedInInstr(s, traced) THEN traced ELSE NoReg
           Cheap(h) == h # NoReg /\ calcSpillCost(s, h) < spillDirty
           idle == { i \in 1..Len(Order[v]) : calcSpillCost(s, Order[v][i]) = 0 }
           preferred == [i \in 1..Len(Order[v]) |->
                            IF Order[v][i] \in {hint0, hint1}
                            THEN (calcSpillCost(s, Order[v][i]) - spillPrefBonus) % (UnsignedMax + 1)
                            ELSE calcSpillCost(s, Order[v][i])]
<1>1. /\ Cheap(hint0) => Sound(Take(s, v, hint0))
      /\ Cheap(hint1) => Sound(Take(s, v, hint1))
  <2> HIDE DEF traced
  <2>1. (hint0 # NoReg => hint0 \in PReg) /\ (hint1 # NoReg => hint1 \in PReg)
    BY OrderFacts
  <2> HIDE DEF hint0, hint1
  <2> QED
    BY <2>1, TakeSound
<1>2. ASSUME idle # {} PROVE Sound(assignVirtToPhysReg(s, v, Order[v][First(idle)]))
  <2>1. idle \subseteq Nat
    BY OrderFacts
  <2>2. First(idle) \in idle
    <3> HIDE DEF idle
    <3> QED BY <1>2, <2>1, FirstOf
  <2> DEFINE p == Order[v][First(idle)]
  <2>3. p \in PReg /\ calcSpillCost(s, p) = 0
    BY <2>2, OrderFacts
  <2> HIDE DEF p
  <2>4. Sound(assignVirtToPhysReg(s, v, p))
    BY <2>3, CostFacts, AssignSound
  <2> QED
    BY <2>4 DEF p
<1>3. Sound(TakeCheapest(s, v, preferred))
  <2>1. \A c \in Nat : (c - spillPrefBonus) % (UnsignedMax + 1) \in Nat
    BY CostAssumption DEF spillPrefBonus
  <2>2. \A i \in 1..Len(Order[v]) : calcSpillCost(s, Order[v][i]) \in Nat
    BY OrderFacts, CostFacts
  <2>3. \A i \in 1..Len(Order[v]) : preferred[i] \in Nat
    <3> HIDE DEF hint0, hint1
    <3> QED BY <2>1, <2>2
  <2> HIDE DEF preferred
  <2> QED
    BY <2>3, TakeCheapestSound
<1>4. allocVirtReg10(s, v, hint) =
        IF Cheap(hint0) THEN Take(s, v, hint0)
        ELSE IF Cheap(hint1) THEN Take(s, v, hint1)
        ELSE IF idle # {} THEN assignVirtToPhysReg(s, v, Order[v][First(idle)])
        ELSE TakeCheapest(s, v, preferred)
  BY DEF allocVirtReg10
<1> HIDE DEF Cheap, idle, preferred, hint0, hint1
<1> QED
  BY <1>1, <1>2, <1>3, <1>4

LEMMA AllocVirtReg ==
    ASSUME NEW s, Sound(s), NEW v \in VReg, s.live[v].phys = NoReg, NEW hint
    PROVE  Sound(allocVirtReg(s, v, hint))
  BY AllocVirtReg8, AllocVirtReg10 DEF allocVirtReg

-----------------------------------------------------------------------------
(* Uses and definitions.                                                   *)

LEMMA NamedSound ==
    ASSUME NEW s, Sound(s), NEW v \in VReg, NEW k, NEW dirty
    PROVE  Sound(Named(s, v, k, dirty))
<1> DEFINE a == markRegUsedInInstr(s, s.live[v].phys)
           new == [phys |-> s.live[v].phys, lastUse |-> s.mi, lastOpNum |-> k, dirty |-> dirty]
           t == [a EXCEPT !.live[v] = new]
<1>1. SameMaps(s, a) /\ DOMAIN s = Members
  BY CodeChanges DEF Sound, IsAllocator
<1>2. DOMAIN new = {"phys", "lastUse", "lastOpNum", "dirty"} /\ new.phys = s.live[v].phys
  OBVIOUS
<1> HIDE DEF a, new
<1>3. /\ DOMAIN t = Members /\ t.regState = s.regState
      /\ t.live = [s.live EXCEPT ![v] = new]
  BY <1>1 DEF SameMaps, Members
<1> HIDE DEF t
<1>4. /\ DOMAIN t.live = VReg
      /\ \A w \in VReg : /\ DOMAIN t.live[w] = {"phys", "lastUse", "lastOpNum", "dirty"}
                         /\ t.live[w].phys = s.live[w].phys
  BY <1>2, <1>3 DEF Sound, IsAllocator
<1>5. IsAllocator(t)
  BY <1>3, <1>4 DEF Sound, IsAllocator
<1>6. Agree(t)
  BY <1>3, <1>4 DEF Sound, Agree
<1>7. OneOwner(t)
  BY <1>3 DEF Sound, OneOwner
<1> QED
  BY <1>5, <1>6, <1>7 DEF Sound, Named, t, a, new

LEMMA ReloadVirtReg ==
    ASSUME NEW s, Sound(s), NEW k, NEW v \in VReg, NEW hint
    PROVE  Sound(reloadVirtReg(s, k, v, hint))
<1> DEFINE flag == s.live[v].dirty /\ isLastUseOfLocalReg(s, v)
           found == SetEnds(s, k, flag)
           loaded == reload(allocVirtReg(s, v, hint), v)
<1>1. Sound(found)
  BY CodeChanges, SameMapsSound DEF Sound, IsAllocator
<1>2. ASSUME s.live[v].phys = NoReg PROVE Sound(loaded)
  <2> DEFINE u == allocVirtReg(s, v, hint)
  <2>1. Sound(u)
    BY <1>2, AllocVirtReg
  <2> HIDE DEF u
  <2>2. PICK c : reload(u, v) = [Insert(u, c) EXCEPT !.slots = @ \cup {v}]
    BY DEF reload
  <2>3. SameMaps(u, Insert(u, c)) /\ DOMAIN u = Members
    BY <2>1, CodeChanges DEF Sound, IsAllocator
  <2>4. SameMaps(u, reload(u, v))
    BY <2>2, <2>3 DEF SameMaps, Members
  <2> QED
    BY <2>1, <2>4, SameMapsSound DEF u
<1> HIDE DEF found, loaded
<1>3. \A x : Sound(x) => Sound(Named(x, v, k, s.live[v].dirty))
  BY NamedSound
<1> QED
  BY <1>1, <1>2, <1>3 DEF reloadVirtReg, found, loaded, flag

LEMMA DefineVirtReg ==
    ASSUME NEW s, Sound(s), NEW k, NEW v \in VReg, NEW hint
    PROVE  Sound(defineVirtReg(s, k, v, hint))
<1>1. s.live[v].phys = NoReg => Sound(allocVirtReg(s, v, CopyHint(s, v, hint)))
  BY AllocVirtReg
<1>2. Sound(addKillFlag(s, {v}))
  BY CodeChanges, SameMapsSound DEF Sound, IsAllocator
<1>3. \A x : Sound(x) => Sound(Named(x, v, k, TRUE))
  BY NamedSound
<1> QED
  BY <1>1, <1>2, <1>3 DEF defineVirtReg

LEMMA SetPhysRegSound ==
    ASSUME NEW s, Sound(s), NEW k, NEW p
    PROVE  Sound(setPhysReg(s, k, p))
  BY SetPhysReg, SameMapsSound DEF Sound, IsAllocator

LEMMA DefinedSound ==
    ASSUME NEW s, Sound(s), NEW k, NEW hint, Ops(s)[k].reg \in VReg
    PROVE  Sound(DefinedOperand(s, k, hint))
<1> DEFINE v == Ops(s)[k].reg
           t == defineVirtReg(s, k, v, hint)
           u == setPhysReg(t, k, t.live[v].phys)
           r == [u EXCEPT !.virtDead = IF Ops(t)[k].ends THEN @ \cup {v} ELSE @]
<1>1. Sound(t)
  BY DefineVirtReg
<1>2. Sound(u)
  <2> HIDE DEF t
  <2> QED BY <1>1, SetPhysRegSound
<1>3. DefinedOperand(s, k, hint) = r
  BY DEF DefinedOperand, Rewritten
<1>4. Sound(r)
  <2> HIDE DEF u, t
  <2>1. SameMaps(u, r)
    BY <1>2 DEF Sound, IsAllocator, SameMaps, Members
  <2> QED
    BY <1>2, <2>1, SameMapsSound
<1> QED
  BY <1>3, <1>4

LEMMA LoadedSound ==
    ASSUME NEW t, Sound(t), NEW k, NEW v \in VReg
    PROVE  Sound(Loaded(t, k, v))
<1> DEFINE p == t.live[v].phys
           a == setPhysReg(t, k, p)
           u == [a EXCEPT !.copySrc = IF @ \in {v, p} THEN p ELSE NoReg]
<1>1. Sound(a)
  BY SetPhysRegSound
<1>2. Sound(u)
  <2> HIDE DEF a, p
  <2>1. SameMaps(a, u)
    BY <1>1 DEF Sound, IsAllocator, SameMaps, Members
  <2> QED
    BY <1>1, <2>1, SameMapsSound
<1> HIDE DEF u
<1>3. Sound(killVirtReg(u, {v}))
  BY <1>2, KillVirtReg, ReleasedSound
<1> QED
  BY <1>2, <1>3 DEF Loaded, u, a, p

\* When LiveVirtRegs is cleared no register is left in it; when everything was
\* spilled first, none is left on the other side either.
LEMMA SpillAll ==
    ASSUME NEW s, Sound(s), NEW onlyLiveOut \in BOOLEAN
    PROVE  LET t == spillAll(s, onlyLiveOut)
           IN  /\ IsAllocator(t) /\ OneOwner(t)
               /\ \A v \in VReg : t.live[v].phys = NoReg
               /\ ~onlyLiveOut => Agree(t)
<1> DEFINE mapped == { v \in VReg : s.live[v].phys # NoReg }
           asked == { v \in mapped : AcrossOut(s, v) }
           V == IF onlyLiveOut THEN { v \in mapped : mayLiveOut(s, v) } ELSE mapped
           u == spillVirtReg(s, V)
           t == [u EXCEPT !.live = [v \in VReg |-> NotLive],
                          !.across = IF onlyLiveOut THEN @ \cup asked ELSE @]
<1>1. V \subseteq VReg
  OBVIOUS
<1>2. Released(s, u, V) /\ Sound(u)
  <2> HIDE DEF V
  <2> QED BY <1>1, SpillVirtReg, ReleasedSound
<1>3. /\ DOMAIN t = Members /\ t.regState = u.regState
      /\ t.live = [v \in VReg |-> NotLive]
  <2> HIDE DEF u, asked
  <2> QED BY <1>2 DEF Sound, IsAllocator, Members
<1>4. /\ DOMAIN NotLive = {"phys", "lastUse", "lastOpNum", "dirty"}
      /\ NotLive.phys = NoReg
  BY DEF NotLive
<1>5. spillAll(s, onlyLiveOut) = t
  BY DEF spillAll
<1>6. ASSUME ~onlyLiveOut PROVE \A p \in PReg : u.regState[p] \notin VReg
  <2> SUFFICES ASSUME NEW p \in PReg PROVE u.regState[p] \notin VReg
    OBVIOUS
  <2>1. s.regState[p] \in VReg => s.regState[p] \in V
    <3> SUFFICES ASSUME s.regState[p] \in VReg PROVE s.regState[p] \in V
      OBVIOUS
    <3>1. s.live[s.regState[p]].phys = p /\ p # NoReg
      BY RegisterFacts DEF Sound, Agree
    <3> QED
      BY <1>6, <3>1
  <2>2. "free" \notin VReg
    BY RegisterFacts
  <2> HIDE DEF V, u
  <2> QED
    BY <1>2, <2>1, <2>2 DEF Released
<1> HIDE DEF t, u, V
<1>7. IsAllocator(t)
  BY <1>2, <1>3, <1>4 DEF Sound, IsAllocator
<1>8. OneOwner(t)
  BY <1>2, <1>3 DEF Sound, OneOwner
<1>9. \A v \in VReg : t.live[v].phys = NoReg
  BY <1>3, <1>4
<1>10. ~onlyLiveOut => Agree(t)
  BY <1>3, <1>6, <1>9, RegisterFacts DEF Agree
<1> QED
  BY <1>5, <1>7, <1>8, <1>9, <1>10

-----------------------------------------------------------------------------
(* The inductive invariant, and every step.                                *)

\* Between blocks LiveVirtRegs is empty, and PhysRegState is set up again when
\* the next block begins.
IInv ==
    /\ IsAllocator(ra) /\ OneOwner(ra)
    /\ pc \notin {"block", "done"} => Agree(ra)
    /\ pc = "block" => \A v \in VReg : ra.live[v].phys = NoReg

LEMMA InvInit == Init => IInv
<1> SUFFICES ASSUME Init PROVE IInv
  OBVIOUS
<1>1. pc = "block" /\ ra = Start(input.blocks)
  BY DEF Init
<1>2. /\ DOMAIN ra = Members
      /\ ra.regState = [p \in PReg |-> "disabled"]
      /\ ra.live = [v \in VReg |-> NotLive]
  BY <1>1 DEF Start, Members
<1>3. DOMAIN NotLive = {"phys", "lastUse", "lastOpNum", "dirty"} /\ NotLive.phys = NoReg
  BY DEF NotLive
<1> QED
  BY <1>1, <1>2, <1>3 DEF IInv, IsAllocator, OneOwner

\* Inside a block sound tables are all that the invariant asks for.
LEMMA InvFromSound == ASSUME Sound(ra'), pc' \notin {"block", "done"} PROVE IInv'
  BY DEF IInv, Sound

LEMMA InvBlocks == IInv /\ (BeginBlock \/ LiveIn \/ EndBlock \/ runOnMachineFunction) => IInv'
<1> SUFFICES ASSUME IInv, BeginBlock \/ LiveIn \/ EndBlock \/ runOnMachineFunction PROVE IInv'
  OBVIOUS
<1>1. CASE BeginBlock
  <2>1. /\ pc = "block" /\ pc' = "live-ins"
        /\ ra' = [ra EXCEPT !.mbb = @ + 1, !.mi = 1, !.regState = [p \in PReg |-> "disabled"],
                            !.virtDead = {}, !.coalesced = {}]
    BY <1>1 DEF BeginBlock, Between
  <2>2. /\ DOMAIN ra' = Members /\ ra'.live = ra.live
        /\ ra'.regState = [p \in PReg |-> "disabled"]
    BY <2>1 DEF IInv, IsAllocator, Members
  <2>3. IsAllocator(ra') /\ OneOwner(ra')
    BY <2>2 DEF IInv, IsAllocator, OneOwner
  <2>4. Agree(ra')
    BY <2>1, <2>2, RegisterFacts DEF IInv, Agree
  <2> QED
    BY <2>1, <2>3, <2>4 DEF IInv
<1>2. CASE LiveIn
  <2>1. pc = "live-ins" /\ pc' \in {"live-ins", "instruction"} /\ Sound(ra)
    BY <1>2 DEF LiveIn, IInv, Sound
  <2>2. ra' = ra \/ ra' = definePhysReg(ra, input.liveins[ra.mbb][opnum], "reserved")
    BY <1>2 DEF LiveIn
  <2>3. Sound(ra')
    BY <2>1, <2>2, DefinePhysReg
  <2> QED
    BY <2>1, <2>3 DEF IInv, Sound
<1>3. CASE EndBlock
  <2> DEFINE code == Block(ra)
             first == FirstTerminator(code)
             a == [ra EXCEPT !.mi = IF first <= Len(code) THEN code[first].id ELSE @]
             s == spillAll(a, version = 10)
  <2>1. /\ pc = "instruction" /\ pc' = "block"
        /\ \E c : ra' = [s EXCEPT !.fn[ra.mbb] = c]
    BY <1>3 DEF EndBlock, Between
  <2>2. Sound(ra)
    BY <2>1 DEF IInv, Sound
  <2>3. Sound(a)
    <3>1. SameMaps(ra, a)
      BY <2>2 DEF SameMaps, Sound, IsAllocator, Members
    <3> QED
      BY <2>2, <3>1, SameMapsSound
  <2>4. IsAllocator(s) /\ OneOwner(s) /\ \A v \in VReg : s.live[v].phys = NoReg
    <3>1. (version = 10) \in BOOLEAN
      OBVIOUS
    <3> HIDE DEF a
    <3> QED BY <2>3, <3>1, SpillAll
  <2>5. DOMAIN ra' = Members /\ ra'.regState = s.regState /\ ra'.live = s.live
    <3> HIDE DEF s
    <3> QED BY <2>1, <2>4 DEF IsAllocator, Members
  <2> HIDE DEF s
  <2>6. IsAllocator(ra') /\ OneOwner(ra') /\ \A v \in VReg : ra'.live[v].phys = NoReg
    BY <2>4, <2>5 DEF IsAllocator, OneOwner
  <2> QED
    BY <2>1, <2>6 DEF IInv
<1>4. CASE runOnMachineFunction
  <2>1. pc' = "done" /\ ra' = [ra EXCEPT !.slots = {}, !.dbg = {}]
    BY <1>4 DEF runOnMachineFunction, Between
  <2>2. DOMAIN ra' = Members /\ ra'.regState = ra.regState /\ ra'.live = ra.live
    BY <2>1 DEF IInv, IsAllocator, Members
  <2>3. IsAllocator(ra') /\ OneOwner(ra')
    BY <2>2 DEF IInv, IsAllocator, OneOwner
  <2> QED
    BY <2>1, <2>3 DEF IInv
<1> QED
  BY <1>1, <1>2, <1>3, <1>4

\* Assignments to the other members.
LEMMA Elsewhere ==
    ASSUME NEW s, Sound(s), NEW t, DOMAIN t = DOMAIN s, t.regState = s.regState, t.live = s.live
    PROVE  Sound(t)
  BY SameMapsSound DEF SameMaps

LEMMA InvFirst == IInv /\ (handleDebugValue \/ allocateInstruction \/ FirstScan) => IInv'
<1> SUFFICES ASSUME IInv, handleDebugValue \/ allocateInstruction \/ FirstScan PROVE IInv'
  OBVIOUS
<1> USE DEF Members
<1>1. CASE handleDebugValue
  <2> DEFINE v == MI(ra).ops[1].reg
             p == ra.live[v].phys
             a == setPhysReg(ra, 1, p)
             b == SetOp(ra, 1, [MI(ra).ops[1] EXCEPT !.reg = NoReg])
             c == Instr(ra.mi, "dbg", << Use(NoReg) >>, v)
             s == IF ~IsVirtual(MI(ra).ops[1]) THEN ra
                  ELSE IF p # NoReg THEN [a EXCEPT !.dbg = @ \cup {v}]
                  ELSE IF v \in ra.slots
                       THEN [ra EXCEPT !.fn[ra.mbb][Position(Block(ra), ra.mi)] = c]
                  ELSE [b EXCEPT !.dbg = @ \cup {v}]
  <2>1. pc = "instruction" /\ pc' = "instruction" /\ ra' = [s EXCEPT !.mi = @ + 1]
    BY <1>1 DEF handleDebugValue, Between
  <2>2. Sound(ra)
    BY <2>1 DEF IInv, Sound
  <2>3. Sound(a)
    BY <2>2, SetPhysRegSound
  <2>4. Sound(b)
    BY <2>2, CodeChanges, SameMapsSound DEF Sound, IsAllocator
  <2>5. Sound(s)
    <3> HIDE DEF a, b, c, p, v
    <3>1. Sound([a EXCEPT !.dbg = @ \cup {v}])
      BY <2>3, Elsewhere DEF Sound, IsAllocator
    <3>2. Sound([b EXCEPT !.dbg = @ \cup {v}])
      BY <2>4, Elsewhere DEF Sound, IsAllocator
    <3>3. Sound([ra EXCEPT !.fn[ra.mbb][Position(Block(ra), ra.mi)] = c])
      BY <2>2, Elsewhere DEF Sound, IsAllocator
    <3> QED
      BY <2>2, <3>1, <3>2, <3>3
  <2> HIDE DEF s
  <2>6. Sound(ra')
    BY <2>1, <2>5, Elsewhere DEF Sound, IsAllocator
  <2> QED
    BY <2>1, <2>6, InvFromSound
<1>2. CASE allocateInstruction
  <2>1. pc = "instruction" /\ pc' = "first scan" /\ Sound(ra)
    BY <1>2 DEF allocateInstruction, Between, IInv, Sound
  <2>2. DOMAIN ra' = DOMAIN ra /\ ra'.regState = ra.regState /\ ra'.live = ra.live
    BY <1>2, <2>1 DEF allocateInstruction, Between, Sound, IsAllocator
  <2>3. Sound(ra')
    BY <2>1, <2>2, Elsewhere
  <2> QED
    BY <2>1, <2>3, InvFromSound
<1>3. CASE FirstScan
  <2>1. Sound(ra) => Sound(FirstScanOperand(opnum))
    BY UsePhysReg, DefinePhysReg DEF FirstScanOperand, IsPhysical
  <2>a. /\ pc = "first scan" /\ pc' \in {"first scan", "through?"}
        /\ ra' = FirstScanOperand(opnum) \/ ra' = ra
    BY <1>3 DEF FirstScan, Scan
  <2>b. Sound(ra)
    BY <2>a DEF IInv, Sound
  <2> QED
    BY <2>1, <2>a, <2>b, InvFromSound
<1> QED
  BY <1>1, <1>2, <1>3

LEMMA InvThrough == IInv /\ (HandleCollisions \/ TiedUses \/ EarlyClobbers \/ RestoreUsed) => IInv'
<1> SUFFICES ASSUME IInv, HandleCollisions \/ TiedUses \/ EarlyClobbers \/ RestoreUsed PROVE IInv'
  OBVIOUS
<1> USE DEF Members
<1>1. CASE HandleCollisions
  <2> DEFINE defs == { o.reg : o \in { o \in Elements(Ops(ra)) : IsPhysical(o) /\ o.def } }
             hit == { q \in PReg : /\ ra.regState[q] \in Through(MI(ra))
                                   /\ \E p \in defs : Overlap(p, q) }
             a == spillVirtReg(ra, Allocated(ra, hit))
             s == [a EXCEPT !.used = @ \cup UNION { Units(p) : p \in defs \cup hit },
                            !.copyDst = NoReg, !.earlyClobbers = TRUE]
  <2>1. pc = "through?" /\ pc' \in {"tied uses", "uses"} /\ (ra' = s \/ ra' = ra)
    BY <1>1 DEF HandleCollisions, Between
  <2>2. Sound(ra)
    BY <2>1 DEF IInv, Sound
  <2> HIDE DEF defs, hit
  <2>3. Allocated(ra, hit) \subseteq VReg
    BY DEF Allocated
  <2>4. Sound(a)
    BY <2>2, <2>3, SpillVirtReg, ReleasedSound
  <2> HIDE DEF a
  <2>5. Sound(s)
    BY <2>4, Elsewhere DEF Sound, IsAllocator
  <2> QED
    BY <2>1, <2>2, <2>5, InvFromSound
<1>2. CASE TiedUses
  <2>1. ASSUME Sound(ra) PROVE Sound(TiedOperand(opnum))
    <3> DEFINE o == Ops(ra)[opnum]
               t == reloadVirtReg(ra, opnum, o.reg, NoReg)
               a == setPhysReg(t, opnum, t.live[o.reg].phys)
               b == [t EXCEPT !.partialDefs = @ \cup {t.live[o.reg].phys}]
    <3>1. TiedOperand(opnum) \in {ra, a, b} /\ (~IsVirtual(o) => TiedOperand(opnum) = ra)
      BY DEF TiedOperand
    <3>2. ASSUME IsVirtual(o) PROVE Sound(a) /\ Sound(b)
      <4>1. Sound(t)
        BY <2>1, <3>2, ReloadVirtReg DEF IsVirtual
      <4> HIDE DEF t, o
      <4>2. Sound(a)
        BY <4>1, SetPhysRegSound
      <4>3. Sound(b)
        BY <4>1, Elsewhere DEF Sound, IsAllocator
      <4> QED
        BY <4>2, <4>3
    <3> HIDE DEF a, b, o
    <3> QED
      BY <2>1, <3>1, <3>2
  <2>a. /\ pc = "tied uses" /\ pc' \in {"tied uses", "early clobbers"}
        /\ ra' = TiedOperand(opnum) \/ ra' = ra
    BY <1>2 DEF TiedUses, Scan
  <2>b. Sound(ra)
    BY <2>a DEF IInv, Sound
  <2> QED
    BY <2>1, <2>a, <2>b, InvFromSound
<1>3. CASE EarlyClobbers
  <2>1. Sound(ra) => Sound(EarlyClobberOperand(opnum))
    BY DefinedSound DEF EarlyClobberOperand, IsVirtual
  <2>a. /\ pc = "early clobbers" /\ pc' \in {"early clobbers", "restore"}
        /\ ra' = EarlyClobberOperand(opnum) \/ ra' = ra
    BY <1>3 DEF EarlyClobbers, Scan
  <2>b. Sound(ra)
    BY <2>a DEF IInv, Sound
  <2> QED
    BY <2>1, <2>a, <2>b, InvFromSound
<1>4. CASE RestoreUsed
  <2>1. pc = "restore" /\ pc' = "uses" /\ Sound(ra)
    BY <1>4 DEF RestoreUsed, Between, IInv, Sound
  <2>2. DOMAIN ra' = DOMAIN ra /\ ra'.regState = ra.regState /\ ra'.live = ra.live
    BY <1>4, <2>1 DEF RestoreUsed, Between, Sound, IsAllocator
  <2>3. Sound(ra')
    BY <2>1, <2>2, Elsewhere
  <2> QED
    BY <2>1, <2>3, InvFromSound
<1> QED
  BY <1>1, <1>2, <1>3, <1>4

LEMMA InvUses == IInv /\ (Uses \/ UndefUses \/ BeforeDefs) => IInv'
<1> SUFFICES ASSUME IInv, Uses \/ UndefUses \/ BeforeDefs PROVE IInv'
  OBVIOUS
<1> USE DEF Members
<1>1. CASE Uses
  <2>1. ASSUME Sound(ra) PROVE Sound(UseOperand(opnum))
    <3> DEFINE o == Ops(ra)[opnum]
               s == IF version = 8 THEN ra ELSE mayLiveIn(ra, o.reg)
               t == reloadVirtReg(s, opnum, o.reg, ra.copyDst)
    <3>1. UseOperand(opnum) \in {ra, Loaded(t, opnum, o.reg)}
          /\ (~IsVirtual(o) => UseOperand(opnum) = ra)
      BY DEF UseOperand
    <3>2. Sound(s)
      <4>1. Sound([ra EXCEPT !.across = @ \cup {o.reg}])
        BY <2>1, Elsewhere DEF Sound, IsAllocator
      <4> QED
        BY <2>1, <4>1 DEF mayLiveIn
    <3>3. ASSUME IsVirtual(o) PROVE Sound(Loaded(t, opnum, o.reg))
      <4>1. o.reg \in VReg
        BY <3>3 DEF IsVirtual
      <4> HIDE DEF s, o
      <4>2. Sound(t)
        BY <3>2, <4>1, ReloadVirtReg
      <4> HIDE DEF t
      <4> QED
        BY <4>1, <4>2, LoadedSound
    <3> HIDE DEF t, o
    <3> QED
      BY <2>1, <3>1, <3>3
  <2>a. /\ pc = "uses" /\ pc' \in {"uses", "undef uses"}
        /\ ra' = UseOperand(opnum) \/ ra' = ra
    BY <1>1 DEF Uses, Scan
  <2>b. Sound(ra)
    BY <2>a DEF IInv, Sound
  <2> QED
    BY <2>1, <2>a, <2>b, InvFromSound
<1>2. CASE UndefUses
  <2> DEFINE ops == MapSeq([k \in 1..Len(Ops(ra)) |-> allocVirtRegUndef(ra, Ops(ra)[k])])
  <2>1. pc = "undef uses" /\ pc' = "before defs" /\ ra' = SetOps(ra, ops)
    BY <1>2 DEF UndefUses, Between
  <2> HIDE DEF ops
  <2>2. Sound(ra)
    BY <2>1 DEF IInv, Sound
  <2>3. Sound(SetOps(ra, ops))
    BY <2>2, CodeChanges, SameMapsSound DEF Sound, IsAllocator
  <2> QED
    BY <2>1, <2>3, InvFromSound
<1>3. CASE BeforeDefs
  <2> DEFINE kept == { o.reg : o \in { o \in Elements(Ops(ra)) : IsPhysical(o) /\ (o.def \/ o.tied # 0) } }
             s == [ra EXCEPT !.opEnd = Len(Ops(ra)),
                             !.used = IF ra.earlyClobbers THEN UNION { Units(p) : p \in kept } ELSE {}]
  <2>1. /\ pc = "before defs" /\ pc' \in {"defs", "physical defs"}
        /\ ra' = s \/ ra' = spillAll(s, FALSE)
    BY <1>3 DEF BeforeDefs, Between
  <2>2. Sound(ra)
    BY <2>1 DEF IInv, Sound
  <2> HIDE DEF kept
  <2>3. Sound(s)
    BY <2>2, Elsewhere DEF Sound, IsAllocator
  <2> HIDE DEF s
  <2>4. Sound(spillAll(s, FALSE))
    BY <2>3, SpillAll DEF Sound
  <2> QED
    BY <2>1, <2>3, <2>4, InvFromSound
<1> QED
  BY <1>1, <1>2, <1>3

LEMMA InvDefs == IInv /\ (PhysicalDefs \/ Definitions \/ FinishInstruction) => IInv'
<1> SUFFICES ASSUME IInv, PhysicalDefs \/ Definitions \/ FinishInstruction PROVE IInv'
  OBVIOUS
<1> USE DEF Members
<1>1. Sound(ra) => Sound(PhysDefOperand(opnum))
  BY DefinePhysReg DEF PhysDefOperand
<1>2. CASE PhysicalDefs
  <2>1. /\ pc = "physical defs" /\ pc' \in {"physical defs", "defs"}
        /\ ra' = PhysDefOperand(opnum) \/ ra' = ra
    BY <1>2 DEF PhysicalDefs, Scan
  <2>2. Sound(ra)
    BY <2>1 DEF IInv, Sound
  <2> QED
    BY <1>1, <2>1, <2>2, InvFromSound
<1>3. CASE Definitions
  <2>1. ASSUME Sound(ra) PROVE Sound(VirtDefOperand(opnum))
    <3> DEFINE o == Ops(ra)[opnum]
               t == DefinedOperand(ra, opnum, ra.copySrc)
               p == t.live[o.reg].phys
               u == [t EXCEPT !.copyDst = IF ~o.ends /\ @ \in {o.reg, p} THEN p ELSE NoReg]
    <3>1. VirtDefOperand(opnum) \in {ra, u} /\ (~IsVirtual(o) => VirtDefOperand(opnum) = ra)
      BY DEF VirtDefOperand
    <3>2. ASSUME IsVirtual(o) PROVE Sound(u)
      <4>1. Sound(t)
        BY <2>1, <3>2, DefinedSound DEF IsVirtual
      <4> HIDE DEF t, o, p
      <4> QED
        BY <4>1, Elsewhere DEF Sound, IsAllocator
    <3> HIDE DEF u, o
    <3> QED
      BY <2>1, <3>1, <3>2
  <2>2. Sound(ra) => Sound(DefOperand(opnum))
    BY <1>1, <2>1 DEF DefOperand
  <2>3. /\ pc = "defs" /\ pc' \in {"defs", "finish"}
        /\ ra' = DefOperand(opnum) \/ ra' = ra
    BY <1>3 DEF Definitions, Scan
  <2>4. Sound(ra)
    BY <2>3 DEF IInv, Sound
  <2> QED
    BY <2>2, <2>3, <2>4, InvFromSound
<1>4. CASE FinishInstruction
  <2> DEFINE V == { v \in VReg : v \in ra.virtDead /\ ra.live[v].phys # NoReg }
             a == killVirtReg(ra, V)
  <2> HIDE DEF V
  <2>1. pc = "finish" /\ pc' = "instruction" /\ Sound(ra)
    BY <1>4 DEF FinishInstruction, Between, IInv, Sound
  <2>2. V \subseteq VReg
    BY DEF V
  <2>3. Sound(a)
    BY <2>1, <2>2, KillVirtReg, ReleasedSound
  <2>4. DOMAIN ra' = DOMAIN a /\ ra'.regState = a.regState /\ ra'.live = a.live
    <3>1. \E c : ra' = [a EXCEPT !.virtDead = {}, !.mi = @ + 1, !.coalesced = c]
      BY <1>4 DEF FinishInstruction, Between, V
    <3> HIDE DEF a
    <3> QED
      BY <2>3, <3>1 DEF Sound, IsAllocator
  <2>5. Sound(ra')
    <3> HIDE DEF a
    <3> QED BY <2>3, <2>4, Elsewhere
  <2> QED
    BY <2>1, <2>5, InvFromSound
<1> QED
  BY <1>2, <1>3, <1>4

LEMMA InvStep == IInv /\ [Next]_vars => IInv'
<1> SUFFICES ASSUME IInv, [Next]_vars PROVE IInv'
  OBVIOUS
<1>1. CASE UNCHANGED vars
  BY <1>1 DEF vars, IInv
<1>2. CASE Done
  BY <1>1, <1>2 DEF Done
<1> QED
  BY <1>1, <1>2, InvBlocks, InvFirst, InvThrough, InvUses, InvDefs DEF Next

LEMMA InvHolds == Spec => []IInv
  BY InvInit, InvStep, PTL DEF Spec

-----------------------------------------------------------------------------
(* The code.  What the allocator does to the instructions of a block:      *)
(* some are added, which name no virtual register, and the operands of the *)
(* others are rewritten or followed by physical ones.                      *)

Code == Seq(Instrs)

Settled(i) == \A k \in 1..Len(i.ops) : ~IsVirtual(i.ops[k])

Added == { i \in Instrs : i.id = 0 /\ i.op # "copy" /\ Settled(i) }

\* The operands that the coming step may give a physical register: virtual ones
\* of the instruction being allocated, which has id d, and those it has come to.
WasVirtual(d, k) == d = ra.mi /\ IsVirtual(Ops(ra)[k])

Turns(d, k) ==
    /\ WasVirtual(d, k)
    /\ \/ pc = "instruction"
       \/ pc \in {"tied uses", "uses"} /\ k = opnum /\ ~Ops(ra)[k].def
       \/ pc = "undef uses" /\ ~Ops(ra)[k].def
       \/ pc = "early clobbers" /\ k = opnum /\ Ops(ra)[k].early
       \/ pc = "defs" /\ k = opnum

\* It may add a definition of the whole register to one of a part.
AddsDef ==
    \/ pc \in {"instruction", "defs"}
    \/ /\ pc = "early clobbers"
       /\ LET o == Ops(ra)[opnum] IN IsVirtual(o) /\ o.early /\ o.undef

\* Instruction i2 is i, later; d is its id, k the place of an operand.
SameOperand(o, o2) ==
    /\ o2.def = o.def /\ o2.early = o.early /\ o2.undef = o.undef /\ o2.implicit = o.implicit
    /\ o2.reg = o.reg \/ ~IsVirtual(o2)

KeptOperand(d, k, o, o2) ==
    /\ SameOperand(o, o2)
    /\ o2.reg = o.reg \/ Turns(d, k)
    /\ o.def => o2.ends = o.ends \/ WasVirtual(d, k)

Later(i, i2) ==
    /\ i2.id = i.id /\ i2.op = i.op /\ Len(i2.ops) >= Len(i.ops)
    /\ Len(i2.ops) = Len(i.ops) \/ (i.id = ra.mi /\ pc # "live-ins")
    /\ \A k \in 1..Len(i2.ops) : IF k <= Len(i.ops) THEN KeptOperand(i.id, k, i.ops[k], i2.ops[k])
                                 ELSE ~IsVirtual(i2.ops[k]) /\ (i2.ops[k].def => AddsDef)

\* An id is found in one place.
Once(c, d) == \E j \in 1..Len(c) : c[j].id = d /\ \A h \in 1..Len(c) : c[h].id = d => h = j

Grown(c, c2) ==
    /\ c2 \in Code
    /\ \A j \in 1..Len(c2) : c2[j] \in Added \/ \E h \in 1..Len(c) : Later(c[h], c2[j])
    /\ \A d \in Nat \ {0} : Once(c, d) => Once(c2, d)

Coded(s) ==
    /\ DOMAIN s = Members
    /\ s.fn \in Seq(Code) /\ s.mbb \in 1..Len(s.fn)
    /\ s.slots \cup s.across \cup s.dbg \cup s.virtDead \subseteq VReg

\* What all the methods do, from a state to a later one in the same instruction.
Moves(s, t) ==
    /\ Coded(t)
    /\ t.mbb = s.mbb /\ t.mi = s.mi /\ t.opEnd = s.opEnd
    /\ Len(t.fn) = Len(s.fn) /\ \A b \in 1..Len(s.fn) : b # s.mbb => t.fn[b] = s.fn[b]
    /\ Grown(Block(s), Block(t))

\* The instruction that is being allocated is there.
Here(s) == s.mi = ra.mi /\ s.mi \in Nat \ {0} /\ Once(Block(s), s.mi)

-----------------------------------------------------------------------------
(* The invariant of the code.                                              *)

AllSettled(c) == \A j \in 1..Len(c) : Settled(c[j])

NoCopy(c) == \A j \in 1..Len(c) : c[j].op # "copy"
NoCopies(f) == \A b \in 1..Len(f) : NoCopy(f[b])

\* Blocks done, and blocks to come.
BlocksInv(s) ==
    /\ DOMAIN s = Members /\ s.fn \in Seq(Code) /\ Len(s.fn) = Len(input.blocks)
    /\ s.mbb \in 0..Len(s.fn) /\ s.mi \in Nat
    /\ s.slots \cup s.across \cup s.dbg \cup s.virtDead \subseteq VReg
    /\ \A b \in 1..Len(s.fn) : /\ b < s.mbb => AllSettled(s.fn[b])
                               /\ b > s.mbb => s.fn[b] = input.blocks[b]
    /\ NoCopies(input.blocks) => NoCopies(s.fn)

\* A debug value names at most one virtual register, in its first operand.
DebugOK(i) == i.op = "dbg" => Len(i.ops) >= 1 /\ \A k \in 2..Len(i.ops) : ~IsVirtual(i.ops[k])

\* An instruction as it came, apart from kill flags.
Untouched(i, i2) ==
    /\ i2.op = i.op /\ Len(i2.ops) = Len(i.ops)
    /\ \A k \in 1..Len(i.ops) :
          /\ SameOperand(i.ops[k], i2.ops[k]) /\ i2.ops[k].reg = i.ops[k].reg
          /\ IsPhysical(i.ops[k]) /\ i.ops[k].def => i2.ops[k].ends = i.ops[k].ends

\* The block in progress: what came in is there once, is settled before mi and
\* as it came after mi; Fresh adds the one at mi.
BlockInv(s) ==
    LET n == Len(input.blocks[s.mbb])
    IN  /\ s.mbb # 0 /\ s.mi \in 1..(n + 1)
        /\ \A d \in 1..n : Once(Block(s), d)
        /\ \A j \in 1..Len(Block(s)) :
             LET i == Block(s)[j]
             IN  /\ i.id \in 0..n /\ (i.id < s.mi => Settled(i)) /\ (i.id # 0 => DebugOK(i))
                 /\ i.id > s.mi => Untouched(input.blocks[s.mbb][i.id], i)

Fresh(s) ==
    \A j \in 1..Len(Block(s)) :
        Block(s)[j].id = s.mi => Untouched(input.blocks[s.mbb][s.mi], Block(s)[j])

Scanning == {"first scan", "through?", "tied uses", "early clobbers", "restore", "uses",
             "undef uses", "before defs", "physical defs", "defs", "finish"}

\* What a scan that has come to operand n has left in operand k: operands after
\* opEnd were added, early clobbers come first, then uses, then definitions.
LeftIn(o, k, end, scan, n) ==
    /\ k > end => ~IsVirtual(o)
    /\ scan = "early clobbers" /\ k < n => ~(IsVirtual(o) /\ o.early /\ o.def)
    /\ scan \in {"restore", "uses", "undef uses"} => ~(IsVirtual(o) /\ o.early /\ o.def)
    /\ scan \in {"before defs", "physical defs", "defs"} /\ IsVirtual(o) => o.def /\ ~o.early
    /\ scan = "defs" /\ k < n => ~IsVirtual(o)
    /\ scan = "finish" => ~IsVirtual(o)

ScanInv(s, scan, n) ==
    /\ s.mi <= Len(input.blocks[s.mbb])
    /\ s.opEnd \in 0..Len(Ops(s))
    /\ \A k \in 1..Len(Ops(s)) : LeftIn(Ops(s)[k], k, s.opEnd, scan, n)

CodeInv ==
    /\ version \in {8, 10} /\ input \in Functions[version] /\ opnum \in Nat \ {0}
    /\ BlocksInv(ra)
    /\ pc \in {"block", "done"} /\ ra.mbb # 0 => AllSettled(Block(ra))
    /\ pc = "done" => ra.mbb = Len(ra.fn)
    /\ pc \notin {"block", "done"} => BlockInv(ra)
    /\ pc \in {"live-ins", "instruction"} => Fresh(ra)
    /\ pc \in Scanning => ScanInv(ra, pc, opnum)

-----------------------------------------------------------------------------
LEMMA InstrFacts ==
    ASSUME NEW i \in Instrs
    PROVE  /\ i.id \in Nat /\ i.op \in Opcodes /\ i.ops \in Seq(Operands) /\ Len(i.ops) \in Nat
           /\ i.slot \in VReg \cup {NoReg}
           /\ i = [id |-> i.id, op |-> i.op, ops |-> i.ops, slot |-> i.slot]
           /\ \A k \in 1..Len(i.ops) : i.ops[k] \in Operands
           /\ \A ops \in Seq(Operands) : /\ [i EXCEPT !.ops = ops] \in Instrs
                                         /\ [i EXCEPT !.ops = ops].id = i.id
                                         /\ [i EXCEPT !.ops = ops].op = i.op
                                         /\ [i EXCEPT !.ops = ops].ops = ops
<1>1. i.id \in Nat /\ i.op \in Opcodes /\ i.ops \in Seq(Operands) /\ i.slot \in VReg \cup {NoReg}
      /\ i = [id |-> i.id, op |-> i.op, ops |-> i.ops, slot |-> i.slot]
  BY DEF Instrs
<1>2. Len(i.ops) \in Nat /\ \A k \in 1..Len(i.ops) : i.ops[k] \in Operands
  BY <1>1, LenProperties, ElementOfSeq
<1>3. ASSUME NEW ops \in Seq(Operands)
      PROVE  /\ [i EXCEPT !.ops = ops] \in Instrs
             /\ [i EXCEPT !.ops = ops].id = i.id /\ [i EXCEPT !.ops = ops].op = i.op
             /\ [i EXCEPT !.ops = ops].ops = ops
  BY DEF Instrs
<1> QED
  BY <1>1, <1>2, <1>3

LEMMA CodeFacts ==
    ASSUME NEW c \in Code
    PROVE  Len(c) \in Nat /\ DOMAIN c = 1..Len(c) /\ \A j \in 1..Len(c) : c[j] \in Instrs
  BY LenProperties, ElementOfSeq DEF Code

LEMMA LaterSelf == \A i : Len(i.ops) \in Nat => Later(i, i)
  BY DEF Later, SameOperand, KeptOperand

LEMMA LaterOn ==
    ASSUME NEW i1 \in Instrs, NEW i2 \in Instrs, NEW i3 \in Instrs, Later(i1, i2), Later(i2, i3)
    PROVE  Later(i1, i3)
<1>1. Len(i1.ops) \in Nat /\ Len(i2.ops) \in Nat /\ Len(i3.ops) \in Nat
  BY InstrFacts
<1>2. Len(i2.ops) >= Len(i1.ops) /\ Len(i3.ops) >= Len(i2.ops)
  BY DEF Later
<1>3. ASSUME NEW k \in 1..Len(i3.ops)
      PROVE  IF k <= Len(i1.ops) THEN KeptOperand(i1.id, k, i1.ops[k], i3.ops[k])
             ELSE ~IsVirtual(i3.ops[k]) /\ (i3.ops[k].def => AddsDef)
  <2>1. CASE k <= Len(i1.ops)
    <3>1. k \in 1..Len(i2.ops) /\ k <= Len(i2.ops)
      BY <1>1, <1>2, <2>1
    <3>2. KeptOperand(i1.id, k, i1.ops[k], i2.ops[k]) /\ KeptOperand(i1.id, k, i2.ops[k], i3.ops[k])
      BY <2>1, <3>1 DEF Later
    <3>3. SameOperand(i1.ops[k], i3.ops[k])
      BY <3>2 DEF KeptOperand, SameOperand, IsVirtual
    <3>4. KeptOperand(i1.id, k, i1.ops[k], i3.ops[k])
      BY <3>2, <3>3 DEF KeptOperand, SameOperand
    <3> QED
      BY <2>1, <3>4
  <2>2. CASE ~(k <= Len(i1.ops)) /\ k <= Len(i2.ops)
    <3>1. k \in 1..Len(i2.ops)
      BY <1>1, <2>2
    <3>2. ~IsVirtual(i2.ops[k]) /\ (i2.ops[k].def => AddsDef) /\ SameOperand(i2.ops[k], i3.ops[k])
      BY <2>2, <3>1 DEF Later, KeptOperand
    <3> QED
      BY <2>2, <3>2 DEF SameOperand, IsVirtual
  <2>3. CASE ~(k <= Len(i1.ops)) /\ ~(k <= Len(i2.ops))
    BY <2>3 DEF Later
  <2> QED
    BY <2>1, <2>2, <2>3
<1> QED
  BY <1>1, <1>2, <1>3 DEF Later

\* What is settled stays so, and what was added is not told from it.
LEMMA LaterSettled ==
    ASSUME NEW i \in Instrs, NEW i2 \in Instrs, Later(i, i2), Settled(i)
    PROVE  Settled(i2)
<1>1. Len(i.ops) \in Nat /\ Len(i2.ops) \in Nat
  BY InstrFacts
<1> QED
  BY <1>1 DEF Later, KeptOperand, SameOperand, Settled, IsVirtual

\* What has not been touched is not, unless it is the one being allocated.
LEMMA UntouchedLater ==
    ASSUME NEW i0, NEW i \in Instrs, NEW i2 \in Instrs, Untouched(i0, i), Later(i, i2),
           i.id # ra.mi \/ (pc = "live-ins" /\ i = MI(ra))
    PROVE  Untouched(i0, i2)
<1>1. Len(i.ops) \in Nat /\ Len(i2.ops) = Len(i.ops) /\ Len(i0.ops) = Len(i.ops) /\ i2.op = i0.op
  BY InstrFacts DEF Later, Untouched
<1>2. ASSUME NEW k \in 1..Len(i.ops)
      PROVE  /\ SameOperand(i0.ops[k], i2.ops[k]) /\ i2.ops[k].reg = i0.ops[k].reg
             /\ IsPhysical(i0.ops[k]) /\ i0.ops[k].def => i2.ops[k].ends = i0.ops[k].ends
  <2>1. k \in 1..Len(i2.ops) /\ k <= Len(i.ops) /\ k \in 1..Len(i0.ops)
    BY <1>1
  <2>2. KeptOperand(i.id, k, i.ops[k], i2.ops[k])
    BY <2>1 DEF Later
  <2>3. ~Turns(i.id, k)
    BY DEF Turns, WasVirtual
  <2>4. WasVirtual(i.id, k) => IsVirtual(i.ops[k])
    BY DEF WasVirtual, Ops
  <2>5. SameOperand(i0.ops[k], i.ops[k]) /\ i.ops[k].reg = i0.ops[k].reg
        /\ (IsPhysical(i0.ops[k]) /\ i0.ops[k].def => i.ops[k].ends = i0.ops[k].ends)
    BY <2>1 DEF Untouched
  <2>6. IsPhysical(i0.ops[k]) => ~IsVirtual(i.ops[k])
    BY <2>5, RegisterFacts DEF IsPhysical, IsVirtual
  <2>7. SameOperand(i.ops[k], i2.ops[k]) /\ i2.ops[k].reg = i.ops[k].reg
        /\ (i.ops[k].def => i2.ops[k].ends = i.ops[k].ends \/ IsVirtual(i.ops[k]))
    BY <2>2, <2>3, <2>4 DEF KeptOperand
  <2>8. SameOperand(i0.ops[k], i2.ops[k]) /\ i2.ops[k].reg = i0.ops[k].reg /\ i.ops[k].def = i0.ops[k].def
    BY <2>5, <2>7 DEF SameOperand
  <2> QED
    BY <2>5, <2>6, <2>7, <2>8
<1> QED
  BY <1>1, <1>2 DEF Untouched

LEMMA GrownSelf == ASSUME NEW c \in Code PROVE Grown(c, c)
<1>1. \A j \in 1..Len(c) : Later(c[j], c[j])
  BY CodeFacts, InstrFacts, LaterSelf
<1> QED
  BY <1>1 DEF Grown

LEMMA GrownOn ==
    ASSUME NEW c1 \in Code, NEW c2 \in Code, NEW c3, Grown(c1, c2), Grown(c2, c3)
    PROVE  Grown(c1, c3)
<1>1. c3 \in Code
  BY DEF Grown
<1>2. ASSUME NEW j \in 1..Len(c3)
      PROVE  c3[j] \in Added \/ \E h \in 1..Len(c1) : Later(c1[h], c3[j])
  <2>1. CASE c3[j] \in Added
    BY <2>1
  <2>2. ASSUME NEW h \in 1..Len(c2), Later(c2[h], c3[j])
        PROVE  c3[j] \in Added \/ \E g \in 1..Len(c1) : Later(c1[g], c3[j])
    <3>1. c2[h] \in Instrs /\ c3[j] \in Instrs
      BY <1>1, CodeFacts
    <3>2. CASE c2[h] \in Added
      <4>1. Settled(c3[j])
        BY <2>2, <3>1, <3>2, LaterSettled DEF Added
      <4>2. c3[j].id = 0 /\ c3[j].op # "copy"
        BY <2>2, <3>2 DEF Added, Later
      <4> QED
        BY <3>1, <4>1, <4>2 DEF Added
    <3>3. ASSUME NEW g \in 1..Len(c1), Later(c1[g], c2[h])
          PROVE  Later(c1[g], c3[j])
      BY <2>2, <3>1, <3>3, CodeFacts, LaterOn
    <3> QED
      BY <3>2, <3>3 DEF Grown
  <2> QED
    BY <2>1, <2>2 DEF Grown
<1>3. \A d \in Nat \ {0} : Once(c1, d) => Once(c3, d)
  BY DEF Grown
<1> QED
  BY <1>1, <1>2, <1>3 DEF Grown

LEMMA NoCopyGrown ==
    ASSUME NEW c, NEW d, Grown(c, d), NoCopy(c)
    PROVE  NoCopy(d)
  BY DEF Grown, NoCopy, Added, Later

\* The instruction with an id that is found once.
LEMMA OnceAt ==
    ASSUME NEW c \in Code, NEW d, Once(c, d)
    PROVE  /\ Position(c, d) \in 1..Len(c) /\ c[Position(c, d)].id = d
           /\ \A h \in 1..Len(c) : c[h].id = d => h = Position(c, d)
<1>1. PICK j \in 1..Len(c) : c[j].id = d /\ \A h \in 1..Len(c) : c[h].id = d => h = j
  BY DEF Once
<1>2. Position(c, d) = CHOOSE h \in 1..Len(c) : c[h].id = d
  BY <1>1 DEF Position
<1> QED
  BY <1>1, <1>2

\* One instruction is replaced by a later one.
LEMMA RewriteGrows ==
    ASSUME NEW c \in Code, NEW p \in 1..Len(c), NEW i \in Instrs, Later(c[p], i)
    PROVE  Grown(c, [c EXCEPT ![p] = i])
<1> DEFINE c2 == [c EXCEPT ![p] = i]
<1>1. c2 \in Code /\ Len(c2) = Len(c) /\ \A j \in 1..Len(c) : c2[j] = IF j = p THEN i ELSE c[j]
  BY ExceptSeq DEF Code
<1> HIDE DEF c2
<1>2. \A j \in 1..Len(c) : Later(c[j], c2[j]) /\ c2[j].id = c[j].id
  <2>1. \A j \in 1..Len(c) : Later(c[j], c[j])
    BY CodeFacts, InstrFacts, LaterSelf
  <2> QED
    BY <1>1, <2>1 DEF Later
<1>3. \A d : Once(c, d) => Once(c2, d)
  BY <1>1, <1>2 DEF Once
<1> QED
  BY <1>1, <1>2, <1>3 DEF Grown, c2

LEMMA PositionRange ==
    ASSUME NEW c \in Code, NEW id
    PROVE  Position(c, id) \in 1..(Len(c) + 1)
<1>1. Len(c) \in Nat
  BY CodeFacts
<1>2. CASE \E j \in 1..Len(c) : c[j].id = id
  <2>1. Position(c, id) \in 1..Len(c)
    BY <1>2 DEF Position
  <2> QED
    BY <1>1, <2>1
<1>3. CASE ~\E j \in 1..Len(c) : c[j].id = id
  BY <1>1, <1>3 DEF Position
<1> QED
  BY <1>2, <1>3

\* Instructions are put into a block.
LEMMA InsertGrows ==
    ASSUME NEW c \in Code, NEW id, NEW new \in Seq(Added)
    PROVE  Grown(c, InsertBefore(c, id, new))
<1> DEFINE p == Position(c, id)
           n == Len(c)
           m == Len(new)
           a == SubSeq(c, 1, p - 1)
           b == SubSeq(c, p, n)
           r == (a \o new) \o b
<1>1. n \in Nat /\ m \in Nat /\ p \in 1..(n + 1) /\ \A j \in 1..n : c[j] \in Instrs
  BY CodeFacts, PositionRange, LenProperties
<1>2. InsertBefore(c, id, new) = r
  BY DEF InsertBefore
<1>3. new \in Seq(Instrs) /\ \A j \in 1..m : new[j] \in Added
  <2>1. Added \subseteq Instrs
    BY DEF Added
  <2> QED
    BY <2>1, SeqMonotonic, ElementOfSeq
<1> HIDE DEF p
<1>4. a \in Seq(Instrs) /\ Len(a) = p - 1 /\ \A j \in 1..(p - 1) : a[j] = c[j]
  <2>1. 1 \in Int /\ p - 1 \in Int /\ \A j \in 1..(p - 1) : c[j] \in Instrs
    BY <1>1
  <2>2. /\ a \in Seq(Instrs) /\ Len(a) = IF 1 <= p - 1 THEN p - 1 - 1 + 1 ELSE 0
        /\ \A j \in 1..(p - 1 - 1 + 1) : a[j] = c[1 + j - 1]
    <3> DEFINE q == p - 1
    <3>1. q \in Int /\ \A j \in 1..q : c[j] \in Instrs
      BY <2>1
    <3> HIDE DEF q
    <3>2. /\ SubSeq(c, 1, q) \in Seq(Instrs) /\ Len(SubSeq(c, 1, q)) = IF 1 <= q THEN q - 1 + 1 ELSE 0
          /\ \A j \in 1..(q - 1 + 1) : SubSeq(c, 1, q)[j] = c[1 + j - 1]
      BY <3>1, 1 \in Int, SubSeqProperties
    <3> QED
      BY <3>2 DEF q
  <2>3. p - 1 - 1 + 1 = p - 1 /\ (p - 1 = 0 \/ 1 <= p - 1) /\ \A j \in 1..(p - 1) : 1 + j - 1 = j
    BY <1>1
  <2> HIDE DEF a
  <2> QED
    BY <2>2, <2>3
<1>5. b \in Seq(Instrs) /\ Len(b) = n - p + 1 /\ \A j \in 1..(n - p + 1) : b[j] = c[p + j - 1]
  <2>1. p \in Int /\ n \in Int /\ \A j \in p..n : c[j] \in Instrs
    BY <1>1
  <2>2. /\ b \in Seq(Instrs) /\ Len(b) = IF p <= n THEN n - p + 1 ELSE 0
        /\ \A j \in 1..(n - p + 1) : b[j] = c[p + j - 1]
    <3> HIDE DEF n
    <3> QED BY <2>1, SubSeqProperties
  <2> HIDE DEF b
  <2> QED
    BY <1>1, <2>2
<1> HIDE DEF a, b
<1>6. /\ a \o new \in Seq(Instrs) /\ Len(a \o new) = p - 1 + m
      /\ \A j \in 1..(p - 1 + m) : (a \o new)[j] = IF j <= p - 1 THEN a[j] ELSE new[j - (p - 1)]
  <2>1. /\ a \o new \in Seq(Instrs) /\ Len(a \o new) = Len(a) + Len(new)
        /\ \A j \in 1..(Len(a) + Len(new)) :
              (a \o new)[j] = IF j <= Len(a) THEN a[j] ELSE new[j - Len(a)]
    BY <1>3, <1>4, ConcatProperties
  <2> QED
    BY <1>4, <2>1
<1>7. /\ r \in Seq(Instrs) /\ Len(r) = p - 1 + m + (n - p + 1)
      /\ \A j \in 1..(p - 1 + m + (n - p + 1)) :
            r[j] = IF j <= p - 1 + m THEN (a \o new)[j] ELSE b[j - (p - 1 + m)]
  <2> DEFINE x == a \o new
  <2>1. x \in Seq(Instrs)
    BY <1>6
  <2> HIDE DEF x
  <2>2. /\ x \o b \in Seq(Instrs) /\ Len(x \o b) = Len(x) + Len(b)
        /\ \A j \in 1..(Len(x) + Len(b)) : (x \o b)[j] = IF j <= Len(x) THEN x[j] ELSE b[j - Len(x)]
    BY <1>5, <2>1, ConcatProperties
  <2>3. Len(x) = p - 1 + m /\ Len(b) = n - p + 1
    BY <1>5, <1>6 DEF x
  <2>4. r = x \o b
    BY DEF x
  <2> HIDE DEF r, n, m
  <2>5. /\ r \in Seq(Instrs) /\ Len(r) = p - 1 + m + (n - p + 1)
        /\ \A j \in 1..(p - 1 + m + (n - p + 1)) :
              r[j] = IF j <= p - 1 + m THEN x[j] ELSE b[j - (p - 1 + m)]
    BY <2>2, <2>3, <2>4
  <2> QED
    BY <2>5 DEF x
<1> HIDE DEF r
<1>8. Len(r) = n + m
  BY <1>1, <1>7
<1> HIDE DEF n, m
<1>9. \A j \in 1..(n + m) : j < p => r[j] = c[j] /\ j \in 1..n
  <2> SUFFICES ASSUME NEW j \in 1..(n + m), j < p PROVE r[j] = c[j] /\ j \in 1..n
    OBVIOUS
  <2>1. j \in 1..(p - 1) /\ j <= p - 1 + m /\ j \in 1..(p - 1 + m) /\ j \in 1..(p - 1 + m + (n - p + 1)) /\ j \in 1..n
    BY <1>1
  <2> QED
    BY <2>1, <1>4, <1>6, <1>7
<1>10. \A j \in 1..(n + m) : j >= p /\ j < p + m => r[j] \in Added
  <2> SUFFICES ASSUME NEW j \in 1..(n + m), j >= p, j < p + m PROVE r[j] \in Added
    OBVIOUS
  <2>1. ~(j <= p - 1) /\ j <= p - 1 + m /\ j \in 1..(p - 1 + m) /\ j \in 1..(p - 1 + m + (n - p + 1))
        /\ j - (p - 1) \in 1..m
    BY <1>1
  <2> QED
    BY <2>1, <1>3, <1>6, <1>7
<1>11. \A j \in 1..(n + m) : j >= p + m => r[j] = c[j - m] /\ j - m \in 1..n
  <2> SUFFICES ASSUME NEW j \in 1..(n + m), j >= p + m PROVE r[j] = c[j - m] /\ j - m \in 1..n
    OBVIOUS
  <2>1. ~(j <= p - 1 + m) /\ j \in 1..(p - 1 + m + (n - p + 1))
        /\ j - (p - 1 + m) \in 1..(n - p + 1) /\ p + (j - (p - 1 + m)) - 1 = j - m /\ j - m \in 1..n
    BY <1>1
  <2> QED
    BY <2>1, <1>5, <1>7
<1>12. \A j \in 1..Len(r) : r[j] \in Added \/ \E h \in 1..Len(c) : Later(c[h], r[j])
  <2>1. \A j \in 1..Len(c) : Later(c[j], c[j])
    BY CodeFacts, InstrFacts, LaterSelf
  <2>2. \A j \in 1..(n + m) : j < p \/ (j >= p /\ j < p + m) \/ j >= p + m
    BY <1>1
  <2> QED
    BY <1>8, <1>9, <1>10, <1>11, <2>1, <2>2 DEF n
<1>13. ASSUME NEW d \in Nat \ {0}, Once(c, d) PROVE Once(r, d)
  <2>1. PICK j \in 1..n : c[j].id = d /\ \A h \in 1..n : c[h].id = d => h = j
    BY <1>13 DEF Once, n
  <2> DEFINE g == IF j < p THEN j ELSE j + m
  <2>2. g \in 1..(n + m) /\ r[g].id = d
    <3>1. CASE j < p
      <4>1. j \in 1..(n + m)
        BY <1>1
      <4> QED
        BY <1>9, <2>1, <3>1, <4>1
    <3>2. CASE ~(j < p)
      <4>1. j + m \in 1..(n + m) /\ j + m >= p + m /\ j + m - m = j
        BY <1>1, <3>2
      <4>2. g = j + m
        BY <3>2
      <4>3. r[j + m] = c[j]
        <5> DEFINE h == j + m
        <5>1. h \in 1..(n + m) /\ h >= p + m /\ h - m = j
          BY <1>1, <4>1
        <5> HIDE DEF h
        <5>2. r[h] = c[h - m]
          BY <1>11, <5>1
        <5> QED BY <5>1, <5>2 DEF h
      <4> HIDE DEF g
      <4> QED
        BY <2>1, <4>1, <4>2, <4>3
    <3> QED
      BY <3>1, <3>2
  <2>3. ASSUME NEW h \in 1..(n + m), r[h].id = d PROVE h = g
    <3>1. CASE h < p
      BY <1>9, <2>1, <2>3, <3>1
    <3>2. CASE h >= p /\ h < p + m
      BY <1>10, <2>3, <3>2 DEF Added
    <3>3. CASE h >= p + m
      <4>1. h - m = j
        BY <1>11, <2>1, <2>3, <3>3
      <4> QED
        BY <1>1, <3>3, <4>1
    <3> QED
      BY <1>1, <3>1, <3>2, <3>3
  <2> HIDE DEF g
  <2> QED
    BY <1>8, <2>2, <2>3 DEF Once
<1> QED
  BY <1>2, <1>7, <1>12, <1>13 DEF Grown, Code

-----------------------------------------------------------------------------
(* Sequences made of several.                                              *)

\* FlattenSeq puts sequences over S together to one.  What its recursive function
\* is follows from the least index up to which no such function would exist.
Joins(n, seqs, f) == f = [i \in 1..n |-> IF i = 1 THEN seqs[i] ELSE f[i - 1] \o seqs[i]]

LEMMA FlattenExists ==
    ASSUME NEW S, NEW n \in Nat, NEW seqs \in [1..n -> Seq(S)]
    PROVE  \E f : Joins(n, seqs, f)
<1> DEFINE T == Seq(S)
           Good(k, f) == f \in [1..k -> T] /\ \A i \in 1..k : f[i] = IF i = 1 THEN seqs[i] ELSE f[i - 1] \o seqs[i]
           bad == { k \in 0..n : ~\E f : Good(k, f) }
<1>1. bad = {}
  <2> SUFFICES ASSUME bad # {} PROVE FALSE
    OBVIOUS
  <2>1. bad \subseteq Nat
    OBVIOUS
  <2>2. PICK k \in bad : \A x \in bad : k <= x
    <3> HIDE DEF bad
    <3> QED BY <2>1, LeastOf
  <2>3. k # 0
    <3>1. Good(0, [i \in 1..0 |-> << >>])
      OBVIOUS
    <3> HIDE DEF Good
    <3> QED BY <2>2, <3>1
  <2>4. k - 1 \in 0..n /\ k - 1 \notin bad
    <3>1. k \in 0..n
      OBVIOUS
    <3>2. k - 1 \in 0..n /\ ~(k <= k - 1)
      BY <2>3, <3>1
    <3> HIDE DEF bad
    <3> QED BY <2>2, <3>2
  <2>5. PICK f : Good(k - 1, f)
    <3> HIDE DEF Good
    <3> QED BY <2>4
  <2> DEFINE e == IF k = 1 THEN seqs[k] ELSE f[k - 1] \o seqs[k]
             g == [i \in 1..k |-> IF i = k THEN e ELSE f[i]]
  <2>6. k \in 1..n /\ seqs[k] \in T
    BY <2>3
  <2>7. e \in T
    <3>1. k # 1 => k - 1 \in 1..(k - 1)
      BY <2>6
    <3>2. k # 1 => f[k - 1] \in Seq(S)
      BY <2>5, <3>1
    <3> QED
      BY <2>6, <3>2, ConcatProperties
  <2>8. g \in [1..k -> T]
    <3> HIDE DEF e, T
    <3>1. \A i \in 1..k : i # k => i \in 1..(k - 1)
      BY <2>6
    <3> QED BY <2>5, <2>7, <3>1
  <2>9. ASSUME NEW i \in 1..k PROVE g[i] = IF i = 1 THEN seqs[i] ELSE g[i - 1] \o seqs[i]
    <3>1. CASE i = k
      <4>1. k # 1 => k - 1 \in 1..k /\ k - 1 # k
        BY <2>6
      <4> QED BY <3>1, <4>1
    <3>2. CASE i # k
      <4>1. i \in 1..(k - 1) /\ (i # 1 => i - 1 \in 1..k /\ i - 1 # k)
        BY <2>6, <3>2
      <4>2. g[i] = f[i] /\ (i # 1 => g[i - 1] = f[i - 1])
        BY <3>2, <4>1
      <4>3. f[i] = IF i = 1 THEN seqs[i] ELSE f[i - 1] \o seqs[i]
        BY <2>5, <4>1
      <4> HIDE DEF g
      <4> QED BY <4>2, <4>3
    <3> QED BY <3>1, <3>2
  <2>10. Good(k, g)
    <3> HIDE DEF g
    <3> QED BY <2>8, <2>9
  <2> HIDE DEF Good, g
  <2> QED
    BY <2>2, <2>10
<1>2. n \in 0..n /\ n \notin bad
  <2> HIDE DEF bad
  <2> QED BY <1>1
<1>3. PICK f : Good(n, f)
  <2> HIDE DEF Good
  <2> QED BY <1>2
<1>4. Joins(n, seqs, f)
  BY <1>3 DEF Joins
<1> QED
  BY <1>4

LEMMA FlattenSeqs ==
    ASSUME NEW S, NEW n \in Nat, NEW seqs \in [1..n -> Seq(S)]
    PROVE  FlattenSeq(seqs) \in Seq(S)
<1>1. seqs \in Seq(Seq(S)) /\ Len(seqs) = n
  BY TableIsSeq
<1>2. CASE n = 0
  <2>1. seqs = << >>
    BY <1>1, <1>2, EmptySeq
  <2> QED
    BY <1>1, <1>2, <2>1, EmptySeq DEF FlattenSeq
<1>3. CASE n # 0
  <2> DEFINE F == CHOOSE f : Joins(n, seqs, f)
             bad == { k \in 1..n : F[k] \notin Seq(S) }
  <2>1. FlattenSeq(seqs) = F[n]
    BY <1>1, <1>3 DEF FlattenSeq, Joins
  <2>2. Joins(n, seqs, F)
    BY FlattenExists
  <2> HIDE DEF F
  <2>3. \A k \in 1..n : F[k] = IF k = 1 THEN seqs[k] ELSE F[k - 1] \o seqs[k]
    BY <2>2 DEF Joins
  <2>4. bad = {}
    <3> SUFFICES ASSUME bad # {} PROVE FALSE
      OBVIOUS
    <3>1. PICK k \in bad : \A x \in bad : k <= x
      <4>1. bad \subseteq Nat
        OBVIOUS
      <4> HIDE DEF bad
      <4> QED BY <4>1, LeastOf
    <3>2. k \in 1..n /\ F[k] \notin Seq(S)
      OBVIOUS
    <3>3. k # 1 => F[k - 1] \in Seq(S)
      <4>1. k # 1 => k - 1 \in 1..n /\ ~(k <= k - 1)
        BY <3>2
      <4> QED BY <3>1, <4>1
    <3>4. seqs[k] \in Seq(S)
      BY <3>2
    <3> QED
      BY <2>3, <3>2, <3>3, <3>4, ConcatProperties
  <2> HIDE DEF bad
  <2>5. n \in 1..n
    BY <1>3
  <2> QED
    BY <2>1, <2>4, <2>5 DEF bad
<1> QED
  BY <1>2, <1>3

-----------------------------------------------------------------------------
(* The methods.                                                            *)

LEMMA MovesSelf == ASSUME NEW s, Coded(s) PROVE Moves(s, s)
<1>1. Block(s) \in Code
  BY ElementOfSeq DEF Coded, Block
<1> QED
  BY <1>1, GrownSelf DEF Moves

LEMMA MovesOn ==
    ASSUME NEW s, NEW t, NEW u, Coded(s), Moves(s, t), Moves(t, u)
    PROVE  Moves(s, u)
<1>1. Block(s) \in Code /\ Block(t) \in Code
  BY ElementOfSeq DEF Coded, Block, Moves
<1>2. Grown(Block(s), Block(u))
  BY <1>1, GrownOn DEF Moves
<1>3. \A b \in 1..Len(s.fn) : b # s.mbb => u.fn[b] = s.fn[b]
  BY DEF Moves
<1> QED
  BY <1>2, <1>3 DEF Moves

\* Nothing is done to the code.
LEMMA PlainMoves ==
    ASSUME NEW s, NEW t, Coded(s), DOMAIN t = Members, t.fn = s.fn, t.mbb = s.mbb, t.mi = s.mi,
           t.opEnd = s.opEnd, t.slots \cup t.across \cup t.dbg \cup t.virtDead \subseteq VReg
    PROVE  Moves(s, t)
<1>1. Block(s) \in Code /\ Block(t) = Block(s)
  BY ElementOfSeq DEF Coded, Block
<1>2. Coded(t)
  BY DEF Coded
<1> QED
  BY <1>1, <1>2, GrownSelf DEF Moves

\* The code of the block is replaced.
LEMMA BlockMoves ==
    ASSUME NEW s, Coded(s), NEW c, Grown(Block(s), c)
    PROVE  Moves(s, [s EXCEPT !.fn[s.mbb] = c])
<1> DEFINE t == [s EXCEPT !.fn[s.mbb] = c]
           f == [s.fn EXCEPT ![s.mbb] = c]
<1>1. s.fn \in Seq(Code) /\ s.mbb \in 1..Len(s.fn) /\ c \in Code
  BY DEF Coded, Grown
<1>2. f \in Seq(Code) /\ Len(f) = Len(s.fn) /\ \A b \in 1..Len(s.fn) : f[b] = IF b = s.mbb THEN c ELSE s.fn[b]
  BY <1>1, ExceptSeq
<1>3. /\ DOMAIN t = Members /\ t.fn = f /\ t.mbb = s.mbb /\ t.mi = s.mi /\ t.opEnd = s.opEnd
      /\ t.slots = s.slots /\ t.across = s.across /\ t.dbg = s.dbg /\ t.virtDead = s.virtDead
  BY DEF Coded, Members
<1> HIDE DEF t, f
<1>4. Coded(t)
  BY <1>1, <1>2, <1>3 DEF Coded
<1>5. Block(t) = c
  BY <1>1, <1>2, <1>3 DEF Block
<1> QED
  BY <1>1, <1>2, <1>3, <1>4, <1>5 DEF Moves, t

LEMMA OperandFacts ==
    ASSUME NEW o \in Operands
    PROVE  /\ \A flag \in BOOLEAN : /\ [o EXCEPT !.ends = flag] \in Operands
                                    /\ SameOperand(o, [o EXCEPT !.ends = flag])
           /\ [o EXCEPT !.implicit = TRUE] \in Operands
           /\ [o EXCEPT !.implicit = TRUE].reg = o.reg
           /\ \A r \in PReg \cup {NoReg} :
                /\ o.sub = 0 => /\ [o EXCEPT !.reg = r] \in Operands
                                /\ SameOperand(o, [o EXCEPT !.reg = r]) /\ ~IsVirtual([o EXCEPT !.reg = r])
                /\ [o EXCEPT !.reg = r, !.sub = 0] \in Operands
                /\ SameOperand(o, [o EXCEPT !.reg = r, !.sub = 0])
                /\ ~IsVirtual([o EXCEPT !.reg = r, !.sub = 0])
<1>1. \A r \in PReg \cup {NoReg} : r \notin VReg /\ r \in Reg \cup {NoReg}
  BY RegistersAssumption DEF Reg
<1>2. \A r \in PReg \cup {NoReg} :
        o.sub = 0 => /\ [o EXCEPT !.reg = r] \in Operands
                     /\ SameOperand(o, [o EXCEPT !.reg = r]) /\ ~IsVirtual([o EXCEPT !.reg = r])
  BY <1>1 DEF Operands, SameOperand, IsVirtual
<1>3. \A r \in PReg \cup {NoReg} :
        /\ [o EXCEPT !.reg = r, !.sub = 0] \in Operands
        /\ SameOperand(o, [o EXCEPT !.reg = r, !.sub = 0])
        /\ ~IsVirtual([o EXCEPT !.reg = r, !.sub = 0])
  BY <1>1 DEF Operands, SameOperand, IsVirtual
<1>4. /\ [o EXCEPT !.implicit = TRUE] \in Operands
      /\ [o EXCEPT !.implicit = TRUE].reg = o.reg
  BY DEF Operands
<1>5. \A flag \in BOOLEAN : /\ [o EXCEPT !.ends = flag] \in Operands
                            /\ SameOperand(o, [o EXCEPT !.ends = flag])
  BY DEF Operands, SameOperand
<1> QED
  BY <1>2, <1>3, <1>4, <1>5

LEMMA FlagKept ==
    ASSUME NEW o \in Operands, NEW flag \in BOOLEAN, NEW d, NEW k,
           o.def => flag = o.ends \/ WasVirtual(d, k)
    PROVE  KeptOperand(d, k, o, [o EXCEPT !.ends = flag])
<1>1. SameOperand(o, [o EXCEPT !.ends = flag])
  BY OperandFacts
<1>2. [o EXCEPT !.ends = flag].reg = o.reg /\ [o EXCEPT !.ends = flag].ends = flag
  BY DEF Operands
<1> QED
  BY <1>1, <1>2 DEF KeptOperand

LEMMA TurnKept ==
    ASSUME NEW o \in Operands, NEW r \in PReg \cup {NoReg}, NEW d, NEW k, Turns(d, k)
    PROVE  /\ o.sub = 0 => KeptOperand(d, k, o, [o EXCEPT !.reg = r])
           /\ KeptOperand(d, k, o, [o EXCEPT !.reg = r, !.sub = 0])
<1>1. WasVirtual(d, k)
  BY DEF Turns
<1> QED
  BY <1>1, OperandFacts DEF KeptOperand

LEMMA NewOperands ==
    ASSUME NEW r \in PReg \cup {NoReg}
    PROVE  /\ Use(r) \in Operands /\ ~IsVirtual(Use(r)) /\ Use(r).reg = r /\ ~Use(r).def
           /\ Def(r) \in Operands /\ ~IsVirtual(Def(r)) /\ Def(r).reg = r
  BY RegistersAssumption DEF Use, Def, Operand, Operands, Reg, IsVirtual

\* An instruction that is put into the code.
LEMMA InsertedIsAdded ==
    ASSUME NEW op \in Opcodes \ {"copy"}, NEW o \in Operands, ~IsVirtual(o), NEW v \in VReg
    PROVE  Inserted(op, o, v) \in Added
<1>1. << o >> \in Seq(Operands) /\ Len(<< o >>) = 1 /\ << o >>[1] = o
  OBVIOUS
<1>2. Inserted(op, o, v) \in Instrs /\ Inserted(op, o, v).id = 0 /\ Inserted(op, o, v).ops = << o >>
      /\ Inserted(op, o, v).op = op
  BY <1>1 DEF Inserted, Instr, Instrs
<1> QED
  BY <1>1, <1>2 DEF Added, Settled

LEMMA InsertMoves ==
    ASSUME NEW s, Coded(s), NEW code \in Seq(Added)
    PROVE  Moves(s, Insert(s, code))
<1>1. Block(s) \in Code
  BY ElementOfSeq DEF Coded, Block
<1>2. Grown(Block(s), InsertBefore(Block(s), s.mi, code))
  BY <1>1, InsertGrows
<1>3. Insert(s, code) = [s EXCEPT !.fn[s.mbb] = InsertBefore(Block(s), s.mi, code)]
  BY DEF Insert, Block, Coded, Members
<1> QED
  BY <1>2, <1>3, BlockMoves

\* A sequence of operands, each of which stays what it was.
LEMMA SameOperands ==
    ASSUME NEW i \in Instrs, NEW f \in [1..Len(i.ops) -> Operands],
           \A k \in 1..Len(i.ops) : KeptOperand(i.id, k, i.ops[k], f[k])
    PROVE  /\ MapSeq(f) = f /\ f \in Seq(Operands) /\ Len(f) = Len(i.ops)
           /\ [i EXCEPT !.ops = f] \in Instrs /\ Later(i, [i EXCEPT !.ops = f])
<1>1. Len(i.ops) \in Nat
  BY InstrFacts
<1>2. f \in Seq(Operands) /\ Len(f) = Len(i.ops)
  BY <1>1, TableIsSeq
<1>3. MapSeq(f) = f
  BY <1>2, SubSeqFull DEF MapSeq
<1>4. /\ [i EXCEPT !.ops = f] \in Instrs /\ [i EXCEPT !.ops = f].ops = f
      /\ [i EXCEPT !.ops = f].id = i.id /\ [i EXCEPT !.ops = f].op = i.op
  BY <1>2, InstrFacts
<1>5. Later(i, [i EXCEPT !.ops = f])
  BY <1>1, <1>2, <1>4 DEF Later
<1> QED
  BY <1>2, <1>3, <1>4, <1>5

\* Every instruction of a block is replaced by a later one.
LEMMA AllGrow ==
    ASSUME NEW c \in Code, NEW f \in [1..Len(c) -> Instrs], \A j \in 1..Len(c) : Later(c[j], f[j])
    PROVE  MapSeq(f) = f /\ Len(f) = Len(c) /\ Grown(c, f)
<1>1. f \in Seq(Instrs) /\ Len(f) = Len(c)
  BY CodeFacts, TableIsSeq
<1>2. MapSeq(f) = f
  BY <1>1, SubSeqFull DEF MapSeq
<1>3. \A j \in 1..Len(c) : f[j].id = c[j].id
  BY DEF Later
<1>4. \A d : Once(c, d) => Once(f, d)
  BY <1>1, <1>3 DEF Once
<1> QED
  BY <1>1, <1>2, <1>4 DEF Grown, Code

LEMMA KillFlagMoves ==
    ASSUME NEW s, Coded(s), NEW V
    PROVE  Moves(s, addKillFlag(s, V))
<1> DEFINE c == Block(s)
           Ends(i) == [k \in 1..Len(i.ops) |-> [i.ops[k] EXCEPT !.ends = @ \/ KillFlag(s, V, i, k)]]
           f == [j \in 1..Len(c) |-> [c[j] EXCEPT !.ops = MapSeq(Ends(c[j]))]]
<1>1. c \in Code /\ c = s.fn[s.mbb]
  BY ElementOfSeq DEF Coded, Block
<1>2. ASSUME NEW i \in Instrs
      PROVE  [i EXCEPT !.ops = MapSeq(Ends(i))] \in Instrs /\ Later(i, [i EXCEPT !.ops = MapSeq(Ends(i))])
  <2>1. \A k \in 1..Len(i.ops) : Ends(i)[k] \in Operands /\ KeptOperand(i.id, k, i.ops[k], Ends(i)[k])
    <3> SUFFICES ASSUME NEW k \in 1..Len(i.ops)
                 PROVE  Ends(i)[k] \in Operands /\ KeptOperand(i.id, k, i.ops[k], Ends(i)[k])
      OBVIOUS
    <3> DEFINE o == i.ops[k]
               flag == o.ends \/ KillFlag(s, V, i, k)
    <3>1. o \in Operands
      BY InstrFacts
    <3>2. flag \in BOOLEAN
      OBVIOUS
    <3>3. Ends(i)[k] = [o EXCEPT !.ends = flag]
      BY <3>1 DEF Operands
    <3>4. o.def => flag = o.ends
      BY <3>1 DEF KillFlag, Operands
    <3> HIDE DEF flag, o
    <3>5. KeptOperand(i.id, k, o, [o EXCEPT !.ends = flag])
      BY <3>1, <3>2, <3>4, FlagKept
    <3> QED
      BY <3>1, <3>2, <3>3, <3>5, OperandFacts DEF o
  <2>2. Ends(i) \in [1..Len(i.ops) -> Operands]
    BY <2>1
  <2> HIDE DEF Ends
  <2> QED
    BY <2>1, <2>2, SameOperands
<1>3. f \in [1..Len(c) -> Instrs] /\ \A j \in 1..Len(c) : Later(c[j], f[j])
  <2>1. \A j \in 1..Len(c) : c[j] \in Instrs
    BY <1>1, CodeFacts
  <2> HIDE DEF c, Ends
  <2> QED BY <1>2, <2>1
<1>4. addKillFlag(s, V) = [s EXCEPT !.fn[s.mbb] = MapSeq(f)]
  <2>1. Len(s.fn[s.mbb]) = Len(c)
    BY <1>1
  <2> QED
    BY <2>1 DEF addKillFlag, Coded, Members
<1> HIDE DEF f, c
<1>5. Grown(c, MapSeq(f))
  BY <1>1, <1>3, AllGrow
<1> QED
  BY <1>4, <1>5, BlockMoves DEF c

\* The instruction being allocated stays where it is found, and is what it was, later.
LEMMA HereMoves ==
    ASSUME NEW s, NEW t, Coded(s), Here(s), Moves(s, t)
    PROVE  Here(t) /\ MI(s) \in Instrs /\ MI(t) \in Instrs /\ MI(s).id = s.mi /\ Later(MI(s), MI(t))
<1>1. Block(s) \in Code /\ Block(t) \in Code /\ t.mi = s.mi /\ s.mi \in Nat \ {0}
  BY ElementOfSeq DEF Coded, Block, Moves, Here
<1>2. Once(Block(s), s.mi) /\ Once(Block(t), s.mi)
  BY <1>1 DEF Here, Moves, Grown
<1>3. /\ Position(Block(s), s.mi) \in 1..Len(Block(s)) /\ MI(s).id = s.mi
      /\ \A h \in 1..Len(Block(s)) : Block(s)[h].id = s.mi => h = Position(Block(s), s.mi)
  BY <1>1, <1>2, OnceAt DEF MI
<1>4. Position(Block(t), s.mi) \in 1..Len(Block(t)) /\ MI(t).id = s.mi
  BY <1>1, <1>2, OnceAt DEF MI
<1>5. MI(s) \in Instrs /\ MI(t) \in Instrs
  BY <1>1, <1>3, <1>4, CodeFacts DEF MI
<1>6. MI(t) \notin Added
  BY <1>1, <1>4 DEF Added
<1>7. PICK h \in 1..Len(Block(s)) : Later(Block(s)[h], MI(t))
  BY <1>1, <1>4, <1>6 DEF Moves, Grown, MI
<1>8. h = Position(Block(s), s.mi)
  BY <1>3, <1>4, <1>7 DEF Later
<1>9. Later(MI(s), MI(t))
  BY <1>7, <1>8 DEF MI
<1> QED
  BY <1>1, <1>2, <1>3, <1>5, <1>9 DEF Here

LEMMA HereFacts ==
    ASSUME NEW s, Coded(s), Here(s)
    PROVE  /\ MI(s) \in Instrs /\ Ops(s) \in Seq(Operands) /\ Len(Ops(s)) \in Nat
           /\ \A k \in 1..Len(Ops(s)) : Ops(s)[k] \in Operands
           /\ MI(s).id = s.mi /\ s.mi = ra.mi
<1>1. MI(s) \in Instrs /\ MI(s).id = s.mi
  BY MovesSelf, HereMoves
<1> QED
  BY <1>1, InstrFacts DEF Ops, Here

LEMMA OperandKept ==
    ASSUME NEW s, NEW t, Coded(s), Here(s), Moves(s, t)
    PROVE  /\ Len(Ops(t)) >= Len(Ops(s)) /\ Len(Ops(t)) \in Nat /\ Len(Ops(s)) \in Nat
           /\ MI(t).op = MI(s).op
           /\ \A k \in 1..Len(Ops(t)) : IF k <= Len(Ops(s)) THEN KeptOperand(s.mi, k, Ops(s)[k], Ops(t)[k])
                                        ELSE ~IsVirtual(Ops(t)[k]) /\ (Ops(t)[k].def => AddsDef)
<1>1. Later(MI(s), MI(t)) /\ MI(s) \in Instrs /\ MI(t) \in Instrs /\ MI(s).id = s.mi
  BY HereMoves
<1>2. Len(MI(s).ops) \in Nat /\ Len(MI(t).ops) \in Nat
  BY <1>1, InstrFacts
<1> QED
  BY <1>1, <1>2 DEF Ops, Later

\* An operand is only ever given a physical register.
LEMMA OperandMoves ==
    ASSUME NEW s, NEW t, Coded(s), Here(s), Moves(s, t)
    PROVE  /\ Len(Ops(t)) >= Len(Ops(s)) /\ Len(Ops(t)) \in Nat /\ Len(Ops(s)) \in Nat
           /\ \A k \in 1..Len(Ops(t)) : IF k <= Len(Ops(s)) THEN SameOperand(Ops(s)[k], Ops(t)[k])
                                        ELSE ~IsVirtual(Ops(t)[k])
<1>1. \A k \in 1..Len(Ops(t)) : IF k <= Len(Ops(s)) THEN KeptOperand(s.mi, k, Ops(s)[k], Ops(t)[k])
                                  ELSE ~IsVirtual(Ops(t)[k]) /\ (Ops(t)[k].def => AddsDef)
  BY OperandKept
<1> QED
  BY <1>1, OperandKept DEF KeptOperand

LEMMA SetOpsMoves ==
    ASSUME NEW s, Coded(s), Here(s), NEW ops \in Seq(Operands), Later(MI(s), [MI(s) EXCEPT !.ops = ops])
    PROVE  Moves(s, SetOps(s, ops)) /\ Ops(SetOps(s, ops)) = ops
<1> DEFINE p == Position(Block(s), s.mi)
           i == [MI(s) EXCEPT !.ops = ops]
           c == [Block(s) EXCEPT ![p] = i]
           t == [s EXCEPT !.fn[s.mbb] = c]
<1>1. Block(s) \in Code /\ s.mi \in Nat \ {0}
  BY ElementOfSeq DEF Coded, Block, Here
<1>2. p \in 1..Len(Block(s)) /\ MI(s) = Block(s)[p] /\ MI(s).id = s.mi
  BY <1>1, OnceAt DEF Here, MI
<1>3. MI(s) \in Instrs /\ i \in Instrs /\ i.id = s.mi /\ i.ops = ops
  <2>1. MI(s) \in Instrs
    BY HereFacts
  <2> QED
    BY <1>2, <2>1, InstrFacts
<1>4. Later(Block(s)[p], i)
  BY <1>2
<1> HIDE DEF i, p
<1>5. Grown(Block(s), c)
  BY <1>1, <1>2, <1>3, <1>4, RewriteGrows
<1>6. SetOps(s, ops) = t
  BY <1>2 DEF SetOps, Block, Coded, Members, i, p
<1> HIDE DEF c
<1>7. Moves(s, t)
  BY <1>5, BlockMoves
<1> HIDE DEF t
<1>8. Here(t)
  BY <1>7, HereMoves
<1>9. Block(t) = c
  <2>1. s.fn \in Seq(Code) /\ s.mbb \in 1..Len(s.fn) /\ c \in Code
    BY <1>5 DEF Coded, Grown
  <2>2. [s.fn EXCEPT ![s.mbb] = c][s.mbb] = c
    BY <2>1, ExceptSeq
  <2>3. t.fn = [s.fn EXCEPT ![s.mbb] = c] /\ t.mbb = s.mbb
    BY DEF t, Coded, Members
  <2> QED
    BY <2>2, <2>3 DEF Block
<1>10. Len(c) = Len(Block(s)) /\ c[p] = i
  BY <1>1, <1>2, <1>3, ExceptSeq DEF c, Code
<1>11. Position(Block(t), t.mi) = p
  <2>1. t.mi = s.mi /\ Block(t) \in Code
    BY <1>5, <1>7, <1>9 DEF Moves, Grown
  <2>2. p \in 1..Len(Block(t)) /\ Block(t)[p].id = t.mi
    BY <1>2, <1>3, <1>9, <1>10, <2>1
  <2> QED
    BY <1>8, <2>1, <2>2, OnceAt DEF Here
<1>12. Ops(t) = ops
  BY <1>3, <1>9, <1>10, <1>11 DEF Ops, MI
<1> QED
  BY <1>6, <1>7, <1>12

LEMMA SetOpMoves ==
    ASSUME NEW s, Coded(s), Here(s), NEW k \in 1..Len(Ops(s)), NEW o \in Operands,
           KeptOperand(s.mi, k, Ops(s)[k], o)
    PROVE  Moves(s, SetOp(s, k, o)) /\ Ops(SetOp(s, k, o)) = [Ops(s) EXCEPT ![k] = o]
<1> DEFINE ops == [Ops(s) EXCEPT ![k] = o]
<1>a. Ops(s) = MI(s).ops
  BY DEF Ops
<1>1. MI(s) \in Instrs /\ Ops(s) \in Seq(Operands) /\ Len(Ops(s)) \in Nat /\ Ops(s) = MI(s).ops
      /\ MI(s).id = s.mi /\ s.mi = ra.mi
  BY <1>a, HereFacts
<1>2. /\ ops \in Seq(Operands) /\ Len(ops) = Len(Ops(s))
      /\ \A h \in 1..Len(Ops(s)) : ops[h] = IF h = k THEN o ELSE Ops(s)[h]
  BY <1>1, ExceptSeq
<1> HIDE DEF ops
<1>3. Later(MI(s), [MI(s) EXCEPT !.ops = ops])
  <2>1. /\ [MI(s) EXCEPT !.ops = ops].ops = ops /\ [MI(s) EXCEPT !.ops = ops].id = MI(s).id
        /\ [MI(s) EXCEPT !.ops = ops].op = MI(s).op
    BY <1>1, <1>2, InstrFacts
  <2>2. \A h \in 1..Len(ops) : h <= Len(Ops(s)) /\ KeptOperand(s.mi, h, Ops(s)[h], ops[h])
    BY <1>1, <1>2 DEF SameOperand, KeptOperand
  <2> QED
    BY <1>1, <1>2, <2>1, <2>2 DEF Later
<1>4. Moves(s, SetOps(s, ops)) /\ Ops(SetOps(s, ops)) = ops
  BY <1>2, <1>3, SetOpsMoves
<1> QED
  BY <1>4 DEF SetOp, ops

LEMMA SetEndsMoves ==
    ASSUME NEW s, Coded(s), Here(s), NEW k \in 1..Len(Ops(s)), NEW flag \in BOOLEAN,
           Ops(s)[k].def => WasVirtual(s.mi, k)
    PROVE  Moves(s, SetEnds(s, k, flag))
<1>1. Ops(s)[k] \in Operands
  BY HereFacts
<1>2. /\ [Ops(s)[k] EXCEPT !.ends = flag] \in Operands
      /\ KeptOperand(s.mi, k, Ops(s)[k], [Ops(s)[k] EXCEPT !.ends = flag])
  BY <1>1, OperandFacts, FlagKept
<1> QED
  BY <1>2, SetOpMoves DEF SetEnds

LEMMA AddImplicitMoves ==
    ASSUME NEW s, Coded(s), Here(s), NEW o \in Operands, ~IsVirtual(o), o.def => AddsDef,
           pc # "live-ins"
    PROVE  Moves(s, AddImplicit(s, o))
<1> DEFINE o2 == [o EXCEPT !.implicit = TRUE]
           ops == Append(Ops(s), o2)
<1> HIDE DEF o2, ops
<1>a. Ops(s) = MI(s).ops
  BY DEF Ops
<1>1. MI(s) \in Instrs /\ Ops(s) \in Seq(Operands) /\ Len(Ops(s)) \in Nat /\ Ops(s) = MI(s).ops
      /\ MI(s).id = s.mi /\ s.mi = ra.mi
  BY <1>a, HereFacts
<1>2. o2 \in Operands /\ ~IsVirtual(o2) /\ (o2.def => AddsDef)
  <2>1. o2.def = o.def
    BY DEF Operands, o2
  <2> QED
    BY <2>1, OperandFacts DEF IsVirtual, o2
<1>3. /\ ops \in Seq(Operands) /\ Len(ops) = Len(Ops(s)) + 1
      /\ \A h \in 1..Len(Ops(s)) : ops[h] = Ops(s)[h]
      /\ ops[Len(Ops(s)) + 1] = o2
  BY <1>1, <1>2, AppendProperties DEF ops
<1>4. Later(MI(s), [MI(s) EXCEPT !.ops = ops])
  <2>1. /\ [MI(s) EXCEPT !.ops = ops].ops = ops /\ [MI(s) EXCEPT !.ops = ops].id = MI(s).id
        /\ [MI(s) EXCEPT !.ops = ops].op = MI(s).op
    BY <1>1, <1>3, InstrFacts
  <2>2. \A h \in 1..Len(ops) : IF h <= Len(Ops(s)) THEN KeptOperand(s.mi, h, Ops(s)[h], ops[h])
                                ELSE ~IsVirtual(ops[h]) /\ (ops[h].def => AddsDef)
    BY <1>1, <1>2, <1>3 DEF SameOperand, KeptOperand
  <2> QED
    BY <1>1, <1>3, <2>1, <2>2 DEF Later
<1>5. Moves(s, SetOps(s, ops))
  BY <1>3, <1>4, SetOpsMoves
<1> QED
  BY <1>5 DEF AddImplicit, ops, o2

LEMMA AddKilledMoves ==
    ASSUME NEW s, Coded(s), Here(s), NEW p \in PReg, pc # "live-ins"
    PROVE  Moves(s, AddKilled(s, p))
<1> DEFINE o == Use(p)
           o2 == [o EXCEPT !.ends = TRUE]
<1>1. o \in Operands /\ ~IsVirtual(o) /\ ~o.def
  BY NewOperands
<1> HIDE DEF o
<1>2. o2 \in Operands /\ ~IsVirtual(o2) /\ ~o2.def
  BY <1>1, OperandFacts DEF SameOperand, IsVirtual
<1> HIDE DEF o2
<1>3. Moves(s, AddImplicit(s, o2))
  BY <1>2, AddImplicitMoves
<1> QED
  BY <1>3 DEF AddKilled, o2, o

\* setPhysReg leaves no virtual register in the operand, nor a subregister index.
LEMMA SetPhysRegMoves ==
    ASSUME NEW s, Coded(s), Here(s), NEW k \in 1..Len(Ops(s)), NEW p \in PReg,
           Turns(s.mi, k), Ops(s)[k].def /\ Ops(s)[k].undef => AddsDef
    PROVE  LET t == setPhysReg(s, k, p)
           IN  Moves(s, t) /\ k \in 1..Len(Ops(t)) /\ ~IsVirtual(Ops(t)[k])
<1> DEFINE o == Ops(s)[k]
           o0 == [o EXCEPT !.reg = p]
           o1 == [o EXCEPT !.reg = LowPart[p], !.sub = 0]
           low == SetOp(s, k, o1)
           Fine(t) == Moves(s, t) /\ k \in 1..Len(Ops(t)) /\ ~IsVirtual(Ops(t)[k])
<1>1. o \in Operands /\ LowPart[p] \in PReg \cup {NoReg} /\ Len(Ops(s)) \in Nat /\ Ops(s) \in Seq(Operands)
  BY HereFacts, RegistersAssumption
<1>2. /\ o.sub = 0 => o0 \in Operands /\ KeptOperand(s.mi, k, o, o0) /\ ~IsVirtual(o0)
      /\ o1 \in Operands /\ KeptOperand(s.mi, k, o, o1) /\ ~IsVirtual(o1)
  <2> HIDE DEF o
  <2> QED BY <1>1, OperandFacts, TurnKept
<1> HIDE DEF o0, o1
<1>3. ASSUME NEW x \in Operands, KeptOperand(s.mi, k, o, x), ~IsVirtual(x) PROVE Fine(SetOp(s, k, x))
  <2>1. Moves(s, SetOp(s, k, x)) /\ Ops(SetOp(s, k, x)) = [Ops(s) EXCEPT ![k] = x]
    BY <1>3, SetOpMoves
  <2>2. Len([Ops(s) EXCEPT ![k] = x]) = Len(Ops(s)) /\ [Ops(s) EXCEPT ![k] = x][k] = x
    BY <1>1, ExceptSeq
  <2> QED
    BY <1>3, <2>1, <2>2
<1>4. o.sub = 0 => Fine(SetOp(s, k, o0))
  BY <1>2, <1>3
<1>5. Fine(low)
  BY <1>2, <1>3
<1> HIDE DEF low
<1>6. ASSUME NEW t, Moves(low, t) PROVE Fine(t)
  <2>1. Coded(low) /\ Here(low)
    BY <1>5, HereMoves DEF Moves
  <2>2. Moves(s, t)
    BY <1>5, <1>6, MovesOn
  <2>3. k \in 1..Len(Ops(t)) /\ SameOperand(Ops(low)[k], Ops(t)[k])
    BY <1>5, <1>6, <2>1, OperandMoves
  <2> QED
    BY <1>5, <2>2, <2>3 DEF SameOperand, IsVirtual
<1>7. Coded(low) /\ Here(low)
  BY <1>5, HereMoves DEF Moves
<1>8. Fine(AddKilled(low, p)) /\ (o.def /\ o.undef => Fine(AddImplicit(low, Def(p))))
  <2>1. Def(p) \in Operands /\ ~IsVirtual(Def(p))
    BY NewOperands
  <2>2. Moves(low, AddKilled(low, p)) /\ (o.def /\ o.undef => Moves(low, AddImplicit(low, Def(p))))
    BY <1>7, <2>1, AddKilledMoves, AddImplicitMoves DEF Turns
  <2> HIDE DEF Fine
  <2> QED
    BY <1>6, <2>2
<1>9. setPhysReg(s, k, p) =
        IF o.sub = 0 THEN SetOp(s, k, o0)
        ELSE IF ~o.def /\ o.ends THEN AddKilled(low, p)
        ELSE IF o.def /\ o.undef THEN AddImplicit(low, Def(p))
        ELSE low
  BY DEF setPhysReg, low, o0, o1
<1> HIDE DEF Fine
<1>10. Fine(setPhysReg(s, k, p))
  BY <1>4, <1>5, <1>8, <1>9
<1> QED
  BY <1>10 DEF Fine

LEMMA KillMoves ==
    ASSUME NEW s, Coded(s), NEW V
    PROVE  Moves(s, killVirtReg(s, V))
<1> DEFINE a == addKillFlag(s, V)
           t == killVirtReg(s, V)
<1>1. Moves(s, a)
  BY KillFlagMoves
<1>2. \E x, y : t = [a EXCEPT !.regState = x, !.live = y]
  BY DEF killVirtReg
<1> HIDE DEF a, t
<1>3. Moves(a, t)
  <2>1. Coded(a) /\ DOMAIN a = Members
    BY <1>1 DEF Moves, Coded
  <2>2. DOMAIN t = Members /\ t.fn = a.fn /\ t.mbb = a.mbb /\ t.mi = a.mi /\ t.opEnd = a.opEnd
        /\ t.slots = a.slots /\ t.across = a.across /\ t.dbg = a.dbg /\ t.virtDead = a.virtDead
    BY <1>2, <2>1 DEF Members
  <2>3. t.slots \cup t.across \cup t.dbg \cup t.virtDead \subseteq VReg
    BY <2>1, <2>2 DEF Coded
  <2> QED
    BY <2>1, <2>2, <2>3, PlainMoves
<1> QED
  BY <1>1, <1>3, MovesOn DEF t

LEMMA SetToSeqFacts ==
    ASSUME NEW V, V \subseteq VReg
    PROVE  Cardinality(V) \in Nat /\ SetToSeq(V) \in [1..Cardinality(V) -> V]
<1>1. IsFiniteSet(V)
  BY RegistersAssumption, FS_Subset
<1>2. Cardinality(V) \in Nat /\ ExistsBijection(1..Cardinality(V), V)
  BY <1>1, FS_CardinalityType
<1>3. \E f \in [1..Cardinality(V) -> V] : IsInjective(f)
  BY <1>2 DEF ExistsBijection, Bijection, Injection, IsInjective
<1> QED
  BY <1>2, <1>3 DEF SetToSeq

LEMMA SpillMoves ==
    ASSUME NEW s, Coded(s), NEW V, V \subseteq VReg, \A v \in V : s.live[v].phys \in PReg \cup {NoReg}
    PROVE  Moves(s, spill(s, V))
<1> DEFINE Store(v) == << Inserted("store", [Use(s.live[v].phys) EXCEPT
                                            !.ends = s.live[v].lastUse # s.mi], v) >>
                    \o (IF v \in s.dbg THEN << Inserted("dbg", Use(NoReg), v) >> ELSE << >>)
           n == Cardinality(V)
           code == [i \in 1..n |-> Store(SetToSeq(V)[i])]
           a == Insert(s, FlattenSeq(code))
           t == [a EXCEPT !.slots = @ \cup V, !.dbg = @ \ V]
<1>1. \A v \in V : Store(v) \in Seq(Added)
  <2> SUFFICES ASSUME NEW v \in V PROVE Store(v) \in Seq(Added)
    OBVIOUS
  <2> DEFINE o == [Use(s.live[v].phys) EXCEPT !.ends = s.live[v].lastUse # s.mi]
             x == Inserted("store", o, v)
             y == Inserted("dbg", Use(NoReg), v)
  <2>1. o \in Operands /\ ~IsVirtual(o)
    <3> DEFINE u == Use(s.live[v].phys)
               flag == s.live[v].lastUse # s.mi
    <3>1. u \in Operands /\ ~IsVirtual(u)
      BY NewOperands
    <3>2. flag \in BOOLEAN
      OBVIOUS
    <3> HIDE DEF u, flag
    <3>3. [u EXCEPT !.ends = flag] \in Operands /\ SameOperand(u, [u EXCEPT !.ends = flag])
      BY <3>1, <3>2, OperandFacts
    <3>4. ~IsVirtual([u EXCEPT !.ends = flag])
      BY <3>1, <3>3 DEF SameOperand, IsVirtual
    <3> QED
      BY <3>3, <3>4 DEF u, flag
  <2>2. Use(NoReg) \in Operands /\ ~IsVirtual(Use(NoReg))
    BY NewOperands
  <2>3. "store" \in Opcodes \ {"copy"} /\ "dbg" \in Opcodes \ {"copy"}
    BY DEF Opcodes
  <2> HIDE DEF o
  <2>4. x \in Added /\ y \in Added
    BY <2>1, <2>2, <2>3, InsertedIsAdded
  <2>5. Store(v) = << x >> \o (IF v \in s.dbg THEN << y >> ELSE << >>)
    BY DEF o
  <2> HIDE DEF Store, x, y
  <2>6. << x >> \in Seq(Added) /\ << y >> \in Seq(Added) /\ << >> \in Seq(Added)
    BY <2>4
  <2> QED
    BY <2>5, <2>6, ConcatProperties
<1>2. n \in Nat /\ SetToSeq(V) \in [1..n -> V]
  BY SetToSeqFacts
<1> HIDE DEF n
<1>3. code \in [1..n -> Seq(Added)]
  <2> HIDE DEF Store
  <2> QED BY <1>1, <1>2
<1>4. spill(s, V) = t
  BY DEF spill, n
<1> HIDE DEF code
<1>5. FlattenSeq(code) \in Seq(Added)
  BY <1>2, <1>3, FlattenSeqs
<1>6. Moves(s, a)
  BY <1>5, InsertMoves
<1> HIDE DEF a
<1>7. Moves(a, t)
  <2>1. Coded(a) /\ DOMAIN a = Members
    BY <1>6 DEF Moves, Coded
  <2>2. DOMAIN t = Members /\ t.fn = a.fn /\ t.mbb = a.mbb /\ t.mi = a.mi /\ t.opEnd = a.opEnd
        /\ t.slots = a.slots \cup V /\ t.across = a.across /\ t.dbg = a.dbg \ V /\ t.virtDead = a.virtDead
    BY <2>1 DEF Members
  <2>3. t.slots \cup t.across \cup t.dbg \cup t.virtDead \subseteq VReg
    BY <2>1, <2>2 DEF Coded
  <2> QED
    BY <2>1, <2>2, <2>3, PlainMoves
<1> QED
  BY <1>4, <1>6, <1>7, MovesOn

LEMMA SpillVirtMoves ==
    ASSUME NEW s, Coded(s), Sound(s), NEW V, V \subseteq VReg
    PROVE  Moves(s, spillVirtReg(s, V))
<1> DEFINE dirty == { v \in V : s.live[v].dirty }
           spilled == [v \in VReg |->
                          IF v \notin dirty THEN s.live[v]
                          ELSE [s.live[v] EXCEPT !.dirty = FALSE,
                                                 !.lastUse = IF @ # s.mi THEN 0 ELSE @]]
           a == spill(s, dirty)
           b == [a EXCEPT !.live = spilled]
<1>1. dirty \subseteq VReg /\ \A v \in dirty : s.live[v].phys \in PReg \cup {NoReg}
  BY DEF Sound, IsAllocator
<1>2. spillVirtReg(s, V) = killVirtReg(b, V)
  BY DEF spillVirtReg
<1> HIDE DEF dirty, spilled
<1>3. Moves(s, a)
  BY <1>1, SpillMoves
<1> HIDE DEF a
<1>4. Moves(a, b)
  <2>1. Coded(a) /\ DOMAIN a = Members
    BY <1>3 DEF Moves, Coded
  <2>2. DOMAIN b = Members /\ b.fn = a.fn /\ b.mbb = a.mbb /\ b.mi = a.mi /\ b.opEnd = a.opEnd
        /\ b.slots = a.slots /\ b.across = a.across /\ b.dbg = a.dbg /\ b.virtDead = a.virtDead
    BY <2>1 DEF Members
  <2>3. b.slots \cup b.across \cup b.dbg \cup b.virtDead \subseteq VReg
    BY <2>1, <2>2 DEF Coded
  <2> QED
    BY <2>1, <2>2, <2>3, PlainMoves
<1> HIDE DEF b
<1>5. Coded(a) /\ Coded(b)
  BY <1>3, <1>4 DEF Moves
<1>6. Moves(b, killVirtReg(b, V))
  BY <1>5, KillMoves
<1> QED
  BY <1>2, <1>3, <1>4, <1>5, <1>6, MovesOn

LEMMA SpillAllMoves ==
    ASSUME NEW s, Coded(s), Sound(s), NEW onlyLiveOut \in BOOLEAN
    PROVE  Moves(s, spillAll(s, onlyLiveOut))
<1> DEFINE mapped == { v \in VReg : s.live[v].phys # NoReg }
           asked == { v \in mapped : AcrossOut(s, v) }
           V == IF onlyLiveOut THEN { v \in mapped : mayLiveOut(s, v) } ELSE mapped
           u == spillVirtReg(s, V)
           t == [u EXCEPT !.live = [v \in VReg |-> NotLive],
                          !.across = IF onlyLiveOut THEN @ \cup asked ELSE @]
<1>1. V \subseteq VReg /\ asked \subseteq VReg
  OBVIOUS
<1>2. spillAll(s, onlyLiveOut) = t
  BY DEF spillAll
<1> HIDE DEF V, asked
<1>3. Moves(s, u)
  BY <1>1, SpillVirtMoves
<1> HIDE DEF u
<1>4. Moves(u, t)
  <2>1. Coded(u) /\ DOMAIN u = Members
    BY <1>3 DEF Moves, Coded
  <2>2. DOMAIN t = Members /\ t.fn = u.fn /\ t.mbb = u.mbb /\ t.mi = u.mi /\ t.opEnd = u.opEnd
        /\ t.slots = u.slots /\ (t.across = u.across \/ t.across = u.across \cup asked) /\ t.dbg = u.dbg /\ t.virtDead = u.virtDead
    BY <2>1 DEF Members
  <2>3. t.slots \cup t.across \cup t.dbg \cup t.virtDead \subseteq VReg
    BY <1>1, <2>1, <2>2 DEF Coded
  <2> QED
    BY <2>1, <2>2, <2>3, PlainMoves
<1> QED
  BY <1>2, <1>3, <1>4, MovesOn

LEMMA MarkMoves == ASSUME NEW s, Coded(s), NEW p PROVE Moves(s, markRegUsedInInstr(s, p))
  BY PlainMoves DEF Coded, Members, markRegUsedInInstr

LEMMA ClearedMoves == ASSUME NEW s, Coded(s), NEW P, NEW p, NEW new PROVE Moves(s, Cleared(s, P, p, new))
  BY PlainMoves DEF Coded, Members, Cleared

LEMMA DefinePhysMoves ==
    ASSUME NEW s, Coded(s), Sound(s), NEW p, NEW new
    PROVE  Moves(s, definePhysReg(s, p, new))
<1> DEFINE hit == IF s.regState[p] = "disabled" THEN Passed(s, p) ELSE {p}
           m == markRegUsedInInstr(s, p)
           a == spillVirtReg(m, Allocated(s, hit))
<1>1. Moves(s, m) /\ Coded(m)
  BY MarkMoves DEF Moves
<1>2. Sound(m)
  BY CodeChanges, SameMapsSound DEF Sound, IsAllocator
<1>3. Allocated(s, hit) \subseteq VReg
  BY DEF Allocated
<1>4. definePhysReg(s, p, new) = Cleared(a, hit, p, new)
  BY DEF definePhysReg
<1> HIDE DEF hit, m
<1>5. Moves(m, a) /\ Coded(a)
  BY <1>1, <1>2, <1>3, SpillVirtMoves DEF Moves
<1> HIDE DEF a
<1>6. Moves(a, Cleared(a, hit, p, new))
  BY <1>5, ClearedMoves
<1> QED
  BY <1>1, <1>4, <1>5, <1>6, MovesOn

LEMMA UsePhysMoves ==
    ASSUME NEW s, Coded(s), Here(s), NEW k \in 1..Len(Ops(s)), Ops(s)[k].reg \in PReg,
           ~Ops(s)[k].def, pc # "live-ins"
    PROVE  Moves(s, usePhysReg(s, k))
<1> DEFINE p == Ops(s)[k].reg
           m == markRegUsedInInstr(s, p)
           supers == { q \in Passed(s, p) : IsSuper(p, q) }
           q0 == CHOOSE q \in supers : TRUE
           t1 == SetEnds(Cleared(m, {}, p, "free"), k, TRUE)
           t2 == [m EXCEPT !.stuck = TRUE]
           t3 == AddKilled(Cleared(m, Passed(s, p), q0, "free"), q0)
           t4 == SetEnds(Cleared(m, Passed(s, p), p, "free"), k, TRUE)
<1>1. Moves(s, m) /\ Coded(m)
  BY MarkMoves DEF Moves
<1>2. usePhysReg(s, k) \in {s, t1, t2, t4} \/ (supers # {} /\ usePhysReg(s, k) = t3)
  BY DEF usePhysReg
<1>3. Moves(s, s)
  BY MovesSelf
<1>4. ASSUME NEW P, NEW q PROVE Moves(s, SetEnds(Cleared(m, P, q, "free"), k, TRUE))
  <2> DEFINE x == Cleared(m, P, q, "free")
  <2> HIDE DEF m
  <2>1. Moves(m, x) /\ Moves(s, x) /\ Coded(x)
    BY <1>1, ClearedMoves, MovesOn DEF Moves
  <2> HIDE DEF x
  <2>2. Here(x) /\ Len(Ops(x)) >= Len(Ops(s)) /\ Len(Ops(x)) \in Nat
    BY <2>1, HereMoves, OperandMoves
  <2>3. k \in 1..Len(Ops(x)) /\ TRUE \in BOOLEAN /\ ~Ops(x)[k].def
    <3>1. k \in 1..Len(Ops(x)) /\ k <= Len(Ops(s))
      BY <2>2
    <3>2. SameOperand(Ops(s)[k], Ops(x)[k])
      BY <2>1, <3>1, OperandMoves
    <3> QED
      BY <3>1, <3>2 DEF SameOperand
  <2>4. Moves(x, SetEnds(x, k, TRUE))
    BY <2>1, <2>2, <2>3, SetEndsMoves
  <2> QED
    BY <2>1, <2>4, MovesOn DEF x
<1>5. Moves(s, t2)
  <2> HIDE DEF m
  <2>1. Moves(m, t2)
    BY <1>1, PlainMoves DEF Coded, Members
  <2> QED
    BY <1>1, <2>1, MovesOn
<1>6. ASSUME supers # {} PROVE Moves(s, t3)
  <2>1. q0 \in PReg
    <3>1. q0 \in Passed(s, p)
      BY <1>6
    <3>2. Passed(s, p) \subseteq PReg
      <4>1. Len(Alias[p]) \in Nat /\ \A j \in 1..Len(Alias[p]) : Alias[p][j] \in PReg
        BY RegisterFacts, LenProperties, ElementOfSeq
      <4> QED
        BY <4>1 DEF Passed
    <3> QED
      BY <3>1, <3>2
  <2> DEFINE x == Cleared(m, Passed(s, p), q0, "free")
  <2> HIDE DEF m, q0
  <2>2. Moves(m, x) /\ Moves(s, x) /\ Coded(x)
    BY <1>1, ClearedMoves, MovesOn DEF Moves
  <2> HIDE DEF x
  <2>3. Here(x)
    BY <2>2, HereMoves
  <2>4. Moves(x, AddKilled(x, q0))
    BY <2>1, <2>2, <2>3, AddKilledMoves
  <2> QED
    BY <2>2, <2>4, MovesOn DEF x
<1> HIDE DEF m, q0, supers
<1> QED
  BY <1>2, <1>3, <1>4, <1>5, <1>6

-----------------------------------------------------------------------------
(* A virtual register gets a register, wherever it comes from.             *)

Got(s, t, v) == Moves(s, t) /\ t.live[v].phys \in PReg

LEMMA AssignGot ==
    ASSUME NEW s, Coded(s), Sound(s), NEW v \in VReg, NEW p \in PReg
    PROVE  Got(s, assignVirtToPhysReg(s, v, p), v)
<1> DEFINE t == assignVirtToPhysReg(s, v, p)
<1>1. DOMAIN s = Members /\ DOMAIN s.live = VReg /\ "phys" \in DOMAIN s.live[v]
  BY DEF Sound, IsAllocator
<1>2. /\ DOMAIN t = Members /\ t.fn = s.fn /\ t.mbb = s.mbb /\ t.mi = s.mi /\ t.opEnd = s.opEnd
      /\ t.slots = s.slots /\ t.across = s.across /\ t.dbg = s.dbg /\ t.virtDead = s.virtDead
      /\ t.live = [s.live EXCEPT ![v].phys = p]
  BY <1>1 DEF assignVirtToPhysReg, Members
<1> HIDE DEF t
<1>3. t.live[v].phys = p
  BY <1>1, <1>2
<1>4. t.slots \cup t.across \cup t.dbg \cup t.virtDead \subseteq VReg
  BY <1>2 DEF Coded
<1>5. Moves(s, t)
  BY <1>2, <1>4, PlainMoves
<1> QED
  BY <1>3, <1>5 DEF Got, t

LEMMA RoomGot ==
    ASSUME NEW s, Coded(s), Sound(s), NEW v \in VReg, NEW p \in PReg
    PROVE  Got(s, assignVirtToPhysReg(definePhysReg(s, p, "free"), v, p), v)
<1> DEFINE u == definePhysReg(s, p, "free")
<1>1. Moves(s, u) /\ Coded(u) /\ Sound(u)
  BY DefinePhysMoves, DefinePhysReg DEF Moves
<1> HIDE DEF u
<1>2. Got(u, assignVirtToPhysReg(u, v, p), v)
  BY <1>1, AssignGot
<1>3. Got(s, assignVirtToPhysReg(u, v, p), v)
  BY <1>1, <1>2, MovesOn DEF Got
<1> QED
  BY <1>3 DEF u

LEMMA TakeGot ==
    ASSUME NEW s, Coded(s), Sound(s), NEW v \in VReg, NEW p \in PReg
    PROVE  Got(s, Take(s, v, p), v)
  BY AssignGot, RoomGot DEF Take

LEMMA TakeCheapestGot ==
    ASSUME NEW s, Coded(s), Sound(s), NEW v \in VReg,
           NEW cost, \A i \in 1..Len(Order[v]) : cost[i] \in Nat
    PROVE  Got(s, TakeCheapest(s, v, cost), v)
<1> DEFINE order == Order[v]
           possible == { i \in 1..Len(order) : cost[i] < spillImpossible }
           cheapest == { i \in possible : \A j \in possible : cost[i] <= cost[j] }
           best == First(cheapest)
           forced == assignVirtToPhysReg(definePhysReg(s, order[1], "free"), v, order[1])
           t == [forced EXCEPT !.errors = TRUE]
<1>1. TakeCheapest(s, v, cost) = IF possible = {} THEN t ELSE Take(s, v, order[best])
  BY DEF TakeCheapest
<1>2. Got(s, t, v)
  <2>1. order[1] \in PReg
    BY OrderFacts
  <2>2. Got(s, forced, v)
    BY <2>1, RoomGot
  <2> HIDE DEF forced
  <2>3. Coded(forced) /\ DOMAIN forced = Members
    BY <2>2 DEF Got, Moves, Coded
  <2>4. /\ DOMAIN t = Members /\ t.fn = forced.fn /\ t.mbb = forced.mbb /\ t.mi = forced.mi
        /\ t.opEnd = forced.opEnd /\ t.live = forced.live
        /\ t.slots = forced.slots /\ t.across = forced.across /\ t.dbg = forced.dbg
        /\ t.virtDead = forced.virtDead
    BY <2>3 DEF Members
  <2>5. t.slots \cup t.across \cup t.dbg \cup t.virtDead \subseteq VReg
    BY <2>3, <2>4 DEF Coded
  <2> HIDE DEF t
  <2>6. Moves(forced, t)
    BY <2>3, <2>4, <2>5, PlainMoves
  <2> QED
    BY <2>2, <2>4, <2>6, MovesOn DEF Got
<1>3. ASSUME possible # {} PROVE best \in 1..Len(order)
  <2> DEFINE values == { cost[i] : i \in possible }
  <2>1. possible \subseteq 1..Len(order) /\ possible \subseteq Nat
    BY OrderFacts
  <2>2. values \subseteq Nat /\ values # {}
    <3> HIDE DEF possible
    <3> QED BY <1>3, <2>1
  <2>3. PICK x \in values : \A y \in values : x <= y
    <3> HIDE DEF values
    <3> QED BY <2>2, LeastOf
  <2>4. cheapest # {}
    <3> HIDE DEF possible
    <3> QED BY <2>3
  <2>5. cheapest \subseteq possible
    OBVIOUS
  <2> HIDE DEF possible, cheapest
  <2>6. best \in cheapest
    BY <2>1, <2>4, <2>5, FirstOf
  <2> QED
    BY <2>1, <2>5, <2>6
<1> HIDE DEF best, possible, forced
<1>4. ASSUME possible # {} PROVE Got(s, Take(s, v, order[best]), v)
  BY <1>3, <1>4, OrderFacts, TakeGot
<1> QED
  BY <1>1, <1>2, <1>4

LEMMA AllocGot8 ==
    ASSUME NEW s, Coded(s), Sound(s), NEW v \in VReg, NEW hint
    PROVE  Got(s, allocVirtReg8(s, v, hint), v)
<1> DEFINE idle == { i \in 1..Len(Order[v]) :
                        s.regState[Order[v][i]] = "free" /\ ~isRegUsedInInstr(s, Order[v][i]) }
<1>1. Usable(v, hint) => Got(s, Take(s, v, hint), v)
  BY OrderFacts, TakeGot
<1>2. ASSUME idle # {} PROVE Got(s, assignVirtToPhysReg(s, v, Order[v][First(idle)]), v)
  <2>1. idle \subseteq Nat /\ idle \subseteq 1..Len(Order[v])
    BY OrderFacts
  <2> HIDE DEF idle
  <2>2. First(idle) \in 1..Len(Order[v])
    BY <1>2, <2>1, FirstOf
  <2> QED
    BY <2>2, OrderFacts, AssignGot
<1>3. Got(s, TakeCheapest(s, v, Costs(s, v)), v)
  <2>1. \A i \in 1..Len(Order[v]) : Costs(s, v)[i] \in Nat
    BY OrderFacts, CostFacts DEF Costs
  <2> QED
    BY <2>1, TakeCheapestGot
<1> QED
  BY <1>1, <1>2, <1>3 DEF allocVirtReg8

LEMMA AllocGot10 ==
    ASSUME NEW s, Coded(s), Sound(s), NEW v \in VReg, NEW hint
    PROVE  Got(s, allocVirtReg10(s, v, hint), v)
<1> DEFINE traced == traceCopies(s, v)
           hint0 == IF Usable(v, hint) THEN hint ELSE NoReg
           hint1 == IF Usable(v, traced) /\ ~isRegUsedInInstr(s, traced) THEN traced ELSE NoReg
           Cheap(h) == h # NoReg /\ calcSpillCost(s, h) < spillDirty
           idle == { i \in 1..Len(Order[v]) : calcSpillCost(s, Order[v][i]) = 0 }
           preferred == [i \in 1..Len(Order[v]) |->
                            IF Order[v][i] \in {hint0, hint1}
                            THEN (calcSpillCost(s, Order[v][i]) - spillPrefBonus) % (UnsignedMax + 1)
                            ELSE calcSpillCost(s, Order[v][i])]
<1>1. /\ Cheap(hint0) => Got(s, Take(s, v, hint0), v)
      /\ Cheap(hint1) => Got(s, Take(s, v, hint1), v)
  <2> HIDE DEF traced
  <2>1. (hint0 # NoReg => hint0 \in PReg) /\ (hint1 # NoReg => hint1 \in PReg)
    BY OrderFacts
  <2> HIDE DEF hint0, hint1
  <2> QED
    BY <2>1, TakeGot
<1>2. ASSUME idle # {} PROVE Got(s, assignVirtToPhysReg(s, v, Order[v][First(idle)]), v)
  <2>1. idle \subseteq Nat /\ idle \subseteq 1..Len(Order[v])
    BY OrderFacts
  <2> HIDE DEF idle
  <2>2. First(idle) \in 1..Len(Order[v])
    BY <1>2, <2>1, FirstOf
  <2> QED
    BY <2>2, OrderFacts, AssignGot
<1>3. Got(s, TakeCheapest(s, v, preferred), v)
  <2>1. \A c \in Nat : (c - spillPrefBonus) % (UnsignedMax + 1) \in Nat
    BY CostAssumption DEF spillPrefBonus
  <2>2. \A i \in 1..Len(Order[v]) : calcSpillCost(s, Order[v][i]) \in Nat
    BY OrderFacts, CostFacts
  <2>3. \A i \in 1..Len(Order[v]) : preferred[i] \in Nat
    <3> HIDE DEF hint0, hint1
    <3> QED BY <2>1, <2>2
  <2> HIDE DEF preferred
  <2> QED
    BY <2>3, TakeCheapestGot
<1>4. allocVirtReg10(s, v, hint) =
        IF Cheap(hint0) THEN Take(s, v, hint0)
        ELSE IF Cheap(hint1) THEN Take(s, v, hint1)
        ELSE IF idle # {} THEN assignVirtToPhysReg(s, v, Order[v][First(idle)])
        ELSE TakeCheapest(s, v, preferred)
  BY DEF allocVirtReg10
<1> HIDE DEF Cheap, idle, preferred, hint0, hint1
<1> QED
  BY <1>1, <1>2, <1>3, <1>4

LEMMA AllocGot ==
    ASSUME NEW s, Coded(s), Sound(s), NEW v \in VReg, NEW hint
    PROVE  Got(s, allocVirtReg(s, v, hint), v)
  BY AllocGot8, AllocGot10 DEF allocVirtReg

LEMMA NamedGot ==
    ASSUME NEW s, Coded(s), Sound(s), NEW v \in VReg, s.live[v].phys \in PReg, NEW k, NEW dirty
    PROVE  Got(s, Named(s, v, k, dirty), v)
<1> DEFINE new == [phys |-> s.live[v].phys, lastUse |-> s.mi, lastOpNum |-> k, dirty |-> dirty]
           a == markRegUsedInInstr(s, s.live[v].phys)
           t == [a EXCEPT !.live[v] = new]
<1>1. new.phys = s.live[v].phys
  OBVIOUS
<1> HIDE DEF new
<1>2. Moves(s, a) /\ Coded(a) /\ DOMAIN a = Members /\ a.live = s.live
  BY MarkMoves, CodeChanges DEF Moves, Coded, SameMaps
<1> HIDE DEF a
<1>3. /\ DOMAIN t = Members /\ t.fn = a.fn /\ t.mbb = a.mbb /\ t.mi = a.mi /\ t.opEnd = a.opEnd
      /\ t.slots = a.slots /\ t.across = a.across /\ t.dbg = a.dbg /\ t.virtDead = a.virtDead
      /\ t.live = [s.live EXCEPT ![v] = new]
  BY <1>2 DEF Members
<1> HIDE DEF t
<1>4. t.slots \cup t.across \cup t.dbg \cup t.virtDead \subseteq VReg
  BY <1>2, <1>3 DEF Coded
<1>5. Moves(a, t)
  BY <1>2, <1>3, <1>4, PlainMoves
<1>6. t.live[v].phys = s.live[v].phys
  BY <1>1, <1>3 DEF Sound, IsAllocator
<1> QED
  BY <1>2, <1>5, <1>6, MovesOn DEF Got, Named, t, a, new

LEMMA ReloadGot ==
    ASSUME NEW s, Coded(s), Sound(s), Here(s), NEW k \in 1..Len(Ops(s)), NEW v \in VReg, NEW hint,
           Ops(s)[k].def => WasVirtual(s.mi, k)
    PROVE  Got(s, reloadVirtReg(s, k, v, hint), v)
<1> DEFINE flag == s.live[v].dirty /\ isLastUseOfLocalReg(s, v)
           found == SetEnds(s, k, flag)
           u == allocVirtReg(s, v, hint)
           loaded == reload(u, v)
           x == IF s.live[v].phys # NoReg THEN found ELSE loaded
<1>1. ASSUME s.live[v].phys # NoReg PROVE Got(s, found, v) /\ Sound(found)
  <2>1. flag \in BOOLEAN
    OBVIOUS
  <2> HIDE DEF flag
  <2>2. Moves(s, found)
    BY <2>1, SetEndsMoves
  <2>3. SameMaps(s, found) /\ Sound(found)
    BY CodeChanges, SameMapsSound DEF Sound, IsAllocator
  <2> QED
    BY <1>1, <2>2, <2>3 DEF Got, SameMaps, Sound, IsAllocator
<1>2. ASSUME s.live[v].phys = NoReg PROVE Got(s, loaded, v) /\ Sound(loaded)
  <2> DEFINE code == << Inserted("load", Def(u.live[v].phys), v) >>
             a == Insert(u, code)
             t == [a EXCEPT !.slots = @ \cup {v}]
  <2>1. Got(s, u, v) /\ Sound(u)
    BY <1>2, AllocGot, AllocVirtReg
  <2>2. loaded = t
    BY DEF reload
  <2> HIDE DEF u
  <2>3. code \in Seq(Added)
    <3>1. Def(u.live[v].phys) \in Operands /\ ~IsVirtual(Def(u.live[v].phys))
      BY <2>1, NewOperands DEF Got
    <3>2. "load" \in Opcodes \ {"copy"}
      BY DEF Opcodes
    <3>3. Inserted("load", Def(u.live[v].phys), v) \in Added
      BY <3>1, <3>2, InsertedIsAdded
    <3> QED
      BY <3>3
  <2> HIDE DEF code
  <2>4. Coded(u) /\ Moves(u, a)
    BY <2>1, <2>3, InsertMoves DEF Got, Moves
  <2>5. SameMaps(u, a)
    BY <2>1, CodeChanges DEF Sound, IsAllocator
  <2> HIDE DEF a
  <2>6. Coded(a) /\ DOMAIN a = Members
    BY <2>4 DEF Moves, Coded
  <2>7. /\ DOMAIN t = Members /\ t.fn = a.fn /\ t.mbb = a.mbb /\ t.mi = a.mi /\ t.opEnd = a.opEnd
        /\ t.slots = a.slots \cup {v} /\ t.across = a.across /\ t.dbg = a.dbg /\ t.virtDead = a.virtDead
        /\ t.live = a.live /\ t.regState = a.regState
    BY <2>6 DEF Members
  <2> HIDE DEF t
  <2>8. t.slots \cup t.across \cup t.dbg \cup t.virtDead \subseteq VReg
    BY <2>6, <2>7 DEF Coded
  <2>9. Moves(a, t)
    BY <2>6, <2>7, <2>8, PlainMoves
  <2>10. Moves(s, t)
    BY <2>1, <2>4, <2>6, <2>9, MovesOn DEF Got
  <2>11. SameMaps(u, t)
    BY <2>5, <2>6, <2>7 DEF SameMaps
  <2>12. Sound(t)
    BY <2>1, <2>11, SameMapsSound
  <2> QED
    BY <2>1, <2>2, <2>10, <2>11, <2>12 DEF Got, SameMaps
<1> HIDE DEF found, loaded
<1>3. Got(s, x, v) /\ Sound(x)
  BY <1>1, <1>2
<1>4. reloadVirtReg(s, k, v, hint) = Named(x, v, k, s.live[v].dirty)
  BY DEF reloadVirtReg, found, loaded
<1> HIDE DEF x
<1>5. Got(x, Named(x, v, k, s.live[v].dirty), v)
  BY <1>3, NamedGot DEF Got, Moves
<1> QED
  BY <1>3, <1>4, <1>5, MovesOn DEF Got, Moves

LEMMA DefineGot ==
    ASSUME NEW s, Coded(s), Sound(s), NEW k, NEW v \in VReg, NEW hint
    PROVE  Got(s, defineVirtReg(s, k, v, hint), v)
<1> DEFINE h == CopyHint(s, v, hint)
           a == addKillFlag(s, {v})
           fresh == allocVirtReg(s, v, h)
<1> HIDE DEF h
<1>1. s.live[v].phys = NoReg => Got(s, fresh, v) /\ Sound(fresh)
  BY AllocGot, AllocVirtReg
<1>2. Moves(s, a) /\ SameMaps(s, a) /\ Sound(a)
  BY KillFlagMoves, CodeChanges, SameMapsSound DEF Sound, IsAllocator
<1>3. s.live[v].phys # NoReg => Got(s, a, v) /\ Got(s, s, v)
  BY <1>2, MovesSelf DEF Got, SameMaps, Sound, IsAllocator
<1> HIDE DEF a, fresh
<1>4. \A x : Got(s, x, v) /\ Sound(x) => Got(s, Named(x, v, k, TRUE), v)
  <2> SUFFICES ASSUME NEW x, Got(s, x, v), Sound(x) PROVE Got(s, Named(x, v, k, TRUE), v)
    OBVIOUS
  <2>1. Got(x, Named(x, v, k, TRUE), v)
    BY NamedGot DEF Got, Moves
  <2> QED
    BY <2>1, MovesOn DEF Got, Moves
<1>5. \E x \in {s, a, fresh} : /\ defineVirtReg(s, k, v, hint) = Named(x, v, k, TRUE)
                               /\ x = fresh <=> s.live[v].phys = NoReg \/ x = fresh
                               /\ s.live[v].phys = NoReg => x = fresh
                               /\ s.live[v].phys # NoReg => x \in {s, a}
  BY DEF defineVirtReg, a, fresh, h
<1> QED
  BY <1>1, <1>2, <1>3, <1>4, <1>5

\* An operand is rewritten on the way from s to t.
Gives(s, t, k) == Moves(s, t) /\ k \in 1..Len(Ops(t)) /\ ~IsVirtual(Ops(t)[k])

LEMMA GivesOn ==
    ASSUME NEW s, NEW t, NEW u, NEW k, Coded(s), Here(s), Gives(s, t, k), Moves(t, u)
    PROVE  Gives(s, u, k)
<1>1. Coded(t) /\ Here(t) /\ Moves(s, u)
  BY HereMoves, MovesOn DEF Gives, Moves
<1>2. k \in 1..Len(Ops(u)) /\ SameOperand(Ops(t)[k], Ops(u)[k])
  BY <1>1, OperandMoves DEF Gives
<1> QED
  BY <1>1, <1>2 DEF Gives, SameOperand, IsVirtual

\* setPhysReg after anything that got a register.
LEMMA RewriteGives ==
    ASSUME NEW s, NEW t, NEW v, Coded(s), Here(s), Got(s, t, v), NEW k \in 1..Len(Ops(s)),
           Turns(s.mi, k), Ops(s)[k].def /\ Ops(s)[k].undef => AddsDef
    PROVE  Gives(s, setPhysReg(t, k, t.live[v].phys), k)
<1>a. /\ Coded(t) /\ Here(t) /\ t.live[v].phys \in PReg /\ t.mi = s.mi
      /\ k <= Len(Ops(s)) /\ k \in 1..Len(Ops(t))
  BY HereMoves, OperandMoves DEF Got, Moves
<1>b. SameOperand(Ops(s)[k], Ops(t)[k])
  BY <1>a, OperandMoves DEF Got
<1>1. /\ Coded(t) /\ Here(t) /\ t.live[v].phys \in PReg /\ k \in 1..Len(Ops(t))
      /\ Turns(t.mi, k) /\ (Ops(t)[k].def /\ Ops(t)[k].undef => AddsDef)
  BY <1>a, <1>b DEF SameOperand
<1>2. Gives(t, setPhysReg(t, k, t.live[v].phys), k)
  BY <1>1, SetPhysRegMoves DEF Gives
<1> QED
  BY <1>2, MovesOn DEF Gives, Got

LEMMA DefinedGives ==
    ASSUME NEW s, Coded(s), Sound(s), Here(s), NEW k \in 1..Len(Ops(s)), NEW hint, Ops(s)[k].reg \in VReg,
           Turns(s.mi, k), Ops(s)[k].def /\ Ops(s)[k].undef => AddsDef
    PROVE  Gives(s, DefinedOperand(s, k, hint), k)
<1> DEFINE v == Ops(s)[k].reg
           t == defineVirtReg(s, k, v, hint)
           u == setPhysReg(t, k, t.live[v].phys)
           r == [u EXCEPT !.virtDead = IF Ops(t)[k].ends THEN @ \cup {v} ELSE @]
<1>1. Got(s, t, v)
  BY DefineGot
<1>2. DefinedOperand(s, k, hint) = r
  BY DEF DefinedOperand, Rewritten
<1> HIDE DEF t, v
<1>3. Gives(s, u, k)
  BY <1>1, RewriteGives
<1> HIDE DEF u
<1>4. Coded(u) /\ DOMAIN u = Members /\ v \in VReg
  BY <1>3 DEF Gives, Moves, Coded, v
<1>5. /\ DOMAIN r = Members /\ r.fn = u.fn /\ r.mbb = u.mbb /\ r.mi = u.mi /\ r.opEnd = u.opEnd
      /\ r.slots = u.slots /\ r.across = u.across /\ r.dbg = u.dbg
      /\ r.virtDead = u.virtDead \/ r.virtDead = u.virtDead \cup {v}
  BY <1>4 DEF Members
<1> HIDE DEF r
<1>6. r.slots \cup r.across \cup r.dbg \cup r.virtDead \subseteq VReg
  BY <1>4, <1>5 DEF Coded
<1>7. Moves(u, r)
  BY <1>4, <1>5, <1>6, PlainMoves
<1> QED
  BY <1>2, <1>3, <1>7, GivesOn

LEMMA LoadedGives ==
    ASSUME NEW s, NEW t, NEW v, Coded(s), Here(s), Got(s, t, v), NEW k \in 1..Len(Ops(s)),
           Turns(s.mi, k), Ops(s)[k].def /\ Ops(s)[k].undef => AddsDef
    PROVE  Gives(s, Loaded(t, k, v), k)
<1> DEFINE p == t.live[v].phys
           a == setPhysReg(t, k, p)
           u == [a EXCEPT !.copySrc = IF @ \in {v, p} THEN p ELSE NoReg]
<1>1. Gives(s, a, k)
  BY RewriteGives
<1> HIDE DEF a, p
<1>2. Coded(a) /\ DOMAIN a = Members
  BY <1>1 DEF Gives, Moves, Coded
<1>3. /\ DOMAIN u = Members /\ u.fn = a.fn /\ u.mbb = a.mbb /\ u.mi = a.mi /\ u.opEnd = a.opEnd
      /\ u.slots = a.slots /\ u.across = a.across /\ u.dbg = a.dbg /\ u.virtDead = a.virtDead
  BY <1>2 DEF Members
<1> HIDE DEF u
<1>4. u.slots \cup u.across \cup u.dbg \cup u.virtDead \subseteq VReg
  BY <1>2, <1>3 DEF Coded
<1>5. Moves(a, u)
  BY <1>2, <1>3, <1>4, PlainMoves
<1>6. Gives(s, u, k)
  BY <1>1, <1>5, GivesOn
<1>7. Gives(s, killVirtReg(u, {v}), k)
  <2>1. Moves(u, killVirtReg(u, {v}))
    BY <1>6, KillMoves DEF Gives, Moves
  <2> QED
    BY <1>6, <2>1, GivesOn
<1> QED
  BY <1>6, <1>7 DEF Loaded, u, a, p

-----------------------------------------------------------------------------
(* The invariant of the code is kept by what the methods do.               *)

LEMMA InBlock ==
    ASSUME NEW s, BlocksInv(s), BlockInv(s)
    PROVE  /\ Coded(s) /\ Block(s) \in Code /\ Len(input.blocks[s.mbb]) \in Nat
           /\ s.mi <= Len(input.blocks[s.mbb]) => Once(Block(s), s.mi)
           /\ s.mi <= Len(input.blocks[s.mbb]) /\ s.mi = ra.mi => Here(s)
<1>1. Coded(s) /\ Block(s) \in Code
  <2>1. s.mbb \in 1..Len(s.fn)
    BY LenProperties DEF BlocksInv, BlockInv
  <2> QED
    BY <2>1, ElementOfSeq DEF BlocksInv, Coded, Block
<1>2. Len(input.blocks[s.mbb]) \in Nat
  <2>1. s.mi \in 1..(Len(input.blocks[s.mbb]) + 1)
    BY DEF BlockInv
  <2> QED
    BY <2>1
<1>3. ASSUME s.mi <= Len(input.blocks[s.mbb])
      PROVE  Once(Block(s), s.mi) /\ (s.mi = ra.mi => Here(s))
  <2>1. s.mi \in 1..Len(input.blocks[s.mbb]) /\ s.mi \in Nat \ {0}
    BY <1>2, <1>3 DEF BlockInv
  <2> QED
    BY <2>1 DEF BlockInv, Here
<1> QED
  BY <1>1, <1>2, <1>3

LEMMA DebugStays ==
    ASSUME NEW i \in Instrs, NEW i2 \in Instrs, Later(i, i2), DebugOK(i)
    PROVE  DebugOK(i2)
<1>1. Len(i.ops) \in Nat /\ Len(i2.ops) \in Nat
  BY InstrFacts
<1> QED
  BY <1>1 DEF Later, KeptOperand, SameOperand, DebugOK, IsVirtual

LEMMA BlocksMove ==
    ASSUME NEW s, NEW t, BlocksInv(s), BlockInv(s), Moves(s, t)
    PROVE  BlocksInv(t)
<1>1. /\ DOMAIN t = Members /\ t.fn \in Seq(Code) /\ Len(t.fn) = Len(input.blocks)
      /\ t.mbb \in 0..Len(t.fn) /\ t.mi \in Nat
      /\ t.slots \cup t.across \cup t.dbg \cup t.virtDead \subseteq VReg
  BY DEF BlocksInv, Moves, Coded
<1>2. \A b \in 1..Len(t.fn) : b # t.mbb => t.fn[b] = s.fn[b]
  BY DEF Moves
<1>3. \A b \in 1..Len(t.fn) : b < t.mbb => AllSettled(t.fn[b])
  BY <1>2 DEF BlocksInv, Moves
<1>4. \A b \in 1..Len(t.fn) : b > t.mbb => t.fn[b] = input.blocks[b]
  BY <1>2 DEF BlocksInv, Moves
<1>5. ASSUME NoCopies(s.fn) PROVE NoCopies(t.fn)
  <2>1. NoCopy(Block(t))
    <3>1. s.mbb \in 1..Len(s.fn)
      BY LenProperties DEF BlocksInv, BlockInv
    <3>2. Grown(Block(s), Block(t)) /\ NoCopy(Block(s))
      BY <1>5, <3>1 DEF Moves, NoCopies, Block
    <3> QED
      BY <3>2, NoCopyGrown
  <2>2. Len(t.fn) = Len(s.fn)
    BY DEF Moves
  <2> QED
    BY <1>2, <1>5, <2>1, <2>2 DEF NoCopies, Block
<1> QED
  BY <1>1, <1>3, <1>4, <1>5 DEF BlocksInv

LEMMA BlockMovesOn ==
    ASSUME NEW s, NEW t, BlocksInv(s), BlockInv(s), Moves(s, t), s.mi = ra.mi
    PROVE  BlockInv(t)
<1> DEFINE n == Len(input.blocks[s.mbb])
           c == Block(s)
           d == Block(t)
<1>1. n \in Nat /\ c \in Code /\ d \in Code /\ Grown(c, d) /\ t.mbb = s.mbb /\ t.mi = s.mi
  BY InBlock DEF Moves, Grown
<1>2. s.mi \in 1..(n + 1) /\ s.mbb # 0 /\ \A e \in 1..n : Once(d, e)
  <2>1. \A e \in 1..n : e \in Nat \ {0}
    BY <1>1
  <2> QED
    BY <1>1, <2>1 DEF BlockInv, Grown
<1>3. ASSUME NEW j \in 1..Len(d)
      PROVE  /\ d[j].id \in 0..n /\ (d[j].id < s.mi => Settled(d[j])) /\ (d[j].id # 0 => DebugOK(d[j]))
             /\ d[j].id > s.mi => Untouched(input.blocks[s.mbb][d[j].id], d[j])
  <2>1. CASE d[j] \in Added
    BY <1>1, <1>2, <2>1 DEF Added
  <2>2. ASSUME NEW h \in 1..Len(c), Later(c[h], d[j])
        PROVE  /\ d[j].id \in 0..n /\ (d[j].id < s.mi => Settled(d[j])) /\ (d[j].id # 0 => DebugOK(d[j]))
               /\ d[j].id > s.mi => Untouched(input.blocks[s.mbb][d[j].id], d[j])
    <3>1. c[h] \in Instrs /\ d[j] \in Instrs /\ d[j].id = c[h].id
      BY <1>1, <2>2, CodeFacts DEF Later
    <3>2. /\ c[h].id \in 0..n /\ (c[h].id < s.mi => Settled(c[h])) /\ (c[h].id # 0 => DebugOK(c[h]))
          /\ c[h].id > s.mi => Untouched(input.blocks[s.mbb][c[h].id], c[h])
      BY DEF BlockInv
    <3>3. c[h].id > s.mi => c[h].id # ra.mi
      BY <1>2, <3>2
    <3>4. d[j].id > s.mi => Untouched(input.blocks[s.mbb][d[j].id], d[j])
      BY <2>2, <3>1, <3>2, <3>3, UntouchedLater
    <3> QED
      BY <2>2, <3>1, <3>2, <3>4, LaterSettled, DebugStays
  <2> QED
    BY <1>1, <2>1, <2>2 DEF Grown
<1> QED
  BY <1>1, <1>2, <1>3 DEF BlockInv

\* What is left for a scan is left after a method.
LEMMA LeftMoves ==
    ASSUME NEW s, NEW t, BlocksInv(s), BlockInv(s), Moves(s, t), NEW scan, NEW n, ScanInv(s, scan, n),
           s.mi = ra.mi
    PROVE  ScanInv(t, scan, n)
<1>1. Coded(s) /\ Here(s)
  BY InBlock DEF ScanInv
<1>2. /\ Len(Ops(t)) >= Len(Ops(s)) /\ Len(Ops(t)) \in Nat /\ Len(Ops(s)) \in Nat
      /\ \A k \in 1..Len(Ops(t)) : IF k <= Len(Ops(s)) THEN SameOperand(Ops(s)[k], Ops(t)[k])
                                   ELSE ~IsVirtual(Ops(t)[k])
  BY <1>1, OperandMoves
<1>3. t.mi = s.mi /\ t.mbb = s.mbb /\ t.opEnd = s.opEnd
  BY DEF Moves
<1>4. ASSUME NEW k \in 1..Len(Ops(t)) PROVE LeftIn(Ops(t)[k], k, t.opEnd, scan, n)
  <2>1. CASE k <= Len(Ops(s))
    <3>1. k \in 1..Len(Ops(s))
      BY <1>2, <2>1
    <3>2. LeftIn(Ops(s)[k], k, s.opEnd, scan, n)
      BY <3>1 DEF ScanInv
    <3>3. SameOperand(Ops(s)[k], Ops(t)[k])
      BY <1>2, <2>1
    <3> HIDE DEF Ops
    <3> QED
      BY <1>3, <3>2, <3>3 DEF LeftIn, SameOperand, IsVirtual
  <2>2. CASE ~(k <= Len(Ops(s)))
    <3>1. ~IsVirtual(Ops(t)[k])
      BY <1>2, <2>2
    <3> QED
      BY <3>1 DEF LeftIn
  <2> QED
    BY <2>1, <2>2
<1>5. s.opEnd \in 0..Len(Ops(t))
  BY <1>2 DEF ScanInv
<1> QED
  BY <1>3, <1>4, <1>5 DEF ScanInv

\* What a scan does to the operand it has come to.
Handled(o, scan) ==
    /\ scan = "early clobbers" => ~(IsVirtual(o) /\ o.early /\ o.def)
    /\ scan = "defs" => ~IsVirtual(o)

LEMMA LeftNext ==
    ASSUME NEW s, NEW scan, NEW n \in Nat, ScanInv(s, scan, n),
           n \in 1..Len(Ops(s)) => Handled(Ops(s)[n], scan), Len(Ops(s)) \in Nat
    PROVE  ScanInv(s, scan, n + 1)
<1>1. ASSUME NEW k \in 1..Len(Ops(s)) PROVE LeftIn(Ops(s)[k], k, s.opEnd, scan, n + 1)
  <2>1. LeftIn(Ops(s)[k], k, s.opEnd, scan, n)
    BY DEF ScanInv
  <2>2. k < n + 1 => k < n \/ k = n
    OBVIOUS
  <2>3. k = n => Handled(Ops(s)[k], scan)
    OBVIOUS
  <2> QED
    BY <2>1, <2>2, <2>3 DEF LeftIn, Handled
<1> QED
  BY <1>1 DEF ScanInv

\* The scans in their order.
Following == { << "first scan", "through?" >>, << "tied uses", "early clobbers" >>,
               << "early clobbers", "restore" >>, << "uses", "undef uses" >>,
               << "physical defs", "defs" >>, << "defs", "finish" >> }

LEMMA LeftEnd ==
    ASSUME NEW s, NEW scan, NEW next, << scan, next >> \in Following, NEW n \in Nat,
           ScanInv(s, scan, n), n > s.opEnd, Len(Ops(s)) \in Nat
    PROVE  ScanInv(s, next, 1)
<1>1. ASSUME NEW k \in 1..Len(Ops(s)) PROVE LeftIn(Ops(s)[k], k, s.opEnd, next, 1)
  <2>1. LeftIn(Ops(s)[k], k, s.opEnd, scan, n)
    BY DEF ScanInv
  <2>2. s.opEnd \in Nat /\ k \in Nat /\ k >= 1
    BY DEF ScanInv
  <2>3. k > s.opEnd \/ k < n
    BY <2>2
  <2>4. ~(k < 1)
    BY <2>2
  <2> QED
    BY <2>1, <2>3, <2>4 DEF LeftIn, Following
<1> QED
  BY <1>1 DEF ScanInv

LEMMA CodeInvNext ==
    ASSUME CodeInv, version' = version, input' = input, opnum' \in Nat \ {0},
           pc' \notin {"block", "done"}, BlocksInv(ra'), BlockInv(ra'),
           pc' \in Scanning => ScanInv(ra', pc', opnum'),
           pc' \in {"live-ins", "instruction"} => Fresh(ra')
    PROVE  CodeInv'
<1>1. BlocksInv(ra)'
  BY DEF BlocksInv
<1>2. BlockInv(ra)'
  BY DEF BlockInv
<1>3. (pc \in Scanning => ScanInv(ra, pc, opnum))'
  BY DEF ScanInv
<1>4. (pc \in {"live-ins", "instruction"} => Fresh(ra))'
  BY DEF Fresh
<1> QED
  BY <1>1, <1>2, <1>3, <1>4 DEF CodeInv

\* One step of a scan.
LEMMA ScanStep ==
    ASSUME CodeInv, NEW scan, NEW next, << scan, next >> \in Following, NEW t,
           pc = scan, version' = version, input' = input,
           IF opnum <= ra.opEnd THEN ra' = t /\ opnum' = opnum + 1 /\ pc' = pc
           ELSE opnum' = 1 /\ pc' = next /\ ra' = ra,
           opnum \in 1..Len(Ops(ra)) =>
               /\ Moves(ra, t)
               /\ opnum \in 1..Len(Ops(t)) => Handled(Ops(t)[opnum], scan)
    PROVE  CodeInv' /\ Moves(ra, ra')
<1>1. /\ pc = scan /\ scan \in Scanning /\ next \in Scanning /\ version' = version /\ input' = input
      /\ scan \notin {"block", "done", "live-ins", "instruction"}
      /\ next \notin {"block", "done", "live-ins", "instruction"}
  BY DEF Following, Scanning
<1>2. BlocksInv(ra) /\ BlockInv(ra) /\ ScanInv(ra, pc, opnum) /\ opnum \in Nat \ {0}
  BY <1>1 DEF CodeInv
<1>3. Coded(ra) /\ Here(ra)
  BY <1>2, InBlock DEF ScanInv
<1>4. Len(Ops(ra)) \in Nat /\ ra.opEnd \in 0..Len(Ops(ra))
  BY <1>2, <1>3, HereFacts DEF ScanInv
<1>5. CASE opnum <= ra.opEnd
  <2>1. ra' = t /\ opnum' = opnum + 1 /\ pc' = pc
    BY <1>5
  <2>2. opnum \in 1..Len(Ops(ra))
    BY <1>2, <1>4, <1>5
  <2>3. BlocksInv(t) /\ BlockInv(t) /\ ScanInv(t, pc, opnum)
    BY <1>2, <2>2, BlocksMove, BlockMovesOn, LeftMoves
  <2>4. Len(Ops(t)) \in Nat
    BY <1>3, <2>2, OperandMoves
  <2>5. ScanInv(t, pc, opnum + 1)
    BY <1>1, <1>2, <2>2, <2>3, <2>4, LeftNext
  <2>6. opnum + 1 \in Nat \ {0}
    BY <1>2
  <2>7. Moves(ra, ra')
    BY <2>1, <2>2
  <2> QED
    BY <1>1, <2>1, <2>3, <2>5, <2>6, <2>7, CodeInvNext
<1>6. CASE ~(opnum <= ra.opEnd)
  <2>1. ra' = ra /\ opnum' = 1 /\ pc' = next
    BY <1>6
  <2>2. opnum > ra.opEnd
    BY <1>2, <1>4, <1>6
  <2>3. ScanInv(ra, next, 1)
    BY <1>1, <1>2, <1>4, <2>2, LeftEnd
  <2>4. Moves(ra, ra')
    BY <1>3, <2>1, MovesSelf
  <2> QED
    BY <1>1, <1>2, <2>1, <2>3, <2>4, CodeInvNext
<1> QED
  BY <1>5, <1>6

\* What is done between two scans.
LEMMA BetweenStep ==
    ASSUME CodeInv, version' = version, input' = input, opnum' = 1, pc' \in Scanning,
           NEW s, BlocksInv(s), BlockInv(s), s.mi = ra.mi, Moves(s, ra'), ScanInv(ra', pc', 1)
    PROVE  CodeInv'
<1>1. pc' \notin {"block", "done", "live-ins", "instruction"}
  BY DEF Scanning
<1>2. BlocksInv(ra') /\ BlockInv(ra')
  BY BlocksMove, BlockMovesOn
<1> QED
  BY <1>1, <1>2, CodeInvNext

\* What the invariants give inside a scan.
LEMMA InScan ==
    ASSUME IInv, CodeInv, pc \in Scanning
    PROVE  /\ Sound(ra) /\ Coded(ra) /\ Here(ra) /\ DOMAIN ra = Members
           /\ BlocksInv(ra) /\ BlockInv(ra) /\ ScanInv(ra, pc, opnum)
           /\ MI(ra) \in Instrs /\ Ops(ra) \in Seq(Operands) /\ Len(Ops(ra)) \in Nat
           /\ \A k \in 1..Len(Ops(ra)) : Ops(ra)[k] \in Operands
<1>1. pc \notin {"block", "done"}
  BY DEF Scanning
<1>2. BlocksInv(ra) /\ BlockInv(ra) /\ ScanInv(ra, pc, opnum) /\ Sound(ra)
  BY <1>1 DEF CodeInv, IInv, Sound
<1>3. Coded(ra) /\ Here(ra) /\ DOMAIN ra = Members
  BY <1>2, InBlock DEF ScanInv, Coded
<1> QED
  BY <1>2, <1>3, HereFacts

-----------------------------------------------------------------------------
(* Every step.                                                             *)

LEMMA CodeInit == Init => CodeInv
<1> SUFFICES ASSUME Init PROVE CodeInv
  OBVIOUS
<1>1. /\ version \in {8, 10} /\ input \in Functions[version] /\ pc = "block" /\ opnum = 1
      /\ ra = Start(input.blocks)
  BY DEF Init
<1>2. /\ DOMAIN ra = Members /\ ra.fn = input.blocks /\ ra.mbb = 0 /\ ra.mi = 0
      /\ ra.slots = {} /\ ra.across = {} /\ ra.dbg = {} /\ ra.virtDead = {}
  BY <1>1 DEF Start, Members
<1>3. input.blocks \in Seq(Code)
  BY <1>1, CodeAssumption DEF Code
<1>4. Len(ra.fn) \in Nat
  BY <1>2, <1>3, LenProperties
<1>5. BlocksInv(ra)
  BY <1>2, <1>3, <1>4 DEF BlocksInv
<1> QED
  BY <1>1, <1>2, <1>5 DEF CodeInv, Scanning

LEMMA CodeScans1 == IInv /\ CodeInv /\ (FirstScan \/ TiedUses \/ EarlyClobbers) => CodeInv' /\ Moves(ra, ra')
<1> SUFFICES ASSUME IInv, CodeInv, FirstScan \/ TiedUses \/ EarlyClobbers PROVE CodeInv' /\ Moves(ra, ra')
  OBVIOUS
<1> DEFINE o == Ops(ra)[opnum]
<1>1. pc \in Scanning
  BY DEF FirstScan, TiedUses, EarlyClobbers, Scan, Scanning
<1>2. Sound(ra) /\ Coded(ra) /\ Here(ra) /\ DOMAIN ra = Members
  BY <1>1, InScan
<1>3. Moves(ra, ra)
  BY <1>2, MovesSelf
<1>4. CASE FirstScan
  <2>1. ASSUME opnum \in 1..Len(Ops(ra)) PROVE Moves(ra, FirstScanOperand(opnum))
    <3>1. IsPhysical(o) /\ ~o.def => Moves(ra, usePhysReg(ra, opnum))
      BY <1>2, <1>4, <2>1, UsePhysMoves DEF IsPhysical, FirstScan, Scan
    <3>2. \A new : Moves(ra, definePhysReg(ra, o.reg, new))
      BY <1>2, DefinePhysMoves
    <3> QED
      BY <1>3, <3>1, <3>2 DEF FirstScanOperand
  <2>2. \A x : Handled(x, "first scan")
    BY DEF Handled
  <2>3. << "first scan", "through?" >> \in Following
    BY DEF Following
  <2>4. /\ pc = "first scan" /\ version' = version /\ input' = input
        /\ IF opnum <= ra.opEnd THEN ra' = FirstScanOperand(opnum) /\ opnum' = opnum + 1 /\ pc' = pc
           ELSE opnum' = 1 /\ pc' = "through?" /\ ra' = ra
    BY <1>4 DEF FirstScan, Scan
  <2> QED
    BY <2>1, <2>2, <2>3, <2>4, ScanStep
<1>5. CASE TiedUses
  <2>1. ASSUME opnum \in 1..Len(Ops(ra)) PROVE Moves(ra, TiedOperand(opnum))
    <3> DEFINE t == reloadVirtReg(ra, opnum, o.reg, NoReg)
               a == setPhysReg(t, opnum, t.live[o.reg].phys)
               b == [t EXCEPT !.partialDefs = @ \cup {t.live[o.reg].phys}]
    <3>1. /\ TiedOperand(opnum) \in {ra, a, b} /\ (~IsVirtual(o) => TiedOperand(opnum) = ra)
          /\ o.def => TiedOperand(opnum) \in {ra, b}
      BY DEF TiedOperand
    <3>2. ASSUME IsVirtual(o) PROVE (~o.def => Moves(ra, a)) /\ Moves(ra, b)
      <4>a. WasVirtual(ra.mi, opnum) /\ (~o.def => Turns(ra.mi, opnum))
        BY <1>5, <3>2 DEF WasVirtual, Turns, TiedUses, Scan
      <4>1. Got(ra, t, o.reg)
        BY <1>2, <2>1, <3>2, <4>a, ReloadGot DEF IsVirtual
      <4> HIDE DEF t
      <4>2. ~o.def => Moves(ra, a)
        BY <1>2, <2>1, <4>1, <4>a, RewriteGives DEF Gives
      <4> HIDE DEF o
      <4>3. Coded(t) /\ DOMAIN t = Members
        BY <4>1 DEF Got, Moves, Coded
      <4>4. Moves(t, b)
        BY <4>3, PlainMoves DEF Members, Coded
      <4> QED
        BY <1>2, <4>1, <4>2, <4>4, MovesOn DEF Got
    <3> HIDE DEF a, b, o
    <3> QED
      BY <1>3, <3>1, <3>2
  <2>2. \A x : Handled(x, "tied uses")
    BY DEF Handled
  <2>3. << "tied uses", "early clobbers" >> \in Following
    BY DEF Following
  <2>4. /\ pc = "tied uses" /\ version' = version /\ input' = input
        /\ IF opnum <= ra.opEnd THEN ra' = TiedOperand(opnum) /\ opnum' = opnum + 1 /\ pc' = pc
           ELSE opnum' = 1 /\ pc' = "early clobbers" /\ ra' = ra
    BY <1>5 DEF TiedUses, Scan
  <2> QED
    BY <2>1, <2>2, <2>3, <2>4, ScanStep
<1>6. CASE EarlyClobbers
  <2> DEFINE t == EarlyClobberOperand(opnum)
  <2>1. ASSUME opnum \in 1..Len(Ops(ra)) PROVE Moves(ra, t) /\ Handled(Ops(t)[opnum], "early clobbers")
    <3>1. CASE IsVirtual(o) /\ o.early
      <4>1. t = DefinedOperand(ra, opnum, NoReg)
        BY <3>1 DEF EarlyClobberOperand
      <4>a. Turns(ra.mi, opnum) /\ (o.undef => AddsDef)
        BY <1>6, <3>1 DEF WasVirtual, Turns, AddsDef, EarlyClobbers, Scan
      <4>2. Gives(ra, t, opnum)
        BY <1>2, <2>1, <3>1, <4>1, <4>a, DefinedGives DEF IsVirtual
      <4> QED
        BY <4>2 DEF Gives, Handled
    <3>2. CASE ~(IsVirtual(o) /\ o.early)
      BY <1>3, <3>2 DEF EarlyClobberOperand, Handled
    <3> QED
      BY <3>1, <3>2
  <2>2. << "early clobbers", "restore" >> \in Following
    BY DEF Following
  <2>3. /\ pc = "early clobbers" /\ version' = version /\ input' = input
        /\ IF opnum <= ra.opEnd THEN ra' = t /\ opnum' = opnum + 1 /\ pc' = pc
           ELSE opnum' = 1 /\ pc' = "restore" /\ ra' = ra
    BY <1>6 DEF EarlyClobbers, Scan
  <2> QED
    BY <2>1, <2>2, <2>3, ScanStep
<1> QED
  BY <1>4, <1>5, <1>6

LEMMA CodeScans2 == IInv /\ CodeInv /\ (Uses \/ PhysicalDefs \/ Definitions) => CodeInv' /\ Moves(ra, ra')
<1> SUFFICES ASSUME IInv, CodeInv, Uses \/ PhysicalDefs \/ Definitions PROVE CodeInv' /\ Moves(ra, ra')
  OBVIOUS
<1> DEFINE o == Ops(ra)[opnum]
<1>1. pc \in Scanning
  BY DEF Uses, PhysicalDefs, Definitions, Scan, Scanning
<1>2. Sound(ra) /\ Coded(ra) /\ Here(ra) /\ DOMAIN ra = Members
  BY <1>1, InScan
<1>3. Moves(ra, ra)
  BY <1>2, MovesSelf
<1>4. CASE Uses
  <2>1. ASSUME opnum \in 1..Len(Ops(ra)) PROVE Moves(ra, UseOperand(opnum))
    <3> DEFINE s == IF version = 8 THEN ra ELSE mayLiveIn(ra, o.reg)
               t == reloadVirtReg(s, opnum, o.reg, ra.copyDst)
    <3>1. UseOperand(opnum) \in {ra, Loaded(t, opnum, o.reg)}
          /\ (~IsVirtual(o) \/ o.def => UseOperand(opnum) = ra)
      BY DEF UseOperand
    <3>2. ASSUME IsVirtual(o), ~o.def PROVE Moves(ra, Loaded(t, opnum, o.reg))
      <4>a. Turns(ra.mi, opnum)
        BY <1>4, <3>2 DEF WasVirtual, Turns, Uses, Scan
      <4>1. o.reg \in VReg
        BY <3>2 DEF IsVirtual
      <4>2. Moves(ra, s) /\ Sound(s) /\ Ops(s) = Ops(ra)
        <5> DEFINE u == [ra EXCEPT !.across = @ \cup {o.reg}]
        <5> HIDE DEF o
        <5>1. /\ DOMAIN u = Members /\ u.fn = ra.fn /\ u.mbb = ra.mbb /\ u.mi = ra.mi /\ u.opEnd = ra.opEnd
              /\ u.slots = ra.slots /\ u.across = ra.across \cup {o.reg} /\ u.dbg = ra.dbg
              /\ u.virtDead = ra.virtDead /\ u.regState = ra.regState /\ u.live = ra.live
          BY <1>2 DEF Members
        <5>2. s \in {ra, u}
          BY DEF mayLiveIn
        <5> HIDE DEF u
        <5>3. Moves(ra, u)
          BY <1>2, <4>1, <5>1, PlainMoves DEF Coded
        <5>4. Sound(u)
          BY <1>2, <5>1, Elsewhere
        <5>5. Ops(u) = Ops(ra)
          BY <5>1 DEF Ops, MI, Block
        <5> HIDE DEF s
        <5> QED
          BY <1>2, <1>3, <5>2, <5>3, <5>4, <5>5
      <4>b. ~Ops(s)[opnum].def
        BY <3>2, <4>2
      <4> HIDE DEF s, o
      <4>3. Coded(s) /\ Here(s) /\ s.mi = ra.mi
        BY <1>2, <4>2, HereMoves DEF Moves
      <4>4. Got(s, t, o.reg)
        BY <2>1, <4>1, <4>2, <4>3, <4>b, ReloadGot
      <4> HIDE DEF t
      <4>5. Gives(s, Loaded(t, opnum, o.reg), opnum)
        BY <2>1, <4>2, <4>3, <4>4, <4>a, <4>b, LoadedGives
      <4> QED
        BY <1>2, <4>2, <4>5, MovesOn DEF Gives
    <3> HIDE DEF t, o
    <3> QED
      BY <1>3, <3>1, <3>2
  <2>2. \A x : Handled(x, "uses")
    BY DEF Handled
  <2>3. << "uses", "undef uses" >> \in Following
    BY DEF Following
  <2>4. /\ pc = "uses" /\ version' = version /\ input' = input
        /\ IF opnum <= ra.opEnd THEN ra' = UseOperand(opnum) /\ opnum' = opnum + 1 /\ pc' = pc
           ELSE opnum' = 1 /\ pc' = "undef uses" /\ ra' = ra
    BY <1>4 DEF Uses, Scan
  <2> QED
    BY <2>1, <2>2, <2>3, <2>4, ScanStep
<1>5. Moves(ra, PhysDefOperand(opnum))
  <2>1. \A new : Moves(ra, definePhysReg(ra, o.reg, new))
    BY <1>2, DefinePhysMoves
  <2> QED
    BY <1>3, <2>1 DEF PhysDefOperand
<1>6. CASE PhysicalDefs
  <2>1. \A x : Handled(x, "physical defs")
    BY DEF Handled
  <2>2. << "physical defs", "defs" >> \in Following
    BY DEF Following
  <2>3. /\ pc = "physical defs" /\ version' = version /\ input' = input
        /\ IF opnum <= ra.opEnd THEN ra' = PhysDefOperand(opnum) /\ opnum' = opnum + 1 /\ pc' = pc
           ELSE opnum' = 1 /\ pc' = "defs" /\ ra' = ra
    BY <1>6 DEF PhysicalDefs, Scan
  <2> QED
    BY <1>5, <2>1, <2>2, <2>3, ScanStep
<1>7. CASE Definitions
  <2> DEFINE t == DefOperand(opnum)
  <2>1. ASSUME opnum \in 1..Len(Ops(ra)), opnum \in 1..Len(Ops(t)), Moves(ra, t), ~IsVirtual(o)
        PROVE  ~IsVirtual(Ops(t)[opnum])
    <3> HIDE DEF t
    <3>1. opnum <= Len(Ops(ra))
      BY <2>1
    <3>2. SameOperand(o, Ops(t)[opnum])
      BY <1>2, <2>1, <3>1, OperandMoves
    <3> QED
      BY <2>1, <3>2 DEF SameOperand, IsVirtual
  <2>2. ASSUME opnum \in 1..Len(Ops(ra))
        PROVE  Moves(ra, t) /\ (opnum \in 1..Len(Ops(t)) => ~IsVirtual(Ops(t)[opnum]))
    <3>1. CASE ~IsVirtual(o)
      <4>1. t \in {ra, PhysDefOperand(opnum)}
        BY <3>1 DEF DefOperand, VirtDefOperand
      <4>2. Moves(ra, t)
        BY <1>3, <1>5, <4>1
      <4> QED
        BY <2>1, <2>2, <3>1, <4>2
    <3>2. CASE IsVirtual(o)
      <4> DEFINE u == DefinedOperand(ra, opnum, ra.copySrc)
                 c == IF ~o.ends /\ u.copyDst \in {o.reg, u.live[o.reg].phys} THEN u.live[o.reg].phys ELSE NoReg
      <4>1. ~IsPhysical(o) /\ o.def /\ ~o.early
        <5>1. pc = "defs"
          BY <1>7 DEF Definitions, Scan
        <5>2. LeftIn(o, opnum, ra.opEnd, "defs", opnum)
          BY <1>1, <2>2, <5>1, InScan DEF ScanInv
        <5> QED
          BY <3>2, <5>2, RegisterFacts DEF LeftIn, IsPhysical, IsVirtual
      <4>a. Turns(ra.mi, opnum) /\ AddsDef
        BY <1>7, <3>2 DEF WasVirtual, Turns, AddsDef, Definitions, Scan
      <4>2. Gives(ra, u, opnum)
        BY <1>2, <2>2, <3>2, <4>a, DefinedGives DEF IsVirtual
      <4>3. Coded(u) /\ DOMAIN u = Members
        BY <4>2 DEF Gives, Moves, Coded
      <4>4. t = [u EXCEPT !.copyDst = c]
        BY <3>2, <4>1, <4>3 DEF DefOperand, VirtDefOperand, Members
      <4> HIDE DEF t, u, c, o
      <4>5. Moves(u, t)
        BY <4>3, <4>4, PlainMoves DEF Members, Coded
      <4> QED
        BY <1>2, <4>2, <4>5, GivesOn DEF Gives
    <3> QED
      BY <3>1, <3>2
  <2>3. opnum \in 1..Len(Ops(ra)) => Moves(ra, t) /\ (opnum \in 1..Len(Ops(t)) => Handled(Ops(t)[opnum], "defs"))
    BY <2>2 DEF Handled
  <2>4. << "defs", "finish" >> \in Following
    BY DEF Following
  <2>5. /\ pc = "defs" /\ version' = version /\ input' = input
        /\ IF opnum <= ra.opEnd THEN ra' = t /\ opnum' = opnum + 1 /\ pc' = pc
           ELSE opnum' = 1 /\ pc' = "finish" /\ ra' = ra
    BY <1>7 DEF Definitions, Scan
  <2> QED
    BY <2>3, <2>4, <2>5, ScanStep
<1> QED
  BY <1>4, <1>6, <1>7

LEMMA SameCode ==
    ASSUME NEW s, NEW t, BlocksInv(s), BlockInv(s), DOMAIN t = Members,
           t.fn = s.fn, t.mbb = s.mbb, t.mi = s.mi,
           t.slots \cup t.across \cup t.dbg \cup t.virtDead \subseteq VReg
    PROVE  BlocksInv(t) /\ BlockInv(t) /\ Ops(t) = Ops(s) /\ MI(t) = MI(s)
<1>1. Block(t) = Block(s)
  BY DEF Block
<1>2. BlocksInv(t) /\ BlockInv(t)
  BY <1>1 DEF BlocksInv, BlockInv
<1> QED
  BY <1>1, <1>2 DEF MI, Ops

LEMMA CodeThrough == IInv /\ CodeInv /\ HandleCollisions => CodeInv' /\ Moves(ra, ra')
<1> SUFFICES ASSUME IInv, CodeInv, HandleCollisions PROVE CodeInv' /\ Moves(ra, ra')
  OBVIOUS
<1> DEFINE defs == { o.reg : o \in { o \in Elements(Ops(ra)) : IsPhysical(o) /\ o.def } }
           hit == { q \in PReg : /\ ra.regState[q] \in Through(MI(ra))
                                 /\ \E p \in defs : Overlap(p, q) }
           a == spillVirtReg(ra, Allocated(ra, hit))
           s == [a EXCEPT !.used = @ \cup UNION { Units(p) : p \in defs \cup hit },
                          !.copyDst = NoReg, !.earlyClobbers = TRUE]
<1>1. /\ pc = "through?" /\ opnum' = 1 /\ version' = version /\ input' = input
      /\ HasThroughOperands(MI(ra)) => pc' = "tied uses" /\ ra' = s
      /\ ~HasThroughOperands(MI(ra)) => pc' = "uses" /\ ra' = ra
  BY DEF HandleCollisions, Between
<1> HIDE DEF defs, hit
<1>2. pc \in Scanning /\ pc' \in Scanning
  BY <1>1 DEF Scanning
<1>3. /\ Sound(ra) /\ Coded(ra) /\ Here(ra) /\ DOMAIN ra = Members
      /\ BlocksInv(ra) /\ BlockInv(ra) /\ ScanInv(ra, "through?", opnum)
      /\ Len(Ops(ra)) \in Nat
  BY <1>1, <1>2, InScan
<1>4. CASE HasThroughOperands(MI(ra))
  <2>1. Allocated(ra, hit) \subseteq VReg
    BY DEF Allocated
  <2>2. Moves(ra, a)
    BY <1>3, <2>1, SpillVirtMoves
  <2> HIDE DEF a
  <2>3. Coded(a) /\ DOMAIN a = Members
    BY <2>2 DEF Moves, Coded
  <2>a. /\ DOMAIN s = Members /\ s.fn = a.fn /\ s.mbb = a.mbb /\ s.mi = a.mi /\ s.opEnd = a.opEnd
        /\ s.slots = a.slots /\ s.across = a.across /\ s.dbg = a.dbg /\ s.virtDead = a.virtDead
    BY <2>3 DEF Members
  <2> HIDE DEF s
  <2>b. Moves(a, s)
    BY <2>3, <2>a, PlainMoves DEF Coded
  <2>4. Moves(ra, ra')
    BY <1>1, <1>3, <1>4, <2>2, <2>b, MovesOn
  <2>5. ScanInv(ra, "tied uses", 1)
    BY <1>3 DEF ScanInv, LeftIn
  <2>6. ScanInv(ra', "tied uses", 1)
    BY <1>3, <2>4, <2>5, LeftMoves
  <2>7. ScanInv(ra', pc', 1)
    BY <1>1, <1>4, <2>6
  <2> QED
    BY <1>1, <1>2, <1>3, <2>4, <2>7, BetweenStep
<1>5. CASE ~HasThroughOperands(MI(ra))
  <2>1. \A k \in 1..Len(Ops(ra)) : ~(Ops(ra)[k].early /\ Ops(ra)[k].def)
    BY <1>5 DEF HasThroughOperands, Elements, Ops
  <2>2. ScanInv(ra, "uses", 1)
    BY <1>3, <2>1 DEF ScanInv, LeftIn
  <2>3. Moves(ra, ra')
    BY <1>1, <1>3, <1>5, MovesSelf
  <2> QED
    BY <1>1, <1>2, <1>3, <1>5, <2>2, <2>3, BetweenStep
<1> QED
  BY <1>4, <1>5

LEMMA CodeRestore == IInv /\ CodeInv /\ RestoreUsed => CodeInv' /\ Moves(ra, ra')
<1> SUFFICES ASSUME IInv, CodeInv, RestoreUsed PROVE CodeInv' /\ Moves(ra, ra')
  OBVIOUS
<1>1. /\ pc = "restore" /\ opnum' = 1 /\ version' = version /\ input' = input /\ pc' = "uses"
      /\ \E used : ra' = [ra EXCEPT !.used = used]
  BY DEF RestoreUsed, Between
<1>2. pc \in Scanning /\ pc' \in Scanning
  BY <1>1 DEF Scanning
<1>3. /\ Coded(ra) /\ DOMAIN ra = Members
      /\ BlocksInv(ra) /\ BlockInv(ra) /\ ScanInv(ra, "restore", opnum)
  BY <1>1, <1>2, InScan
<1>4. Moves(ra, ra')
  BY <1>1, <1>3, PlainMoves DEF Coded, Members
<1>5. ScanInv(ra, "uses", 1)
  BY <1>3 DEF ScanInv, LeftIn
<1>6. ScanInv(ra', pc', 1)
  BY <1>1, <1>3, <1>4, <1>5, LeftMoves
<1> QED
  BY <1>1, <1>2, <1>3, <1>4, <1>6, BetweenStep

LEMMA UndefOperand ==
    ASSUME NEW s, Sound(s), NEW o \in Operands
    PROVE  /\ allocVirtRegUndef(s, o) \in Operands /\ SameOperand(o, allocVirtRegUndef(s, o))
           /\ IsVirtual(allocVirtRegUndef(s, o)) => allocVirtRegUndef(s, o) = o /\ o.def
<1> DEFINE p == IF s.live[o.reg].phys # NoReg THEN s.live[o.reg].phys ELSE Order[o.reg][1]
           r == IF o.sub = 0 THEN p ELSE LowPart[p]
           o1 == [o EXCEPT !.reg = r, !.sub = 0]
<1>1. CASE ~IsVirtual(o) \/ o.def
  BY <1>1 DEF allocVirtRegUndef, SameOperand
<1>2. CASE IsVirtual(o) /\ ~o.def
  <2>1. o.reg \in VReg /\ s.live[o.reg].phys \in PReg \cup {NoReg}
    BY <1>2 DEF IsVirtual, Sound, IsAllocator
  <2>2. Order[o.reg] \in Seq(PReg) /\ Order[o.reg] # << >>
    BY <2>1, RegisterFacts
  <2>3. Order[o.reg][1] \in PReg
    BY <2>2
  <2>4. p \in PReg
    BY <2>1, <2>3
  <2>5. r \in PReg \cup {NoReg}
    <3> HIDE DEF p
    <3> QED BY <2>4, RegistersAssumption
  <2>6. allocVirtRegUndef(s, o) = o1
    BY <1>2 DEF allocVirtRegUndef
  <2> HIDE DEF r
  <2> QED
    BY <2>5, <2>6, OperandFacts
<1> QED
  BY <1>1, <1>2

LEMMA CodeUndef == IInv /\ CodeInv /\ UndefUses => CodeInv' /\ Moves(ra, ra')
<1> SUFFICES ASSUME IInv, CodeInv, UndefUses PROVE CodeInv' /\ Moves(ra, ra')
  OBVIOUS
<1> DEFINE f == [k \in 1..Len(Ops(ra)) |-> allocVirtRegUndef(ra, Ops(ra)[k])]
<1>1. /\ pc = "undef uses" /\ opnum' = 1 /\ version' = version /\ input' = input /\ pc' = "before defs"
      /\ ra' = SetOps(ra, MapSeq(f))
  BY DEF UndefUses, Between
<1>2. pc \in Scanning /\ pc' \in Scanning
  BY <1>1 DEF Scanning
<1>3. /\ Sound(ra) /\ Coded(ra) /\ Here(ra) /\ MI(ra) \in Instrs
      /\ BlocksInv(ra) /\ BlockInv(ra) /\ ScanInv(ra, "undef uses", opnum)
      /\ \A k \in 1..Len(Ops(ra)) : Ops(ra)[k] \in Operands
  BY <1>1, <1>2, InScan
<1>4. \A k \in 1..Len(Ops(ra)) :
         /\ f[k] \in Operands /\ SameOperand(Ops(ra)[k], f[k])
         /\ IsVirtual(f[k]) => f[k] = Ops(ra)[k] /\ f[k].def
  BY <1>3, UndefOperand
<1>5. f \in [1..Len(Ops(ra)) -> Operands]
  BY <1>4
<1>a. ASSUME NEW k \in 1..Len(Ops(ra)) PROVE KeptOperand(MI(ra).id, k, Ops(ra)[k], f[k])
  <2>1. MI(ra).id = ra.mi
    BY <1>3, HereFacts
  <2>2. allocVirtRegUndef(ra, Ops(ra)[k]) = f[k]
    BY DEF f
  <2>3. f[k] = Ops(ra)[k] \/ (IsVirtual(Ops(ra)[k]) /\ ~Ops(ra)[k].def)
    BY <2>2 DEF allocVirtRegUndef
  <2>4. ~Ops(ra)[k].def /\ IsVirtual(Ops(ra)[k]) => Turns(ra.mi, k) /\ WasVirtual(ra.mi, k)
    BY <1>1 DEF Turns, WasVirtual
  <2> HIDE DEF f
  <2> QED
    BY <1>4, <2>1, <2>3, <2>4 DEF KeptOperand
<1> HIDE DEF f
<1>6. MapSeq(f) = f /\ f \in Seq(Operands) /\ Len(f) = Len(Ops(ra)) /\ Later(MI(ra), [MI(ra) EXCEPT !.ops = f])
  BY <1>3, <1>4, <1>5, <1>a, SameOperands DEF Ops
<1>7. Moves(ra, ra') /\ Ops(ra') = f
  BY <1>1, <1>3, <1>6, SetOpsMoves
<1>8. ra'.opEnd = ra.opEnd /\ ra'.mi = ra.mi /\ ra'.mbb = ra.mbb
  BY <1>7 DEF Moves
<1>9. ASSUME NEW k \in 1..Len(f) PROVE LeftIn(f[k], k, ra'.opEnd, "before defs", 1)
  <2>1. LeftIn(Ops(ra)[k], k, ra.opEnd, "undef uses", opnum) /\ k \in 1..Len(Ops(ra))
    BY <1>3, <1>6 DEF ScanInv
  <2> QED
    BY <1>4, <1>8, <2>1 DEF LeftIn
<1>10. ScanInv(ra', pc', 1)
  BY <1>1, <1>3, <1>6, <1>7, <1>8, <1>9 DEF ScanInv
<1> QED
  BY <1>1, <1>2, <1>3, <1>7, <1>10, BetweenStep

LEMMA CodeBeforeDefs ==
    IInv /\ CodeInv /\ BeforeDefs =>
        /\ CodeInv'
        /\ \E s : /\ s.mi = ra.mi /\ s.mbb = ra.mbb /\ s.fn = ra.fn /\ Coded(s) /\ Here(s)
                 /\ s.opEnd = Len(Ops(ra)) /\ Moves(s, ra')
<1> SUFFICES ASSUME IInv, CodeInv, BeforeDefs
             PROVE  /\ CodeInv'
                    /\ \E s : /\ s.mi = ra.mi /\ s.mbb = ra.mbb /\ s.fn = ra.fn /\ Coded(s) /\ Here(s)
                             /\ s.opEnd = Len(Ops(ra)) /\ Moves(s, ra')
  OBVIOUS
<1> DEFINE kept == { o.reg : o \in { o \in Elements(Ops(ra)) : IsPhysical(o) /\ (o.def \/ o.tied # 0) } }
           s == [ra EXCEPT !.opEnd = Len(Ops(ra)),
                           !.used = IF ra.earlyClobbers THEN UNION { Units(p) : p \in kept } ELSE {}]
<1>1. /\ pc = "before defs" /\ opnum' = 1 /\ version' = version /\ input' = input
      /\ pc' \in {"defs", "physical defs"} /\ ra' \in {s, spillAll(s, FALSE)}
  BY DEF BeforeDefs, Between
<1> HIDE DEF kept
<1>2. pc \in Scanning /\ pc' \in Scanning
  BY <1>1 DEF Scanning
<1>3. /\ Sound(ra) /\ Coded(ra) /\ Here(ra) /\ DOMAIN ra = Members
      /\ BlocksInv(ra) /\ BlockInv(ra) /\ ScanInv(ra, "before defs", opnum) /\ Len(Ops(ra)) \in Nat
  BY <1>1, <1>2, InScan
<1>4. /\ DOMAIN s = Members /\ s.fn = ra.fn /\ s.mbb = ra.mbb /\ s.mi = ra.mi /\ s.opEnd = Len(Ops(ra))
      /\ s.slots = ra.slots /\ s.across = ra.across /\ s.dbg = ra.dbg /\ s.virtDead = ra.virtDead
      /\ s.regState = ra.regState /\ s.live = ra.live
  BY <1>3 DEF Members
<1>a. s.opEnd \in 0..Len(Ops(ra)) /\ \A k \in 1..Len(Ops(ra)) : ~(k > s.opEnd) /\ ~(k < 1)
  <2> DEFINE n == Len(Ops(ra))
  <2>1. n \in Nat /\ s.opEnd = n
    BY <1>3, <1>4
  <2> HIDE DEF n, s
  <2>2. s.opEnd \in 0..n /\ \A k \in 1..n : ~(k > s.opEnd) /\ ~(k < 1)
    BY <2>1
  <2> QED
    BY <2>2 DEF n
<1> HIDE DEF s
<1>5. BlocksInv(s) /\ BlockInv(s) /\ Ops(s) = Ops(ra) /\ Sound(s)
  BY <1>3, <1>4, SameCode, Elsewhere DEF Coded
<1>6. Coded(s)
  BY <1>5, InBlock
<1>7. ScanInv(s, pc', 1)
  <2>1. ASSUME NEW k \in 1..Len(Ops(s)) PROVE LeftIn(Ops(s)[k], k, s.opEnd, pc', 1)
    <3>1. k \in 1..Len(Ops(ra))
      BY <1>5
    <3>2. LeftIn(Ops(ra)[k], k, ra.opEnd, "before defs", opnum)
      BY <1>3, <3>1 DEF ScanInv
    <3>3. ~(k > s.opEnd) /\ ~(k < 1)
      BY <1>a, <3>1
    <3> QED
      BY <1>1, <1>5, <3>2, <3>3 DEF LeftIn
  <2>2. s.opEnd \in 0..Len(Ops(s))
    BY <1>5, <1>a
  <2>3. s.mi <= Len(input.blocks[s.mbb])
    BY <1>3, <1>4 DEF ScanInv
  <2> QED
    BY <2>1, <2>2, <2>3 DEF ScanInv
<1>8. Moves(s, ra')
  <2>1. Moves(s, spillAll(s, FALSE))
    BY <1>5, <1>6, SpillAllMoves
  <2> QED
    BY <1>1, <1>6, <2>1, MovesSelf
<1>9. ScanInv(ra', pc', 1)
  BY <1>4, <1>5, <1>7, <1>8, LeftMoves
<1>10. CodeInv'
  BY <1>1, <1>2, <1>4, <1>5, <1>8, <1>9, BetweenStep
<1>11. Here(s)
  BY <1>3, <1>4 DEF Here, Block
<1> QED
  BY <1>4, <1>6, <1>8, <1>10, <1>11

\* On to the next instruction, when this one is settled.
LEMMA NextInstruction ==
    ASSUME NEW s, NEW t, BlocksInv(s), BlockInv(s), s.mi <= Len(input.blocks[s.mbb]), Settled(MI(s)),
           DOMAIN t = Members, t.fn = s.fn, t.mbb = s.mbb, t.mi = s.mi + 1,
           t.slots \cup t.across \cup t.dbg \cup t.virtDead \subseteq VReg
    PROVE  BlocksInv(t) /\ BlockInv(t) /\ Fresh(t)
<1> DEFINE n == Len(input.blocks[s.mbb])
           c == Block(s)
<1>1. /\ n \in Nat /\ c \in Code /\ Coded(s) /\ Once(c, s.mi) /\ s.mi \in 1..n /\ s.mi <= n
      /\ Block(t) = c /\ s.mbb # 0
  <2>1. s.mi \in 1..(n + 1) /\ s.mbb # 0
    BY DEF BlockInv
  <2>2. n \in Nat /\ c \in Code /\ Coded(s) /\ Once(c, s.mi)
    BY InBlock
  <2>3. Block(t) = c
    BY DEF Block
  <2> QED
    BY <2>1, <2>2, <2>3
<1>2. BlocksInv(t)
  BY <1>1 DEF BlocksInv
<1>3. t.mi \in 1..(n + 1)
  BY <1>1
<1>4. ASSUME NEW j \in 1..Len(c)
      PROVE  /\ c[j].id \in 0..n /\ (c[j].id < t.mi => Settled(c[j])) /\ (c[j].id # 0 => DebugOK(c[j]))
             /\ c[j].id >= t.mi => Untouched(input.blocks[s.mbb][c[j].id], c[j])
  <2>1. /\ c[j].id \in 0..n /\ (c[j].id < s.mi => Settled(c[j])) /\ (c[j].id # 0 => DebugOK(c[j]))
        /\ c[j].id > s.mi => Untouched(input.blocks[s.mbb][c[j].id], c[j])
    BY DEF BlockInv
  <2>2. c[j].id = s.mi => c[j] = MI(s)
    BY <1>1, OnceAt DEF MI
  <2>3. /\ c[j].id < t.mi => c[j].id < s.mi \/ c[j].id = s.mi
        /\ c[j].id >= t.mi => c[j].id > s.mi
    BY <1>1, <2>1
  <2> QED
    BY <2>1, <2>2, <2>3
<1>5. \A d \in 1..n : Once(c, d)
  BY DEF BlockInv
<1>6. Fresh(t)
  <2>1. \A j \in 1..Len(c) : c[j].id = t.mi => c[j].id >= t.mi
    BY <1>1
  <2> QED
    BY <1>1, <1>4, <2>1 DEF Fresh
<1>7. \A j \in 1..Len(c) : c[j].id > t.mi => c[j].id >= t.mi
  BY <1>1, <1>4
<1> QED
  BY <1>1, <1>2, <1>3, <1>4, <1>5, <1>6, <1>7 DEF BlockInv

LEMMA CodeFinish == IInv /\ CodeInv /\ FinishInstruction => CodeInv'
<1> SUFFICES ASSUME IInv, CodeInv, FinishInstruction PROVE CodeInv'
  OBVIOUS
<1> DEFINE V == { v \in VReg : v \in ra.virtDead /\ ra.live[v].phys # NoReg }
           a == killVirtReg(ra, V)
<1> HIDE DEF V
<1>1. /\ pc = "finish" /\ opnum' = 1 /\ version' = version /\ input' = input /\ pc' = "instruction"
      /\ \E c : ra' = [a EXCEPT !.virtDead = {}, !.mi = @ + 1, !.coalesced = c]
  BY DEF FinishInstruction, Between, V
<1>2. pc \in Scanning /\ pc' \notin Scanning /\ pc' \notin {"block", "done"}
  BY <1>1 DEF Scanning
<1>3. /\ Coded(ra) /\ BlocksInv(ra) /\ BlockInv(ra) /\ ScanInv(ra, "finish", opnum)
  BY <1>1, <1>2, InScan
<1>4. Moves(ra, a)
  BY <1>3, KillMoves
<1> HIDE DEF a
<1>5. BlocksInv(a) /\ BlockInv(a) /\ ScanInv(a, "finish", opnum) /\ Coded(a)
  BY <1>3, <1>4, BlocksMove, BlockMovesOn, LeftMoves DEF Moves
<1>6. Settled(MI(a))
  BY <1>5 DEF ScanInv, LeftIn, Settled, Ops
<1>7. /\ DOMAIN ra' = Members /\ ra'.fn = a.fn /\ ra'.mbb = a.mbb /\ ra'.mi = a.mi + 1
      /\ ra'.slots = a.slots /\ ra'.across = a.across /\ ra'.dbg = a.dbg /\ ra'.virtDead = {}
  BY <1>1, <1>5 DEF Coded, Members
<1>8. ra'.slots \cup ra'.across \cup ra'.dbg \cup ra'.virtDead \subseteq VReg
  BY <1>5, <1>7 DEF Coded
<1>9. a.mi <= Len(input.blocks[a.mbb])
  BY <1>5 DEF ScanInv
<1>10. BlocksInv(ra') /\ BlockInv(ra') /\ Fresh(ra')
  BY <1>5, <1>6, <1>7, <1>8, <1>9, NextInstruction
<1> QED
  BY <1>1, <1>2, <1>10, CodeInvNext

LEMMA CodeBegin == CodeInv /\ allocateInstruction => CodeInv'
<1> SUFFICES ASSUME CodeInv, allocateInstruction PROVE CodeInv'
  OBVIOUS
<1>1. /\ pc = "instruction" /\ opnum' = 1 /\ version' = version /\ input' = input /\ pc' = "first scan"
      /\ ra.mi <= Len(input.blocks[ra.mbb])
  BY DEF allocateInstruction, Between
<1>2. pc' \notin {"block", "done"} /\ pc \notin {"block", "done"}
  BY <1>1
<1>3. BlocksInv(ra) /\ BlockInv(ra) /\ DOMAIN ra = Members
  BY <1>2 DEF CodeInv, BlocksInv
<1>4. /\ DOMAIN ra' = Members /\ ra'.fn = ra.fn /\ ra'.mbb = ra.mbb /\ ra'.mi = ra.mi
      /\ ra'.slots = ra.slots /\ ra'.across = ra.across /\ ra'.dbg = ra.dbg /\ ra'.virtDead = ra.virtDead
      /\ ra'.opEnd = Len(Ops(ra))
  BY <1>3 DEF allocateInstruction, Between, Members, Ops
<1>5. BlocksInv(ra') /\ BlockInv(ra') /\ Ops(ra') = Ops(ra)
  BY <1>3, <1>4, SameCode DEF BlocksInv
<1>6. Len(Ops(ra)) \in Nat
  BY <1>1, <1>3, InBlock, HereFacts
<1>7. ra'.opEnd \in 0..Len(Ops(ra)) /\ \A k \in 1..Len(Ops(ra)) : ~(k > ra'.opEnd) /\ ~(k < 1)
  <2> DEFINE n == Len(Ops(ra))
  <2>1. n \in Nat /\ ra'.opEnd = n
    BY <1>4, <1>6
  <2> HIDE DEF n
  <2>2. ra'.opEnd \in 0..n /\ \A k \in 1..n : ~(k > ra'.opEnd) /\ ~(k < 1)
    BY <2>1
  <2> QED
    BY <2>2 DEF n
<1>8. ScanInv(ra', "first scan", 1)
  <2>1. ASSUME NEW k \in 1..Len(Ops(ra')) PROVE LeftIn(Ops(ra')[k], k, ra'.opEnd, "first scan", 1)
    <3>1. ~(k > ra'.opEnd)
      BY <1>5, <1>7
    <3> QED
      BY <3>1 DEF LeftIn
  <2>2. ra'.mi <= Len(input.blocks[ra'.mbb]) /\ ra'.opEnd \in 0..Len(Ops(ra'))
    BY <1>1, <1>4, <1>5, <1>7
  <2> QED
    BY <2>1, <2>2 DEF ScanInv
<1>9. ScanInv(ra', pc', 1)
  BY <1>1, <1>8
<1>10. Moves(ra', ra')
  BY <1>5, InBlock, MovesSelf
<1>11. pc' \in Scanning
  BY <1>1 DEF Scanning
<1> QED
  BY <1>1, <1>4, <1>5, <1>9, <1>10, <1>11, BetweenStep

\* The debug value at mi is replaced by one that names a slot.
LEMMA Replaced ==
    ASSUME NEW s, BlocksInv(s), BlockInv(s), s.mi <= Len(input.blocks[s.mbb]),
           NEW i \in Instrs, i.id = s.mi, Settled(i), DebugOK(i), i.op # "copy"
    PROVE  LET t == [s EXCEPT !.fn[s.mbb][Position(Block(s), s.mi)] = i]
           IN  /\ BlocksInv(t) /\ BlockInv(t) /\ MI(t) = i /\ t.mi = s.mi /\ t.mbb = s.mbb
               /\ DOMAIN t = Members
<1> DEFINE n == Len(input.blocks[s.mbb])
           c == Block(s)
           p == Position(c, s.mi)
           d == [c EXCEPT ![p] = i]
           f == [s.fn EXCEPT ![s.mbb] = d]
           t == [s EXCEPT !.fn[s.mbb][p] = i]
<1>1. Coded(s) /\ c \in Code /\ n \in Nat /\ Once(c, s.mi)
  BY InBlock DEF Here
<1>2. p \in 1..Len(c) /\ c[p].id = s.mi /\ \A h \in 1..Len(c) : c[h].id = s.mi => h = p
  BY <1>1, OnceAt
<1>3. /\ DOMAIN t = Members /\ t.fn = f /\ t.mbb = s.mbb /\ t.mi = s.mi
      /\ t.slots = s.slots /\ t.across = s.across /\ t.dbg = s.dbg /\ t.virtDead = s.virtDead
  BY <1>1 DEF Coded, Members, Block
<1> HIDE DEF p
<1>4. d \in Code /\ Len(d) = Len(c) /\ \A j \in 1..Len(c) : d[j] = IF j = p THEN i ELSE c[j]
  BY <1>1, <1>2, ExceptSeq DEF Code
<1> HIDE DEF d
<1>5. f \in Seq(Code) /\ Len(f) = Len(s.fn) /\ \A b \in 1..Len(s.fn) : f[b] = IF b = s.mbb THEN d ELSE s.fn[b]
  BY <1>1, <1>4, ExceptSeq DEF Coded
<1> HIDE DEF f, t
<1>6. Block(t) = d /\ s.mbb \in 1..Len(s.fn)
  BY <1>1, <1>3, <1>5 DEF Block, Coded
<1>7. \A j \in 1..Len(c) : d[j].id = c[j].id
  BY <1>2, <1>4
<1>8. \A e : Once(c, e) => Once(d, e)
  BY <1>4, <1>7 DEF Once
<1>9. BlocksInv(t)
  <2>1. /\ t.fn \in Seq(Code) /\ Len(t.fn) = Len(input.blocks) /\ t.mbb \in 0..Len(t.fn) /\ t.mi \in Nat
        /\ t.slots \cup t.across \cup t.dbg \cup t.virtDead \subseteq VReg
    BY <1>3, <1>5 DEF BlocksInv
  <2>2. \A b \in 1..Len(t.fn) : b # t.mbb => t.fn[b] = s.fn[b]
    BY <1>3, <1>5
  <2>3. Len(t.fn) = Len(s.fn)
    BY <1>3, <1>5
  <2>4. \A b \in 1..Len(t.fn) : b < t.mbb => AllSettled(t.fn[b])
    BY <1>3, <2>2, <2>3 DEF BlocksInv
  <2>5. \A b \in 1..Len(t.fn) : b > t.mbb => t.fn[b] = input.blocks[b]
    BY <1>3, <2>2, <2>3 DEF BlocksInv
  <2>6. NoCopies(s.fn) => NoCopies(t.fn)
    <3>1. NoCopy(c) => NoCopy(d)
      BY <1>4 DEF NoCopy
    <3> QED
      BY <1>3, <1>5, <1>6, <3>1 DEF NoCopies, Block
  <2> QED
    BY <1>3, <2>1, <2>4, <2>5, <2>6 DEF BlocksInv
<1>10. BlockInv(t)
  <2>1. ASSUME NEW j \in 1..Len(d)
        PROVE  /\ d[j].id \in 0..n /\ (d[j].id < s.mi => Settled(d[j])) /\ (d[j].id # 0 => DebugOK(d[j]))
               /\ d[j].id > s.mi => Untouched(input.blocks[s.mbb][d[j].id], d[j])
    <3>1. j \in 1..Len(c)
      BY <1>4
    <3>2. /\ c[j].id \in 0..n /\ (c[j].id < s.mi => Settled(c[j])) /\ (c[j].id # 0 => DebugOK(c[j]))
          /\ c[j].id > s.mi => Untouched(input.blocks[s.mbb][c[j].id], c[j])
      BY <3>1 DEF BlockInv
    <3>3. j = p => ~(d[j].id > s.mi)
      <4>1. s.mi \in Nat
        BY DEF BlocksInv
      <4> QED
        BY <1>2, <1>7, <3>1, <4>1
    <3> QED
      BY <1>4, <1>7, <3>1, <3>2, <3>3
  <2>2. s.mbb # 0 /\ s.mi \in 1..(n + 1) /\ \A e \in 1..n : Once(d, e)
    BY <1>8 DEF BlockInv
  <2> QED
    BY <1>3, <1>6, <2>1, <2>2 DEF BlockInv
<1>11. MI(t) = i
  <2>1. Once(d, s.mi) /\ p \in 1..Len(d) /\ d[p].id = s.mi
    BY <1>1, <1>2, <1>4, <1>7, <1>8
  <2>2. Position(d, s.mi) = p
    BY <1>4, <2>1, OnceAt
  <2> QED
    BY <1>2, <1>3, <1>4, <1>6, <2>2 DEF MI
<1> QED
  BY <1>3, <1>9, <1>10, <1>11 DEF t, p

\* A debug value whose first operand names no virtual register is settled.
LEMMA DebugSettled ==
    ASSUME NEW s, BlocksInv(s), BlockInv(s), s.mi <= Len(input.blocks[s.mbb]),
           s.mi = ra.mi, MI(s).op = "dbg", 1 \in 1..Len(Ops(s)) => ~IsVirtual(Ops(s)[1])
    PROVE  Settled(MI(s))
<1>1. Coded(s) /\ Here(s) /\ Block(s) \in Code
  BY InBlock
<1>2. /\ Position(Block(s), s.mi) \in 1..Len(Block(s)) /\ MI(s).id = s.mi /\ s.mi \in Nat \ {0}
      /\ Len(Ops(s)) \in Nat
  BY <1>1, OnceAt, HereFacts DEF Here, MI
<1>3. DebugOK(MI(s))
  BY <1>2 DEF BlockInv, MI
<1>4. \A k \in 1..Len(Ops(s)) : k = 1 \/ k \in 2..Len(Ops(s))
  BY <1>2
<1> QED
  BY <1>3, <1>4 DEF DebugOK, Settled, Ops

LEMMA CodeDebug == IInv /\ CodeInv /\ handleDebugValue => CodeInv'
<1> SUFFICES ASSUME IInv, CodeInv, handleDebugValue PROVE CodeInv'
  OBVIOUS
<1> DEFINE o == MI(ra).ops[1]
           v == o.reg
           p == ra.live[v].phys
           a == setPhysReg(ra, 1, p)
           o1 == [o EXCEPT !.reg = NoReg]
           b == SetOp(ra, 1, o1)
           i == Instr(ra.mi, "dbg", << Use(NoReg) >>, v)
           c == [ra EXCEPT !.fn[ra.mbb][Position(Block(ra), ra.mi)] = i]
           s == IF ~IsVirtual(o) THEN ra
                ELSE IF p # NoReg THEN [a EXCEPT !.dbg = @ \cup {v}]
                ELSE IF v \in ra.slots THEN c
                ELSE [b EXCEPT !.dbg = @ \cup {v}]
           \* What NextInstruction asks for, of the state before mi is increased.
           Ready(t) == /\ BlocksInv(t) /\ BlockInv(t) /\ t.mi <= Len(input.blocks[t.mbb])
                       /\ Settled(MI(t)) /\ DOMAIN t = Members
<1>1. /\ pc = "instruction" /\ opnum' = 1 /\ version' = version /\ input' = input /\ pc' = "instruction"
      /\ ra.mi <= Len(input.blocks[ra.mbb]) /\ MI(ra).op = "dbg"
      /\ ra' = [s EXCEPT !.mi = @ + 1]
  BY DEF handleDebugValue, Between
<1>2. pc' \notin Scanning /\ pc' \notin {"block", "done"} /\ pc \notin {"block", "done"}
  BY <1>1 DEF Scanning
<1>3. BlocksInv(ra) /\ BlockInv(ra) /\ DOMAIN ra = Members /\ Sound(ra)
  BY <1>2 DEF CodeInv, BlocksInv, IInv, Sound
<1>4. Coded(ra) /\ Here(ra) /\ Block(ra) \in Code
  BY <1>1, <1>3, InBlock
<1>5. /\ MI(ra) \in Instrs /\ Ops(ra) \in Seq(Operands) /\ Len(Ops(ra)) \in Nat /\ o = Ops(ra)[1]
      /\ \A k \in 1..Len(Ops(ra)) : Ops(ra)[k] \in Operands
  BY <1>4, HereFacts DEF Ops
<1>6. 1 \in 1..Len(Ops(ra)) /\ o \in Operands
  <2>1. Position(Block(ra), ra.mi) \in 1..Len(Block(ra)) /\ MI(ra).id = ra.mi /\ ra.mi \in Nat \ {0}
    BY <1>4, OnceAt DEF Here, MI
  <2>2. DebugOK(MI(ra))
    BY <1>3, <2>1 DEF BlockInv, MI
  <2>3. Len(Ops(ra)) >= 1
    BY <1>1, <2>2 DEF DebugOK, Ops
  <2>4. 1 \in 1..Len(Ops(ra))
    BY <1>5, <2>3
  <2> QED
    BY <1>5, <2>4
\* A method has been at the operand, and then perhaps dbg grows.
<1>7. ASSUME NEW t, Moves(ra, t), 1 \in 1..Len(Ops(t)) => ~IsVirtual(Ops(t)[1]), NEW u,
             u = t \/ (u = [t EXCEPT !.dbg = @ \cup {v}] /\ v \in VReg)
      PROVE  Ready(u)
  <2>1. BlocksInv(t) /\ BlockInv(t) /\ t.mi = ra.mi /\ t.mbb = ra.mbb /\ DOMAIN t = Members /\ Coded(t)
    BY <1>3, <1>7, BlocksMove, BlockMovesOn DEF Moves, Coded
  <2>2. MI(t).op = "dbg"
    BY <1>1, <1>4, <1>7, HereMoves DEF Later
  <2>3. Settled(MI(t))
    BY <1>1, <1>7, <2>1, <2>2, DebugSettled
  <2>4. /\ DOMAIN u = Members /\ u.fn = t.fn /\ u.mbb = t.mbb /\ u.mi = t.mi
        /\ u.slots = t.slots /\ u.across = t.across /\ u.virtDead = t.virtDead
        /\ u.dbg = t.dbg \/ (u.dbg = t.dbg \cup {v} /\ v \in VReg)
    <3> HIDE DEF v
    <3> QED BY <1>7, <2>1 DEF Members
  <2>5. u.slots \cup u.across \cup u.dbg \cup u.virtDead \subseteq VReg
    <3> HIDE DEF v
    <3> QED BY <2>1, <2>4 DEF Coded
  <2>6. BlocksInv(u) /\ BlockInv(u) /\ MI(u) = MI(t)
    BY <2>1, <2>4, <2>5, SameCode
  <2> QED
    BY <1>1, <2>1, <2>3, <2>4, <2>6
<1>8. Ready(s)
  <2>1. CASE ~IsVirtual(o)
    BY <1>4, <1>5, <1>7, <2>1, MovesSelf
  <2>2. CASE IsVirtual(o) /\ p # NoReg
    <3>1. v \in VReg /\ p \in PReg
      BY <1>3, <2>2 DEF IsVirtual, Sound, IsAllocator
    <3>2. Moves(ra, a) /\ ~IsVirtual(Ops(a)[1])
      <4>1. Turns(ra.mi, 1) /\ AddsDef
        BY <1>1, <1>5, <2>2 DEF Turns, WasVirtual, AddsDef
      <4> HIDE DEF p
      <4> QED BY <1>4, <1>6, <3>1, <4>1, SetPhysRegMoves
    <3>3. s = [a EXCEPT !.dbg = @ \cup {v}]
      BY <2>2
    <3> HIDE DEF s, a, v
    <3> QED
      BY <1>7, <3>1, <3>2, <3>3
  <2>3. CASE IsVirtual(o) /\ p = NoReg /\ v \in ra.slots
    <3>1. s = c /\ v \in VReg
      BY <2>3 DEF IsVirtual
    <3>2. i \in Instrs /\ i.id = ra.mi /\ Settled(i) /\ DebugOK(i) /\ i.op # "copy"
      <4>1. Use(NoReg) \in Operands /\ ~IsVirtual(Use(NoReg))
        BY NewOperands
      <4>2. << Use(NoReg) >> \in Seq(Operands) /\ Len(<< Use(NoReg) >>) = 1 /\ << Use(NoReg) >>[1] = Use(NoReg)
        BY <4>1
      <4>3. /\ i.id = ra.mi /\ i.op = "dbg" /\ i.ops = << Use(NoReg) >> /\ i.slot = v
            /\ i = [id |-> ra.mi, op |-> "dbg", ops |-> << Use(NoReg) >>, slot |-> v]
        BY DEF Instr
      <4>4. ra.mi \in Nat /\ "dbg" \in Opcodes
        BY <1>4 DEF Here, Opcodes
      <4> HIDE DEF i, v
      <4>5. i \in Instrs
        BY <3>1, <4>2, <4>3, <4>4 DEF Instrs
      <4> QED
        BY <4>1, <4>2, <4>3, <4>5 DEF Settled, DebugOK
    <3> HIDE DEF i
    <3>3. BlocksInv(c) /\ BlockInv(c) /\ MI(c) = i /\ c.mi = ra.mi /\ c.mbb = ra.mbb /\ DOMAIN c = Members
      BY <1>1, <1>3, <3>2, Replaced
    <3> HIDE DEF c
    <3> QED
      BY <1>1, <3>1, <3>2, <3>3
  <2>4. CASE IsVirtual(o) /\ p = NoReg /\ v \notin ra.slots
    <3>1. v \in VReg /\ s = [b EXCEPT !.dbg = @ \cup {v}]
      BY <2>4 DEF IsVirtual
    <3>2. o1 \in Operands /\ KeptOperand(ra.mi, 1, o, o1) /\ ~IsVirtual(o1)
      <4>2. Turns(ra.mi, 1) /\ WasVirtual(ra.mi, 1)
        BY <1>1, <1>5, <2>4 DEF Turns, WasVirtual
      <4>1. NoReg \notin VReg /\ NoReg \notin PReg
        BY RegistersAssumption
      <4> HIDE DEF o
      <4> QED BY <1>6, <4>1, <4>2 DEF Operands, SameOperand, KeptOperand, IsVirtual
    <3>3. Moves(ra, b) /\ Ops(b) = [Ops(ra) EXCEPT ![1] = o1]
      <4> HIDE DEF o1
      <4> QED BY <1>4, <1>5, <1>6, <3>2, SetOpMoves
    <3>4. 1 \in 1..Len(Ops(b)) => ~IsVirtual(Ops(b)[1])
      <4> HIDE DEF o1, b
      <4> QED BY <1>5, <1>6, <3>2, <3>3
    <3> HIDE DEF s, b, v
    <3> QED
      BY <1>7, <3>1, <3>3, <3>4
  <2> QED
    BY <2>1, <2>2, <2>3, <2>4
<1> HIDE DEF s
<1>9. /\ DOMAIN ra' = Members /\ ra'.fn = s.fn /\ ra'.mbb = s.mbb /\ ra'.mi = s.mi + 1
      /\ ra'.slots = s.slots /\ ra'.across = s.across /\ ra'.dbg = s.dbg /\ ra'.virtDead = s.virtDead
  BY <1>1, <1>8 DEF Members
<1>10. BlocksInv(ra') /\ BlockInv(ra') /\ Fresh(ra')
  BY <1>8, <1>9, NextInstruction DEF BlocksInv
<1>11. opnum' \in Nat \ {0} /\ version' = version /\ input' = input
  BY <1>1
<1> QED
  BY <1>2, <1>10, <1>11, CodeInvNext

LEMMA CodeLiveIn == IInv /\ CodeInv /\ LiveIn => CodeInv'
<1> SUFFICES ASSUME IInv, CodeInv, LiveIn PROVE CodeInv'
  OBVIOUS
<1>1. /\ pc = "live-ins" /\ pc' \in {"live-ins", "instruction"} /\ opnum' \in {opnum + 1, 1}
      /\ version' = version /\ input' = input
      /\ ra' \in {ra, definePhysReg(ra, input.liveins[ra.mbb][opnum], "reserved")}
  BY DEF LiveIn
<1>2. pc' \notin Scanning /\ pc' \notin {"block", "done"} /\ pc \notin {"block", "done"}
  BY <1>1 DEF Scanning
<1>3. BlocksInv(ra) /\ BlockInv(ra) /\ Sound(ra) /\ opnum \in Nat \ {0}
  BY <1>2 DEF CodeInv, IInv, Sound
<1>4. Moves(ra, ra')
  <2>1. Coded(ra)
    BY <1>3, InBlock
  <2>2. Moves(ra, definePhysReg(ra, input.liveins[ra.mbb][opnum], "reserved")) /\ Moves(ra, ra)
    BY <1>3, <2>1, DefinePhysMoves, MovesSelf
  <2> QED
    BY <1>1, <2>2
<1>5. BlocksInv(ra') /\ BlockInv(ra')
  BY <1>3, <1>4, BlocksMove, BlockMovesOn
<1>6. opnum' \in Nat \ {0}
  BY <1>1, <1>3
<1>7. Fresh(ra')
  <2> SUFFICES ASSUME NEW j \in 1..Len(Block(ra')), Block(ra')[j].id = ra'.mi
               PROVE  Untouched(input.blocks[ra'.mbb][ra'.mi], Block(ra')[j])
    BY DEF Fresh
  <2> DEFINE n == Len(input.blocks[ra.mbb])
             i == Block(ra')[j]
  <2>1. /\ Block(ra) \in Code /\ Block(ra') \in Code /\ ra'.mi = ra.mi /\ ra'.mbb = ra.mbb /\ n \in Nat
        /\ ra.mi \in 1..(n + 1) /\ i.id \in 0..n
    BY <1>3, <1>4, <1>5, InBlock DEF Moves, BlockInv
  <2>2. ra.mi <= n /\ ra.mi # 0
    BY <2>1
  <2>3. Once(Block(ra), ra.mi)
    BY <1>3, <2>2, InBlock
  <2>4. i \notin Added
    BY <2>1, <2>2 DEF Added
  <2>5. PICK h \in 1..Len(Block(ra)) : Later(Block(ra)[h], i)
    BY <1>4, <2>4 DEF Moves, Grown
  <2>6. Block(ra)[h].id = ra.mi /\ Block(ra)[h] \in Instrs /\ i \in Instrs
    BY <2>1, <2>5, CodeFacts DEF Later
  <2>7. Block(ra)[h] = MI(ra)
    BY <2>1, <2>3, <2>6, OnceAt DEF MI
  <2>8. Untouched(input.blocks[ra.mbb][ra.mi], Block(ra)[h])
    BY <1>1, <2>6 DEF CodeInv, Fresh
  <2> QED
    BY <1>1, <2>1, <2>5, <2>6, <2>7, <2>8, UntouchedLater
<1> QED
  BY <1>1, <1>2, <1>5, <1>6, <1>7, CodeInvNext

LEMMA CodeBeginBlock == CodeInv /\ BeginBlock => CodeInv'
<1> SUFFICES ASSUME CodeInv, BeginBlock PROVE CodeInv'
  OBVIOUS
<1> DEFINE m == ra.mbb + 1
           code == input.blocks[m]
<1>1. /\ pc = "block" /\ opnum' = 1 /\ version' = version /\ input' = input /\ pc' = "live-ins"
      /\ ra.mbb < Len(ra.fn)
      /\ ra' = [ra EXCEPT !.mbb = @ + 1, !.mi = 1, !.regState = [p \in PReg |-> "disabled"],
                          !.virtDead = {}, !.coalesced = {}]
  BY DEF BeginBlock, Between
<1>2. pc' \notin Scanning /\ pc' \notin {"block", "done"}
  BY <1>1 DEF Scanning
<1>3. BlocksInv(ra) /\ (ra.mbb # 0 => AllSettled(Block(ra)))
  BY <1>1 DEF CodeInv
<1>4. /\ DOMAIN ra' = Members /\ ra'.fn = ra.fn /\ ra'.mbb = m /\ ra'.mi = 1
      /\ ra'.slots = ra.slots /\ ra'.across = ra.across /\ ra'.dbg = ra.dbg /\ ra'.virtDead = {}
  BY <1>1, <1>3 DEF BlocksInv, Members
<1>5. /\ Len(ra.fn) \in Nat /\ m \in 1..Len(ra.fn) /\ m \in 0..Len(ra.fn) /\ m # 0
      /\ ra.mbb < m /\ \A b \in 1..Len(ra.fn) : /\ b < m => b < ra.mbb \/ (b = ra.mbb /\ ra.mbb # 0)
                                                /\ b > m => b > ra.mbb
  BY <1>1, <1>3, LenProperties DEF BlocksInv
<1> HIDE DEF m
<1>6. BlocksInv(ra')
  <2>1. \A b \in 1..Len(ra.fn) : b < m => AllSettled(ra.fn[b])
    BY <1>3, <1>5 DEF BlocksInv, Block
  <2>2. \A b \in 1..Len(ra.fn) : b > m => ra.fn[b] = input.blocks[b]
    BY <1>3, <1>5 DEF BlocksInv
  <2>3. ra'.mi \in Nat /\ ra'.slots \cup ra'.across \cup ra'.dbg \cup ra'.virtDead \subseteq VReg
    BY <1>3, <1>4 DEF BlocksInv
  <2> QED
    BY <1>3, <1>4, <1>5, <2>1, <2>2, <2>3 DEF BlocksInv
<1>7. Block(ra') = code /\ code \in Code
  <2>1. ra.fn[m] = input.blocks[m]
    BY <1>3, <1>5 DEF BlocksInv, m
  <2>2. ra.fn[m] \in Code
    BY <1>3, <1>5, ElementOfSeq DEF BlocksInv
  <2> QED
    BY <1>4, <2>1, <2>2 DEF Block
<1>8. \A j \in 1..Len(code) : code[j].id = j /\ (code[j].op = "dbg" => Len(code[j].ops) = 1)
  <2>1. version \in {8, 10} /\ input \in Functions[version] /\ m \in 1..Len(input.blocks)
    BY <1>3, <1>5 DEF CodeInv, BlocksInv
  <2> QED
    BY <2>1, CodeAssumption
<1> HIDE DEF code
<1>9. Len(code) \in Nat /\ \A d \in 1..Len(code) : Once(code, d)
  <2>1. Len(code) \in Nat
    BY <1>7, CodeFacts
  <2> QED
    BY <1>8, <2>1 DEF Once
<1>10. ASSUME NEW j \in 1..Len(code)
       PROVE  /\ code[j].id \in 0..Len(code) /\ (code[j].id < 1 => Settled(code[j])) /\ DebugOK(code[j])
              /\ Untouched(code[code[j].id], code[j])
  <2>1. code[j].id \in 0..Len(code) /\ ~(code[j].id < 1)
    BY <1>8, <1>9
  <2>2. DebugOK(code[j])
    <3> DEFINE i == code[j]
    <3>1. i.op = "dbg" => Len(i.ops) = 1
      BY <1>8
    <3>2. ASSUME Len(i.ops) = 1 PROVE Len(i.ops) >= 1 /\ 2..Len(i.ops) = {}
      BY <3>2
    <3> HIDE DEF i
    <3>3. DebugOK(i)
      BY <3>1, <3>2 DEF DebugOK
    <3> QED
      BY <3>3 DEF i
  <2>3. code[j].id = j
    BY <1>8
  <2> QED
    BY <2>1, <2>2, <2>3 DEF Untouched, SameOperand
<1>11. BlockInv(ra')
  <2>1. ra'.mbb # 0 /\ ra'.mi \in 1..(Len(code) + 1)
    BY <1>4, <1>5, <1>9
  <2>2. input.blocks[ra'.mbb] = code
    BY <1>4 DEF code
  <2> QED
    BY <1>4, <1>7, <1>9, <1>10, <2>1, <2>2 DEF BlockInv
<1>12. opnum' \in Nat \ {0} /\ version' = version /\ input' = input
  BY <1>1
<1>13. Fresh(ra')
  <2>1. input.blocks[ra'.mbb] = code
    BY <1>4 DEF code
  <2> QED
    BY <1>7, <1>10, <2>1 DEF Fresh
<1> QED
  BY <1>2, <1>6, <1>11, <1>12, <1>13, CodeInvNext

\* Between blocks.
LEMMA CodeInvOutside ==
    ASSUME CodeInv, version' = version, input' = input, opnum' = 1, pc' \in {"block", "done"},
           BlocksInv(ra'), ra'.mbb # 0 => AllSettled(Block(ra')), pc' = "done" => ra'.mbb = Len(ra'.fn)
    PROVE  CodeInv'
<1>1. BlocksInv(ra)'
  BY DEF BlocksInv
<1>2. (ra.mbb # 0 => AllSettled(Block(ra)))' /\ (pc = "done" => ra.mbb = Len(ra.fn))'
  OBVIOUS
<1>3. pc' \notin Scanning
  BY DEF Scanning
<1> QED
  BY <1>1, <1>2, <1>3 DEF CodeInv

LEMMA TerminatorRange ==
    ASSUME NEW c \in Code
    PROVE  FirstTerminator(c) \in 1..(Len(c) + 1)
<1> DEFINE T == { j \in 1..Len(c) : c[j].op = "term" }
<1>1. Len(c) \in Nat
  BY CodeFacts
<1>2. CASE T # {}
  <2>1. PICK x \in T : \A y \in T : x <= y
    <3>1. T \subseteq Nat
      BY <1>1
    <3> HIDE DEF T
    <3> QED BY <1>2, <3>1, LeastOf
  <2>2. x \in 1..Len(c) /\ c[x].op = "term" /\ \A h \in 1..(x - 1) : c[h].op # "term"
    BY <1>1, <2>1
  <2>3. FirstTerminator(c) \in 1..Len(c)
    BY <2>2 DEF FirstTerminator
  <2> QED
    BY <1>1, <2>3
<1>3. CASE T = {}
  BY <1>1, <1>3 DEF FirstTerminator
<1> QED
  BY <1>2, <1>3

\* Nothing virtual is left in a block that grew from a settled one.
LEMMA GrownSettled ==
    ASSUME NEW c \in Code, NEW d, Grown(c, d), AllSettled(c)
    PROVE  AllSettled(d)
<1> SUFFICES ASSUME NEW j \in 1..Len(d) PROVE Settled(d[j])
  BY DEF AllSettled
<1>1. d \in Code /\ d[j] \in Instrs
  BY CodeFacts DEF Grown
<1>2. ASSUME NEW h \in 1..Len(c), Later(c[h], d[j]) PROVE Settled(d[j])
  BY <1>1, <1>2, CodeFacts, LaterSettled DEF AllSettled
<1> QED
  BY <1>2 DEF Grown, Added

LEMMA ErasedSettled ==
    ASSUME NEW i \in Instrs
    PROVE  Erased(i) \in Instrs /\ Settled(Erased(i))
<1> DEFINE i1 == [i EXCEPT !.op = "erased"]
<1>1. << >> \in Seq(Operands) /\ 1..Len(<< >>) = {}
  OBVIOUS
<1>2. i1 \in Instrs
  BY DEF Instrs, Opcodes
<1>3. Erased(i) = [i1 EXCEPT !.ops = << >>]
  BY DEF Erased
<1> HIDE DEF i1
<1>4. Erased(i) \in Instrs /\ Erased(i).ops = << >>
  BY <1>1, <1>2, <1>3, InstrFacts
<1> QED
  BY <1>1, <1>4 DEF Settled

LEMMA CodeEndBlock == IInv /\ CodeInv /\ EndBlock => CodeInv'
<1> SUFFICES ASSUME IInv, CodeInv, EndBlock PROVE CodeInv'
  OBVIOUS
<1> DEFINE code == Block(ra)
           first == FirstTerminator(code)
           a == [ra EXCEPT !.mi = IF first <= Len(code) THEN code[first].id ELSE @]
           s == spillAll(a, version = 10)
           d == [j \in 1..Len(Block(s)) |-> IF Block(s)[j].id \in ra.coalesced
                                            THEN Erased(Block(s)[j]) ELSE Block(s)[j]]
<1>1. /\ pc = "instruction" /\ opnum' = 1 /\ version' = version /\ input' = input /\ pc' = "block"
      /\ ra.mi > Len(input.blocks[ra.mbb])
      /\ ra' = [s EXCEPT !.fn[ra.mbb] = d]
  BY DEF EndBlock, Between
<1>2. /\ BlocksInv(ra) /\ BlockInv(ra) /\ Sound(ra) /\ Coded(ra) /\ code \in Code /\ DOMAIN ra = Members
      /\ Len(input.blocks[ra.mbb]) \in Nat
  <2>1. BlocksInv(ra) /\ BlockInv(ra) /\ Sound(ra)
    BY <1>1 DEF CodeInv, IInv, Sound
  <2> QED
    BY <2>1, InBlock DEF Coded
<1>3. AllSettled(code)
  BY <1>1, <1>2 DEF BlockInv, AllSettled
<1>4. /\ DOMAIN a = Members /\ a.fn = ra.fn /\ a.mbb = ra.mbb /\ a.mi \in Nat
      /\ a.slots = ra.slots /\ a.across = ra.across /\ a.dbg = ra.dbg /\ a.virtDead = ra.virtDead
      /\ a.regState = ra.regState /\ a.live = ra.live
  <2> DEFINE mi == IF first <= Len(code) THEN code[first].id ELSE ra.mi
  <2>1. mi \in Nat
    <3>1. first \in 1..(Len(code) + 1) /\ Len(code) \in Nat
      BY <1>2, TerminatorRange, CodeFacts
    <3>2. first <= Len(code) => first \in 1..Len(code)
      BY <3>1
    <3>3. first <= Len(code) => code[first].id \in Nat
      <4> HIDE DEF first, code
      <4> QED BY <1>2, <3>2, CodeFacts, InstrFacts
    <3>4. ra.mi \in Nat
      BY <1>2 DEF BlocksInv
    <3> QED
      BY <3>3, <3>4
  <2>2. a = [ra EXCEPT !.mi = mi]
    OBVIOUS
  <2> HIDE DEF mi, a
  <2> QED
    BY <1>2, <2>1, <2>2 DEF Members
<1> HIDE DEF a, first
<1>5. Coded(a) /\ Sound(a) /\ Block(a) = code
  BY <1>2, <1>4, Elsewhere DEF Coded, Block
<1>6. Moves(a, s)
  BY <1>5, SpillAllMoves
<1> HIDE DEF s
<1>7. Coded(s) /\ Block(s) \in Code /\ AllSettled(Block(s)) /\ s.mbb = ra.mbb /\ DOMAIN s = Members
  <2>1. Coded(s) /\ Grown(code, Block(s)) /\ s.mbb = ra.mbb
    BY <1>4, <1>5, <1>6 DEF Moves
  <2>2. Block(s) \in Code
    BY <2>1 DEF Grown
  <2> QED
    BY <1>2, <1>3, <2>1, <2>2, GrownSettled DEF Coded
<1>8. d \in Code /\ Len(d) = Len(Block(s)) /\ AllSettled(d)
  <2>1. Len(Block(s)) \in Nat
    BY <1>7, CodeFacts
  <2>2. ASSUME NEW j \in 1..Len(Block(s)) PROVE d[j] \in Instrs /\ Settled(d[j])
    <3>1. Block(s)[j] \in Instrs /\ Settled(Block(s)[j])
      BY <1>7, CodeFacts DEF AllSettled
    <3> QED
      BY <3>1, ErasedSettled
  <2>3. d \in [1..Len(Block(s)) -> Instrs]
    BY <2>2
  <2> HIDE DEF d
  <2>4. d \in Seq(Instrs) /\ Len(d) = Len(Block(s))
    BY <2>1, <2>3, TableIsSeq
  <2> QED
    BY <2>2, <2>4 DEF Code, AllSettled
<1>14. NoCopy(Block(s)) => NoCopy(d)
  <2> SUFFICES ASSUME NoCopy(Block(s)), NEW j \in 1..Len(Block(s)) PROVE d[j].op # "copy"
    BY <1>8 DEF NoCopy
  <2>1. Block(s)[j] \in Instrs /\ Block(s)[j].op # "copy"
    BY <1>7, CodeFacts DEF NoCopy
  <2>2. Erased(Block(s)[j]).op = "erased"
    BY <2>1 DEF Erased, Instrs
  <2> QED
    BY <2>1, <2>2
<1> HIDE DEF d
<1> DEFINE f == [s.fn EXCEPT ![ra.mbb] = d]
<1>9. f \in Seq(Code) /\ Len(f) = Len(s.fn) /\ \A b \in 1..Len(s.fn) : f[b] = IF b = ra.mbb THEN d ELSE s.fn[b]
  BY <1>7, <1>8, ExceptSeq DEF Coded
<1>10. /\ DOMAIN ra' = Members /\ ra'.fn = f /\ ra'.mbb = ra.mbb /\ ra'.mi = s.mi
       /\ ra'.slots = s.slots /\ ra'.across = s.across /\ ra'.dbg = s.dbg /\ ra'.virtDead = s.virtDead
  BY <1>1, <1>7 DEF Members
<1> HIDE DEF f
<1>11. /\ s.mi \in Nat /\ Len(s.fn) = Len(ra.fn) /\ ra.mbb \in 1..Len(ra.fn)
       /\ \A b \in 1..Len(ra.fn) : b # ra.mbb => s.fn[b] = ra.fn[b]
  BY <1>2, <1>4, <1>6 DEF Moves, Coded
<1>12. BlocksInv(ra')
  <2>1. ra'.slots \cup ra'.across \cup ra'.dbg \cup ra'.virtDead \subseteq VReg
    BY <1>7, <1>10 DEF Coded
  <2>2. \A b \in 1..Len(ra.fn) : b # ra.mbb => ra'.fn[b] = ra.fn[b]
    BY <1>9, <1>10, <1>11
  <2>3. ra'.fn \in Seq(Code) /\ Len(ra'.fn) = Len(ra.fn) /\ ra'.mi \in Nat
    BY <1>9, <1>10, <1>11
  <2>4. \A b \in 1..Len(ra'.fn) : b < ra'.mbb => AllSettled(ra'.fn[b])
    BY <1>2, <1>10, <2>2, <2>3 DEF BlocksInv
  <2>5. \A b \in 1..Len(ra'.fn) : b > ra'.mbb => ra'.fn[b] = input.blocks[b]
    BY <1>2, <1>10, <2>2, <2>3 DEF BlocksInv
  <2>7. NoCopies(ra.fn) => NoCopies(ra'.fn)
    <3>1. NoCopy(code) => NoCopy(d)
      BY <1>4, <1>5, <1>6, <1>14, NoCopyGrown DEF Moves
    <3>2. NoCopies(ra.fn) => NoCopy(code)
      BY <1>11 DEF NoCopies, Block
    <3>3. ra'.fn[ra.mbb] = d
      BY <1>9, <1>10, <1>11
    <3> QED
      BY <2>2, <2>3, <3>1, <3>2, <3>3 DEF NoCopies
  <2>6. Len(ra'.fn) = Len(input.blocks) /\ ra'.mbb \in 0..Len(ra'.fn)
    BY <1>2, <1>10, <2>3 DEF BlocksInv
  <2> QED
    BY <1>2, <1>10, <2>1, <2>3, <2>4, <2>5, <2>6, <2>7 DEF BlocksInv
<1>13. AllSettled(Block(ra'))
  BY <1>8, <1>9, <1>10, <1>11 DEF Block
<1> QED
  BY <1>1, <1>12, <1>13, CodeInvOutside

LEMMA CodeDone == CodeInv /\ runOnMachineFunction => CodeInv'
<1> SUFFICES ASSUME CodeInv, runOnMachineFunction PROVE CodeInv'
  OBVIOUS
<1>1. /\ pc = "block" /\ opnum' = 1 /\ version' = version /\ input' = input /\ pc' = "done"
      /\ ra.mbb = Len(ra.fn) /\ ra' = [ra EXCEPT !.slots = {}, !.dbg = {}]
  BY DEF runOnMachineFunction, Between
<1>2. BlocksInv(ra) /\ (ra.mbb # 0 => AllSettled(Block(ra)))
  BY <1>1 DEF CodeInv
<1>3. /\ DOMAIN ra' = Members /\ ra'.fn = ra.fn /\ ra'.mbb = ra.mbb /\ ra'.mi = ra.mi
      /\ ra'.slots = {} /\ ra'.across = ra.across /\ ra'.dbg = {} /\ ra'.virtDead = ra.virtDead
  BY <1>1, <1>2 DEF BlocksInv, Members
<1>4. BlocksInv(ra')
  BY <1>2, <1>3 DEF BlocksInv
<1>5. Block(ra') = Block(ra)
  BY <1>3 DEF Block
<1> QED
  BY <1>1, <1>2, <1>3, <1>4, <1>5, CodeInvOutside

LEMMA CodeStep == IInv /\ CodeInv /\ [Next]_vars => CodeInv'
<1> SUFFICES ASSUME IInv, CodeInv, [Next]_vars PROVE CodeInv'
  OBVIOUS
<1>1. CASE UNCHANGED vars
  BY <1>1 DEF vars, CodeInv, BlocksInv, BlockInv, ScanInv, Fresh
<1>2. CASE Done
  BY <1>1, <1>2 DEF Done
<1> QED
  BY <1>1, <1>2, CodeBeginBlock, CodeLiveIn, CodeDebug, CodeBegin, CodeScans1, CodeThrough,
     CodeRestore, CodeScans2, CodeUndef, CodeBeforeDefs, CodeFinish, CodeEndBlock, CodeDone DEF Next

LEMMA CodeHolds == Spec => [](IInv /\ CodeInv)
<1>1. IInv /\ CodeInv /\ [Next]_vars => (IInv /\ CodeInv)'
  BY InvStep, CodeStep
<1>2. Init => IInv /\ CodeInv
  BY InvInit, CodeInit
<1> QED
  BY <1>1, <1>2, PTL DEF Spec

-----------------------------------------------------------------------------
(* Registers that wait.  A method that spares them gives no register away  *)
(* that is reserved, unless it reports an error, and gets stuck nowhere.   *)

Carried(s, t) ==
    t.stuck = s.stuck /\ t.errors = s.errors /\ t.copyDst = s.copyDst /\ t.copySrc = s.copySrc

\* Registers that were reserved still are, apart from those in P.
StillReserved(s, t, P) ==
    \A q \in PReg \ P : s.regState[q] = "reserved" => t.regState[q] = "reserved"

Spares(s, t) ==
    /\ t.stuck = s.stuck /\ (s.errors => t.errors)
    /\ s.copyDst = NoReg => t.copyDst = NoReg
    /\ s.copySrc = NoReg => t.copySrc = NoReg
    /\ ~t.errors => StillReserved(s, t, {})

LEMMA SparesSelf == \A s : Spares(s, s)
  BY DEF Spares, StillReserved

LEMMA SparesOn ==
    ASSUME NEW s, NEW t, NEW u, Spares(s, t), Spares(t, u)
    PROVE  Spares(s, u)
  BY DEF Spares, StillReserved

LEMMA CarriedOn ==
    ASSUME NEW s, NEW t, NEW u, Carried(s, t), Carried(t, u)
    PROVE  Carried(s, u)
  BY DEF Carried

LEMMA CarriedSpares ==
    ASSUME NEW s, NEW t, Carried(s, t), StillReserved(s, t, {})
    PROVE  Spares(s, t)
  BY DEF Carried, Spares

LEMMA CodeCarries ==
    ASSUME NEW s, DOMAIN s = Members
    PROVE  /\ \A ops : Carried(s, SetOps(s, ops))
           /\ \A k, o : Carried(s, SetOp(s, k, o))
           /\ \A k, flag : Carried(s, SetEnds(s, k, flag))
           /\ \A o : Carried(s, AddImplicit(s, o))
           /\ \A p : Carried(s, AddKilled(s, p))
           /\ \A c : Carried(s, Insert(s, c))
           /\ \A p : Carried(s, markRegUsedInInstr(s, p))
           /\ \A V : Carried(s, addKillFlag(s, V))
<1>1. \A ops : Carried(s, SetOps(s, ops))
  BY DEF Carried, SetOps, Members
<1>2. \A k, o : Carried(s, SetOp(s, k, o))
  BY <1>1 DEF SetOp
<1>3. \A k, flag : Carried(s, SetEnds(s, k, flag))
  BY <1>2 DEF SetEnds
<1>4. \A o : Carried(s, AddImplicit(s, o))
  BY <1>1 DEF AddImplicit
<1>5. \A p : Carried(s, AddKilled(s, p))
  BY <1>4 DEF AddKilled
<1>6. \A c : Carried(s, Insert(s, c))
  BY DEF Carried, Insert, Members
<1>7. \A p : Carried(s, markRegUsedInInstr(s, p))
  BY DEF Carried, markRegUsedInInstr, Members
<1>8. \A V : Carried(s, addKillFlag(s, V))
  BY DEF Carried, addKillFlag, Members
<1> QED
  BY <1>1, <1>2, <1>3, <1>4, <1>5, <1>6, <1>7, <1>8

\* A change to the code alone spares everything.
LEMMA CodeSpares ==
    ASSUME NEW s, NEW t, SameMaps(s, t), Carried(s, t)
    PROVE  Spares(s, t)
  BY DEF SameMaps, Carried, Spares, StillReserved

LEMMA SetPhysRegCarries ==
    ASSUME NEW s, DOMAIN s = Members, NEW k, NEW p
    PROVE  Carried(s, setPhysReg(s, k, p))
<1> DEFINE o == Ops(s)[k]
           low == SetOp(s, k, [o EXCEPT !.reg = LowPart[p], !.sub = 0])
<1>1. Carried(s, low) /\ DOMAIN low = Members
  BY CodeCarries, CodeChanges DEF SameMaps
<1>2. Carried(low, AddKilled(low, p)) /\ Carried(low, AddImplicit(low, Def(p)))
  <2> HIDE DEF low
  <2> QED BY <1>1, CodeCarries
<1>3. Carried(s, AddKilled(low, p)) /\ Carried(s, AddImplicit(low, Def(p)))
  BY <1>1, <1>2, CarriedOn
<1>4. Carried(s, SetOp(s, k, [o EXCEPT !.reg = p]))
  BY CodeCarries
<1> QED
  BY <1>1, <1>3, <1>4 DEF setPhysReg

\* Released registers held virtual ones.
LEMMA ReleasedSpares ==
    ASSUME NEW s, NEW t, NEW V, V \subseteq VReg, Released(s, t, V)
    PROVE  StillReserved(s, t, {})
<1>1. "reserved" \notin V
  BY RegisterFacts
<1> QED
  BY <1>1 DEF Released, StillReserved

LEMMA KillCarries ==
    ASSUME NEW s, DOMAIN s = Members, NEW V
    PROVE  Carried(s, killVirtReg(s, V))
<1> DEFINE a == addKillFlag(s, V)
<1>1. Carried(s, a) /\ DOMAIN a = Members
  BY CodeCarries, CodeChanges DEF SameMaps
<1>2. \E r, l : killVirtReg(s, V) = [a EXCEPT !.regState = r, !.live = l]
  BY DEF killVirtReg
<1> HIDE DEF a
<1>3. Carried(a, killVirtReg(s, V))
  BY <1>1, <1>2 DEF Carried, Members
<1> QED
  BY <1>1, <1>3, CarriedOn

LEMMA SpillVirtCarries ==
    ASSUME NEW s, DOMAIN s = Members, NEW V
    PROVE  Carried(s, spillVirtReg(s, V))
<1> DEFINE dirty == { v \in V : s.live[v].dirty }
           a == spill(s, dirty)
<1>1. PICK c : a = [Insert(s, c) EXCEPT !.slots = @ \cup dirty, !.dbg = @ \ dirty]
  BY DEF spill
<1>2. Carried(s, Insert(s, c)) /\ DOMAIN Insert(s, c) = Members
  BY CodeCarries, CodeChanges DEF SameMaps
<1> HIDE DEF a, dirty
<1>3. Carried(s, a) /\ DOMAIN a = Members
  BY <1>1, <1>2 DEF Carried, Members
<1>4. PICK l : spillVirtReg(s, V) = killVirtReg([a EXCEPT !.live = l], V)
  BY DEF spillVirtReg, a, dirty
<1> DEFINE b == [a EXCEPT !.live = l]
<1>5. Carried(s, b) /\ DOMAIN b = Members
  BY <1>3 DEF Carried, Members
<1> HIDE DEF b
<1>6. Carried(b, killVirtReg(b, V))
  BY <1>5, KillCarries
<1> QED
  BY <1>4, <1>5, <1>6, CarriedOn DEF b

LEMMA SpillSpares ==
    ASSUME NEW s, NEW V, Sound(s), V \subseteq VReg
    PROVE  Spares(s, killVirtReg(s, V)) /\ Spares(s, spillVirtReg(s, V))
<1>1. DOMAIN s = Members
  BY DEF Sound, IsAllocator
<1>2. Carried(s, killVirtReg(s, V)) /\ StillReserved(s, killVirtReg(s, V), {})
  BY <1>1, KillCarries, KillVirtReg, ReleasedSpares
<1>3. Carried(s, spillVirtReg(s, V)) /\ StillReserved(s, spillVirtReg(s, V), {})
  BY <1>1, SpillVirtCarries, SpillVirtReg, ReleasedSpares
<1> QED
  BY <1>2, <1>3, CarriedSpares

LEMMA SpillAllSpares ==
    ASSUME NEW s, Sound(s), NEW onlyLiveOut \in BOOLEAN
    PROVE  Spares(s, spillAll(s, onlyLiveOut))
<1> DEFINE mapped == { v \in VReg : s.live[v].phys # NoReg }
           V == IF onlyLiveOut THEN { v \in mapped : mayLiveOut(s, v) } ELSE mapped
           u == spillVirtReg(s, V)
<1>1. V \subseteq VReg
  OBVIOUS
<1>2. PICK l, x : spillAll(s, onlyLiveOut) = [u EXCEPT !.live = l, !.across = x]
  BY DEF spillAll
<1> HIDE DEF V
<1>3. Spares(s, u) /\ DOMAIN u = Members
  BY <1>1, SpillSpares, SpillVirtReg DEF Released
<1> HIDE DEF u
<1> QED
  BY <1>2, <1>3 DEF Spares, StillReserved, Members

\* definePhysReg disturbs p alone, or what overlaps it when p is disabled.
Disturbed(s, p) == {p} \cup (IF s.regState[p] = "disabled" THEN { q \in PReg : Overlap(p, q) } ELSE {})

LEMMA DefineSpares ==
    ASSUME NEW s, Sound(s), NEW p \in PReg, NEW new \in {"free", "reserved"}
    PROVE  LET t == definePhysReg(s, p, new)
           IN  /\ Carried(s, t)
               /\ StillReserved(s, t, Disturbed(s, p))
               /\ \A q \in PReg : t.regState[q] \in VReg => s.regState[q] \in VReg
<1> DEFINE hit == IF s.regState[p] = "disabled" THEN Passed(s, p) ELSE {p}
           V == Allocated(s, hit)
           a == markRegUsedInInstr(s, p)
           b == spillVirtReg(a, V)
           t == Cleared(b, hit, p, new)
<1>1. SameMaps(s, a) /\ Sound(a) /\ Carried(s, a)
  BY CodeChanges, CodeCarries, SameMapsSound DEF Sound, IsAllocator
<1>2. V \subseteq VReg
  BY DEF Allocated
<1> HIDE DEF a, V
<1>3. Released(a, b, V) /\ Carried(a, b)
  BY <1>1, <1>2, SpillVirtReg, SpillVirtCarries DEF Sound, IsAllocator
<1>4. \A q \in PReg : b.regState[q] = IF s.regState[q] \in V THEN "free" ELSE s.regState[q]
  BY <1>1, <1>3 DEF Released, SameMaps
<1> HIDE DEF b
<1>5. /\ Carried(b, t)
      /\ \A q \in PReg : t.regState[q] = IF q = p THEN new ELSE IF q \in hit THEN "disabled" ELSE b.regState[q]
  <2> HIDE DEF hit
  <2> QED BY <1>3 DEF Cleared, Carried, Released, Members
<1>6. definePhysReg(s, p, new) = t
  BY DEF definePhysReg, a, b, V
<1>7. Carried(s, t)
  BY <1>1, <1>3, <1>5, CarriedOn
<1>8. \A q \in PReg : q \in hit => q \in Disturbed(s, p)
  BY PassedFacts DEF Disturbed
<1>9. p \in Disturbed(s, p)
  BY DEF Disturbed
<1>10. "reserved" \notin VReg /\ "free" \notin VReg /\ "disabled" \notin VReg /\ new \notin VReg
  BY RegisterFacts
<1> HIDE DEF hit, t
<1>11. StillReserved(s, t, Disturbed(s, p))
  BY <1>2, <1>4, <1>5, <1>8, <1>9, <1>10 DEF StillReserved
<1>12. \A q \in PReg : t.regState[q] \in VReg => s.regState[q] \in VReg
  BY <1>4, <1>5, <1>10
<1> QED
  BY <1>6, <1>7, <1>11, <1>12

LEMMA AssignCarries ==
    ASSUME NEW s, Sound(s), NEW v, NEW p \in PReg
    PROVE  LET t == assignVirtToPhysReg(s, v, p)
           IN  Carried(s, t) /\ StillReserved(s, t, {p})
<1> DEFINE t == assignVirtToPhysReg(s, v, p)
<1>1. /\ t.regState = [s.regState EXCEPT ![p] = v] /\ Carried(s, t)
  BY DEF assignVirtToPhysReg, Sound, IsAllocator, Members, Carried
<1> HIDE DEF t
<1>2. StillReserved(s, t, {p})
  BY <1>1 DEF StillReserved, Sound, IsAllocator
<1> QED
  BY <1>1, <1>2 DEF t

\* What can be bought does not wait, and nothing that overlaps it does.
LEMMA PossibleIsNotReserved ==
    ASSUME NEW s, Sound(s), NEW p \in PReg, calcSpillCost(s, p) # spillImpossible
    PROVE  \A q \in Disturbed(s, p) : s.regState[q] # "reserved"
<1>1. \A q \in PReg : q # p /\ Overlap(p, q) => q \in Elements(Alias[p])
  BY RegisterFacts
<1>2. s.regState[p] # "reserved"
  BY Zenon DEF calcSpillCost, CostOf
<1>3. s.regState[p] = "disabled" => \A q \in Elements(Alias[p]) : s.regState[q] # "reserved"
  BY DEF calcSpillCost
<1> QED
  BY <1>1, <1>2, <1>3 DEF Disturbed

LEMMA TakeSpares ==
    ASSUME NEW s, Sound(s), NEW v \in VReg, NEW p \in PReg, calcSpillCost(s, p) # spillImpossible
    PROVE  Spares(s, Take(s, v, p))
<1>1. \A q \in Disturbed(s, p) : s.regState[q] # "reserved"
  BY PossibleIsNotReserved
<1>2. p \in Disturbed(s, p)
  BY DEF Disturbed
<1>3. CASE calcSpillCost(s, p) > 0
  <2> DEFINE u == definePhysReg(s, p, "free")
             t == assignVirtToPhysReg(u, v, p)
  <2>1. Sound(u) /\ Carried(s, u) /\ StillReserved(s, u, Disturbed(s, p))
    BY DefinePhysReg, DefineSpares
  <2> HIDE DEF u
  <2>2. Carried(u, t) /\ StillReserved(u, t, {p})
    BY <2>1, AssignCarries
  <2> HIDE DEF t
  <2>3. Carried(s, t) /\ StillReserved(s, t, {})
    BY <1>1, <1>2, <2>1, <2>2, CarriedOn DEF StillReserved
  <2> QED
    BY <1>3, <2>3, CarriedSpares DEF Take, t, u
<1>4. CASE ~(calcSpillCost(s, p) > 0)
  <2> DEFINE t == assignVirtToPhysReg(s, v, p)
  <2>1. Carried(s, t) /\ StillReserved(s, t, {p})
    BY AssignCarries
  <2> HIDE DEF t
  <2>2. StillReserved(s, t, {})
    BY <1>1, <1>2, <2>1 DEF StillReserved
  <2> QED
    BY <1>4, <2>1, <2>2, CarriedSpares DEF Take, t
<1> QED
  BY <1>3, <1>4

\* A register that costs nothing is assigned as it is.
LEMMA IdleSpares ==
    ASSUME NEW s, Sound(s), NEW v \in VReg, NEW p \in PReg, s.regState[p] # "reserved"
    PROVE  Spares(s, assignVirtToPhysReg(s, v, p))
<1> DEFINE t == assignVirtToPhysReg(s, v, p)
<1>1. Carried(s, t) /\ StillReserved(s, t, {p})
  BY AssignCarries
<1> HIDE DEF t
<1>2. StillReserved(s, t, {})
  BY <1>1 DEF StillReserved
<1> QED
  BY <1>1, <1>2, CarriedSpares DEF t

LEMMA TakeCheapestSpares ==
    ASSUME NEW s, Sound(s), NEW v \in VReg, s.live[v].phys = NoReg
    PROVE  Spares(s, TakeCheapest(s, v, Costs(s, v)))
<1> DEFINE order == Order[v]
           cost == Costs(s, v)
           possible == { i \in 1..Len(order) : cost[i] < spillImpossible }
           cheapest == { i \in possible : \A j \in possible : cost[i] <= cost[j] }
           best == First(cheapest)
           room == definePhysReg(s, order[1], "free")
           forced == assignVirtToPhysReg(room, v, order[1])
<1>1. TakeCheapest(s, v, cost) =
        IF possible = {} THEN [forced EXCEPT !.errors = TRUE] ELSE Take(s, v, order[best])
  BY DEF TakeCheapest
<1>2. Spares(s, [forced EXCEPT !.errors = TRUE])
  <2>1. order[1] \in PReg
    BY OrderFacts
  <2>2. Sound(room) /\ Carried(s, room)
    BY <2>1, DefinePhysReg, DefineSpares
  <2>3. Sound(forced)
    BY <2>1, DefineThenAssign
  <2> HIDE DEF room
  <2>4. Carried(room, forced)
    BY <2>1, <2>2, AssignCarries
  <2> HIDE DEF forced
  <2> QED
    BY <2>2, <2>3, <2>4 DEF Sound, IsAllocator, Carried, Spares, Members
<1>3. ASSUME possible # {} PROVE Spares(s, Take(s, v, order[best]))
  <2> DEFINE values == { cost[i] : i \in possible }
  <2>1. possible \subseteq 1..Len(order) /\ possible \subseteq Nat
    BY OrderFacts
  <2>2. \A i \in 1..Len(order) : cost[i] = calcSpillCost(s, order[i]) /\ cost[i] \in Nat /\ order[i] \in PReg
    BY OrderFacts, CostFacts DEF Costs
  <2> HIDE DEF cost
  <2>3. values \subseteq Nat /\ values # {}
    <3> HIDE DEF possible
    <3> QED BY <1>3, <2>1, <2>2
  <2>4. PICK x \in values : \A y \in values : x <= y
    <3> HIDE DEF values
    <3> QED BY <2>3, LeastOf
  <2>5. cheapest # {}
    <3> HIDE DEF possible
    <3> QED BY <2>4
  <2>6. cheapest \subseteq Nat
    <3>1. cheapest \subseteq possible
      OBVIOUS
    <3> HIDE DEF possible, cheapest
    <3> QED BY <2>1, <3>1
  <2>7. best \in cheapest
    <3> HIDE DEF cheapest
    <3> QED BY <2>5, <2>6, FirstOf
  <2>8. best \in 1..Len(order) /\ cost[best] < spillImpossible
    <3> HIDE DEF best
    <3> QED BY <2>7
  <2>9. order[best] \in PReg /\ calcSpillCost(s, order[best]) # spillImpossible
    <3> HIDE DEF best
    <3> QED BY <2>2, <2>8, CostAssumption DEF spillImpossible
  <2> HIDE DEF best, order
  <2> QED
    BY <2>9, TakeSpares
<1> QED
  BY <1>1, <1>2, <1>3

LEMMA Alloc8Spares ==
    ASSUME NEW s, Sound(s), NEW v \in VReg, s.live[v].phys = NoReg, NEW hint
    PROVE  Spares(s, allocVirtReg8(s, v, hint))
<1> DEFINE idle == { i \in 1..Len(Order[v]) :
                        s.regState[Order[v][i]] = "free" /\ ~isRegUsedInInstr(s, Order[v][i]) }
<1>1. ASSUME Usable(v, hint), calcSpillCost(s, hint) < spillDirty PROVE Spares(s, Take(s, v, hint))
  <2>1. hint \in PReg
    BY <1>1, OrderFacts
  <2>2. calcSpillCost(s, hint) # spillImpossible
    BY <1>1, <2>1, CostFacts, CostAssumption DEF spillImpossible, spillDirty
  <2> QED
    BY <2>1, <2>2, TakeSpares
<1>2. ASSUME idle # {} PROVE Spares(s, assignVirtToPhysReg(s, v, Order[v][First(idle)]))
  <2>1. idle \subseteq Nat
    BY OrderFacts
  <2>2. First(idle) \in idle
    <3> HIDE DEF idle
    <3> QED BY <1>2, <2>1, FirstOf
  <2>3. Order[v][First(idle)] \in PReg /\ s.regState[Order[v][First(idle)]] # "reserved"
    BY <2>2, OrderFacts
  <2> HIDE DEF idle
  <2> QED
    BY <2>3, IdleSpares
<1>3. Spares(s, TakeCheapest(s, v, Costs(s, v)))
  BY TakeCheapestSpares
<1> QED
  BY <1>1, <1>2, <1>3 DEF allocVirtReg8

\* Without copies there is nothing to trace.
LEMMA NoCopyNamed ==
    ASSUME NEW f, NoCopies(f), NEW r, NEW at \in InstrsOf(RefsTo(f, r))
    PROVE  InstrAt(f, at).op # "copy"
<1>1. PICK ref \in RefsTo(f, r) : at = << ref[1], ref[2] >>
  BY DEF InstrsOf
<1>2. PICK b \in 1..Len(f) : \E i \in 1..Len(f[b]) : ref \in {b} \X {i} \X (1..Len(f[b][i].ops))
  BY DEF RefsTo
<1> PICK i \in 1..Len(f[b]) : ref \in {b} \X {i} \X (1..Len(f[b][i].ops))
  BY <1>2
<1>3. ref[1] = b /\ ref[2] = i
  OBVIOUS
<1> QED
  BY <1>1, <1>3 DEF InstrAt, NoCopies, NoCopy

LEMMA NothingTraced ==
    ASSUME NEW s, NoCopies(s.fn), NEW v
    PROVE  traceCopies(s, v) = NoReg
<1> DEFINE copies == { i \in InstrsOf(DefsOf(s.fn, v)) : IsFullCopy(InstrAt(s.fn, i)) }
<1>1. InstrsOf(DefsOf(s.fn, v)) \subseteq InstrsOf(RefsTo(s.fn, v))
  BY DEF InstrsOf, DefsOf
<1>2. \A i \in InstrsOf(RefsTo(s.fn, v)) : ~IsFullCopy(InstrAt(s.fn, i))
  BY NoCopyNamed DEF IsFullCopy
<1>3. copies = {}
  BY <1>1, <1>2
<1> HIDE DEF copies
<1>4. { traceCopyChain(s, InstrAt(s.fn, i).ops[2].reg) : i \in copies } \ {NoReg} = {}
  BY <1>3
<1> QED
  BY <1>4 DEF traceCopies, copies

LEMMA NoCopyHint ==
    ASSUME NEW s, NoCopies(s.fn), NEW v, NEW hint
    PROVE  CopyHint(s, v, hint) = hint
<1> DEFINE uses == UsesOf(s.fn, v)
           at == CHOOSE at \in InstrsOf(uses) : TRUE
<1>1. ASSUME Cardinality(uses) = 1 PROVE InstrAt(s.fn, at).op # "copy"
  <2>1. uses # {}
    BY <1>1, FS_EmptySet
  <2>2. InstrsOf(uses) # {}
    BY <2>1 DEF InstrsOf
  <2>3. at \in InstrsOf(uses)
    BY <2>2
  <2>4. InstrsOf(uses) \subseteq InstrsOf(RefsTo(s.fn, v))
    BY DEF InstrsOf, UsesOf
  <2> HIDE DEF at
  <2> QED
    BY <2>3, <2>4, NoCopyNamed
<1> QED
  BY <1>1 DEF CopyHint

LEMMA Alloc10Spares ==
    ASSUME NEW s, Sound(s), NEW v \in VReg, s.live[v].phys = NoReg, NoCopies(s.fn)
    PROVE  Spares(s, allocVirtReg10(s, v, NoReg))
<1> DEFINE traced == traceCopies(s, v)
           hint0 == IF Usable(v, NoReg) THEN NoReg ELSE NoReg
           hint1 == IF Usable(v, traced) /\ ~isRegUsedInInstr(s, traced) THEN traced ELSE NoReg
           Cheap(h) == h # NoReg /\ calcSpillCost(s, h) < spillDirty
           idle == { i \in 1..Len(Order[v]) : calcSpillCost(s, Order[v][i]) = 0 }
           preferred == [i \in 1..Len(Order[v]) |->
                            IF Order[v][i] \in {hint0, hint1}
                            THEN (calcSpillCost(s, Order[v][i]) - spillPrefBonus) % (UnsignedMax + 1)
                            ELSE calcSpillCost(s, Order[v][i])]
<1>1. hint0 = NoReg /\ hint1 = NoReg
  BY NothingTraced
<1>2. allocVirtReg10(s, v, NoReg) =
        IF Cheap(hint0) THEN Take(s, v, hint0)
        ELSE IF Cheap(hint1) THEN Take(s, v, hint1)
        ELSE IF idle # {} THEN assignVirtToPhysReg(s, v, Order[v][First(idle)])
        ELSE TakeCheapest(s, v, preferred)
  BY DEF allocVirtReg10
<1>3. preferred = Costs(s, v)
  <2>1. \A i \in 1..Len(Order[v]) : Order[v][i] # NoReg
    BY OrderFacts, RegisterFacts
  <2> HIDE DEF hint0, hint1
  <2> QED BY <1>1, <2>1 DEF Costs
<1>4. ~Cheap(hint0) /\ ~Cheap(hint1)
  BY <1>1
<1>5. ASSUME idle # {} PROVE Spares(s, assignVirtToPhysReg(s, v, Order[v][First(idle)]))
  <2>1. idle \subseteq Nat
    BY OrderFacts
  <2>2. First(idle) \in idle
    <3> HIDE DEF idle
    <3> QED BY <1>5, <2>1, FirstOf
  <2> DEFINE p == Order[v][First(idle)]
  <2>3. p \in PReg /\ calcSpillCost(s, p) = 0
    BY <2>2, OrderFacts
  <2> HIDE DEF p
  <2>4. calcSpillCost(s, p) # spillImpossible
    BY <2>3, CostAssumption DEF spillImpossible, spillDirty
  <2>5. s.regState[p] # "reserved"
    BY <2>3, <2>4, PossibleIsNotReserved DEF Disturbed
  <2>6. Spares(s, assignVirtToPhysReg(s, v, p))
    BY <2>3, <2>5, IdleSpares
  <2> QED
    BY <2>6 DEF p
<1>6. Spares(s, TakeCheapest(s, v, Costs(s, v)))
  BY TakeCheapestSpares
<1> HIDE DEF Cheap, idle, preferred, hint0, hint1
<1> QED
  BY <1>2, <1>3, <1>4, <1>5, <1>6

\* With a bonus a possible cost stays below an impossible one, when there is room.
LEMMA BonusFacts ==
    /\ \A c \in Nat : (c - spillPrefBonus) % (UnsignedMax + 1) \in Nat
    /\ \A c \in Nat : spillDirty <= c /\ c <= spillImpossible =>
            (c - spillPrefBonus) % (UnsignedMax + 1) = c - spillPrefBonus
<1>1. UnsignedMax \in Nat /\ UnsignedMax > 400
  BY CostAssumption DEF spillDirty
<1> QED
  BY <1>1 DEF spillPrefBonus, spillDirty, spillImpossible

LEMMA RoomSpares ==
    ASSUME NEW s, Sound(s), NEW v \in VReg, s.live[v].phys = NoReg, Room(s, v), NEW hint
    PROVE  Spares(s, allocVirtReg10(s, v, hint))
<1> DEFINE traced == traceCopies(s, v)
           order == Order[v]
           Cost(i) == calcSpillCost(s, order[i])
           hint0 == IF Usable(v, hint) THEN hint ELSE NoReg
           hint1 == IF Usable(v, traced) /\ ~isRegUsedInInstr(s, traced) THEN traced ELSE NoReg
           Cheap(h) == h # NoReg /\ calcSpillCost(s, h) < spillDirty
           idle == { i \in 1..Len(Order[v]) : calcSpillCost(s, Order[v][i]) = 0 }
           preferred == [i \in 1..Len(Order[v]) |->
                            IF Order[v][i] \in {hint0, hint1}
                            THEN (calcSpillCost(s, Order[v][i]) - spillPrefBonus) % (UnsignedMax + 1)
                            ELSE calcSpillCost(s, Order[v][i])]
<1>1. allocVirtReg10(s, v, hint) =
        IF Cheap(hint0) THEN Take(s, v, hint0)
        ELSE IF Cheap(hint1) THEN Take(s, v, hint1)
        ELSE IF idle # {} THEN assignVirtToPhysReg(s, v, Order[v][First(idle)])
        ELSE TakeCheapest(s, v, preferred)
  BY DEF allocVirtReg10
<1>2. hint0 \in PReg \cup {NoReg} /\ hint1 \in PReg \cup {NoReg}
  BY OrderFacts
<1>3. UnsignedMax \in Nat /\ UnsignedMax > 400
  BY CostAssumption DEF spillDirty
<1>4. \A i \in 1..Len(order) : order[i] \in PReg /\ order[i] # NoReg /\ Cost(i) \in Nat
  BY OrderFacts, CostFacts, RegisterFacts
<1>5. PICK r \in 1..Len(order) : Cost(r) < spillImpossible - spillPrefBonus
  BY DEF Room
<1> HIDE DEF hint0, hint1
<1>6. ASSUME NEW h \in {hint0, hint1}, Cheap(h) PROVE Spares(s, Take(s, v, h))
  <2>1. h \in PReg
    BY <1>2, <1>6
  <2>2. calcSpillCost(s, h) # spillImpossible
    BY <1>3, <1>6, <2>1, CostFacts DEF spillImpossible, spillDirty
  <2> QED
    BY <2>1, <2>2, TakeSpares
<1>7. ASSUME idle # {} PROVE Spares(s, assignVirtToPhysReg(s, v, Order[v][First(idle)]))
  <2>1. idle \subseteq Nat
    BY OrderFacts
  <2>2. First(idle) \in idle
    <3> HIDE DEF idle
    <3> QED BY <1>7, <2>1, FirstOf
  <2> DEFINE p == Order[v][First(idle)]
  <2>3. p \in PReg /\ calcSpillCost(s, p) = 0
    BY <2>2, OrderFacts
  <2> HIDE DEF p
  <2>4. calcSpillCost(s, p) # spillImpossible
    BY <1>3, <2>3 DEF spillImpossible
  <2>5. s.regState[p] # "reserved"
    BY <2>3, <2>4, PossibleIsNotReserved DEF Disturbed
  <2>6. Spares(s, assignVirtToPhysReg(s, v, p))
    BY <2>3, <2>5, IdleSpares
  <2> QED
    BY <2>6 DEF p
<1>8. ASSUME ~Cheap(hint0), ~Cheap(hint1) PROVE Spares(s, TakeCheapest(s, v, preferred))
  <2> DEFINE possible == { i \in 1..Len(order) : preferred[i] < spillImpossible }
             cheapest == { i \in possible : \A j \in possible : preferred[i] <= preferred[j] }
             best == First(cheapest)
             values == { preferred[i] : i \in possible }
  <2>1. \A i \in 1..Len(order) :
            /\ preferred[i] \in Nat
            /\ Cost(i) < spillImpossible - spillPrefBonus => preferred[i] < spillImpossible - spillPrefBonus
            /\ Cost(i) = spillImpossible => preferred[i] >= spillImpossible - spillPrefBonus
    <3> TAKE i \in 1..Len(order)
    <3> DEFINE c == Cost(i)
    <3>1. c \in Nat /\ c = calcSpillCost(s, Order[v][i])
      BY <1>4
    <3>2. preferred[i] = IF Order[v][i] \in {hint0, hint1} THEN (c - spillPrefBonus) % (UnsignedMax + 1) ELSE c
      OBVIOUS
    <3>3. Order[v][i] \in {hint0, hint1} => ~(c < spillDirty)
      BY <1>4, <1>8
    <3> HIDE DEF c, preferred, Cheap
    <3>4. CASE Order[v][i] \in {hint0, hint1}
      <4>1. spillDirty <= c
        BY <3>1, <3>3, <3>4 DEF spillDirty
      <4>2. preferred[i] \in Nat
        BY <3>1, <3>2, <3>4, BonusFacts
      <4>3. c <= spillImpossible => preferred[i] = c - spillPrefBonus
        BY <3>1, <3>2, <3>4, <4>1, BonusFacts
      <4>4. (c < spillImpossible - spillPrefBonus \/ c = spillImpossible) => c <= spillImpossible
        BY <1>3, <3>1 DEF spillImpossible, spillPrefBonus
      <4> QED
        BY <1>3, <3>1, <4>2, <4>3, <4>4 DEF spillImpossible, spillPrefBonus, c
    <3>5. CASE Order[v][i] \notin {hint0, hint1}
      <4>1. preferred[i] = c
        BY <3>2, <3>5
      <4> QED
        BY <1>3, <3>1, <4>1 DEF spillImpossible, spillPrefBonus, c
    <3> QED
      BY <3>4, <3>5
  <2> HIDE DEF preferred, Cheap, Cost
  <2>2. r \in possible
    BY <1>3, <1>5, <2>1 DEF spillImpossible, spillPrefBonus
  <2>3. TakeCheapest(s, v, preferred) = Take(s, v, order[best])
    <3>1. possible # {}
      BY <2>2
    <3> QED
      BY <3>1 DEF TakeCheapest
  <2>4. values \subseteq Nat /\ values # {}
    BY <2>1, <2>2
  <2>5. PICK x \in values : \A y \in values : x <= y
    <3> HIDE DEF values
    <3> QED BY <2>4, LeastOf
  <2>6. cheapest # {} /\ cheapest \subseteq 1..Len(order)
    <3>1. cheapest # {}
      <4> HIDE DEF possible
      <4> QED BY <2>5
    <3> QED
      BY <3>1
  <2>7. cheapest \subseteq Nat
    BY <2>6, OrderFacts
  <2>8. best \in cheapest
    <3> HIDE DEF cheapest
    <3> QED BY <2>6, <2>7, FirstOf
  <2>9. best \in 1..Len(order) /\ preferred[best] <= preferred[r]
    <3> HIDE DEF best
    <3> QED BY <2>2, <2>8
  <2> HIDE DEF best, cheapest, possible, values
  <2>10. Cost(best) # spillImpossible
    BY <1>3, <1>5, <2>1, <2>9 DEF spillImpossible, spillPrefBonus
  <2>11. order[best] \in PReg /\ calcSpillCost(s, order[best]) # spillImpossible
    BY <1>4, <2>9, <2>10 DEF Cost
  <2> HIDE DEF order
  <2> QED
    BY <2>3, <2>11, TakeSpares
<1> HIDE DEF Cheap, idle, preferred
<1> QED
  BY <1>1, <1>6, <1>7, <1>8

\* No bonus is taken off an impossible cost when v asks for a register.
Unbiased(s, v, hint) ==
    version = 8 \/ (NoCopies(s.fn) /\ hint = NoReg) \/ (s.live[v].phys = NoReg => Room(s, v))

LEMMA AllocSpares ==
    ASSUME NEW s, Sound(s), NEW v \in VReg, s.live[v].phys = NoReg, NEW hint, Unbiased(s, v, hint)
    PROVE  Spares(s, allocVirtReg(s, v, hint))
  BY Alloc8Spares, Alloc10Spares, RoomSpares DEF allocVirtReg, Unbiased

LEMMA NamedCarries ==
    ASSUME NEW s, DOMAIN s = Members, NEW v, NEW k, NEW dirty
    PROVE  Carried(s, Named(s, v, k, dirty)) /\ StillReserved(s, Named(s, v, k, dirty), {})
<1> DEFINE a == markRegUsedInInstr(s, s.live[v].phys)
           new == [phys |-> s.live[v].phys, lastUse |-> s.mi, lastOpNum |-> k, dirty |-> dirty]
<1>1. Carried(s, a) /\ SameMaps(s, a)
  BY CodeCarries, CodeChanges
<1> HIDE DEF a, new
<1>2. Carried(a, [a EXCEPT !.live[v] = new]) /\ [a EXCEPT !.live[v] = new].regState = s.regState
  BY <1>1 DEF SameMaps, Carried, Members
<1>3. Named(s, v, k, dirty) = [a EXCEPT !.live[v] = new]
  BY DEF Named, a, new
<1> QED
  BY <1>1, <1>2, <1>3, CarriedOn DEF StillReserved

LEMMA NamedSpares ==
    ASSUME NEW s, NEW t, Sound(t), Spares(s, t), NEW v, NEW k, NEW dirty
    PROVE  Spares(s, Named(t, v, k, dirty))
  BY NamedCarries, CarriedSpares, SparesOn DEF Sound, IsAllocator

LEMMA ReloadSpares ==
    ASSUME NEW s, Sound(s), NEW k, NEW v \in VReg, NEW hint, Unbiased(s, v, hint)
    PROVE  Spares(s, reloadVirtReg(s, k, v, hint))
<1> DEFINE flag == s.live[v].dirty /\ isLastUseOfLocalReg(s, v)
           found == SetEnds(s, k, flag)
           u == allocVirtReg(s, v, hint)
           loaded == reload(u, v)
<1>1. Sound(found) /\ Spares(s, found)
  BY CodeChanges, CodeCarries, CodeSpares, SameMapsSound DEF Sound, IsAllocator
<1>2. ASSUME s.live[v].phys = NoReg PROVE Sound(loaded) /\ Spares(s, loaded)
  <2>1. Sound(u) /\ Spares(s, u)
    BY <1>2, AllocVirtReg, AllocSpares
  <2> HIDE DEF u
  <2>2. PICK c : reload(u, v) = [Insert(u, c) EXCEPT !.slots = @ \cup {v}]
    BY DEF reload
  <2>3. SameMaps(u, Insert(u, c)) /\ Carried(u, Insert(u, c)) /\ DOMAIN u = Members
    BY <2>1, CodeChanges, CodeCarries DEF Sound, IsAllocator
  <2>4. SameMaps(u, reload(u, v)) /\ Carried(u, reload(u, v))
    BY <2>2, <2>3 DEF SameMaps, Carried, Members
  <2> QED
    BY <2>1, <2>4, SameMapsSound, CodeSpares, SparesOn
<1> HIDE DEF found, loaded
<1>3. \A x : Sound(x) /\ Spares(s, x) => Spares(s, Named(x, v, k, s.live[v].dirty))
  BY NamedSpares
<1> QED
  BY <1>1, <1>2, <1>3 DEF reloadVirtReg, found, loaded, flag, u

LEMMA DefineVirtSpares ==
    ASSUME NEW s, Sound(s), NEW k, NEW v \in VReg, NEW hint, Unbiased(s, v, hint)
    PROVE  Spares(s, defineVirtReg(s, k, v, hint))
<1>1. ASSUME s.live[v].phys = NoReg
      PROVE  LET t == allocVirtReg(s, v, CopyHint(s, v, hint)) IN Sound(t) /\ Spares(s, t)
  <2>1. Unbiased(s, v, CopyHint(s, v, hint))
    BY NoCopyHint DEF Unbiased
  <2> QED
    BY <1>1, <2>1, AllocVirtReg, AllocSpares
<1>2. Sound(addKillFlag(s, {v})) /\ Spares(s, addKillFlag(s, {v}))
  BY CodeChanges, CodeCarries, CodeSpares, SameMapsSound DEF Sound, IsAllocator
<1>3. \A x : Sound(x) /\ Spares(s, x) => Spares(s, Named(x, v, k, TRUE))
  BY NamedSpares
<1> QED
  BY <1>1, <1>2, <1>3, SparesSelf DEF defineVirtReg

LEMMA SetPhysRegSpares ==
    ASSUME NEW s, Sound(s), NEW k, NEW p
    PROVE  Spares(s, setPhysReg(s, k, p))
  BY SetPhysReg, SetPhysRegCarries, CodeSpares DEF Sound, IsAllocator

LEMMA DefinedSpares ==
    ASSUME NEW s, Sound(s), NEW k, NEW hint, Ops(s)[k].reg \in VReg, Unbiased(s, Ops(s)[k].reg, hint)
    PROVE  Spares(s, DefinedOperand(s, k, hint))
<1> DEFINE v == Ops(s)[k].reg
           t == defineVirtReg(s, k, v, hint)
           u == setPhysReg(t, k, t.live[v].phys)
           r == [u EXCEPT !.virtDead = IF Ops(t)[k].ends THEN @ \cup {v} ELSE @]
<1>1. Sound(t) /\ Spares(s, t)
  BY DefineVirtReg, DefineVirtSpares
<1>2. Sound(u) /\ Spares(t, u)
  <2> HIDE DEF t
  <2> QED BY <1>1, SetPhysRegSound, SetPhysRegSpares
<1>3. DefinedOperand(s, k, hint) = r
  BY DEF DefinedOperand, Rewritten
<1>4. Spares(u, r)
  <2> HIDE DEF u, t
  <2> QED BY <1>2 DEF Sound, IsAllocator, Spares, StillReserved, Members
<1> HIDE DEF t, u, r
<1> QED
  BY <1>1, <1>2, <1>3, <1>4, SparesOn

LEMMA LoadedSpares ==
    ASSUME NEW t, Sound(t), NEW k, NEW v \in VReg
    PROVE  Spares(t, Loaded(t, k, v))
<1> DEFINE p == t.live[v].phys
           a == setPhysReg(t, k, p)
           u == [a EXCEPT !.copySrc = IF @ \in {v, p} THEN p ELSE NoReg]
<1>1. Sound(a) /\ Spares(t, a)
  BY SetPhysRegSound, SetPhysRegSpares
<1>2. Sound(u) /\ Spares(a, u)
  <2>1. v # NoReg
    BY RegisterFacts
  <2> HIDE DEF a, p
  <2>2. SameMaps(a, u)
    BY <1>1 DEF Sound, IsAllocator, SameMaps, Members
  <2>3. Spares(a, u)
    BY <1>1, <2>1 DEF Sound, IsAllocator, Spares, StillReserved, Members
  <2> QED
    BY <1>1, <2>2, <2>3, SameMapsSound
<1> HIDE DEF u
<1>3. Spares(u, killVirtReg(u, {v}))
  BY <1>2, SpillSpares
<1> QED
  BY <1>1, <1>2, <1>3, SparesOn DEF Loaded, u, a, p

-----------------------------------------------------------------------------
(* The operands of the instruction in progress, next to those it came      *)
(* with: physical ones stay, and a definition that is no early clobber     *)
(* keeps its register until its turn comes.                                *)

Opening == {"first scan", "through?"}

StillSource(o0, o, k, scan, n) ==
    /\ SameOperand(o0, o)
    /\ IsPhysical(o0) /\ o0.def => o.ends = o0.ends
    /\ IsPhysical(o0) \/ scan \in Opening => o.reg = o0.reg
    /\ o0.def /\ ~o0.early => o.reg = o0.reg \/ scan = "finish" \/ (scan = "defs" /\ k < n)

Late == {"physical defs", "defs", "finish"}

\* The instruction at mi, as it came.
Src(s) == input.blocks[s.mbb][s.mi]
SrcOp(s, k) == Src(s).ops[k]
SrcLen(s) == Len(Src(s).ops)

Sourced(s, scan, n) ==
    /\ Src(s).op # "dbg" /\ s.opEnd \in Nat /\ SrcLen(s) \in 0..Len(Ops(s))
    /\ SrcLen(s) <= s.opEnd /\ (scan \notin Late => s.opEnd = SrcLen(s))
    /\ \A k \in 1..Len(Ops(s)) :
          IF k <= SrcLen(s) THEN StillSource(SrcOp(s, k), Ops(s)[k], k, scan, n)
          ELSE Ops(s)[k].def => scan \in {"defs", "finish"} /\ k > s.opEnd

SourceInv == pc \in Scanning => Sourced(ra, pc, opnum)

\* An early clobber of a whole register only, as PhysicalsWait asks for.
NoEarlyUndef(s) ==
    \A k \in 1..SrcLen(s) : IsVirtual(SrcOp(s, k)) /\ SrcOp(s, k).early => ~SrcOp(s, k).undef

SrcTyped(s) == \A k \in 1..SrcLen(s) : SrcOp(s, k) \in Operands

\* The scan at hand, or the next one, goes on from n to m.
Onward(scan, n, m) ==
    /\ opnum \in Nat /\ n \in Nat /\ m \in Nat /\ n <= m
    /\ pc \in Scanning
    /\ pc = "defs" => scan = "defs" /\ opnum < m
    /\ scan \in Opening => pc = scan

\* Where a scan adds definitions, and to what.
Appends(s, scan) ==
    /\ pc = "defs" => s.opEnd <= Len(Ops(s))
    /\ pc = "early clobbers" => scan = pc /\ opnum \in 1..s.opEnd /\ NoEarlyUndef(s)

LEMMA OnwardPlaces ==
    ASSUME NEW scan, NEW n, NEW m, Onward(scan, n, m), NEW k \in Nat
    PROVE  (k < n => k < m) /\ (pc = "defs" /\ k = opnum => scan = "defs" /\ k < m)
<1>1. opnum \in Nat /\ n \in Nat /\ m \in Nat /\ n <= m /\ (pc = "defs" => scan = "defs" /\ opnum < m)
  BY DEF Onward
<1> QED
  BY <1>1

LEMMA StillSourceOn ==
    ASSUME NEW s, Here(s), Ops(s) = Ops(ra), NEW scan, NEW n, NEW m, Onward(scan, n, m),
           NEW k \in Nat, NEW o0, NEW o2, o0.def \in BOOLEAN,
           StillSource(o0, Ops(s)[k], k, scan, n), KeptOperand(s.mi, k, Ops(s)[k], o2)
    PROVE  StillSource(o0, o2, k, scan, m)
<1> DEFINE o == Ops(s)[k]
<1>1. SameOperand(o0, o) /\ SameOperand(o, o2)
  BY DEF StillSource, KeptOperand
<1>2. SameOperand(o0, o2)
  BY <1>1 DEF SameOperand, IsVirtual
<1>3. IsPhysical(o0) => o.reg = o0.reg /\ ~IsVirtual(o)
  BY RegisterFacts DEF StillSource, IsPhysical, IsVirtual
<1>4. IsPhysical(o0) => ~WasVirtual(s.mi, k) /\ ~Turns(s.mi, k)
  BY <1>3 DEF WasVirtual, Turns
<1>5. IsPhysical(o0) => o2.reg = o0.reg /\ (o0.def => o2.ends = o0.ends)
  BY <1>1, <1>3, <1>4 DEF StillSource, KeptOperand, SameOperand
<1>6. scan \in Opening => o2.reg = o0.reg
  <2>1. scan \in Opening => pc = scan
    BY DEF Onward
  <2>2. scan \in Opening => ~Turns(s.mi, k)
    BY <2>1 DEF Turns, Opening
  <2> QED
    BY <2>2 DEF StillSource, KeptOperand
<1>7. ASSUME o0.def, ~o0.early PROVE o2.reg = o0.reg \/ scan = "finish" \/ (scan = "defs" /\ k < m)
  <2>1. o.def /\ ~o.early
    BY <1>1, <1>7 DEF SameOperand
  <2>2. Turns(s.mi, k) => pc = "defs" /\ k = opnum
    BY <2>1 DEF Turns, Scanning, Onward
  <2>3. o2.reg = o.reg \/ (pc = "defs" /\ k = opnum)
    BY <2>2 DEF KeptOperand
  <2>4. o.reg = o0.reg \/ scan = "finish" \/ (scan = "defs" /\ k < n)
    BY <1>7 DEF StillSource
  <2>5. pc = "defs" /\ k = opnum => scan = "defs" /\ k < m
    BY OnwardPlaces
  <2>6. k < n => k < m
    BY OnwardPlaces
  <2>7. CASE pc = "defs" /\ k = opnum
    BY <2>5, <2>7
  <2>8. CASE scan = "defs" /\ k < n
    BY <2>6, <2>8
  <2>9. CASE o2.reg = o.reg /\ o.reg = o0.reg
    BY <2>9
  <2> QED
    BY <2>3, <2>4, <2>7, <2>8, <2>9
<1> QED
  BY <1>2, <1>5, <1>6, <1>7 DEF StillSource

LEMMA SourcedMoves ==
    ASSUME NEW s, NEW t, Coded(s), Here(s), Ops(s) = Ops(ra), Moves(s, t), SrcTyped(s),
           NEW scan, NEW n, NEW m, Sourced(s, scan, n), Onward(scan, n, m), Appends(s, scan)
    PROVE  Sourced(t, scan, m)
<1>1. Src(t) = Src(s) /\ SrcLen(t) = SrcLen(s) /\ (\A k : SrcOp(t, k) = SrcOp(s, k)) /\ t.opEnd = s.opEnd
  BY DEF Moves, Src, SrcLen, SrcOp
<1>2. /\ Len(Ops(t)) >= Len(Ops(s)) /\ Len(Ops(t)) \in Nat /\ Len(Ops(s)) \in Nat
      /\ \A k \in 1..Len(Ops(t)) : IF k <= Len(Ops(s)) THEN KeptOperand(s.mi, k, Ops(s)[k], Ops(t)[k])
                                   ELSE ~IsVirtual(Ops(t)[k]) /\ (Ops(t)[k].def => AddsDef)
  BY OperandKept
<1> DEFINE c == SrcLen(s)
           l == Len(Ops(s))
<1>3. Src(s).op # "dbg" /\ s.opEnd \in Nat /\ c \in 0..l /\ c <= s.opEnd /\ (scan \notin Late => s.opEnd = c)
  BY DEF Sourced
<1>4. \A k \in 1..l : IF k <= c THEN StillSource(SrcOp(s, k), Ops(s)[k], k, scan, n)
                      ELSE Ops(s)[k].def => scan \in {"defs", "finish"} /\ k > s.opEnd
  BY DEF Sourced
<1>5. c \in Nat /\ c <= l /\ l \in Nat
  BY <1>2, <1>3
<1> HIDE DEF c, l
<1>6. AddsDef => pc = "defs"
  <2> SUFFICES ASSUME AddsDef, pc # "defs" PROVE FALSE
    OBVIOUS
  <2>1. pc = "early clobbers" /\ IsVirtual(Ops(s)[opnum]) /\ Ops(s)[opnum].early /\ Ops(s)[opnum].undef
    BY DEF AddsDef, Scanning, Onward
  <2>2. opnum \in 1..s.opEnd /\ NoEarlyUndef(s) /\ scan \notin Late
    BY <2>1 DEF Late, Appends
  <2>3. opnum \in 1..c /\ opnum \in 1..l /\ opnum <= c
    BY <1>3, <1>5, <2>2
  <2>4. StillSource(SrcOp(s, opnum), Ops(s)[opnum], opnum, scan, n)
    BY <1>4, <2>3
  <2>5. SameOperand(SrcOp(s, opnum), Ops(s)[opnum])
    BY <2>4 DEF StillSource
  <2>6. SrcOp(s, opnum) \in Operands
    BY <2>3 DEF SrcTyped, c
  <2> QED
    BY <2>1, <2>2, <2>3, <2>5, <2>6 DEF SameOperand, NoEarlyUndef, IsVirtual, Operands, c
<1>7. ASSUME NEW k \in 1..Len(Ops(t))
      PROVE  IF k <= c THEN StillSource(SrcOp(s, k), Ops(t)[k], k, scan, m)
             ELSE Ops(t)[k].def => scan \in {"defs", "finish"} /\ k > s.opEnd
  <2>1. CASE k <= l /\ k <= c
    <3>1. k \in 1..l /\ k \in 1..c /\ k \in Nat
      BY <1>2, <1>5, <2>1
    <3>2. StillSource(SrcOp(s, k), Ops(s)[k], k, scan, n)
      BY <1>4, <2>1, <3>1
    <3>3. KeptOperand(s.mi, k, Ops(s)[k], Ops(t)[k])
      BY <1>2, <2>1 DEF l
    <3>4. SrcOp(s, k).def \in BOOLEAN
      BY <3>1 DEF SrcTyped, Operands, c
    <3>5. StillSource(SrcOp(s, k), Ops(t)[k], k, scan, m)
      BY <3>1, <3>2, <3>3, <3>4, StillSourceOn
    <3> QED
      BY <2>1, <3>5
  <2>2. CASE k <= l /\ ~(k <= c)
    <3>1. k \in 1..l
      BY <1>5, <2>2
    <3>2. KeptOperand(s.mi, k, Ops(s)[k], Ops(t)[k])
      BY <1>2, <2>2 DEF l
    <3>3. Ops(t)[k].def = Ops(s)[k].def
      BY <3>2 DEF KeptOperand, SameOperand
    <3> QED
      BY <1>4, <2>2, <3>1, <3>3
  <2>3. CASE ~(k <= l)
    <3>1. Ops(t)[k].def => AddsDef
      BY <1>2, <2>3 DEF l
    <3>2. Ops(t)[k].def => scan = "defs" /\ s.opEnd <= l
      BY <1>6, <3>1 DEF l, Appends, Onward
    <3>3. ~(k <= c) /\ (s.opEnd <= l => k > s.opEnd)
      BY <1>3, <1>5, <2>3
    <3> QED
      BY <3>2, <3>3
  <2> QED
    BY <2>1, <2>2, <2>3
<1>8. c \in 0..Len(Ops(t))
  BY <1>2, <1>5 DEF l
<1> QED
  BY <1>1, <1>3, <1>7, <1>8 DEF Sourced, c

\* The next scan may rely on what the one before it has left.
LEMMA SourcedNext ==
    ASSUME NEW s, NEW scan, NEW n, NEW next, Sourced(s, scan, n), scan # "finish",
           scan = "defs" => next = "finish",
           next \in Opening => scan \in Opening,
           next \notin Late => scan \notin Late
    PROVE  Sourced(s, next, 1)
  BY DEF Sourced, StillSource
LEMMA SourceInvNext ==
    ASSUME input' = input, pc' \in Scanning => Sourced(ra', pc', opnum')
    PROVE  SourceInv'
  BY DEF SourceInv, Sourced, Src, SrcOp, SrcLen, StillSource

\* The instruction that came in.
LEMMA SrcFacts ==
    ASSUME CodeInv, BlockInv(ra), ra.mi <= Len(input.blocks[ra.mbb])
    PROVE  /\ ra.mbb \in 1..Len(input.blocks) /\ ra.mi \in 1..Len(input.blocks[ra.mbb])
           /\ Src(ra) \in Instrs /\ SrcLen(ra) \in Nat /\ SrcTyped(ra)
           /\ PhysicalsWait(input) => NoEarlyUndef(ra)
<1>1. ra.mbb \in 1..Len(input.blocks) /\ input.blocks \in Seq(Seq(Instrs))
  <2>1. input.blocks \in Seq(Seq(Instrs))
    BY CodeAssumption DEF CodeInv
  <2>2. Len(ra.fn) = Len(input.blocks) /\ Len(ra.fn) \in Nat /\ ra.mbb \in 0..Len(ra.fn) /\ ra.mbb # 0
    BY LenProperties DEF CodeInv, BlocksInv, BlockInv
  <2> QED
    BY <2>1, <2>2
<1>2. input.blocks[ra.mbb] \in Seq(Instrs)
  BY <1>1, ElementOfSeq
<1>3. Len(input.blocks[ra.mbb]) \in Nat /\ ra.mi \in 1..(Len(input.blocks[ra.mbb]) + 1)
  BY <1>2, LenProperties DEF BlockInv
<1>4. ra.mi \in 1..Len(input.blocks[ra.mbb])
  BY <1>3
<1>5. Src(ra) \in Instrs
  BY <1>2, <1>4, ElementOfSeq DEF Src
<1>6. SrcLen(ra) \in Nat /\ SrcTyped(ra)
  BY <1>5, InstrFacts DEF SrcLen, SrcTyped, SrcOp
<1>7. ASSUME PhysicalsWait(input) PROVE NoEarlyUndef(ra)
  <2>1. \A o \in Elements(Src(ra).ops) : IsVirtual(o) /\ o.early => ~o.undef
    BY <1>1, <1>4, <1>7 DEF PhysicalsWait, Src
  <2> QED
    BY <2>1 DEF NoEarlyUndef, SrcOp, SrcLen, Elements
<1> QED
  BY <1>1, <1>4, <1>5, <1>6, <1>7

ClobberToCome == pc = "early clobbers" => opnum <= ra.opEnd

\* A step of any scan.
LEMMA SourceMoved ==
    ASSUME IInv, CodeInv, SourceInv, PhysicalsWait(input), pc \in Scanning, Moves(ra, ra'),
           ClobberToCome
    PROVE  Sourced(ra', pc, opnum + 1)
<1>1. /\ Coded(ra) /\ Here(ra) /\ BlockInv(ra) /\ ScanInv(ra, pc, opnum) /\ Sourced(ra, pc, opnum)
      /\ Len(Ops(ra)) \in Nat
  BY InScan DEF SourceInv
<1>2. ra.mi <= Len(input.blocks[ra.mbb]) /\ ra.opEnd \in 0..Len(Ops(ra))
  BY <1>1 DEF ScanInv
<1>3. SrcTyped(ra) /\ NoEarlyUndef(ra)
  BY <1>1, <1>2, SrcFacts
<1>4. opnum \in Nat \ {0}
  BY DEF CodeInv
<1>5. Onward(pc, opnum, opnum + 1)
  BY <1>4 DEF Onward
<1>6. Appends(ra, pc)
  <2>1. ra.opEnd <= Len(Ops(ra)) /\ (opnum <= ra.opEnd => opnum \in 1..ra.opEnd)
    BY <1>1, <1>2, <1>4
  <2> QED
    BY <1>3, <2>1 DEF Appends, ClobberToCome
<1> QED
  BY <1>1, <1>3, <1>5, <1>6, SourcedMoves

LEMMA SourceScan ==
    ASSUME IInv, CodeInv, SourceInv, PhysicalsWait(input), input' = input, Moves(ra, ra'),
           NEW scan, NEW next, NEW t, << scan, next >> \in Following, Scan(scan, next, t)
    PROVE  SourceInv'
<1>1. pc = scan /\ scan \in Scanning /\ scan # "finish" /\ next \in Scanning
  BY DEF Scan, Following, Scanning
<1>2. CASE opnum <= ra.opEnd
  <2>1. pc' = pc /\ opnum' = opnum + 1
    BY <1>2 DEF Scan
  <2>2. Sourced(ra', pc, opnum + 1)
    BY <1>1, <1>2, SourceMoved DEF ClobberToCome
  <2> QED
    BY <2>1, <2>2, SourceInvNext
<1>3. CASE ~(opnum <= ra.opEnd)
  <2>1. pc' = next /\ opnum' = 1 /\ ra' = ra
    BY <1>3 DEF Scan
  <2>2. Sourced(ra, scan, opnum)
    BY <1>1 DEF SourceInv
  <2>3. /\ scan = "defs" => next = "finish"
        /\ next \in Opening => scan \in Opening
        /\ next \notin Late => scan \notin Late
    BY DEF Following, Opening, Late
  <2>4. Sourced(ra', next, 1)
    BY <1>1, <2>1, <2>2, <2>3, SourcedNext
  <2> QED
    BY <2>1, <2>4, SourceInvNext
<1> QED
  BY <1>2, <1>3

\* What is done between two scans.
LEMMA SourceBetween ==
    ASSUME IInv, CodeInv, SourceInv, PhysicalsWait(input), input' = input, opnum' = 1, Moves(ra, ra'),
           pc \in Scanning \ (Late \cup {"early clobbers"}), pc' \in Scanning \ Opening
    PROVE  SourceInv'
<1>1. Sourced(ra', pc, opnum + 1)
  BY SourceMoved DEF ClobberToCome
<1>2. pc # "finish" /\ pc # "defs" /\ pc \notin Late
  BY DEF Late
<1>3. Sourced(ra', pc', 1)
  BY <1>1, <1>2, SourcedNext
<1> QED
  BY <1>3, SourceInvNext

LEMMA SourceScans ==
    IInv /\ CodeInv /\ SourceInv /\ PhysicalsWait(input)
    /\ (FirstScan \/ TiedUses \/ EarlyClobbers \/ Uses \/ PhysicalDefs \/ Definitions) => SourceInv'
<1> SUFFICES ASSUME IInv, CodeInv, SourceInv, PhysicalsWait(input),
                    FirstScan \/ TiedUses \/ EarlyClobbers \/ Uses \/ PhysicalDefs \/ Definitions
             PROVE  SourceInv'
  OBVIOUS
<1>1. Moves(ra, ra')
  BY CodeScans1, CodeScans2
<1>2. input' = input
  BY DEF FirstScan, TiedUses, EarlyClobbers, Uses, PhysicalDefs, Definitions, Scan
<1>3. CASE FirstScan
  <2>1. << "first scan", "through?" >> \in Following /\ Scan("first scan", "through?", FirstScanOperand(opnum))
    BY <1>3 DEF FirstScan, Following
  <2> QED
    BY <1>1, <1>2, <2>1, SourceScan
<1>4. CASE TiedUses
  <2>1. << "tied uses", "early clobbers" >> \in Following /\ Scan("tied uses", "early clobbers", TiedOperand(opnum))
    BY <1>4 DEF TiedUses, Following
  <2> QED
    BY <1>1, <1>2, <2>1, SourceScan
<1>5. CASE EarlyClobbers
  <2>1. << "early clobbers", "restore" >> \in Following /\ Scan("early clobbers", "restore", EarlyClobberOperand(opnum))
    BY <1>5 DEF EarlyClobbers, Following
  <2> QED
    BY <1>1, <1>2, <2>1, SourceScan
<1>6. CASE Uses
  <2>1. << "uses", "undef uses" >> \in Following /\ Scan("uses", "undef uses", UseOperand(opnum))
    BY <1>6 DEF Uses, Following
  <2> QED
    BY <1>1, <1>2, <2>1, SourceScan
<1>7. CASE PhysicalDefs
  <2>1. << "physical defs", "defs" >> \in Following /\ Scan("physical defs", "defs", PhysDefOperand(opnum))
    BY <1>7 DEF PhysicalDefs, Following
  <2> QED
    BY <1>1, <1>2, <2>1, SourceScan
<1>8. CASE Definitions
  <2>1. << "defs", "finish" >> \in Following /\ Scan("defs", "finish", DefOperand(opnum))
    BY <1>8 DEF Definitions, Following
  <2> QED
    BY <1>1, <1>2, <2>1, SourceScan
<1> QED
  BY <1>3, <1>4, <1>5, <1>6, <1>7, <1>8

LEMMA SourceBetweens ==
    IInv /\ CodeInv /\ SourceInv /\ PhysicalsWait(input)
    /\ (HandleCollisions \/ RestoreUsed \/ UndefUses) => SourceInv'
<1> SUFFICES ASSUME IInv, CodeInv, SourceInv, PhysicalsWait(input),
                    HandleCollisions \/ RestoreUsed \/ UndefUses
             PROVE  SourceInv'
  OBVIOUS
<1>1. Moves(ra, ra')
  BY CodeThrough, CodeRestore, CodeUndef
<1>2. opnum' = 1 /\ input' = input
  BY DEF HandleCollisions, RestoreUsed, UndefUses, Between
<1>3. pc \in Scanning \ (Late \cup {"early clobbers"}) /\ pc' \in Scanning \ Opening
  BY DEF HandleCollisions, RestoreUsed, UndefUses, Between, Scanning, Late, Opening
<1> QED
  BY <1>1, <1>2, <1>3, SourceBetween

LEMMA SourceBeforeDefs == IInv /\ CodeInv /\ SourceInv /\ PhysicalsWait(input) /\ BeforeDefs => SourceInv'
<1> SUFFICES ASSUME IInv, CodeInv, SourceInv, PhysicalsWait(input), BeforeDefs PROVE SourceInv'
  OBVIOUS
<1>1. pc = "before defs" /\ pc' \in {"defs", "physical defs"} /\ opnum' = 1 /\ input' = input
  BY DEF BeforeDefs, Between
<1>2. pc \in Scanning /\ pc \notin Late
  BY <1>1 DEF Scanning, Late
<1>3. PICK s : /\ s.mi = ra.mi /\ s.mbb = ra.mbb /\ s.fn = ra.fn /\ Coded(s) /\ Here(s)
              /\ s.opEnd = Len(Ops(ra)) /\ Moves(s, ra')
  BY CodeBeforeDefs
<1>4. /\ BlockInv(ra) /\ ScanInv(ra, pc, opnum) /\ Sourced(ra, pc, opnum) /\ Len(Ops(ra)) \in Nat
  BY <1>2, InScan DEF SourceInv
<1>5. ra.mi <= Len(input.blocks[ra.mbb])
  BY <1>4 DEF ScanInv
<1>6. SrcTyped(ra)
  BY <1>4, <1>5, SrcFacts
<1>7. /\ Src(s) = Src(ra) /\ SrcLen(s) = SrcLen(ra) /\ (\A k : SrcOp(s, k) = SrcOp(ra, k))
      /\ Ops(s) = Ops(ra)
  BY <1>3 DEF Src, SrcLen, SrcOp, Ops, MI, Block
<1>8. SrcTyped(s)
  BY <1>6, <1>7 DEF SrcTyped
<1>9. Sourced(s, pc', 1)
  <2>1. Sourced(ra, pc', 1)
    <3>1. pc' \in Late /\ pc' \notin Opening /\ pc # "defs" /\ pc # "finish"
      BY <1>1 DEF Late, Opening
    <3> QED
      BY <1>4, <3>1, SourcedNext
  <2>2. \A k \in 1..Len(Ops(ra)) : ~(k <= SrcLen(ra)) => ~Ops(ra)[k].def
    BY <1>1, <1>4 DEF Sourced
  <2>3. SrcLen(ra) \in 0..Len(Ops(ra)) /\ pc' \in Late
    BY <1>1, <1>4 DEF Sourced, Late
  <2>4. SrcLen(ra) <= s.opEnd /\ s.opEnd \in Nat
    BY <1>3, <1>4, <2>3
  <2> QED
    BY <1>7, <2>1, <2>2, <2>3, <2>4 DEF Sourced
<1>10. Onward(pc', 1, 1)
  <2>1. opnum \in Nat /\ 1 \in Nat /\ 1 <= 1
    BY DEF CodeInv
  <2> QED
    BY <1>1, <1>2, <2>1 DEF Onward, Opening
<1>11. Appends(s, pc')
  BY <1>1 DEF Appends
<1>12. Sourced(ra', pc', 1)
  BY <1>3, <1>7, <1>8, <1>9, <1>10, <1>11, SourcedMoves
<1> QED
  BY <1>1, <1>12, SourceInvNext

LEMMA SourceBegin == CodeInv /\ allocateInstruction => SourceInv'
<1> SUFFICES ASSUME CodeInv, allocateInstruction PROVE SourceInv'
  OBVIOUS
<1>1. /\ pc = "instruction" /\ pc' = "first scan" /\ opnum' = 1 /\ input' = input
      /\ ra.mi <= Len(input.blocks[ra.mbb]) /\ MI(ra).op # "dbg"
  BY DEF allocateInstruction, Between
<1>2. BlocksInv(ra) /\ BlockInv(ra) /\ Fresh(ra) /\ DOMAIN ra = Members
  BY <1>1 DEF CodeInv, BlocksInv
<1>3. /\ ra'.fn = ra.fn /\ ra'.mbb = ra.mbb /\ ra'.mi = ra.mi /\ ra'.opEnd = Len(Ops(ra))
  BY <1>2 DEF allocateInstruction, Between, Members, Ops
<1>4. Ops(ra') = Ops(ra) /\ Src(ra') = Src(ra)
  BY <1>3 DEF Ops, MI, Block, Src
<1>5. Coded(ra) /\ Here(ra) /\ Block(ra) \in Code
  BY <1>1, <1>2, InBlock
<1>6. Once(Block(ra), ra.mi)
  BY <1>5 DEF Here
<1>7. Position(Block(ra), ra.mi) \in 1..Len(Block(ra)) /\ MI(ra).id = ra.mi
  BY <1>5, <1>6, OnceAt DEF MI
<1>8. Untouched(Src(ra), MI(ra))
  BY <1>2, <1>7 DEF Fresh, MI, Src
<1>9. /\ Src(ra).op # "dbg" /\ Len(Ops(ra)) = SrcLen(ra)
      /\ \A k \in 1..SrcLen(ra) : /\ SameOperand(SrcOp(ra, k), Ops(ra)[k]) /\ Ops(ra)[k].reg = SrcOp(ra, k).reg
                                  /\ IsPhysical(SrcOp(ra, k)) /\ SrcOp(ra, k).def =>
                                        Ops(ra)[k].ends = SrcOp(ra, k).ends
  BY <1>1, <1>8 DEF Untouched, Ops, SrcLen, SrcOp
<1>10. SrcLen(ra) \in Nat
  BY <1>1, <1>2, SrcFacts
<1>11. \A k \in 1..SrcLen(ra) : StillSource(SrcOp(ra, k), Ops(ra)[k], k, "first scan", 1)
  BY <1>9 DEF StillSource
<1>12. SrcLen(ra') = SrcLen(ra) /\ \A k : SrcOp(ra', k) = SrcOp(ra, k)
  BY <1>4 DEF SrcLen, SrcOp
<1>13. Sourced(ra', "first scan", 1)
  <2>1. /\ ra'.opEnd \in Nat /\ SrcLen(ra) \in 0..Len(Ops(ra)) /\ SrcLen(ra) <= ra'.opEnd
        /\ ra'.opEnd = SrcLen(ra) /\ \A k \in 1..Len(Ops(ra)) : k <= SrcLen(ra) /\ k \in 1..SrcLen(ra)
    BY <1>3, <1>9, <1>10
  <2> QED
    BY <1>4, <1>9, <1>11, <1>12, <2>1 DEF Sourced
<1> QED
  BY <1>1, <1>13, SourceInvNext

LEMMA SourceStep == IInv /\ CodeInv /\ SourceInv /\ [Next]_vars => (PhysicalsWait(input) => SourceInv')
<1> SUFFICES ASSUME IInv, CodeInv, SourceInv, [Next]_vars, PhysicalsWait(input) PROVE SourceInv'
  OBVIOUS
<1>1. CASE UNCHANGED vars
  BY <1>1, SourceInvNext DEF vars, SourceInv
<1>2. CASE Done
  BY <1>1, <1>2 DEF Done
<1>3. CASE BeginBlock \/ LiveIn \/ handleDebugValue \/ EndBlock \/ runOnMachineFunction \/ FinishInstruction
  <2>1. pc' \in {"live-ins", "instruction", "block", "done"} /\ input' = input
    BY <1>3 DEF BeginBlock, LiveIn, handleDebugValue, EndBlock, runOnMachineFunction, FinishInstruction, Between
  <2>2. pc' \notin Scanning
    BY <2>1 DEF Scanning
  <2> QED
    BY <2>1, <2>2, SourceInvNext
<1> QED
  BY <1>1, <1>2, <1>3, SourceScans, SourceBetweens, SourceBeforeDefs, SourceBegin DEF Next

-----------------------------------------------------------------------------
(* The invariant of the registers that wait.  Those in MustWait hold a     *)
(* value that some operand to come will read, and are reserved unless an   *)
(* error was reported.                                                     *)

Opener == "first scan"
LaterScans == Scanning \ {Opener}
OwnScan == "physical defs"      \* of version 10

\* The scan in which a physical definition gets its register, and those after it.
ItsTurn(scan, early) == scan = IF early THEN Opener ELSE IF version = 10 THEN OwnScan ELSE "defs"

PastIt(scan, early) ==
    IF early THEN scan \in LaterScans
    ELSE scan = "finish" \/ (scan = "defs" /\ version = 10)

Handed(s, scan, n, k) ==
    PastIt(scan, SrcOp(s, k).early) \/ (ItsTurn(scan, SrcOp(s, k).early) /\ k < n)

LiveIns(s) == input.liveins[s.mbb]

\* The first n live-ins have been handled, of which w overlaps no other.
LivesIn(s, n, w) ==
    \E k \in 1..n : /\ LiveIns(s)[k] = w
                    /\ \A h \in 1..Len(LiveIns(s)) : LiveIns(s)[h] # w => ~Overlap(LiveIns(s)[h], w)

WaitsAt(s, w) == Waiting(LiveIns(s), input.blocks[s.mbb], s.mi, w)

BegunBy(s, scan, n, w) ==
    \E k \in 1..SrcLen(s) : Begins(Src(s), k) /\ SrcOp(s, k).reg = w /\ Handed(s, scan, n, k)

MustWait(s, scan, n, w) ==
    \/ scan = "live-ins" /\ LivesIn(s, n - 1, w)
    \/ scan = "instruction" /\ WaitsAt(s, w)
    \/ scan \in Scanning /\ WaitsAt(s, w) /\ ~Touches(Src(s), w)
    \/ scan \in Scanning /\ BegunBy(s, scan, n, w)

Calm(s, scan, n) ==
    s.errors \/ (~s.stuck /\ \A w \in PReg : MustWait(s, scan, n, w) => s.regState[w] = "reserved")

\* No virtual register is in a register that the instruction reads by its name.
NoneInTheWay(s) ==
    \A k \in 1..SrcLen(s) :
        IsPhysical(SrcOp(s, k)) /\ ~SrcOp(s, k).def /\ ~SrcOp(s, k).undef =>
            \A q \in PReg : Overlap(SrcOp(s, k).reg, q) => s.regState[q] \notin VReg

NoneHinted(s) == NoHints => version = 8 \/ (s.copyDst = NoReg /\ s.copySrc = NoReg)

WaitInv ==
    /\ pc = "live-ins" => ra.mi = 1
    /\ pc \in Scanning => NoneHinted(ra)
    /\ Calm(ra, pc, opnum)
    /\ pc = Opener => ra.errors \/ NoneInTheWay(ra)

LEMMA CalmStep ==
    ASSUME NEW s, NEW scan, NEW n, Calm(s, scan, n),
           NEW t, NEW P, t.stuck = s.stuck, s.errors => t.errors, ~t.errors => StillReserved(s, t, P),
           NEW scan2, NEW m,
           \A w \in PReg : MustWait(t, scan2, m, w) =>
               (MustWait(s, scan, n, w) /\ w \notin P) \/ t.regState[w] = "reserved"
    PROVE  Calm(t, scan2, m)
<1> SUFFICES ASSUME ~t.errors PROVE ~t.stuck /\ \A w \in PReg : MustWait(t, scan2, m, w) => t.regState[w] = "reserved"
  BY DEF Calm
<1>1. ~s.errors /\ StillReserved(s, t, P)
  OBVIOUS
<1>2. ~s.stuck /\ \A w \in PReg : MustWait(s, scan, n, w) => s.regState[w] = "reserved"
  BY <1>1 DEF Calm
<1> QED
  BY <1>1, <1>2 DEF StillReserved

\* Spared registers go on waiting.
LEMMA CalmSpared ==
    ASSUME NEW s, NEW scan, NEW n, Calm(s, scan, n), NEW t, Spares(s, t), NEW scan2, NEW m,
           \A w \in PReg : MustWait(t, scan2, m, w) => MustWait(s, scan, n, w)
    PROVE  Calm(t, scan2, m)
<1>1. t.stuck = s.stuck /\ (s.errors => t.errors) /\ (~t.errors => StillReserved(s, t, {}))
  BY DEF Spares
<1>2. \A w \in PReg : MustWait(t, scan2, m, w) =>
         (MustWait(s, scan, n, w) /\ w \notin {}) \/ t.regState[w] = "reserved"
  OBVIOUS
<1> HIDE DEF MustWait
<1> QED
  BY <1>1, <1>2, CalmStep

LEMMA OverlapsItself == \A p \in PReg : Overlap(p, p)
  BY UnitsAssumption DEF Overlap

\* usePhysReg disturbs what overlaps the register, and is stuck only when a
\* virtual one is there.
LEMMA UseSpares ==
    ASSUME NEW s, Sound(s), NEW k, Ops(s)[k].reg \in PReg, ~Ops(s)[k].undef,
           \A q \in PReg : Overlap(Ops(s)[k].reg, q) => s.regState[q] \notin VReg
    PROVE  LET t == usePhysReg(s, k)
           IN  /\ Carried(s, t)
               /\ StillReserved(s, t, { q \in PReg : Overlap(Ops(s)[k].reg, q) })
               /\ \A q \in PReg : t.regState[q] \in VReg => s.regState[q] \in VReg
<1> DEFINE p == Ops(s)[k].reg
           P == { q \in PReg : Overlap(p, q) }
           m == markRegUsedInInstr(s, p)
           passed == Passed(s, p)
           supers == { q \in passed : IsSuper(p, q) }
           q0 == CHOOSE q \in supers : TRUE
           t1 == Cleared(m, {}, p, "free")
           t2 == Cleared(m, passed, q0, "free")
           t3 == Cleared(m, passed, p, "free")
           Fine(t) == /\ DOMAIN t = Members /\ Carried(s, t) /\ StillReserved(s, t, P)
                      /\ \A q \in PReg : t.regState[q] \in VReg => s.regState[q] \in VReg
<1>1. p \in P /\ passed \subseteq P
  BY PassedFacts, OverlapsItself
<1>2. Carried(s, m) /\ DOMAIN m = Members /\ m.regState = s.regState
  BY CodeCarries, CodeChanges DEF SameMaps, Sound, IsAllocator
<1> HIDE DEF m, passed
<1>3. "free" \notin VReg /\ "disabled" \notin VReg
  BY RegisterFacts
<1>4. ASSUME NEW Q, Q \subseteq P, NEW x \in P PROVE Fine(Cleared(m, Q, x, "free"))
  <2> DEFINE t == Cleared(m, Q, x, "free")
  <2>1. /\ DOMAIN t = Members /\ Carried(m, t)
        /\ \A q \in PReg : t.regState[q] = IF q = x THEN "free" ELSE IF q \in Q THEN "disabled" ELSE s.regState[q]
    BY <1>2 DEF Cleared, Carried, Members
  <2> HIDE DEF t, P
  <2>2. Carried(s, t)
    BY <1>2, <2>1, CarriedOn
  <2>3. StillReserved(s, t, P)
    BY <1>4, <2>1 DEF StillReserved
  <2>4. \A q \in PReg : t.regState[q] \in VReg => s.regState[q] \in VReg
    BY <1>3, <2>1
  <2> QED
    BY <2>1, <2>2, <2>3, <2>4 DEF t
<1>a. ASSUME NEW u, Fine(u), NEW w, SameMaps(u, w), Carried(u, w) PROVE Fine(w)
  <2>1. Carried(s, w)
    BY <1>a, CarriedOn
  <2> HIDE DEF P
  <2> QED
    BY <1>a, <2>1 DEF SameMaps, StillReserved
<1>5. ASSUME NEW u, Fine(u), NEW x, NEW flag PROVE Fine(SetEnds(u, x, flag)) /\ Fine(AddKilled(u, x))
  <2>1. /\ Carried(u, SetEnds(u, x, flag)) /\ SameMaps(u, SetEnds(u, x, flag))
        /\ Carried(u, AddKilled(u, x)) /\ SameMaps(u, AddKilled(u, x))
    BY <1>5, CodeCarries, CodeChanges
  <2> HIDE DEF Fine
  <2> QED
    BY <1>a, <1>5, <2>1
<1>6. Allocated(s, passed \cup {p}) = {}
  BY <1>1 DEF Allocated
<1>7. supers # {} => q0 \in P
  BY <1>1
<1>8. usePhysReg(s, k) = IF s.regState[p] \in {"reserved", "free"} THEN SetEnds(t1, k, TRUE)
                         ELSE IF supers # {} THEN AddKilled(t2, q0) ELSE SetEnds(t3, k, TRUE)
  <2>1. usePhysReg(s, k) =
          IF Ops(s)[k].undef THEN s
          ELSE IF s.regState[p] \in {"reserved", "free"} THEN SetEnds(t1, k, TRUE)
          ELSE IF Allocated(s, passed \cup {p}) # {} THEN [m EXCEPT !.stuck = TRUE]
          ELSE IF supers # {} THEN AddKilled(t2, q0) ELSE SetEnds(t3, k, TRUE)
    BY Zenon DEF usePhysReg, m, passed
  <2> HIDE DEF t1, t2, t3, supers, q0
  <2> QED
    BY <1>6, <2>1
<1>9. Fine(t1) /\ Fine(t3) /\ (supers # {} => Fine(t2))
  <2> HIDE DEF P, Fine, q0, supers
  <2> QED BY <1>1, <1>4, <1>7
<1> HIDE DEF Fine, t1, t2, t3, supers, q0
<1>10. Fine(usePhysReg(s, k))
  BY <1>5, <1>8, <1>9
<1> QED
  BY <1>10 DEF Fine

\* What must wait depends on where the allocator is.
LEMMA SamePlace ==
    ASSUME NEW s, NEW t, t.mbb = s.mbb, t.mi = s.mi
    PROVE  /\ Src(t) = Src(s) /\ SrcLen(t) = SrcLen(s) /\ \A k : SrcOp(t, k) = SrcOp(s, k)
           /\ \A w : WaitsAt(t, w) <=> WaitsAt(s, w)
           /\ \A scan, n, k : Handed(t, scan, n, k) <=> Handed(s, scan, n, k)
           /\ \A scan, n, w : BegunBy(t, scan, n, w) <=> BegunBy(s, scan, n, w)
           /\ \A scan, n, w : MustWait(t, scan, n, w) <=> MustWait(s, scan, n, w)
<1>1. Src(t) = Src(s) /\ SrcLen(t) = SrcLen(s) /\ (\A k : SrcOp(t, k) = SrcOp(s, k)) /\ LiveIns(t) = LiveIns(s)
  BY DEF Src, SrcLen, SrcOp, LiveIns
<1>2. \A w : WaitsAt(t, w) <=> WaitsAt(s, w)
  BY DEF WaitsAt, LiveIns
<1>3. \A scan, n, k : Handed(t, scan, n, k) <=> Handed(s, scan, n, k)
  BY <1>1, Zenon DEF Handed
<1>4. \A scan, n, w : BegunBy(t, scan, n, w) <=> BegunBy(s, scan, n, w)
  BY <1>1, <1>3, Zenon DEF BegunBy
<1>5. \A n, w : LivesIn(t, n, w) <=> LivesIn(s, n, w)
  BY <1>1, Zenon DEF LivesIn
<1>6. \A scan, n, w : MustWait(t, scan, n, w) <=> MustWait(s, scan, n, w)
  BY <1>1, <1>2, <1>4, <1>5, Zenon DEF MustWait
<1> QED
  BY <1>1, <1>2, <1>3, <1>4, <1>6

\* A definition has its turn, and is past it in the next scan.
LEMMA TurnsPass ==
    ASSUME version \in {8, 10}, NEW scan, NEW next, NEW early \in BOOLEAN,
           << scan, next >> \in Following, PastIt(next, early)
    PROVE  PastIt(scan, early) \/ ItsTurn(scan, early)
  BY Zenon DEF Following, PastIt, ItsTurn, Scanning, LaterScans, Opener, OwnScan

LEMMA OneVersion == version = 8 => version # 10
  OBVIOUS

LEMMA TurnsKept ==
    ASSUME version \in {8, 10}, NEW scan, NEW next, NEW early \in BOOLEAN, PastIt(next, early),
           \/ scan \in {"through?", "restore", "undef uses"} /\ next \in {"tied uses", "uses", "before defs"}
           \/ scan = "before defs" /\ next = IF version = 8 THEN "defs" ELSE "physical defs"
    PROVE  PastIt(scan, early)
  BY OneVersion, Zenon DEF PastIt, Scanning, LaterScans, Opener

LEMMA FirstTurn == \A early \in BOOLEAN : ~PastIt(Opener, early) /\ (ItsTurn(Opener, early) <=> early)
  BY Zenon DEF PastIt, ItsTurn, LaterScans, Opener, OwnScan

LEMMA OtherTurns ==
    ASSUME version \in {8, 10}, NEW early \in BOOLEAN
    PROVE  /\ \A scan \in {"tied uses", "early clobbers", "uses"} : ~ItsTurn(scan, early)
           /\ ItsTurn(OwnScan, early) => version = 10 /\ ~early
           /\ ItsTurn("defs", early) => version = 8 /\ ~early
<1>1. version = 8 \/ version = 10
  OBVIOUS
<1>2. \A scan \in {"tied uses", "early clobbers", "uses"} : ~ItsTurn(scan, early)
  <2>1. \A scan : ItsTurn(scan, early) => scan = Opener \/ scan = OwnScan \/ scan = "defs"
    BY Zenon DEF ItsTurn
  <2> QED
    BY <2>1, Zenon DEF Opener, OwnScan
<1>3. ItsTurn(OwnScan, early) => version = 10 /\ ~early
  BY Zenon DEF ItsTurn, Opener, OwnScan
<1>4. ItsTurn("defs", early) => version = 8 /\ ~early
  BY <1>1, Zenon DEF ItsTurn, Opener, OwnScan
<1> QED
  BY <1>2, <1>3, <1>4, Zenon

\* What waits at an instruction waited at the one before it, or that one began it.
LEMMA WaitingOn ==
    ASSUME NEW liveins, NEW code, NEW j \in Nat \ {0}, NEW w, Waiting(liveins, code, j + 1, w)
    PROVE  \/ Waiting(liveins, code, j, w) /\ ~Touches(code[j], w)
           \/ \E k \in 1..Len(code[j].ops) : Begins(code[j], k) /\ code[j].ops[k].reg = w
<1> DEFINE Isolated == w \in Elements(liveins) /\ \A p \in Elements(liveins) : p # w => ~Overlap(p, w)
           BegunAt(d) == \E k \in 1..Len(code[d].ops) : Begins(code[d], k) /\ code[d].ops[k].reg = w
           Free(a, b) == \A h \in a..b : ~Touches(code[h], w)
<1>1. \A i : Waiting(liveins, code, i, w) <=>
                (Isolated /\ Free(1, i - 1)) \/ \E d \in 1..(i - 1) : BegunAt(d) /\ Free(d + 1, i - 1)
  BY DEF Waiting
<1> HIDE DEF Isolated, BegunAt
<1>2. (j + 1) - 1 = j /\ 1..(j - 1) \subseteq 1..j /\ \A d \in 1..(j - 1) : (d + 1)..(j - 1) \subseteq (d + 1)..j /\ j \in (d + 1)..j
  OBVIOUS
<1>3. CASE Isolated /\ Free(1, j)
  <2>1. Free(1, j - 1) /\ ~Touches(code[j], w)
    BY <1>2, <1>3
  <2> QED
    BY <1>1, <1>3, <2>1
<1>4. ASSUME NEW d \in 1..j, BegunAt(d), Free(d + 1, j)
      PROVE  BegunAt(j) \/ (Waiting(liveins, code, j, w) /\ ~Touches(code[j], w))
  <2>1. d = j \/ d \in 1..(j - 1)
    OBVIOUS
  <2>2. ASSUME d \in 1..(j - 1) PROVE Free(d + 1, j - 1) /\ ~Touches(code[j], w)
    BY <1>2, <1>4, <2>2
  <2> QED
    BY <1>1, <1>4, <2>1, <2>2
<1>5. (Isolated /\ Free(1, j)) \/ \E d \in 1..j : BegunAt(d) /\ Free(d + 1, j)
  BY <1>1, <1>2
<1>6. BegunAt(j) \/ (Waiting(liveins, code, j, w) /\ ~Touches(code[j], w))
  BY <1>1, <1>3, <1>4, <1>5
<1> QED
  BY <1>6 DEF BegunAt

LEMMA InScanning ==
    ASSUME NEW s, NEW scan \in Scanning
    PROVE  \A n, w : MustWait(s, scan, n, w) <=>
                        (WaitsAt(s, w) /\ ~Touches(Src(s), w)) \/ BegunBy(s, scan, n, w)
<1>1. scan # "live-ins" /\ scan # "instruction"
  BY Zenon DEF Scanning
<1> QED
  BY <1>1, Zenon DEF MustWait

LEMMA HandedOn ==
    ASSUME NEW s, NEW scan, NEW n \in Nat, NEW k \in Nat, Handed(s, scan, n + 1, k)
    PROVE  Handed(s, scan, n, k) \/ (k = n /\ ItsTurn(scan, SrcOp(s, k).early))
<1>1. k < n + 1 => k < n \/ k = n
  OBVIOUS
<1> QED
  BY <1>1 DEF Handed

LEMMA HandedEnd ==
    ASSUME version \in {8, 10}, NEW s, NEW scan, NEW next, << scan, next >> \in Following,
           NEW n \in Nat, NEW k \in Nat \ {0}, k < n, SrcOp(s, k).early \in BOOLEAN, Handed(s, next, 1, k)
    PROVE  Handed(s, scan, n, k)
<1>1. ~(k < 1)
  OBVIOUS
<1>2. PastIt(next, SrcOp(s, k).early)
  BY <1>1 DEF Handed
<1>3. PastIt(scan, SrcOp(s, k).early) \/ ItsTurn(scan, SrcOp(s, k).early)
  BY <1>2, TurnsPass
<1> QED
  BY <1>3 DEF Handed

\* A step that spares the registers, at an operand whose turn it is not.
LEMMA CalmOperand ==
    ASSUME pc \in Scanning, opnum \in Nat, Calm(ra, pc, opnum), SrcLen(ra) \in Nat,
           ra'.mbb = ra.mbb, ra'.mi = ra.mi, Spares(ra, ra'),
           opnum \in 1..SrcLen(ra) => ~(Begins(Src(ra), opnum) /\ ItsTurn(pc, SrcOp(ra, opnum).early))
    PROVE  Calm(ra', pc, opnum + 1)
<1>1. ASSUME NEW w, BegunBy(ra, pc, opnum + 1, w) PROVE BegunBy(ra, pc, opnum, w)
  <2>1. PICK k \in 1..SrcLen(ra) : Begins(Src(ra), k) /\ SrcOp(ra, k).reg = w /\ Handed(ra, pc, opnum + 1, k)
    BY <1>1 DEF BegunBy
  <2>2. Handed(ra, pc, opnum, k)
    BY <2>1, HandedOn
  <2> QED
    BY <2>1, <2>2 DEF BegunBy
<1>2. \A w : MustWait(ra', pc, opnum + 1, w) => MustWait(ra, pc, opnum, w)
  BY <1>1, InScanning, SamePlace
<1> QED
  BY <1>2, CalmSpared

\* A step that disturbs a physical register, which the operand names.
LEMMA CalmPhysical ==
    ASSUME pc \in Scanning, opnum \in Nat, Calm(ra, pc, opnum), SrcLen(ra) \in Nat, Src(ra).op # "dbg",
           ra'.mbb = ra.mbb, ra'.mi = ra.mi, Carried(ra, ra'),
           NEW p \in PReg, opnum \in 1..SrcLen(ra), SrcOp(ra, opnum).reg = p,
           StillReserved(ra, ra', { q \in PReg : Overlap(p, q) }),
           \/ SrcOp(ra, opnum).def /\ (Begins(Src(ra), opnum) => ra'.regState[p] = "reserved")
           \/ /\ ~SrcOp(ra, opnum).def /\ ~SrcOp(ra, opnum).undef
              /\ \A k \in 1..SrcLen(ra) : Handed(ra, pc, opnum, k) => SrcOp(ra, k).early
    PROVE  Calm(ra', pc, opnum + 1)
<1> DEFINE P == { q \in PReg : Overlap(p, q) }
           o == SrcOp(ra, opnum)
<1>1. o \in Elements(Src(ra).ops) /\ IsPhysical(o) /\ o = Src(ra).ops[opnum]
  BY DEF SrcOp, SrcLen, Elements, IsPhysical
<1>2. ASSUME NEW w \in PReg, ~Touches(Src(ra), w) PROVE w \notin P
  BY <1>1, <1>2 DEF Touches
<1>3. ASSUME NEW w \in PReg, BegunBy(ra, pc, opnum + 1, w)
      PROVE  (BegunBy(ra, pc, opnum, w) /\ w \notin P) \/ ra'.regState[w] = "reserved"
  <2>1. PICK k \in 1..SrcLen(ra) : Begins(Src(ra), k) /\ SrcOp(ra, k).reg = w /\ Handed(ra, pc, opnum + 1, k)
    BY <1>3 DEF BegunBy
  <2>2. CASE k = opnum
    <3>1. o.def /\ w = p
      BY <2>1, <2>2 DEF Begins, SrcOp
    <3> QED
      BY <2>1, <2>2, <3>1
  <2>3. CASE k # opnum
    <3>1. Handed(ra, pc, opnum, k)
      BY <2>1, <2>3, HandedOn
    <3>2. o.def \/ (SrcOp(ra, k).early /\ ~o.undef)
      BY <3>1
    <3>3. opnum \in (1..Len(Src(ra).ops)) \ {k}
      BY <2>3 DEF SrcLen
    <3>4. ~Overlap(p, w)
      BY <1>1, <2>1, <3>2, <3>3 DEF Begins, SrcOp
    <3> QED
      BY <2>1, <3>1, <3>4 DEF BegunBy
  <2> QED
    BY <2>2, <2>3
<1> HIDE DEF P, o
<1>4. \A w \in PReg : MustWait(ra', pc, opnum + 1, w) =>
          (MustWait(ra, pc, opnum, w) /\ w \notin P) \/ ra'.regState[w] = "reserved"
  BY <1>2, <1>3, InScanning, SamePlace
<1>5. ra'.stuck = ra.stuck /\ (ra.errors => ra'.errors) /\ StillReserved(ra, ra', P)
  BY DEF Carried, P
<1> QED
  BY <1>4, <1>5, CalmStep

\* The last operand of a scan has been handled.
LEMMA CalmEnd ==
    ASSUME CodeInv, pc \in Scanning, Calm(ra, pc, opnum), Sourced(ra, pc, opnum), SrcTyped(ra),
           ra' = ra, NEW next \in Scanning, << pc, next >> \in Following, ~(opnum <= ra.opEnd)
    PROVE  Calm(ra', next, 1)
<1>1. SrcLen(ra) \in Nat /\ SrcLen(ra) <= ra.opEnd /\ ra.opEnd \in Nat /\ opnum \in Nat
  BY LenProperties DEF Sourced, CodeInv
<1>2. ASSUME NEW w, BegunBy(ra, next, 1, w) PROVE BegunBy(ra, pc, opnum, w)
  <2>1. PICK k \in 1..SrcLen(ra) : Begins(Src(ra), k) /\ SrcOp(ra, k).reg = w /\ Handed(ra, next, 1, k)
    BY <1>2 DEF BegunBy
  <2>2. k \in Nat \ {0} /\ k < opnum
    BY <1>1
  <2>3. SrcOp(ra, k).early \in BOOLEAN /\ version \in {8, 10}
    BY DEF SrcTyped, Operands, CodeInv
  <2>4. Handed(ra, pc, opnum, k)
    BY <1>1, <2>1, <2>2, <2>3, HandedEnd
  <2> QED
    BY <2>1, <2>4 DEF BegunBy
<1>3. \A w : MustWait(ra', next, 1, w) => MustWait(ra, pc, opnum, w)
  BY <1>2, InScanning
<1> QED
  BY <1>3, CalmSpared, SparesSelf

\* What is done between two scans.
LEMMA CalmBetween ==
    ASSUME CodeInv, pc \in Scanning, Calm(ra, pc, opnum), SrcTyped(ra), SrcLen(ra) \in Nat,
           ra'.mbb = ra.mbb, ra'.mi = ra.mi, Spares(ra, ra'),
           NEW next \in Scanning, \A early \in BOOLEAN : PastIt(next, early) => PastIt(pc, early)
    PROVE  Calm(ra', next, 1)
<1>1. ASSUME NEW w, BegunBy(ra, next, 1, w) PROVE BegunBy(ra, pc, opnum, w)
  <2>1. PICK k \in 1..SrcLen(ra) : Begins(Src(ra), k) /\ SrcOp(ra, k).reg = w /\ Handed(ra, next, 1, k)
    BY <1>1 DEF BegunBy
  <2>2. ~(k < 1) /\ SrcOp(ra, k).early \in BOOLEAN
    BY DEF SrcTyped, Operands
  <2>3. Handed(ra, pc, opnum, k)
    BY <2>1, <2>2 DEF Handed
  <2> QED
    BY <2>1, <2>3 DEF BegunBy
<1>2. \A w : MustWait(ra', next, 1, w) => MustWait(ra, pc, opnum, w)
  BY <1>1, InScanning, SamePlace
<1> QED
  BY <1>2, CalmSpared

LEMMA CalmPrimed == ASSUME input' = input, version' = version, Calm(ra', pc', opnum') PROVE Calm(ra, pc, opnum)'
  BY DEF Calm, MustWait, LivesIn, WaitsAt, BegunBy, Handed, PastIt, ItsTurn, LiveIns, Src, SrcOp, SrcLen

LEMMA WaitInvNext ==
    ASSUME input' = input, version' = version, Calm(ra', pc', opnum'),
           pc' = "live-ins" => ra'.mi = 1,
           pc' \in Scanning => NoneHinted(ra'),
           pc' = Opener => ra'.errors \/ NoneInTheWay(ra')
    PROVE  WaitInv'
<1>1. Calm(ra, pc, opnum)'
  BY CalmPrimed
<1>2. (pc' \in Scanning => NoneHinted(ra)') /\ (pc' = Opener => ra'.errors \/ NoneInTheWay(ra)')
  BY Zenon DEF NoneHinted, NoHints, NoneInTheWay, SrcLen, SrcOp, Src
<1> QED
  BY <1>1, <1>2 DEF WaitInv

LEMMA SourceFacts ==
    ASSUME IInv, CodeInv, SourceInv, pc \in Scanning
    PROVE  /\ Sound(ra) /\ DOMAIN ra = Members /\ Sourced(ra, pc, opnum) /\ SrcTyped(ra) /\ SrcLen(ra) \in Nat
           /\ Src(ra).op # "dbg" /\ opnum \in Nat \ {0} /\ version \in {8, 10}
           /\ ra.mbb \in 1..Len(input.blocks) /\ ra.mi \in 1..Len(input.blocks[ra.mbb])
           /\ ra.opEnd \in 0..Len(Ops(ra)) /\ Len(Ops(ra)) \in Nat
<1>1. Sound(ra) /\ DOMAIN ra = Members /\ BlockInv(ra) /\ ScanInv(ra, pc, opnum) /\ Len(Ops(ra)) \in Nat
  BY InScan
<1>2. ra.mi <= Len(input.blocks[ra.mbb]) /\ ra.opEnd \in 0..Len(Ops(ra))
  BY <1>1 DEF ScanInv
<1>3. Sourced(ra, pc, opnum) /\ Src(ra).op # "dbg"
  BY DEF SourceInv, Sourced
<1> QED
  BY <1>1, <1>2, <1>3, SrcFacts DEF CodeInv

\* A scan goes on calmly when each of its operands leaves the rest alone.
LEMMA WaitScan ==
    ASSUME IInv, CodeInv, SourceInv, WaitInv,
           NEW scan, NEW next, NEW t, << scan, next >> \in Following, Scan(scan, next, t),
           opnum <= ra.opEnd => /\ NoneHinted(ra') /\ Calm(ra', pc, opnum + 1)
                                /\ pc = Opener => ra'.errors \/ NoneInTheWay(ra')
    PROVE  WaitInv'
<1>1. pc = scan /\ scan \in Scanning /\ next \in Scanning /\ scan # "live-ins" /\ next # "live-ins" /\ next # Opener
  BY Zenon DEF Scan, Following, Scanning, Opener
<1>2. input' = input /\ version' = version
  BY DEF Scan
<1>3. CASE opnum <= ra.opEnd
  <2>1. pc' = pc /\ opnum' = opnum + 1
    BY <1>3 DEF Scan
  <2> QED
    BY <1>1, <1>2, <1>3, <2>1, WaitInvNext
<1>4. CASE ~(opnum <= ra.opEnd)
  <2>1. pc' = next /\ opnum' = 1 /\ ra' = ra
    BY <1>4 DEF Scan
  <2>2. Calm(ra', next, 1)
    BY <1>1, <1>4, <2>1, SourceFacts, CalmEnd DEF WaitInv
  <2>3. NoneHinted(ra')
    BY <1>1, <2>1 DEF WaitInv
  <2> QED
    BY <1>1, <1>2, <2>1, <2>2, <2>3, WaitInvNext
<1> QED
  BY <1>3, <1>4

\* Version 10 gives no bonus it should not when the operand in hand gets its register.
Careful == NoHints \/ RoomLeft

LEMMA Unhinted ==
    ASSUME CodeInv, NoneHinted(ra), Careful
    PROVE  \/ version = 8 \/ (NoCopies(ra.fn) /\ ra.copyDst = NoReg /\ ra.copySrc = NoReg)
           \/ RoomLeft
<1>1. NoHints => version = 8 \/ NoCopies(input.blocks)
  BY DEF NoHints, NoCopies, NoCopy, Elements
<1> QED
  BY <1>1 DEF Careful, NoneHinted, CodeInv, BlocksInv

\* The operand in hand in each of the scans that allocate.
LEMMA RoomFound ==
    ASSUME RoomLeft, opnum <= ra.opEnd, IsVirtual(Ops(ra)[opnum]),
           ra.live[Ops(ra)[opnum].reg].phys = NoReg
    PROVE  LET o == Ops(ra)[opnum]
           IN  /\ pc = "tied uses" /\ ((~o.def /\ o.tied # 0) \/ PartialRedef(MI(ra), o)) => Room(ra, o.reg)
               /\ pc = "early clobbers" /\ o.early => Room(ra, o.reg)
               /\ pc = "uses" /\ ~o.def /\ (o.undef => version = 8) => Room(ra, o.reg)
               /\ pc = "defs" /\ o.def /\ ~o.early => Room(ra, o.reg)
<1> DEFINE o == Ops(ra)[opnum]
           Allocating == pc \in {"tied uses", "early clobbers", "uses", "defs"}
<1>1. Allocating /\ Taken(MI(ra), o) => Room(ra, o.reg)
  <2> HIDE DEF o
  <2> QED BY Zenon DEF RoomLeft, o
<1>2. /\ pc = "tied uses" => Allocating
      /\ pc = "early clobbers" => Allocating
      /\ pc = "uses" => Allocating
      /\ pc = "defs" => Allocating
  BY Zenon
<1> HIDE DEF Allocating, o
<1>3. /\ pc = "tied uses" /\ ((~o.def /\ o.tied # 0) \/ PartialRedef(MI(ra), o)) => Taken(MI(ra), o)
      /\ pc = "early clobbers" /\ o.early => Taken(MI(ra), o)
      /\ pc = "uses" /\ ~o.def /\ (o.undef => version = 8) => Taken(MI(ra), o)
      /\ pc = "defs" /\ o.def /\ ~o.early => Taken(MI(ra), o)
  BY Zenon DEF Taken
<1> QED
  BY <1>1, <1>2, <1>3, Zenon DEF o

\* A virtual operand, or none to be handled.
LEMMA WaitSpared ==
    ASSUME IInv, CodeInv, SourceInv, WaitInv, pc \in Scanning, pc # Opener, Moves(ra, ra'), Spares(ra, ra'),
           opnum \in 1..SrcLen(ra) => ~(Begins(Src(ra), opnum) /\ ItsTurn(pc, SrcOp(ra, opnum).early))
    PROVE  /\ NoneHinted(ra') /\ Calm(ra', pc, opnum + 1)
           /\ pc = Opener => ra'.errors \/ NoneInTheWay(ra')
<1>1. ra'.mbb = ra.mbb /\ ra'.mi = ra.mi
  BY DEF Moves
<1>2. Calm(ra', pc, opnum + 1)
  BY <1>1, SourceFacts, CalmOperand DEF WaitInv
<1>3. NoneHinted(ra')
  BY DEF WaitInv, NoneHinted, Spares
<1> QED
  BY <1>2, <1>3

LEMMA WaitTied == IInv /\ CodeInv /\ SourceInv /\ WaitInv /\ Careful /\ TiedUses => WaitInv'
<1> SUFFICES ASSUME IInv, CodeInv, SourceInv, WaitInv, Careful, TiedUses PROVE WaitInv'
  OBVIOUS
<1> DEFINE o == Ops(ra)[opnum]
           t == reloadVirtReg(ra, opnum, o.reg, NoReg)
           a == setPhysReg(t, opnum, t.live[o.reg].phys)
           b == [t EXCEPT !.partialDefs = @ \cup {t.live[o.reg].phys}]
<1>1. /\ Scan("tied uses", "early clobbers", TiedOperand(opnum)) /\ pc = "tied uses" /\ pc \in Scanning /\ pc # Opener
      /\ << "tied uses", "early clobbers" >> \in Following
  BY Zenon DEF TiedUses, Scan, Scanning, Following, Opener
<1>2. Sound(ra)
  BY <1>1, SourceFacts
<1> DEFINE taken == IsVirtual(o) /\ ((~o.def /\ o.tied # 0) \/ PartialRedef(MI(ra), o))
<1>3. TiedOperand(opnum) \in {ra, a, b} /\ (~taken => TiedOperand(opnum) = ra)
  BY DEF TiedOperand
<1>4. ASSUME taken, opnum <= ra.opEnd PROVE Spares(ra, a) /\ Spares(ra, b)
  <2>0. Unbiased(ra, o.reg, NoReg)
    <3>1. RoomLeft /\ ra.live[o.reg].phys = NoReg => Room(ra, o.reg)
      BY <1>1, <1>4, RoomFound, Zenon
    <3> QED
      BY <1>1, <3>1, Unhinted DEF WaitInv, Unbiased
  <2>1. Sound(t) /\ Spares(ra, t)
    BY <1>2, <1>4, <2>0, ReloadVirtReg, ReloadSpares DEF IsVirtual
  <2> HIDE DEF t, o
  <2>2. Spares(t, a)
    BY <2>1, SetPhysRegSpares
  <2>3. Spares(t, b)
    BY <2>1 DEF Sound, IsAllocator, Members, Spares, StillReserved
  <2> QED
    BY <2>1, <2>2, <2>3, SparesOn
<1>5. ASSUME opnum <= ra.opEnd PROVE Spares(ra, TiedOperand(opnum))
  <2> HIDE DEF a, b, taken
  <2> QED BY <1>3, <1>4, <1>5, SparesSelf
<1>6. ASSUME opnum <= ra.opEnd
      PROVE  /\ NoneHinted(ra') /\ Calm(ra', pc, opnum + 1)
             /\ pc = Opener => ra'.errors \/ NoneInTheWay(ra')
  <2>1. ra' = TiedOperand(opnum)
    BY <1>1, <1>6, Zenon DEF Scan
  <2>2. Moves(ra, ra')
    BY CodeScans1
  <2>3. opnum \in 1..SrcLen(ra) => ~ItsTurn(pc, SrcOp(ra, opnum).early)
    <3>1. opnum \in 1..SrcLen(ra) => SrcOp(ra, opnum).early \in BOOLEAN
      BY <1>1, SourceFacts DEF SrcTyped, Operands
    <3>2. version \in {8, 10}
      BY DEF CodeInv
    <3> QED
      BY <1>1, <3>1, <3>2, OtherTurns, Zenon
  <2> QED
    BY <1>1, <1>5, <1>6, <2>1, <2>2, <2>3, WaitSpared
<1> QED
  BY <1>1, <1>6, WaitScan

LEMMA WaitClobbers == IInv /\ CodeInv /\ SourceInv /\ WaitInv /\ Careful /\ EarlyClobbers => WaitInv'
<1> SUFFICES ASSUME IInv, CodeInv, SourceInv, WaitInv, Careful, EarlyClobbers PROVE WaitInv'
  OBVIOUS
<1> DEFINE o == Ops(ra)[opnum]
<1>1. /\ Scan("early clobbers", "restore", EarlyClobberOperand(opnum)) /\ pc = "early clobbers"
      /\ pc \in Scanning /\ pc # Opener /\ << "early clobbers", "restore" >> \in Following
  BY Zenon DEF EarlyClobbers, Scan, Scanning, Following, Opener
<1>2. Sound(ra)
  BY <1>1, SourceFacts
<1>3. ASSUME opnum <= ra.opEnd PROVE Spares(ra, EarlyClobberOperand(opnum))
  <2>1. ASSUME IsVirtual(o), o.early PROVE Spares(ra, DefinedOperand(ra, opnum, NoReg))
    <3>1. RoomLeft /\ ra.live[o.reg].phys = NoReg => Room(ra, o.reg)
      BY <1>1, <1>3, <2>1, RoomFound, Zenon
    <3>2. Unbiased(ra, o.reg, NoReg)
      BY <1>1, <3>1, Unhinted DEF WaitInv, Unbiased
    <3> QED
      BY <1>2, <2>1, <3>2, DefinedSpares DEF IsVirtual
  <2> QED
    BY <2>1, SparesSelf DEF EarlyClobberOperand
<1>4. ASSUME opnum <= ra.opEnd
      PROVE  /\ NoneHinted(ra') /\ Calm(ra', pc, opnum + 1)
             /\ pc = Opener => ra'.errors \/ NoneInTheWay(ra')
  <2>1. ra' = EarlyClobberOperand(opnum)
    BY <1>1, <1>4, Zenon DEF Scan
  <2>2. Moves(ra, ra')
    BY CodeScans1
  <2>3. opnum \in 1..SrcLen(ra) => ~ItsTurn(pc, SrcOp(ra, opnum).early)
    <3>1. opnum \in 1..SrcLen(ra) => SrcOp(ra, opnum).early \in BOOLEAN
      BY <1>1, SourceFacts DEF SrcTyped, Operands
    <3>2. version \in {8, 10}
      BY DEF CodeInv
    <3> QED
      BY <1>1, <3>1, <3>2, OtherTurns, Zenon
  <2> QED
    BY <1>1, <1>3, <1>4, <2>1, <2>2, <2>3, WaitSpared
<1> QED
  BY <1>1, <1>4, WaitScan

LEMMA WaitUses == IInv /\ CodeInv /\ SourceInv /\ WaitInv /\ Careful /\ Uses => WaitInv'
<1> SUFFICES ASSUME IInv, CodeInv, SourceInv, WaitInv, Careful, Uses PROVE WaitInv'
  OBVIOUS
<1> DEFINE o == Ops(ra)[opnum]
           s == IF version = 8 THEN ra ELSE mayLiveIn(ra, o.reg)
           t == reloadVirtReg(s, opnum, o.reg, ra.copyDst)
<1>1. /\ Scan("uses", "undef uses", UseOperand(opnum)) /\ pc = "uses"
      /\ pc \in Scanning /\ pc # Opener /\ << "uses", "undef uses" >> \in Following
  BY Zenon DEF Uses, Scan, Scanning, Following, Opener
<1>2. Sound(ra)
  BY <1>1, SourceFacts
<1>3. /\ Sound(s) /\ Spares(ra, s) /\ s.fn = ra.fn /\ s.live = ra.live
      /\ \A v : Room(ra, v) <=> Room(s, v)
  <2>1. PICK x : s = ra \/ s = [ra EXCEPT !.across = x]
    BY DEF mayLiveIn
  <2> HIDE DEF s
  <2>2. SameMaps(ra, s) /\ Carried(ra, s) /\ s.fn = ra.fn /\ s.live = ra.live /\ s.regState = ra.regState
        /\ s.used = ra.used
    BY <1>2, <2>1 DEF SameMaps, Carried, Sound, IsAllocator, Members
  <2>3. \A v : Room(ra, v) <=> Room(s, v)
    BY <2>2 DEF Room, calcSpillCost, CostOf, isRegUsedInInstr
  <2> QED
    BY <1>2, <2>2, <2>3, SameMapsSound, CodeSpares
<1> DEFINE taken == IsVirtual(o) /\ ~o.def /\ (o.undef => version = 8)
<1>4. UseOperand(opnum) = ra \/ (taken /\ UseOperand(opnum) = Loaded(t, opnum, o.reg))
  <2>1. version \in {8, 10}
    BY DEF CodeInv
  <2> QED
    BY <2>1 DEF UseOperand
<1>5. ASSUME taken, opnum <= ra.opEnd PROVE Spares(ra, Loaded(t, opnum, o.reg))
  <2>1. o.reg \in VReg /\ Unbiased(s, o.reg, ra.copyDst)
    <3>1. RoomLeft /\ ra.live[o.reg].phys = NoReg => Room(ra, o.reg)
      BY <1>1, <1>5, RoomFound, Zenon
    <3> HIDE DEF s
    <3> QED
      BY <1>1, <1>3, <1>5, <3>1, Unhinted DEF WaitInv, Unbiased, IsVirtual
  <2> HIDE DEF s, o
  <2>2. Sound(t) /\ Spares(s, t)
    BY <1>3, <2>1, ReloadVirtReg, ReloadSpares
  <2> HIDE DEF t
  <2>3. Spares(t, Loaded(t, opnum, o.reg))
    BY <2>1, <2>2, LoadedSpares
  <2> QED
    BY <1>3, <2>2, <2>3, SparesOn
<1>6. ASSUME opnum <= ra.opEnd PROVE Spares(ra, UseOperand(opnum))
  <2> HIDE DEF t, taken
  <2> QED BY <1>4, <1>5, <1>6, SparesSelf
<1>7. ASSUME opnum <= ra.opEnd
      PROVE  /\ NoneHinted(ra') /\ Calm(ra', pc, opnum + 1)
             /\ pc = Opener => ra'.errors \/ NoneInTheWay(ra')
  <2>1. ra' = UseOperand(opnum)
    BY <1>1, <1>7, Zenon DEF Scan
  <2>2. Moves(ra, ra')
    BY CodeScans2
  <2>3. opnum \in 1..SrcLen(ra) => ~ItsTurn(pc, SrcOp(ra, opnum).early)
    <3>1. opnum \in 1..SrcLen(ra) => SrcOp(ra, opnum).early \in BOOLEAN
      BY <1>1, SourceFacts DEF SrcTyped, Operands
    <3>2. version \in {8, 10}
      BY DEF CodeInv
    <3> QED
      BY <1>1, <3>1, <3>2, OtherTurns, Zenon
  <2> QED
    BY <1>1, <1>6, <1>7, <2>1, <2>2, <2>3, WaitSpared
<1> QED
  BY <1>1, <1>7, WaitScan

\* The turn of a physical definition, and of anything else in its place.
LEMMA WaitPhysicalDef ==
    ASSUME IInv, CodeInv, SourceInv, WaitInv, pc \in Late, pc \in Scanning, pc # Opener, pc # "finish",
           opnum <= ra.opEnd, \A early \in BOOLEAN : ItsTurn(pc, early) => ~early,
           ra' = PhysDefOperand(opnum), Moves(ra, ra')
    PROVE  /\ NoneHinted(ra') /\ Calm(ra', pc, opnum + 1)
           /\ pc = Opener => ra'.errors \/ NoneInTheWay(ra')
<1> DEFINE o == Ops(ra)[opnum]
           p == o.reg
           o0 == SrcOp(ra, opnum)
           new == IF o.ends THEN "free" ELSE "reserved"
<1>1. /\ Sound(ra) /\ Sourced(ra, pc, opnum) /\ SrcTyped(ra) /\ SrcLen(ra) \in Nat /\ Src(ra).op # "dbg"
      /\ opnum \in Nat \ {0} /\ ra.opEnd \in 0..Len(Ops(ra)) /\ Len(Ops(ra)) \in Nat
  BY SourceFacts
<1>2. opnum \in 1..Len(Ops(ra)) /\ (opnum <= SrcLen(ra) <=> opnum \in 1..SrcLen(ra)) /\ ~(opnum > ra.opEnd)
  BY <1>1
<1>3. IF opnum <= SrcLen(ra) THEN StillSource(o0, o, opnum, pc, opnum) ELSE ~o.def
  BY <1>1, <1>2 DEF Sourced
<1>4. ASSUME opnum \in 1..SrcLen(ra)
      PROVE  /\ SameOperand(o0, o) /\ (IsPhysical(o0) /\ o0.def => o.ends = o0.ends)
             /\ o0.def /\ ~o0.early => o.reg = o0.reg
             /\ o0.def \in BOOLEAN /\ o0.early \in BOOLEAN
  <2>1. ~(opnum < opnum)
    BY <1>1
  <2> QED
    BY <1>1, <1>2, <1>3, <1>4, <2>1 DEF StillSource, SrcTyped, Operands
<1>5. CASE IsPhysical(o) /\ o.def /\ ~o.early
  <2>1. opnum \in 1..SrcLen(ra) /\ o0.def /\ ~o0.early /\ o0.reg = p /\ p \in PReg /\ o.ends = o0.ends
    BY <1>2, <1>3, <1>4, <1>5 DEF SameOperand, IsPhysical
  <2>2. ra' = definePhysReg(ra, p, new) /\ new \in {"free", "reserved"}
    BY <1>5 DEF PhysDefOperand
  <2> HIDE DEF p, o, o0
  <2>3. ra'.regState[p] = new /\ Carried(ra, ra') /\ StillReserved(ra, ra', Disturbed(ra, p))
    <3> HIDE DEF new
    <3> QED BY <1>1, <2>1, <2>2, DefinePhysReg, DefineSpares
  <2>4. StillReserved(ra, ra', { q \in PReg : Overlap(p, q) })
    BY <2>1, <2>3, OverlapsItself DEF StillReserved, Disturbed
  <2>5. Begins(Src(ra), opnum) => new = "reserved"
    BY <2>1 DEF Begins, SrcOp, o0
  <2>6. Calm(ra', pc, opnum + 1)
    BY <1>1, <2>1, <2>3, <2>4, <2>5, CalmPhysical DEF WaitInv, Moves, o0
  <2>7. NoneHinted(ra')
    BY <2>3 DEF WaitInv, NoneHinted, Carried
  <2> QED
    BY <2>6, <2>7
<1>6. CASE ~(IsPhysical(o) /\ o.def /\ ~o.early)
  <2>1. ra' = ra
    BY <1>6 DEF PhysDefOperand
  <2>2. ASSUME opnum \in 1..SrcLen(ra), Begins(Src(ra), opnum), ItsTurn(pc, o0.early) PROVE FALSE
    <3>1. IsPhysical(o0) /\ o0.def /\ ~o0.early
      BY <1>4, <2>2 DEF Begins, SrcOp
    <3> QED
      BY <1>4, <1>6, <2>2, <3>1 DEF SameOperand, IsPhysical
  <2> QED
    BY <2>1, <2>2, SparesSelf, WaitSpared
<1> QED
  BY <1>5, <1>6

LEMMA WaitOwnScan == IInv /\ CodeInv /\ SourceInv /\ WaitInv /\ PhysicalDefs => WaitInv'
<1> SUFFICES ASSUME IInv, CodeInv, SourceInv, WaitInv, PhysicalDefs PROVE WaitInv'
  OBVIOUS
<1>1. /\ Scan("physical defs", "defs", PhysDefOperand(opnum)) /\ pc = OwnScan /\ pc \in Late /\ pc # "finish"
      /\ pc \in Scanning /\ pc # Opener /\ << "physical defs", "defs" >> \in Following
  BY Zenon DEF PhysicalDefs, Scan, Scanning, Following, Opener, OwnScan, Late
<1>2. version \in {8, 10}
  BY DEF CodeInv
<1>3. ASSUME opnum <= ra.opEnd
      PROVE  /\ NoneHinted(ra') /\ Calm(ra', pc, opnum + 1)
             /\ pc = Opener => ra'.errors \/ NoneInTheWay(ra')
  <2>1. ra' = PhysDefOperand(opnum)
    BY <1>1, <1>3, Zenon DEF Scan
  <2>2. Moves(ra, ra')
    BY CodeScans2
  <2>3. \A early \in BOOLEAN : ItsTurn(pc, early) => ~early
    BY <1>1, <1>2, OtherTurns
  <2> QED
    BY <1>1, <1>3, <2>1, <2>2, <2>3, WaitPhysicalDef
<1> QED
  BY <1>1, <1>3, WaitScan

LEMMA VirtDefSpares ==
    ASSUME Sound(ra), NEW k,
           LET o == Ops(ra)[k] IN IsVirtual(o) /\ o.def /\ ~o.early => Unbiased(ra, o.reg, ra.copySrc)
    PROVE  Spares(ra, VirtDefOperand(k))
<1> DEFINE o == Ops(ra)[k]
           t == DefinedOperand(ra, k, ra.copySrc)
           p == t.live[o.reg].phys
           u == [t EXCEPT !.copyDst = IF ~o.ends /\ @ \in {o.reg, p} THEN p ELSE NoReg]
<1> DEFINE taken == IsVirtual(o) /\ o.def /\ ~o.early
<1>1. VirtDefOperand(k) = ra \/ (taken /\ VirtDefOperand(k) = u)
  BY DEF VirtDefOperand
<1>2. ASSUME taken PROVE Spares(ra, u)
  <2>1. o.reg \in VReg /\ o.reg # NoReg /\ Unbiased(ra, o.reg, ra.copySrc)
    BY <1>2, RegisterFacts DEF IsVirtual
  <2>2. Sound(t) /\ Spares(ra, t)
    BY <2>1, DefinedSound, DefinedSpares
  <2> HIDE DEF t, o, p
  <2>3. Spares(t, u)
    BY <2>1, <2>2 DEF Sound, IsAllocator, Members, Spares, StillReserved
  <2> QED
    BY <2>2, <2>3, SparesOn
<1> HIDE DEF u, taken
<1> QED
  BY <1>1, <1>2, SparesSelf

LEMMA WaitDefs == IInv /\ CodeInv /\ SourceInv /\ WaitInv /\ Careful /\ Definitions => WaitInv'
<1> SUFFICES ASSUME IInv, CodeInv, SourceInv, WaitInv, Careful, Definitions PROVE WaitInv'
  OBVIOUS
<1> DEFINE o == Ops(ra)[opnum]
           o0 == SrcOp(ra, opnum)
<1>1. /\ Scan("defs", "finish", DefOperand(opnum)) /\ pc = "defs" /\ pc \in Late /\ pc # "finish"
      /\ pc \in Scanning /\ pc # Opener /\ << "defs", "finish" >> \in Following
  BY Zenon DEF Definitions, Scan, Scanning, Following, Opener, Late
<1>2. /\ Sound(ra) /\ Sourced(ra, pc, opnum) /\ SrcTyped(ra) /\ SrcLen(ra) \in Nat
      /\ opnum \in Nat \ {0} /\ ra.opEnd \in 0..Len(Ops(ra)) /\ Len(Ops(ra)) \in Nat /\ version \in {8, 10}
  BY <1>1, SourceFacts
<1>3. \A early \in BOOLEAN : ItsTurn(pc, early) => version = 8 /\ ~early
  BY <1>1, <1>2, OtherTurns
<1>4. Moves(ra, ra')
  BY CodeScans2
<1>5. ASSUME opnum <= ra.opEnd
      PROVE  /\ NoneHinted(ra') /\ Calm(ra', pc, opnum + 1)
             /\ pc = Opener => ra'.errors \/ NoneInTheWay(ra')
  <2>1. ra' = DefOperand(opnum)
    BY <1>1, <1>5, Zenon DEF Scan
  <2>2. CASE version = 8 /\ IsPhysical(o)
    <3>1. ra' = PhysDefOperand(opnum)
      BY <2>1, <2>2 DEF DefOperand
    <3> QED
      BY <1>1, <1>3, <1>4, <1>5, <3>1, WaitPhysicalDef
  <2>3. CASE ~(version = 8 /\ IsPhysical(o))
    <3>1. Spares(ra, ra')
      <4>1. ASSUME IsVirtual(o), o.def, ~o.early PROVE Unbiased(ra, o.reg, ra.copySrc)
        <5>1. RoomLeft /\ ra.live[o.reg].phys = NoReg => Room(ra, o.reg)
          BY <1>1, <1>5, <4>1, RoomFound, Zenon
        <5> QED
          BY <1>1, <5>1, Unhinted DEF WaitInv, Unbiased
      <4> QED
        BY <1>2, <2>1, <2>3, <4>1, VirtDefSpares DEF DefOperand
    <3>2. ASSUME opnum \in 1..SrcLen(ra), Begins(Src(ra), opnum), ItsTurn(pc, o0.early) PROVE FALSE
      <4>1. IsPhysical(o0) /\ o0.early \in BOOLEAN
        BY <1>2, <3>2 DEF Begins, SrcOp, SrcTyped, Operands
      <4>2. opnum \in 1..Len(Ops(ra)) /\ opnum <= SrcLen(ra)
        BY <1>2, <1>5, <3>2
      <4>3. StillSource(o0, o, opnum, pc, opnum)
        BY <1>2, <4>2 DEF Sourced
      <4>4. IsPhysical(o)
        BY <4>1, <4>3 DEF StillSource, IsPhysical
      <4> QED
        BY <1>3, <2>3, <3>2, <4>1, <4>4
    <3> QED
      BY <1>1, <1>4, <3>1, <3>2, WaitSpared
  <2> QED
    BY <2>2, <2>3
<1> QED
  BY <1>1, <1>5, WaitScan

\* Whatever usePhysReg finds it reports no error and forgets no copy.
LEMMA UseReports ==
    ASSUME NEW s, DOMAIN s = Members, NEW k
    PROVE  LET t == usePhysReg(s, k)
           IN  t.errors = s.errors /\ t.copyDst = s.copyDst /\ t.copySrc = s.copySrc
<1> DEFINE p == Ops(s)[k].reg
           m == markRegUsedInInstr(s, p)
           Quiet(t) == t.errors = s.errors /\ t.copyDst = s.copyDst /\ t.copySrc = s.copySrc
<1>1. DOMAIN m = Members /\ Quiet(m)
  BY CodeCarries, CodeChanges DEF Carried, SameMaps
<1> HIDE DEF m
<1>2. ASSUME NEW P, NEW q PROVE DOMAIN Cleared(m, P, q, "free") = Members /\ Quiet(Cleared(m, P, q, "free"))
  BY <1>1 DEF Cleared, Members
<1>3. ASSUME NEW u, DOMAIN u = Members, Quiet(u), NEW x, NEW flag
      PROVE  Quiet(SetEnds(u, x, flag)) /\ Quiet(AddKilled(u, x))
  <2>1. Carried(u, SetEnds(u, x, flag)) /\ Carried(u, AddKilled(u, x))
    BY <1>3, CodeCarries
  <2> QED
    BY <1>3, <2>1 DEF Carried
<1>4. Quiet([m EXCEPT !.stuck = TRUE])
  BY <1>1 DEF Members
<1> DEFINE q0 == CHOOSE q \in { q \in Passed(s, p) : IsSuper(p, q) } : TRUE
           t1 == SetEnds(Cleared(m, {}, p, "free"), k, TRUE)
           t2 == AddKilled(Cleared(m, Passed(s, p), q0, "free"), q0)
           t3 == SetEnds(Cleared(m, Passed(s, p), p, "free"), k, TRUE)
<1>5. usePhysReg(s, k) \in {s, t1, [m EXCEPT !.stuck = TRUE], t2, t3}
  BY DEF usePhysReg, m
<1> HIDE DEF q0
<1>6. Quiet(t1) /\ Quiet(t2) /\ Quiet(t3)
  <2> HIDE DEF p, Quiet
  <2> QED BY <1>2, <1>3
<1> HIDE DEF t1, t2, t3
<1> QED
  BY <1>4, <1>5, <1>6

LEMMA WaitFirst == IInv /\ CodeInv /\ SourceInv /\ WaitInv /\ FirstScan => WaitInv'
<1> SUFFICES ASSUME IInv, CodeInv, SourceInv, WaitInv, FirstScan PROVE WaitInv'
  OBVIOUS
<1> DEFINE o == Ops(ra)[opnum]
           o0 == SrcOp(ra, opnum)
           p == o0.reg
           Goal == /\ NoneHinted(ra') /\ Calm(ra', pc, opnum + 1)
                   /\ pc = Opener => ra'.errors \/ NoneInTheWay(ra')
<1>1. /\ Scan("first scan", "through?", FirstScanOperand(opnum)) /\ pc = Opener
      /\ pc \in Scanning /\ pc \in Opening /\ pc \notin Late /\ << "first scan", "through?" >> \in Following
  BY Zenon DEF FirstScan, Scan, Scanning, Following, Opener, Opening, Late
<1>2. /\ Sound(ra) /\ DOMAIN ra = Members /\ Sourced(ra, pc, opnum) /\ SrcTyped(ra) /\ SrcLen(ra) \in Nat
      /\ Src(ra).op # "dbg" /\ opnum \in Nat \ {0} /\ ra.opEnd \in 0..Len(Ops(ra)) /\ Len(Ops(ra)) \in Nat
  BY <1>1, SourceFacts
<1>3. Moves(ra, ra')
  BY CodeScans1
<1>4. NoneHinted(ra) /\ Calm(ra, pc, opnum) /\ (ra.errors \/ NoneInTheWay(ra))
  BY <1>1 DEF WaitInv
<1>5. \A early \in BOOLEAN : ~PastIt(pc, early) /\ (ItsTurn(pc, early) <=> early)
  BY <1>1, FirstTurn
<1>6. ra'.mbb = ra.mbb /\ ra'.mi = ra.mi
  BY <1>3 DEF Moves
<1>7. SrcLen(ra') = SrcLen(ra) /\ \A k : SrcOp(ra', k) = SrcOp(ra, k)
  BY <1>6, SamePlace
\* Physical operands that disturb what overlaps them.
<1>8. ASSUME opnum \in 1..SrcLen(ra), p \in PReg, Carried(ra, ra'),
             StillReserved(ra, ra', { q \in PReg : Overlap(p, q) }),
             \A q \in PReg : ra'.regState[q] \in VReg => ra.regState[q] \in VReg,
             \/ o0.def /\ (Begins(Src(ra), opnum) => ra'.regState[p] = "reserved")
             \/ ~o0.def /\ ~o0.undef
      PROVE  Goal
  <2>1. NoneHinted(ra')
    BY <1>4, <1>8 DEF NoneHinted, Carried
  <2>2. ASSUME NEW k \in 1..SrcLen(ra), Handed(ra, pc, opnum, k) PROVE SrcOp(ra, k).early
    <3>1. SrcOp(ra, k).early \in BOOLEAN
      BY <1>2 DEF SrcTyped, Operands
    <3> QED
      BY <1>5, <2>2, <3>1 DEF Handed
  <2>3. Calm(ra', pc, opnum + 1)
    BY <1>1, <1>2, <1>4, <1>6, <1>8, <2>2, CalmPhysical
  <2>4. ra'.errors \/ NoneInTheWay(ra')
    BY <1>4, <1>7, <1>8 DEF NoneInTheWay, Carried
  <2> QED
    BY <2>1, <2>3, <2>4
\* Operands that disturb nothing.
<1>9. ASSUME ra' = ra, opnum \in 1..SrcLen(ra) => ~(Begins(Src(ra), opnum) /\ ItsTurn(pc, o0.early))
      PROVE  Goal
  <2>1. Calm(ra', pc, opnum + 1)
    <3>1. Spares(ra, ra')
      BY <1>9, SparesSelf
    <3> QED
      BY <1>1, <1>2, <1>4, <1>6, <1>9, <3>1, CalmOperand
  <2> QED
    BY <1>4, <1>9, <2>1
<1>10. ASSUME opnum <= ra.opEnd PROVE Goal
  <2>1. ra' = FirstScanOperand(opnum)
    BY <1>1, <1>10, Zenon DEF Scan
  <2>2. ra.opEnd = SrcLen(ra)
    BY <1>1, <1>2 DEF Sourced
  <2>3. opnum \in 1..SrcLen(ra) /\ opnum \in 1..Len(Ops(ra)) /\ opnum <= SrcLen(ra)
    BY <1>2, <1>10, <2>2
  <2>4. StillSource(o0, o, opnum, pc, opnum)
    BY <1>2, <2>3 DEF Sourced
  <2>5. /\ o.reg = p /\ o.def = o0.def /\ o.early = o0.early /\ o.undef = o0.undef /\ o.implicit = o0.implicit
        /\ IsPhysical(o0) /\ o0.def => o.ends = o0.ends
    BY <1>1, <2>4 DEF StillSource, SameOperand
  <2>6. o0.def \in BOOLEAN /\ o0.early \in BOOLEAN /\ o0.undef \in BOOLEAN
    BY <1>2, <2>3 DEF SrcTyped, Operands
  <2> HIDE DEF Goal
  <2>7. CASE ~IsPhysical(o)
    <3>1. ra' = ra
      BY <2>1, <2>7 DEF FirstScanOperand
    <3>2. ~Begins(Src(ra), opnum)
      BY <2>5, <2>7 DEF Begins, SrcOp, IsPhysical
    <3> QED
      BY <1>9, <3>1, <3>2
  <2>8. CASE IsPhysical(o) /\ ~o.def
    <3>1. ra' = usePhysReg(ra, opnum)
      BY <2>1, <2>8 DEF FirstScanOperand
    <3>2. p \in PReg /\ ~o0.def
      BY <2>5, <2>8 DEF IsPhysical
    <3>3. CASE o.undef
      <4>1. ra' = ra
        BY <3>1, <3>3 DEF usePhysReg
      <4>2. ~Begins(Src(ra), opnum)
        BY <3>2 DEF Begins, SrcOp
      <4> QED
        BY <1>9, <4>1, <4>2
    <3>4. CASE ~o.undef /\ ra.errors
      <4>1. ra'.errors /\ ra'.copyDst = ra.copyDst /\ ra'.copySrc = ra.copySrc
        BY <1>2, <3>1, <3>4, UseReports
      <4>2. Calm(ra', pc, opnum + 1) /\ NoneHinted(ra')
        BY <1>4, <4>1 DEF Calm, NoneHinted
      <4> QED
        BY <4>1, <4>2 DEF Goal
    <3>5. CASE ~o.undef /\ ~ra.errors
      <4>1. NoneInTheWay(ra) /\ IsPhysical(o0) /\ ~o0.undef
        BY <1>4, <2>5, <3>2, <3>5 DEF IsPhysical
      <4>2. \A q \in PReg : Overlap(p, q) => ra.regState[q] \notin VReg
        BY <2>3, <3>2, <4>1 DEF NoneInTheWay
      <4>3. /\ Carried(ra, ra') /\ StillReserved(ra, ra', { q \in PReg : Overlap(p, q) })
            /\ \A q \in PReg : ra'.regState[q] \in VReg => ra.regState[q] \in VReg
        <5>1. Ops(ra)[opnum].reg = p /\ ~Ops(ra)[opnum].undef
          BY <2>5, <3>5
        <5>2. Ops(ra)[opnum].reg \in PReg /\ \A q \in PReg : Overlap(Ops(ra)[opnum].reg, q) => ra.regState[q] \notin VReg
          BY <3>2, <4>2, <5>1
        <5> DEFINE t == usePhysReg(ra, opnum)
        <5>3. /\ Carried(ra, t) /\ StillReserved(ra, t, { q \in PReg : Overlap(Ops(ra)[opnum].reg, q) })
              /\ \A q \in PReg : t.regState[q] \in VReg => ra.regState[q] \in VReg
          BY <1>2, <5>1, <5>2, UseSpares
        <5> HIDE DEF p, t
        <5> QED
          BY <3>1, <5>1, <5>3 DEF t
      <4> QED
        BY <1>8, <2>3, <3>2, <4>1, <4>3
    <3> QED
      BY <3>3, <3>4, <3>5
  <2>9. CASE IsPhysical(o) /\ o.def /\ o.early
    <3> DEFINE new == IF o.implicit \/ o.ends THEN "free" ELSE "reserved"
    <3>1. ra' = definePhysReg(ra, p, new) /\ new \in {"free", "reserved"}
      BY <2>1, <2>5, <2>9 DEF FirstScanOperand
    <3>2. p \in PReg /\ IsPhysical(o0) /\ o0.def /\ o0.early
      BY <2>5, <2>9 DEF IsPhysical
    <3>3. Begins(Src(ra), opnum) => new = "reserved"
      BY <2>5, <3>2 DEF Begins, SrcOp
    <3>4. /\ ra'.regState[p] = new /\ Carried(ra, ra') /\ StillReserved(ra, ra', Disturbed(ra, p))
          /\ \A q \in PReg : ra'.regState[q] \in VReg => ra.regState[q] \in VReg
      <4> HIDE DEF new, p
      <4> QED BY <1>2, <3>1, <3>2, DefinePhysReg, DefineSpares
    <3>5. StillReserved(ra, ra', { q \in PReg : Overlap(p, q) })
      BY <3>2, <3>4, OverlapsItself DEF StillReserved, Disturbed
    <3> HIDE DEF new
    <3> QED
      BY <1>8, <2>3, <3>2, <3>3, <3>4, <3>5
  <2>10. CASE IsPhysical(o) /\ o.def /\ ~o.early
    <3>1. ra' = ra
      BY <2>1, <2>10 DEF FirstScanOperand
    <3>2. ~ItsTurn(pc, o0.early)
      BY <1>5, <2>5, <2>6, <2>10
    <3> QED
      BY <1>9, <3>1, <3>2
  <2> QED
    BY <2>7, <2>8, <2>9, <2>10
<1> QED
  BY <1>1, <1>10, WaitScan

LEMMA WaitBetween ==
    ASSUME IInv, CodeInv, SourceInv, WaitInv, pc \in Scanning, pc' \in Scanning, pc' # Opener, pc' # "live-ins",
           input' = input, version' = version, opnum' = 1,
           ra'.mbb = ra.mbb, ra'.mi = ra.mi, Spares(ra, ra'),
           \A early \in BOOLEAN : PastIt(pc', early) => PastIt(pc, early)
    PROVE  WaitInv'
<1>1. SrcTyped(ra) /\ SrcLen(ra) \in Nat /\ Calm(ra, pc, opnum) /\ NoneHinted(ra)
  BY SourceFacts DEF WaitInv
<1>2. Calm(ra', pc', 1)
  BY <1>1, CalmBetween
<1>3. NoneHinted(ra')
  BY <1>1 DEF NoneHinted, Spares
<1> QED
  BY <1>2, <1>3, WaitInvNext

LEMMA WaitThrough == IInv /\ CodeInv /\ SourceInv /\ WaitInv /\ HandleCollisions => WaitInv'
<1> SUFFICES ASSUME IInv, CodeInv, SourceInv, WaitInv, HandleCollisions PROVE WaitInv'
  OBVIOUS
<1> DEFINE defs == { o.reg : o \in { o \in Elements(Ops(ra)) : IsPhysical(o) /\ o.def } }
           hit == { q \in PReg : /\ ra.regState[q] \in Through(MI(ra))
                                 /\ \E p \in defs : Overlap(p, q) }
           a == spillVirtReg(ra, Allocated(ra, hit))
           s == [a EXCEPT !.used = @ \cup UNION { Units(p) : p \in defs \cup hit },
                          !.copyDst = NoReg, !.earlyClobbers = TRUE]
<1>1. pc = "through?" /\ pc \in Scanning
  BY Zenon DEF HandleCollisions, Between, Scanning
<1>2. pc' \in Scanning /\ pc' # Opener /\ pc' # "live-ins"
  BY Zenon DEF HandleCollisions, Between, Scanning, Opener
<1>3. input' = input /\ version' = version /\ opnum' = 1 /\ ra' \in {s, ra}
  BY DEF HandleCollisions, Between
<1>4. Sound(ra)
  BY <1>1, InScan
<1>5. Spares(ra, s)
  <2> HIDE DEF defs, hit
  <2>1. Allocated(ra, hit) \subseteq VReg
    BY DEF Allocated
  <2>2. Spares(ra, a) /\ DOMAIN a = Members
    BY <1>4, <2>1, SpillSpares, SpillVirtReg DEF Released
  <2> HIDE DEF a
  <2> QED
    BY <2>2 DEF Spares, StillReserved, Members
<1> HIDE DEF s
<1>6. Spares(ra, ra')
  BY <1>3, <1>5, SparesSelf
<1>7. ra'.mbb = ra.mbb /\ ra'.mi = ra.mi
  BY CodeThrough DEF Moves
<1>8. \A early \in BOOLEAN : PastIt(pc', early) => PastIt(pc, early)
  <2>1. version \in {8, 10}
    BY DEF CodeInv
  <2>2. pc' \in {"tied uses", "uses", "before defs"}
    BY Zenon DEF HandleCollisions, Between
  <2> QED
    BY <1>1, <2>1, <2>2, TurnsKept, Zenon
<1> QED
  BY <1>1, <1>2, <1>3, <1>6, <1>7, <1>8, WaitBetween

LEMMA WaitRestore == IInv /\ CodeInv /\ SourceInv /\ WaitInv /\ (RestoreUsed \/ UndefUses) => WaitInv'
<1> SUFFICES ASSUME IInv, CodeInv, SourceInv, WaitInv, RestoreUsed \/ UndefUses PROVE WaitInv'
  OBVIOUS
<1> DEFINE ops == MapSeq([k \in 1..Len(Ops(ra)) |-> allocVirtRegUndef(ra, Ops(ra)[k])])
<1>1. pc \in {"restore", "undef uses"} /\ pc \in Scanning
  BY Zenon DEF RestoreUsed, UndefUses, Between, Scanning
<1>2. pc' \in Scanning /\ pc' # Opener /\ pc' # "live-ins" /\ pc' \in {"tied uses", "uses", "before defs"}
  BY Zenon DEF RestoreUsed, UndefUses, Between, Scanning, Opener
<1>3. /\ input' = input /\ version' = version /\ opnum' = 1
      /\ ra' = SetOps(ra, ops) \/ \E used : ra' = [ra EXCEPT !.used = used]
  BY DEF RestoreUsed, UndefUses, Between
<1> HIDE DEF ops
<1>4. DOMAIN ra = Members
  BY <1>1, InScan
<1>5. Spares(ra, ra')
  <2>1. SameMaps(ra, ra') /\ Carried(ra, ra')
    BY <1>3, <1>4, CodeChanges, CodeCarries DEF SameMaps, Carried, Members
  <2> QED
    BY <2>1, CodeSpares
<1>6. ra'.mbb = ra.mbb /\ ra'.mi = ra.mi
  BY CodeRestore, CodeUndef DEF Moves
<1>7. \A early \in BOOLEAN : PastIt(pc', early) => PastIt(pc, early)
  <2>1. version \in {8, 10}
    BY DEF CodeInv
  <2> QED
    BY <1>1, <1>2, <2>1, TurnsKept, Zenon
<1> QED
  BY <1>1, <1>2, <1>3, <1>5, <1>6, <1>7, WaitBetween

LEMMA WaitBeforeDefs == IInv /\ CodeInv /\ SourceInv /\ WaitInv /\ BeforeDefs => WaitInv'
<1> SUFFICES ASSUME IInv, CodeInv, SourceInv, WaitInv, BeforeDefs PROVE WaitInv'
  OBVIOUS
<1> DEFINE kept == { o.reg : o \in { o \in Elements(Ops(ra)) : IsPhysical(o) /\ (o.def \/ o.tied # 0) } }
           s == [ra EXCEPT !.opEnd = Len(Ops(ra)),
                           !.used = IF ra.earlyClobbers THEN UNION { Units(p) : p \in kept } ELSE {}]
<1>1. /\ pc = "before defs" /\ pc' = IF version = 8 THEN "defs" ELSE "physical defs"
      /\ pc \in Scanning /\ pc' \in Scanning /\ pc' # Opener /\ pc' # "live-ins"
  BY Zenon DEF BeforeDefs, Between, Scanning, Opener
<1>2. input' = input /\ version' = version /\ opnum' = 1 /\ ra' \in {s, spillAll(s, FALSE)}
  BY DEF BeforeDefs, Between
<1> HIDE DEF kept
<1>3. Sound(ra)
  BY <1>1, InScan
<1>4. Sound(s) /\ Spares(ra, s)
  <2>1. SameMaps(ra, s) /\ Carried(ra, s)
    BY <1>3 DEF SameMaps, Carried, Members, Sound, IsAllocator
  <2> HIDE DEF s
  <2> QED
    BY <1>3, <2>1, SameMapsSound, CodeSpares
<1> HIDE DEF s
<1>5. Spares(s, spillAll(s, FALSE))
  <2>1. FALSE \in BOOLEAN
    OBVIOUS
  <2> QED
    BY <1>4, <2>1, SpillAllSpares
<1>6. Spares(ra, ra')
  <2>1. Spares(ra, spillAll(s, FALSE))
    BY <1>4, <1>5, SparesOn
  <2> QED
    BY <1>2, <1>4, <2>1
<1>7. ra'.mbb = ra.mbb /\ ra'.mi = ra.mi
  <2>1. \E x : x.mi = ra.mi /\ x.mbb = ra.mbb /\ Moves(x, ra')
    BY CodeBeforeDefs
  <2> QED
    BY <2>1 DEF Moves
<1>8. \A early \in BOOLEAN : PastIt(pc', early) => PastIt(pc, early)
  <2>1. version \in {8, 10}
    BY DEF CodeInv
  <2> QED
    BY <1>1, <2>1, TurnsKept, Zenon
<1> QED
  BY <1>1, <1>2, <1>6, <1>7, <1>8, WaitBetween

\* The next instruction finds waiting what this one left waiting, or began.
LEMMA WaitsNext ==
    ASSUME NEW s, NEW t, t.mbb = s.mbb, t.mi = s.mi + 1, s.mi \in Nat \ {0}, NEW w, WaitsAt(t, w)
    PROVE  \/ WaitsAt(s, w) /\ ~Touches(Src(s), w)
           \/ \E k \in 1..SrcLen(s) : Begins(Src(s), k) /\ SrcOp(s, k).reg = w
<1> DEFINE liveins == LiveIns(s)
           code == input.blocks[s.mbb]
           j == s.mi
<1>1. Waiting(liveins, code, j + 1, w) /\ j \in Nat \ {0}
  BY DEF WaitsAt, LiveIns
<1>2. WaitsAt(s, w) <=> Waiting(liveins, code, j, w)
  BY DEF WaitsAt
<1>3. Src(s) = code[j] /\ SrcLen(s) = Len(code[j].ops) /\ \A k : SrcOp(s, k) = code[j].ops[k]
  BY DEF Src, SrcLen, SrcOp
<1> HIDE DEF liveins, code, j
<1>4. \/ Waiting(liveins, code, j, w) /\ ~Touches(code[j], w)
      \/ \E k \in 1..Len(code[j].ops) : Begins(code[j], k) /\ code[j].ops[k].reg = w
  BY <1>1, WaitingOn
<1> QED
  BY <1>2, <1>3, <1>4

LEMMA AtInstruction ==
    ASSUME NEW s
    PROVE  \A n, w : MustWait(s, "instruction", n, w) <=> WaitsAt(s, w)
<1>1. "instruction" \notin Scanning /\ "instruction" # "live-ins"
  BY Zenon DEF Scanning
<1> QED
  BY <1>1, Zenon DEF MustWait

LEMMA WaitFinish == IInv /\ CodeInv /\ SourceInv /\ WaitInv /\ FinishInstruction => WaitInv'
<1> SUFFICES ASSUME IInv, CodeInv, SourceInv, WaitInv, FinishInstruction PROVE WaitInv'
  OBVIOUS
<1> DEFINE V == { v \in VReg : v \in ra.virtDead /\ ra.live[v].phys # NoReg }
           a == killVirtReg(ra, V)
<1> HIDE DEF V
<1>1. /\ pc = "finish" /\ pc' = "instruction" /\ input' = input /\ version' = version /\ opnum' = 1
      /\ \E c : ra' = [a EXCEPT !.virtDead = {}, !.mi = @ + 1, !.coalesced = c]
  BY DEF FinishInstruction, Between, V
<1>2. pc \in Scanning /\ pc' \notin Scanning /\ pc' # Opener /\ pc' # "live-ins"
  BY <1>1, Zenon DEF Scanning, Opener
<1>3. Sound(ra) /\ ra.mi \in Nat \ {0} /\ Calm(ra, pc, opnum)
  BY <1>2, InScan DEF Here, WaitInv
<1>4. Spares(ra, a) /\ DOMAIN a = Members
  <2>1. V \subseteq VReg
    BY DEF V
  <2> QED
    BY <1>3, <2>1, SpillSpares, KillVirtReg DEF Released
<1>5. a.mbb = ra.mbb /\ a.mi = ra.mi
  <2>1. \E r, l : a = [addKillFlag(ra, V) EXCEPT !.regState = r, !.live = l]
    BY DEF killVirtReg
  <2>2. DOMAIN addKillFlag(ra, V) = Members /\ addKillFlag(ra, V).mbb = ra.mbb /\ addKillFlag(ra, V).mi = ra.mi
    BY <1>3 DEF addKillFlag, Sound, IsAllocator, Members
  <2> QED
    BY <2>1, <2>2 DEF Members
<1> HIDE DEF a
<1>6. Spares(ra, ra') /\ ra'.mbb = ra.mbb /\ ra'.mi = ra.mi + 1
  BY <1>1, <1>4, <1>5 DEF Spares, StillReserved, Members
<1>7. ASSUME NEW w, MustWait(ra', pc', 1, w) PROVE MustWait(ra, pc, opnum, w)
  <2>1. \/ WaitsAt(ra, w) /\ ~Touches(Src(ra), w)
        \/ \E k \in 1..SrcLen(ra) : Begins(Src(ra), k) /\ SrcOp(ra, k).reg = w
    <3>1. WaitsAt(ra', w)
      BY <1>1, <1>7, AtInstruction
    <3> QED
      BY <1>3, <1>6, <3>1, WaitsNext
  <2>2. \A k : Handed(ra, pc, opnum, k)
    <3>1. \A early : PastIt(pc, early)
      BY <1>1, Zenon DEF PastIt, LaterScans, Scanning, Opener
    <3> QED
      BY <3>1 DEF Handed
  <2> QED
    BY <1>2, <2>1, <2>2, InScanning DEF BegunBy
<1>8. Calm(ra', pc', 1)
  BY <1>3, <1>6, <1>7, CalmSpared
<1> QED
  BY <1>1, <1>2, <1>8, WaitInvNext

\* The instruction at mi, before it is allocated, and what came in there.
LEMMA FreshSource ==
    ASSUME CodeInv, pc = "instruction", ra.mi <= Len(input.blocks[ra.mbb])
    PROVE  /\ BlocksInv(ra) /\ BlockInv(ra) /\ ra.mi \in Nat \ {0} /\ Untouched(Src(ra), MI(ra))
           /\ ra.mbb \in 1..Len(input.blocks) /\ ra.mi \in 1..Len(input.blocks[ra.mbb])
           /\ SrcTyped(ra) /\ SrcLen(ra) \in Nat /\ Position(Block(ra), ra.mi) \in 1..Len(Block(ra))
           /\ ra.mbb \in 1..Len(ra.fn)
<1>1. BlocksInv(ra) /\ BlockInv(ra) /\ Fresh(ra)
  BY DEF CodeInv
<1>2. Coded(ra) /\ Here(ra) /\ Block(ra) \in Code
  BY <1>1, InBlock
<1>3. Once(Block(ra), ra.mi) /\ ra.mi \in Nat \ {0} /\ ra.mbb \in 1..Len(ra.fn)
  BY <1>2 DEF Here, Coded
<1>4. Position(Block(ra), ra.mi) \in 1..Len(Block(ra)) /\ MI(ra).id = ra.mi
  BY <1>2, <1>3, OnceAt DEF MI
<1>5. Untouched(Src(ra), MI(ra))
  BY <1>1, <1>4 DEF Fresh, MI, Src
<1> QED
  BY <1>1, <1>3, <1>4, <1>5, SrcFacts

LEMMA WaitDebug == IInv /\ CodeInv /\ WaitInv /\ handleDebugValue => WaitInv'
<1> SUFFICES ASSUME IInv, CodeInv, WaitInv, handleDebugValue PROVE WaitInv'
  OBVIOUS
<1> DEFINE o == MI(ra).ops[1]
           v == o.reg
           p == ra.live[v].phys
           a == setPhysReg(ra, 1, p)
           b == SetOp(ra, 1, [o EXCEPT !.reg = NoReg])
           i == Instr(ra.mi, "dbg", << Use(NoReg) >>, v)
           c == [ra EXCEPT !.fn[ra.mbb][Position(Block(ra), ra.mi)] = i]
           s == IF ~IsVirtual(o) THEN ra
                ELSE IF p # NoReg THEN [a EXCEPT !.dbg = @ \cup {v}]
                ELSE IF v \in ra.slots THEN c
                ELSE [b EXCEPT !.dbg = @ \cup {v}]
<1>1. /\ pc = "instruction" /\ pc' = "instruction" /\ input' = input /\ version' = version /\ opnum' = 1
      /\ ra.mi <= Len(input.blocks[ra.mbb]) /\ MI(ra).op = "dbg" /\ ra' = [s EXCEPT !.mi = @ + 1]
  BY DEF handleDebugValue, Between
<1>2. pc' \notin Scanning /\ pc' # Opener /\ pc' # "live-ins"
  BY <1>1, Zenon DEF Scanning, Opener
<1>3. Sound(ra) /\ DOMAIN ra = Members
  BY <1>1 DEF IInv, Sound, IsAllocator
<1>4. ra.mi \in Nat \ {0} /\ Untouched(Src(ra), MI(ra)) /\ Calm(ra, pc, opnum)
  BY <1>1, FreshSource DEF WaitInv
<1>5. Spares(ra, s) /\ DOMAIN s = Members /\ s.mbb = ra.mbb /\ s.mi = ra.mi
  <2> DEFINE Kept(t) == SameMaps(ra, t) /\ Carried(ra, t) /\ t.mbb = ra.mbb /\ t.mi = ra.mi
  <2>1. SameMaps(ra, a) /\ Carried(ra, a) /\ SameMaps(ra, b) /\ Carried(ra, b)
    BY <1>3, SetPhysReg, SetPhysRegCarries, CodeChanges, CodeCarries
  <2>2. \A t, k, x : DOMAIN t = Members => SetOp(t, k, x).mbb = t.mbb /\ SetOp(t, k, x).mi = t.mi
                                          /\ DOMAIN SetOp(t, k, x) = Members
    BY DEF SetOp, SetOps, Members
  <2>3. \A t, x : DOMAIN t = Members => AddImplicit(t, x).mbb = t.mbb /\ AddImplicit(t, x).mi = t.mi
    BY DEF AddImplicit, SetOps, Members
  <2>4. a.mbb = ra.mbb /\ a.mi = ra.mi
    <3> HIDE DEF p
    <3> QED BY <1>3, <2>2, <2>3 DEF setPhysReg, AddKilled
  <2>5. Kept(a) /\ Kept(b)
    BY <1>3, <2>1, <2>2, <2>4
  <2> HIDE DEF a, b, i, v, p
  <2>6. Kept(ra) /\ Kept(c)
    BY <1>3 DEF SameMaps, Carried, Members
  <2>7. \A t : Kept(t) => Kept([t EXCEPT !.dbg = @ \cup {v}])
    BY <1>3 DEF SameMaps, Carried, Members
  <2> HIDE DEF Kept, c
  <2>8. Kept(s)
    BY <2>5, <2>6, <2>7
  <2> HIDE DEF s
  <2> QED
    BY <1>3, <2>8, CodeSpares DEF Kept, SameMaps
<1> HIDE DEF s
<1>6. Spares(ra, ra') /\ ra'.mbb = ra.mbb /\ ra'.mi = ra.mi + 1
  BY <1>1, <1>5 DEF Spares, StillReserved, Members
<1>7. Src(ra).op = "dbg"
  BY <1>1, <1>4 DEF Untouched
<1>8. ASSUME NEW w, MustWait(ra', pc', 1, w) PROVE MustWait(ra, pc, opnum, w)
  <2>1. \/ WaitsAt(ra, w) /\ ~Touches(Src(ra), w)
        \/ \E k \in 1..SrcLen(ra) : Begins(Src(ra), k) /\ SrcOp(ra, k).reg = w
    <3>1. WaitsAt(ra', w)
      BY <1>1, <1>8, AtInstruction
    <3> QED
      BY <1>4, <1>6, <3>1, WaitsNext
  <2>2. WaitsAt(ra, w)
    BY <1>7, <2>1 DEF Begins
  <2> QED
    BY <1>1, <2>2, AtInstruction
<1>9. Calm(ra', pc', 1)
  BY <1>4, <1>6, <1>8, CalmSpared
<1> QED
  BY <1>1, <1>2, <1>9, WaitInvNext

\* What an instruction reads by name waits, so that no virtual register is there.
LEMMA ReadsWait ==
    ASSUME IInv, CodeInv, WaitInv, PhysicalsWait(input), pc = "instruction",
           ra.mi <= Len(input.blocks[ra.mbb]), Src(ra).op # "dbg"
    PROVE  ra.errors \/ NoneInTheWay(ra)
<1> SUFFICES ASSUME ~ra.errors, NEW k \in 1..SrcLen(ra), IsPhysical(SrcOp(ra, k)), ~SrcOp(ra, k).def,
                    ~SrcOp(ra, k).undef, NEW q \in PReg, Overlap(SrcOp(ra, k).reg, q)
             PROVE  ra.regState[q] \notin VReg
  BY DEF NoneInTheWay
<1>1. OneOwner(ra) /\ ra.mbb \in 1..Len(input.blocks) /\ ra.mi \in 1..Len(input.blocks[ra.mbb])
  BY FreshSource DEF IInv
<1>2. SrcOp(ra, k) \in Elements(Src(ra).ops)
  BY DEF SrcOp, SrcLen, Elements
<1>3. PICK u \in Units(SrcOp(ra, k).reg) : u \in Units(q)
  BY DEF Overlap
<1>4. PICK w \in PReg : u \in Units(w) /\ WaitsAt(ra, w)
  <2> DEFINE W(x, y) == Waiting(input.liveins[ra.mbb], input.blocks[ra.mbb], x, y)
  <2>1. \A o \in Elements(Src(ra).ops) : IsPhysical(o) /\ ~o.def /\ ~o.undef =>
            \A x \in Units(o.reg) : \E y \in PReg : x \in Units(y) /\ W(ra.mi, y)
    BY <1>1 DEF PhysicalsWait, Src
  <2> HIDE DEF W
  <2>2. \E y \in PReg : u \in Units(y) /\ W(ra.mi, y)
    BY <1>2, <1>3, <2>1
  <2> QED
    BY <2>2 DEF WaitsAt, LiveIns, W
<1>5. ra.regState[w] = "reserved"
  <2>1. MustWait(ra, pc, opnum, w)
    BY <1>4, AtInstruction
  <2> QED
    BY <2>1 DEF WaitInv, Calm
<1>6. Overlap(w, q)
  BY <1>3, <1>4 DEF Overlap
<1>7. "reserved" \notin VReg /\ "disabled" \notin VReg
  BY RegisterFacts
<1>8. w # q => ra.regState[q] = "disabled"
  BY <1>1, <1>5, <1>6 DEF OneOwner
<1> QED
  BY <1>5, <1>7, <1>8

LEMMA WaitBegin ==
    IInv /\ CodeInv /\ WaitInv /\ PhysicalsWait(input) /\ allocateInstruction => WaitInv'
<1> SUFFICES ASSUME IInv, CodeInv, WaitInv, PhysicalsWait(input), allocateInstruction PROVE WaitInv'
  OBVIOUS
<1> DEFINE i == MI(ra)
           dst == IF i.op = "copy" THEN i.ops[1].reg ELSE NoReg
           src == IF i.op = "copy" THEN i.ops[2].reg ELSE NoReg
<1>1. pc = "instruction" /\ pc' = Opener /\ pc' \in Scanning /\ pc' # "live-ins" /\ pc' # "instruction"
  BY Zenon DEF allocateInstruction, Between, Opener, Scanning
<1>2. /\ input' = input /\ version' = version /\ opnum' = 1
      /\ ra.mi <= Len(input.blocks[ra.mbb]) /\ i.op # "dbg"
      /\ \E n, same : ra' = [ra EXCEPT !.used = {}, !.earlyClobbers = FALSE, !.partialDefs = {}, !.opEnd = n,
                                       !.copyDst = dst, !.copySrc = src, !.sameSub = same]
  BY DEF allocateInstruction, Between
<1> HIDE DEF i, dst, src
<1>3. /\ BlocksInv(ra) /\ Untouched(Src(ra), i) /\ SrcTyped(ra) /\ SrcLen(ra) \in Nat
      /\ Position(Block(ra), ra.mi) \in 1..Len(Block(ra)) /\ ra.mbb \in 1..Len(ra.fn)
      /\ Calm(ra, pc, opnum)
  BY <1>1, <1>2, FreshSource DEF WaitInv, i
<1>4. /\ ra'.mbb = ra.mbb /\ ra'.mi = ra.mi /\ ra'.regState = ra.regState
      /\ ra'.errors = ra.errors /\ ra'.stuck = ra.stuck /\ ra'.copyDst = dst /\ ra'.copySrc = src
  BY <1>2, <1>3 DEF BlocksInv, Members
<1>5. NoneHinted(ra')
  <2>1. NoHints => version = 8 \/ NoCopies(ra.fn)
    BY <1>3 DEF NoHints, NoCopies, NoCopy, Elements, BlocksInv
  <2>2. NoCopies(ra.fn) => i.op # "copy"
    BY <1>3 DEF NoCopies, NoCopy, Block, i, MI
  <2>3. NoHints => version = 8 \/ (dst = NoReg /\ src = NoReg)
    BY <2>1, <2>2 DEF dst, src
  <2> QED
    BY <1>4, <2>3 DEF NoneHinted
<1>6. Src(ra).op # "dbg"
  BY <1>2, <1>3 DEF Untouched
<1>7. ra'.errors \/ NoneInTheWay(ra')
  <2>1. ra.errors \/ NoneInTheWay(ra)
    BY <1>1, <1>2, <1>6, ReadsWait
  <2>2. SrcLen(ra') = SrcLen(ra) /\ \A k : SrcOp(ra', k) = SrcOp(ra, k)
    BY <1>4, SamePlace
  <2> QED
    BY <1>4, <2>1, <2>2 DEF NoneInTheWay
\* Nothing is handed yet.
<1>8. ASSUME NEW w, BegunBy(ra, Opener, 1, w) PROVE FALSE
  <2>1. PICK k \in 1..SrcLen(ra) : Handed(ra, Opener, 1, k)
    BY <1>8 DEF BegunBy
  <2>2. ~(k < 1) /\ SrcOp(ra, k).early \in BOOLEAN
    BY <1>3 DEF SrcTyped, Operands
  <2> QED
    BY <2>1, <2>2, FirstTurn DEF Handed
<1>9. ASSUME NEW w, MustWait(ra', pc', 1, w) PROVE MustWait(ra, pc, opnum, w)
  <2>1. MustWait(ra, pc', 1, w)
    BY <1>4, <1>9, SamePlace
  <2>2. WaitsAt(ra, w)
    BY <1>1, <1>8, <2>1, InScanning
  <2> QED
    BY <1>1, <2>2, AtInstruction
<1>10. Calm(ra', pc', 1)
  BY <1>3, <1>4, <1>9 DEF Calm
<1> QED
  BY <1>1, <1>2, <1>5, <1>7, <1>10, WaitInvNext

LEMMA AtLiveIns ==
    ASSUME NEW s
    PROVE  \A n, w : MustWait(s, "live-ins", n, w) <=> LivesIn(s, n - 1, w)
<1>1. "live-ins" \notin Scanning /\ "live-ins" # "instruction"
  BY Zenon DEF Scanning
<1> QED
  BY <1>1, Zenon DEF MustWait

LEMMA WaitBeginBlock == IInv /\ CodeInv /\ WaitInv /\ BeginBlock => WaitInv'
<1> SUFFICES ASSUME IInv, CodeInv, WaitInv, BeginBlock PROVE WaitInv'
  OBVIOUS
<1>1. /\ pc = "block" /\ pc' = "live-ins" /\ opnum' = 1 /\ input' = input /\ version' = version
      /\ ra' = [ra EXCEPT !.mbb = @ + 1, !.mi = 1, !.regState = [p \in PReg |-> "disabled"],
                          !.virtDead = {}, !.coalesced = {}]
  BY DEF BeginBlock, Between
<1>2. pc' \notin Scanning /\ pc' # Opener
  BY <1>1, Zenon DEF Scanning, Opener
<1>3. ra'.mi = 1 /\ ra'.errors = ra.errors /\ ra'.stuck = ra.stuck
  BY <1>1 DEF IInv, IsAllocator, Members
<1>4. ASSUME NEW w, MustWait(ra', pc', 1, w) PROVE FALSE
  <2>1. LivesIn(ra', 1 - 1, w)
    BY <1>1, <1>4, AtLiveIns
  <2> QED
    BY <2>1 DEF LivesIn
<1>5. Calm(ra', pc', 1)
  BY <1>3, <1>4 DEF WaitInv, Calm
<1> QED
  BY <1>1, <1>2, <1>3, <1>5, WaitInvNext

\* A register that lives in is reserved until something touches it.
LEMMA WaitLiveIn == IInv /\ CodeInv /\ WaitInv /\ LiveIn => WaitInv'
<1> SUFFICES ASSUME IInv, CodeInv, WaitInv, LiveIn PROVE WaitInv'
  OBVIOUS
<1> DEFINE l == input.liveins[ra.mbb]
           p == l[opnum]
           t == definePhysReg(ra, p, "reserved")
<1>1. /\ pc = "live-ins" /\ input' = input /\ version' = version
      /\ IF opnum <= Len(l) THEN ra' = t /\ opnum' = opnum + 1 /\ pc' = pc
         ELSE pc' = "instruction" /\ opnum' = 1 /\ ra' = ra
  BY DEF LiveIn
<1>2. pc' \notin Scanning /\ pc' # Opener /\ pc \notin {"block", "done"}
  BY <1>1, Zenon DEF Scanning, Opener
<1>3. BlocksInv(ra) /\ BlockInv(ra) /\ Sound(ra) /\ opnum \in Nat \ {0} /\ ra.mi = 1 /\ Calm(ra, pc, opnum)
  BY <1>1, <1>2 DEF CodeInv, IInv, Sound, WaitInv
<1>4. Coded(ra) /\ ra.mbb \in 1..Len(input.blocks)
  BY <1>3, InBlock DEF Coded, BlocksInv
<1>5. l \in Seq(PReg) /\ LiveIns(ra) = l
  BY <1>4, CodeAssumption DEF CodeInv, LiveIns
<1>6. Len(l) \in Nat
  BY <1>5, LenProperties
<1> HIDE DEF l
<1>7. CASE opnum <= Len(l)
  <2>1. pc' = pc /\ opnum' = opnum + 1 /\ ra' = t
    BY <1>1, <1>7
  <2>2. opnum \in 1..Len(l) /\ p \in PReg
    BY <1>3, <1>5, <1>6, <1>7, ElementOfSeq
  <2>3. /\ t.regState[p] = "reserved" /\ Carried(ra, t) /\ StillReserved(ra, t, Disturbed(ra, p))
        /\ t.mi = ra.mi /\ t.mbb = ra.mbb
    <3> HIDE DEF p
    <3> QED BY <1>3, <1>4, <2>2, DefinePhysReg, DefineSpares, DefinePhysMoves DEF Moves
  <2> HIDE DEF t
  <2>4. ASSUME NEW w \in PReg, LivesIn(ra, opnum, w)
        PROVE  (LivesIn(ra, opnum - 1, w) /\ w \notin Disturbed(ra, p)) \/ t.regState[w] = "reserved"
    <3>1. PICK k \in 1..opnum : /\ l[k] = w
                                /\ \A h \in 1..Len(l) : l[h] # w => ~Overlap(l[h], w)
      BY <1>5, <2>4 DEF LivesIn
    <3>2. CASE w = p
      BY <2>3, <3>2
    <3>3. CASE w # p
      <4>1. ~Overlap(p, w)
        BY <2>2, <3>1, <3>3
      <4>2. w \notin Disturbed(ra, p)
        BY <3>3, <4>1 DEF Disturbed
      <4>3. k \in 1..(opnum - 1)
        BY <1>3, <3>1, <3>3
      <4>4. LivesIn(ra, opnum - 1, w)
        BY <1>5, <3>1, <4>3 DEF LivesIn
      <4> QED
        BY <4>2, <4>4
    <3> QED
      BY <3>2, <3>3
  <2> HIDE DEF p
  <2>5. (opnum + 1) - 1 = opnum
    BY <1>3
  <2>6. \A w \in PReg : MustWait(t, pc, opnum + 1, w) =>
            (MustWait(ra, pc, opnum, w) /\ w \notin Disturbed(ra, p)) \/ t.regState[w] = "reserved"
    <3>1. \A w : MustWait(t, pc, opnum + 1, w) => MustWait(ra, pc, opnum + 1, w)
      BY <2>3, SamePlace
    <3> QED
      BY <1>1, <2>4, <2>5, <3>1, AtLiveIns
  <2>7. t.stuck = ra.stuck /\ (ra.errors => t.errors) /\ StillReserved(ra, t, Disturbed(ra, p))
    BY <2>3 DEF Carried
  <2>8. Calm(t, pc, opnum + 1)
    BY <1>3, <2>6, <2>7, CalmStep
  <2> QED
    BY <1>1, <1>2, <1>3, <2>1, <2>3, <2>8, WaitInvNext
<1>8. CASE ~(opnum <= Len(l))
  <2>1. pc' = "instruction" /\ opnum' = 1 /\ ra' = ra
    BY <1>1, <1>8
  <2>2. ASSUME NEW w, WaitsAt(ra, w) PROVE LivesIn(ra, opnum - 1, w)
    <3> DEFINE code == input.blocks[ra.mbb]
    <3>1. Waiting(l, code, 1, w)
      BY <1>3, <1>5, <2>2 DEF WaitsAt
    <3> HIDE DEF code
    <3>2. w \in Elements(l) /\ \A x \in Elements(l) : x # w => ~Overlap(x, w)
      BY <3>1 DEF Waiting
    <3>3. PICK k \in 1..Len(l) : l[k] = w
      BY <3>2 DEF Elements
    <3>4. k \in 1..(opnum - 1)
      BY <1>3, <1>6, <1>8
    <3>5. \A h \in 1..Len(l) : l[h] # w => ~Overlap(l[h], w)
      BY <3>2 DEF Elements
    <3> QED
      BY <1>5, <3>3, <3>4, <3>5 DEF LivesIn
  <2>3. \A w : MustWait(ra', pc', 1, w) => MustWait(ra, pc, opnum, w)
    BY <1>1, <2>1, <2>2, AtInstruction, AtLiveIns
  <2>4. Calm(ra', pc', 1)
    BY <1>3, <2>1, <2>3, CalmSpared, SparesSelf
  <2> QED
    BY <1>1, <1>2, <2>1, <2>4, WaitInvNext
<1> QED
  BY <1>7, <1>8

\* Nothing waits between blocks.
LEMMA CalmOutside ==
    ASSUME NEW s, NEW scan, NEW n, Calm(s, scan, n), NEW t, t.stuck = s.stuck, s.errors => t.errors,
           NEW scan2 \in {"block", "done"}, NEW m
    PROVE  Calm(t, scan2, m)
<1>1. scan2 \notin Scanning /\ scan2 # "live-ins" /\ scan2 # "instruction"
  BY Zenon DEF Scanning
<1>2. \A w : ~MustWait(t, scan2, m, w)
  BY <1>1, Zenon DEF MustWait
<1> QED
  BY <1>2 DEF Calm

LEMMA WaitEndBlock == IInv /\ WaitInv /\ (EndBlock \/ runOnMachineFunction) => WaitInv'
<1> SUFFICES ASSUME IInv, WaitInv, EndBlock \/ runOnMachineFunction PROVE WaitInv'
  OBVIOUS
<1>1. /\ input' = input /\ version' = version /\ opnum' = 1 /\ pc' \in {"block", "done"}
      /\ Calm(ra, pc, opnum) /\ DOMAIN ra = Members
  BY DEF EndBlock, runOnMachineFunction, Between, WaitInv, IInv, IsAllocator
<1>2. pc' \notin Scanning /\ pc' # Opener /\ pc' # "live-ins"
  BY <1>1, Zenon DEF Scanning, Opener
<1>3. ra'.stuck = ra.stuck /\ (ra.errors => ra'.errors)
  <2>1. CASE runOnMachineFunction
    BY <1>1, <2>1 DEF runOnMachineFunction, Between, Members
  <2>2. CASE EndBlock
    <3> DEFINE code == Block(ra)
               first == FirstTerminator(code)
               a == [ra EXCEPT !.mi = IF first <= Len(code) THEN code[first].id ELSE @]
               s == spillAll(a, version = 10)
    <3>1. pc = "instruction" /\ \E c : ra' = [s EXCEPT !.fn[ra.mbb] = c]
      BY <2>2 DEF EndBlock, Between
    <3>2. Sound(ra)
      BY <3>1 DEF IInv, Sound
    <3>3. SameMaps(ra, a) /\ a.stuck = ra.stuck /\ a.errors = ra.errors
      BY <1>1 DEF SameMaps, Members
    <3> HIDE DEF a
    <3>4. Sound(a) /\ (version = 10) \in BOOLEAN
      BY <3>2, <3>3, SameMapsSound
    <3>5. Spares(a, s) /\ DOMAIN s = Members
      BY <3>4, SpillAllSpares, SpillAll DEF IsAllocator
    <3> HIDE DEF s
    <3> QED
      BY <3>1, <3>3, <3>5 DEF Spares, Members
  <2> QED
    BY <2>1, <2>2
<1>4. Calm(ra', pc', 1)
  BY <1>1, <1>3, CalmOutside
<1> QED
  BY <1>1, <1>2, <1>4, WaitInvNext

LEMMA WaitInit == Init => WaitInv
<1> SUFFICES ASSUME Init PROVE WaitInv
  OBVIOUS
<1>1. pc = "block" /\ ra.stuck = FALSE
  BY DEF Init, Start
<1>2. pc \notin Scanning /\ pc # Opener /\ pc # "live-ins"
  BY <1>1, Zenon DEF Scanning, Opener
<1>3. \A w : ~MustWait(ra, pc, opnum, w)
  BY <1>1, <1>2, Zenon DEF MustWait
<1> QED
  BY <1>1, <1>2, <1>3 DEF WaitInv, Calm

LEMMA WaitStep ==
    IInv /\ CodeInv /\ SourceInv /\ WaitInv /\ PhysicalsWait(input) /\ Careful /\ [Next]_vars => WaitInv'
<1> SUFFICES ASSUME IInv, CodeInv, SourceInv, WaitInv, PhysicalsWait(input), Careful, [Next]_vars PROVE WaitInv'
  OBVIOUS
<1>1. CASE UNCHANGED vars
  BY <1>1, WaitInvNext DEF vars, WaitInv
<1>2. CASE Done
  BY <1>1, <1>2 DEF Done
<1> QED
  BY <1>1, <1>2, WaitBeginBlock, WaitLiveIn, WaitDebug, WaitBegin, WaitFirst, WaitThrough, WaitTied,
     WaitClobbers, WaitRestore, WaitUses, WaitBeforeDefs, WaitOwnScan, WaitDefs, WaitFinish, WaitEndBlock DEF Next

-----------------------------------------------------------------------------
(* The results.                                                            *)

\* While a block is allocated LiveVirtRegs and PhysRegState are the two
\* directions of one map, in both versions, for every set of registers.
THEOREM TablesAgree == Spec => []MapsAgree
<1>1. IInv => MapsAgree
  BY DEF IInv, MapsAgree, Agree
<1> QED
  BY <1>1, InvHolds, PTL

\* Of two registers that overlap at most one is in use: the alias loops, which
\* stop at the first superregister, clear all there is to clear.
THEOREM OverlapsExclude == Spec => []UnitsHaveOneOwner
<1>1. IInv => UnitsHaveOneOwner
  BY DEF IInv, UnitsHaveOneOwner, OneOwner
<1> QED
  BY <1>1, InvHolds, PTL

\* Type correctness: whatever is inserted, rewritten or erased, the code stays
\* code, and an operand that names a physical register names it whole.
THEOREM TypeCorrect == Spec => []RegTypeOK
<1>1. IInv /\ CodeInv => RegTypeOK
  BY DEF IInv, IsAllocator, CodeInv, BlocksInv, RegTypeOK, Code
<1> QED
  BY <1>1, CodeHolds, PTL

\* When a function is done no operand of any block names a virtual register,
\* for every function, with undef uses, tied operands, early clobbers,
\* subregister indices and debug values, in both versions.
THEOREM NothingVirtualRemains == Spec => []NoVirtualLeft
<1>1. ASSUME CodeInv, pc = "done", NEW b \in 1..Len(ra.fn) PROVE AllSettled(ra.fn[b])
  <2>1. BlocksInv(ra) /\ ra.mbb = Len(ra.fn) /\ Len(ra.fn) \in Nat
    BY <1>1, LenProperties DEF CodeInv, BlocksInv
  <2>2. b < ra.mbb \/ (b = ra.mbb /\ ra.mbb # 0)
    BY <2>1
  <2> QED
    BY <1>1, <2>1, <2>2 DEF CodeInv, BlocksInv, Block
<1>2. CodeInv => NoVirtualLeft
  BY <1>1 DEF NoVirtualLeft, AllSettled, Settled, Elements
<1> QED
  BY <1>2, CodeHolds, PTL

\* The function and the version stay.
LEMMA InputStays == ASSUME [Next]_vars PROVE input' = input /\ version' = version
BY Zenon DEF Next, vars, BeginBlock, LiveIn, handleDebugValue, allocateInstruction, FirstScan, HandleCollisions,
       TiedUses, EarlyClobbers, RestoreUsed, Uses, UndefUses, BeforeDefs, PhysicalDefs, Definitions,
       FinishInstruction, EndBlock, runOnMachineFunction, Done, Scan, Between

\* The allocator does not come to its unreachable places: when what an
\* instruction reads by a physical name was set before it and touched by
\* nothing since, the register is still reserved when it is read, whatever was
\* allocated, spilled, reloaded and killed in between, unless an error was
\* reported; in version 10 as long as no hint has a bonus taken off an
\* impossible cost because no other register is left.
THEOREM WaitingIsRespected == Spec /\ [](NoHints \/ RoomLeft) => [](PhysicalsWait(input) => NeverStuck)
<1> DEFINE Inv == IInv /\ CodeInv /\ (PhysicalsWait(input) => SourceInv /\ WaitInv)
<1>1. Init => Inv
  <2>1. Init => SourceInv
    <3>1. "block" \notin Scanning
      BY DEF Scanning
    <3> QED
      BY <3>1 DEF Init, SourceInv
  <2> QED
    BY <2>1, InvInit, CodeInit, WaitInit
<1>2. Inv /\ Careful /\ [Next]_vars => Inv'
  <2> SUFFICES ASSUME Inv, Careful, [Next]_vars PROVE Inv'
    OBVIOUS
  <2>1. IInv' /\ CodeInv'
    BY InvStep, CodeStep
  <2>2. PhysicalsWait(input) => SourceInv' /\ WaitInv'
    BY SourceStep, WaitStep
  <2>3. PhysicalsWait(input)' => PhysicalsWait(input)
    BY InputStays
  <2> QED
    BY <2>1, <2>2, <2>3
<1>3. Inv => (PhysicalsWait(input) => NeverStuck)
  BY DEF WaitInv, Calm, NeverStuck
<1>4. Careful <=> NoHints \/ RoomLeft
  BY DEF Careful
<1> QED
  BY <1>1, <1>2, <1>3, <1>4, PTL DEF Spec

\* So version 8 never comes there, nor does version 10 in a function without
\* copies.
THEOREM WaitingIsRespectedUnhinted == Spec /\ NoHints => [](PhysicalsWait(input) => NeverStuck)
<1>1. NoHints /\ [Next]_vars => NoHints'
  BY InputStays DEF NoHints
<1>2. NoHints => NoHints \/ RoomLeft
  OBVIOUS
<1> QED
  BY <1>1, <1>2, WaitingIsRespected, PTL DEF Spec
=============================================================================
