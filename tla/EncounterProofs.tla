--------------------------- MODULE EncounterProofs ---------------------------
(***************************************************************************)
(* What holds of encounters between players and creatures whatever the     *)
(* commands, dice, scripts and templates: gear is where both sides say it  *)
(* is, effects go by what is written down, every change is marked, and a   *)
(* death is complete and for good.                                         *)
(*                                                                         *)
(* Every operation on the object map is shown to have an outcome of one of *)
(* two shapes: Follows (nobody died: only what was about has changed, what *)
(* changed is marked, what scripts leave is of its kind) or Falls (one     *)
(* creature was buried in between).  Both keep the inductive invariant     *)
(* Inv, whose part World says that the map has its type, that holders and  *)
(* things agree, that what left the world holds nothing, and that corpses  *)
(* are numbered without gaps that a new one could fall into.               *)
(***************************************************************************)
EXTENDS Encounter, FiniteSetTheorems, WellFoundedInduction, TLAPS

(***************************************************************************)
(* Running through a sequence                                              *)
(***************************************************************************)

\* What becomes of a with the next element x, in the way e says.
Step(e, a, x) ==
    CASE e.way = "scripts" -> IF a.cancelled THEN a ELSE Appended(a, ExecuteScript(x, e.ctx, a.o))
      [] e.way = "enter" -> Behave(a, x, e.p, e.r, "on_enter", e.dice[x])
      [] e.way = "notice" -> Notice(a, x, e.p, e.r, e.before, e.dice[x])
      [] e.way = "uncover" -> Uncover(a, x, e.p, e.r, e.before, e.dice[x])
      [] e.way = "without" -> IF x = e.effect THEN a ELSE Append(a, x)
      [] e.way = "cured" -> IF x \in DOMAIN Effects /\ EffectMatchesTag(x, e.tag) THEN Append(a, x) ELSE a
      [] e.way = "lift" -> RemoveCondition(a, x)
      [] e.way = "tick" -> TickEffect(e.event, a, x)
      [] e.way = "entries" -> IF x \in DOMAIN Templates THEN a \o TemplateEntries(Templates[x]) ELSE a

\* g is what FoldLeft goes by: every part of the indices, the last one last.
IsRun(e, base, seq, D, g) ==
    g = [s \in SUBSET D |-> IF s = {} THEN base ELSE Step(e, g[s \ {Max(s)}], seq[Max(s)])]
Run(e, base, seq) == (CHOOSE g : IsRun(e, base, seq, DOMAIN seq, g))[DOMAIN seq]

\* A set of numbers has a least one.
LEMMA LeastNumber ==
    ASSUME NEW T, T \subseteq Nat, T # {}
    PROVE  \E m \in T : \A n \in T : m <= n
<1>1. \E m \in T : \A n \in T : ~ (<<n, m>> \in OpToRel(<, Nat))
  BY NatLessThanWellFounded, WFMin, Zenon
<1>2. PICK m \in T : \A n \in T : ~ (<<n, m>> \in OpToRel(<, Nat))
  BY <1>1, Zenon
<1>3. ASSUME NEW n \in T
      PROVE  m <= n
  <2>1. m \in Nat /\ n \in Nat
    OBVIOUS
  <2>2. <<n, m>> \in Nat \X Nat /\ <<n, m>>[1] = n /\ <<n, m>>[2] = m
    BY <2>1
  <2>3. ~(n < m)
    BY <1>2, <2>2 DEF OpToRel
  <2> QED
    BY <2>1, <2>3
<1> QED
  BY <1>3

\* The greatest of some numbers is the one that is.
LEMMA MaxIs == ASSUME NEW s, s \subseteq Nat, NEW k \in s, \A x \in s : x <= k PROVE Max(s) = k
<1>1. \A x \in s : (\A y \in s : x >= y) <=> x = k
  OBVIOUS
<1> QED
  BY <1>1 DEF Max

\* There is such a function for every number of elements.
LEMMA RunExists ==
    ASSUME NEW e, NEW base, NEW seq, NEW n \in Nat
    PROVE  \E g : IsRun(e, base, seq, 1..n, g)
<1> DEFINE Bad == {k \in 0..n : ~\E g : IsRun(e, base, seq, 1..k, g)}
<1>1. 0 \notin Bad
  <2> DEFINE g == [s \in SUBSET (1..0) |-> base]
  <2>1. 1..0 = {}
    OBVIOUS
  <2>2. IsRun(e, base, seq, 1..0, g)
    BY <2>1 DEF IsRun
  <2> QED
    BY <2>2
<1>2. ASSUME NEW k \in 0..n, k + 1 \in 0..n, k \notin Bad
      PROVE  k + 1 \notin Bad
  <2>1. PICK g : IsRun(e, base, seq, 1..k, g)
    BY <1>2
  <2> DEFINE m == k + 1
             h == [s \in SUBSET (1..m) |-> IF m \notin s THEN g[s] ELSE Step(e, g[s \ {m}], seq[m])]
  <2>2. 1..m = (1..k) \cup {m} /\ m \notin 1..k /\ \A x \in 1..k : x <= m
    OBVIOUS
  <2>3. ASSUME NEW s \in SUBSET (1..m)
        PROVE  h[s] = IF s = {} THEN base ELSE Step(e, h[s \ {Max(s)}], seq[Max(s)])
    <3>1. CASE m \in s
      <4>1. Max(s) = m
        <5>1. s \subseteq Nat /\ \A x \in s : x <= m
          BY <2>2
        <5> HIDE DEF m
        <5> QED
          BY <3>1, <5>1, MaxIs
      <4>2. s \ {m} \in SUBSET (1..m) /\ m \notin s \ {m}
        OBVIOUS
      <4>3. h[s \ {m}] = g[s \ {m}]
        BY <4>2
      <4>4. h[s] = Step(e, g[s \ {m}], seq[m])
        BY <3>1
      <4> HIDE DEF m, h
      <4> QED
        BY <3>1, <4>1, <4>3, <4>4
    <3>2. CASE m \notin s
      <4>1. s \in SUBSET (1..k)
        BY <2>2, <3>2
      <4>2. h[s] = g[s] /\ \A x : h[s \ {x}] = g[s \ {x}]
        BY <3>2
      <4>3. g[s] = IF s = {} THEN base ELSE Step(e, g[s \ {Max(s)}], seq[Max(s)])
        BY <2>1, <4>1 DEF IsRun
      <4> HIDE DEF m, h
      <4> QED
        BY <4>2, <4>3
    <3> QED
      BY <3>1, <3>2
  <2>4. IsRun(e, base, seq, 1..m, h)
    <3> DEFINE D == SUBSET (1..m)
    <3>1. h = [s \in D |-> h[s]]
      OBVIOUS
    <3> HIDE DEF h, m
    <3> QED
      BY <2>3, <3>1 DEF IsRun
  <2> QED
    BY <2>4
<1>3. Bad = {}
  <2>1. SUFFICES ASSUME NEW k \in Bad PROVE FALSE
    OBVIOUS
  <2>2. Bad \subseteq Nat
    OBVIOUS
  <2>3. PICK j \in Bad : \A i \in Bad : j <= i
    <3> HIDE DEF Bad
    <3> QED
      BY <2>1, <2>2, LeastNumber
  <2>4. j # 0
    BY <1>1, <2>3
  <2>5. j - 1 \in 0..n /\ j - 1 \notin Bad /\ (j - 1) + 1 = j
    BY <2>3, <2>4
  <2> QED
    BY <1>2, <2>3, <2>5
<1> QED
  BY <1>3

\* Which goes from index to index.
Steps(e, base, seq, n, c) ==
    c[0] = base /\ \A i \in 1..n : c[i] = Step(e, c[i - 1], seq[i])

\* Such a function goes through the sequence element by element.
LEMMA RunSteps ==
    ASSUME NEW e, NEW base, NEW seq, NEW n \in Nat, NEW g, IsRun(e, base, seq, 1..n, g)
    PROVE  \E c : Steps(e, base, seq, n, c) /\ c[n] = g[1..n]
<1> DEFINE c == [i \in 0..n |-> g[1..i]]
<1>1. c[n] = g[1..n]
  OBVIOUS
<1>2. c[0] = base
  <2>1. c[0] = g[{}] /\ {} \in SUBSET (1..n)
    <3>1. 1..0 = {}
      OBVIOUS
    <3> QED
      BY <3>1
  <2> HIDE DEF c
  <2> QED
    BY <2>1 DEF IsRun
<1>3. ASSUME NEW i \in 1..n
      PROVE  c[i] = Step(e, c[i - 1], seq[i])
  <2> DEFINE s == 1..i
  <2>1. s \in SUBSET (1..n) /\ s # {} /\ i \in s /\ s \subseteq Nat /\ \A x \in s : x <= i
    OBVIOUS
  <2>2. Max(s) = i
    <3> HIDE DEF s
    <3> QED
      BY <2>1, MaxIs
  <2>3. s \ {i} = 1..(i - 1)
    OBVIOUS
  <2>4. c[i] = g[s] /\ c[i - 1] = g[s \ {i}]
    <3>1. i \in 0..n /\ i - 1 \in 0..n
      OBVIOUS
    <3>2. c[i] = g[1..i] /\ c[i - 1] = g[1..(i - 1)]
      BY <3>1
    <3> QED
      BY <2>3, <3>2
  <2> HIDE DEF s, c
  <2>5. g[s] = Step(e, g[s \ {Max(s)}], seq[Max(s)])
    BY <2>1 DEF IsRun
  <2> QED
    BY <2>2, <2>4, <2>5
<1> HIDE DEF c
<1> QED
  BY <1>1, <1>2, <1>3 DEF Steps

\* A number is in a set that has 0 and every successor.
LEMMA Climb ==
    ASSUME NEW n \in Nat, NEW S, 0 \in S, \A i \in 1..n : i - 1 \in S => i \in S
    PROVE  n \in S /\ \A i \in 0..n : i \in S
<1> DEFINE Bad == {k \in 0..n : k \notin S}
<1>1. Bad = {}
  <2>1. SUFFICES ASSUME NEW k \in Bad PROVE FALSE
    OBVIOUS
  <2>2. Bad \subseteq Nat
    OBVIOUS
  <2>3. PICK j \in Bad : \A i \in Bad : j <= i
    <3> HIDE DEF Bad
    <3> QED
      BY <2>1, <2>2, LeastNumber
  <2>4. j # 0 /\ j \in 0..n
    BY <2>3
  <2>5. j - 1 \in 0..n /\ j - 1 \notin Bad /\ j \in 1..n
    BY <2>3, <2>4
  <2> QED
    BY <2>3, <2>5
<1> QED
  BY <1>1

(***************************************************************************)
(* Sums                                                                    *)
(***************************************************************************)

\* What m adds to the sum of e.
Term(e, m) ==
    CASE e.of = "stat" -> e.mods[m].stats[e.key]
      [] e.of = "skill" -> e.mods[m].skills[e.key]
      [] e.of = "health" -> e.mods[m].max_health
      [] e.of = "regen" -> e.mods[m].regen

One(s) == CHOOSE x \in s : TRUE
IsSum(e, S, g) == g = [s \in SUBSET S |-> IF s = {} THEN 0 ELSE Term(e, One(s)) + g[s \ {One(s)}]]

\* A finite set has a sum, whatever its elements add.
LEMMA SumExists ==
    ASSUME NEW e, NEW S, IsFiniteSet(S)
    PROVE  \E g : IsSum(e, S, g)
<1> DEFINE D == SUBSET S
           Right(g, s) == g[s] = IF s = {} THEN 0 ELSE Term(e, One(s)) + g[s \ {One(s)}]
           Upto(k) == \E g : g = [s \in D |-> g[s]] /\ \A s \in D : Cardinality(s) <= k => Right(g, s)
           n == Cardinality(S)
           Good == {k \in 0..n : Upto(k)}
<1>0. n \in Nat /\ \A s \in D : IsFiniteSet(s) /\ Cardinality(s) \in Nat /\ Cardinality(s) <= n
  BY FS_CardinalityType, FS_Subset
<1>1. 0 \in Good
  <2> DEFINE g == [s \in D |-> 0]
  <2>1. \A s \in D : Cardinality(s) <= 0 => s = {}
    BY <1>0, FS_EmptySet
  <2>2. Right(g, {}) /\ g = [s \in D |-> g[s]]
    OBVIOUS
  <2> HIDE DEF D
  <2> QED
    BY <1>0, <2>1, <2>2
<1>2. ASSUME NEW k \in 1..n, k - 1 \in Good
      PROVE  k \in Good
  <2>1. PICK g : g = [s \in D |-> g[s]] /\ \A s \in D : Cardinality(s) <= k - 1 => Right(g, s)
    BY <1>2
  <2> DEFINE h == [s \in D |-> IF Cardinality(s) <= k - 1 THEN g[s]
                               ELSE Term(e, One(s)) + g[s \ {One(s)}]]
  <2>2. ASSUME NEW s \in D, s # {}, Cardinality(s) <= k
        PROVE  s \ {One(s)} \in D /\ Cardinality(s \ {One(s)}) <= k - 1
    <3>1. One(s) \in s
      BY <2>2 DEF One
    <3>2. Cardinality(s \ {One(s)}) = Cardinality(s) - 1
      BY <1>0, <3>1, FS_RemoveElement
    <3> QED
      BY <1>0, <2>2, <3>2
  <2>3. ASSUME NEW s \in D, Cardinality(s) <= k
        PROVE  Right(h, s)
    <3>1. CASE s = {}
      <4>1. Cardinality(s) = 0 /\ 0 <= k - 1
        BY <3>1, FS_EmptySet
      <4>2. h[s] = g[s]
        BY <4>1
      <4> HIDE DEF h, D
      <4> QED
        BY <2>1, <3>1, <4>1, <4>2
    <3>2. CASE s # {} /\ Cardinality(s) <= k - 1
      <4>1. h[s] = g[s] /\ h[s \ {One(s)}] = g[s \ {One(s)}]
        BY <2>2, <2>3, <3>2
      <4> HIDE DEF h, D
      <4> QED
        BY <2>1, <3>2, <4>1
    <3>3. CASE s # {} /\ ~(Cardinality(s) <= k - 1)
      <4>1. h[s] = Term(e, One(s)) + g[s \ {One(s)}] /\ h[s \ {One(s)}] = g[s \ {One(s)}]
        BY <2>2, <2>3, <3>3
      <4> HIDE DEF h, D
      <4> QED
        BY <3>3, <4>1
    <3> QED
      BY <3>1, <3>2, <3>3
  <2>4. h = [s \in D |-> h[s]]
    OBVIOUS
  <2>5. k \in 0..n
    <3> HIDE DEF n
    <3> QED
      BY <1>0
  <2>6. Upto(k)
    <3> HIDE DEF h, D
    <3> QED
      BY <2>3, <2>4
  <2> HIDE DEF Upto
  <2> QED
    BY <2>5, <2>6
<1>3. Upto(n)
  <2> HIDE DEF Upto
  <2>1. n \in Good
    <3>1. \A k \in 1..n : k - 1 \in Good => k \in Good
      BY <1>2
    <3> HIDE DEF Good, n
    <3> QED
      BY ONLY <1>0, <1>1, <3>1, Climb
  <2> QED
    BY <2>1
<1>4. PICK g : g = [s \in D |-> g[s]] /\ \A s \in D : Cardinality(s) <= n => Right(g, s)
  BY <1>3
<1> QED
  BY <1>0, <1>4 DEF IsSum

\* A sum of numbers is a number.
LEMMA SumType ==
    ASSUME NEW e, NEW S, IsFiniteSet(S), NEW g, IsSum(e, S, g), \A m \in S : Term(e, m) \in Int
    PROVE  g[S] \in Int
<1> DEFINE Good == {k \in 0..Cardinality(S) : \A s \in SUBSET S : Cardinality(s) <= k => g[s] \in Int}
<1>0. Cardinality(S) \in Nat /\ \A s \in SUBSET S : IsFiniteSet(s) /\ Cardinality(s) \in Nat
  BY FS_CardinalityType, FS_Subset
<1>1. 0 \in Good
  <2>1. \A s \in SUBSET S : Cardinality(s) <= 0 => s = {}
    BY <1>0, FS_EmptySet
  <2>2. g[{}] = 0
    BY DEF IsSum
  <2> QED
    BY <1>0, <2>1, <2>2
<1>2. ASSUME NEW k \in 1..Cardinality(S), k - 1 \in Good
      PROVE  k \in Good
  <2>1. ASSUME NEW s \in SUBSET S, Cardinality(s) <= k
        PROVE  g[s] \in Int
    <3>1. CASE s = {}
      BY <3>1 DEF IsSum
    <3>2. CASE s # {}
      <4>1. One(s) \in s
        BY <3>2 DEF One
      <4>2. Cardinality(s \ {One(s)}) = Cardinality(s) - 1
        BY <1>0, <4>1, FS_RemoveElement
      <4>3. g[s \ {One(s)}] \in Int
        BY <1>0, <1>2, <2>1, <4>2
      <4>4. g[s] = Term(e, One(s)) + g[s \ {One(s)}]
        BY <3>2 DEF IsSum
      <4> QED
        BY <4>1, <4>3, <4>4
    <3> QED
      BY <3>1, <3>2
  <2> QED
    BY <2>1, <1>2
<1>3. Cardinality(S) \in Good
  <2> HIDE DEF Good
  <2> QED
    BY <1>0, <1>1, <1>2, Climb
<1> QED
  BY <1>0, <1>3

(***************************************************************************)
(* Creatures                                                               *)
(***************************************************************************)

Tickings == UNION {[S -> Nat] : S \in SUBSET DOMAIN Effects}

CreatureType ==
    [id : Creatures, kind : {"player", "npc"}, active : BOOLEAN, location : Rooms,
     owner : Creatures \cup {Nobody}, home : Rooms \cup {Nobody},
     health : Nat, max_health : Int, stats : [Stats -> Int], skills : [Skills -> Int], skill_xp : [Skills -> Int],
     active_effects : Seq(DOMAIN Effects), condition_ticks : Tickings,
     stat_mods : [Stats -> Int], skill_mods : [Skills -> Int], body : SUBSET Items,
     creature_aware : BOOLEAN, player_aware : BOOLEAN, player_discovered : BOOLEAN,
     uses_awareness_check : BOOLEAN, perception : Int]

\* What active effects add is what is written down, and what counts down is active.
InStep(c) ==
    /\ IsInjective(c.active_effects)
    /\ DOMAIN c.condition_ticks \subseteq {e \in ToSet(c.active_effects) : Effects[e].duration > 0}
    /\ \A e \in DOMAIN c.condition_ticks : c.condition_ticks[e] \in 1..Effects[e].duration
    /\ c.stat_mods = StatMods(c)
    /\ c.skill_mods = SkillMods(c)
Sane(c) == c \in CreatureType /\ InStep(c)

\* What no effect, blow or cure changes.
Same(c, d) ==
    /\ d.id = c.id /\ d.kind = c.kind /\ d.active = c.active /\ d.location = c.location
    /\ d.owner = c.owner /\ d.home = c.home /\ d.body = c.body
    /\ d.stats = c.stats /\ d.skills = c.skills /\ d.skill_xp = c.skill_xp
    /\ d.uses_awareness_check = c.uses_awareness_check /\ d.perception = c.perception

\* The bounds of numbers are numbers.
LEMMA Bounds ==
    ASSUME NEW m \in Int, NEW n \in Int
    PROVE  /\ AtLeast(m, n) \in Int /\ AtLeast(m, n) >= m /\ AtLeast(m, n) >= n
           /\ AtMost(m, n) \in Int /\ (m >= 0 /\ n >= 0 => AtMost(m, n) \in Nat)
BY DEF AtLeast, AtMost

\* What is known of the modifiers of a set of sources.
Modifying(mods) ==
    IsFiniteSet(DOMAIN mods)
    /\ \A m \in DOMAIN mods :
           /\ mods[m].stats \in [Stats -> Int] /\ mods[m].skills \in [Skills -> Int]
           /\ mods[m].max_health \in Int

\* Their sums are numbers.
LEMMA SumsType ==
    ASSUME NEW mods, Modifying(mods)
    PROVE  /\ \A s \in Stats : SumOfStats(mods, s) \in Int
           /\ \A k \in Skills : SumOfSkills(mods, k) \in Int
           /\ SumOfMaxHealth(mods) \in Int
<1> DEFINE D == DOMAIN mods
<1>1. ASSUME NEW s \in Stats
      PROVE  SumOfStats(mods, s) \in Int
  <2> DEFINE e == [of |-> "stat", mods |-> mods, key |-> s]
             P(g) == g = [S \in SUBSET D |-> IF S = {} THEN 0 ELSE mods[One(S)].stats[s] + g[S \ {One(S)}]]
  <2>1. \A m : Term(e, m) = mods[m].stats[s]
    BY DEF Term
  <2>2. SumOfStats(mods, s) = (CHOOSE g : P(g))[D]
    BY DEF SumOfStats, MapThenSumSet, MapThenFoldSet, One
  <2>3. \A m \in D : Term(e, m) \in Int
    BY <2>1 DEF Modifying
  <2> HIDE DEF e
  <2>4. \A g : IsSum(e, D, g) <=> P(g)
    BY <2>1 DEF IsSum
  <2>5. \E g : P(g)
    BY <2>4, SumExists DEF Modifying
  <2> HIDE DEF P
  <2>6. IsSum(e, D, CHOOSE g : P(g))
    BY <2>4, <2>5
  <2> QED
    BY <2>2, <2>3, <2>6, SumType DEF Modifying
<1>2. ASSUME NEW s \in Skills
      PROVE  SumOfSkills(mods, s) \in Int
  <2> DEFINE e == [of |-> "skill", mods |-> mods, key |-> s]
             P(g) == g = [S \in SUBSET D |-> IF S = {} THEN 0 ELSE mods[One(S)].skills[s] + g[S \ {One(S)}]]
  <2>1. \A m : Term(e, m) = mods[m].skills[s]
    BY DEF Term
  <2>2. SumOfSkills(mods, s) = (CHOOSE g : P(g))[D]
    BY DEF SumOfSkills, MapThenSumSet, MapThenFoldSet, One
  <2>3. \A m \in D : Term(e, m) \in Int
    BY <2>1 DEF Modifying
  <2> HIDE DEF e
  <2>4. \A g : IsSum(e, D, g) <=> P(g)
    BY <2>1 DEF IsSum
  <2>5. \E g : P(g)
    BY <2>4, SumExists DEF Modifying
  <2> HIDE DEF P
  <2>6. IsSum(e, D, CHOOSE g : P(g))
    BY <2>4, <2>5
  <2> QED
    BY <2>2, <2>3, <2>6, SumType DEF Modifying
<1>3. SumOfMaxHealth(mods) \in Int
  <2> DEFINE e == [of |-> "health", mods |-> mods]
             P(g) == g = [S \in SUBSET D |-> IF S = {} THEN 0 ELSE mods[One(S)].max_health + g[S \ {One(S)}]]
  <2>1. \A m : Term(e, m) = mods[m].max_health
    BY DEF Term
  <2>2. SumOfMaxHealth(mods) = (CHOOSE g : P(g))[D]
    BY DEF SumOfMaxHealth, MapThenSumSet, MapThenFoldSet, One
  <2>3. \A m \in D : Term(e, m) \in Int
    BY <2>1 DEF Modifying
  <2> HIDE DEF e
  <2>4. \A g : IsSum(e, D, g) <=> P(g)
    BY <2>1 DEF IsSum
  <2>5. \E g : P(g)
    BY <2>4, SumExists DEF Modifying
  <2> HIDE DEF P
  <2>6. IsSum(e, D, CHOOSE g : P(g))
    BY <2>4, <2>5
  <2> QED
    BY <2>2, <2>3, <2>6, SumType DEF Modifying
<1> QED
  BY <1>1, <1>2, <1>3

\* Effects modify.
LEMMA EffectsModify ==
    ASSUME NEW c \in CreatureType
    PROVE  /\ Modifying(ActiveModifiers(c))
           /\ StatMods(c) \in [Stats -> Int] /\ SkillMods(c) \in [Skills -> Int]
           /\ CreatureMaxHealth(c) \in Nat \ {0}
<1> DEFINE s == c.active_effects
           known == {i \in DOMAIN s : s[i] \in DOMAIN Effects}
<1>1. s \in Seq(DOMAIN Effects) /\ c.max_health \in Int
  BY DEF CreatureType
<1> HIDE DEF s
<1>2. IsFiniteSet(known)
  <2>1. Len(s) \in Nat /\ DOMAIN s = 1..Len(s)
    BY <1>1
  <2>2. IsFiniteSet(1..Len(s)) /\ known \subseteq 1..Len(s)
    BY <2>1, FS_Interval
  <2> QED
    BY <2>2, FS_Subset
<1>3. ActiveModifiers(c) = [i \in known |-> Effects[s[i]]]
  BY DEF ActiveModifiers, s
<1>4. Modifying(ActiveModifiers(c))
  BY <1>2, <1>3, EffectsAssumption DEF Modifying, EffectDef
<1>5. /\ \A k \in Stats : SumOfStats(ActiveModifiers(c), k) \in Int
      /\ \A k \in Skills : SumOfSkills(ActiveModifiers(c), k) \in Int
      /\ SumOfMaxHealth(ActiveModifiers(c)) \in Int
  BY <1>4, SumsType
<1>6. CreatureMaxHealth(c) \in Nat \ {0}
  <2> DEFINE a == AtLeast(1, c.max_health)
             b == a + SumOfMaxHealth(ActiveModifiers(c))
  <2>1. a \in Int
    BY <1>1 DEF AtLeast
  <2>2. b \in Int
    BY <1>5, <2>1
  <2>3. AtLeast(1, b) \in Int /\ AtLeast(1, b) >= 1
    BY <2>2, Bounds
  <2> QED
    BY <2>3 DEF CreatureMaxHealth
<1> QED
  BY <1>4, <1>5, <1>6 DEF StatMods, SkillMods

\* A change of health.
LEMMA HealthSet ==
    ASSUME NEW c, Sane(c), NEW n \in Nat
    PROVE  LET d == [c EXCEPT !.health = n] IN Sane(d) /\ Same(c, d) /\ d.health = n
                                               /\ d.active_effects = c.active_effects
                                               /\ d.condition_ticks = c.condition_ticks
                                               /\ d.player_aware = c.player_aware
                                               /\ d.creature_aware = c.creature_aware
                                               /\ d.player_discovered = c.player_discovered
<1> DEFINE d == [c EXCEPT !.health = n]
<1>1. d \in CreatureType
  BY DEF Sane, CreatureType
<1>2. /\ Same(c, d) /\ d.health = n /\ d.active_effects = c.active_effects /\ d.condition_ticks = c.condition_ticks
      /\ d.stat_mods = c.stat_mods /\ d.skill_mods = c.skill_mods
      /\ d.player_aware = c.player_aware /\ d.creature_aware = c.creature_aware /\ d.player_discovered = c.player_discovered
  BY DEF Sane, CreatureType, Same
<1> HIDE DEF d
<1>3. ActiveModifiers(d) = ActiveModifiers(c)
  BY <1>2 DEF ActiveModifiers
<1>4. StatMods(d) = StatMods(c) /\ SkillMods(d) = SkillMods(c)
  BY <1>3 DEF StatMods, SkillMods
<1>5. InStep(d)
  BY <1>2, <1>4 DEF InStep, Sane
<1> QED
  BY <1>1, <1>2, <1>5 DEF Sane, d

\* A creature of which everything that effects and blows leave alone stays, and
\* whose derived modifiers are those of its effects.
LEMMA Resettled ==
    ASSUME NEW c, Sane(c), NEW d \in CreatureType, d.active_effects = c.active_effects,
           d.condition_ticks = c.condition_ticks, d.stat_mods = c.stat_mods, d.skill_mods = c.skill_mods
    PROVE  Sane(d)
<1>3. ActiveModifiers(d) = ActiveModifiers(c)
  BY DEF ActiveModifiers
<1>4. StatMods(d) = StatMods(c) /\ SkillMods(d) = SkillMods(c)
  BY <1>3 DEF StatMods, SkillMods
<1> QED
  BY <1>4 DEF InStep, Sane

\* What blows leave alone besides.
Unmoved(c, d) ==
    /\ d.active_effects = c.active_effects /\ d.condition_ticks = c.condition_ticks
    /\ d.player_aware = c.player_aware /\ d.creature_aware = c.creature_aware
    /\ d.player_discovered = c.player_discovered

\* Blows and cures.
LEMMA Hurt ==
    ASSUME NEW c, Sane(c), NEW n \in Int
    PROVE  /\ Sane(ApplyDamage(c, n)) /\ Same(c, ApplyDamage(c, n))
           /\ Sane(Heal(c, n)) /\ Same(c, Heal(c, n))
           /\ Unmoved(c, ApplyDamage(c, n)) /\ Unmoved(c, Heal(c, n))
<1>1. c.health \in Nat /\ c \in CreatureType
  BY DEF Sane, CreatureType
<1>2. CreatureMaxHealth(c) \in Nat
  BY <1>1, EffectsModify
<1> DEFINE h == AtLeast(0, CreatureHealth(c) - AtLeast(0, n))
           m == AtMost(CreatureMaxHealth(c), CreatureHealth(c) + AtLeast(0, n))
<1>3. h \in Nat /\ m \in Nat
  BY <1>1, <1>2 DEF AtLeast, AtMost, CreatureHealth
<1>4. ApplyDamage(c, n) = [c EXCEPT !.health = h] /\ Heal(c, n) = [c EXCEPT !.health = m]
  BY DEF ApplyDamage, Heal
<1> HIDE DEF h, m
<1> QED
  BY <1>3, <1>4, HealthSet DEF Unmoved

\* What a creature knows of another.
LEMMA FlagsSet ==
    ASSUME NEW c, Sane(c), NEW b \in BOOLEAN
    PROVE  /\ Sane([c EXCEPT !.creature_aware = b]) /\ Same(c, [c EXCEPT !.creature_aware = b])
           /\ Sane([c EXCEPT !.player_aware = b]) /\ Same(c, [c EXCEPT !.player_aware = b])
           /\ Sane([c EXCEPT !.player_discovered = b]) /\ Same(c, [c EXCEPT !.player_discovered = b])
<1>0. c \in CreatureType
  BY DEF Sane
<1>1. /\ [c EXCEPT !.creature_aware = b] \in CreatureType /\ Same(c, [c EXCEPT !.creature_aware = b])
      /\ [c EXCEPT !.player_aware = b] \in CreatureType /\ Same(c, [c EXCEPT !.player_aware = b])
      /\ [c EXCEPT !.player_discovered = b] \in CreatureType /\ Same(c, [c EXCEPT !.player_discovered = b])
  BY <1>0 DEF CreatureType, Same
<1>2. \A d \in {[c EXCEPT !.creature_aware = b], [c EXCEPT !.player_aware = b], [c EXCEPT !.player_discovered = b]} :
          /\ d.active_effects = c.active_effects /\ d.condition_ticks = c.condition_ticks
          /\ d.stat_mods = c.stat_mods /\ d.skill_mods = c.skill_mods
  BY <1>0 DEF CreatureType
<1> QED
  BY <1>1, <1>2, Resettled

\* Where a creature is.
LEMMA LocationSet ==
    ASSUME NEW c, Sane(c), NEW r \in Rooms
    PROVE  LET d == [c EXCEPT !.location = r] IN
             /\ Sane(d) /\ d.active = c.active /\ d.body = c.body /\ d.id = c.id /\ d.health = c.health
             /\ d.skills = c.skills /\ d.skill_xp = c.skill_xp /\ d.location = r
<1> DEFINE d == [c EXCEPT !.location = r]
<1>0. c \in CreatureType
  BY DEF Sane
<1>1. d \in CreatureType
  BY <1>0 DEF CreatureType
<1>2. /\ d.active_effects = c.active_effects /\ d.condition_ticks = c.condition_ticks
      /\ d.stat_mods = c.stat_mods /\ d.skill_mods = c.skill_mods
      /\ d.active = c.active /\ d.body = c.body /\ d.id = c.id /\ d.health = c.health
      /\ d.skills = c.skills /\ d.skill_xp = c.skill_xp /\ d.location = r
  BY <1>0 DEF CreatureType
<1> HIDE DEF d
<1>3. Sane(d)
  BY <1>1, <1>2, Resettled
<1> QED
  BY <1>2, <1>3 DEF d

(***************************************************************************)
(* Effects                                                                 *)
(***************************************************************************)

\* Refreshing keeps the type, and everything but the modifiers.
LEMMA RefreshedIs ==
    ASSUME NEW c \in CreatureType
    PROVE  LET d == Refreshed(c) IN
             /\ d \in CreatureType /\ Same(c, d) /\ d.health = c.health
             /\ d.active_effects = c.active_effects /\ d.condition_ticks = c.condition_ticks
             /\ d.stat_mods = StatMods(d) /\ d.skill_mods = SkillMods(d)
<1> DEFINE s == StatMods(c)
           k == SkillMods(c)
           d == [c EXCEPT !.stat_mods = s, !.skill_mods = k]
<1>1. s \in [Stats -> Int] /\ k \in [Skills -> Int]
  BY EffectsModify
<1>2. Refreshed(c) = d
  BY DEF Refreshed
<1> HIDE DEF s, k
<1>3. /\ d \in CreatureType /\ Same(c, d) /\ d.health = c.health
      /\ d.active_effects = c.active_effects /\ d.condition_ticks = c.condition_ticks
      /\ d.stat_mods = s /\ d.skill_mods = k
  BY <1>1 DEF CreatureType, Same
<1> HIDE DEF d
<1>4. ActiveModifiers(d) = ActiveModifiers(c)
  BY <1>3 DEF ActiveModifiers
<1>5. StatMods(d) = s /\ SkillMods(d) = k
  BY <1>4 DEF StatMods, SkillMods, s, k
<1> QED
  BY <1>2, <1>3, <1>5

\* t is ticks with n for e, where a count of zero is none.
Counts(t, ticks, e, n) ==
    /\ t \in Tickings
    /\ DOMAIN t = IF n > 0 THEN DOMAIN ticks \cup {e} ELSE DOMAIN ticks \ {e}
    /\ \A x \in DOMAIN t : t[x] = IF x = e THEN n ELSE ticks[x]

\* Setting a duration counts from it, and setting none counts no more.
LEMMA DurationSet ==
    ASSUME NEW ticks, ticks \in Tickings, NEW e, NEW n, n \in Int, n > 0 => e \in DOMAIN Effects
    PROVE  Counts(WithDuration(ticks, e, n), ticks, e, n)
<1> USE DEF Counts
<1>1. DOMAIN ticks \subseteq DOMAIN Effects /\ \A x \in DOMAIN ticks : ticks[x] \in Nat
  BY DEF Tickings
<1>2. CASE n > 0
  <2> DEFINE t == [x \in DOMAIN ticks \cup {e} |-> IF x = e THEN n ELSE ticks[x]]
  <2>1. WithDuration(ticks, e, n) = t
    BY <1>2 DEF WithDuration
  <2>2. t \in [DOMAIN ticks \cup {e} -> Nat] /\ DOMAIN ticks \cup {e} \in SUBSET DOMAIN Effects
    BY <1>1, <1>2
  <2>3. t \in Tickings
    BY <2>2 DEF Tickings
  <2> QED
    BY <1>2, <2>1, <2>3
<1>3. CASE ~(n > 0)
  <2> DEFINE t == [x \in DOMAIN ticks \ {e} |-> ticks[x]]
  <2>1. WithDuration(ticks, e, n) = t
    BY <1>3 DEF WithDuration, Restrict
  <2>2. t \in [DOMAIN ticks \ {e} -> Nat] /\ DOMAIN ticks \ {e} \in SUBSET DOMAIN Effects
    BY <1>1
  <2>3. t \in Tickings
    BY <2>2 DEF Tickings
  <2> QED
    BY <1>3, <2>1, <2>3
<1> QED
  BY <1>2, <1>3

\* What is gathered one by one.
LEMMA WithoutIs ==
    ASSUME NEW s \in Seq(DOMAIN Effects), NEW x
    PROVE  LET w == Without(s, x) IN
             /\ w \in Seq(DOMAIN Effects)
             /\ ToSet(w) = ToSet(s) \ {x}
             /\ IsInjective(s) => IsInjective(w)
<1> DEFINE e == [way |-> "without", effect |-> x]
           n == Len(s)
           P(g) == g = [S \in SUBSET (DOMAIN s) |->
                           IF S = {} THEN <<>>
                           ELSE IF s[Max(S)] = x THEN g[S \ {Max(S)}] ELSE Append(g[S \ {Max(S)}], s[Max(S)])]
<1>0. n \in Nat /\ DOMAIN s = 1..n /\ \A i \in 1..n : s[i] \in DOMAIN Effects
  OBVIOUS
<1>1. \A a, y : Step(e, a, y) = IF y = x THEN a ELSE Append(a, y)
  BY DEF Step
<1>2. Without(s, x) = (CHOOSE g : P(g))[DOMAIN s]
  BY DEF Without, FoldLeft, MapThenFoldSet
<1> HIDE DEF e
<1>3. ASSUME NEW g PROVE IsRun(e, <<>>, s, DOMAIN s, g) <=> P(g)
  <2>1. ASSUME NEW S
        PROVE  Step(e, g[S \ {Max(S)}], s[Max(S)])
                 = IF s[Max(S)] = x THEN g[S \ {Max(S)}] ELSE Append(g[S \ {Max(S)}], s[Max(S)])
    BY <1>1
  <2> QED
    BY <2>1 DEF IsRun
<1> DEFINE run == CHOOSE g : P(g)
<1> HIDE DEF P, n
<1>4. \E g : P(g)
  BY <1>0, <1>3, RunExists
<1>5. P(run)
  BY <1>4
<1> HIDE DEF run
<1>10. IsRun(e, <<>>, s, 1..n, run)
  BY <1>0, <1>3, <1>5
<1>6. PICK c : Steps(e, <<>>, s, n, c) /\ c[n] = Without(s, x)
  <2>1. Without(s, x) = run[1..n]
    BY <1>0, <1>2 DEF run
  <2> QED
    BY <1>0, <1>10, <2>1, RunSteps
<1> DEFINE Right(i) ==
             /\ c[i] \in Seq(DOMAIN Effects)
             /\ ToSet(c[i]) = {s[j] : j \in 1..i} \ {x}
             /\ IsInjective(s) => IsInjective(c[i])
           Good == {i \in 0..n : Right(i)}
<1>7. 0 \in Good
  <2>1. c[0] = <<>>
    BY <1>6 DEF Steps
  <2>2. ToSet(<<>>) = {} /\ IsInjective(<<>>) /\ <<>> \in Seq(DOMAIN Effects)
    BY DEF ToSet, IsInjective
  <2>3. {s[j] : j \in 1..0} \ {x} = {}
    OBVIOUS
  <2>4. Right(0)
    BY <2>1, <2>2, <2>3, Zenon
  <2>5. 0 \in 0..n
    BY <1>0
  <2> HIDE DEF Right
  <2> QED
    BY <2>4, <2>5
<1>8. ASSUME NEW i \in 1..n, i - 1 \in Good
      PROVE  i \in Good
  <2> DEFINE a == c[i - 1]
  <2>1. Right(i - 1) /\ i \in 0..n
    BY <1>0, <1>8
  <2>2. c[i] = IF s[i] = x THEN a ELSE Append(a, s[i])
    BY <1>1, <1>6 DEF Steps
  <2>3. {s[j] : j \in 1..i} = {s[j] : j \in 1..(i - 1)} \cup {s[i]}
    <3>1. 1..i = (1..(i - 1)) \cup {i}
      BY <1>0
    <3> QED
      BY <3>1
  <2>4. a \in Seq(DOMAIN Effects) /\ ToSet(a) = {s[j] : j \in 1..(i - 1)} \ {x} /\ (IsInjective(s) => IsInjective(a))
    BY <2>1
  <2> HIDE DEF a
  <2>5. CASE s[i] = x
    BY <2>1, <2>2, <2>3, <2>4, <2>5
  <2>6. CASE s[i] # x
    <3>1. c[i] = Append(a, s[i]) /\ s[i] \in DOMAIN Effects
      BY <1>0, <2>2, <2>6
    <3>2. /\ c[i] \in Seq(DOMAIN Effects) /\ DOMAIN c[i] = (DOMAIN a) \cup {Len(a) + 1}
          /\ c[i][Len(a) + 1] = s[i] /\ \A j \in DOMAIN a : c[i][j] = a[j]
          /\ Len(a) + 1 \notin DOMAIN a
      BY <2>4, <3>1
    <3>3. ToSet(c[i]) = ToSet(a) \cup {s[i]}
      BY <3>2 DEF ToSet
    <3>4. IsInjective(s) => s[i] \notin ToSet(a)
      <4>1. IsInjective(s) => \A j \in 1..(i - 1) : s[j] # s[i]
        BY <1>0 DEF IsInjective
      <4> QED
        BY <2>4, <4>1
    <3>5. IsInjective(s) => IsInjective(c[i])
      <4>1. \A j \in DOMAIN a : a[j] \in ToSet(a)
        BY DEF ToSet
      <4> QED
        BY <2>4, <3>2, <3>4, <4>1 DEF IsInjective
    <3> QED
      BY <2>1, <2>3, <2>4, <2>6, <3>2, <3>3, <3>5
  <2> QED
    BY <2>5, <2>6
<1>9. Right(n)
  <2> HIDE DEF Right
  <2>1. n \in Good
    <3> HIDE DEF Good
    <3> QED
      BY ONLY <1>0, <1>7, <1>8, Climb
  <2> QED
    BY <2>1
<1> QED
  BY <1>0, <1>6, <1>9 DEF ToSet

\* What can be cured is a sequence of effects.
LEMMA CuredIs ==
    ASSUME NEW c \in CreatureType, NEW tag
    PROVE  Cured(c, tag) \in Seq(DOMAIN Effects)
<1> DEFINE s == c.active_effects
           e == [way |-> "cured", tag |-> tag]
           n == Len(s)
           P(g) == g = [S \in SUBSET (DOMAIN s) |->
                           IF S = {} THEN <<>>
                           ELSE IF s[Max(S)] \in DOMAIN Effects /\ EffectMatchesTag(s[Max(S)], tag)
                                THEN Append(g[S \ {Max(S)}], s[Max(S)]) ELSE g[S \ {Max(S)}]]
<1>0. s \in Seq(DOMAIN Effects)
  BY DEF CreatureType
<1>1. \A a, y : Step(e, a, y) = IF y \in DOMAIN Effects /\ EffectMatchesTag(y, tag) THEN Append(a, y) ELSE a
  BY DEF Step
<1>2. Cured(c, tag) = (CHOOSE g : P(g))[DOMAIN s]
  BY DEF Cured, FoldLeft, MapThenFoldSet
<1> HIDE DEF e, s
<1>9. n \in Nat /\ DOMAIN s = 1..n
  BY <1>0
<1>3. \A g : IsRun(e, <<>>, s, DOMAIN s, g) <=> P(g)
  BY <1>1 DEF IsRun
<1> HIDE DEF P, n
<1>4. \E g : P(g)
  BY <1>9, <1>3, RunExists
<1> DEFINE run == CHOOSE g : P(g)
<1>5. P(run)
  BY <1>4
<1> HIDE DEF run
<1>11. IsRun(e, <<>>, s, 1..n, run)
  BY <1>9, <1>3, <1>5
<1>6. PICK r : Steps(e, <<>>, s, n, r) /\ r[n] = Cured(c, tag)
  <2>1. Cured(c, tag) = run[1..n]
    BY <1>9, <1>2 DEF run
  <2> QED
    BY <1>9, <1>11, <2>1, RunSteps
<1> DEFINE Good == {i \in 0..n : r[i] \in Seq(DOMAIN Effects)}
<1>7. 0 \in Good
  <2>1. r[0] = <<>>
    BY <1>6 DEF Steps
  <2>2. <<>> \in Seq(DOMAIN Effects)
    OBVIOUS
  <2>3. r[0] \in Seq(DOMAIN Effects)
    BY <2>1, <2>2, Zenon
  <2>4. 0 \in 0..n
    BY <1>9
  <2> QED
    BY <2>3, <2>4
<1>8. ASSUME NEW i \in 1..n, i - 1 \in Good
      PROVE  i \in Good
  <2>1. r[i] = Step(e, r[i - 1], s[i]) /\ r[i - 1] \in Seq(DOMAIN Effects) /\ i \in 0..n
    BY <1>6, <1>8, <1>9 DEF Steps
  <2> QED
    BY <1>1, <2>1
<1>10. n \in Good
  <2> HIDE DEF Good
  <2> QED
    BY ONLY <1>9, <1>7, <1>8, Climb
<1> QED
  BY <1>6, <1>10

\* A dose of an effect.
LEMMA Applied ==
    ASSUME NEW c, Sane(c), NEW x
    PROVE  LET d == ApplyCondition(c, x) IN
             Sane(d) /\ Same(c, d) /\ d.health = c.health
<1> DEFINE s == IF Contains(c.active_effects, x) THEN c.active_effects ELSE Append(c.active_effects, x)
           t == IF Effects[x].duration > 0 THEN WithDuration(c.condition_ticks, x, Effects[x].duration) ELSE c.condition_ticks
           b == [c EXCEPT !.active_effects = s, !.condition_ticks = t]
<1>0. c \in CreatureType /\ InStep(c)
  BY DEF Sane
<1>1. CASE x \notin DOMAIN Effects
  BY <1>1 DEF ApplyCondition, Same
<1>2. CASE x \in DOMAIN Effects
  <2>1. ApplyCondition(c, x) = Refreshed(b)
    BY <1>2 DEF ApplyCondition
  <2>2. Effects[x].duration \in Nat
    BY <1>2, EffectsAssumption DEF EffectDef
  <2>3. c.active_effects \in Seq(DOMAIN Effects) /\ c.condition_ticks \in Tickings
    BY <1>0 DEF CreatureType
  <2>4. s \in Seq(DOMAIN Effects) /\ IsInjective(s) /\ ToSet(s) = ToSet(c.active_effects) \cup {x}
    <3> DEFINE a == c.active_effects
    <3>0. a \in Seq(DOMAIN Effects) /\ IsInjective(a)
      BY <1>0, <2>3 DEF InStep
    <3>4. s = IF Contains(a, x) THEN a ELSE Append(a, x)
      OBVIOUS
    <3> HIDE DEF a, s
    <3>1. CASE Contains(a, x)
      <4>1. x \in ToSet(a)
        BY <3>0, <3>1 DEF Contains, ToSet
      <4> QED
        BY <3>0, <3>1, <3>4, <4>1 DEF a
    <3>2. CASE ~Contains(a, x)
      <4>1. s = Append(a, x) /\ x \notin ToSet(a)
        BY <3>0, <3>2, <3>4 DEF Contains, ToSet
      <4>2. /\ s \in Seq(DOMAIN Effects) /\ DOMAIN s = (DOMAIN a) \cup {Len(a) + 1}
            /\ s[Len(a) + 1] = x /\ \A j \in DOMAIN a : s[j] = a[j]
            /\ Len(a) + 1 \notin DOMAIN a
        BY <1>2, <3>0, <4>1
      <4>3. ToSet(s) = ToSet(a) \cup {x}
        BY <4>2 DEF ToSet
      <4>4. \A j \in DOMAIN a : a[j] # x
        BY <4>1 DEF ToSet
      <4>5. IsInjective(s)
        BY <3>0, <4>2, <4>4 DEF IsInjective
      <4> QED
        BY <4>2, <4>3, <4>5 DEF a
    <3> QED
      BY <3>1, <3>2
  <2>5. /\ t \in Tickings
        /\ DOMAIN t \subseteq {e \in ToSet(s) : Effects[e].duration > 0}
        /\ \A e \in DOMAIN t : t[e] \in 1..Effects[e].duration
    <3> DEFINE n == Effects[x].duration
               w == WithDuration(c.condition_ticks, x, n)
    <3>1. CASE n > 0
      <4>1. w \in Tickings /\ DOMAIN w = DOMAIN c.condition_ticks \cup {x}
            /\ \A y \in DOMAIN w : w[y] = IF y = x THEN n ELSE c.condition_ticks[y]
        <5> HIDE DEF n
        <5>1. n \in Int /\ (n > 0 => x \in DOMAIN Effects)
          BY <1>2, <2>2 DEF n
        <5>2. Counts(w, c.condition_ticks, x, n)
          BY <2>3, <5>1, DurationSet
        <5> QED
          BY <3>1, <5>2 DEF Counts
      <4>2. t = w
        BY <3>1
      <4> HIDE DEF w, t, s
      <4> QED
        BY <1>0, <2>2, <2>4, <3>1, <4>1, <4>2 DEF InStep
    <3>2. CASE ~(n > 0)
      <4>1. t = c.condition_ticks
        BY <3>2
      <4> HIDE DEF t, s
      <4> QED
        BY <1>0, <2>3, <2>4, <4>1 DEF InStep
    <3> QED
      BY <3>1, <3>2
  <2> HIDE DEF s, t
  <2>6. b \in CreatureType /\ Same(c, b) /\ b.health = c.health /\ b.active_effects = s /\ b.condition_ticks = t
    BY <1>0, <2>4, <2>5 DEF CreatureType, Same
  <2> HIDE DEF b
  <2> DEFINE d == Refreshed(b)
  <2>7. /\ d \in CreatureType /\ Same(b, d) /\ d.health = b.health
        /\ d.active_effects = b.active_effects /\ d.condition_ticks = b.condition_ticks
        /\ d.stat_mods = StatMods(d) /\ d.skill_mods = SkillMods(d)
    BY <2>6, RefreshedIs
  <2> HIDE DEF d
  <2>8. InStep(d)
    BY <2>4, <2>5, <2>6, <2>7 DEF InStep
  <2>9. Same(c, d) /\ d.health = c.health
    BY <2>6, <2>7 DEF Same
  <2> QED
    BY <2>1, <2>7, <2>8, <2>9 DEF Sane, d
<1> QED
  BY <1>1, <1>2

\* The end of an effect.  What counts down for other effects may have been
\* settled before: it is enough that it does so for active ones.
LEMMA Removed ==
    ASSUME NEW c, Sane(c), NEW x
    PROVE  LET d == RemoveCondition(c, x) IN
             Sane(d) /\ Same(c, d) /\ d.health = c.health
<1> DEFINE s == Without(c.active_effects, x)
           b == [c EXCEPT !.active_effects = s]
           r == Refreshed(b)
           t == WithDuration(c.condition_ticks, x, 0)
           d == [r EXCEPT !.condition_ticks = t]
<1>0. c \in CreatureType /\ InStep(c)
  BY DEF Sane
<1>1. c.active_effects \in Seq(DOMAIN Effects) /\ c.condition_ticks \in Tickings /\ IsInjective(c.active_effects)
  BY <1>0 DEF CreatureType, InStep
<1>2. s \in Seq(DOMAIN Effects) /\ ToSet(s) = ToSet(c.active_effects) \ {x} /\ IsInjective(s)
  BY <1>1, WithoutIs
<1>3. t \in Tickings /\ DOMAIN t = DOMAIN c.condition_ticks \ {x} /\ \A y \in DOMAIN t : t[y] = c.condition_ticks[y]
  <2>1. 0 \in Int /\ (0 > 0 => x \in DOMAIN Effects)
    OBVIOUS
  <2>2. Counts(t, c.condition_ticks, x, 0)
    BY <1>1, <2>1, DurationSet
  <2> QED
    BY <2>2 DEF Counts
<1>4. b \in CreatureType /\ Same(c, b) /\ b.health = c.health /\ b.active_effects = s /\ b.condition_ticks = c.condition_ticks
  <2> HIDE DEF s
  <2> QED
    BY <1>0, <1>2 DEF CreatureType, Same
<1>5. RemoveCondition(c, x) = [r EXCEPT !.condition_ticks = WithDuration(@, x, 0)]
  BY DEF RemoveCondition, RemoveEffect
<1> HIDE DEF b, s
<1>6. /\ r \in CreatureType /\ Same(b, r) /\ r.health = b.health
      /\ r.active_effects = b.active_effects /\ r.condition_ticks = b.condition_ticks
      /\ r.stat_mods = StatMods(r) /\ r.skill_mods = SkillMods(r)
  BY <1>4, RefreshedIs
<1>7. RemoveCondition(c, x) = d
  <2> HIDE DEF r
  <2> QED
    BY <1>4, <1>5, <1>6 DEF CreatureType
<1> HIDE DEF r, t
<1>8. /\ d \in CreatureType /\ Same(r, d) /\ d.health = r.health /\ d.active_effects = r.active_effects
      /\ d.condition_ticks = t /\ d.stat_mods = r.stat_mods /\ d.skill_mods = r.skill_mods
  BY <1>3, <1>6 DEF CreatureType, Same
<1> HIDE DEF d
<1>9. ActiveModifiers(d) = ActiveModifiers(r)
  BY <1>8 DEF ActiveModifiers
<1>10. StatMods(d) = StatMods(r) /\ SkillMods(d) = SkillMods(r)
  BY <1>9 DEF StatMods, SkillMods
<1>11. InStep(d)
  BY <1>0, <1>2, <1>3, <1>4, <1>6, <1>8, <1>10 DEF InStep
<1>12. Same(c, d) /\ d.health = c.health
  BY <1>4, <1>6, <1>8 DEF Same
<1> QED
  BY <1>7, <1>8, <1>11, <1>12 DEF Sane

\* The end of several.
LEMMA Lifted ==
    ASSUME NEW c, Sane(c), NEW s \in Seq(DOMAIN Effects)
    PROVE  LET d == FoldLeft(RemoveCondition, c, s) IN
             Sane(d) /\ Same(c, d) /\ d.health = c.health
<1> DEFINE e == [way |-> "lift"]
           n == Len(s)
           P(g) == g = [S \in SUBSET (DOMAIN s) |->
                           IF S = {} THEN c ELSE RemoveCondition(g[S \ {Max(S)}], s[Max(S)])]
<1>0. n \in Nat /\ DOMAIN s = 1..n
  OBVIOUS
<1>1. \A a, y : Step(e, a, y) = RemoveCondition(a, y)
  BY DEF Step
<1>2. FoldLeft(RemoveCondition, c, s) = (CHOOSE g : P(g))[DOMAIN s]
  BY DEF FoldLeft, MapThenFoldSet
<1> HIDE DEF e
<1>3. ASSUME NEW g PROVE IsRun(e, c, s, DOMAIN s, g) <=> P(g)
  <2>1. ASSUME NEW S
        PROVE  Step(e, g[S \ {Max(S)}], s[Max(S)]) = RemoveCondition(g[S \ {Max(S)}], s[Max(S)])
    BY <1>1
  <2> QED
    BY <2>1 DEF IsRun
<1> DEFINE run == CHOOSE g : P(g)
<1> HIDE DEF P, n
<1>4. \E g : P(g)
  BY <1>0, <1>3, RunExists
<1>5. P(run)
  BY <1>4
<1> HIDE DEF run
<1>10. IsRun(e, c, s, 1..n, run)
  BY <1>0, <1>3, <1>5
<1>6. PICK r : Steps(e, c, s, n, r) /\ r[n] = FoldLeft(RemoveCondition, c, s)
  <2>1. FoldLeft(RemoveCondition, c, s) = run[1..n]
    BY <1>0, <1>2 DEF run
  <2> QED
    BY <1>0, <1>10, <2>1, RunSteps
<1> DEFINE Right(i) == Sane(r[i]) /\ Same(c, r[i]) /\ r[i].health = c.health
           Good == {i \in 0..n : Right(i)}
<1>7. 0 \in Good
  <2>1. r[0] = c
    BY <1>6 DEF Steps
  <2>2. Right(0) /\ 0 \in 0..n
    BY <1>0, <2>1 DEF Same
  <2> HIDE DEF Right
  <2> QED
    BY <2>2
<1>8. ASSUME NEW i \in 1..n, i - 1 \in Good
      PROVE  i \in Good
  <2>1. Right(i - 1) /\ i \in 0..n
    BY <1>0, <1>8
  <2>2. r[i] = RemoveCondition(r[i - 1], s[i])
    BY <1>1, <1>6 DEF Steps
  <2>3. Sane(r[i]) /\ Same(r[i - 1], r[i]) /\ r[i].health = r[i - 1].health
    BY <2>1, <2>2, Removed
  <2>4. Right(i)
    BY <2>1, <2>3 DEF Same
  <2> HIDE DEF Right
  <2> QED
    BY <2>1, <2>4
<1>9. Right(n)
  <2> HIDE DEF Right
  <2>1. n \in Good
    <3> HIDE DEF Good
    <3> QED
      BY ONLY <1>0, <1>7, <1>8, Climb
  <2> QED
    BY <2>1
<1> QED
  BY <1>6, <1>9

\* CureByTag leaves a creature in step, and lifts effects only.
LEMMA CuredByTag ==
    ASSUME NEW c, Sane(c), NEW tag
    PROVE  LET d == CureByTag(c, tag) IN Sane(d) /\ Same(c, d) /\ d.health = c.health
BY CuredIs, Lifted DEF CureByTag, Sane

(***************************************************************************)
(* Ticks                                                                   *)
(***************************************************************************)

\* What a tick of some effects of c leaves: those that have not had their turn
\* count what they did, and what counts no more has expired.
Ticking(c, t, rest) ==
    /\ Sane(t.c) /\ Same(c, t.c) /\ t.c.active_effects = c.active_effects
    /\ t.c.condition_ticks = c.condition_ticks
    /\ t.ticks \in Tickings /\ DOMAIN t.ticks = DOMAIN c.condition_ticks
    /\ \A x \in DOMAIN t.ticks : t.ticks[x] \in 0..Effects[x].duration
    /\ \A x \in DOMAIN t.ticks : t.ticks[x] = 0 => x \in ToSet(t.expired)
    /\ \A x \in DOMAIN t.ticks : x \in rest => t.ticks[x] = c.condition_ticks[x]
    /\ t.expired \in Seq(DOMAIN Effects)

\* The turn of one.
LEMMA TickTurn ==
    ASSUME NEW c, Sane(c), NEW t, NEW rest, Ticking(c, t, rest), NEW x \in DOMAIN Effects, x \in rest, NEW event
    PROVE  Ticking(c, TickEffect(event, t, x), rest \ {x})
<1> DEFINE def == Effects[x]
           hurt == IF def.damage > 0 /\ ~IsDefeated(t.c) THEN ApplyDamage(t.c, def.damage) ELSE t.c
           mended == IF def.heal > 0 /\ ~IsDefeated(hurt) THEN Heal(hurt, def.heal) ELSE hurt
           counted == def.duration > 0 /\ x \in DOMAIN t.ticks
           ticks == IF counted THEN [t.ticks EXCEPT ![x] = @ - 1] ELSE t.ticks
           expired == IF counted /\ t.ticks[x] <= 1 THEN Append(t.expired, x) ELSE t.expired
           u == TickEffect(event, t, x)
<1>1. CASE def.on # event
  <2>1. u = t
    BY <1>1 DEF TickEffect
  <2> QED
    BY <2>1 DEF Ticking
<1>2. CASE def.on = event
  <2>1. u.c = mended /\ u.ticks = ticks /\ u.expired = expired
    BY <1>2 DEF TickEffect
  <2>2. def.damage \in Nat /\ def.heal \in Nat /\ def.duration \in Nat
    BY EffectsAssumption DEF EffectDef
  <2>3. /\ Sane(hurt) /\ Same(c, hurt) /\ hurt.active_effects = c.active_effects
        /\ hurt.condition_ticks = c.condition_ticks
    <3>1. CASE def.damage > 0 /\ ~IsDefeated(t.c)
      <4>1. hurt = ApplyDamage(t.c, def.damage)
        BY <3>1
      <4>2. Sane(t.c) /\ Same(c, t.c) /\ t.c.active_effects = c.active_effects /\ t.c.condition_ticks = c.condition_ticks
        BY DEF Ticking
      <4> DEFINE n == def.damage
                 c1 == t.c
      <4>3. n \in Int /\ Sane(c1) /\ hurt = ApplyDamage(c1, n)
        BY <2>2, <4>1, <4>2
      <4> HIDE DEF hurt, n, c1
      <4>4. Sane(hurt) /\ Same(c1, hurt) /\ Unmoved(c1, hurt)
        BY <4>3, Hurt
      <4> QED
        BY <4>2, <4>4 DEF Same, Unmoved, c1
    <3>2. CASE ~(def.damage > 0 /\ ~IsDefeated(t.c))
      <4>1. hurt = t.c
        BY <3>2
      <4> HIDE DEF hurt
      <4> QED
        BY <4>1 DEF Ticking
    <3> QED
      BY <3>1, <3>2
  <2>4. /\ Sane(mended) /\ Same(c, mended) /\ mended.active_effects = c.active_effects
        /\ mended.condition_ticks = c.condition_ticks
    <3> HIDE DEF hurt
    <3>1. CASE def.heal > 0 /\ ~IsDefeated(hurt)
      <4>1. mended = Heal(hurt, def.heal)
        BY <3>1
      <4> DEFINE n == def.heal
      <4>3. n \in Int /\ mended = Heal(hurt, n)
        BY <2>2, <4>1
      <4> HIDE DEF mended, n
      <4>4. Sane(mended) /\ Same(hurt, mended) /\ Unmoved(hurt, mended)
        BY <2>3, <4>3, Hurt
      <4> QED
        BY <2>3, <4>4 DEF Same, Unmoved
    <3>2. CASE ~(def.heal > 0 /\ ~IsDefeated(hurt))
      <4>1. mended = hurt
        BY <3>2
      <4> HIDE DEF mended
      <4> QED
        BY <2>3, <4>1
    <3> QED
      BY <3>1, <3>2
  <2> HIDE DEF mended, hurt
  <2>5. t.ticks \in [DOMAIN t.ticks -> Nat] /\ DOMAIN t.ticks \subseteq DOMAIN Effects
    BY DEF Ticking, Tickings
  <2>6. counted => t.ticks[x] \in 1..def.duration
    BY <2>2 DEF Ticking, Sane, InStep
  <2>7. /\ ticks \in [DOMAIN t.ticks -> Nat] /\ DOMAIN ticks = DOMAIN t.ticks
        /\ \A y \in DOMAIN ticks : y # x => ticks[y] = t.ticks[y]
        /\ counted => ticks[x] = t.ticks[x] - 1
    BY <2>5, <2>6
  <2>8. ticks \in Tickings
    BY <2>5, <2>7 DEF Tickings
  <2>9. expired \in Seq(DOMAIN Effects) /\ ToSet(t.expired) \subseteq ToSet(expired)
        /\ (counted /\ t.ticks[x] <= 1 => x \in ToSet(expired))
    <3>1. t.expired \in Seq(DOMAIN Effects)
      BY DEF Ticking
    <3>2. CASE counted /\ t.ticks[x] <= 1
      <4> DEFINE s == t.expired
      <4>1. expired = Append(s, x) /\ s \in Seq(DOMAIN Effects)
        BY <3>1, <3>2
      <4> HIDE DEF expired, s
      <4>2. /\ expired \in Seq(DOMAIN Effects) /\ DOMAIN expired = DOMAIN s \cup {Len(s) + 1}
            /\ expired[Len(s) + 1] = x /\ \A j \in DOMAIN s : expired[j] = s[j]
        BY <4>1
      <4>3. ToSet(s) \subseteq ToSet(expired) /\ x \in ToSet(expired)
        BY <4>2 DEF ToSet
      <4> QED
        BY <4>2, <4>3 DEF s
    <3>3. CASE ~(counted /\ t.ticks[x] <= 1)
      BY <3>1, <3>3
    <3> QED
      BY <3>2, <3>3
  <2> HIDE DEF ticks, expired
  <2>10. ASSUME NEW y \in DOMAIN ticks
         PROVE  /\ ticks[y] \in 0..Effects[y].duration
                /\ ticks[y] = 0 => y \in ToSet(expired)
                /\ y \in rest \ {x} => ticks[y] = c.condition_ticks[y]
    <3>1. CASE y # x
      BY <2>7, <2>9, <3>1 DEF Ticking
    <3>2. CASE y = x /\ counted
      BY <2>2, <2>6, <2>7, <2>9, <3>2
    <3>3. CASE y = x /\ ~counted
      <4>1. ~(def.duration > 0) /\ y \in DOMAIN c.condition_ticks
        BY <2>7, <3>3 DEF Ticking
      <4> QED
        BY <3>3, <4>1 DEF Sane, InStep
    <3> QED
      BY <3>1, <3>2, <3>3
  <2> HIDE DEF counted
  <2> QED
    BY <2>1, <2>4, <2>7, <2>8, <2>9, <2>10 DEF Ticking
<1> QED
  BY <1>1, <1>2

\* The turns of all that are active.
AllTicked(c, event) ==
    FoldLeft(LAMBDA acc, x : TickEffect(event, acc, x),
             [c |-> c, ticks |-> c.condition_ticks, expired |-> <<>>, dirty |-> FALSE], c.active_effects)

\* A tick gives every active effect its turn.
LEMMA TickAll ==
    ASSUME NEW c, Sane(c), NEW event
    PROVE  Ticking(c, AllTicked(c, event), {})
<1> DEFINE s == c.active_effects
           start == [c |-> c, ticks |-> c.condition_ticks, expired |-> <<>>, dirty |-> FALSE]
           all == AllTicked(c, event)
           e == [way |-> "tick", event |-> event]
           n == Len(s)
           P(g) == g = [S \in SUBSET (DOMAIN s) |->
                           IF S = {} THEN start ELSE TickEffect(event, g[S \ {Max(S)}], s[Max(S)])]
<1>s. s \in Seq(DOMAIN Effects) /\ IsInjective(s) /\ c.condition_ticks \in Tickings
  BY DEF Sane, CreatureType, InStep
<1>t. Ticking(c, start, ToSet(s))
  <2>1. start.c = c /\ start.ticks = c.condition_ticks /\ start.expired = <<>>
    OBVIOUS
  <2>2. <<>> \in Seq(DOMAIN Effects)
    OBVIOUS
  <2>3. start.expired \in Seq(DOMAIN Effects)
    BY <2>1, <2>2, Zenon
  <2> HIDE DEF start
  <2>4. \A x \in DOMAIN c.condition_ticks : c.condition_ticks[x] \in 1..Effects[x].duration
    BY DEF Sane, InStep
  <2>5. \A x \in DOMAIN c.condition_ticks : x \in DOMAIN Effects /\ Effects[x].duration \in Nat
    BY <1>s, EffectsAssumption DEF Tickings, EffectDef
  <2>6. \A x \in DOMAIN c.condition_ticks : c.condition_ticks[x] \in 0..Effects[x].duration /\ c.condition_ticks[x] # 0
    BY <2>4, <2>5
  <2> QED
    BY <1>s, <2>1, <2>3, <2>6 DEF Ticking, Same
<1>2. all = (CHOOSE g : P(g))[DOMAIN s]
  BY DEF AllTicked, FoldLeft, MapThenFoldSet
<1> HIDE DEF all, s, start
<1>0. n \in Nat /\ DOMAIN s = 1..n
  BY <1>s
<1>1. \A a, y : Step(e, a, y) = TickEffect(event, a, y)
  BY DEF Step
<1> HIDE DEF e
<1>3. ASSUME NEW g PROVE IsRun(e, start, s, DOMAIN s, g) <=> P(g)
  <2>1. ASSUME NEW S
        PROVE  Step(e, g[S \ {Max(S)}], s[Max(S)]) = TickEffect(event, g[S \ {Max(S)}], s[Max(S)])
    BY <1>1
  <2> QED
    BY <2>1 DEF IsRun
<1> DEFINE run == CHOOSE g : P(g)
<1> HIDE DEF P, n
<1>4. \E g : P(g)
  BY <1>0, <1>3, RunExists
<1>5. P(run)
  BY <1>4
<1> HIDE DEF run
<1>10. IsRun(e, start, s, 1..n, run)
  BY <1>0, <1>3, <1>5
<1>6. PICK r : Steps(e, start, s, n, r) /\ r[n] = all
  <2>1. all = run[1..n]
    BY <1>0, <1>2 DEF run
  <2> QED
    BY <1>0, <1>10, <2>1, RunSteps
<1> DEFINE Left(i) == {s[j] : j \in (i + 1)..n}
           Good == {i \in 0..n : Ticking(c, r[i], Left(i))}
<1>7. 0 \in Good
  <2>1. r[0] = start
    BY <1>6 DEF Steps
  <2>2. Left(0) = ToSet(s)
    BY <1>0 DEF ToSet
  <2> HIDE DEF Left
  <2> QED
    BY <1>0, <1>t, <2>1, <2>2
<1>8. ASSUME NEW i \in 1..n, i - 1 \in Good
      PROVE  i \in Good
  <2>1. Ticking(c, r[i - 1], Left(i - 1)) /\ i \in 0..n
    BY <1>0, <1>8
  <2>2. r[i] = TickEffect(event, r[i - 1], s[i])
    BY <1>1, <1>6 DEF Steps
  <2>3. s[i] \in Left(i - 1) /\ Left(i) = Left(i - 1) \ {s[i]}
    <3>1. ((i - 1) + 1)..n = {i} \cup (i + 1)..n /\ i \notin (i + 1)..n /\ (i + 1)..n \subseteq 1..n
      BY <1>0
    <3>2. \A j \in (i + 1)..n : s[j] # s[i]
      BY <1>0, <1>s, <3>1 DEF IsInjective
    <3> QED
      BY <3>1, <3>2
  <2>4. s[i] \in DOMAIN Effects
    BY <1>0, <1>s
  <2> HIDE DEF Left
  <2>5. Ticking(c, r[i], Left(i))
    BY <2>1, <2>2, <2>3, <2>4, TickTurn
  <2> QED
    BY <2>1, <2>5
<1>9. Ticking(c, r[n], Left(n))
  <2> HIDE DEF Left
  <2>1. n \in Good
    <3> HIDE DEF Good
    <3> QED
      BY ONLY <1>0, <1>7, <1>8, Climb
  <2> QED
    BY <2>1
<1>11. Left(n) = {}
  BY <1>0
<1>12. Ticking(c, all, {})
  BY <1>6, <1>9, <1>11
<1> QED
  BY <1>12 DEF all

\* A creature after a tick.
LEMMA ConditionsTicked ==
    ASSUME NEW c, Sane(c), NEW event
    PROVE  LET d == TickConditions(c, event).c IN Sane(d) /\ Same(c, d)
<1> DEFINE t == AllTicked(c, event)
           left == Restrict(t.ticks, DOMAIN t.ticks \ ToSet(t.expired))
           b == [t.c EXCEPT !.condition_ticks = left]
           done == FoldLeft(RemoveCondition, b, t.expired)
           f == Refreshed(done)
<1>1. TickConditions(c, event) = Settled(t)
  BY DEF TickConditions, AllTicked
<1>2. Ticking(c, t, {})
  BY TickAll
<1> HIDE DEF t
<1>3. Settled(t).c \in {done, f}
  BY DEF Settled
<1>4. /\ left \in Tickings /\ DOMAIN left = DOMAIN t.ticks \ ToSet(t.expired)
      /\ \A x \in DOMAIN left : left[x] = t.ticks[x]
  <2>1. left \in [DOMAIN t.ticks \ ToSet(t.expired) -> Nat] /\ DOMAIN t.ticks \subseteq DOMAIN Effects
    BY <1>2 DEF Ticking, Tickings, Restrict
  <2>2. \A x \in DOMAIN left : left[x] = t.ticks[x]
    BY DEF Restrict
  <2> HIDE DEF left
  <2> QED
    BY <2>1, <2>2 DEF Tickings
<1> HIDE DEF left
<1>5. Sane(t.c) /\ Same(c, t.c) /\ t.c \in CreatureType
  BY <1>2 DEF Ticking, Sane
<1>6. /\ b \in CreatureType /\ Same(t.c, b) /\ b.active_effects = t.c.active_effects /\ b.condition_ticks = left
      /\ b.stat_mods = t.c.stat_mods /\ b.skill_mods = t.c.skill_mods
  BY <1>4, <1>5 DEF CreatureType, Same
<1> HIDE DEF b
<1>7. \A x \in DOMAIN left : left[x] \in 1..Effects[x].duration
  <2>1. \A x \in DOMAIN left : x \in DOMAIN Effects /\ Effects[x].duration \in Nat
    BY <1>4, EffectsAssumption DEF Tickings, EffectDef
  <2> QED
    BY <1>2, <1>4, <2>1 DEF Ticking
<1>8. DOMAIN left \subseteq {x \in ToSet(b.active_effects) : Effects[x].duration > 0}
  BY <1>2, <1>4, <1>6 DEF Ticking, Sane, InStep
<1>9. ActiveModifiers(b) = ActiveModifiers(t.c)
  BY <1>6 DEF ActiveModifiers
<1>10. StatMods(b) = StatMods(t.c) /\ SkillMods(b) = SkillMods(t.c)
  BY <1>9 DEF StatMods, SkillMods
<1>11. Sane(b)
  BY <1>5, <1>6, <1>7, <1>8, <1>10 DEF Sane, InStep
<1>12. Sane(done) /\ Same(b, done)
  <2>1. t.expired \in Seq(DOMAIN Effects)
    BY <1>2 DEF Ticking
  <2> QED
    BY <1>11, <2>1, Lifted
<1> HIDE DEF done
<1>13. Sane(f) /\ Same(done, f)
  <2>1. /\ f \in CreatureType /\ Same(done, f)
        /\ f.active_effects = done.active_effects /\ f.condition_ticks = done.condition_ticks
        /\ f.stat_mods = StatMods(f) /\ f.skill_mods = SkillMods(f)
    BY <1>12, RefreshedIs DEF Sane
  <2> HIDE DEF f
  <2> QED
    BY <1>12, <2>1 DEF Sane, InStep
<1> HIDE DEF f
<1>14. Same(c, done) /\ Same(c, f)
  BY <1>5, <1>6, <1>12, <1>13 DEF Same
<1> QED
  BY <1>1, <1>3, <1>12, <1>13, <1>14

(***************************************************************************)
(* Numbers                                                                 *)
(***************************************************************************)

\* What is worn modifies, and what it grants.
LEMMA GearModifies ==
    ASSUME NEW c \in CreatureType, NEW o
    PROVE  /\ Modifying(EquipmentModifiers(c, o)) /\ Modifying(GrantedModifiers(c, o))
           /\ \A g \in DOMAIN GrantedModifiers(c, o) : GrantedModifiers(c, o)[g].regen \in Int
<1> DEFINE W == WornActive(c, o)
           Pairs(i) == {<<i, n>> : n \in DOMAIN Gear[i].grants}
           all == UNION {Pairs(i) : i \in W}
           granted == {g \in all : Gear[g[1]].grants[g[2]] \in DOMAIN Effects}
           G == GrantedModifiers(c, o)
           E == EquipmentModifiers(c, o)
<1>1. W \subseteq Items /\ IsFiniteSet(W)
  <2>1. c.body \subseteq Items
    BY DEF CreatureType
  <2>2. W \in SUBSET Items
    BY <2>1 DEF WornActive
  <2>3. IsFiniteSet(Items)
    BY KindsAssumption
  <2> HIDE DEF W
  <2> QED
    BY <2>2, <2>3, FS_Subset
<1> HIDE DEF W
<1>2. ASSUME NEW i \in W PROVE IsFiniteSet(Pairs(i)) /\ \A g \in Pairs(i) : g[1] = i /\ g[2] \in Nat \ {0}
  <2> DEFINE s == Gear[i].grants
             f == [n \in 1..Len(s) |-> <<i, n>>]
  <2>1. s \in Seq(STRING)
    BY <1>1, KindsAssumption
  <2> HIDE DEF s
  <2>2. Len(s) \in Nat /\ DOMAIN s = 1..Len(s)
    BY <2>1
  <2>3. IsFiniteSet(1..Len(s))
    BY <2>2, FS_Interval
  <2> DEFINE P == {<<i, n>> : n \in DOMAIN s}
  <2>4. f \in Surjection(1..Len(s), P)
    BY <2>2 DEF Surjection
  <2>5. IsFiniteSet(P)
    <3> HIDE DEF P, f
    <3> QED
      BY <2>3, <2>4, FS_Surjection
  <2>6. \A g \in P : g[1] = i /\ g[2] \in Nat \ {0}
    BY <2>2
  <2> QED
    BY <2>5, <2>6 DEF s
<1> HIDE DEF Pairs
<1>3. IsFiniteSet(all) /\ \A g \in all : g[1] \in W /\ g[2] \in Nat \ {0}
  <2> DEFINE f == [i \in W |-> Pairs(i)]
             T == {Pairs(i) : i \in W}
  <2>1. f \in Surjection(W, T)
    BY DEF Surjection
  <2>2. \A P \in T : IsFiniteSet(P)
    BY <1>2
  <2>3. all = UNION T
    OBVIOUS
  <2>4. \A g \in all : g[1] \in W /\ g[2] \in Nat \ {0}
    BY <1>2
  <2> HIDE DEF f, T, all
  <2>5. IsFiniteSet(T)
    BY <1>1, <2>1, FS_Surjection
  <2> QED
    BY <2>2, <2>3, <2>4, <2>5, FS_UNION
<1>4. granted \in SUBSET all
  OBVIOUS
<1>5. G = [g \in granted |-> Effects[Gear[g[1]].grants[g[2]]]]
  BY DEF GrantedModifiers, W, Pairs
<1> HIDE DEF all
<1>6. IsFiniteSet(granted) /\ \A g \in granted : g[2] # 0 /\ Gear[g[1]].grants[g[2]] \in DOMAIN Effects
  <2>1. \A g \in granted : g \in all /\ Gear[g[1]].grants[g[2]] \in DOMAIN Effects
    OBVIOUS
  <2>2. IsFiniteSet(granted)
    <3> HIDE DEF granted
    <3> QED
      BY <1>3, <1>4, FS_Subset
  <2> QED
    BY <1>3, <2>1, <2>2
<1> HIDE DEF granted
<1>7. DOMAIN G = granted
  BY <1>5
<1>8. ASSUME NEW g \in granted
      PROVE  /\ G[g].stats \in [Stats -> Int] /\ G[g].skills \in [Skills -> Int]
             /\ G[g].max_health \in Int /\ G[g].regen \in Int
  <2>1. G[g] = Effects[Gear[g[1]].grants[g[2]]] /\ Gear[g[1]].grants[g[2]] \in DOMAIN Effects
    BY <1>5, <1>6
  <2>2. G[g] \in EffectDef
    BY <2>1, EffectsAssumption
  <2> QED
    BY <2>2 DEF EffectDef
<1>9. E = [g \in granted \cup (W \X {0}) |-> IF g[2] = 0 THEN Gear[g[1]] ELSE G[g]]
  BY <1>7 DEF EquipmentModifiers, W
<1> HIDE DEF G
<1>10. DOMAIN E = granted \cup (W \X {0}) /\ IsFiniteSet(DOMAIN E)
  <2>1. IsFiniteSet({0})
    BY FS_Singleton
  <2>2. IsFiniteSet(W \X {0})
    BY <1>1, <2>1, FS_Product
  <2>3. IsFiniteSet(granted \cup (W \X {0}))
    BY <1>6, <2>2, FS_Union
  <2>4. DOMAIN E = granted \cup (W \X {0})
    BY <1>9
  <2> QED
    BY <2>3, <2>4
<1>11. ASSUME NEW g \in DOMAIN E
       PROVE  E[g].stats \in [Stats -> Int] /\ E[g].skills \in [Skills -> Int] /\ E[g].max_health \in Int
  <2>1. CASE g \in granted
    <3>1. E[g] = G[g]
      BY <1>6, <1>9, <2>1
    <3> QED
      BY <1>8, <2>1, <3>1
  <2>2. CASE g \in W \X {0}
    <3>1. E[g] = Gear[g[1]] /\ g[1] \in Items
      BY <1>1, <1>9, <2>2
    <3> QED
      BY <3>1, KindsAssumption
  <2> QED
    BY <1>10, <2>1, <2>2
<1> HIDE DEF E
<1>12. Modifying(E) /\ Modifying(G)
  BY <1>6, <1>7, <1>8, <1>10, <1>11 DEF Modifying
<1> QED
  BY <1>7, <1>8, <1>12 DEF E, G

\* So do their sums.
LEMMA Scores ==
    ASSUME NEW c \in CreatureType, NEW o
    PROVE  /\ \A s \in Stats : EffectiveStat(c, s, o) \in Int
           /\ \A k \in Skills : EffectiveSkill(c, k, o) \in Int
           /\ EffectiveMaxHealth(c, o) \in Nat \ {0}
           /\ EquipmentRegen(c, o) \in Int
<1> DEFINE E == EquipmentModifiers(c, o)
           G == GrantedModifiers(c, o)
<1>1. Modifying(E) /\ Modifying(G) /\ \A g \in DOMAIN G : G[g].regen \in Int
  BY GearModifies
<1>2. /\ \A s \in Stats : SumOfStats(E, s) \in Int
      /\ \A k \in Skills : SumOfSkills(E, k) \in Int
      /\ SumOfMaxHealth(E) \in Int
  <2> HIDE DEF E
  <2> QED
    BY <1>1, SumsType
<1>3. ASSUME NEW s \in Stats PROVE EffectiveStat(c, s, o) \in Int
  <2>1. c.stats[s] \in Int /\ c.stat_mods[s] \in Int
    BY DEF CreatureType
  <2>2. c.stats[s] + c.stat_mods[s] + SumOfStats(E, s) \in Int
    BY <1>2, <2>1
  <2> QED
    BY <2>2 DEF EffectiveStat, CreatureStat
<1>4. ASSUME NEW k \in Skills PROVE EffectiveSkill(c, k, o) \in Int
  <2>1. c.skills[k] \in Int /\ c.skill_mods[k] \in Int
    BY DEF CreatureType
  <2>2. c.skills[k] + c.skill_mods[k] + SumOfSkills(E, k) \in Int
    BY <1>2, <2>1
  <2> QED
    BY <2>2 DEF EffectiveSkill, CreatureSkill
<1>5. EffectiveMaxHealth(c, o) \in Nat \ {0}
  <2> DEFINE n == CreatureMaxHealth(c) + SumOfMaxHealth(E)
  <2>1. CreatureMaxHealth(c) \in Nat
    BY EffectsModify
  <2>2. n \in Int
    BY <1>2, <2>1
  <2>3. AtLeast(1, n) \in Int /\ AtLeast(1, n) >= 1
    <3> HIDE DEF n
    <3> QED
      BY <2>2, Bounds
  <2> QED
    BY <2>3 DEF EffectiveMaxHealth
<1>6. EquipmentRegen(c, o) \in Int
  <2> DEFINE D == DOMAIN G
             e == [of |-> "regen", mods |-> G]
             P(g) == g = [S \in SUBSET D |-> IF S = {} THEN 0 ELSE G[One(S)].regen + g[S \ {One(S)}]]
  <2>1. \A m : Term(e, m) = G[m].regen
    BY DEF Term
  <2>2. EquipmentRegen(c, o) = (CHOOSE g : P(g))[D]
    BY DEF EquipmentRegen, MapThenSumSet, MapThenFoldSet, One
  <2> HIDE DEF e, G
  <2>3. \A m \in D : Term(e, m) \in Int
    BY <1>1, <2>1
  <2>4. \A g : IsSum(e, D, g) <=> P(g)
    BY <2>1 DEF IsSum
  <2>7. IsFiniteSet(D)
    BY <1>1 DEF Modifying
  <2>5. \E g : P(g)
    BY <2>4, <2>7, SumExists
  <2> HIDE DEF P
  <2>6. IsSum(e, D, CHOOSE g : P(g))
    BY <2>4, <2>5
  <2> QED
    BY <2>2, <2>3, <2>6, <2>7, SumType
<1> QED
  BY <1>3, <1>4, <1>5, <1>6

\* What gear mends.
LEMMA Mended ==
    ASSUME NEW c, Sane(c), NEW o
    PROVE  Sane(Regenerated(c, o)) /\ Same(c, Regenerated(c, o))
<1> DEFINE m == EffectiveMaxHealth(c, o)
           n == CreatureHealth(c) + EquipmentRegen(c, o)
           next == AtMost(m, n)
           d == [c EXCEPT !.health = next]
<1>1. c \in CreatureType /\ c.health \in Nat
  BY DEF Sane, CreatureType
<1>2. m \in Nat \ {0} /\ EquipmentRegen(c, o) \in Int
  BY <1>1, Scores
<1>3. CreatureHealth(c) \in Nat
  BY <1>1 DEF CreatureHealth, AtLeast
<1>4. CASE EquipmentRegen(c, o) > 0 /\ next > CreatureHealth(c)
  <2>1. Regenerated(c, o) = d
    BY <1>4 DEF Regenerated
  <2>2. next \in Nat
    <3>1. n \in Int /\ n >= 0
      BY <1>2, <1>3, <1>4
    <3>2. m \in Nat
      BY <1>2
    <3> HIDE DEF m, n
    <3> QED
      BY <3>1, <3>2 DEF AtMost
  <2> HIDE DEF next
  <2> QED
    BY <2>1, <2>2, HealthSet
<1>5. CASE ~(EquipmentRegen(c, o) > 0 /\ next > CreatureHealth(c))
  <2>1. Regenerated(c, o) = c
    BY <1>5 DEF Regenerated
  <2> QED
    BY <2>1 DEF Same
<1> QED
  BY <1>4, <1>5

\* Experience.
LEMMA Awarded ==
    ASSUME NEW c, Sane(c), NEW k \in Skills, NEW xp \in Nat
    PROVE  LET d == AwardSkillXp(c, k, xp) IN
             /\ Sane(d) /\ d.id = c.id /\ d.active = c.active /\ d.body = c.body /\ d.health = c.health
             /\ d.location = c.location /\ d.home = c.home /\ d.owner = c.owner
<1> DEFINE total == c.skill_xp[k] + xp
           d == [c EXCEPT !.skill_xp[k] = total]
           e == [c EXCEPT !.skills[k] = @ + 1, !.skill_xp[k] = 0]
<1>0. c \in CreatureType /\ c.skills[k] \in Int /\ c.skill_xp[k] \in Int
  BY DEF Sane, CreatureType
<1>1. AwardSkillXp(c, k, xp) \in {d, e}
  BY DEF AwardSkillXp
<1>2. ASSUME NEW f \in {d, e}
      PROVE  /\ f \in CreatureType
             /\ f.active_effects = c.active_effects /\ f.condition_ticks = c.condition_ticks
             /\ f.stat_mods = c.stat_mods /\ f.skill_mods = c.skill_mods
             /\ f.id = c.id /\ f.active = c.active /\ f.body = c.body /\ f.health = c.health
             /\ f.location = c.location /\ f.home = c.home /\ f.owner = c.owner
  <2>1. CASE f = d
    <3>1. total \in Int
      BY <1>0
    <3> HIDE DEF total
    <3>2. [c.skill_xp EXCEPT ![k] = total] \in [Skills -> Int]
      BY <1>0, <3>1 DEF CreatureType
    <3> QED
      BY <1>0, <2>1, <3>2 DEF CreatureType
  <2>2. CASE f = e
    <3>1. c.skills[k] + 1 \in Int
      BY <1>0
    <3>2. [c.skill_xp EXCEPT ![k] = 0] \in [Skills -> Int] /\ [c.skills EXCEPT ![k] = @ + 1] \in [Skills -> Int]
      BY <1>0, <3>1 DEF CreatureType
    <3> QED
      BY <1>0, <2>2, <3>2 DEF CreatureType
  <2> QED
    BY <2>1, <2>2
<1> HIDE DEF d, e
<1>3. \A f \in {d, e} : Sane(f)
  BY <1>2, Resettled
<1> QED
  BY <1>1, <1>2, <1>3

\* The entries of a behaviour, whose damages are numbers.
Entries ==
    [event : STRING \cup Events, react : Reacts \cup {"none"}, attack_damage : Nat \cup {NoDamage},
     awareness_check : {"none", "yes", "no"}, perception : Int, grant_effect_on_hit : STRING \cup {"none"}]

\* What a template lists are react entries.
LEMMA EntriesAre ==
    ASSUME NEW x \in DOMAIN Templates
    PROVE  TemplateEntries(Templates[x]) \in Seq(Entries)
<1> DEFINE t == Templates[x]
           E == Entries
           a == Entry("on_enter", t.react, t.attack_damage, t.awareness_check, t.perception, t.grant_effect_on_hit)
           b == Entry("on_discovered", t.on_discovered_react, t.attack_damage, t.awareness_check, t.perception, t.grant_effect_on_hit)
<1>1. t \in Template
  BY TemplatesAssumption
<1>2. TemplateEntries(t) = <<a>> \o (IF t.on_discovered_react = "none" THEN <<>> ELSE <<b>>)
  BY DEF TemplateEntries
<1> HIDE DEF t
<1>3. a \in E /\ b \in E
  BY <1>1 DEF Entry, Entries, Events, Template
<1> HIDE DEF a, b
<1>4. <<a>> \in Seq(E) /\ <<b>> \in Seq(E)
  BY <1>3
<1>5. <<>> \in Seq(E)
  OBVIOUS
<1>6. (IF t.on_discovered_react = "none" THEN <<>> ELSE <<b>>) \in Seq(E)
  BY <1>4, <1>5
<1> HIDE DEF E
<1>7. TemplateEntries(t) \in Seq(E)
  BY <1>2, <1>4, <1>6
<1> QED
  BY <1>7 DEF E, t

\* What a creature's behaviour deals.
LEMMA BehavesAs ==
    ASSUME NEW m \in Npcs
    PROVE  Behaviors(m) \in Seq(Entries)
<1> DEFINE E == Entries
           s == UseBehaviors[m]
           e == [way |-> "entries"]
           n == Len(s)
           F == FoldLeft(LAMBDA acc, t : IF t \in DOMAIN Templates THEN acc \o TemplateEntries(Templates[t]) ELSE acc,
                         <<>>, s)
           P(g) == g = [S \in SUBSET (DOMAIN s) |->
                           IF S = {} THEN <<>>
                           ELSE IF s[Max(S)] \in DOMAIN Templates
                                THEN g[S \ {Max(S)}] \o TemplateEntries(Templates[s[Max(S)]]) ELSE g[S \ {Max(S)}]]
<1>0. s \in Seq(STRING)
  BY TemplatesAssumption
<1>1. \A a, y : Step(e, a, y) = IF y \in DOMAIN Templates THEN a \o TemplateEntries(Templates[y]) ELSE a
  BY DEF Step
<1>2. F = (CHOOSE g : P(g))[DOMAIN s]
  BY DEF FoldLeft, MapThenFoldSet
<1>13. Behaviors(m) = F \o [i \in DOMAIN Scripted[m] |-> ScriptEntry(Scripted[m][i])]
  BY DEF Behaviors
<1> HIDE DEF e, s, F
<1>9. n \in Nat /\ DOMAIN s = 1..n
  BY <1>0
<1>3. ASSUME NEW g PROVE IsRun(e, <<>>, s, DOMAIN s, g) <=> P(g)
  <2>1. ASSUME NEW S
        PROVE  Step(e, g[S \ {Max(S)}], s[Max(S)])
                 = IF s[Max(S)] \in DOMAIN Templates
                   THEN g[S \ {Max(S)}] \o TemplateEntries(Templates[s[Max(S)]]) ELSE g[S \ {Max(S)}]
    BY <1>1
  <2> QED
    BY <2>1 DEF IsRun
<1> HIDE DEF P, n
<1>4. \E g : P(g)
  BY <1>9, <1>3, RunExists
<1> DEFINE run == CHOOSE g : P(g)
<1>5. P(run)
  BY <1>4
<1> HIDE DEF run
<1>11. IsRun(e, <<>>, s, 1..n, run)
  BY <1>9, <1>3, <1>5
<1>6. PICK r : Steps(e, <<>>, s, n, r) /\ r[n] = F
  <2>1. F = run[1..n]
    BY <1>9, <1>2 DEF run
  <2> QED
    BY <1>9, <1>11, <2>1, RunSteps
<1> DEFINE Good == {i \in 0..n : r[i] \in Seq(E)}
<1>7. 0 \in Good
  <2>1. r[0] = <<>>
    BY <1>6 DEF Steps
  <2>2. <<>> \in Seq(E)
    OBVIOUS
  <2> HIDE DEF E
  <2>3. r[0] \in Seq(E)
    BY <2>1, <2>2, Zenon
  <2>4. 0 \in 0..n
    BY <1>9
  <2> QED
    BY <2>3, <2>4
<1>8. ASSUME NEW i \in 1..n, i - 1 \in Good
      PROVE  i \in Good
  <2>1. r[i] = Step(e, r[i - 1], s[i]) /\ r[i - 1] \in Seq(E) /\ i \in 0..n
    BY <1>6, <1>8, <1>9 DEF Steps
  <2>2. r[i] = IF s[i] \in DOMAIN Templates THEN r[i - 1] \o TemplateEntries(Templates[s[i]]) ELSE r[i - 1]
    BY <1>1, <2>1
  <2>3. s[i] \in DOMAIN Templates => TemplateEntries(Templates[s[i]]) \in Seq(E)
    BY EntriesAre
  <2> DEFINE a == r[i - 1]
             b == TemplateEntries(Templates[s[i]])
  <2> HIDE DEF E, a, b
  <2>4. a \in Seq(E) /\ (s[i] \in DOMAIN Templates => b \in Seq(E)) /\ r[i] = IF s[i] \in DOMAIN Templates THEN a \o b ELSE a
    BY <2>1, <2>2, <2>3 DEF a, b
  <2>5. r[i] \in Seq(E)
    BY <2>4
  <2> QED
    BY <2>1, <2>5
<1>10. F \in Seq(E)
  <2>1. n \in Good
    <3> HIDE DEF Good
    <3> QED
      BY ONLY <1>9, <1>7, <1>8, Climb
  <2> QED
    BY <1>6, <2>1
<1>12. [i \in DOMAIN Scripted[m] |-> ScriptEntry(Scripted[m][i])] \in Seq(E)
  <2> DEFINE q == Scripted[m]
             h == [i \in DOMAIN q |-> ScriptEntry(q[i])]
  <2> DEFINE L == [event : STRING, react : Reacts]
  <2>1. q \in Seq(L)
    BY TemplatesAssumption
  <2>6. \A x \in L : x.event \in STRING /\ x.react \in Reacts
    OBVIOUS
  <2> HIDE DEF q, L
  <2>7. Len(q) \in Nat /\ DOMAIN q = 1..Len(q) /\ \A i \in 1..Len(q) : q[i] \in L
    BY <2>1
  <2>2. Len(q) \in Nat /\ DOMAIN q = 1..Len(q) /\ \A i \in 1..Len(q) : q[i].event \in STRING /\ q[i].react \in Reacts
    BY <2>6, <2>7
  <2>3. \A i \in 1..Len(q) : ScriptEntry(q[i]) \in E
    BY <2>2 DEF ScriptEntry, Entry, Entries
  <2> HIDE DEF E
  <2>4. h \in [1..Len(q) -> E]
    BY <2>2, <2>3
  <2>5. h \in Seq(E)
    BY <2>2, <2>4
  <2> QED
    BY <2>5 DEF q
<1> DEFINE Q == [i \in DOMAIN Scripted[m] |-> ScriptEntry(Scripted[m][i])]
<1> HIDE DEF E, Q
<1>14. Behaviors(m) \in Seq(E)
  BY <1>10, <1>12, <1>13 DEF Q
<1> QED
  BY <1>14 DEF E

\* Some numbers have a greatest.
LEMMA MaxIn ==
    ASSUME NEW S, S \subseteq Nat, IsFiniteSet(S), S # {}
    PROVE  Max(S) \in S
<1> DEFINE Big(k) == \A x \in S : x <= k
<1>1. \E k \in Nat : Big(k)
  <2> DEFINE n == Cardinality(S)
             Good == {i \in 0..n : \A T \in SUBSET S : Cardinality(T) <= i => \E k \in Nat : \A x \in T : x <= k}
  <2>0. n \in Nat /\ \A T \in SUBSET S : IsFiniteSet(T) /\ Cardinality(T) \in Nat
    BY FS_CardinalityType, FS_Subset
  <2>1. 0 \in Good
    <3>1. \A T \in SUBSET S : Cardinality(T) <= 0 => T = {}
      BY <2>0, FS_EmptySet
    <3>2. \E k \in Nat : \A x \in {} : x <= k
      OBVIOUS
    <3> HIDE DEF n
    <3>3. 0 \in 0..n
      BY <2>0
    <3> QED
      BY <3>1, <3>2, <3>3
  <2>2. ASSUME NEW i \in 1..n, i - 1 \in Good
        PROVE  i \in Good
    <3>1. ASSUME NEW T \in SUBSET S, Cardinality(T) <= i
          PROVE  \E k \in Nat : \A x \in T : x <= k
      <4>1. CASE T = {}
        BY <4>1
      <4>2. CASE T # {}
        <5>1. PICK y \in T : TRUE
          BY <4>2
        <5>2. Cardinality(T \ {y}) = Cardinality(T) - 1
          BY <2>0, FS_RemoveElement
        <5>3. PICK k \in Nat : \A x \in T \ {y} : x <= k
          BY <2>0, <2>2, <3>1, <5>2
        <5>4. y \in Nat
          OBVIOUS
        <5>5. CASE y <= k
          BY <5>3, <5>5
        <5>6. CASE ~(y <= k)
          <6>1. \A x \in T : x <= y
            BY <5>3, <5>4, <5>6
          <6> QED
            BY <5>4, <6>1
        <5> QED
          BY <5>5, <5>6
      <4> QED
        BY <4>1, <4>2
    <3> HIDE DEF n
    <3> QED
      BY <2>0, <2>2, <3>1
  <2>3. n \in Good
    <3> HIDE DEF Good, n
    <3> QED
      BY ONLY <2>0, <2>1, <2>2, Climb
  <2> QED
    BY <2>0, <2>3
<1> DEFINE T == {k \in Nat : Big(k)}
<1>2. PICK m \in T : \A k \in T : m <= k
  <2>1. T \subseteq Nat /\ T # {}
    BY <1>1
  <2> HIDE DEF T
  <2> QED
    BY <2>1, LeastNumber
<1>3. m \in S
  <2>1. SUFFICES ASSUME m \notin S PROVE FALSE
    OBVIOUS
  <2>2. m # 0
    <3>1. PICK x \in S : TRUE
      OBVIOUS
    <3>2. x <= m /\ x \in Nat /\ x # m
      BY <1>2, <2>1
    <3> QED
      BY <3>2
  <2>3. m - 1 \in T
    BY <1>2, <2>1, <2>2
  <2> QED
    BY <1>2, <2>3
<1> QED
  BY <1>2, <1>3, MaxIs

\* What a creature's attack does to a player is a number.
LEMMA AttackIs ==
    ASSUME NEW m \in Npcs
    PROVE  AttackDamage(m) \in Int
<1> DEFINE s == Behaviors(m)
           all == {s[i].attack_damage : i \in DOMAIN s}
           given == all \ {NoDamage}
<1>1. s \in Seq(Entries)
  BY BehavesAs
<1>6. AttackDamage(m) = IF given = {} THEN DefaultAttackDamage ELSE AtLeast(1, Max(given))
  BY DEF AttackDamage
<1> HIDE DEF s
<1>2. Len(s) \in Nat /\ DOMAIN s = 1..Len(s) /\ \A i \in 1..Len(s) : s[i].attack_damage \in Nat \cup {NoDamage}
  <2>1. Len(s) \in Nat /\ DOMAIN s = 1..Len(s) /\ \A i \in 1..Len(s) : s[i] \in Entries
    BY <1>1
  <2> QED
    BY <2>1 DEF Entries
<1>3. IsFiniteSet(given) /\ given \subseteq Nat
  <2> DEFINE f == [i \in 1..Len(s) |-> s[i].attack_damage]
  <2>1. f \in Surjection(1..Len(s), all)
    BY <1>2 DEF Surjection
  <2>2. IsFiniteSet(1..Len(s))
    BY <1>2, FS_Interval
  <2>3. all \subseteq Nat \cup {NoDamage}
    BY <1>2
  <2> HIDE DEF f, all
  <2>4. IsFiniteSet(all)
    BY <2>1, <2>2, FS_Surjection
  <2> QED
    BY <2>3, <2>4, FS_Difference
<1> HIDE DEF given
<1>4. given # {} => Max(given) \in Nat
  BY <1>3, MaxIn
<1>5. given # {} => AtLeast(1, Max(given)) \in Int
  BY <1>4 DEF AtLeast
<1> QED
  BY <1>5, <1>6 DEF DefaultAttackDamage

\* So are the strikes of an exchange.
LEMMA HitsAre ==
    ASSUME NEW a \in CreatureType, NEW d \in CreatureType, NEW o, NEW seed \in Nat, NEW surprise
    PROVE  /\ CombatHit(a, d, seed, surprise, o) \in Int
           /\ \A m \in Npcs : RetaliationHit(m, a, d, seed, surprise, o) \in Int
<1>1. Variance(seed) \in Int
  BY DEF Variance
<1>2. BaseDamage(a, d, o) \in Int
  <2> DEFINE x == EffectiveStat(a, "strength", o)
             y == EffectiveSkill(a, "combat", o)
             z == EffectiveStat(d, "constitution", o)
             w == EffectiveStat(d, "dexterity", o)
             power == AtLeast(3, x + 2 + (y \div 2))
             defense == (z \div 3) + (w \div 4)
  <2>1. x \in Int /\ y \in Int /\ z \in Int /\ w \in Int
    BY Scores DEF Stats, Skills
  <2>2. BaseDamage(a, d, o) = AtLeast(1, power - defense)
    BY DEF BaseDamage
  <2> HIDE DEF x, y, z, w
  <2>3. x + 2 + (y \div 2) \in Int /\ defense \in Int
    BY <2>1
  <2>4. power \in Int
    BY <2>3 DEF AtLeast
  <2>5. power - defense \in Int
    BY <2>3, <2>4
  <2> HIDE DEF power, defense
  <2> QED
    BY <2>2, <2>5 DEF AtLeast
<1>3. CombatHit(a, d, seed, surprise, o) \in Int
  <2> DEFINE bonus == IF surprise THEN SurpriseDamageBonus
                      ELSE IF EffectiveSkill(a, "combat", o) >= 4 /\ seed % 15 = 7 THEN CriticalDamageBonus
                      ELSE 0
             n == BaseDamage(a, d, o) + Variance(seed) + bonus
  <2>1. bonus \in Int
    BY DEF SurpriseDamageBonus, CriticalDamageBonus
  <2>2. CombatHit(a, d, seed, surprise, o) = AtLeast(1, n)
    BY DEF CombatHit
  <2> HIDE DEF bonus
  <2>3. n \in Int
    BY <1>1, <1>2, <2>1
  <2> HIDE DEF n
  <2> QED
    BY <2>2, <2>3 DEF AtLeast
<1>4. ASSUME NEW m \in Npcs
      PROVE  RetaliationHit(m, a, d, seed, surprise, o) \in Int
  <2> DEFINE bonus == IF surprise THEN SurpriseDamageBonus ELSE 0
             n == AttackDamage(m) + Variance(seed) + bonus
  <2>1. bonus \in Int
    BY DEF SurpriseDamageBonus
  <2>2. RetaliationHit(m, a, d, seed, surprise, o) \in {AtLeast(1, n), CombatHit(a, d, seed, surprise, o)}
    BY DEF RetaliationHit
  <2> HIDE DEF bonus
  <2>3. n \in Int
    BY <1>1, <2>1, AttackIs
  <2> HIDE DEF n
  <2> QED
    BY <1>3, <2>2, <2>3 DEF AtLeast
<1> QED
  BY <1>3, <1>4

(***************************************************************************)
(* The object map                                                          *)
(***************************************************************************)

\* Items, corpses and rooms, as far as commands touch them.
ItemType == [active : {TRUE}, location : Ids, hidden : BOOLEAN, player_discovered : BOOLEAN]
CorpseType ==
    [active : BOOLEAN, location : Rooms, owner : Creatures \cup {Nobody}, corpse_of : Creatures, contents : SUBSET Items]
Place == [active |-> TRUE]

\* What an object with an id looks like.
Fits(id, x) ==
    /\ id \in Creatures => Sane(x) /\ x.id = id /\ (id \in Players => x.active)
    /\ id \in Items => x \in ItemType
    /\ id \in Rooms => x = Place
    /\ id \in Corpses => x \in CorpseType

IsMap(o) == o = [id \in DOMAIN o |-> o[id]]

MapType(o) ==
    /\ IsMap(o)
    /\ DOMAIN o \subseteq Ids /\ Players \cup Items \cup Rooms \subseteq DOMAIN o
    /\ \A id \in DOMAIN o : Fits(id, o[id])

\* What may become of the object x without a death; with gains, it may become
\* more skilled in combat.
Stays(id, x, y, gains) ==
    /\ Fits(id, y)
    /\ id \in Creatures =>
         /\ y.active = x.active /\ y.body = x.body
         /\ ~gains => y.skills["combat"] = x.skills["combat"] /\ y.skill_xp["combat"] = x.skill_xp["combat"]
    /\ id \in Items => y.location = x.location \/ {x.location, y.location} \subseteq Rooms
    /\ id \in Rooms \cup Corpses => y = x

\* An outcome in which nobody has died: only what is in W has changed, what has
\* changed is marked, and only those in X are more skilled in combat.
Follows(o, out, W, X) ==
    /\ DOMAIN out.o = DOMAIN o /\ IsMap(out.o)
    /\ out.dirty \subseteq DOMAIN o
    /\ \A id \in DOMAIN o : out.o[id] = o[id] \/ (id \in W /\ id \in out.dirty /\ Stays(id, o[id], out.o[id], id \in X))

\* No id is of two kinds.
LEMMA Kinds ==
    /\ Creatures \cap Items = {} /\ Creatures \cap Rooms = {} /\ Items \cap Rooms = {}
    /\ Corpses \cap Creatures = {} /\ Corpses \cap Items = {} /\ Corpses \cap Rooms = {}
    /\ Nobody \notin Ids
    /\ Players \cap Npcs = {} /\ Creatures = Players \cup Npcs
    /\ \A id \in Ids : IsCorpse(id) <=> id \in Corpses
<1>1. /\ Players \cap Npcs = {} /\ Creatures \cap (Items \cup Rooms) = {} /\ Items \cap Rooms = {}
      /\ Nobody \notin Creatures \cup Items \cup Rooms
  BY KindsAssumption
<1>2. Corpses \cap (Creatures \cup Items \cup Rooms \cup {Nobody}) = {}
  BY CorpsesAssumption
<1>3. Creatures = Players \cup Npcs
  BY DEF Creatures
<1> QED
  BY <1>1, <1>2, <1>3 DEF Ids, IsCorpse

\* Everything fits after it.
LEMMA FollowsFits ==
    ASSUME NEW o, MapType(o), NEW out, NEW W, NEW X, Follows(o, out, W, X)
    PROVE  MapType(out.o)
<1>1. ASSUME NEW id \in DOMAIN out.o
      PROVE  Fits(id, out.o[id])
  BY DEF MapType, Follows, Stays
<1>2. DOMAIN out.o = DOMAIN o /\ IsMap(out.o)
  BY DEF Follows
<1>3. DOMAIN o \subseteq Ids /\ Players \cup Items \cup Rooms \subseteq DOMAIN o
  BY DEF MapType
<1> QED
  BY <1>1, <1>2, <1>3 DEF MapType

\* One after the other.
LEMMA FollowsThen ==
    ASSUME NEW o, NEW out, NEW next, NEW W, NEW X, Follows(o, out, W, X), Follows(out.o, next, W, X)
    PROVE  Follows(o, Appended(out, next), W, X)
<1> DEFINE r == Appended(out, next)
<1>1. r.o = next.o /\ r.dirty = out.dirty \cup next.dirty
  BY DEF Appended
<1> HIDE DEF r
<1>2. ASSUME NEW id \in DOMAIN o, r.o[id] # o[id]
      PROVE  id \in W /\ id \in r.dirty /\ Stays(id, o[id], r.o[id], id \in X)
  <2>1. CASE out.o[id] = o[id]
    BY <1>1, <1>2, <2>1 DEF Follows
  <2>2. CASE next.o[id] = out.o[id]
    BY <1>1, <1>2, <2>2 DEF Follows
  <2>3. CASE out.o[id] # o[id] /\ next.o[id] # out.o[id]
    <3>1. /\ id \in W /\ id \in out.dirty /\ Stays(id, o[id], out.o[id], id \in X)
          /\ Stays(id, out.o[id], next.o[id], id \in X)
      BY <2>3 DEF Follows
    <3>2. Stays(id, o[id], next.o[id], id \in X)
      BY <3>1 DEF Stays
    <3> QED
      BY <1>1, <3>1, <3>2
  <2> QED
    BY <2>1, <2>2, <2>3
<1>3. DOMAIN r.o = DOMAIN o /\ r.dirty \subseteq DOMAIN o
  BY <1>1 DEF Follows
<1>4. IsMap(r.o)
  BY <1>1 DEF Follows
<1>5. Follows(o, r, W, X)
  BY <1>2, <1>3, <1>4 DEF Follows
<1> QED
  BY <1>5 DEF r

\* More may change than does.
LEMMA FollowsWide ==
    ASSUME NEW o, NEW out, NEW W, NEW X, NEW V, NEW Z, Follows(o, out, W, X), W \subseteq V, X \subseteq Z
    PROVE  Follows(o, out, V, Z)
<1>1. \A id, x, y : Stays(id, x, y, id \in X) => Stays(id, x, y, id \in Z)
  BY DEF Stays
<1> QED
  BY <1>1 DEF Follows

\* Nothing changes.
LEMMA FollowsNone ==
    ASSUME NEW o, MapType(o), NEW out, out.o = o, out.dirty \subseteq DOMAIN o, NEW W, NEW X
    PROVE  Follows(o, out, W, X)
BY DEF MapType, Follows

\* One object changes.
LEMMA FollowsOne ==
    ASSUME NEW o, MapType(o), NEW W, NEW X, NEW id, id \in DOMAIN o, id \in W, NEW y, Stays(id, o[id], y, id \in X)
    PROVE  Follows(o, Changed(o, id, y), W, X)
<1> DEFINE r == Changed(o, id, y)
<1>1. r.o = [o EXCEPT ![id] = y] /\ r.dirty = {id}
  BY DEF Changed, Outcome
<1> HIDE DEF r
<1>3. IsMap(o)
  BY DEF MapType
<1>2. /\ DOMAIN r.o = DOMAIN o /\ IsMap(r.o)
      /\ r.o[id] = y /\ \A x \in DOMAIN o : x # id => r.o[x] = o[x]
  BY <1>1, <1>3 DEF IsMap
<1>4. Follows(o, r, W, X)
  BY <1>1, <1>2 DEF Follows
<1> QED
  BY <1>4 DEF r

\* Two do.
LEMMA FollowsTwo ==
    ASSUME NEW o, MapType(o), NEW W, NEW X, NEW a, a \in DOMAIN o, a \in W, NEW b, b \in DOMAIN o, b \in W, NEW y, NEW z,
           Stays(a, o[a], y, a \in X), Stays(b, o[b], z, b \in X)
    PROVE  Follows(o, Outcome([o EXCEPT ![a] = y, ![b] = z], {a, b}), W, X)
<1> DEFINE r == Outcome([o EXCEPT ![a] = y, ![b] = z], {a, b})
<1>1. r.o = [o EXCEPT ![a] = y, ![b] = z] /\ r.dirty = {a, b}
  BY DEF Outcome
<1> HIDE DEF r
<1>3. IsMap(o)
  BY DEF MapType
<1>2. /\ DOMAIN r.o = DOMAIN o /\ IsMap(r.o)
      /\ r.o[b] = z /\ (a # b => r.o[a] = y) /\ \A x \in DOMAIN o : x # a /\ x # b => r.o[x] = o[x]
  BY <1>1, <1>3 DEF IsMap
<1>4. Follows(o, r, W, X)
  BY <1>1, <1>2 DEF Follows
<1> QED
  BY <1>4 DEF r

\* A creature that effects, blows and cures changed.
LEMMA SameStays ==
    ASSUME NEW id \in Creatures, NEW c, Fits(id, c), NEW d, Sane(d), Same(c, d), NEW g
    PROVE  Stays(id, c, d, g)
<1>1. Fits(id, d)
  BY Kinds DEF Fits, Same
<1> QED
  BY <1>1, Kinds DEF Stays, Same

\* A creature elsewhere.
LEMMA ElsewhereStays ==
    ASSUME NEW id, NEW x, Fits(id, x), id \in Creatures \cup Items \cup Rooms, id \in Items => x.location \in Rooms,
           NEW r \in Rooms, NEW g
    PROVE  Stays(id, x, [x EXCEPT !.location = r], g)
<1> DEFINE d == [x EXCEPT !.location = r]
<1>1. CASE id \in Creatures
  <2>1. Sane(x) /\ x.id = id /\ (id \in Players => x.active)
    BY <1>1 DEF Fits
  <2>2. /\ Sane(d) /\ d.active = x.active /\ d.body = x.body /\ d.id = x.id
        /\ d.skills = x.skills /\ d.skill_xp = x.skill_xp
    BY <2>1, LocationSet
  <2> HIDE DEF d
  <2>3. Fits(id, d)
    BY <1>1, <2>1, <2>2, Kinds DEF Fits
  <2> QED
    BY <1>1, <2>2, <2>3, Kinds DEF Stays, d
<1>2. CASE id \in Items
  <2>1. x \in ItemType
    BY <1>2 DEF Fits
  <2>2. d \in ItemType /\ d.location = r
    BY <2>1 DEF ItemType, Ids
  <2> HIDE DEF d
  <2>3. Fits(id, d)
    BY <1>2, <2>2, Kinds DEF Fits
  <2>4. Stays(id, x, d, g)
    BY <1>2, <2>2, <2>3, Kinds DEF Stays
  <2> QED
    BY <2>4 DEF d
<1>3. CASE id \in Rooms
  <2>1. x = Place
    BY <1>3 DEF Fits
  <2>2. [Place EXCEPT !.location = r] = Place
    BY DEF Place
  <2>3. d = x
    BY <2>1, <2>2
  <2>4. Stays(id, x, x, g)
    BY <1>3, Kinds DEF Stays
  <2> QED
    BY <2>3, <2>4
<1> QED
  BY <1>1, <1>2, <1>3

(***************************************************************************)
(* Scripts                                                                 *)
(***************************************************************************)

\* What scripts write into an object is of its kind, only creatures attack, and
\* no script makes anybody more skilled in combat, which only blows do.
TameAction(h, a) ==
    /\ a.act = "react" /\ a.name = "attack" => h \in Npcs
    /\ a.act = "mod_stat" => a.name \in Stats /\ a.value \in Int
    /\ a.act = "mod_skill" => a.name \in Skills \ {"combat"} /\ a.value \in Int
    /\ a.act = "set_property" =>
         \/ a.name \in {"creature_aware", "player_aware", "player_discovered", "uses_awareness_check"} /\ a.value \in BOOLEAN
         \/ a.name \in {"max_health", "perception"} /\ a.value \in Int
         \/ a.name = "health" /\ a.value \in Nat
TameScripts ==
    \A h \in Creatures \cup Items \cup Rooms : \A e \in Events : \A i \in DOMAIN Handlers[h][e] :
        TameAction(h, Handlers[h][e][i].do)

\* What a script may act on: something in W, and a thing only where it lies.
Reached(o, id, W) ==
    /\ id \in Creatures \cup Items \cup Rooms \cup {Nobody}
    /\ id \in DOMAIN o => id \in W
    /\ id \in Items => o[id].location \in Rooms

\* An event among those in W.
Among(o, ctx, W) ==
    /\ ctx.actor \in Creatures /\ ctx.actor \in DOMAIN o
    /\ ctx.host \in Creatures \cup Items \cup Rooms /\ ctx.host \in DOMAIN o
    /\ Reached(o, ctx.actor, W) /\ Reached(o, ctx.host, W) /\ Reached(o, ctx.target, W)

\* Who took part in an event still does after what scripts did.
LEMMA AmongStill ==
    ASSUME NEW o, NEW out, NEW W, NEW X, Follows(o, out, W, X), NEW ctx, Among(o, ctx, W), MapType(o)
    PROVE  Among(out.o, ctx, W)
<1>1. DOMAIN out.o = DOMAIN o
  BY DEF Follows
<1>2. ASSUME NEW id, Reached(o, id, W)
      PROVE  Reached(out.o, id, W)
  <2>1. id \in Items => id \in DOMAIN o
    BY DEF MapType
  <2>2. id \in Items => out.o[id].location \in Rooms
    BY <1>2, <2>1 DEF Reached, Follows, Stays
  <2> QED
    BY <1>1, <1>2, <2>2 DEF Reached
<1> QED
  BY <1>1, <1>2 DEF Among

\* A creature in the map.
LEMMA IsSane ==
    ASSUME NEW o, MapType(o), NEW id, IsCreature(o, id)
    PROVE  id \in DOMAIN o /\ id \in Creatures /\ Fits(id, o[id]) /\ Sane(o[id])
BY DEF MapType, IsCreature, Fits

\* An action on a creature that keeps it sane.
LEMMA CreatureChanges ==
    ASSUME NEW o, MapType(o), NEW id, NEW W, NEW X, Reached(o, id, W), NEW d,
           IsCreature(o, id) => Sane(d) /\ Same(o[id], d)
    PROVE  Follows(o, ChangedCreature(o, id, d), W, X)
<1>1. CASE IsCreature(o, id)
  <2>1. id \in DOMAIN o /\ id \in Creatures /\ Fits(id, o[id]) /\ id \in W
    BY <1>1, IsSane DEF Reached
  <2>2. Stays(id, o[id], d, id \in X)
    BY <1>1, <2>1, SameStays
  <2>3. Follows(o, Changed(o, id, d), W, X)
    BY <2>1, <2>2, FollowsOne
  <2> QED
    BY <1>1, <2>3 DEF ChangedCreature
<1>2. CASE ~IsCreature(o, id)
  <2>1. ChangedCreature(o, id, d) = Outcome(o, {})
    BY <1>2 DEF ChangedCreature
  <2>2. Outcome(o, {}).o = o /\ Outcome(o, {}).dirty = {}
    BY DEF Outcome
  <2>3. Follows(o, Outcome(o, {}), W, X)
    BY <2>2, FollowsNone
  <2> QED
    BY <2>1, <2>3
<1> QED
  BY <1>1, <1>2

\* An outcome that changes nothing.
LEMMA NothingFollows ==
    ASSUME NEW o, MapType(o), NEW W, NEW X, NEW D, D \subseteq DOMAIN o
    PROVE  Follows(o, Outcome(o, D), W, X)
<1>2. Outcome(o, D).o = o /\ Outcome(o, D).dirty = D
  BY DEF Outcome
<1> QED
  BY <1>2, FollowsNone

\* A thing or a creature elsewhere.
LEMMA ElsewhereFollows ==
    ASSUME NEW o, MapType(o), NEW id, NEW W, NEW X, Reached(o, id, W), id \in DOMAIN o, NEW r \in Rooms
    PROVE  Follows(o, Changed(o, id, [o[id] EXCEPT !.location = r]), W, X)
<1>1. Fits(id, o[id]) /\ id \in W
  BY DEF MapType, Reached
<1>2. id \in Creatures \cup Items \cup Rooms /\ (id \in Items => o[id].location \in Rooms)
  BY Kinds DEF Reached, MapType
<1>3. Stays(id, o[id], [o[id] EXCEPT !.location = r], id \in X)
  BY <1>1, <1>2, ElsewhereStays
<1> QED
  BY <1>1, <1>3, FollowsOne

\* A script of flee moves one creature.
LEMMA FleeFollows ==
    ASSUME NEW o, MapType(o), NEW id, NEW W, NEW X, Reached(o, id, W), NEW room
    PROVE  Follows(o, Flee(o, id, room), W, X)
<1> DEFINE ways == {r \in Exits[room] : IsRoom(o, r)}
           way == IF flight[id][room] \in ways THEN flight[id][room] ELSE CHOOSE r \in ways : TRUE
<1>1. CASE IsRoom(o, room) /\ id \in DOMAIN o /\ ways # {}
  <2>1. way \in ways
    BY <1>1
  <2>2. way \in Rooms
    BY <2>1 DEF IsRoom
  <2>3. Flee(o, id, room) = Changed(o, id, [o[id] EXCEPT !.location = way])
    BY <1>1 DEF Flee
  <2> HIDE DEF way
  <2>4. Follows(o, Changed(o, id, [o[id] EXCEPT !.location = way]), W, X)
    BY <1>1, <2>2, ElsewhereFollows
  <2> QED
    BY <2>3, <2>4
<1>2. CASE ~(IsRoom(o, room) /\ id \in DOMAIN o /\ ways # {})
  <2>1. Flee(o, id, room) = Outcome(o, {})
    BY <1>2 DEF Flee
  <2> QED
    BY <2>1, NothingFollows
<1> QED
  BY <1>1, <1>2

\* A script of teleport moves one creature, or a thing between rooms.
LEMMA TeleportFollows ==
    ASSUME NEW o, MapType(o), NEW id, NEW W, NEW X, Reached(o, id, W), NEW place
    PROVE  Follows(o, Teleport(o, id, place), W, X)
<1>1. CASE IsRoom(o, place) /\ id \in DOMAIN o
  BY <1>1, ElsewhereFollows DEF Teleport, IsRoom
<1>2. CASE ~(IsRoom(o, place) /\ id \in DOMAIN o)
  <2>1. Teleport(o, id, place) = Outcome(o, {})
    BY <1>2 DEF Teleport
  <2> QED
    BY <2>1, NothingFollows
<1> QED
  BY <1>1, <1>2

\* An attack of an NPC from a script reveals it, harms the player and buries nobody.
LEMMA NpcAttackFollows ==
    ASSUME NEW o, MapType(o), NEW m \in Npcs, NEW p, NEW W, NEW X, Reached(o, m, W), Reached(o, p, W), NEW n \in Int
    PROVE  Follows(o, NpcAttackPlayer(o, m, p, n), W, X)
<1> DEFINE struck == [ApplyDamage(o[p], n) EXCEPT !.player_aware = TRUE]
           effect == EffectsOnHit(m)
           hit == IF effect = <<>> THEN struck ELSE ApplyCondition(struck, effect[1])
           seen == [o[m] EXCEPT !.player_discovered = TRUE]
           out == Outcome([o EXCEPT ![m] = seen, ![p] = hit], {m, p})
<1>1. CASE m \notin DOMAIN o \/ ~IsCreature(o, p) \/ IsDefeated(o[p])
  <2>1. NpcAttackPlayer(o, m, p, n) = Outcome(o, {})
    BY <1>1 DEF NpcAttackPlayer
  <2> QED
    BY <2>1, NothingFollows
<1>2. CASE ~(m \notin DOMAIN o \/ ~IsCreature(o, p) \/ IsDefeated(o[p]))
  <2>1. NpcAttackPlayer(o, m, p, n) = Outcome([o EXCEPT ![m].player_discovered = TRUE, ![p] = hit], {m, p})
    BY <1>2 DEF NpcAttackPlayer
  <2>2. IsCreature(o, m)
    BY <1>2, Kinds DEF IsCreature
  <2>3. Sane(o[m]) /\ Fits(m, o[m]) /\ Sane(o[p]) /\ Fits(p, o[p]) /\ p \in Creatures /\ m \in Creatures /\ p \in W /\ m \in W
        /\ p \in DOMAIN o /\ m \in DOMAIN o
    BY <1>2, <2>2, IsSane DEF Reached, IsCreature
  <2>4. Sane(seen) /\ Same(o[m], seen)
    BY <2>3, FlagsSet
  <2>5. Sane(struck) /\ Same(o[p], struck)
    <3> DEFINE h == ApplyDamage(o[p], n)
    <3>1. Sane(h) /\ Same(o[p], h)
      BY <2>3, Hurt
    <3> HIDE DEF h
    <3>2. Sane([h EXCEPT !.player_aware = TRUE]) /\ Same(h, [h EXCEPT !.player_aware = TRUE])
      BY <3>1, FlagsSet
    <3> DEFINE k == [h EXCEPT !.player_aware = TRUE]
    <3>3. struck = k
      BY DEF h
    <3> HIDE DEF k
    <3> QED
      BY <3>1, <3>2, <3>3 DEF Same, k
  <2> HIDE DEF struck, seen
  <2>6. Sane(hit) /\ Same(o[p], hit)
    <3> DEFINE k == ApplyCondition(struck, effect[1])
    <3>1. Sane(k) /\ Same(struck, k)
      BY <2>5, Applied
    <3>2. hit \in {struck, k}
      OBVIOUS
    <3> HIDE DEF k, hit
    <3> QED
      BY <2>5, <3>1, <3>2 DEF Same
  <2> HIDE DEF hit
  <2>7. Stays(m, o[m], seen, m \in X) /\ Stays(p, o[p], hit, p \in X)
    BY <2>3, <2>4, <2>6, SameStays
  <2>8. Follows(o, out, W, X)
    BY <2>3, <2>7, FollowsTwo
  <2>9. [o EXCEPT ![m].player_discovered = TRUE, ![p] = hit] = [o EXCEPT ![m] = seen, ![p] = hit]
    BY DEF seen
  <2> QED
    BY <2>1, <2>8, <2>9
<1> QED
  BY <1>1, <1>2

\* A react action does one of these, or nothing.
LEMMA ReactFollows ==
    ASSUME NEW o, MapType(o), NEW ctx, NEW W, NEW X, Among(o, ctx, W), NEW react \in Reacts,
           react = "attack" => ctx.host \in Npcs
    PROVE  Follows(o, ExecuteReact(react, ctx, o), W, X)
<1>0. Reached(o, ctx.host, W) /\ Reached(o, ctx.actor, W)
  BY DEF Among
<1>1. CASE react = "flee"
  <2>1. ExecuteReact(react, ctx, o) = Flee(o, ctx.host, ctx.room)
    BY <1>1 DEF ExecuteReact
  <2> QED
    BY <1>0, <2>1, FleeFollows
<1>2. CASE react = "attack"
  <2>1. ExecuteReact(react, ctx, o) = NpcAttackPlayer(o, ctx.host, ctx.actor, AttackDamage(ctx.host))
    BY <1>2 DEF ExecuteReact
  <2>2. ctx.host \in Npcs /\ AttackDamage(ctx.host) \in Int
    BY <1>2, AttackIs
  <2> QED
    BY <1>0, <2>1, <2>2, NpcAttackFollows
<1>3. CASE react # "flee" /\ react # "attack"
  <2>1. ExecuteReact(react, ctx, o) = Outcome(o, {})
    BY <1>3 DEF ExecuteReact, Reacts
  <2> QED
    BY <2>1, NothingFollows
<1> QED
  BY <1>1, <1>2, <1>3

\* A creature's numbers and flags.
LEMMA Altered ==
    ASSUME NEW c, Sane(c), NEW d \in CreatureType,
           d.active_effects = c.active_effects, d.condition_ticks = c.condition_ticks,
           d.stat_mods = c.stat_mods, d.skill_mods = c.skill_mods,
           d.id = c.id, d.active = c.active, d.body = c.body,
           d.skills["combat"] = c.skills["combat"], d.skill_xp = c.skill_xp,
           NEW id \in Creatures, Fits(id, c), NEW g
    PROVE  Stays(id, c, d, g)
<1>1. Sane(d)
  BY Resettled
<1>2. Fits(id, d)
  BY <1>1, Kinds DEF Fits
<1> QED
  BY <1>2, Kinds DEF Stays

\* What a tame script writes into a creature leaves it one.
LEMMA ModifyStays ==
    ASSUME NEW a, a.act \in Modifiers, NEW h, TameAction(h, a), NEW id \in Creatures, NEW c, Fits(id, c), NEW g
    PROVE  /\ a.act = "mod_stat" => Stays(id, c, [c EXCEPT !.stats[a.name] = @ + a.value], g)
           /\ a.act = "mod_skill" => Stays(id, c, [c EXCEPT !.skills[a.name] = @ + a.value], g)
           /\ a.act = "set_property" => Stays(id, c, [c EXCEPT ![a.name] = a.value], g)
<1>0. Sane(c) /\ c \in CreatureType
  BY DEF Fits, Sane
<1>1. CASE a.act = "mod_stat"
  <2> DEFINE s == [c.stats EXCEPT ![a.name] = @ + a.value]
             d == [c EXCEPT !.stats = s]
  <2>1. s \in [Stats -> Int]
    BY <1>0, <1>1 DEF TameAction, CreatureType
  <2>4. [c EXCEPT !.stats[a.name] = @ + a.value] = d
    OBVIOUS
  <2> HIDE DEF s
  <2>2. /\ d \in CreatureType
        /\ d.active_effects = c.active_effects /\ d.condition_ticks = c.condition_ticks
        /\ d.stat_mods = c.stat_mods /\ d.skill_mods = c.skill_mods
        /\ d.id = c.id /\ d.active = c.active /\ d.body = c.body
        /\ d.skills["combat"] = c.skills["combat"] /\ d.skill_xp = c.skill_xp
    BY <1>0, <2>1 DEF CreatureType
  <2> HIDE DEF d
  <2>3. Stays(id, c, d, g)
    BY <1>0, <2>2, Altered
  <2> QED
    BY <1>1, <2>3, <2>4
<1>2. CASE a.act = "mod_skill"
  <2> DEFINE s == [c.skills EXCEPT ![a.name] = @ + a.value]
             d == [c EXCEPT !.skills = s]
  <2>1. s \in [Skills -> Int] /\ s["combat"] = c.skills["combat"]
    <3>1. c.skills \in [Skills -> Int]
      BY <1>0 DEF CreatureType
    <3>2. a.name \in Skills /\ a.name # "combat" /\ a.value \in Int
      BY <1>2 DEF TameAction
    <3>3. "combat" \in Skills
      BY DEF Skills
    <3> DEFINE k == c.skills
               m == a.name
               v == a.value
    <3> HIDE DEF k, m, v
    <3>4. k \in [Skills -> Int] /\ m \in Skills /\ m # "combat" /\ v \in Int
      BY <3>1, <3>2 DEF k, m, v
    <3>5. s = [k EXCEPT ![m] = @ + v]
      BY DEF k, m, v
    <3>6. s \in [Skills -> Int]
      <4> DEFINE w == k[m] + v
      <4>1. w \in Int
        BY <3>4
      <4>2. s = [k EXCEPT ![m] = w]
        BY <3>5
      <4> HIDE DEF w, s
      <4> QED
        BY <3>4, <4>1, <4>2
    <3>7. s["combat"] = k["combat"]
      BY <3>3, <3>4, <3>5
    <3> QED
      BY <3>6, <3>7 DEF k
  <2>4. [c EXCEPT !.skills[a.name] = @ + a.value] = d
    OBVIOUS
  <2> HIDE DEF s
  <2>2. /\ d \in CreatureType
        /\ d.active_effects = c.active_effects /\ d.condition_ticks = c.condition_ticks
        /\ d.stat_mods = c.stat_mods /\ d.skill_mods = c.skill_mods
        /\ d.id = c.id /\ d.active = c.active /\ d.body = c.body
        /\ d.skills["combat"] = c.skills["combat"] /\ d.skill_xp = c.skill_xp
    BY <1>0, <2>1 DEF CreatureType
  <2> HIDE DEF d
  <2>3. Stays(id, c, d, g)
    BY <1>0, <2>2, Altered
  <2> QED
    BY <1>2, <2>3, <2>4
<1>3. CASE a.act = "set_property"
  <2> DEFINE n == a.name
             v == a.value
             d == [c EXCEPT ![n] = v]
  <2>1. \/ n \in {"creature_aware", "player_aware", "player_discovered", "uses_awareness_check"} /\ v \in BOOLEAN
        \/ n \in {"max_health", "perception"} /\ v \in Int
        \/ n = "health" /\ v \in Nat
    BY <1>3 DEF TameAction
  <2> HIDE DEF n, v
  <2>2. /\ d \in CreatureType
        /\ d.active_effects = c.active_effects /\ d.condition_ticks = c.condition_ticks
        /\ d.stat_mods = c.stat_mods /\ d.skill_mods = c.skill_mods
        /\ d.id = c.id /\ d.active = c.active /\ d.body = c.body
        /\ d.skills["combat"] = c.skills["combat"] /\ d.skill_xp = c.skill_xp
    <3>1. CASE n = "creature_aware"
      BY <1>0, <2>1, <3>1 DEF CreatureType
    <3>2. CASE n = "player_aware"
      BY <1>0, <2>1, <3>2 DEF CreatureType
    <3>3. CASE n = "player_discovered"
      BY <1>0, <2>1, <3>3 DEF CreatureType
    <3>4. CASE n = "uses_awareness_check"
      BY <1>0, <2>1, <3>4 DEF CreatureType
    <3>5. CASE n = "max_health"
      BY <1>0, <2>1, <3>5 DEF CreatureType
    <3>6. CASE n = "perception"
      BY <1>0, <2>1, <3>6 DEF CreatureType
    <3>7. CASE n = "health"
      BY <1>0, <2>1, <3>7 DEF CreatureType
    <3> QED
      BY <2>1, <3>1, <3>2, <3>3, <3>4, <3>5, <3>6, <3>7
  <2> HIDE DEF d
  <2>3. Stays(id, c, d, g)
    BY <1>0, <2>2, Altered
  <2> QED
    BY <1>3, <2>3 DEF d, n, v
<1> QED
  BY <1>1, <1>2, <1>3

\* An action on an object of which only creatures change.
LEMMA ObjectChanges ==
    ASSUME NEW o, MapType(o), NEW id, NEW W, NEW X, Reached(o, id, W), NEW d,
           IsCreature(o, id) => Stays(id, o[id], d, id \in X)
    PROVE  Follows(o, ChangedObject(o, id, d), W, X)
<1>1. CASE IsCreature(o, id)
  <2>1. id \in DOMAIN o /\ id \in W
    BY <1>1 DEF Reached, IsCreature
  <2>3. Follows(o, Changed(o, id, d), W, X)
    BY <1>1, <2>1, FollowsOne
  <2> QED
    BY <1>1, <2>3 DEF ChangedObject
<1>2. CASE ~IsCreature(o, id)
  <2>1. ChangedObject(o, id, d) = Outcome(o, {id} \cap DOMAIN o)
    BY <1>2 DEF ChangedObject
  <2>2. {id} \cap DOMAIN o \subseteq DOMAIN o
    OBVIOUS
  <2> QED
    BY <2>1, <2>2, NothingFollows
<1> QED
  BY <1>1, <1>2

\* Damage and healing by scripts touch their target only.
LEMMA VitalFollows ==
    ASSUME NEW o, MapType(o), NEW id, NEW W, NEW X, Reached(o, id, W), NEW a, a.act \in Vitals, a.value \in Int
    PROVE  Follows(o, Vital(a, o, id), W, X)
<1> DEFINE v == a.value
<1>1. IsCreature(o, id) => Sane(ApplyDamage(o[id], v)) /\ Same(o[id], ApplyDamage(o[id], v))
                           /\ Sane(Heal(o[id], v)) /\ Same(o[id], Heal(o[id], v))
  BY IsSane, Hurt
<1>2. /\ Follows(o, ChangedCreature(o, id, ApplyDamage(o[id], v)), W, X)
      /\ Follows(o, ChangedCreature(o, id, Heal(o[id], v)), W, X)
  BY <1>1, CreatureChanges
<1>3. Vital(a, o, id) \in {ChangedCreature(o, id, ApplyDamage(o[id], v)), ChangedCreature(o, id, Heal(o[id], v))}
  BY DEF Vital, Vitals
<1> QED
  BY <1>2, <1>3

\* So do changes of stats, skills and properties,
LEMMA ModifyFollows ==
    ASSUME NEW o, MapType(o), NEW id, NEW W, NEW X, Reached(o, id, W), NEW a, a.act \in Modifiers, NEW h, TameAction(h, a)
    PROVE  Follows(o, Modify(a, o, id), W, X)
<1> DEFINE c == o[id]
           x == [c EXCEPT !.stats[a.name] = @ + a.value]
           y == [c EXCEPT !.skills[a.name] = @ + a.value]
           z == [c EXCEPT ![a.name] = a.value]
<1>1. IsCreature(o, id) =>
        /\ a.act = "mod_stat" => Stays(id, c, x, id \in X)
        /\ a.act = "mod_skill" => Stays(id, c, y, id \in X)
        /\ a.act = "set_property" => Stays(id, c, z, id \in X)
  <2>1. SUFFICES ASSUME IsCreature(o, id)
                 PROVE  /\ a.act = "mod_stat" => Stays(id, c, x, id \in X)
                        /\ a.act = "mod_skill" => Stays(id, c, y, id \in X)
                        /\ a.act = "set_property" => Stays(id, c, z, id \in X)
    OBVIOUS
  <2>2. id \in Creatures /\ Fits(id, c)
    BY <2>1, IsSane
  <2> HIDE DEF c
  <2> QED
    BY <2>2, ModifyStays
<1>2. /\ a.act = "mod_stat" => Modify(a, o, id) = ChangedObject(o, id, x)
      /\ a.act = "mod_skill" => Modify(a, o, id) = ChangedObject(o, id, y)
      /\ a.act = "set_property" => Modify(a, o, id) = ChangedObject(o, id, z)
  BY DEF Modify
<1> HIDE DEF x, y, z
<1>3. /\ a.act = "mod_stat" => Follows(o, ChangedObject(o, id, x), W, X)
      /\ a.act = "mod_skill" => Follows(o, ChangedObject(o, id, y), W, X)
      /\ a.act = "set_property" => Follows(o, ChangedObject(o, id, z), W, X)
  BY <1>1, ObjectChanges
<1> QED
  BY <1>2, <1>3 DEF Modifiers

\* and effects put on, lifted and cured.
LEMMA AffectFollows ==
    ASSUME NEW o, MapType(o), NEW id, NEW W, NEW X, Reached(o, id, W), NEW a, a.act \in EffectActs
    PROVE  Follows(o, Affect(a, o, id), W, X)
<1>1. /\ IsCreature(o, id) => Sane(ApplyCondition(o[id], a.name)) /\ Same(o[id], ApplyCondition(o[id], a.name))
      /\ IsCreature(o, id) => Sane(RemoveCondition(o[id], a.name)) /\ Same(o[id], RemoveCondition(o[id], a.name))
      /\ IsCreature(o, id) => Sane(CureByTag(o[id], a.name)) /\ Same(o[id], CureByTag(o[id], a.name))
  BY IsSane, Applied, Removed, CuredByTag
<1>2. /\ Follows(o, ChangedCreature(o, id, ApplyCondition(o[id], a.name)), W, X)
      /\ Follows(o, ChangedCreature(o, id, RemoveCondition(o[id], a.name)), W, X)
      /\ Follows(o, ChangedCreature(o, id, CureByTag(o[id], a.name)), W, X)
  BY <1>1, CreatureChanges
<1>3. Follows(o, Outcome(o, {}), W, X)
  BY NothingFollows
<1>4. Affect(a, o, id) \in {ChangedCreature(o, id, ApplyCondition(o[id], a.name)),
                           ChangedCreature(o, id, RemoveCondition(o[id], a.name)),
                           ChangedCreature(o, id, CureByTag(o[id], a.name)), Outcome(o, {})}
  BY DEF Affect, EffectActs, ChangedCreature
<1> QED
  BY <1>2, <1>3, <1>4

\* A script changes no more than what its event is among.
LEMMA PerformFollows ==
    ASSUME NEW o, MapType(o), NEW ctx, NEW W, NEW X, Among(o, ctx, W),
           NEW a, ParsedAction(a), TameAction(ctx.host, a)
    PROVE  Follows(o, Perform(a, ctx, o), W, X)
<1> DEFINE id == TargetOf(a.who, ctx)
<1>1. Reached(o, id, W)
  <2>1. id \in {ctx.actor, ctx.host, ctx.target}
    BY DEF TargetOf, ParsedAction, Whos
  <2> QED
    BY <2>1 DEF Among
<1>2. a.act \in Vitals => a.value \in Int
  BY DEF ParsedAction, Vitals, EffectActs, Modifiers
<1>3. a.act = "react" => a.name \in Reacts /\ (a.name = "attack" => ctx.host \in Npcs)
  BY DEF ParsedAction, TameAction, EffectActs, Vitals, Modifiers
<1>4. Perform(a, ctx, o) =
        CASE a.act \in Vitals -> Vital(a, o, id)
          [] a.act \in Modifiers -> Modify(a, o, id)
          [] a.act \in EffectActs -> Affect(a, o, id)
          [] a.act = "react" -> ExecuteReact(a.name, ctx, o)
          [] a.act = "teleport" -> Teleport(o, id, a.name)
          [] a.act = "stop" -> [Outcome(o, {}) EXCEPT !.cancelled = TRUE]
          [] a.act = "narrate" -> Outcome(o, {})
  BY DEF Perform
<1> HIDE DEF id
<1>5. CASE a.act \in Vitals
  <2>1. Perform(a, ctx, o) = Vital(a, o, id)
    BY <1>4, <1>5 DEF Vitals, Modifiers, EffectActs
  <2> QED
    BY <1>1, <1>2, <1>5, <2>1, VitalFollows
<1>6. CASE a.act \in Modifiers
  <2>1. Perform(a, ctx, o) = Modify(a, o, id)
    BY <1>4, <1>6 DEF Vitals, Modifiers, EffectActs
  <2> QED
    BY <1>1, <1>6, <2>1, ModifyFollows
<1>7. CASE a.act \in EffectActs
  <2>1. Perform(a, ctx, o) = Affect(a, o, id)
    BY <1>4, <1>7 DEF Vitals, Modifiers, EffectActs
  <2> QED
    BY <1>1, <1>7, <2>1, AffectFollows
<1>8. CASE a.act = "react"
  <2>1. Perform(a, ctx, o) = ExecuteReact(a.name, ctx, o)
    BY <1>4, <1>8 DEF Vitals, Modifiers, EffectActs
  <2> QED
    BY <1>3, <1>8, <2>1, ReactFollows
<1>9. CASE a.act = "teleport"
  <2>1. Perform(a, ctx, o) = Teleport(o, id, a.name)
    BY <1>4, <1>9 DEF Vitals, Modifiers, EffectActs
  <2> QED
    BY <1>1, <2>1, TeleportFollows
<1>10. CASE a.act = "stop"
  <2> DEFINE out == [Outcome(o, {}) EXCEPT !.cancelled = TRUE]
  <2>1. Perform(a, ctx, o) = out
    BY <1>4, <1>10 DEF Vitals, Modifiers, EffectActs
  <2>2. out.o = o /\ out.dirty = {}
    BY DEF Outcome
  <2> HIDE DEF out
  <2> QED
    BY <2>1, <2>2, FollowsNone
<1>11. CASE a.act = "narrate"
  <2>1. Perform(a, ctx, o) = Outcome(o, {})
    BY <1>4, <1>11 DEF Vitals, Modifiers, EffectActs
  <2> QED
    BY <2>1, NothingFollows
<1>12. a.act \in Vitals \cup Modifiers \cup EffectActs \cup {"react", "teleport", "stop", "narrate"}
  BY DEF ParsedAction
<1> QED
  BY <1>5, <1>6, <1>7, <1>8, <1>9, <1>10, <1>11, <1>12

\* A script acts on those of its event.
LEMMA ScriptFollows ==
    ASSUME NEW o, MapType(o), NEW ctx, NEW W, NEW X, Among(o, ctx, W),
           NEW s, ParsedAction(s.do), TameAction(ctx.host, s.do)
    PROVE  Follows(o, ExecuteScript(s, ctx, o), W, X)
<1>1. ExecuteScript(s, ctx, o) \in {Perform(s.do, ctx, o), Outcome(o, {})}
  BY DEF ExecuteScript
<1> QED
  BY <1>1, PerformFollows, NothingFollows

\* All scripts of an event.
LEMMA HostEventFollows ==
    ASSUME TameScripts, NEW event \in Events, NEW o, MapType(o), NEW ctx, NEW W, NEW X, Among(o, ctx, W)
    PROVE  Follows(o, ExecuteHostEvent(event, ctx, o), W, X)
<1> DEFINE s == Handlers[ctx.host][event]
           base == Outcome(o, {})
           e == [way |-> "scripts", ctx |-> ctx]
           n == Len(s)
           F == ExecuteHostEvent(event, ctx, o)
           P(g) == g = [S \in SUBSET (DOMAIN s) |->
                           IF S = {} THEN base
                           ELSE IF g[S \ {Max(S)}].cancelled THEN g[S \ {Max(S)}]
                                ELSE Appended(g[S \ {Max(S)}], ExecuteScript(s[Max(S)], ctx, g[S \ {Max(S)}].o))]
<1>h. ctx.host \in Creatures \cup Items \cup Rooms
  BY DEF Among
<1>s. /\ s \in Seq(ToSet(s))
      /\ \A i \in DOMAIN s : ParsedAction(s[i].do) /\ TameAction(ctx.host, s[i].do)
  BY <1>h, HandlersAssumption DEF TameScripts
<1>2. F = (CHOOSE g : P(g))[DOMAIN s]
  BY DEF ExecuteHostEvent, FoldLeft, MapThenFoldSet
<1>b. Follows(o, base, W, X)
  BY NothingFollows
<1>1. \A a, y : Step(e, a, y) = IF a.cancelled THEN a ELSE Appended(a, ExecuteScript(y, ctx, a.o))
  BY DEF Step
<1> HIDE DEF F, s, base, e
<1>0. n \in Nat /\ DOMAIN s = 1..n
  BY <1>s
<1>3. ASSUME NEW g PROVE IsRun(e, base, s, DOMAIN s, g) <=> P(g)
  <2>1. ASSUME NEW S
        PROVE  Step(e, g[S \ {Max(S)}], s[Max(S)])
                 = IF g[S \ {Max(S)}].cancelled THEN g[S \ {Max(S)}]
                   ELSE Appended(g[S \ {Max(S)}], ExecuteScript(s[Max(S)], ctx, g[S \ {Max(S)}].o))
    BY <1>1
  <2> QED
    BY <2>1 DEF IsRun
<1> DEFINE run == CHOOSE g : P(g)
<1> HIDE DEF P, n
<1>4. \E g : P(g)
  BY <1>0, <1>3, RunExists
<1>5. P(run)
  BY <1>4
<1> HIDE DEF run
<1>10. IsRun(e, base, s, 1..n, run)
  BY <1>0, <1>3, <1>5
<1>6. PICK r : Steps(e, base, s, n, r) /\ r[n] = F
  <2>1. F = run[1..n]
    BY <1>0, <1>2 DEF run
  <2> QED
    BY <1>0, <1>10, <2>1, RunSteps
<1> DEFINE Good == {i \in 0..n : Follows(o, r[i], W, X)}
<1>7. 0 \in Good
  BY <1>0, <1>b, <1>6 DEF Steps
<1>8. ASSUME NEW i \in 1..n, i - 1 \in Good
      PROVE  i \in Good
  <2> DEFINE a == r[i - 1]
             x == ExecuteScript(s[i], ctx, a.o)
  <2>1. Follows(o, a, W, X) /\ i \in 0..n
    BY <1>0, <1>8
  <2>2. r[i] = Step(e, a, s[i])
    BY <1>6 DEF Steps
  <2> HIDE DEF a
  <2>3. r[i] \in {a, Appended(a, x)}
    BY <1>1, <2>2
  <2>4. MapType(a.o) /\ Among(a.o, ctx, W)
    BY <2>1, FollowsFits, AmongStill
  <2>5. Follows(a.o, x, W, X)
    BY <1>0, <1>s, <2>4, ScriptFollows
  <2>6. Follows(o, Appended(a, x), W, X)
    BY <2>1, <2>5, FollowsThen
  <2> QED
    BY <2>1, <2>3, <2>6
<1>9. Follows(o, r[n], W, X)
  <2>1. n \in Good
    <3> HIDE DEF Good
    <3> QED
      BY ONLY <1>0, <1>7, <1>8, Climb
  <2> QED
    BY <2>1
<1> QED
  BY <1>6, <1>9 DEF F

\* The scripts of an event do, one after the other.
LEMMA EventFollows ==
    ASSUME TameScripts, NEW event \in Events, NEW o, MapType(o), NEW ctx, NEW W, NEW X, Among(o, ctx, W)
    PROVE  Follows(o, ExecuteEvent(event, ctx, o), W, X)
<1>1. ExecuteEvent(event, ctx, o) \in {ExecuteHostEvent(event, ctx, o), Outcome(o, {})}
  BY DEF ExecuteEvent
<1> QED
  BY <1>1, HostEventFollows, NothingFollows

\* An event after what came before.
LEMMA FollowedFollows ==
    ASSUME TameScripts, NEW event \in Events, NEW o, MapType(o), NEW ctx, NEW W, NEW X, Among(o, ctx, W),
           NEW out, Follows(o, out, W, X)
    PROVE  Follows(o, Followed(out, event, ctx), W, X)
<1>1. MapType(out.o) /\ Among(out.o, ctx, W)
  BY FollowsFits, AmongStill
<1>2. Follows(out.o, ExecuteEvent(event, ctx, out.o), W, X)
  BY <1>1, EventFollows
<1> QED
  BY <1>2, FollowsThen DEF Followed

\* The scripts of a kill.
LEMMA KillFollows ==
    ASSUME TameScripts, NEW o, MapType(o), NEW W, NEW X, NEW out, Follows(o, out, W, X), NEW room,
           NEW victim, victim \in Creatures, victim \in DOMAIN o, victim \in W,
           NEW killer, killer \in Creatures, killer \in DOMAIN o, killer \in W
    PROVE  Follows(o, ExecuteKillEvents(out, victim, killer, room), W, X)
<1> DEFINE mine == Context(killer, victim, room, killer)
           theirs == Context(victim, killer, room, victim)
           a == Followed(out, "on_death", mine)
           b == Followed(a, "on_kill", mine)
           c == Followed(b, "on_kill", theirs)
<1>1. ExecuteKillEvents(out, victim, killer, room) \in {b, c}
  BY DEF ExecuteKillEvents
<1>2. Among(o, mine, W) /\ Among(o, theirs, W)
  BY Kinds DEF Among, Reached, Context
<1>3. "on_death" \in Events /\ "on_kill" \in Events
  BY DEF Events
<1> HIDE DEF mine, theirs
<1>4. Follows(o, a, W, X)
  BY <1>2, <1>3, FollowedFollows
<1> HIDE DEF a
<1>5. Follows(o, b, W, X)
  BY <1>2, <1>3, <1>4, FollowedFollows
<1> HIDE DEF b
<1>6. Follows(o, c, W, X)
  BY <1>2, <1>3, <1>5, FollowedFollows
<1> QED
  BY <1>1, <1>5, <1>6

(***************************************************************************)
(* Behaviours                                                              *)
(***************************************************************************)

\* The creature a and whoever b is change, and the second only perhaps.
LEMMA FollowsPoints ==
    ASSUME NEW o, MapType(o), NEW W, NEW X, NEW a, a \in DOMAIN o, a \in W, NEW b, b \in DOMAIN o, b \in W,
           NEW next, DOMAIN next.o = DOMAIN o, IsMap(next.o), next.dirty \subseteq DOMAIN o,
           a \in next.dirty, Stays(a, o[a], next.o[a], a \in X),
           next.o[b] = o[b] \/ (b \in next.dirty /\ Stays(b, o[b], next.o[b], b \in X)),
           \A id \in DOMAIN o : id # a /\ id # b => next.o[id] = o[id]
    PROVE  Follows(o, next, W, X)
BY DEF Follows

\* Players and creatures of a map.
LEMMA Present ==
    ASSUME NEW o, MapType(o), NEW p \in Players, NEW n \in Npcs, n \in DOMAIN o
    PROVE  /\ p \in DOMAIN o /\ p \in Creatures /\ n \in Creatures /\ p # n
           /\ Fits(p, o[p]) /\ Fits(n, o[n]) /\ Sane(o[p]) /\ Sane(o[n])
           /\ o[p] \in CreatureType /\ o[n] \in CreatureType
           /\ IsCreature(o, p) /\ IsCreature(o, n)
<1>1. p \in DOMAIN o /\ p \in Creatures /\ n \in Creatures /\ p # n
  BY Kinds DEF MapType
<1> QED
  BY <1>1 DEF MapType, Fits, Sane, IsCreature

\* What the contest of wits leaves of both.
LEMMA ContestFollows ==
    ASSUME NEW o, MapType(o), NEW out, out.o = o, NEW W, NEW X, NEW n \in Npcs, n \in DOMAIN o, n \in W,
           NEW p \in Players, p \in W, out.dirty \subseteq DOMAIN o, NEW seed
    PROVE  Follows(o, Contest(out, n, p, seed), W, X)
<1> DEFINE c == o[n]
           q == o[p]
           blind == [out EXCEPT !.o[n].player_discovered = FALSE]
           b == blind.o
           spotted == ~StealthCheckSucceeds(b[p], b[n], b, seed)
           noticed == PlayerNoticesCreature(b[p], b[n], b, (seed + 17) % 25)
           r == Contest(out, n, p, seed)
           c1 == [c EXCEPT !.player_discovered = FALSE]
           c2 == [c1 EXCEPT !.creature_aware = spotted]
           found == c2.player_discovered \/ noticed
           c3 == [c2 EXCEPT !.player_discovered = found]
           aware == q.player_aware /\ noticed
           q1 == [q EXCEPT !.player_aware = aware]
           last == [b EXCEPT ![n].creature_aware = spotted,
                             ![n].player_discovered = @ \/ noticed,
                             ![p].player_aware = @ /\ noticed]
<1>0. /\ p \in DOMAIN o /\ p \in Creatures /\ n \in Creatures /\ p # n
      /\ Fits(p, q) /\ Fits(n, c) /\ Sane(q) /\ Sane(c) /\ q \in CreatureType /\ IsMap(o)
  BY Present DEF MapType
<1>r. r.o = last /\ r.dirty = out.dirty \cup {n} \cup (IF noticed THEN {} ELSE {p})
  BY DEF Contest, Awareness, Appended, Outcome
<1>1. spotted \in BOOLEAN /\ noticed \in BOOLEAN /\ found \in BOOLEAN /\ aware \in BOOLEAN
  BY DEF StealthCheckSucceeds, PlayerNoticesCreature
<1>b. b = [o EXCEPT ![n] = c1]
  OBVIOUS
<1> HIDE DEF spotted, noticed
<1>2. /\ DOMAIN last = DOMAIN o /\ IsMap(last) /\ last[n] = c3 /\ last[p] = q1
      /\ \A id \in DOMAIN o : id # n /\ id # p => last[id] = o[id]
  <2>1. DOMAIN b = DOMAIN o /\ b[n] = c1 /\ b[p] = q /\ \A id \in DOMAIN o : id # n => b[id] = o[id]
    BY <1>0, <1>b
  <2> HIDE DEF b, c1
  <2>2. DOMAIN last = DOMAIN o /\ IsMap(last) /\ \A id \in DOMAIN o : id # n /\ id # p => last[id] = b[id]
    BY <1>0, <2>1 DEF IsMap
  <2>3. last[n] = c3 /\ last[p] = q1
    BY <1>0, <2>1
  <2> QED
    BY <2>1, <2>2, <2>3
<1> HIDE DEF b, blind, last, found, aware, c2
<1>3. Sane(c1) /\ Same(c, c1)
  BY <1>0, FlagsSet
<1> HIDE DEF c1, c
<1>4. Sane(c2) /\ Same(c1, c2)
  BY <1>1, <1>3, FlagsSet DEF c2
<1>5. Sane(c3) /\ Same(c2, c3)
  BY <1>1, <1>4, FlagsSet
<1>6. Sane(q1) /\ Same(q, q1)
  BY <1>0, <1>1, FlagsSet
<1>7. Same(c, c3)
  <2> HIDE DEF c3
  <2> QED
    BY <1>3, <1>4, <1>5 DEF Same
<1>8. noticed => q1 = q
  <2>1. q.player_aware \in BOOLEAN /\ q = [q EXCEPT !.player_aware = q.player_aware]
    BY <1>0 DEF CreatureType
  <2> HIDE DEF q
  <2>2. noticed => aware = q.player_aware
    BY <2>1 DEF aware
  <2> QED
    BY <2>1, <2>2
<1> HIDE DEF c3, q1, q
<1>9. Stays(n, c, c3, n \in X) /\ Stays(p, q, q1, p \in X)
  BY <1>0, <1>5, <1>6, <1>7, SameStays
<1>10. noticed \/ ~noticed
  OBVIOUS
<1>11. /\ DOMAIN r.o = DOMAIN o /\ IsMap(r.o) /\ r.dirty \subseteq DOMAIN o /\ n \in r.dirty
       /\ r.o[n] = c3 /\ r.o[p] = q1 /\ (noticed \/ p \in r.dirty)
       /\ \A id \in DOMAIN o : id # n /\ id # p => r.o[id] = o[id]
  BY <1>0, <1>2, <1>r
<1> HIDE DEF r
<1>12. Stays(n, o[n], r.o[n], n \in X) /\ (r.o[p] = o[p] \/ (p \in r.dirty /\ Stays(p, o[p], r.o[p], p \in X)))
  BY <1>8, <1>9, <1>11 DEF c, q
<1>13. Follows(o, r, W, X)
  BY <1>0, <1>11, <1>12, FollowsPoints
<1> QED
  BY <1>13 DEF r


\* An ambush is an attack and what it sets off.
LEMMA AmbushFollows ==
    ASSUME NEW o, MapType(o), NEW W, NEW X, NEW out, Follows(o, out, W, X), NEW n \in Npcs, n \in DOMAIN o, n \in W,
           NEW p \in Players, p \in W, NEW event
    PROVE  Follows(o, Ambush(out, n, p, event), W, X)
<1> DEFINE u == out.o
           hit == AttackDamage(n) + (IF event = "on_enter" /\ ~u[p].player_aware THEN SurpriseDamageBonus ELSE 0)
           less == ApplyDamage(u[p], hit)
           struck == [less EXCEPT !.player_aware = TRUE]
           seen == [u[n] EXCEPT !.player_discovered = TRUE]
           next == Outcome([u EXCEPT ![p] = struck, ![n] = seen], {p, n})
<1>0. MapType(u) /\ n \in DOMAIN u
  BY FollowsFits DEF Follows
<1>1. /\ p \in DOMAIN u /\ p \in Creatures /\ n \in Creatures
      /\ Fits(p, u[p]) /\ Fits(n, u[n]) /\ Sane(u[p]) /\ Sane(u[n]) /\ p # n
  BY <1>0, Present
<1>2. hit \in Int
  BY AttackIs DEF SurpriseDamageBonus
<1>3. Ambush(out, n, p, event) \in {out, Appended(out, next)}
  <2>1. {n, p} = {p, n}
    OBVIOUS
  <2>2. [u EXCEPT ![p] = struck, ![n].player_discovered = TRUE] = [u EXCEPT ![p] = struck, ![n] = seen]
    BY <1>1
  <2> QED
    BY <2>1, <2>2 DEF Ambush
<1> HIDE DEF hit
<1>4. Sane(less) /\ Same(u[p], less)
  BY <1>1, <1>2, Hurt
<1> HIDE DEF less
<1>5. Sane(struck) /\ Same(less, struck)
  BY <1>4, FlagsSet
<1>6. Sane(seen) /\ Same(u[n], seen)
  BY <1>1, FlagsSet
<1> HIDE DEF struck, seen
<1>7. Same(u[p], struck)
  BY <1>4, <1>5 DEF Same
<1>8. Stays(p, u[p], struck, p \in X) /\ Stays(n, u[n], seen, n \in X)
  BY <1>1, <1>5, <1>6, <1>7, SameStays
<1>9. Follows(u, next, W, X)
  BY <1>0, <1>1, <1>8, FollowsTwo
<1> HIDE DEF next, u
<1>10. Follows(o, Appended(out, next), W, X)
  BY <1>9, FollowsThen DEF u
<1> QED
  BY <1>3, <1>10

\* What an NPC does about a player,
LEMMA ReactedFollows ==
    ASSUME NEW o, MapType(o), NEW W, NEW X, NEW out, Follows(o, out, W, X), NEW n \in Npcs, n \in DOMAIN o, n \in W,
           NEW p \in Players, p \in W, NEW r, NEW event, NEW reacts, NEW aware
    PROVE  Follows(o, Reacted(out, n, p, r, event, reacts, aware), W, X)
<1>1. Reacted(out, n, p, r, event, reacts, aware)
        \in {Appended(out, Flee(out.o, n, r)), Ambush(out, n, p, event), out}
  <2>1. CASE "flee" \in reacts
    BY <2>1 DEF Reacted
  <2>2. CASE "flee" \notin reacts /\ "attack" \in reacts /\ (aware \/ event = "on_discovered")
    BY <2>2 DEF Reacted
  <2>3. CASE "flee" \notin reacts /\ ~("attack" \in reacts /\ (aware \/ event = "on_discovered"))
    BY <2>3 DEF Reacted
  <2> QED
    BY <2>1, <2>2, <2>3
<1>2. MapType(out.o)
  BY FollowsFits
<1>3. Reached(out.o, n, W)
  BY Kinds DEF Reached
<1>4. Follows(out.o, Flee(out.o, n, r), W, X)
  BY <1>2, <1>3, FleeFollows
<1>5. Follows(o, Appended(out, Flee(out.o, n, r)), W, X)
  BY <1>4, FollowsThen
<1> QED
  BY <1>1, <1>5, AmbushFollows

\* and what it does when an event is told to it.
LEMMA ToldFollows ==
    ASSUME TameScripts, NEW o, MapType(o), NEW W, NEW X, NEW out, Follows(o, out, W, X),
           NEW n \in Npcs, n \in DOMAIN o, n \in W,
           NEW p \in Players, p \in W, NEW r, NEW event \in Events
    PROVE  Follows(o, Told(out, n, p, r, event), W, X)
<1> DEFINE ctx == Context(p, n, r, Nobody)
           next == ExecuteHostEvent(event, ctx, out.o)
           told == Appended(out, next)
           t == Told(out, n, p, r, event)
<1>1. MapType(out.o) /\ DOMAIN out.o = DOMAIN o
  BY FollowsFits DEF Follows
<1>2. p \in DOMAIN out.o /\ n \in DOMAIN out.o /\ p \in Creatures /\ n \in Creatures /\ Nobody \notin DOMAIN out.o
  BY <1>1, Kinds, Present DEF MapType
<1>c. ctx.actor = p /\ ctx.host = n /\ ctx.target = Nobody
  BY DEF Context
<1>k. p \notin Items /\ n \notin Items /\ Nobody \notin Items
  BY <1>2, Kinds, KindsAssumption
<1> HIDE DEF ctx
<1>3. Among(out.o, ctx, W)
  BY <1>2, <1>c, <1>k DEF Among, Reached
<1>4. Follows(out.o, next, W, X)
  BY <1>1, <1>3, HostEventFollows
<1> HIDE DEF next
<1>5. Follows(o, told, W, X)
  BY <1>4, FollowsThen
<1>6. t.o = told.o /\ told.dirty \subseteq t.dirty /\ t.dirty \subseteq told.dirty \cup {n}
  <2>1. /\ t = [told EXCEPT !.dirty = @ \cup (IF event = "on_enter" THEN {n} ELSE {}), !.cancelled = FALSE]
        /\ told = [o |-> next.o, dirty |-> out.dirty \cup next.dirty, cancelled |-> out.cancelled \/ next.cancelled]
    BY DEF Told, Appended, next, ctx
  <2> HIDE DEF t
  <2>2. t.o = told.o /\ t.dirty = told.dirty \cup (IF event = "on_enter" THEN {n} ELSE {})
    BY <2>1
  <2> HIDE DEF told
  <2> QED
    BY <2>2
<1> HIDE DEF told, t
<1>7. Follows(o, t, W, X)
  BY <1>5, <1>6 DEF Follows
<1> QED
  BY <1>7 DEF t

\* One creature's behaviour, whatever it is up to.
LEMMA BehaveFollows ==
    ASSUME TameScripts, NEW o, MapType(o), NEW W, NEW X, NEW out, Follows(o, out, W, X),
           NEW n \in Npcs, n \in DOMAIN o, n \in W,
           NEW p \in Players, p \in W, NEW r, NEW event \in Events, NEW seed
    PROVE  Follows(o, Behave(out, n, p, r, event, seed), W, X)
<1> DEFINE after == IF event = "on_enter" /\ out.o[n].uses_awareness_check THEN Contest(out, n, p, seed) ELSE out
           aware == after.o[n].creature_aware
           reacts == IF event = "on_enter" /\ ~aware /\ after.o[n].uses_awareness_check THEN {} ELSE ReactsOn(n, event)
           told == Told(after, n, p, r, event)
<1>1. Behave(out, n, p, r, event, seed) = Reacted(told, n, p, r, event, reacts, aware)
  BY DEF Behave, AfterContest, Met
<1>2. Follows(o, Contest(out, n, p, seed), W, X)
  <2>1. MapType(out.o) /\ DOMAIN out.o = DOMAIN o /\ out.dirty \subseteq DOMAIN o
    BY FollowsFits DEF Follows
  <2>2. Follows(out.o, Contest(out, n, p, seed), W, X)
    BY <2>1, ContestFollows
  <2>3. Follows(o, Appended(out, Contest(out, n, p, seed)), W, X)
    BY <2>2, FollowsThen
  <2> DEFINE next == Contest(out, n, p, seed)
  <2>4. out.dirty \subseteq next.dirty
    <3>1. \A a, b : out.dirty \subseteq Appended([out EXCEPT !.o[n].player_discovered = FALSE], Outcome(a, b)).dirty
      BY DEF Appended, Outcome
    <3> QED
      BY ONLY <3>1, Zenon DEF Contest, Awareness
  <2> HIDE DEF next
  <2>5. Appended(out, next).o = next.o /\ Appended(out, next).dirty = next.dirty
    BY <2>4 DEF Appended
  <2> QED
    BY <2>3, <2>5 DEF Follows, next
<1>3. Follows(o, after, W, X)
  BY <1>2
<1> HIDE DEF after, aware, reacts
<1>4. Follows(o, told, W, X)
  BY <1>3, ToldFollows
<1> HIDE DEF told
<1>5. Follows(o, Reacted(told, n, p, r, event, reacts, aware), W, X)
  BY <1>4, ReactedFollows
<1> QED
  BY <1>1, <1>5

\* An order of a set has its elements.
LEMMA Ordered ==
    ASSUME NEW S, IsFiniteSet(S), NEW order \in SetToSeqs(S)
    PROVE  /\ Len(order) \in Nat /\ DOMAIN order = 1..Len(order)
           /\ \A i \in DOMAIN order : order[i] \in S
<1>1. Cardinality(S) \in Nat
  BY FS_CardinalityType
<1>2. order \in [1..Cardinality(S) -> S]
  BY DEF SetToSeqs
<1> DEFINE n == Cardinality(S)
<1>3. order \in Seq(S)
  BY <1>1, <1>2
<1> QED
  BY <1>3

\* The turn of every creature of a list, in the way e says.
Turns(e, o, W, X, T) ==
    \A out, x : x \in T /\ Follows(o, out, W, X) => Follows(o, Step(e, out, x), W, X)

\* If every turn is an outcome without deaths, the turns one after the other are.
LEMMA RunFollows ==
    ASSUME NEW o, NEW W, NEW X, NEW e, NEW T, Turns(e, o, W, X, T), NEW base, Follows(o, base, W, X),
           NEW s, Len(s) \in Nat, DOMAIN s = 1..Len(s), \A i \in DOMAIN s : s[i] \in T
    PROVE  Follows(o, Run(e, base, s), W, X)
<1> DEFINE n == Len(s)
           g == CHOOSE g : IsRun(e, base, s, DOMAIN s, g)
<1>1. IsRun(e, base, s, 1..n, g)
  BY RunExists
<1>2. Run(e, base, s) = g[1..n]
  BY DEF Run
<1> HIDE DEF n, g
<1>0. n \in Nat /\ DOMAIN s = 1..n
  BY DEF n
<1>3. PICK c : Steps(e, base, s, n, c) /\ c[n] = g[1..n]
  BY <1>0, <1>1, RunSteps
<1> DEFINE Good == {i \in 0..n : Follows(o, c[i], W, X)}
<1>4. 0 \in Good
  BY <1>0, <1>3 DEF Steps
<1>5. ASSUME NEW i \in 1..n, i - 1 \in Good
      PROVE  i \in Good
  <2>1. Follows(o, c[i - 1], W, X) /\ i \in 0..n /\ s[i] \in T
    BY <1>0, <1>5
  <2>2. c[i] = Step(e, c[i - 1], s[i])
    BY <1>3 DEF Steps
  <2> QED
    BY <2>1, <2>2 DEF Turns
<1>6. n \in Good
  <2> HIDE DEF Good
  <2> QED
    BY ONLY <1>0, <1>4, <1>5, Climb
<1> QED
  BY <1>2, <1>3, <1>6

\* The creatures who are there when somebody comes in.
LEMMA EnterFollows ==
    ASSUME TameScripts, NEW o, MapType(o), NEW W, NEW X, NEW p \in Players, p \in W, NEW r,
           NpcsInRoom(o, r) \subseteq W, NEW order \in SetToSeqs(NpcsInRoom(o, r)), NEW dice
    PROVE  Follows(o, BehaveAll(o, order, p, r, dice), W, X)
<1> DEFINE e == [way |-> "enter", p |-> p, r |-> r, dice |-> dice]
           base == Outcome([o EXCEPT ![p].player_aware = TRUE], {p})
           T == NpcsInRoom(o, r)
           P(g) == g = [S \in SUBSET (DOMAIN order) |->
                           IF S = {} THEN base
                           ELSE Behave(g[S \ {Max(S)}], order[Max(S)], p, r, "on_enter", dice[order[Max(S)]])]
<1>1. BehaveAll(o, order, p, r, dice) = (CHOOSE g : P(g))[DOMAIN order]
  BY DEF BehaveAll, FoldLeft, MapThenFoldSet
<1>2. \A a, x : Step(e, a, x) = Behave(a, x, p, r, "on_enter", dice[x])
  BY DEF Step
<1>3. Turns(e, o, W, X, T)
  <2>1. "on_enter" \in Events /\ T \subseteq Npcs \cap DOMAIN o
    BY DEF Events, NpcsInRoom
  <2> HIDE DEF T, e
  <2>2. ASSUME NEW out, NEW x, x \in T, Follows(o, out, W, X)
        PROVE  Follows(o, Step(e, out, x), W, X)
    <3>1. x \in Npcs /\ x \in DOMAIN o /\ x \in W
      BY <2>1, <2>2 DEF T
    <3> DEFINE d == dice[x]
    <3> HIDE DEF d
    <3>2. Follows(o, Behave(out, x, p, r, "on_enter", d), W, X)
      BY <2>1, <2>2, <3>1, BehaveFollows
    <3> QED
      BY <1>2, <3>2 DEF d
  <2> QED
    BY <2>2 DEF Turns
<1>4. Follows(o, base, W, X)
  <2> DEFINE q == [o[p] EXCEPT !.player_aware = TRUE]
  <2>1. p \in DOMAIN o /\ p \in Creatures /\ Fits(p, o[p]) /\ Sane(o[p])
    BY DEF MapType, Fits, Creatures
  <2>2. Sane(q) /\ Same(o[p], q)
    BY <2>1, FlagsSet
  <2>3. base = Changed(o, p, q)
    BY DEF Changed
  <2> HIDE DEF q, base
  <2>4. Stays(p, o[p], q, p \in X)
    BY <2>1, <2>2, SameStays
  <2> QED
    BY <2>1, <2>3, <2>4, FollowsOne
<1>5. Len(order) \in Nat /\ DOMAIN order = 1..Len(order) /\ \A i \in DOMAIN order : order[i] \in T
  <2>1. T \subseteq Creatures
    BY DEF NpcsInRoom, Creatures
  <2>2. IsFiniteSet(T)
    BY <2>1, KindsAssumption, FS_Subset
  <2> QED
    BY <2>2, Ordered
<1> HIDE DEF e, base, T
<1>6. ASSUME NEW g PROVE IsRun(e, base, order, DOMAIN order, g) <=> P(g)
  <2>1. ASSUME NEW S
        PROVE  Step(e, g[S \ {Max(S)}], order[Max(S)])
                 = Behave(g[S \ {Max(S)}], order[Max(S)], p, r, "on_enter", dice[order[Max(S)]])
    BY <1>2
  <2> QED
    BY <2>1 DEF IsRun
<1>7. (CHOOSE g : P(g)) = (CHOOSE g : IsRun(e, base, order, DOMAIN order, g))
  <2> HIDE DEF P
  <2> QED
    BY <1>6, Zenon
<1>8. BehaveAll(o, order, p, r, dice) = Run(e, base, order)
  <2> HIDE DEF P
  <2> QED
    BY <1>1, <1>7 DEF Run
<1> QED
  BY <1>3, <1>4, <1>5, <1>8, RunFollows

\* A creature that is found, and what it makes of that.
LEMMA NoticeFollows ==
    ASSUME TameScripts, NEW o, MapType(o), NEW W, NEW X, NEW out, Follows(o, out, W, X),
           NEW n \in Npcs, n \in DOMAIN o, n \in W, NEW p \in Players, p \in W, NEW r, NEW before, NEW seed
    PROVE  Follows(o, Notice(out, n, p, r, before, seed), W, X)
<1> DEFINE u == out.o
           seen == [u[n] EXCEPT !.player_discovered = TRUE]
           warned == [u[p] EXCEPT !.player_aware = TRUE]
           found == Outcome([u EXCEPT ![n] = seen, ![p] = warned], {n, p})
           next == Appended(out, found)
<1>0. MapType(u) /\ n \in DOMAIN u
  BY FollowsFits DEF Follows
<1>1. /\ p \in DOMAIN u /\ p \in Creatures /\ n \in Creatures /\ n # p
      /\ Fits(p, u[p]) /\ Fits(n, u[n]) /\ Sane(u[p]) /\ Sane(u[n])
  BY <1>0, Present
<1>2. Notice(out, n, p, r, before, seed) \in {out, next, Behave(next, n, p, r, "on_discovered", seed)}
  <2>1. [u EXCEPT ![n].player_discovered = TRUE, ![p].player_aware = TRUE] = [u EXCEPT ![n] = seen, ![p] = warned]
    BY <1>1
  <2> QED
    BY <2>1 DEF Notice
<1>3. Sane(seen) /\ Same(u[n], seen) /\ Sane(warned) /\ Same(u[p], warned)
  BY <1>1, FlagsSet
<1> HIDE DEF seen, warned
<1>4. Stays(n, u[n], seen, n \in X) /\ Stays(p, u[p], warned, p \in X)
  BY <1>1, <1>3, SameStays
<1>5. Follows(u, found, W, X)
  BY <1>0, <1>1, <1>4, FollowsTwo
<1> HIDE DEF found
<1>6. Follows(o, next, W, X)
  BY <1>5, FollowsThen
<1> HIDE DEF next, u
<1>7. "on_discovered" \in Events
  BY DEF Events
<1>8. Follows(o, Behave(next, n, p, r, "on_discovered", seed), W, X)
  BY <1>6, <1>7, BehaveFollows
<1> QED
  BY <1>2, <1>6, <1>8

\* A thing that is found where it lies.
LEMMA UncoverFollows ==
    ASSUME TameScripts, NEW o, MapType(o), NEW W, NEW X, NEW out, Follows(o, out, W, X),
           NEW i \in Items, i \in W, o[i].location \in Rooms,
           NEW p \in Players, p \in W, NEW r, NEW before, NEW seed
    PROVE  Follows(o, Uncover(out, i, p, r, before, seed), W, X)
<1> DEFINE u == out.o
           seen == [u[i] EXCEPT !.player_discovered = TRUE]
           found == Changed(u, i, seen)
           next == Appended(out, found)
           ctx == Context(p, i, r, Nobody)
<1>0. MapType(u) /\ i \in DOMAIN o /\ i \in DOMAIN u /\ p \in DOMAIN o /\ p \in Creatures
  BY FollowsFits DEF Follows, MapType, Creatures
<1>1. Fits(i, u[i]) /\ u[i] \in ItemType
  BY <1>0 DEF MapType, Fits
<1>2. Uncover(out, i, p, r, before, seed) \in {out, Followed(next, "on_discovered", ctx)}
  BY DEF Uncover, Changed
<1>3. seen \in ItemType /\ seen.location = u[i].location
  BY <1>1 DEF ItemType
<1> HIDE DEF seen
<1>4. Stays(i, u[i], seen, i \in X)
  <2>1. Fits(i, seen)
    BY <1>3, Kinds DEF Fits
  <2> QED
    BY <1>3, <2>1, Kinds DEF Stays
<1>5. Follows(u, found, W, X)
  BY <1>0, <1>4, FollowsOne
<1> HIDE DEF found
<1>6. Follows(o, next, W, X)
  BY <1>5, FollowsThen
<1>7. ctx.actor = p /\ ctx.host = i /\ ctx.target = Nobody
  BY DEF Context
<1>8. "on_discovered" \in Events /\ p \notin Items /\ Nobody \notin Items /\ Nobody \notin DOMAIN o
  BY <1>0, Kinds, KindsAssumption DEF Events, MapType
<1> HIDE DEF next, ctx
<1>9. Among(o, ctx, W)
  BY <1>0, <1>7, <1>8 DEF Among, Reached
<1>10. Follows(o, Followed(next, "on_discovered", ctx), W, X)
  BY <1>6, <1>8, <1>9, FollowedFollows
<1> QED
  BY <1>2, <1>10

\* All who lurk are looked for.
LEMMA NoticeAllFollows ==
    ASSUME TameScripts, MapType(obj), NEW W, NEW X, NEW p \in Players, p \in W,
           Lurking(session[p]) \subseteq W, NEW order \in SetToSeqs(Lurking(session[p])), NEW dice
    PROVE  Follows(obj, NoticeAll(p, order, dice), W, X)
<1> DEFINE r == session[p]
           before == obj[p]
           e == [way |-> "notice", p |-> p, r |-> r, before |-> before, dice |-> dice]
           base == Outcome(obj, IF order = <<>> THEN {} ELSE {p})
           T == Lurking(r)
           P(g) == g = [S \in SUBSET (DOMAIN order) |->
                           IF S = {} THEN base
                           ELSE Notice(g[S \ {Max(S)}], order[Max(S)], p, r, before, dice[order[Max(S)]])]
<1>1. NoticeAll(p, order, dice) = (CHOOSE g : P(g))[DOMAIN order]
  BY DEF NoticeAll, FoldLeft, MapThenFoldSet
<1>2. \A a, x : Step(e, a, x) = Notice(a, x, p, r, before, dice[x])
  BY DEF Step
<1>3. Turns(e, obj, W, X, T)
  <2>1. T \subseteq Npcs \cap DOMAIN obj
    BY DEF Lurking, NpcsInRoom
  <2> HIDE DEF T, e, r, before
  <2>2. ASSUME NEW out, NEW x, x \in T, Follows(obj, out, W, X)
        PROVE  Follows(obj, Step(e, out, x), W, X)
    <3>1. x \in Npcs /\ x \in DOMAIN obj /\ x \in W
      BY <2>1, <2>2 DEF T, r
    <3> DEFINE d == dice[x]
    <3> HIDE DEF d
    <3>2. Follows(obj, Notice(out, x, p, r, before, d), W, X)
      BY <2>2, <3>1, NoticeFollows
    <3> QED
      BY <1>2, <3>2 DEF d
  <2> QED
    BY <2>2 DEF Turns
<1>4. Follows(obj, base, W, X)
  <2>1. (IF order = <<>> THEN {} ELSE {p}) \subseteq DOMAIN obj
    BY DEF MapType
  <2> QED
    BY <2>1, NothingFollows
<1>5. Len(order) \in Nat /\ DOMAIN order = 1..Len(order) /\ \A i \in DOMAIN order : order[i] \in T
  <2>1. T \subseteq Creatures
    BY DEF Lurking, NpcsInRoom, Creatures
  <2>2. IsFiniteSet(T)
    BY <2>1, KindsAssumption, FS_Subset
  <2> QED
    BY <2>2, Ordered
<1> HIDE DEF e, base, T, r, before
<1>6. ASSUME NEW g PROVE IsRun(e, base, order, DOMAIN order, g) <=> P(g)
  <2>1. ASSUME NEW S
        PROVE  Step(e, g[S \ {Max(S)}], order[Max(S)])
                 = Notice(g[S \ {Max(S)}], order[Max(S)], p, r, before, dice[order[Max(S)]])
    BY <1>2
  <2> QED
    BY <2>1 DEF IsRun
<1>7. (CHOOSE g : P(g)) = (CHOOSE g : IsRun(e, base, order, DOMAIN order, g))
  <2> HIDE DEF P
  <2> QED
    BY <1>6, Zenon
<1>8. NoticeAll(p, order, dice) = Run(e, base, order)
  <2> HIDE DEF P
  <2> QED
    BY <1>1, <1>7 DEF Run
<1> QED
  BY <1>3, <1>4, <1>5, <1>8, RunFollows

\* So are all things that are hidden.
LEMMA UncoverAllFollows ==
    ASSUME TameScripts, MapType(obj), NEW W, NEW X, NEW p \in Players, p \in W, Items \subseteq W,
           session[p] \in Rooms, NEW out, Follows(obj, out, W, X),
           NEW order \in SetToSeqs(HiddenThings(out.o, session[p])), NEW dice
    PROVE  Follows(obj, UncoverAll(out, p, order, dice), W, X)
<1> DEFINE r == session[p]
           before == out.o[p]
           e == [way |-> "uncover", p |-> p, r |-> r, before |-> before, dice |-> dice]
           D == IF order = <<>> THEN {} ELSE {p}
           base == Appended(out, Outcome(out.o, D))
           T == HiddenThings(out.o, r)
           P(g) == g = [S \in SUBSET (DOMAIN order) |->
                           IF S = {} THEN base
                           ELSE Uncover(g[S \ {Max(S)}], order[Max(S)], p, r, before, dice[order[Max(S)]])]
<1>0. MapType(out.o) /\ DOMAIN out.o = DOMAIN obj /\ p \in DOMAIN obj
  BY FollowsFits DEF Follows, MapType
<1>1. UncoverAll(out, p, order, dice) = (CHOOSE g : P(g))[DOMAIN order]
  BY DEF UncoverAll, FoldLeft, MapThenFoldSet
<1>2. \A a, x : Step(e, a, x) = Uncover(a, x, p, r, before, dice[x])
  BY DEF Step
<1>3. Turns(e, obj, W, X, T)
  <2>1. \A x \in T : x \in Items /\ out.o[x].location \in Rooms
    BY DEF HiddenThings
  <2>2. \A x \in T : obj[x].location \in Rooms
    <3>1. ASSUME NEW x \in T PROVE obj[x].location \in Rooms
      <4>1. x \in Items /\ x \in DOMAIN obj /\ out.o[x].location \in Rooms
        BY <2>1 DEF MapType
      <4> QED
        BY <4>1 DEF Follows, Stays
    <3> QED
      BY <3>1
  <2> HIDE DEF T, e, r, before
  <2>3. ASSUME NEW acc, NEW x, x \in T, Follows(obj, acc, W, X)
        PROVE  Follows(obj, Step(e, acc, x), W, X)
    <3>1. x \in Items /\ x \in W /\ obj[x].location \in Rooms
      BY <2>1, <2>2, <2>3
    <3> DEFINE d == dice[x]
    <3> HIDE DEF d
    <3>2. Follows(obj, Uncover(acc, x, p, r, before, d), W, X)
      BY <2>3, <3>1, UncoverFollows
    <3> QED
      BY <1>2, <3>2 DEF d
  <2> QED
    BY <2>3 DEF Turns
<1>4. Follows(obj, base, W, X)
  <2>1. D \subseteq DOMAIN out.o
    BY <1>0
  <2> HIDE DEF D
  <2>2. Follows(out.o, Outcome(out.o, D), W, X)
    BY <1>0, <2>1, NothingFollows
  <2> QED
    BY <2>2, FollowsThen
<1>5. Len(order) \in Nat /\ DOMAIN order = 1..Len(order) /\ \A i \in DOMAIN order : order[i] \in T
  <2>1. T \subseteq Items
    BY DEF HiddenThings
  <2>2. IsFiniteSet(T)
    BY <2>1, KindsAssumption, FS_Subset
  <2> QED
    BY <2>2, Ordered
<1> HIDE DEF e, base, T, r, before
<1>6. ASSUME NEW g PROVE IsRun(e, base, order, DOMAIN order, g) <=> P(g)
  <2>1. ASSUME NEW S
        PROVE  Step(e, g[S \ {Max(S)}], order[Max(S)])
                 = Uncover(g[S \ {Max(S)}], order[Max(S)], p, r, before, dice[order[Max(S)]])
    BY <1>2
  <2> QED
    BY <2>1 DEF IsRun
<1>7. (CHOOSE g : P(g)) = (CHOOSE g : IsRun(e, base, order, DOMAIN order, g))
  <2> HIDE DEF P
  <2> QED
    BY <1>6, Zenon
<1>8. UncoverAll(out, p, order, dice) = Run(e, base, order)
  <2> HIDE DEF P
  <2> QED
    BY <1>1, <1>7 DEF Run
<1> QED
  BY <1>3, <1>4, <1>5, <1>8, RunFollows

(***************************************************************************)
(* Coming in and looking around                                            *)
(***************************************************************************)

\* What is about and can be acted on: all but those that are dead.
About(o) == {c \in Creatures \cap DOMAIN o : o[c].active} \cup Items \cup Rooms

\* Who is about, spelled out.
LEMMA AboutIs ==
    ASSUME NEW o, MapType(o)
    PROVE  /\ Players \cup Items \cup Rooms \subseteq About(o)
           /\ \A r : NpcsInRoom(o, r) \subseteq About(o)
           /\ \A c \in Creatures : c \in About(o) <=> c \in DOMAIN o /\ o[c].active
<1>1. \A p \in Players : p \in DOMAIN o /\ o[p].active /\ p \in Creatures
  BY DEF MapType, Fits, Creatures
<1>2. \A r : NpcsInRoom(o, r) \subseteq Creatures
  BY DEF NpcsInRoom, Creatures
<1>3. \A c \in Creatures : c \notin Items \cup Rooms
  BY Kinds
<1> QED
  BY <1>1, <1>2, <1>3 DEF About, NpcsInRoom

\* A room and its scripts, with a player in it.
LEMMA PlaceFollows ==
    ASSUME TameScripts, NEW o, MapType(o), NEW W, NEW X, NEW out, Follows(o, out, W, X),
           NEW p \in Players, p \in W, Rooms \subseteq W, NEW r \in Rooms, NEW to \in Rooms \cup {Nobody},
           NEW event \in Events
    PROVE  Follows(o, Followed(out, event, Context(p, r, r, to)), W, X)
<1> DEFINE ctx == Context(p, r, r, to)
<1>1. ctx.actor = p /\ ctx.host = r /\ ctx.target = to
  BY DEF Context
<1>2. p \in DOMAIN o /\ r \in DOMAIN o /\ p \in Creatures /\ Nobody \notin DOMAIN o
  BY Kinds DEF MapType, Creatures
<1>3. p \notin Items /\ r \notin Items /\ to \notin Items
  BY <1>2, Kinds, KindsAssumption
<1> HIDE DEF ctx
<1>4. Among(o, ctx, W)
  BY <1>1, <1>2, <1>3 DEF Among, Reached
<1>5. Follows(o, Followed(out, event, ctx), W, X)
  BY <1>4, FollowedFollows
<1> QED
  BY <1>5 DEF ctx

\* A player elsewhere.
LEMMA MovedFollows ==
    ASSUME NEW o, MapType(o), NEW W, NEW X, NEW out, Follows(o, out, W, X), NEW p \in Players, p \in W, NEW to \in Rooms
    PROVE  Follows(o, Moved(out, p, to), W, X)
<1>1. MapType(out.o)
  BY FollowsFits
<1>2. p \in DOMAIN out.o /\ Reached(out.o, p, W)
  BY <1>1, Kinds DEF MapType, Reached
<1>3. Follows(out.o, Changed(out.o, p, [out.o[p] EXCEPT !.location = to]), W, X)
  BY <1>1, <1>2, ElsewhereFollows
<1> QED
  BY <1>3, FollowsThen DEF Moved

\* Coming in has an outcome without deaths.
LEMMA EnteredFollows ==
    ASSUME TameScripts, MapType(obj), NEW W, NEW X, NEW p \in Players, p \in W, Rooms \subseteq W,
           NEW from \in Rooms, NEW to \in Rooms
    PROVE  Follows(obj, Entered(p, from, to), W, X)
<1> DEFINE base == Outcome(obj, {})
           left == Followed(base, "on_leave", Context(p, from, from, to))
           moved == Moved(left, p, to)
<1>1. "on_leave" \in Events /\ "on_enter" \in Events
  BY DEF Events
<1>2. Follows(obj, base, W, X)
  BY NothingFollows
<1>5. Entered(p, from, to) = Followed(moved, "on_enter", Context(p, to, to, Nobody))
  BY DEF Entered
<1> HIDE DEF base
<1>3. Follows(obj, left, W, X)
  BY <1>1, <1>2, PlaceFollows
<1> HIDE DEF left
<1>4. Follows(obj, moved, W, X)
  BY <1>3, MovedFollows
<1> HIDE DEF moved
<1>6. Follows(obj, Followed(moved, "on_enter", Context(p, to, to, Nobody)), W, X)
  BY <1>1, <1>4, PlaceFollows
<1> QED
  BY <1>5, <1>6

\* What worn gear mends and what effects do to a player.
LEMMA ArrivedFollows ==
    ASSUME NEW o, MapType(o), NEW W, NEW X, NEW out, Follows(o, out, W, X), NEW p \in Players, p \in W
    PROVE  Follows(o, Arrived(out, p), W, X)
<1> DEFINE u == out.o
           c == Regenerated(u[p], u)
           t == TickConditions(c, "on_enter")
           d == t.c
           next == Appended(out, Changed(u, p, d))
<1>1. MapType(u)
  BY FollowsFits
<1>2. p \in DOMAIN u /\ p \in Creatures /\ Fits(p, u[p]) /\ Sane(u[p])
  BY <1>1 DEF MapType, Fits, Creatures
<1>3. Arrived(out, p) \in {out, next}
  BY DEF Arrived, Ticked
<1>4. Sane(c) /\ Same(u[p], c)
  BY <1>2, Mended
<1> HIDE DEF c
<1>5. Sane(d) /\ Same(c, d)
  BY <1>4, ConditionsTicked
<1> HIDE DEF t, d
<1>6. Stays(p, u[p], d, p \in X)
  <2>1. Same(u[p], d)
    BY <1>4, <1>5 DEF Same
  <2> QED
    BY <1>2, <1>5, <2>1, SameStays
<1>7. Follows(u, Changed(u, p, d), W, X)
  BY <1>1, <1>2, <1>6, FollowsOne
<1>8. Follows(o, next, W, X)
  BY <1>7, FollowsThen
<1> QED
  BY <1>3, <1>8

\* In a command after which nobody has died the map changes as in an outcome.
Kept(X) == \E out : Follows(obj, out, About(obj), X) /\ Commit(out)

\* Going somewhere buries nobody.
LEMMA GoKeeps ==
    ASSUME TameScripts, MapType(obj), NEW p \in Players, NEW to \in Rooms, session[p] \in Rooms, Go(p, to)
    PROVE  Kept({})
<1> DEFINE from == session[p]
           entered == Entered(p, from, to)
           there == NpcsInRoom(entered.o, to)
           W == About(obj)
<1>0. p \in W /\ Rooms \subseteq W
  BY AboutIs
<1>1. PICK order \in SetToSeqs(there), dice \in [there -> Dice] :
        Commit(Arrived(Appended(entered, BehaveAll(entered.o, order, p, to, dice)), p))
  BY DEF Go
<1>2. Follows(obj, entered, W, {})
  BY <1>0, EnteredFollows
<1> HIDE DEF entered, from
<1>3. MapType(entered.o)
  BY <1>2, FollowsFits
<1>4. there \subseteq W
  <2>1. ASSUME NEW n \in there
        PROVE  n \in W
    <3>1. n \in Creatures /\ n \in DOMAIN entered.o /\ entered.o[n].active
      BY DEF NpcsInRoom, Creatures
    <3>2. n \in DOMAIN obj /\ obj[n].active
      BY <1>2, <3>1 DEF Follows, Stays
    <3> QED
      BY <3>1, <3>2, AboutIs
  <2> QED
    BY <2>1
<1> HIDE DEF W
<1>5. Follows(entered.o, BehaveAll(entered.o, order, p, to, dice), W, {})
  BY <1>0, <1>3, <1>4, EnterFollows
<1> DEFINE met == BehaveAll(entered.o, order, p, to, dice)
<1> HIDE DEF met
<1>6. Follows(obj, Appended(entered, met), W, {})
  BY <1>2, <1>5, FollowsThen DEF met
<1>7. Follows(obj, Arrived(Appended(entered, met), p), W, {})
  BY <1>0, <1>6, ArrivedFollows
<1> QED
  BY <1>1, <1>7 DEF Kept, met, W

\* So does looking around.
LEMMA LookKeeps ==
    ASSUME TameScripts, MapType(obj), NEW p \in Players, session[p] \in Rooms, Look(p)
    PROVE  Kept({})
<1> DEFINE r == session[p]
           W == About(obj)
<1>0. p \in W /\ Items \subseteq W /\ Lurking(r) \subseteq W
  BY AboutIs DEF Lurking
<1>1. PICK order \in SetToSeqs(Lurking(r)), dice \in [Lurking(r) -> Dice] :
           \E met \in {NoticeAll(p, order, dice)} :
               \E things \in SetToSeqs(HiddenThings(met.o, r)), more \in [HiddenThings(met.o, r) -> Dice] :
                   Commit(UncoverAll(met, p, things, more))
  BY DEF Look
<1> DEFINE met == NoticeAll(p, order, dice)
<1>2. PICK things \in SetToSeqs(HiddenThings(met.o, r)), more \in [HiddenThings(met.o, r) -> Dice] :
          Commit(UncoverAll(met, p, things, more))
  BY <1>1
<1>3. Follows(obj, met, W, {})
  BY <1>0, NoticeAllFollows
<1> HIDE DEF met, W
<1>4. Follows(obj, UncoverAll(met, p, things, more), W, {})
  BY <1>0, <1>3, UncoverAllFollows
<1> QED
  BY <1>2, <1>4 DEF Kept, W

(***************************************************************************)
(* Deaths                                                                  *)
(***************************************************************************)

\* The id of the next corpse is free.
NextGrave(o, v) == <<Name[v], CorpseIndex(o)>>
HasPlace(o) == \A v \in Creatures : NextGrave(o, v) \in Corpses \ DOMAIN o

\* Who dies wears nothing and has not become more skilled; a player wakes up,
\* anybody else is taken out of the world.
Rests(v, c, d) ==
    /\ Sane(d) /\ d.id = v /\ d.body = {}
    /\ d.skills["combat"] = c.skills["combat"] /\ d.skill_xp["combat"] = c.skill_xp["combat"]
    /\ v \in Players => d.active /\ d.health > 0
    /\ v \in Npcs => ~d.active

\* A death: a new corpse has what v wore.
Buries(o, out, v, room) ==
    LET k == NextGrave(o, v) IN
    /\ DOMAIN out.o = DOMAIN o \cup {k} /\ IsMap(out.o)
    /\ {k, v} \cup o[v].body \subseteq out.dirty /\ out.dirty \subseteq DOMAIN o \cup {k}
    /\ out.o[k] \in CorpseType /\ out.o[k].active
    /\ out.o[k].location = room /\ out.o[k].corpse_of = v /\ out.o[k].contents = o[v].body
    /\ \A i \in o[v].body : out.o[i] = [o[i] EXCEPT !.location = k]
    /\ Rests(v, o[v], out.o[v])
    /\ \A id \in DOMAIN o : id # v /\ id \notin o[v].body => out.o[id] = o[id]

\* A corpse, and v as d besides.
LEMMA Grave ==
    ASSUME NEW o, MapType(o), HasPlace(o), NEW v \in Creatures, v \in DOMAIN o,
           NEW out, out.o = o, out.dirty \subseteq DOMAIN o,
           NEW c, c.id = v, c.body = o[v].body, NEW room \in Rooms, NEW owner \in Creatures \cup {Nobody},
           NEW d, Rests(v, o[v], d), NEW next,
           LET s == Stripped(Interred(out, c, room, owner), v)
           IN  next.o = [s.o EXCEPT ![v] = d] /\ next.dirty = s.dirty
    PROVE  Buries(o, next, v, room) /\ out.dirty \subseteq next.dirty
<1> DEFINE k == NextGrave(o, v)
           gear == o[v].body
           corpse == [active |-> TRUE, location |-> room, owner |-> owner, corpse_of |-> v, contents |-> gear]
           put == [x \in DOMAIN o \cup {k} |->
                    IF x = k THEN corpse
                    ELSE IF x \in gear THEN [o[x] EXCEPT !.location = k]
                    ELSE o[x]]
           s == Stripped(Interred(out, c, room, owner), v)
<1>0. Sane(o[v]) /\ o[v].id = v /\ gear \subseteq Items /\ Items \subseteq DOMAIN o
  BY DEF MapType, Fits, Sane, CreatureType
<1>1. gear \cap DOMAIN o = gear /\ v \notin gear /\ k \notin DOMAIN o /\ k # v /\ k \in Corpses
  BY <1>0, Kinds DEF HasPlace
<1>2. Laid(o, c, room, owner).o = put /\ Laid(o, c, room, owner).id = k
  BY <1>1 DEF Laid, NextGrave
<1>3. /\ s.o = [put EXCEPT ![v] = [put[v] EXCEPT !.body = {}]]
      /\ s.dirty = out.dirty \cup {k} \cup gear \cup {v}
  <2> DEFINE i == Interred(out, c, room, owner)
  <2>1. i.o = put /\ i.dirty = out.dirty \cup ({k} \cup gear)
    BY <1>2 DEF Interred, Appended, WithCorpse, Outcome
  <2> HIDE DEF i, put, k, gear
  <2>2. s.o = [i.o EXCEPT ![v] = [i.o[v] EXCEPT !.body = {}]] /\ s.dirty = i.dirty \cup {v}
    BY DEF Stripped, Appended, Changed, Outcome, i
  <2> QED
    BY <2>1, <2>2
<1>4. next.o = [s.o EXCEPT ![v] = d] /\ next.dirty = s.dirty
  OBVIOUS
<1> HIDE DEF s
<1>5. /\ DOMAIN put = DOMAIN o \cup {k} /\ put[k] = corpse
      /\ \A i \in gear : put[i] = [o[i] EXCEPT !.location = k]
      /\ \A id \in DOMAIN o : id # v /\ id \notin gear => put[id] = o[id]
  BY <1>0, <1>1
<1> HIDE DEF put
<1>6. /\ DOMAIN next.o = DOMAIN o \cup {k} /\ IsMap(next.o)
      /\ next.o[v] = d /\ \A id \in DOMAIN o \cup {k} : id # v => next.o[id] = put[id]
  <2> DEFINE w == [put[v] EXCEPT !.body = {}]
             f == s.o
             h == next.o
             D == DOMAIN o \cup {k}
  <2>1. f = [put EXCEPT ![v] = w] /\ h = [f EXCEPT ![v] = d] /\ v \in D /\ DOMAIN put = D
    BY <1>3, <1>4, <1>5
  <2> HIDE DEF w, f, h, D
  <2>2. DOMAIN f = D /\ \A id \in D : id # v => f[id] = put[id]
    BY <2>1
  <2>3. DOMAIN h = D /\ h[v] = d /\ IsMap(h) /\ \A id \in D : id # v => h[id] = put[id]
    BY <2>1, <2>2 DEF IsMap
  <2> QED
    BY <2>3 DEF h, D
<1>7. /\ corpse \in CorpseType /\ corpse.active
      /\ corpse.location = room /\ corpse.corpse_of = v /\ corpse.contents = gear
  BY <1>0 DEF CorpseType
<1>8. {k, v} \cup gear \subseteq next.dirty /\ next.dirty \subseteq DOMAIN o \cup {k} /\ out.dirty \subseteq next.dirty
  BY <1>0, <1>3, <1>4
<1> HIDE DEF corpse
<1>9. next.o[k] = corpse /\ (\A i \in gear : next.o[i] = [o[i] EXCEPT !.location = k])
      /\ \A id \in DOMAIN o : id # v /\ id \notin gear => next.o[id] = o[id]
  BY <1>0, <1>1, <1>5, <1>6
<1> QED
  BY <1>6, <1>7, <1>8, <1>9 DEF Buries

\* A blow of which v dies: what comes before, the burial, and what comes after.
Falls(o, out, W, X, v, room) ==
    \E m, b : /\ Follows(o, m, W, X)
              /\ Buries(m.o, b, v, room)
              /\ Follows(b.o, out, W, X)
              /\ m.dirty \subseteq out.dirty /\ b.dirty \subseteq out.dirty

\* A burial leaves a map of objects.
LEMMA BuriesFits ==
    ASSUME NEW o, MapType(o), HasPlace(o), NEW out, NEW v \in Creatures, v \in DOMAIN o, NEW room, Buries(o, out, v, room)
    PROVE  MapType(out.o)
<1> DEFINE k == NextGrave(o, v)
           u == out.o
<1>1. DOMAIN u = DOMAIN o \cup {k} /\ IsMap(u) /\ k \in Corpses
  BY DEF Buries, HasPlace
<1>2. o[v].body \subseteq Items
  BY DEF MapType, Fits, Sane, CreatureType
<1>3. ASSUME NEW id \in DOMAIN u
      PROVE  Fits(id, u[id])
  <2>1. CASE id = k
    BY <1>1, <2>1, Kinds DEF Buries, Fits
  <2>2. CASE id = v
    <3>1. Rests(v, o[v], u[v])
      BY DEF Buries
    <3> QED
      BY <2>2, <3>1, Kinds DEF Rests, Fits
  <2>3. CASE id \in o[v].body
    <3>1. id \in Items /\ id \in DOMAIN o
      BY <1>2, <2>3 DEF MapType
    <3>2. o[id] \in ItemType
      BY <3>1 DEF MapType, Fits
    <3>3. u[id] = [o[id] EXCEPT !.location = k] /\ k \in Ids
      BY <1>1, <2>3 DEF Buries, Ids
    <3>4. u[id] \in ItemType
      BY <3>2, <3>3 DEF ItemType
    <3> QED
      BY <3>1, <3>4, Kinds DEF Fits
  <2>4. CASE id # k /\ id # v /\ id \notin o[v].body
    <3>1. id \in DOMAIN o /\ u[id] = o[id]
      BY <1>1, <2>4 DEF Buries
    <3> QED
      BY <3>1 DEF MapType
  <2> QED
    BY <2>1, <2>2, <2>3, <2>4
<1>4. DOMAIN u \subseteq Ids /\ Players \cup Items \cup Rooms \subseteq DOMAIN u
  BY <1>1 DEF MapType, Ids
<1> QED
  BY <1>1, <1>3, <1>4 DEF MapType

\* The next grave is the same while nobody has been buried.
LEMMA PlaceStill ==
    ASSUME NEW o, NEW u, DOMAIN u = DOMAIN o
    PROVE  HasPlace(o) => HasPlace(u)
BY DEF HasPlace, NextGrave, CorpseIndex

\* The death of an NPC buries it and takes it out of the world.
LEMMA NpcDies ==
    ASSUME TameScripts, NEW o, MapType(o), HasPlace(o), NEW W, NEW X, NEW out, Follows(o, out, W, X),
           NEW v \in Npcs, v \in DOMAIN o, v \in W, NEW p \in Players, p \in W,
           NEW room \in Rooms, NEW owner \in Creatures \cup {Nobody}
    PROVE  LET next == NpcDeath(out, v, p, room, owner) IN Falls(o, next, W, X, v, room) /\ ~next.o[v].active
<1> DEFINE next == NpcDeath(out, v, p, room, owner)
           m == ExecuteKillEvents(out, v, p, room)
           c == out.o[v]
           s == Stripped(Interred(m, c, room, owner), v)
           e == [m.o[v] EXCEPT !.body = {}]
           d == [s.o[v] EXCEPT !.active = FALSE]
<1>0. v \in Creatures /\ v \notin Players /\ p \in Creatures /\ p \in DOMAIN o
  BY Kinds DEF MapType
<1>1. Follows(o, m, W, X)
  BY <1>0, KillFollows
<1>2. next.o = [s.o EXCEPT ![v] = d] /\ next.dirty = s.dirty \cup {v}
  BY DEF NpcDeath, Deleted, Appended, Changed, Outcome
<1> HIDE DEF m, next
<1>3. MapType(m.o) /\ MapType(out.o) /\ DOMAIN m.o = DOMAIN o /\ DOMAIN out.o = DOMAIN o /\ m.dirty \subseteq DOMAIN m.o
  BY <1>1, FollowsFits DEF Follows
<1>4. c.id = v /\ c.body = m.o[v].body
  BY <1>0, <1>1, <1>3 DEF Follows, Stays, MapType, Fits
<1>5. Sane(m.o[v]) /\ m.o[v].id = v /\ m.o[v] \in CreatureType
  BY <1>0, <1>3 DEF MapType, Fits, Sane
<1>6. HasPlace(m.o)
  BY <1>3, PlaceStill
<1>7. s.o[v] = e /\ v \in s.dirty
  <2> DEFINE i == Interred(m, c, room, owner)
             l == Laid(m.o, c, room, owner)
  <2>1. i.o = l.o
    BY DEF Interred, WithCorpse, Appended, Outcome
  <2>2. v \in DOMAIN l.o /\ l.o[v] = m.o[v]
    <3>1. v \notin c.body /\ NextGrave(m.o, v) # v
      BY <1>0, <1>3, <1>4, <1>5, <1>6, Kinds DEF CreatureType, HasPlace
    <3> QED
      BY <1>3, <1>4, <3>1 DEF Laid, NextGrave
  <2> HIDE DEF i, l
  <2>3. s.o = [i.o EXCEPT ![v] = [i.o[v] EXCEPT !.body = {}]] /\ v \in s.dirty
    BY DEF Stripped, Appended, Changed, Outcome, i
  <2> QED
    BY <2>1, <2>2, <2>3
<1> HIDE DEF c
<1>8. Rests(v, m.o[v], d) /\ ~d.active
  <2>1. e \in CreatureType
    BY <1>5 DEF CreatureType
  <2>2. d \in CreatureType /\ ~d.active /\ d.body = {}
    BY <1>7, <2>1 DEF CreatureType
  <2>3. /\ d.active_effects = m.o[v].active_effects /\ d.condition_ticks = m.o[v].condition_ticks
        /\ d.stat_mods = m.o[v].stat_mods /\ d.skill_mods = m.o[v].skill_mods
        /\ d.id = v /\ d.skills = m.o[v].skills /\ d.skill_xp = m.o[v].skill_xp
    BY <1>5, <1>7 DEF CreatureType
  <2> HIDE DEF d
  <2>4. Sane(d)
    BY <1>5, <2>2, <2>3, Resettled
  <2> QED
    BY <1>0, <2>2, <2>3, <2>4 DEF Rests
<1>9. next.dirty = s.dirty
  BY <1>2, <1>7
<1> HIDE DEF s, d
<1>10. Buries(m.o, next, v, room) /\ m.dirty \subseteq next.dirty
  BY <1>0, <1>2, <1>3, <1>4, <1>6, <1>8, <1>9, Grave DEF s
<1>11. MapType(next.o)
  BY <1>0, <1>3, <1>6, <1>10, BuriesFits
<1>12. Follows(next.o, next, W, X)
  <2>1. next.dirty \subseteq DOMAIN next.o
    BY <1>10 DEF Buries
  <2> QED
    BY <1>11, <2>1, FollowsNone
<1>13. Falls(o, next, W, X, v, room)
  BY <1>1, <1>10, <1>12 DEF Falls
<1>14. ~next.o[v].active
  BY <1>10 DEF Buries, Rests
<1> QED
  BY <1>13, <1>14 DEF next

\* The death of a player buries what it wore and wakes it up in a room; nobody else changes.
LEMMA PlayerDies ==
    ASSUME NEW o, MapType(o), HasPlace(o), NEW W, NEW X, NEW out, Follows(o, out, W, X),
           NEW v \in Players, v \in DOMAIN o, NEW room \in Rooms
    PROVE  LET next == PlayerDeath(out, v, room)
           IN  /\ Falls(o, next, W, X, v, room) /\ next.o[v].health > 0
               /\ \A c \in (Creatures \cap DOMAIN o) \ {v} : next.o[c] = out.o[c]
               /\ next.o[v].location \in Rooms
<1> DEFINE next == PlayerDeath(out, v, room)
           u == out.o
           c == u[v]
           home == IF c.home # Nobody THEN c.home ELSE c.location
           s == Stripped(Interred(out, c, room, c.owner), v)
           e == [c EXCEPT !.body = {}]
           full == EffectiveMaxHealth(s.o[v], s.o)
           d == [s.o[v] EXCEPT !.location = home, !.health = full]
<1>1. MapType(u) /\ DOMAIN u = DOMAIN o /\ out.dirty \subseteq DOMAIN u
  BY FollowsFits DEF Follows
<1>2. v \in Creatures /\ v \notin Npcs
  BY Kinds
<1>3. Sane(c) /\ c.id = v /\ c \in CreatureType /\ c.active
  BY <1>1, <1>2 DEF MapType, Fits, Sane
<1>4. next.o = [s.o EXCEPT ![v] = d] /\ next.dirty = s.dirty \cup {v}
  BY DEF PlayerDeath, Woken, Appended, Changed, Outcome
<1> HIDE DEF next
<1>5. HasPlace(u)
  BY <1>1, PlaceStill
<1>6. s.o[v] = e /\ v \in s.dirty
  <2> DEFINE i == Interred(out, c, room, c.owner)
             l == Laid(u, c, room, c.owner)
  <2>1. i.o = l.o
    BY DEF Interred, WithCorpse, Appended, Outcome
  <2>2. v \in DOMAIN l.o /\ l.o[v] = c
    <3>1. v \notin c.body /\ NextGrave(u, v) # v
      BY <1>1, <1>2, <1>3, <1>5, Kinds DEF CreatureType, HasPlace
    <3> QED
      BY <1>1, <1>3, <3>1 DEF Laid, NextGrave
  <2> HIDE DEF i, l
  <2>3. s.o = [i.o EXCEPT ![v] = [i.o[v] EXCEPT !.body = {}]] /\ v \in s.dirty
    BY DEF Stripped, Appended, Changed, Outcome, i
  <2> QED
    BY <2>1, <2>2, <2>3
<1>7. home \in Rooms /\ c.owner \in Creatures \cup {Nobody}
  BY <1>3 DEF CreatureType
<1>8. e \in CreatureType
  BY <1>3 DEF CreatureType
<1>9. full \in Nat \ {0}
  BY <1>6, <1>8, Scores
<1> HIDE DEF home, full
<1>10. Rests(v, c, d) /\ d.health > 0 /\ d.location \in Rooms
  <2>1. d \in CreatureType /\ d.health = full /\ d.location = home /\ d.body = {} /\ d.active
    <3>1. c \in CreatureType /\ c.active
      BY <1>3
    <3> HIDE DEF c
    <3>2. d = [e EXCEPT !.location = home, !.health = full]
      BY <1>6
    <3>3. {} \in SUBSET Items /\ full \in Nat
      BY <1>9
    <3> HIDE DEF d
    <3> QED
      BY <1>7, <3>1, <3>2, <3>3 DEF CreatureType
  <2>2. /\ d.active_effects = c.active_effects /\ d.condition_ticks = c.condition_ticks
        /\ d.stat_mods = c.stat_mods /\ d.skill_mods = c.skill_mods
        /\ d.id = v /\ d.skills = c.skills /\ d.skill_xp = c.skill_xp
    BY <1>3, <1>6 DEF CreatureType
  <2> HIDE DEF d
  <2>3. Sane(d)
    BY <1>3, <2>1, <2>2, Resettled
  <2> QED
    BY <1>2, <1>7, <1>9, <2>1, <2>2, <2>3 DEF Rests
<1>11. next.dirty = s.dirty
  BY <1>4, <1>6
<1> HIDE DEF s, d
<1> DEFINE owner == c.owner
<1>12. Buries(u, next, v, room) /\ out.dirty \subseteq next.dirty
  <2>1. s = Stripped(Interred(out, c, room, owner), v)
    BY DEF s
  <2>2. c.body = u[v].body /\ owner \in Creatures \cup {Nobody} /\ Rests(v, u[v], d)
    BY <1>7, <1>10
  <2> HIDE DEF c, owner
  <2> QED
    BY <1>1, <1>2, <1>3, <1>4, <1>5, <1>11, <2>1, <2>2, Grave
<1>13. MapType(next.o)
  BY <1>1, <1>2, <1>5, <1>12, BuriesFits
<1>14. Follows(next.o, next, W, X)
  <2>1. next.dirty \subseteq DOMAIN next.o
    BY <1>12 DEF Buries
  <2> QED
    BY <1>13, <2>1, FollowsNone
<1>15. Falls(o, next, W, X, v, room)
  BY <1>12, <1>14 DEF Falls
<1>16. next.o[v].health > 0
  BY <1>12 DEF Buries, Rests
<1>17. next.o[v].location \in Rooms
  BY <1>1, <1>2, <1>12, <1>13 DEF Buries, MapType, Fits, Sane, CreatureType
<1>18. \A x \in (Creatures \cap DOMAIN o) \ {v} : next.o[x] = u[x]
  <2>1. c.body \subseteq Items
    BY <1>3 DEF CreatureType
  <2> QED
    BY <1>1, <1>12, <2>1, Kinds DEF Buries
<1> QED
  BY <1>15, <1>16, <1>17, <1>18 DEF next

(***************************************************************************)
(* An exchange of blows                                                    *)
(***************************************************************************)

\* What decides over a blow is a number.
LEMMA SeedIs ==
    ASSUME NEW c \in Creatures, NEW t \in Creatures, NEW room \in Rooms
    PROVE  CombatSeed[c, t, room] \in Nat
BY CombatAssumption, Zenon

\* What a blow makes of an exchange: it is only over with a death, and only
\* players wake up.
Turn(o, x, W, X, room) ==
    \/ Follows(o, x.out, W, X) /\ x.woke = Nobody
    \/ /\ x.over
       /\ \E v \in Creatures \cap W :
            /\ v \in DOMAIN o /\ Falls(o, x.out, W, X, v, room)
            /\ x.woke = Nobody \/ (x.woke = v /\ v \in Players /\ x.out.o[v].location \in Rooms)

\* A creature that is up, or out of the world.
Settles(c) == c.health > 0 \/ ~c.active

\* A blow to the player p.
Strikes(o, out, x, W, X, p, room) ==
    /\ Turn(o, x, W, X, room)
    /\ \A c \in (Creatures \cap DOMAIN o) \ {p} : x.out.o[c] = out.o[c]

\* A blow to the player who attacks ends the exchange if it kills.
LEMMA BlowToActorTurns ==
    ASSUME NEW o, MapType(o), HasPlace(o), NEW W, NEW X, NEW out, Follows(o, out, W, X),
           NEW p \in Players, p \in W, NEW m \in Npcs, m \in DOMAIN o, NEW before \in CreatureType,
           NEW room \in Rooms, NEW first \in BOOLEAN
    PROVE  Strikes(o, out, BlowToActor(out, p, m, before, room, first), W, X, p, room)
<1> DEFINE x == BlowToActor(out, p, m, before, room, first)
           u == out.o
           q == u[p]
           surprise == first /\ ~before.player_aware
           seed == CombatSeed[m, p, room]
           n == RetaliationHit(m, u[m], before, seed, surprise, u)
           less == ApplyDamage(q, n)
           aware == less.player_aware \/ first
           hurt == [less EXCEPT !.player_aware = aware]
           next == Appended(out, Changed(u, p, hurt))
           death == PlayerDeath(next, p, room)
<1>1. MapType(u) /\ DOMAIN u = DOMAIN o
  BY FollowsFits DEF Follows
<1>2. /\ p \in DOMAIN u /\ p \in Creatures /\ m \in Creatures /\ Fits(p, q) /\ Sane(q) /\ u[m] \in CreatureType
  <2>1. m \in DOMAIN u
    BY <1>1
  <2> HIDE DEF u
  <2> QED
    BY <1>1, <2>1, Present
<1>3. seed \in Nat
  BY <1>2, SeedIs, Zenon
<1>4. n \in Int
  <2> HIDE DEF seed, surprise, u
  <2> QED
    BY <1>2, <1>3, HitsAre
<1>5. x = AfterBlowToActor(next, p, room)
  BY DEF BlowToActor
<1>6. x = IF IsDefeated(next.o[p]) THEN Exchange(death, TRUE, p) ELSE Exchange(next, FALSE, Nobody)
  BY <1>5 DEF AfterBlowToActor
<1> HIDE DEF n, q, x
<1>7. Sane(less) /\ Same(q, less)
  BY <1>2, <1>4, Hurt
<1>8. aware \in BOOLEAN
  OBVIOUS
<1> HIDE DEF less, aware
<1>9. Sane(hurt) /\ Same(less, hurt)
  BY <1>7, <1>8, FlagsSet
<1> HIDE DEF hurt
<1>10. Stays(p, q, hurt, p \in X)
  <2>1. Same(q, hurt)
    BY <1>7, <1>9 DEF Same
  <2> QED
    BY <1>2, <1>9, <2>1, SameStays
<1>11. Follows(u, Changed(u, p, hurt), W, X)
  BY <1>1, <1>2, <1>10, FollowsOne DEF q
<1>12. Follows(o, next, W, X)
  BY <1>11, FollowsThen
<1>13. \A c \in (Creatures \cap DOMAIN o) \ {p} : next.o[c] = u[c]
  <2>1. next.o = [u EXCEPT ![p] = hurt]
    BY DEF Appended, Changed, Outcome
  <2> QED
    BY <1>1, <2>1
<1>14. /\ Falls(o, death, W, X, p, room)
       /\ \A c \in (Creatures \cap DOMAIN o) \ {p} : death.o[c] = next.o[c]
       /\ death.o[p].location \in Rooms
  BY <1>1, <1>2, <1>12, PlayerDies
<1> HIDE DEF next, death, u
<1>15. CASE IsDefeated(next.o[p])
  <2>1. x.out = death /\ x.over /\ x.woke = p
    BY <1>6, <1>15 DEF Exchange
  <2>2. p \in Creatures \cap W /\ p \in DOMAIN o
    BY <1>1, <1>2
  <2>3. Turn(o, x, W, X, room)
    BY <1>14, <2>1, <2>2 DEF Turn
  <2> QED
    BY <1>13, <1>14, <2>1, <2>3 DEF x, u, Strikes
<1>16. CASE ~IsDefeated(next.o[p])
  <2>1. x.out = next /\ x.woke = Nobody
    BY <1>6, <1>16 DEF Exchange
  <2>2. Turn(o, x, W, X, room)
    BY <1>12, <2>1 DEF Turn
  <2> QED
    BY <1>13, <2>1, <2>2 DEF x, u, Strikes
<1> QED
  BY <1>15, <1>16

\* So does a blow to whom it attacks, who is then up or out of the world.
LEMMA BlowToTargetTurns ==
    ASSUME TameScripts, NEW o, MapType(o), HasPlace(o), NEW W, NEW X, NEW out, Follows(o, out, W, X),
           NEW p \in Players, p \in W, p \in X, NEW t \in Creatures, t # p, t \in W, t \in DOMAIN o,
           NEW before, MapType(before), t \in DOMAIN before, NEW room \in Rooms
    PROVE  LET x == BlowToTarget(out, p, t, before, room)
           IN  Turn(o, x, W, X, room) /\ Settles(x.out.o[t])
<1> DEFINE x == BlowToTarget(out, p, t, before, room)
           u == out.o
           q == u[p]
           c == u[t]
           surprise == ~before[t].creature_aware
           seed == CombatSeed[p, t, room]
           n == CombatHit(before[p], before[t], seed, surprise, u)
           less == ApplyDamage(c, n)
           seen == [less EXCEPT !.creature_aware = TRUE]
           hurt == [seen EXCEPT !.player_discovered = TRUE]
           xp == IF IsDefeated(hurt) THEN 5 ELSE 1
           skilled == AwardSkillXp(q, "combat", xp)
           struck == Outcome([u EXCEPT ![t] = hurt, ![p] = skilled], {t, p})
           next == Appended(out, struck)
           owner == before[p].owner
<1>1. MapType(u) /\ DOMAIN u = DOMAIN o
  BY FollowsFits DEF Follows
<1>2. p \in DOMAIN u /\ p \in DOMAIN before /\ p \in Creatures
  BY <1>1 DEF MapType, Creatures
<1>3. /\ Fits(p, q) /\ Sane(q) /\ Fits(t, c) /\ Sane(c)
      /\ before[p] \in CreatureType /\ before[t] \in CreatureType /\ owner \in Creatures \cup {Nobody}
  <2>1. before[p] \in CreatureType /\ before[t] \in CreatureType
    BY <1>2 DEF MapType, Fits, Sane
  <2>2. owner \in Creatures \cup {Nobody}
    BY <2>1 DEF CreatureType
  <2>3. t \in DOMAIN u
    BY <1>1
  <2>4. Fits(p, q) /\ Fits(t, c)
    BY <1>1, <1>2, <2>3 DEF MapType
  <2> HIDE DEF q, c, owner
  <2> QED
    BY <1>2, <2>1, <2>2, <2>4 DEF Fits
<1>4. seed \in Nat
  BY <1>2, SeedIs, Zenon
<1>5. n \in Int
  <2> HIDE DEF seed, surprise, u
  <2> QED
    BY <1>3, <1>4, HitsAre
<1>6. x = AfterBlowToTarget(next, p, t, room, owner)
  <2>1. {t, p} = {p, t}
    OBVIOUS
  <2> QED
    BY <2>1 DEF BlowToTarget
<1>7. "combat" \in Skills /\ xp \in Nat
  BY DEF Skills
<1> HIDE DEF n, q, c, x, xp, owner
<1>8. Sane(less) /\ Same(c, less)
  BY <1>3, <1>5, Hurt
<1> HIDE DEF less
<1>9. Sane(seen) /\ Same(less, seen)
  BY <1>8, FlagsSet
<1> HIDE DEF seen
<1>10. Sane(hurt) /\ Same(seen, hurt)
  BY <1>9, FlagsSet
<1> HIDE DEF hurt
<1>11. Stays(t, c, hurt, t \in X)
  <2>1. Same(c, hurt)
    BY <1>8, <1>9, <1>10 DEF Same
  <2> QED
    BY <1>3, <1>10, <2>1, SameStays
<1>12. Stays(p, q, skilled, p \in X)
  <2>1. Sane(skilled) /\ skilled.id = q.id /\ skilled.active = q.active /\ skilled.body = q.body
    BY <1>3, <1>7, Awarded
  <2> HIDE DEF skilled
  <2>2. Fits(p, skilled)
    BY <1>2, <1>3, <2>1, Kinds DEF Fits
  <2> QED
    BY <1>2, <2>1, <2>2, Kinds DEF Stays
<1> HIDE DEF skilled
<1>13. Follows(u, struck, W, X)
  BY <1>1, <1>2, <1>11, <1>12, FollowsTwo DEF q, c
<1>14. Follows(o, next, W, X)
  <2> HIDE DEF struck
  <2> QED
    BY <1>13, FollowsThen
<1>15. next.o[t] = hurt /\ hurt \in CreatureType
  <2>1. next.o = [u EXCEPT ![t] = hurt, ![p] = skilled]
    BY DEF Appended, Outcome
  <2> QED
    BY <1>1, <1>10, <2>1 DEF Sane
<1> HIDE DEF next, struck
<1>16. CASE ~IsDefeated(hurt)
  <2>1. x.out = next /\ x.woke = Nobody
    BY <1>6, <1>15, <1>16 DEF AfterBlowToTarget, Exchange
  <2>2. Turn(o, x, W, X, room)
    BY <1>14, <2>1 DEF Turn
  <2>3. hurt.health > 0
    BY <1>15, <1>16 DEF IsDefeated, CreatureHealth, AtLeast, CreatureType
  <2> QED
    BY <1>15, <2>1, <2>2, <2>3 DEF Settles, x
<1>17. CASE IsDefeated(hurt) /\ t \in Npcs
  <2> DEFINE death == NpcDeath(next, t, p, room, owner)
  <2>1. x.out = death /\ x.over /\ x.woke = Nobody
    BY <1>6, <1>15, <1>17 DEF AfterBlowToTarget, Exchange
  <2>2. Falls(o, death, W, X, t, room) /\ ~death.o[t].active
    BY <1>3, <1>14, <1>17, NpcDies
  <2> HIDE DEF death
  <2>3. Turn(o, x, W, X, room)
    BY <2>1, <2>2 DEF Turn
  <2> QED
    BY <2>1, <2>2, <2>3 DEF Settles, x
<1>18. CASE IsDefeated(hurt) /\ t \notin Npcs
  <2> DEFINE death == PlayerDeath(next, t, room)
  <2>0. t \in Players
    BY <1>18, Kinds
  <2>1. x.out = death /\ x.over /\ x.woke = t
    BY <1>6, <1>15, <1>18 DEF AfterBlowToTarget, Exchange
  <2>2. Falls(o, death, W, X, t, room) /\ death.o[t].health > 0 /\ death.o[t].location \in Rooms
    BY <1>14, <2>0, PlayerDies
  <2> HIDE DEF death
  <2>3. Turn(o, x, W, X, room)
    BY <2>0, <2>1, <2>2 DEF Turn
  <2> QED
    BY <2>1, <2>2, <2>3 DEF Settles, x
<1> QED
  BY <1>16, <1>17, <1>18

\* The exchange as a whole: the target is as hale as it was, or up, or out of
\* the world.
LEMMA AttackTurns ==
    ASSUME TameScripts, NEW o, MapType(o), HasPlace(o), NEW p \in Players, NEW t, NEW room \in Rooms,
           MayAttack(o, p, room, t)
    PROVE  LET x == AttackCreature(o, p, room, t)
           IN  /\ Turn(o, x, {p, t}, {p}, room)
               /\ x.out.o[t].health = o[t].health \/ Settles(x.out.o[t])
<1> DEFINE W == {p, t}
           X == {p}
           x1 == Opened(o, p, room, t)
           x2 == Hit(x1, p, t, o, room)
           x3 == Answered(x2, p, t, o, room)
           base == Outcome(o, {})
<1>0. /\ t \in Creatures /\ t # p /\ t \in DOMAIN o /\ p \in Creatures /\ p \in DOMAIN o
      /\ o[p] \in CreatureType /\ p \in W /\ t \in W /\ p \in X
  BY DEF MayAttack, MapType, Creatures, Fits, Sane
<1>1. Follows(o, base, W, X) /\ base.o = o
  BY NothingFollows DEF Outcome
<1> HIDE DEF W, X, base
<1>2. Turn(o, x1, W, X, room) /\ x1.out.o[t] = o[t]
  <2>1. CASE TargetFirst(o, p, t) /\ t \in Npcs
    <3> DEFINE y == BlowToActor(base, p, t, o[p], room, TRUE)
    <3>1. x1 = y
      BY <2>1 DEF Opened, base
    <3>2. TRUE \in BOOLEAN
      OBVIOUS
    <3> DEFINE before == o[p]
               first == TRUE
    <3>b. before \in CreatureType /\ first \in BOOLEAN
      BY <1>0
    <3> HIDE DEF before, first
    <3>3. Strikes(o, base, BlowToActor(base, p, t, before, room, first), W, X, p, room)
      BY <1>0, <1>1, <2>1, <3>b, BlowToActorTurns
    <3>4. Strikes(o, base, y, W, X, p, room)
      BY <3>3 DEF before, first
    <3> HIDE DEF y
    <3> QED
      BY <1>0, <1>1, <3>1, <3>4 DEF Strikes
  <2>2. CASE ~(TargetFirst(o, p, t) /\ t \in Npcs)
    <3>1. x1 = Exchange(base, FALSE, Nobody)
      BY <2>2 DEF Opened, base
    <3>2. x1.out = base /\ x1.woke = Nobody
      BY <3>1 DEF Exchange
    <3> HIDE DEF x1
    <3> QED
      BY <1>1, <3>2 DEF Turn
  <2> QED
    BY <2>1, <2>2
<1> HIDE DEF x1
<1>3. Turn(o, x2, W, X, room) /\ (x2.out.o[t].health = o[t].health \/ Settles(x2.out.o[t]))
  <2>1. CASE x1.over
    <3>1. x2 = x1
      BY <2>1 DEF Hit
    <3> HIDE DEF x2
    <3> QED
      BY <1>2, <3>1
  <2>2. CASE ~x1.over
    <3> DEFINE out == x1.out
               y == BlowToTarget(out, p, t, o, room)
    <3>1. x2 = y
      BY <2>2 DEF Hit
    <3>2. Follows(o, out, W, X)
      BY <1>2, <2>2 DEF Turn
    <3> HIDE DEF out
    <3>3. Turn(o, y, W, X, room) /\ Settles(y.out.o[t])
      BY <1>0, <3>2, BlowToTargetTurns
    <3> HIDE DEF y
    <3> QED
      BY <3>1, <3>3
  <2> QED
    BY <2>1, <2>2
<1> HIDE DEF x2
<1>4. Turn(o, x3, W, X, room) /\ (x3.out.o[t].health = o[t].health \/ Settles(x3.out.o[t]))
  <2> DEFINE y == BlowToActor(x2.out, p, t, o[p], room, FALSE)
             done == \/ x2.over
                     \/ TargetFirst(o, p, t) \/ t \notin Npcs
                     \/ ~o[p].player_aware
  <2>1. x3 = IF done THEN x2 ELSE y
    BY DEF Answered
  <2>2. CASE done
    <3>1. x3 = x2
      BY <2>1, <2>2
    <3> HIDE DEF x3
    <3> QED
      BY <1>3, <3>1
  <2>3. CASE ~done
    <3>1. x3 = y /\ ~x2.over /\ t \in Npcs
      BY <2>1, <2>3
    <3>2. Follows(o, x2.out, W, X) /\ FALSE \in BOOLEAN
      BY <1>3, <3>1 DEF Turn
    <3> DEFINE out == x2.out
    <3> HIDE DEF out
    <3> DEFINE before == o[p]
               first == FALSE
    <3>b. before \in CreatureType /\ first \in BOOLEAN /\ Follows(o, out, W, X)
      BY <1>0, <3>2 DEF out
    <3> HIDE DEF before, first
    <3>3. Strikes(o, out, BlowToActor(out, p, t, before, room, first), W, X, p, room)
      BY <1>0, <3>1, <3>b, BlowToActorTurns
    <3>4. Turn(o, y, W, X, room) /\ y.out.o[t] = x2.out.o[t]
      BY <1>0, <3>3 DEF out, before, first, Strikes
    <3> HIDE DEF y
    <3> QED
      BY <1>3, <3>1, <3>4
  <2> QED
    BY <2>2, <2>3
<1>5. AttackCreature(o, p, room, t) = x3
  BY DEF AttackCreature, x1, x2
<1> QED
  BY <1>4, <1>5 DEF W, X

(***************************************************************************)
(* The state of the world                                                  *)
(***************************************************************************)

\* Who wears a thing or has it inside, and where the thing says it is.
Holding(o) ==
    /\ \A c \in Creatures \cap DOMAIN o : \A i \in o[c].body : o[i].location = c
    /\ \A k \in Corpses \cap DOMAIN o : \A i \in o[k].contents : o[i].location = k
    /\ \A i \in Items :
         \/ o[i].location \in Rooms
         \/ o[i].location \in Creatures \cap DOMAIN o /\ i \in o[o[i].location].body
         \/ o[i].location \in Corpses \cap DOMAIN o /\ i \in o[o[i].location].contents

\* What is out of the world has nothing.
Spent(o) ==
    /\ \A c \in Creatures \cap DOMAIN o : ~o[c].active => o[c].body = {}
    /\ \A k \in Corpses \cap DOMAIN o : ~o[k].active => o[k].contents = {}

\* The corpses of a map, and their numbers: no two have the same, and none is
\* beyond their count.
Graves(o) == {id \in DOMAIN o : IsCorpse(id)}
Numbered(o) ==
    /\ IsFiniteSet(Graves(o))
    /\ \A k \in Graves(o) : k[2] \in 1..Cardinality(Graves(o))
    /\ \A k, l \in Graves(o) : k[2] = l[2] => k = l

World(o) == MapType(o) /\ Holding(o) /\ Spent(o) /\ Numbered(o)

\* The corpses of a map are those with such ids.
LEMMA GravesAre ==
    ASSUME NEW o, MapType(o)
    PROVE  Graves(o) = Corpses \cap DOMAIN o
BY Kinds DEF Graves, MapType

\* An outcome without deaths keeps the world in order.
LEMMA FollowsKeepsWorld ==
    ASSUME NEW o, World(o), NEW out, NEW W, NEW X, Follows(o, out, W, X)
    PROVE  World(out.o)
<1> DEFINE u == out.o
<1>0. MapType(o) /\ Holding(o) /\ Spent(o) /\ Numbered(o)
  BY DEF World
<1>1. MapType(u) /\ DOMAIN u = DOMAIN o
  BY <1>0, FollowsFits DEF Follows
<1>2. \A c \in Creatures \cap DOMAIN o : u[c].body = o[c].body /\ u[c].active = o[c].active
  BY DEF Follows, Stays
<1>3. \A i \in Items : u[i].location = o[i].location \/ {o[i].location, u[i].location} \subseteq Rooms
  BY <1>0 DEF MapType, Follows, Stays
<1>4. \A k \in Corpses \cap DOMAIN o : u[k] = o[k]
  BY DEF Follows, Stays
<1>b. /\ \A c \in Creatures \cap DOMAIN o : o[c].body \subseteq Items
      /\ \A k \in Corpses \cap DOMAIN o : o[k].contents \subseteq Items
  BY <1>0 DEF MapType, Fits, Sane, CreatureType, CorpseType
<1> HIDE DEF u
<1>5. Holding(u)
  <2>1. ASSUME NEW c \in Creatures \cap DOMAIN u, NEW i \in u[c].body
        PROVE  u[i].location = c
    <3>1. i \in Items /\ o[i].location = c /\ c \notin Rooms
      BY <1>0, <1>1, <1>2, <1>b, <2>1, Kinds DEF Holding
    <3> QED
      BY <1>3, <3>1
  <2>2. ASSUME NEW k \in Corpses \cap DOMAIN u, NEW i \in u[k].contents
        PROVE  u[i].location = k
    <3>1. i \in Items /\ o[i].location = k /\ k \notin Rooms
      BY <1>0, <1>1, <1>4, <1>b, <2>2, Kinds DEF Holding
    <3> QED
      BY <1>3, <3>1
  <2>3. ASSUME NEW i \in Items
        PROVE  \/ u[i].location \in Rooms
               \/ u[i].location \in Creatures \cap DOMAIN u /\ i \in u[u[i].location].body
               \/ u[i].location \in Corpses \cap DOMAIN u /\ i \in u[u[i].location].contents
    <3>1. CASE u[i].location \in Rooms
      BY <3>1
    <3>2. CASE u[i].location \notin Rooms
      <4>1. u[i].location = o[i].location
        BY <1>3, <3>2
      <4> QED
        BY <1>0, <1>1, <1>2, <1>4, <3>2, <4>1 DEF Holding
    <3> QED
      BY <3>1, <3>2
  <2> QED
    BY <2>1, <2>2, <2>3 DEF Holding
<1>6. Spent(u)
  BY <1>0, <1>1, <1>2, <1>4 DEF Spent
<1>7. Numbered(u)
  BY <1>0, <1>1 DEF Numbered, Graves
<1> QED
  BY <1>1, <1>5, <1>6, <1>7 DEF World, u

\* So does a burial, which takes the next number.
LEMMA BuriesKeepsWorld ==
    ASSUME NEW o, World(o), HasPlace(o), NEW out, NEW v \in Creatures, v \in DOMAIN o, NEW room, Buries(o, out, v, room)
    PROVE  World(out.o)
<1> DEFINE u == out.o
           k == NextGrave(o, v)
           gear == o[v].body
<1>0. MapType(o) /\ Holding(o) /\ Spent(o) /\ Numbered(o)
  BY DEF World
<1>1. MapType(u)
  BY <1>0, BuriesFits
<1>2. /\ DOMAIN u = DOMAIN o \cup {k} /\ k \in Corpses /\ k \notin DOMAIN o /\ v \in DOMAIN u
      /\ u[k].active /\ u[k].contents = gear /\ u[v].body = {}
      /\ \A i \in gear : u[i] = [o[i] EXCEPT !.location = k]
      /\ \A id \in DOMAIN o : id # v /\ id \notin gear => u[id] = o[id]
  BY DEF Buries, Rests, HasPlace
<1>b. /\ \A c \in Creatures \cap DOMAIN o : o[c].body \subseteq Items
      /\ \A x \in Corpses \cap DOMAIN o : o[x].contents \subseteq Items
      /\ Items \subseteq DOMAIN o /\ \A i \in Items : o[i] \in ItemType
  BY <1>0 DEF MapType, Fits, Sane, CreatureType, CorpseType
<1>3. \A i \in gear : u[i].location = k /\ i \in Items /\ o[i].location = v
  <2>1. ASSUME NEW i \in gear
        PROVE  u[i].location = k /\ i \in Items /\ o[i].location = v
    <3>1. i \in Items /\ o[i].location = v
      BY <1>0, <1>b DEF Holding
    <3> DEFINE x == o[i]
    <3>2. x \in ItemType /\ u[i] = [x EXCEPT !.location = k]
      BY <1>2, <1>b, <3>1
    <3> HIDE DEF x, u, k, gear
    <3>3. u[i].location = k
      BY <3>2 DEF ItemType
    <3> QED
      BY <3>1, <3>3
  <2> QED
    BY <2>1
<1>4. \A i \in Items \ gear : u[i] = o[i]
  BY <1>2, <1>b, Kinds
<1>c. /\ \A c \in Creatures \cap DOMAIN o : c # v => u[c] = o[c]
      /\ \A x \in Corpses \cap DOMAIN o : u[x] = o[x]
  BY <1>2, <1>b, Kinds
<1> HIDE DEF u, k, gear
<1>5. Holding(u)
  <2>1. ASSUME NEW c \in Creatures \cap DOMAIN u, NEW i \in u[c].body
        PROVE  u[i].location = c
    <3>1. c # v /\ c \in DOMAIN o
      BY <1>2, Kinds
    <3>2. i \in o[c].body /\ i \in Items /\ o[i].location = c
      BY <1>0, <1>b, <1>c, <3>1 DEF Holding
    <3>3. i \notin gear
      BY <1>3, <3>1, <3>2
    <3> QED
      BY <1>4, <3>2, <3>3
  <2>2. ASSUME NEW x \in Corpses \cap DOMAIN u, NEW i \in u[x].contents
        PROVE  u[i].location = x
    <3>1. CASE x = k
      BY <1>2, <1>3, <3>1
    <3>2. CASE x # k
      <4>1. x \in DOMAIN o /\ x # v
        BY <1>2, <3>2, Kinds
      <4>2. i \in o[x].contents /\ i \in Items /\ o[i].location = x
        BY <1>0, <1>b, <1>c, <4>1 DEF Holding
      <4>3. i \notin gear
        BY <1>3, <4>1, <4>2
      <4> QED
        BY <1>4, <4>2, <4>3
    <3> QED
      BY <3>1, <3>2
  <2>3. ASSUME NEW i \in Items
        PROVE  \/ u[i].location \in Rooms
               \/ u[i].location \in Creatures \cap DOMAIN u /\ i \in u[u[i].location].body
               \/ u[i].location \in Corpses \cap DOMAIN u /\ i \in u[u[i].location].contents
    <3>1. CASE i \in gear
      BY <1>2, <1>3, <3>1
    <3>2. CASE i \notin gear
      <4>1. u[i] = o[i]
        BY <1>4, <3>2
      <4>2. CASE o[i].location \in Creatures \cap DOMAIN o /\ i \in o[o[i].location].body
        <5>1. o[i].location # v
          BY <3>2, <4>2 DEF gear
        <5> QED
          BY <1>2, <1>c, <4>1, <4>2, <5>1
      <4>3. CASE o[i].location \in Corpses \cap DOMAIN o /\ i \in o[o[i].location].contents
        BY <1>2, <1>c, <4>1, <4>3
      <4> QED
        BY <1>0, <4>1, <4>2, <4>3 DEF Holding
    <3> QED
      BY <3>1, <3>2
  <2> QED
    BY <2>1, <2>2, <2>3 DEF Holding
<1>6. Spent(u)
  <2>1. ASSUME NEW c \in Creatures \cap DOMAIN u, ~u[c].active
        PROVE  u[c].body = {}
    <3>1. c = v \/ c \in DOMAIN o
      BY <1>2, Kinds
    <3> QED
      BY <1>0, <1>2, <1>c, <2>1, <3>1 DEF Spent
  <2>2. ASSUME NEW x \in Corpses \cap DOMAIN u, ~u[x].active
        PROVE  u[x].contents = {}
    <3>1. x \in DOMAIN o
      BY <1>2, <2>2
    <3> QED
      BY <1>0, <1>c, <2>2, <3>1 DEF Spent
  <2> QED
    BY <2>1, <2>2 DEF Spent
<1>7. Numbered(u)
  <2> DEFINE S == Graves(o)
             n == Cardinality(S)
  <2>1. S = Corpses \cap DOMAIN o /\ Graves(u) = Corpses \cap DOMAIN u
    BY <1>0, <1>1, GravesAre
  <2>2. Graves(u) = S \cup {k} /\ k \notin S
    BY <1>2, <2>1
  <2>3. IsFiniteSet(S) /\ n \in Nat /\ (\A x \in S : x[2] \in 1..n) /\ \A x, y \in S : x[2] = y[2] => x = y
    BY <1>0, FS_CardinalityType DEF Numbered
  <2>4. IsFiniteSet(S \cup {k}) /\ Cardinality(S \cup {k}) = n + 1
    BY <2>2, <2>3, FS_AddElement
  <2>5. k[2] = n + 1
    <3>1. CorpseIndex(o) = 1 + n
      BY DEF CorpseIndex, Graves
    <3>2. k[2] = CorpseIndex(o)
      BY DEF k, NextGrave
    <3> QED
      BY <2>3, <3>1, <3>2
  <2> HIDE DEF S, n
  <2>6. \A x \in S \cup {k} : x[2] \in 1..(n + 1)
    BY <2>3, <2>5
  <2>7. \A x, y \in S \cup {k} : x[2] = y[2] => x = y
    <3>1. \A x \in S : x[2] # k[2]
      BY <2>3, <2>5
    <3> QED
      BY <2>3, <3>1
  <2> QED
    BY <2>2, <2>4, <2>6, <2>7 DEF Numbered
<1> QED
  BY <1>1, <1>5, <1>6, <1>7 DEF World, u

\* There is a place for the next corpse while there are fewer than MaxCorpses.
LEMMA PlaceLeft ==
    ASSUME World(obj), HasRoomForCorpse
    PROVE  HasPlace(obj)
<1> DEFINE S == Graves(obj)
           n == Cardinality(S)
<1>1. IsFiniteSet(S) /\ n \in Nat /\ \A x \in S : x[2] \in 1..n
  BY FS_CardinalityType DEF World, Numbered
<1>2. n < MaxCorpses /\ MaxCorpses \in Nat
  BY CombatAssumption DEF HasRoomForCorpse, Graves
<1>3. CorpseIndex(obj) = 1 + n
  BY DEF CorpseIndex, Graves
<1>4. S = Corpses \cap DOMAIN obj
  BY GravesAre DEF World
<1> HIDE DEF S, n
<1>5. ASSUME NEW v \in Creatures
      PROVE  NextGrave(obj, v) \in Corpses \ DOMAIN obj
  <2>1. NextGrave(obj, v) = <<Name[v], 1 + n>>
    BY <1>3 DEF NextGrave
  <2>2. <<Name[v], 1 + n>> \in Corpses
    <3>1. 1 + n \in 1..MaxCorpses /\ Name[v] \in {Name[c] : c \in Creatures}
      BY <1>1, <1>2
    <3> QED
      BY <3>1 DEF Corpses
  <2>3. <<Name[v], 1 + n>>[2] = 1 + n
    OBVIOUS
  <2>4. <<Name[v], 1 + n>> \notin S
    BY <1>1, <2>3
  <2> QED
    BY <1>4, <2>1, <2>2, <2>4
<1> QED
  BY <1>5 DEF HasPlace

(***************************************************************************)
(* The commands                                                            *)
(***************************************************************************)

\* What every command keeps.
Inv ==
    /\ World(obj)
    /\ session \in [Players -> Rooms]
    /\ marked \subseteq Ids

\* What a step does: the world stays in order, what changes is marked, and
\* deaths are complete.
Marks ==
    DOMAIN obj \subseteq DOMAIN obj' =>
        \A id \in DOMAIN obj' : (id \in DOMAIN obj => obj[id] # obj'[id]) => id \in marked'
Settling ==
    /\ \A n \in CreatureThere : Buried(n) /\ AtRest(n)
    /\ \A p \in Players : Final(p)
Proper == World(obj') /\ marked' \subseteq Ids /\ Marks /\ Settling

\* Experience is a number.
LEMMA ExperienceIs ==
    ASSUME NEW q, obj[q] \in CreatureType
    PROVE  Experience(q) \in Int
<1> DEFINE rank == obj[q].skills["combat"]
           xp == obj[q].skill_xp["combat"]
<1>1. rank \in Int /\ xp \in Int
  <2>1. obj[q].skills \in [Skills -> Int] /\ obj[q].skill_xp \in [Skills -> Int]
    BY DEF CreatureType
  <2> QED
    BY ONLY <2>1 DEF Skills
<1>2. Experience(q) = rank * SkillXpPerRank + xp
  BY DEF Experience
<1> HIDE DEF rank, xp
<1> QED
  BY <1>1, <1>2 DEF SkillXpPerRank

\* A command in which nobody dies or becomes more skilled.
LEMMA KeptProper ==
    ASSUME Inv, Kept({})
    PROVE  Proper
<1>1. PICK out : Follows(obj, out, About(obj), {}) /\ Commit(out)
  BY DEF Kept
<1>2. obj' = out.o /\ marked' = out.dirty
  BY <1>1 DEF Commit
<1>3. World(obj')
  BY <1>1, <1>2, FollowsKeepsWorld DEF Inv
<1>4. DOMAIN obj' = DOMAIN obj /\ DOMAIN obj \subseteq Ids /\ marked' \subseteq DOMAIN obj
  BY <1>1, <1>2 DEF Follows, Inv, World, MapType
<1>5. \A id \in DOMAIN obj : obj'[id] = obj[id] \/ (id \in About(obj) /\ id \in marked' /\ Stays(id, obj[id], obj'[id], id \in {}))
  BY <1>1, <1>2 DEF Follows
<1>6. Marks
  BY <1>4, <1>5 DEF Marks
<1>7. ASSUME NEW n \in CreatureThere
      PROVE  Buried(n) /\ AtRest(n)
  <2>1. n \in Creatures /\ n \in DOMAIN obj
    BY DEF CreatureThere
  <2>2. obj'[n].active = obj[n].active
    BY <1>5, <2>1 DEF Stays
  <2>3. ~obj[n].active => n \notin About(obj)
    BY <2>1, AboutIs DEF Inv, World
  <2>4. Buried(n)
    BY <2>2, Zenon DEF Buried
  <2>5. ~obj[n].active => obj'[n] = obj[n]
    BY <1>5, <2>1, <2>3
  <2>6. AtRest(n)
    BY <2>5, Zenon DEF AtRest
  <2> QED
    BY <2>4, <2>6
<1>8. ASSUME NEW p \in Players
      PROVE  Final(p)
  <2>1. p \in Creatures /\ p \in DOMAIN obj
    BY DEF Inv, World, MapType, Creatures
  <2>2. obj'[p].skills["combat"] = obj[p].skills["combat"] /\ obj'[p].skill_xp["combat"] = obj[p].skill_xp["combat"]
    BY <1>5, <2>1 DEF Stays
  <2>3. obj[p] \in CreatureType
    BY <2>1 DEF Inv, World, MapType, Fits, Sane
  <2>4. Experience(p) \in Int
    BY <2>3, ExperienceIs
  <2>5. Experience(p)' = Experience(p)
    BY <2>2 DEF Experience
  <2> QED
    BY <2>4, <2>5 DEF Final
<1> QED
  BY <1>2, <1>3, <1>4, <1>6, <1>7, <1>8 DEF Proper, Settling

\* Damage and mending by hand bury nobody.
LEMMA DamageKeeps ==
    ASSUME Inv, NEW t \in Creatures, NEW n \in Int, Damage(t, n) \/ Mend(t, n)
    PROVE  Kept({})
<1> DEFINE W == About(obj)
           hurt == ApplyDamage(obj[t], n)
           healed == Heal(obj[t], n)
<1>1. t \in DOMAIN obj /\ obj[t].active /\ (Commit(DamageCreature(obj, t, n)) \/ Commit(HealCreature(obj, t, n)))
  BY DEF Damage, Mend
<1>2. t \in W /\ MapType(obj) /\ Fits(t, obj[t]) /\ Sane(obj[t])
  BY <1>1, AboutIs DEF Inv, World, MapType, Fits
<1>3. Sane(hurt) /\ Same(obj[t], hurt) /\ Sane(healed) /\ Same(obj[t], healed)
  BY <1>2, Hurt
<1>4. DamageCreature(obj, t, n) = Changed(obj, t, hurt)
      /\ HealCreature(obj, t, n) \in {Outcome(obj, {}), Changed(obj, t, healed)}
  BY DEF DamageCreature, HealCreature
<1> HIDE DEF W, hurt, healed
<1>5. Stays(t, obj[t], hurt, t \in {}) /\ Stays(t, obj[t], healed, t \in {})
  BY <1>2, <1>3, SameStays
<1>6. Follows(obj, Changed(obj, t, hurt), W, {}) /\ Follows(obj, Changed(obj, t, healed), W, {})
  BY <1>1, <1>2, <1>5, FollowsOne
<1>7. Follows(obj, Outcome(obj, {}), W, {})
  BY <1>2, NothingFollows
<1>8. Follows(obj, DamageCreature(obj, t, n), W, {}) /\ Follows(obj, HealCreature(obj, t, n), W, {})
  BY <1>4, <1>6, <1>7
<1> QED
  BY <1>1, <1>8 DEF Kept, W

\* A blow that kills.
LEMMA FallsProper ==
    ASSUME Inv, HasPlace(obj), NEW p \in Players, NEW t, t \in Creatures, t \in DOMAIN obj, obj[t].active,
           session[p] \in Rooms,
           NEW v \in {p, t}, NEW out, Falls(obj, out, {p, t}, {p}, v, session[p]), Commit(out),
           obj'[t].health = obj[t].health \/ Settles(obj'[t])
    PROVE  Proper
<1> DEFINE W == {p, t}
           X == {p}
           room == session[p]
           k == NextGrave(obj, v)
<1>1. obj' = out.o /\ marked' = out.dirty
  BY DEF Commit
<1>2. PICK m, b : /\ Follows(obj, m, W, X)
                  /\ Buries(m.o, b, v, room)
                  /\ Follows(b.o, out, W, X)
                  /\ m.dirty \subseteq out.dirty /\ b.dirty \subseteq out.dirty
  BY DEF Falls
<1>3. World(obj) /\ MapType(obj) /\ p \in Creatures /\ v \in Creatures /\ v \in DOMAIN obj
      /\ \A q \in Players : q \in DOMAIN obj /\ obj[q].active /\ q \in Creatures
  BY DEF Inv, World, MapType, Fits, Creatures
<1>a. obj[v].active /\ obj[p].active
  BY <1>3
<1>4. World(m.o) /\ DOMAIN m.o = DOMAIN obj
  BY <1>2, <1>3, FollowsKeepsWorld DEF Follows
<1>5. HasPlace(m.o) /\ k = NextGrave(m.o, v) /\ k \in Corpses /\ k \notin DOMAIN obj
  BY <1>3, <1>4, PlaceStill DEF NextGrave, CorpseIndex, HasPlace
<1>6. World(b.o)
  BY <1>2, <1>3, <1>4, <1>5, BuriesKeepsWorld
<1>7. World(obj')
  BY <1>1, <1>2, <1>6, FollowsKeepsWorld
<1> DEFINE gear == obj[v].body
<1>8. m.o[v].body = gear /\ gear \subseteq Items
  BY <1>2, <1>3 DEF Follows, Stays, MapType, Fits, Sane, CreatureType
<1> HIDE DEF W, X, k, room, gear
<1>9. /\ DOMAIN obj' = DOMAIN obj \cup {k} /\ DOMAIN b.o = DOMAIN obj'
      /\ marked' \subseteq DOMAIN obj' /\ DOMAIN obj' \subseteq Ids
  BY <1>1, <1>2, <1>4, <1>5, <1>7 DEF Follows, Buries, World, MapType
\* What is not marked has not changed.
<1>10. \A id \in DOMAIN obj' : (id \in DOMAIN obj => obj[id] # obj'[id]) => id \in marked'
  <2>1. ASSUME NEW id \in DOMAIN obj', id \notin marked'
        PROVE  id \in DOMAIN obj /\ obj[id] = obj'[id]
    <3>1. id \notin m.dirty /\ id \notin b.dirty /\ id \notin out.dirty
      BY <1>1, <1>2, <2>1
    <3>2. id # k /\ id # v /\ id \notin gear
      BY <1>2, <1>5, <1>8, <3>1 DEF Buries
    <3>3. id \in DOMAIN obj
      BY <1>9, <3>2
    <3>4. m.o[id] = obj[id]
      BY <1>2, <3>1, <3>3 DEF Follows
    <3>5. b.o[id] = m.o[id]
      BY <1>2, <1>4, <1>8, <3>2, <3>3 DEF Buries
    <3>6. out.o[id] = b.o[id]
      BY <1>2, <1>9, <3>1 DEF Follows
    <3> QED
      BY <1>1, <3>3, <3>4, <3>5, <3>6
  <2> QED
    BY <2>1
<1>11. Marks
  BY <1>10 DEF Marks
\* Who is neither of the two stays as it was.
<1>12. \A c \in Creatures \cap DOMAIN obj : c \notin {p, t} => obj'[c] = obj[c]
  <2>1. ASSUME NEW c \in Creatures \cap DOMAIN obj, c \notin {p, t}
        PROVE  obj'[c] = obj[c]
    <3>1. c \notin W /\ c # v /\ c \notin gear /\ c # k
      BY <1>5, <1>8, <2>1, Kinds DEF W
    <3>2. m.o[c] = obj[c]
      BY <1>2, <3>1 DEF Follows
    <3>3. b.o[c] = m.o[c]
      BY <1>2, <1>4, <1>8, <3>1 DEF Buries
    <3>4. out.o[c] = b.o[c]
      BY <1>2, <1>9, <3>1 DEF Follows
    <3> QED
      BY <1>1, <3>2, <3>3, <3>4
  <2> QED
    BY <2>1
\* The dead have left all they had in the corpse; nobody else left the world.
<1>13. /\ obj'[k].corpse_of = v /\ obj'[k].contents = gear /\ obj'[k].location = room
       /\ obj'[v].body = {}
  <2>1. obj'[k] = b.o[k]
    BY <1>1, <1>2, <1>5, <1>9 DEF Follows, Stays
  <2>2. b.o[k].corpse_of = v /\ b.o[k].contents = gear /\ b.o[k].location = room /\ b.o[v].body = {}
    BY <1>2, <1>5, <1>8 DEF Buries, Rests
  <2>3. obj'[v].body = b.o[v].body
    BY <1>1, <1>2, <1>3, <1>9 DEF Follows, Stays
  <2> QED
    BY <2>1, <2>2, <2>3
<1>14. \A c \in Creatures \cap DOMAIN obj : c # v => obj'[c].active = obj[c].active
  <2>1. ASSUME NEW c \in Creatures \cap DOMAIN obj, c # v
        PROVE  obj'[c].active = obj[c].active
    <3>1. m.o[c].active = obj[c].active
      BY <1>2 DEF Follows, Stays
    <3>2. b.o[c] = m.o[c]
      BY <1>2, <1>4, <1>8, <2>1, Kinds DEF Buries
    <3>3. out.o[c].active = b.o[c].active
      BY <1>2, <1>9 DEF Follows, Stays
    <3> QED
      BY <1>1, <3>1, <3>2, <3>3
  <2> QED
    BY <2>1
<1>15. ASSUME NEW n \in CreatureThere
       PROVE  Buried(n)
  <2>1. n \in Creatures /\ n \in DOMAIN obj
    BY DEF CreatureThere
  <2>2. CASE n = v
    <3>1. k \in DOMAIN obj' \ DOMAIN obj
      BY <1>5, <1>9
    <3> QED
      BY <1>13, <2>2, <3>1 DEF Buried, gear, room
  <2>3. CASE n # v
    <3>1. obj'[n].active = obj[n].active
      BY <1>14, <2>1, <2>3
    <3> QED
      BY <3>1, Zenon DEF Buried
  <2> QED
    BY <2>2, <2>3
<1>16. ASSUME NEW n \in CreatureThere
       PROVE  AtRest(n)
  <2>1. n \in Creatures /\ n \in DOMAIN obj
    BY DEF CreatureThere
  <2>2. ~obj[n].active => n \notin {p, t}
    BY <1>a
  <2>3. ~obj[n].active => obj'[n] = obj[n]
    BY <1>12, <2>1, <2>2
  <2> QED
    BY <2>3, Zenon DEF AtRest
<1>17. ASSUME NEW q \in Players
       PROVE  Final(q)
  <2>1. CASE q = p
    <3>1. ASSUME NEW c \in CreatureThere \ {p}
          PROVE  obj[c].health > 0 /\ obj'[c].health = 0 => ~obj'[c].active
      <4>1. c \in Creatures \cap DOMAIN obj
        BY DEF CreatureThere
      <4>2. CASE c = t
        BY <4>2 DEF Settles
      <4>3. CASE c # t
        BY <1>12, <4>1, <4>3
      <4> QED
        BY <4>2, <4>3
    <3> QED
      BY <2>1, <3>1 DEF Final
  <2>2. CASE q # p
    <3>1. obj'[q].skills["combat"] = obj[q].skills["combat"] /\ obj'[q].skill_xp["combat"] = obj[q].skill_xp["combat"]
      <4>1. q \in Creatures /\ q \in DOMAIN obj /\ q \notin X
        BY <1>3, <2>2 DEF X
      <4>2. m.o[q].skills["combat"] = obj[q].skills["combat"] /\ m.o[q].skill_xp["combat"] = obj[q].skill_xp["combat"]
        BY <1>2, <4>1 DEF Follows, Stays
      <4>3. b.o[q].skills["combat"] = m.o[q].skills["combat"] /\ b.o[q].skill_xp["combat"] = m.o[q].skill_xp["combat"]
        <5>1. CASE q = v
          BY <1>2, <5>1 DEF Buries, Rests
        <5>2. CASE q # v
          BY <1>2, <1>4, <1>8, <4>1, <5>2, Kinds DEF Buries
        <5> QED
          BY <5>1, <5>2
      <4>4. out.o[q].skills["combat"] = b.o[q].skills["combat"] /\ out.o[q].skill_xp["combat"] = b.o[q].skill_xp["combat"]
        BY <1>2, <1>9, <4>1 DEF Follows, Stays
      <4> QED
        BY <1>1, <4>2, <4>3, <4>4
    <3>2. Experience(q) \in Int
      <4>1. obj[q] \in CreatureType
        BY <1>3 DEF MapType, Fits, Sane
      <4> QED
        BY <4>1, ExperienceIs
    <3>3. Experience(q)' = Experience(q)
      BY <3>1 DEF Experience
    <3> QED
      BY <3>2, <3>3 DEF Final
  <2> QED
    BY <2>1, <2>2
<1> QED
  BY <1>7, <1>9, <1>11, <1>15, <1>16, <1>17 DEF Proper, Settling

\* Blows nobody dies of.
LEMMA StruckProper ==
    ASSUME Inv, NEW p \in Players, NEW t, t \in Creatures, t \in DOMAIN obj, obj[t].active,
           NEW out, Follows(obj, out, {p, t}, {p}), Commit(out),
           obj'[t].health = obj[t].health \/ Settles(obj'[t])
    PROVE  Proper
<1> DEFINE W == {p, t}
           X == {p}
<1>2. obj' = out.o /\ marked' = out.dirty
  BY DEF Commit
<1>0. MapType(obj) /\ \A q \in Players : q \in DOMAIN obj /\ obj[q].active /\ q \in Creatures
  BY DEF Inv, World, MapType, Fits, Creatures
<1>3. World(obj')
  BY <1>2, FollowsKeepsWorld DEF Inv
<1> HIDE DEF W, X
<1>4. DOMAIN obj' = DOMAIN obj /\ DOMAIN obj \subseteq Ids /\ marked' \subseteq DOMAIN obj
  BY <1>2 DEF Follows, Inv, World, MapType
<1>5. \A id \in DOMAIN obj : obj'[id] = obj[id] \/ (id \in W /\ id \in marked' /\ Stays(id, obj[id], obj'[id], id \in X))
  BY <1>2 DEF Follows, W, X
<1>6. Marks
  BY <1>4, <1>5 DEF Marks
<1>7. ASSUME NEW n \in CreatureThere
      PROVE  Buried(n) /\ AtRest(n)
  <2>1. n \in Creatures /\ n \in DOMAIN obj
    BY DEF CreatureThere
  <2>2. obj'[n].active = obj[n].active
    BY <1>5, <2>1 DEF Stays
  <2>3. ~obj[n].active => n \notin W
    BY <1>0 DEF W
  <2>4. Buried(n)
    BY <2>2, Zenon DEF Buried
  <2>5. ~obj[n].active => obj'[n] = obj[n]
    BY <1>5, <2>1, <2>3
  <2>6. AtRest(n)
    BY <2>5, Zenon DEF AtRest
  <2> QED
    BY <2>4, <2>6
<1>8. ASSUME NEW q \in Players
      PROVE  Final(q)
  <2>1. CASE q = p
    <3>1. ASSUME NEW c \in CreatureThere \ {p}
          PROVE  obj[c].health > 0 /\ obj'[c].health = 0 => ~obj'[c].active
      <4>1. c \in Creatures \cap DOMAIN obj
        BY DEF CreatureThere
      <4>2. CASE c = t
        BY <4>2 DEF Settles
      <4>3. CASE c # t
        BY <1>5, <4>1, <4>3 DEF W
      <4> QED
        BY <4>2, <4>3
    <3> QED
      BY <2>1, <3>1 DEF Final
  <2>2. CASE q # p
    <3>1. q \in Creatures /\ q \in DOMAIN obj /\ q \notin X
      BY <1>0, <2>2 DEF X
    <3>2. obj'[q].skills["combat"] = obj[q].skills["combat"] /\ obj'[q].skill_xp["combat"] = obj[q].skill_xp["combat"]
      BY <1>5, <3>1 DEF Stays
    <3>3. Experience(q) \in Int
      <4>1. obj[q] \in CreatureType
        BY <1>0 DEF MapType, Fits, Sane
      <4> QED
        BY <4>1, ExperienceIs
    <3>4. Experience(q)' = Experience(q)
      BY <3>2 DEF Experience
    <3> QED
      BY <3>3, <3>4 DEF Final
  <2> QED
    BY <2>1, <2>2
<1> QED
  BY <1>2, <1>3, <1>4, <1>6, <1>7, <1>8 DEF Proper, Settling

\* The one who gave the command follows who woke up.
LEMMA FallsMoves ==
    ASSUME NEW o, World(o), HasPlace(o), NEW W, NEW X, NEW v \in Creatures, v \in DOMAIN o, NEW room,
           NEW out, Falls(o, out, W, X, v, room), NEW p \in Players, p \in W, NEW to \in Rooms
    PROVE  Falls(o, Moved(out, p, to), W, X, v, room)
<1> DEFINE next == Moved(out, p, to)
<1>1. PICK m, b : /\ Follows(o, m, W, X)
                  /\ Buries(m.o, b, v, room)
                  /\ Follows(b.o, out, W, X)
                  /\ m.dirty \subseteq out.dirty /\ b.dirty \subseteq out.dirty
  BY DEF Falls
<1>2. World(m.o) /\ DOMAIN m.o = DOMAIN o
  BY <1>1, FollowsKeepsWorld DEF Follows
<1>3. HasPlace(m.o)
  BY <1>2, PlaceStill
<1>4. MapType(b.o)
  BY <1>1, <1>2, <1>3, BuriesFits DEF World
<1>5. Follows(b.o, next, W, X)
  BY <1>1, <1>4, MovedFollows
<1>6. out.dirty \subseteq next.dirty
  BY DEF Moved, Appended
<1> HIDE DEF next
<1>7. Falls(o, next, W, X, v, room)
  BY <1>1, <1>5, <1>6 DEF Falls
<1> QED
  BY <1>7 DEF next

\* An attack is proper, whoever dies of it.
LEMMA AttackProper ==
    ASSUME TameScripts, Inv, NEW p \in Players, NEW t \in Creatures, Attack(p, t)
    PROVE  Proper /\ session' \in [Players -> Rooms]
<1> DEFINE room == session[p]
           x == AttackCreature(obj, p, room, t)
           to == x.out.o[x.woke].location
           final == IF x.woke = Nobody THEN x.out ELSE Moved(x.out, p, to)
<1>0. World(obj) /\ MapType(obj) /\ room \in Rooms /\ p \in Creatures /\ p \in DOMAIN obj
  BY DEF Inv, World, MapType, Creatures
<1>1. HasPlace(obj)
  BY <1>0, PlaceLeft DEF Attack
<1>2. MayAttack(obj, p, room, t)
  BY DEF Attack
<1>3. t \in DOMAIN obj /\ obj[t].active /\ t # p
  BY <1>2 DEF MayAttack
<1>4. Commit(final) /\ session' = IF x.woke = Nobody THEN session ELSE [session EXCEPT ![p] = to]
  <2> HIDE DEF room
  <2>1. \E y \in {x} :
         LET there == y.out.o[y.woke].location IN
         /\ Commit(IF y.woke = Nobody THEN y.out ELSE Moved(y.out, p, there))
         /\ session' = IF y.woke = Nobody THEN session ELSE [session EXCEPT ![p] = there]
    BY DEF Attack, room
  <2> HIDE DEF x
  <2> QED
    BY <2>1
<1>5. Turn(obj, x, {p, t}, {p}, room) /\ (x.out.o[t].health = obj[t].health \/ Settles(x.out.o[t]))
  BY <1>0, <1>1, <1>2, AttackTurns
<1> HIDE DEF x, to
<1>6. CASE Follows(obj, x.out, {p, t}, {p}) /\ x.woke = Nobody
  <2>1. final = x.out /\ session' = session
    BY <1>4, <1>6
  <2>2. obj' = x.out.o
    BY <1>4, <2>1 DEF Commit
  <2>3. Proper
    BY <1>3, <1>4, <1>5, <1>6, <2>1, <2>2, StruckProper
  <2> QED
    BY <2>1, <2>3 DEF Inv
<1>7. ASSUME NEW v \in Creatures, v \in {p, t}, v \in DOMAIN obj, Falls(obj, x.out, {p, t}, {p}, v, room),
             x.woke = Nobody \/ (x.woke = v /\ v \in Players /\ x.out.o[v].location \in Rooms)
      PROVE  Proper /\ session' \in [Players -> Rooms]
  <2>1. CASE x.woke = Nobody
    <3>1. final = x.out /\ session' = session
      BY <1>4, <2>1
    <3>2. obj' = x.out.o
      BY <1>4, <3>1 DEF Commit
    <3>3. Proper
      BY <1>0, <1>1, <1>3, <1>4, <1>5, <1>7, <3>1, <3>2, FallsProper
    <3> QED
      BY <3>1, <3>3 DEF Inv
  <2>2. CASE x.woke # Nobody
    <3>1. final = Moved(x.out, p, to) /\ session' = [session EXCEPT ![p] = to] /\ to \in Rooms
      BY <1>4, <1>7, <2>2 DEF to
    <3>2. Falls(obj, final, {p, t}, {p}, v, room)
      <4>1. p \in {p, t}
        OBVIOUS
      <4>2. Falls(obj, Moved(x.out, p, to), {p, t}, {p}, v, room)
        BY <1>0, <1>1, <1>7, <3>1, <4>1, FallsMoves
      <4> QED
        BY <3>1, <4>2
    <3>3. obj' = final.o /\ final.o[t] = x.out.o[t]
      <4>1. obj' = final.o
        BY <1>4 DEF Commit
      <4>2. final.o = [x.out.o EXCEPT ![p] = [x.out.o[p] EXCEPT !.location = to]]
        BY <3>1 DEF Moved, Appended, Changed, Outcome
      <4>3. t \in DOMAIN x.out.o
        BY <1>0, <1>1, <1>3, <1>7 DEF Falls, Follows, Buries
      <4> HIDE DEF final
      <4> QED
        BY <1>3, <4>1, <4>2, <4>3
    <3>4. Commit(final)
      BY <1>4
    <3> HIDE DEF final
    <3>5. Proper
      BY <1>0, <1>1, <1>3, <1>5, <1>7, <3>2, <3>3, <3>4, FallsProper
    <3> QED
      BY <3>1, <3>5 DEF Inv
  <2> QED
    BY <2>1, <2>2
<1> QED
  BY <1>5, <1>6, <1>7 DEF Turn

\* A thing is taken from the floor or out of a corpse.
LEMMA TakeProper ==
    ASSUME Inv, NEW p \in Players, NEW i \in Items, Take(p, i)
    PROVE  Proper
<1> DEFINE from == obj[i].location
           left == [obj[from] EXCEPT !.contents = @ \ {i}]
           base == IF IsCorpse(from) THEN [obj EXCEPT ![from] = left] ELSE obj
           thing == [obj[i] EXCEPT !.location = p]
           c == obj[p]
           worn == c.body \cup {i}
           d == [c EXCEPT !.body = worn]
           dirty == {i, p} \cup (IF IsCorpse(from) THEN {from} ELSE {})
<1>0. World(obj) /\ MapType(obj) /\ Holding(obj) /\ Spent(obj) /\ Numbered(obj) /\ IsMap(obj)
  BY DEF Inv, World, MapType
<1>1. /\ p \in Creatures /\ p \in DOMAIN obj /\ i \in DOMAIN obj /\ p # i /\ p \notin Corpses /\ i \notin Corpses
      /\ i \notin Creatures /\ i \notin Rooms /\ p \notin Rooms /\ p \notin Items
  BY <1>0, Kinds DEF MapType, Creatures
<1>2. /\ \/ from = session[p]
         \/ IsCorpse(from) /\ from \in DOMAIN obj /\ obj[from].active
      /\ Commit(Outcome([base EXCEPT ![i].location = p, ![p].body = @ \cup {i}], dirty))
  BY DEF Take
<1>3. \/ from \in Rooms /\ ~IsCorpse(from)
      \/ IsCorpse(from) /\ from \in Corpses /\ from \in DOMAIN obj /\ obj[from].active
  <2>1. session[p] \in Rooms
    BY DEF Inv
  <2>2. \A r \in Rooms : ~IsCorpse(r)
    BY DEF IsCorpse
  <2>3. \A id \in DOMAIN obj : IsCorpse(id) => id \in Corpses
    BY <1>0, Kinds DEF MapType
  <2> QED
    BY <1>2, <2>1, <2>2, <2>3
<1>f. from # p /\ from # i
  BY <1>1, <1>3
<1>4. Sane(c) /\ c.id = p /\ c.active /\ obj[i] \in ItemType /\ c \in CreatureType
  BY <1>0, <1>1 DEF MapType, Fits, Sane
<1>5. IsCorpse(from) => obj[from] \in CorpseType
  BY <1>0, <1>3 DEF MapType, Fits
<1> HIDE DEF dirty
\* What is where afterwards.
<1>6. /\ DOMAIN base = DOMAIN obj /\ IsMap(base) /\ (IsCorpse(from) => base[from] = left)
      /\ \A id \in DOMAIN obj : (id # from \/ ~IsCorpse(from)) => base[id] = obj[id]
  <2> HIDE DEF from, left
  <2>1. CASE IsCorpse(from)
    <3>1. from \in DOMAIN obj
      BY <1>3, <2>1, Kinds, <1>0
    <3> QED
      BY <1>0, <2>1, <3>1 DEF IsMap
  <2>2. CASE ~IsCorpse(from)
    BY <1>0, <2>2
  <2> QED
    BY <2>1, <2>2
<1>7. base[i] = obj[i] /\ base[p] = c
  BY <1>1, <1>6, <1>f
<1> HIDE DEF base, left
<1>8. obj' = [base EXCEPT ![i].location = p, ![p].body = @ \cup {i}] /\ marked' = dirty
  BY <1>2 DEF Commit, Outcome
<1>9. /\ DOMAIN obj' = DOMAIN obj /\ IsMap(obj') /\ obj'[i] = thing /\ obj'[p] = d
      /\ (IsCorpse(from) => obj'[from] = left)
      /\ \A id \in DOMAIN obj : id # i /\ id # p /\ (id # from \/ ~IsCorpse(from)) => obj'[id] = obj[id]
  <2>1. obj' = [base EXCEPT ![i] = thing, ![p] = d]
    <3>1. obj' = [base EXCEPT ![i] = [base[i] EXCEPT !.location = p], ![p] = [base[p] EXCEPT !.body = @ \cup {i}]]
      BY <1>1, <1>8
    <3> QED
      BY <1>7, <3>1
  <2>2. from \in DOMAIN obj \/ ~IsCorpse(from)
    BY <1>3
  <2> HIDE DEF thing, d, from
  <2> QED
    BY <1>1, <1>6, <1>f, <2>1, <2>2 DEF IsMap
<1>10. thing \in ItemType /\ thing.location = p
  BY <1>1, <1>4 DEF ItemType, Ids
<1>11. Sane(d) /\ d.id = p /\ d.active /\ d.body = worn /\ d.skills = c.skills /\ d.skill_xp = c.skill_xp
  <2>1. worn \subseteq Items
    BY <1>4 DEF CreatureType
  <2> HIDE DEF worn, c
  <2>2. d \in CreatureType
    BY <1>4, <2>1 DEF CreatureType
  <2>3. /\ d.active_effects = c.active_effects /\ d.condition_ticks = c.condition_ticks
        /\ d.stat_mods = c.stat_mods /\ d.skill_mods = c.skill_mods
        /\ d.id = p /\ d.active /\ d.body = worn /\ d.skills = c.skills /\ d.skill_xp = c.skill_xp
    BY <1>4 DEF CreatureType
  <2> HIDE DEF d
  <2> QED
    BY <1>4, <2>2, <2>3, Resettled
<1>12. IsCorpse(from) => /\ left \in CorpseType /\ left.active = obj[from].active /\ left.contents = obj[from].contents \ {i}
  BY <1>5 DEF left, CorpseType
<1> HIDE DEF thing, d, left
<1>13. MapType(obj')
  <2>1. ASSUME NEW id \in DOMAIN obj'
        PROVE  Fits(id, obj'[id])
    <3>1. CASE id = i
      BY <1>1, <1>9, <1>10, <3>1, Kinds DEF Fits
    <3>2. CASE id = p
      BY <1>1, <1>9, <1>11, <3>2, Kinds DEF Fits
    <3>3. CASE id = from /\ IsCorpse(from)
      BY <1>3, <1>9, <1>12, <3>3, Kinds DEF Fits
    <3>4. CASE id # i /\ id # p /\ (id # from \/ ~IsCorpse(from))
      BY <1>0, <1>9, <3>4 DEF MapType
    <3> QED
      BY <3>1, <3>2, <3>3, <3>4
  <2> QED
    BY <1>0, <1>9, <2>1 DEF MapType
<1>14. /\ \A x \in Creatures \cap DOMAIN obj : x # p => obj'[x] = obj[x]
       /\ \A x \in Items : x # i => obj'[x] = obj[x]
       /\ \A x \in Corpses \cap DOMAIN obj : (x # from => obj'[x] = obj[x]) /\ (x = from => obj'[x] = left)
  <2>1. \A x \in Creatures \cup Items : x # from \/ ~IsCorpse(from)
    BY <1>3, Kinds
  <2>2. Items \subseteq DOMAIN obj
    BY <1>0 DEF MapType
  <2>3. \A x \in Corpses : x # i /\ x # p
    BY <1>1
  <2>4. from \in Corpses => IsCorpse(from)
    BY <1>3, Kinds
  <2> HIDE DEF from
  <2> QED
    BY <1>1, <1>9, <2>1, <2>2, <2>3, <2>4, Kinds
<1>b. /\ \A x \in Creatures \cap DOMAIN obj : obj[x].body \subseteq Items
      /\ \A x \in Corpses \cap DOMAIN obj : obj[x].contents \subseteq Items
  BY <1>0 DEF MapType, Fits, Sane, CreatureType, CorpseType
<1>15. Holding(obj')
  <2>1. ASSUME NEW x \in Creatures \cap DOMAIN obj', NEW j \in obj'[x].body
        PROVE  obj'[j].location = x
    <3>1. CASE j = i
      <4>1. x = p
        <5>1. ASSUME x # p PROVE FALSE
          <6>1. j \in obj[x].body
            BY <1>9, <1>14, <2>1, <5>1
          <6>2. from = x
            BY <1>0, <1>9, <3>1, <6>1 DEF Holding
          <6> QED
            BY <1>3, <6>2, Kinds
        <5> QED
          BY <5>1
      <4> QED
        BY <1>9, <1>10, <3>1, <4>1
    <3>2. CASE j # i
      <4>1. j \in obj[x].body /\ x \in DOMAIN obj
        BY <1>9, <1>11, <1>14, <2>1, <3>2
      <4>2. obj[j].location = x /\ j \in Items
        BY <1>0, <1>b, <4>1 DEF Holding
      <4> QED
        BY <1>14, <3>2, <4>2
    <3> QED
      BY <3>1, <3>2
  <2>2. ASSUME NEW x \in Corpses \cap DOMAIN obj', NEW j \in obj'[x].contents
        PROVE  obj'[j].location = x
    <3>1. x \in Corpses \cap DOMAIN obj
      BY <1>9
    <3>2. j \in obj[x].contents /\ j # i
      <4>1. CASE x = from
        <5>1. IsCorpse(from)
          BY <1>3, <3>1, <4>1, Kinds
        <5>2. obj'[x] = left
          BY <1>14, <3>1, <4>1
        <5> QED
          BY <1>12, <2>2, <4>1, <5>1, <5>2
      <4>2. CASE x # from
        <5>1. j \in obj[x].contents
          BY <1>14, <2>2, <3>1, <4>2
        <5>2. obj[j].location = x
          BY <1>0, <3>1, <5>1 DEF Holding
        <5> QED
          BY <4>2, <5>1, <5>2
      <4> QED
        BY <4>1, <4>2
    <3>3. obj[j].location = x /\ j \in Items
      BY <1>0, <1>b, <3>1, <3>2 DEF Holding
    <3> QED
      BY <1>14, <3>2, <3>3
  <2>3. ASSUME NEW j \in Items
        PROVE  \/ obj'[j].location \in Rooms
               \/ obj'[j].location \in Creatures \cap DOMAIN obj' /\ j \in obj'[obj'[j].location].body
               \/ obj'[j].location \in Corpses \cap DOMAIN obj' /\ j \in obj'[obj'[j].location].contents
    <3>1. CASE j = i
      <4>1. obj'[j].location = p /\ i \in obj'[p].body
        BY <1>9, <1>10, <1>11, <3>1
      <4> QED
        BY <1>1, <1>9, <3>1, <4>1
    <3>2. CASE j # i
      <4> DEFINE l == obj[j].location
      <4>1. obj'[j] = obj[j] /\ obj'[j].location = l
        BY <1>14, <3>2
      <4>2. CASE l \in Creatures \cap DOMAIN obj /\ j \in obj[l].body
        <5>1. j \in obj'[l].body
          BY <1>9, <1>11, <1>14, <4>2
        <5> QED
          BY <1>9, <4>1, <4>2, <5>1
      <4>3. CASE l \in Corpses \cap DOMAIN obj /\ j \in obj[l].contents
        <5>1. j \in obj'[l].contents
          <6>1. CASE l = from
            <7>1. IsCorpse(from)
              BY <1>3, <4>3, <6>1, Kinds
            <7>2. obj'[l] = left
              BY <1>14, <4>3, <6>1
            <7> QED
              BY <1>12, <3>2, <4>3, <6>1, <7>1, <7>2
          <6>2. CASE l # from
            BY <1>14, <4>3, <6>2
          <6> QED
            BY <6>1, <6>2
        <5> QED
          BY <1>9, <4>1, <4>3, <5>1
      <4> QED
        BY <1>0, <4>1, <4>2, <4>3 DEF Holding
    <3> QED
      BY <3>1, <3>2
  <2> QED
    BY <2>1, <2>2, <2>3 DEF Holding
<1>16. Spent(obj')
  <2>1. ASSUME NEW x \in Creatures \cap DOMAIN obj', ~obj'[x].active
        PROVE  obj'[x].body = {}
    <3>1. x # p
      BY <1>9, <1>11, <2>1
    <3> QED
      BY <1>0, <1>9, <1>14, <2>1, <3>1 DEF Spent
  <2>2. ASSUME NEW x \in Corpses \cap DOMAIN obj', ~obj'[x].active
        PROVE  obj'[x].contents = {}
    <3>1. x \in Corpses \cap DOMAIN obj
      BY <1>9
    <3>2. CASE x = from
      <4>1. IsCorpse(from) /\ obj[from].active
        BY <1>3, <3>1, <3>2, Kinds
      <4>2. obj'[x] = left
        BY <1>14, <3>1, <3>2
      <4> QED
        BY <1>12, <2>2, <4>1, <4>2
    <3>3. CASE x # from
      BY <1>0, <1>14, <2>2, <3>1, <3>3 DEF Spent
    <3> QED
      BY <3>2, <3>3
  <2> QED
    BY <2>1, <2>2 DEF Spent
<1>17. Numbered(obj')
  BY <1>0, <1>9 DEF Numbered, Graves
<1>18. World(obj')
  BY <1>13, <1>15, <1>16, <1>17 DEF World
<1>19. marked' \subseteq DOMAIN obj' /\ DOMAIN obj' \subseteq Ids
  <2>1. from \in DOMAIN obj \/ ~IsCorpse(from)
    BY <1>3
  <2> HIDE DEF from
  <2> QED
    BY <1>1, <1>8, <1>9, <1>13, <2>1 DEF dirty, MapType
<1>20. Marks
  <2>1. ASSUME NEW id \in DOMAIN obj', id \in DOMAIN obj => obj[id] # obj'[id]
        PROVE  id \in marked'
    <3>1. id = i \/ id = p \/ (id = from /\ IsCorpse(from))
      BY <1>9, <2>1
    <3> HIDE DEF from
    <3> QED
      BY <1>8, <3>1 DEF dirty
  <2> QED
    BY <2>1 DEF Marks
<1>21. ASSUME NEW n \in CreatureThere
       PROVE  Buried(n) /\ AtRest(n)
  <2>1. n \in Creatures /\ n \in DOMAIN obj
    BY DEF CreatureThere
  <2>2. obj'[n] = obj[n] \/ (obj'[n].active /\ n = p)
    BY <1>9, <1>11, <1>14, <2>1
  <2>3. obj[n].active /\ n \in DOMAIN obj' /\ ~obj'[n].active => FALSE
    BY <2>2
  <2>4. Buried(n)
    BY <2>3, Zenon DEF Buried
  <2>5. AtRest(n)
    BY <1>4, <2>2, Zenon DEF AtRest
  <2> QED
    BY <2>4, <2>5
<1>22. ASSUME NEW q \in Players
       PROVE  Final(q)
  <2>1. q \in Creatures /\ q \in DOMAIN obj
    BY <1>0 DEF MapType, Creatures
  <2>2. obj'[q].skills = obj[q].skills /\ obj'[q].skill_xp = obj[q].skill_xp
    BY <1>9, <1>11, <1>14, <2>1
  <2>3. Experience(q) \in Int
    <3>1. obj[q] \in CreatureType
      BY <1>0, <2>1 DEF MapType, Fits, Sane
    <3> QED
      BY <3>1, ExperienceIs
  <2>4. Experience(q)' = Experience(q)
    BY <2>2 DEF Experience
  <2> QED
    BY <2>3, <2>4 DEF Final
<1> QED
  BY <1>18, <1>19, <1>20, <1>21, <1>22 DEF Proper, Settling

\* An empty corpse is deleted.
LEMMA DeleteProper ==
    ASSUME Tidy, Inv, NEW k \in DOMAIN obj, DeleteCorpse(k)
    PROVE  Proper
<1> DEFINE x == obj[k]
           y == [x EXCEPT !.active = FALSE]
<1>0. World(obj) /\ MapType(obj) /\ Holding(obj) /\ Spent(obj) /\ Numbered(obj) /\ IsMap(obj)
  BY DEF Inv, World, MapType
<1>1. IsCorpse(k) /\ x.active /\ x.contents = {} /\ Commit(Changed(obj, k, y))
  BY DEF DeleteCorpse
<1>2. k \in Corpses /\ k \notin Creatures /\ k \notin Items /\ k \notin Rooms /\ x \in CorpseType
  BY <1>0, <1>1, Kinds DEF MapType, Fits
<1>3. y \in CorpseType /\ y.contents = {}
  BY <1>1, <1>2 DEF CorpseType
<1> HIDE DEF x, y
<1>4. obj' = [obj EXCEPT ![k] = y] /\ marked' = {k}
  BY <1>1 DEF Commit, Changed, Outcome
<1>5. /\ DOMAIN obj' = DOMAIN obj /\ IsMap(obj') /\ obj'[k] = y
      /\ \A id \in DOMAIN obj : id # k => obj'[id] = obj[id]
  BY <1>0, <1>4 DEF IsMap
<1>6. MapType(obj')
  <2>1. ASSUME NEW id \in DOMAIN obj'
        PROVE  Fits(id, obj'[id])
    <3>1. CASE id = k
      BY <1>2, <1>3, <1>5, <3>1 DEF Fits
    <3>2. CASE id # k
      BY <1>0, <1>5, <3>2 DEF MapType
    <3> QED
      BY <3>1, <3>2
  <2> QED
    BY <1>0, <1>5, <2>1 DEF MapType
<1>7. /\ \A c \in Creatures \cap DOMAIN obj : obj'[c] = obj[c]
      /\ \A i \in Items : obj'[i] = obj[i]
      /\ \A l \in Corpses \cap DOMAIN obj : obj'[l].contents = obj[l].contents
      /\ \A l \in Corpses \cap DOMAIN obj : l # k => obj'[l] = obj[l]
  <2>1. Items \subseteq DOMAIN obj
    BY <1>0 DEF MapType
  <2>2. x.contents = {} /\ y.contents = {}
    BY <1>1, <1>3
  <2> QED
    BY <1>2, <1>5, <2>1, <2>2 DEF x
<1>b. /\ \A c \in Creatures \cap DOMAIN obj : obj[c].body \subseteq Items
      /\ \A l \in Corpses \cap DOMAIN obj : obj[l].contents \subseteq Items
  BY <1>0 DEF MapType, Fits, Sane, CreatureType, CorpseType
<1>8. Holding(obj')
  BY <1>0, <1>5, <1>7, <1>b DEF Holding
<1>9. Spent(obj')
  BY <1>0, <1>3, <1>5, <1>7 DEF Spent
<1>10. Numbered(obj')
  BY <1>0, <1>5 DEF Numbered, Graves
<1>11. World(obj') /\ marked' \subseteq Ids
  BY <1>0, <1>4, <1>6, <1>8, <1>9, <1>10 DEF World, MapType
<1>12. Marks
  BY <1>4, <1>5 DEF Marks
<1>13. ASSUME NEW n \in CreatureThere
       PROVE  Buried(n) /\ AtRest(n)
  <2>1. obj'[n] = obj[n]
    BY <1>7 DEF CreatureThere
  <2> QED
    BY <2>1, Zenon DEF Buried, AtRest
<1>14. ASSUME NEW q \in Players
       PROVE  Final(q)
  <2>1. q \in Creatures /\ q \in DOMAIN obj
    BY <1>0 DEF MapType, Creatures
  <2>2. obj'[q] = obj[q]
    BY <1>7, <2>1
  <2>3. Experience(q) \in Int
    <3>1. obj[q] \in CreatureType
      BY <1>0, <2>1 DEF MapType, Fits, Sane
    <3> QED
      BY <3>1, ExperienceIs
  <2>4. Experience(q)' = Experience(q)
    BY <2>2 DEF Experience
  <2> QED
    BY <2>3, <2>4 DEF Final
<1> QED
  BY <1>11, <1>12, <1>13, <1>14 DEF Proper, Settling

\* When the corpses that go have the highest numbers, the others are numbered
\* up to their count.
LEMMA Renumbered ==
    ASSUME NEW S, IsFiniteSet(S), NEW D, D \subseteq S,
           \A k \in S : k[2] \in 1..Cardinality(S),
           \A k, l \in S : k[2] = l[2] => k = l,
           \A k \in D : \A l \in S \ D : l[2] < k[2]
    PROVE  \A k \in S \ D : k[2] \in 1..Cardinality(S \ D)
<1> DEFINE n == Cardinality(S)
           a == Cardinality(S \ D)
           d == Cardinality(D)
<1>1. IsFiniteSet(D) /\ IsFiniteSet(S \ D) /\ n \in Nat /\ a \in Nat /\ d \in Nat
  BY FS_Subset, FS_Difference, FS_CardinalityType
<1>2. a = n - d
  <2>1. S \cap D = D
    OBVIOUS
  <2> QED
    BY <2>1, FS_Difference
<1>3. ASSUME NEW k \in S \ D, k[2] > a
      PROVE  FALSE
  <2> DEFINE m == k[2]
             I == (m + 1)..n
             f == [l \in D |-> l[2]]
  <2>1. m \in 1..n /\ m \in Nat
    BY <1>1
  <2>2. \A l \in D : l[2] \in I
    <3>1. ASSUME NEW l \in D
          PROVE  l[2] \in I
      <4>1. l[2] \in 1..n /\ m < l[2]
        OBVIOUS
      <4> DEFINE i == l[2]
      <4> HIDE DEF i, m, n
      <4>2. i \in 1..n /\ m < i
        BY <4>1 DEF i, m, n
      <4>3. i \in I
        BY <1>1, <2>1, <4>2
      <4> QED
        BY <4>3 DEF i
    <3> QED
      BY <3>1
  <2> HIDE DEF I, m
  <2>3. f \in Injection(D, I)
    <3>1. f \in [D -> I] /\ DOMAIN f = D /\ \A l \in D : f[l] = l[2]
      BY <2>2
    <3> HIDE DEF f
    <3>2. \A k1, l \in D : f[k1] = f[l] => k1 = l
      BY <3>1
    <3>3. IsInjective(f)
      BY <3>1, <3>2 DEF IsInjective
    <3>4. f \in {M \in [D -> I] : IsInjective(M)}
      BY ONLY <3>1, <3>3
    <3>5. Injection(D, I) = {M \in [D -> I] : IsInjective(M)}
      BY ONLY Zenon DEF Injection
    <3> QED
      BY ONLY <3>4, <3>5
  <2>4. IsFiniteSet(I) /\ Cardinality(I) = IF m + 1 > n THEN 0 ELSE n - (m + 1) + 1
    <3> HIDE DEF n
    <3>1. m + 1 \in Int /\ n \in Int
      BY <1>1, <2>1
    <3>2. /\ IsFiniteSet((m + 1)..n)
          /\ Cardinality((m + 1)..n) = IF m + 1 > n THEN 0 ELSE n - (m + 1) + 1
      BY ONLY <3>1, FS_Interval
    <3> QED
      BY <3>2 DEF I
  <2> HIDE DEF f
  <2>5. d <= Cardinality(I)
    BY <2>3, <2>4, FS_Injection
  <2>6. m > a
    BY <1>3 DEF m
  <2> HIDE DEF n, a, d
  <2> QED
    BY <1>1, <1>2, <2>1, <2>4, <2>5, <2>6
<1>4. ASSUME NEW k \in S \ D
      PROVE  k[2] \in 1..a
  <2> DEFINE m == k[2]
  <2>1. m \in 1..n /\ ~(m > a)
    BY <1>3
  <2> HIDE DEF m, n, a
  <2>2. m \in 1..a
    BY <1>1, <2>1
  <2> QED
    BY <2>2 DEF m
<1> QED
  BY <1>4

\* What is out of the world is left out after a restart, and holds nothing then.
LEMMA RestartProper ==
    ASSUME Tidy, Inv, Restart
    PROVE  Proper /\ session' \in [Players -> Rooms]
<1> DEFINE K == {id \in DOMAIN obj : obj[id].active}
<1>0. World(obj) /\ MapType(obj) /\ Holding(obj) /\ Spent(obj) /\ Numbered(obj)
  BY DEF Inv, World
<1>1. /\ obj' = [id \in K |-> obj[id]] /\ marked' = {} /\ K # DOMAIN obj
      /\ session' = [p \in Players |-> obj[p].location]
      /\ \A c, d \in Graves(obj) : ~obj[c].active /\ obj[d].active => d[2] < c[2]
  <2>1. Restrict(obj, K) = [id \in K |-> obj[id]]
    BY DEF Restrict
  <2> QED
    BY <2>1 DEF Restart, Graves
<1>2. DOMAIN obj' = K /\ IsMap(obj') /\ \A id \in K : obj'[id] = obj[id]
  BY <1>1 DEF IsMap
<1>3. K \subseteq DOMAIN obj /\ Players \cup Items \cup Rooms \subseteq K
  <2>1. \A p \in Players : p \in DOMAIN obj /\ obj[p].active
    BY <1>0 DEF MapType, Fits, Creatures
  <2>2. \A i \in Items : i \in DOMAIN obj /\ obj[i].active
    BY <1>0 DEF MapType, Fits, ItemType
  <2>3. \A r \in Rooms : r \in DOMAIN obj /\ obj[r].active
    BY <1>0 DEF MapType, Fits, Place
  <2> QED
    BY <2>1, <2>2, <2>3
<1>4. \A id \in DOMAIN obj \ K : (id \in Creatures => obj[id].body = {}) /\ (id \in Corpses => obj[id].contents = {})
  BY <1>0 DEF Spent
<1>c. \A id \in K : obj[id].active
  OBVIOUS
<1> HIDE DEF K
<1>5. MapType(obj')
  BY <1>0, <1>2, <1>3 DEF MapType
<1>b. /\ \A c \in Creatures \cap DOMAIN obj : obj[c].body \subseteq Items
      /\ \A l \in Corpses \cap DOMAIN obj : obj[l].contents \subseteq Items
  BY <1>0 DEF MapType, Fits, Sane, CreatureType, CorpseType
<1>6. \A i \in Items : obj'[i] = obj[i]
  BY <1>2, <1>3
<1>7. Holding(obj')
  <2>1. \A c \in Creatures \cap DOMAIN obj' : \A i \in obj'[c].body : obj'[i].location = c
    BY <1>0, <1>2, <1>3, <1>6, <1>b DEF Holding
  <2>2. \A k \in Corpses \cap DOMAIN obj' : \A i \in obj'[k].contents : obj'[i].location = k
    BY <1>0, <1>2, <1>3, <1>6, <1>b DEF Holding
  <2>3. ASSUME NEW i \in Items
        PROVE  \/ obj'[i].location \in Rooms
               \/ obj'[i].location \in Creatures \cap DOMAIN obj' /\ i \in obj'[obj'[i].location].body
               \/ obj'[i].location \in Corpses \cap DOMAIN obj' /\ i \in obj'[obj'[i].location].contents
    <3> DEFINE l == obj[i].location
    <3>1. obj'[i].location = l
      BY <1>6
    <3>2. CASE l \in Creatures \cap DOMAIN obj /\ i \in obj[l].body
      <4>1. l \in K
        BY <1>4, <3>2
      <4> QED
        BY <1>2, <3>1, <3>2, <4>1
    <3>3. CASE l \in Corpses \cap DOMAIN obj /\ i \in obj[l].contents
      <4>1. l \in K
        BY <1>4, <3>3
      <4> QED
        BY <1>2, <3>1, <3>3, <4>1
    <3> QED
      BY <1>0, <3>1, <3>2, <3>3 DEF Holding
  <2> QED
    BY <2>1, <2>2, <2>3 DEF Holding
<1>8. Spent(obj')
  BY <1>2, <1>c DEF Spent
<1>9. Numbered(obj')
  <2> DEFINE S == Graves(obj)
             D == {id \in S : id \notin K}
  <2>1. Graves(obj') = S \ D
    BY <1>2, <1>3 DEF Graves
  <2>2. IsFiniteSet(S) /\ (\A x \in S : x[2] \in 1..Cardinality(S)) /\ (\A x, y \in S : x[2] = y[2] => x = y)
    BY <1>0 DEF Numbered
  <2>3. \A k \in D : \A l \in S \ D : l[2] < k[2]
    <3>1. ASSUME NEW k \in D, NEW l \in S \ D
          PROVE  l[2] < k[2]
      <4>1. k \in DOMAIN obj /\ ~obj[k].active
        BY DEF Graves, K
      <4>2. obj[l].active
        BY <1>c
      <4> QED
        BY <1>1, <4>1, <4>2
    <3> QED
      BY <3>1
  <2>4. D \subseteq S /\ IsFiniteSet(S \ D)
    BY <2>2, FS_Difference
  <2> HIDE DEF S, D
  <2>5. \A k \in S \ D : k[2] \in 1..Cardinality(S \ D)
    BY <2>2, <2>3, <2>4, Renumbered
  <2> QED
    BY <2>1, <2>2, <2>4, <2>5 DEF Numbered
<1>10. World(obj')
  BY <1>5, <1>7, <1>8, <1>9 DEF World
<1>11. Marks
  BY <1>1, <1>2, <1>3 DEF Marks
<1>12. ASSUME NEW n \in CreatureThere
       PROVE  Buried(n) /\ AtRest(n)
  <2>1. n \in DOMAIN obj' => obj'[n] = obj[n]
    BY <1>2
  <2> QED
    BY <2>1, Zenon DEF Buried, AtRest
<1>13. \A q \in Players : q \in Creatures /\ q \in DOMAIN obj /\ q \in K
  BY <1>3 DEF Creatures
<1>14. ASSUME NEW q \in Players
       PROVE  Final(q)
  <2>2. obj'[q] = obj[q]
    BY <1>2, <1>13
  <2>3. Experience(q) \in Int
    <3>1. obj[q] \in CreatureType
      BY <1>0, <1>13 DEF MapType, Fits, Sane
    <3> QED
      BY <3>1, ExperienceIs
  <2>4. Experience(q)' = Experience(q)
    BY <2>2 DEF Experience
  <2> QED
    BY <2>3, <2>4 DEF Final
<1>15. session' \in [Players -> Rooms]
  <2>1. \A q \in Players : obj[q].location \in Rooms
    BY <1>0, <1>13 DEF MapType, Fits, Sane, CreatureType
  <2> QED
    BY <1>1, <2>1
<1> QED
  BY <1>1, <1>10, <1>11, <1>12, <1>14, <1>15 DEF Proper, Settling

(***************************************************************************)
(* The theorems                                                            *)
(***************************************************************************)

\* What bootstrap leaves: every object is there and of its kind, lies in a room
\* or is worn by who it says it is with, and the effects of creatures are in step.
Bootstrapped ==
    /\ DOMAIN Start = Creatures \cup Items \cup Rooms /\ IsMap(Start)
    /\ \A c \in Creatures : Sane(Start[c]) /\ Start[c].id = c /\ Start[c].active
    /\ \A i \in Items :
         /\ Start[i] \in ItemType
         /\ \/ Start[i].location \in Rooms
            \/ Start[i].location \in Creatures /\ i \in Start[Start[i].location].body
    /\ \A r \in Rooms : Start[r] = Place
    /\ \A c \in Creatures : \A i \in Start[c].body : Start[i].location = c

\* The world that bootstrap leaves is in order.
LEMMA InitInv ==
    ASSUME Bootstrapped, Init
    PROVE  Inv
<1>1. obj = Start /\ marked = {} /\ session = [p \in Players |-> Start[p].location]
  BY DEF Init
<1>2. MapType(Start)
  <2>1. DOMAIN Start \subseteq Ids /\ Players \cup Items \cup Rooms \subseteq DOMAIN Start
    BY DEF Bootstrapped, Ids, Creatures
  <2>2. ASSUME NEW id \in DOMAIN Start
        PROVE  Fits(id, Start[id])
    <3>1. CASE id \in Creatures
      BY <3>1, Kinds DEF Bootstrapped, Fits
    <3>2. CASE id \in Items
      BY <3>2, Kinds DEF Bootstrapped, Fits
    <3>3. CASE id \in Rooms
      BY <3>3, Kinds DEF Bootstrapped, Fits
    <3> QED
      BY <3>1, <3>2, <3>3 DEF Bootstrapped
  <2> QED
    BY <2>1, <2>2 DEF MapType, Bootstrapped
<1>3. Graves(Start) = {} /\ Corpses \cap DOMAIN Start = {}
  BY <1>2, GravesAre, Kinds DEF Bootstrapped
<1>4. Holding(Start)
  BY <1>3 DEF Holding, Bootstrapped
<1>5. Spent(Start)
  BY <1>3 DEF Spent, Bootstrapped
<1>6. Numbered(Start)
  BY <1>3, FS_EmptySet DEF Numbered
<1>7. \A p \in Players : Start[p].location \in Rooms
  BY DEF Bootstrapped, Sane, CreatureType, Creatures
<1> QED
  BY <1>1, <1>2, <1>4, <1>5, <1>6, <1>7 DEF Inv, World

\* Every command is proper.
LEMMA NextProper ==
    ASSUME TameScripts, Tidy, Amounts \subseteq Int, Inv, Next
    PROVE  Proper /\ Inv'
<1>1. ASSUME NEW p \in Players, NEW r \in Rooms, Go(p, r)
      PROVE  Proper /\ session' \in [Players -> Rooms]
  <2>1. Kept({}) /\ session' \in [Players -> Rooms]
    BY <1>1, GoKeeps DEF Inv, World, Go
  <2> QED
    BY <2>1, KeptProper
<1>2. ASSUME NEW p \in Players, Look(p)
      PROVE  Proper /\ session' \in [Players -> Rooms]
  <2>1. Kept({}) /\ session' \in [Players -> Rooms]
    BY <1>2, LookKeeps DEF Inv, World, Look
  <2> QED
    BY <2>1, KeptProper
<1>3. ASSUME NEW p \in Players, NEW t \in Creatures, Attack(p, t)
      PROVE  Proper /\ session' \in [Players -> Rooms]
  BY <1>3, AttackProper
<1>4. ASSUME NEW t \in Creatures, NEW n \in Amounts, Damage(t, n) \/ Mend(t, n)
      PROVE  Proper /\ session' \in [Players -> Rooms]
  <2>1. n \in Int
    OBVIOUS
  <2>2. Kept({}) /\ session' \in [Players -> Rooms]
    BY <1>4, <2>1, DamageKeeps DEF Inv, Damage, Mend
  <2> QED
    BY <2>2, KeptProper
<1>5. ASSUME NEW p \in Players, NEW i \in Items, Take(p, i)
      PROVE  Proper /\ session' \in [Players -> Rooms]
  BY <1>5, TakeProper DEF Inv, Take
<1>6. ASSUME NEW c \in DOMAIN obj, DeleteCorpse(c)
      PROVE  Proper /\ session' \in [Players -> Rooms]
  BY <1>6, DeleteProper DEF Inv, DeleteCorpse
<1>7. ASSUME Restart
      PROVE  Proper /\ session' \in [Players -> Rooms]
  BY <1>7, RestartProper
<1>8. Proper /\ session' \in [Players -> Rooms]
  BY <1>1, <1>2, <1>3, <1>4, <1>5, <1>6, <1>7 DEF Next
<1> QED
  BY <1>8 DEF Proper, Inv

\* A command that stutters is none.
LEMMA InvHolds ==
    ASSUME TameScripts, Tidy, Amounts \subseteq Int, Bootstrapped
    PROVE  Spec => []Inv
<1>1. Init => Inv
  BY InitInv
<1>2. Inv /\ [Next]_vars => Inv'
  <2>1. ASSUME Inv, UNCHANGED vars PROVE Inv'
    BY <2>1 DEF vars, Inv
  <2> QED
    BY <2>1, NextProper
<1> QED
  BY <1>1, <1>2, PTL DEF Spec

\* The invariants of the run: gear is where it says it is, and durations and
\* derived modifiers go by the active effects.
LEMMA InvGear ==
    ASSUME Inv
    PROVE  GearAgrees
<1>1. MapType(obj) /\ Holding(obj)
  BY DEF Inv, World
<1>2. CorpseThere = Corpses \cap DOMAIN obj
  BY <1>1, GravesAre DEF CorpseThere, Graves
<1>3. ASSUME NEW i \in Items \cap DOMAIN obj,
             NEW h \in {c \in CreatureThere : i \in obj[c].body} \cup {k \in CorpseThere : i \in obj[k].contents}
      PROVE  obj[i].location = h
  BY <1>1, <1>2 DEF CreatureThere, Holding
<1>4. ASSUME NEW i \in Items \cap DOMAIN obj, obj[i].location \in DOMAIN obj \ Rooms
      PROVE  obj[i].location \in {c \in CreatureThere : i \in obj[c].body}
                                   \cup {k \in CorpseThere : i \in obj[k].contents}
  BY <1>1, <1>2, <1>4 DEF CreatureThere, Holding
<1> QED
  BY <1>3, <1>4 DEF GearAgrees

\* The type invariant, and the effects of creatures.
LEMMA InvEffects ==
    ASSUME Inv
    PROVE  EffectsInStep
<1>1. MapType(obj) /\ session \in [Players -> Rooms] /\ marked \subseteq Ids
  BY DEF Inv, World
<1>2. \A c \in CreatureThere : obj[c] \in CreatureType /\ InStep(obj[c])
  BY <1>1 DEF CreatureThere, MapType, Fits, Sane
<1>3. \A k \in CorpseThere : obj[k] \in CorpseType
  BY <1>1, GravesAre DEF CorpseThere, Graves, MapType, Fits
<1>4. TypeOK
  <2>1. \A c \in CreatureThere :
           /\ obj[c].location \in Rooms /\ obj[c].health \in Nat
           /\ obj[c].body \subseteq Items
           /\ {obj[c].active, obj[c].creature_aware, obj[c].player_aware, obj[c].player_discovered} \subseteq BOOLEAN
    BY <1>2 DEF CreatureType
  <2>2. \A k \in CorpseThere : obj[k].contents \subseteq Items /\ obj[k].corpse_of \in Creatures
    BY <1>3 DEF CorpseType
  <2>3. DOMAIN obj \subseteq Ids /\ Players \cup Rooms \subseteq DOMAIN obj
    BY <1>1 DEF MapType
  <2> QED
    BY <1>1, <2>1, <2>2, <2>3 DEF TypeOK
<1> QED
  BY <1>2, <1>4 DEF EffectsInStep, InStep

\* Where an item is listed is where it says it is, in every state: the deaths,
\* looting and restarts in any order keep both sides in agreement.
THEOREM GearAgreesHolds ==
    ASSUME TameScripts, Tidy, Amounts \subseteq Int, Bootstrapped
    PROVE  Spec => []GearAgrees
<1>1. Inv => GearAgrees
  BY InvGear
<1> QED
  BY <1>1, InvHolds, PTL

\* The durations and modifiers of every creature follow its active effects,
\* whatever blows, ticks, cures and scripts did to them.
THEOREM EffectsInStepHolds ==
    ASSUME TameScripts, Tidy, Amounts \subseteq Int, Bootstrapped
    PROVE  Spec => []EffectsInStep
<1>1. Inv => EffectsInStep
  BY InvEffects
<1> QED
  BY <1>1, InvHolds, PTL

\* Every command marks all it changes.
THEOREM ChangesMarkedHolds ==
    ASSUME TameScripts, Tidy, Amounts \subseteq Int, Bootstrapped
    PROVE  Spec => ChangesMarked
<1>1. ASSUME Inv, [Next]_vars
      PROVE  [Marks]_vars
  BY <1>1, NextProper DEF Proper
<1> QED
  BY <1>1, InvHolds, PTL DEF Spec, ChangesMarked, Marks

\* A death is complete and for good.
THEOREM DeathsSettleHolds ==
    ASSUME TameScripts, Tidy, Amounts \subseteq Int, Bootstrapped
    PROVE  Spec => DeathsSettle
<1>1. ASSUME Inv, [Next]_vars
      PROVE  [Settling]_vars
  BY <1>1, NextProper DEF Proper
<1> QED
  BY <1>1, InvHolds, PTL DEF Spec, DeathsSettle, Settling
==============================================================================
