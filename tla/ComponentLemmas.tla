--------------------------- MODULE ComponentLemmas ---------------------------
(***************************************************************************)
(* What the operators of PathComponents compute, for every path.  They are *)
(* folds, so the lemmas first say of a fold that it takes one step per     *)
(* element; they rest on the order of the natural numbers.                 *)
(***************************************************************************)
EXTENDS PathComponents, FiniteSetTheorems, TLAPS, WellFoundedInduction

\* Every set of natural numbers has a first one.
LEMMA FirstNatural ==
  ASSUME NEW T \in SUBSET Nat, T # {}
  PROVE  \E m \in T : \A k \in T : m <= k
<1>1. PICK m \in T : \A k \in T : ~ (<<k, m>> \in OpToRel(<, Nat))
  BY WFMin, NatLessThanWellFounded, Zenon
<1>2. \A k \in T : ~ (k < m)
  BY <1>1 DEF OpToRel
<1> QED
  BY <1>2

\* A set that holds 0 and with each number the next one holds all of them.
LEMMA AllNaturals ==
  ASSUME NEW T, 0 \in T, \A n \in Nat : n \in T => n + 1 \in T
  PROVE  \A n \in Nat : n \in T
<1> SUFFICES ASSUME Nat \ T # {} PROVE FALSE
  OBVIOUS
<1>1. PICK m \in Nat \ T : \A k \in Nat \ T : m <= k
  BY FirstNatural
<1>2. m - 1 \in Nat /\ m - 1 \in T
  BY <1>1
<1> QED
  BY <1>1, <1>2

LEMMA MinIs ==
  ASSUME NEW T \in SUBSET Nat, T # {}
  PROVE  Min(T) \in T /\ \A k \in T : Min(T) <= k
BY FirstNatural DEF Min

LEMMA MaxIs ==
  ASSUME NEW b \in Nat, NEW T \in SUBSET (0..b), T # {}
  PROVE  Max(T) \in T /\ \A k \in T : k <= Max(T)
<1> DEFINE U == {n \in Nat : \A k \in T : k <= n}
<1>1. b \in U
  OBVIOUS
<1>2. PICK m \in U : \A n \in U : m <= n
  BY <1>1, FirstNatural
<1>3. m \in T
  <2> SUFFICES ASSUME m \notin T PROVE FALSE
    OBVIOUS
  <2>1. \A k \in T : k <= m - 1
    OBVIOUS
  <2>2. m - 1 \in Nat
    <3>1. PICK k \in T : TRUE
      OBVIOUS
    <3> QED
      BY <2>1, <3>1
  <2> QED
    BY <1>2, <2>1, <2>2
<1>4. \E x \in T : \A y \in T : x >= y
  BY <1>2, <1>3
<1> HIDE DEF U
<1> QED
  BY <1>4 DEF Max

LEMMA MaxBelow ==
  ASSUME NEW n \in Nat, NEW t \in SUBSET (1..n), t # {}
  PROVE  /\ Max(t) \in t /\ Max(t) \in 1..n /\ t \ {Max(t)} \in SUBSET (1..n)
         /\ n \in t => Max(t) = n
<1>1. t \in SUBSET (0..n)
  OBVIOUS
<1>2. Max(t) \in t /\ \A k \in t : k <= Max(t)
  BY <1>1, MaxIs, Zenon
<1>3. \A k \in t : k \in 1..n
  OBVIOUS
<1>4. Max(t) \in 1..n /\ (n \in t => n <= Max(t))
  BY <1>2, <1>3, Zenon
<1>5. \A k \in 1..n : n <= k => k = n
  OBVIOUS
<1>6. t \ {Max(t)} \in SUBSET (1..n)
  OBVIOUS
<1> QED
  BY <1>2, <1>4, <1>5, <1>6, Zenon
-----------------------------------------------------------------------------
(***************************************************************************)
(* A fold whose step is a function, as MapThenFoldSet runs it over sets of *)
(* indices.                                                                *)
(***************************************************************************)
Steps(V, E) == [V \X E -> V]
Runs(V, n)  == [SUBSET (1..n) -> V]

IsRun(it, step, base, s) ==
  \A t \in SUBSET (1..Len(s)) :
    it[t] = IF t = {} THEN base ELSE step[<<it[t \ {Max(t)}], s[Max(t)]>>]

\* There is such a run.
LEMMA RunExists ==
  ASSUME NEW V, NEW E, NEW step \in Steps(V, E), NEW base \in V, NEW s \in Seq(E)
  PROVE  \E it \in Runs(V, Len(s)) : IsRun(it, step, base, s)
<1> USE DEF Steps
<1> DEFINE RunsTo(it, n) ==
             \A t \in SUBSET (1..n) :
               it[t] = IF t = {} THEN base ELSE step[<<it[t \ {Max(t)}], s[Max(t)]>>]
           T == {n \in Nat : n <= Len(s) => \E it \in [SUBSET (1..n) -> V] : RunsTo(it, n)}
<1>1. 0 \in T
  <2> DEFINE none == [t \in SUBSET (1..0) |-> base]
  <2>1. \A t \in SUBSET (1..0) : t = {}
    OBVIOUS
  <2>2. none \in [SUBSET (1..0) -> V] /\ RunsTo(none, 0)
    BY <2>1
  <2> QED
    BY <2>2
<1>2. ASSUME NEW n \in Nat, n \in T PROVE n + 1 \in T
  <2> SUFFICES ASSUME n + 1 <= Len(s)
               PROVE  \E it \in [SUBSET (1..(n + 1)) -> V] : RunsTo(it, n + 1)
    <3> HIDE DEF RunsTo
    <3>1. n + 1 \in Nat
      OBVIOUS
    <3> QED
      BY <3>1
  <2>1. n <= Len(s) /\ s[n + 1] \in E
    OBVIOUS
  <2>2. PICK it \in [SUBSET (1..n) -> V] : RunsTo(it, n)
    BY <1>2, <2>1
  <2> DEFINE next == [t \in SUBSET (1..(n + 1)) |->
                        IF n + 1 \in t THEN step[<<it[t \ {n + 1}], s[n + 1]>>] ELSE it[t]]
  <2>3. ASSUME NEW t \in SUBSET (1..(n + 1))
        PROVE  /\ t \ {n + 1} \in SUBSET (1..n)
               /\ n + 1 \notin t => t \in SUBSET (1..n)
    BY <2>3
  <2>4. \A t \in SUBSET (1..n) : t \in SUBSET (1..(n + 1)) /\ next[t] = it[t]
    BY <2>3
  <2>5. next \in [SUBSET (1..(n + 1)) -> V]
    <3> SUFFICES ASSUME NEW t \in SUBSET (1..(n + 1)) PROVE next[t] \in V
      OBVIOUS
    <3>1. CASE n + 1 \in t
      <4>1. it[t \ {n + 1}] \in V
        BY <2>3
      <4>2. <<it[t \ {n + 1}], s[n + 1]>> \in V \X E
        BY <2>1, <4>1
      <4> QED
        BY <3>1, <4>2
    <3>2. CASE n + 1 \notin t
      BY <2>3, <3>2
    <3> QED
      BY <3>1, <3>2
  <2>6. ASSUME NEW t \in SUBSET (1..(n + 1))
        PROVE  next[t] = IF t = {} THEN base ELSE step[<<next[t \ {Max(t)}], s[Max(t)]>>]
    <3>1. CASE n + 1 \in t
      <4>1. Max(t) = n + 1
        BY <3>1, MaxBelow
      <4>2. next[t \ {n + 1}] = it[t \ {n + 1}]
        BY <2>3, <2>4
      <4> QED
        BY <3>1, <4>1, <4>2
    <3>2. CASE n + 1 \notin t
      <4>1. t \in SUBSET (1..n) /\ next[t] = it[t]
        BY <2>3, <2>4, <3>2
      <4>2. it[t] = IF t = {} THEN base ELSE step[<<it[t \ {Max(t)}], s[Max(t)]>>]
        BY <2>2, <4>1
      <4>3. t # {} => next[t \ {Max(t)}] = it[t \ {Max(t)}]
        <5> HIDE DEF next
        <5> QED
          BY <2>4, <4>1, MaxBelow
      <4> HIDE DEF next
      <4> QED
        BY <4>1, <4>2, <4>3
    <3> QED
      BY <3>1, <3>2
  <2> HIDE DEF next
  <2>7. RunsTo(next, n + 1)
    BY <2>6
  <2> HIDE DEF RunsTo
  <2> QED
    BY <2>5, <2>7
<1> HIDE DEF T
<1>3. \A n \in Nat : n \in T
  BY <1>1, <1>2, AllNaturals
<1>4. Len(s) \in T /\ Len(s) <= Len(s)
  BY <1>3
<1>5. \E it \in [SUBSET (1..Len(s)) -> V] : RunsTo(it, Len(s))
  <2> HIDE DEF RunsTo
  <2> QED
    BY <1>4 DEF T
<1> QED
  BY <1>5 DEF Runs, IsRun

\* What is known of the one that is chosen, its values unknown.
RunsIn(f, V, step, base, s) ==
  /\ f[{}] = base
  /\ \A t \in SUBSET (1..Len(s)) : t # {} /\ f[t \ {Max(t)}] \in V =>
       f[t] = step[<<f[t \ {Max(t)}], s[Max(t)]>>]

GoesForward(f, V, step, base, s) ==
  /\ f[1..0] = base
  /\ \A n \in Nat : n <= Len(s) => f[1..n] \in V
  /\ \A n \in Nat : n + 1 <= Len(s) => f[1..(n + 1)] = step[<<f[1..n], s[n + 1]>>]

\* It is the step, from element to element.
LEMMA RunForward ==
  ASSUME NEW V, NEW E, NEW step \in Steps(V, E), NEW base \in V, NEW s \in Seq(E), NEW f,
         RunsIn(f, V, step, base, s)
  PROVE  GoesForward(f, V, step, base, s)
<1> USE DEF Steps, RunsIn
<1> DEFINE T == {n \in Nat : n <= Len(s) => f[1..n] \in V}
<1>1. 1..0 = {}
  OBVIOUS
<1>2. ASSUME NEW n \in Nat, n + 1 <= Len(s), f[1..n] \in V
      PROVE  f[1..(n + 1)] = step[<<f[1..n], s[n + 1]>>] /\ f[1..(n + 1)] \in V
  <2> DEFINE t == 1..(n + 1)
  <2>1. t \in SUBSET (1..Len(s)) /\ t # {} /\ n + 1 \in t /\ t \in SUBSET (1..(n + 1))
    <3>1. \A k \in 1..(n + 1) : k \in 1..Len(s)
      BY <1>2
    <3>2. n + 1 \in 1..(n + 1)
      OBVIOUS
    <3> QED
      BY <3>1, <3>2
  <2>2. Max(t) = n + 1
    <3> HIDE DEF t
    <3>1. n + 1 \in Nat
      OBVIOUS
    <3> QED
      BY <2>1, <3>1, MaxBelow
  <2>3. t \ {n + 1} = 1..n
    OBVIOUS
  <2> HIDE DEF t
  <2>4. f[t] = step[<<f[1..n], s[n + 1]>>]
    BY <1>2, <2>1, <2>2, <2>3
  <2>5. s[n + 1] \in E
    BY <1>2
  <2> QED
    BY <1>2, <2>4, <2>5 DEF t
<1>3. \A n \in Nat : n \in T
  <2>1. 0 \in T
    BY <1>1
  <2>2. ASSUME NEW n \in Nat, n \in T PROVE n + 1 \in T
    <3>1. n + 1 <= Len(s) => f[1..(n + 1)] \in V
      <4> SUFFICES ASSUME n + 1 <= Len(s) PROVE f[1..(n + 1)] \in V
        OBVIOUS
      <4>1. n <= Len(s)
        OBVIOUS
      <4>2. f[1..n] \in V
        BY <2>2, <4>1
      <4> QED
        BY <1>2, <4>2
    <3>2. n + 1 \in Nat
      OBVIOUS
    <3> QED
      BY <3>1, <3>2
  <2> HIDE DEF T
  <2> QED
    BY <2>1, <2>2, AllNaturals
<1>4. \A n \in Nat : n <= Len(s) => f[1..n] \in V
  BY <1>3
<1>5. ASSUME NEW n \in Nat, n + 1 <= Len(s)
      PROVE  f[1..(n + 1)] = step[<<f[1..n], s[n + 1]>>]
  <2>1. f[1..n] \in V
    BY <1>4, <1>5
  <2> QED
    BY <1>2, <1>5, <2>1
<1> QED
  BY <1>1, <1>4, <1>5 DEF GoesForward

GoesOn(f, g, step, s, e) == g[1..Len(Append(s, e))] = step[<<f[1..Len(s)], e>>]

\* The fold of a sequence with one more element is one more step.
LEMMA RunLonger ==
  ASSUME NEW V, NEW E, NEW step \in Steps(V, E), NEW base \in V,
         NEW s \in Seq(E), NEW e \in E, NEW f, NEW g,
         RunsIn(f, V, step, base, s), RunsIn(g, V, step, base, Append(s, e))
  PROVE  GoesOn(f, g, step, s, e)
<1> DEFINE z == Append(s, e)
           T == {n \in Nat : n <= Len(s) => g[1..n] = f[1..n]}
<1>1. z \in Seq(E) /\ Len(z) = Len(s) + 1 /\ z[Len(s) + 1] = e
      /\ \A k \in 1..Len(s) : z[k] = s[k]
  OBVIOUS
<1> HIDE DEF z
<1>2. /\ f[1..0] = base
      /\ \A n \in Nat : n + 1 <= Len(s) => f[1..(n + 1)] = step[<<f[1..n], s[n + 1]>>]
  <2>1. GoesForward(f, V, step, base, s)
    BY RunForward, Zenon
  <2> QED
    BY <2>1 DEF GoesForward
<1>3. /\ g[1..0] = base
      /\ \A n \in Nat : n + 1 <= Len(z) => g[1..(n + 1)] = step[<<g[1..n], z[n + 1]>>]
  <2>1. RunsIn(g, V, step, base, z)
    BY DEF z
  <2>2. GoesForward(g, V, step, base, z)
    BY <1>1, <2>1, RunForward, Zenon
  <2> QED
    BY <2>2 DEF GoesForward
<1>4. \A n \in Nat : n \in T
  <2>1. 0 \in T
    BY <1>2, <1>3
  <2>2. ASSUME NEW n \in Nat, n \in T PROVE n + 1 \in T
    <3> SUFFICES ASSUME n + 1 <= Len(s) PROVE g[1..(n + 1)] = f[1..(n + 1)]
      OBVIOUS
    <3>1. n <= Len(s) /\ n + 1 <= Len(z) /\ n + 1 \in 1..Len(s)
      BY <1>1
    <3>2. g[1..n] = f[1..n] /\ z[n + 1] = s[n + 1]
      BY <1>1, <2>2, <3>1
    <3> QED
      BY <1>2, <1>3, <3>1, <3>2
  <2> HIDE DEF T
  <2> QED
    BY <2>1, <2>2, AllNaturals
<1>5. g[1..Len(s)] = f[1..Len(s)] /\ Len(s) \in Nat /\ Len(s) + 1 <= Len(z)
  BY <1>1, <1>4
<1>6. g[1..(Len(s) + 1)] = step[<<f[1..Len(s)], e>>]
  BY <1>1, <1>3, <1>5
<1> QED
  BY <1>1, <1>6 DEF z, GoesOn
-----------------------------------------------------------------------------
Lists(S) == Seq(Seq(S)) \ {<<>>}

LEMMA AddCharType ==
  ASSUME NEW S, NEW names \in Lists(S), NEW c \in S
  PROVE  AddChar(names, c) \in Lists(S)
<1>1. names \in Seq(Seq(S)) /\ Len(names) \in 1..Len(names)
  BY DEF Lists
<1>2. CASE c = BackSlash
  <2>1. <<>> \in Seq(S)
    OBVIOUS
  <2>2. Append(names, <<>>) \in Seq(Seq(S)) /\ Append(names, <<>>) # <<>>
    BY <1>1, <2>1
  <2> QED
    BY <1>2, <2>2 DEF AddChar, Lists
<1>3. CASE c # BackSlash
  <2> DEFINE new == [names EXCEPT ![Len(names)] = Append(@, c)]
  <2>1. names[Len(names)] \in Seq(S)
    BY <1>1
  <2>2. Append(names[Len(names)], c) \in Seq(S)
    BY <2>1
  <2>3. new \in Seq(Seq(S)) /\ Len(new) = Len(names)
    BY <1>1, <2>2
  <2> QED
    BY <1>1, <1>3, <2>3 DEF AddChar, Lists
<1> QED
  BY <1>2, <1>3

\* Split reads the characters one after the other.
LEMMA SplitIs ==
  ASSUME NEW S
  PROVE  /\ Split(<<>>) = << <<>> >>
         /\ \A s \in Seq(S) : Split(s) \in Lists(S)
         /\ \A s \in Seq(S), e \in S : Split(Append(s, e)) = AddChar(Split(s), e)
<1> DEFINE V == Lists(S)
           E == S
           step == [x \in V \X E |-> AddChar(x[1], x[2])]
           base == << <<>> >>
           Run(it, s) == [t \in SUBSET (DOMAIN s) |->
                            IF t = {} THEN base ELSE AddChar(it[t \ {Max(t)}], s[Max(t)])]
           f(s) == CHOOSE it : it = Run(it, s)
<1>1. \A v \in V, e \in E : step[<<v, e>>] = AddChar(v, e) /\ step[<<v, e>>] \in V
  BY AddCharType
<1>2. step \in Steps(V, E)
  BY AddCharType DEF Steps
<1>3. base \in V
  BY DEF Lists
<1>4. \A s : Split(s) = f(s)[DOMAIN s]
  BY DEF Split, FoldLeft, MapThenFoldSet
<1> HIDE DEF step, base, V, E
<1>5. ASSUME NEW s \in Seq(E)
      PROVE  RunsIn(f(s), V, step, base, s) /\ Split(s) = f(s)[1..Len(s)]
  <2>1. DOMAIN s = 1..Len(s)
    OBVIOUS
  <2>2. ASSUME NEW t \in SUBSET (1..Len(s)), t # {}
        PROVE  t \ {Max(t)} \in SUBSET (1..Len(s)) /\ s[Max(t)] \in E
    BY <2>2, MaxBelow
  <2>3. PICK it \in Runs(V, Len(s)) : IsRun(it, step, base, s)
    BY <1>2, <1>3, RunExists, Zenon
  <2>4. it = Run(it, s)
    BY <1>1, <2>1, <2>2, <2>3 DEF Runs, IsRun
  <2>5. f(s) = Run(f(s), s)
    <3> HIDE DEF Run
    <3> QED
      BY <2>4
  <2> HIDE DEF f
  <2>6. RunsIn(f(s), V, step, base, s)
    BY <1>1, <2>1, <2>2, <2>5, ZenonT(60) DEF RunsIn
  <2> QED
    BY <1>4, <2>1, <2>6
<1> HIDE DEF f
<1>6. ASSUME NEW s \in Seq(E)
      PROVE  Split(s) \in V /\ (s = <<>> => Split(s) = base)
  <2>1. GoesForward(f(s), V, step, base, s)
    BY <1>2, <1>3, <1>5, RunForward, Zenon
  <2> QED
    BY <1>5, <2>1 DEF GoesForward
<1>7. ASSUME NEW s \in Seq(E), NEW e \in E
      PROVE  Split(Append(s, e)) = AddChar(Split(s), e)
  <2>1. Append(s, e) \in Seq(E)
    OBVIOUS
  <2>2. Split(Append(s, e)) = step[<<Split(s), e>>]
    <3>1. RunsIn(f(s), V, step, base, s) /\ RunsIn(f(Append(s, e)), V, step, base, Append(s, e))
      BY <1>5, <2>1
    <3>2. GoesOn(f(s), f(Append(s, e)), step, s, e)
      BY <1>2, <1>3, <3>1, RunLonger, Zenon
    <3> QED
      BY <1>5, <2>1, <3>2 DEF GoesOn
  <2> QED
    BY <1>1, <1>6, <2>2
<1>8. <<>> \in Seq(E)
  OBVIOUS
<1> QED
  BY <1>6, <1>7, <1>8 DEF V, E, base

LEMMA AddDirectoryType ==
  ASSUME NEW S, BackSlash \in S, NEW s \in Seq(S), NEW n \in Seq(S)
  PROVE  AddDirectory(s, n) \in Seq(S)
BY DEF AddDirectory

\* Directories puts the names one behind the other.
LEMMA DirectoriesIs ==
  ASSUME NEW S, BackSlash \in S
  PROVE  /\ Directories(<<>>) = <<>>
         /\ \A s \in Seq(Seq(S)) : Directories(s) \in Seq(S)
         /\ \A s \in Seq(Seq(S)), e \in Seq(S) : Directories(Append(s, e)) = AddDirectory(Directories(s), e)
<1> DEFINE V == Seq(S)
           E == Seq(S)
           step == [x \in V \X E |-> AddDirectory(x[1], x[2])]
           base == <<>>
           Run(it, s) == [t \in SUBSET (DOMAIN s) |->
                            IF t = {} THEN base ELSE AddDirectory(it[t \ {Max(t)}], s[Max(t)])]
           f(s) == CHOOSE it : it = Run(it, s)
<1>1. \A v \in V, e \in E : step[<<v, e>>] = AddDirectory(v, e) /\ step[<<v, e>>] \in V
  BY AddDirectoryType
<1>2. step \in Steps(V, E)
  BY AddDirectoryType DEF Steps
<1>3. base \in V
  OBVIOUS
<1>4. \A s : Directories(s) = f(s)[DOMAIN s]
  BY DEF Directories, FoldLeft, MapThenFoldSet
<1> HIDE DEF step, base, V, E
<1>5. ASSUME NEW s \in Seq(E)
      PROVE  RunsIn(f(s), V, step, base, s) /\ Directories(s) = f(s)[1..Len(s)]
  <2>1. DOMAIN s = 1..Len(s)
    OBVIOUS
  <2>2. ASSUME NEW t \in SUBSET (1..Len(s)), t # {}
        PROVE  t \ {Max(t)} \in SUBSET (1..Len(s)) /\ s[Max(t)] \in E
    BY <2>2, MaxBelow
  <2>3. PICK it \in Runs(V, Len(s)) : IsRun(it, step, base, s)
    BY <1>2, <1>3, RunExists, Zenon
  <2>4. it = Run(it, s)
    BY <1>1, <2>1, <2>2, <2>3 DEF Runs, IsRun
  <2>5. f(s) = Run(f(s), s)
    <3> HIDE DEF Run
    <3> QED
      BY <2>4
  <2> HIDE DEF f
  <2>6. RunsIn(f(s), V, step, base, s)
    BY <1>1, <2>1, <2>2, <2>5, ZenonT(60) DEF RunsIn
  <2> QED
    BY <1>4, <2>1, <2>6
<1> HIDE DEF f
<1>6. ASSUME NEW s \in Seq(E)
      PROVE  Directories(s) \in V /\ (s = <<>> => Directories(s) = base)
  <2>1. GoesForward(f(s), V, step, base, s)
    BY <1>2, <1>3, <1>5, RunForward, Zenon
  <2> QED
    BY <1>5, <2>1 DEF GoesForward
<1>7. ASSUME NEW s \in Seq(E), NEW e \in E
      PROVE  Directories(Append(s, e)) = AddDirectory(Directories(s), e)
  <2>1. Append(s, e) \in Seq(E)
    OBVIOUS
  <2>2. Directories(Append(s, e)) = step[<<Directories(s), e>>]
    <3>1. RunsIn(f(s), V, step, base, s) /\ RunsIn(f(Append(s, e)), V, step, base, Append(s, e))
      BY <1>5, <2>1
    <3>2. GoesOn(f(s), f(Append(s, e)), step, s, e)
      BY <1>2, <1>3, <3>1, RunLonger, Zenon
    <3> QED
      BY <1>5, <2>1, <3>2 DEF GoesOn
  <2> QED
    BY <1>1, <1>6, <2>2
<1>8. <<>> \in Seq(E)
  OBVIOUS
<1> QED
  BY <1>6, <1>7, <1>8 DEF V, E, base
-----------------------------------------------------------------------------
(***************************************************************************)
(* Sequences by their last element.                                        *)
(***************************************************************************)
LEMMA FrontLast ==
  ASSUME NEW E, NEW s \in Seq(E), s # <<>>
  PROVE  /\ Front(s) \in Seq(E) /\ Last(s) \in E /\ s = Append(Front(s), Last(s))
         /\ Len(s) \in Nat /\ Len(Front(s)) = Len(s) - 1
<1>1. Len(s) \in Nat /\ Len(s) # 0
  OBVIOUS
<1>2. Front(s) \in Seq(E) /\ Len(Front(s)) = Len(s) - 1 /\ Last(s) \in E
  <2> DEFINE n == Len(s) - 1
  <2>1. n \in Nat /\ n <= Len(s)
    BY <1>1
  <2>2. \A k \in 1..n : s[k] \in E
    BY <1>1
  <2> HIDE DEF n
  <2>3. SubSeq(s, 1, n) \in Seq(E) /\ Len(SubSeq(s, 1, n)) = n
    BY <2>1, <2>2
  <2>4. Last(s) \in E
    BY <1>1 DEF Last
  <2> QED
    BY <2>3, <2>4 DEF n, Front
<1>3. \A k \in 1..(Len(s) - 1) : Front(s)[k] = s[k]
  BY <1>1 DEF Front
<1>4. s = Append(Front(s), Last(s))
  BY <1>1, <1>2, <1>3 DEF Last
<1> QED
  BY <1>1, <1>2, <1>4

LEMMA OfAppend ==
  ASSUME NEW E, NEW s \in Seq(E), NEW e \in E
  PROVE  /\ Append(s, e) \in Seq(E) /\ Append(s, e) # <<>> /\ Len(Append(s, e)) = Len(s) + 1
         /\ Front(Append(s, e)) = s /\ Last(Append(s, e)) = e
BY DEF Front, Last

\* What holds of the empty one and is kept by one more element holds of all.
LEMMA AllSequences ==
  ASSUME NEW E, NEW T, <<>> \in T, \A s \in Seq(E), e \in E : s \in T => Append(s, e) \in T
  PROVE  \A s \in Seq(E) : s \in T
<1> DEFINE N == {n \in Nat : \A s \in Seq(E) : Len(s) = n => s \in T}
<1>1. 0 \in N
  <2>1. \A s \in Seq(E) : Len(s) = 0 => s = <<>>
    OBVIOUS
  <2> QED
    BY <2>1
<1>2. ASSUME NEW n \in Nat, n \in N PROVE n + 1 \in N
  <2>1. ASSUME NEW s \in Seq(E), Len(s) = n + 1 PROVE s \in T
    <3>1. s # <<>>
      BY <2>1
    <3>2. /\ Front(s) \in Seq(E) /\ Last(s) \in E /\ s = Append(Front(s), Last(s))
          /\ Len(Front(s)) = Len(s) - 1
      BY <3>1, FrontLast
    <3>3. Len(Front(s)) = n
      BY <2>1, <3>2
    <3>4. Front(s) \in T
      BY <1>2, <3>2, <3>3
    <3> QED
      BY <3>2, <3>4
  <2>2. n + 1 \in Nat
    OBVIOUS
  <2> QED
    BY <2>1, <2>2
<1> HIDE DEF N
<1>3. \A n \in Nat : n \in N
  BY <1>1, <1>2, AllNaturals
<1>4. \A s \in Seq(E) : Len(s) \in Nat
  OBVIOUS
<1> QED
  BY <1>3, <1>4 DEF N
-----------------------------------------------------------------------------
(***************************************************************************)
(* Enter, of the components a separator follows.                           *)
(***************************************************************************)
Entries(S) == [name : Seq(S), keep : BOOLEAN]

LEMMA WithoutLastDotIs ==
  ASSUME NEW S, NEW n \in Seq(S)
  PROVE  WithoutLastDot(n) \in Seq(S) /\ Len(WithoutLastDot(n)) <= Len(n)
BY FrontLast DEF WithoutLastDot

LEMMA PopIs ==
  ASSUME NEW E, NEW stack \in Seq(E)
  PROVE  Pop(stack) \in Seq(E)
BY FrontLast DEF Pop

LEMMA EnterKeptType ==
  ASSUME NEW S, NEW stack \in Seq(Seq(S)), NEW e \in Entries(S)
  PROVE  EnterKept(stack, e) \in Seq(Seq(S))
<1>1. e.name \in Seq(S) /\ WithoutLastDot(e.name) \in Seq(S)
  BY WithoutLastDotIs DEF Entries
<1>2. Append(stack, WithoutLastDot(e.name)) \in Seq(Seq(S))
  BY <1>1
<1> QED
  BY <1>2, PopIs DEF EnterKept, Enter

\* EnterAll enters one component after the other.
LEMMA EnterAllIs ==
  ASSUME NEW S
  PROVE  /\ EnterAll(<<>>) = <<>>
         /\ \A s \in Seq(Entries(S)) : EnterAll(s) \in Seq(Seq(S))
         /\ \A s \in Seq(Entries(S)), e \in Entries(S) : EnterAll(Append(s, e)) = EnterKept(EnterAll(s), e)
<1> DEFINE V == Seq(Seq(S))
           E == Entries(S)
           step == [x \in V \X E |-> EnterKept(x[1], x[2])]
           base == <<>>
           Run(it, s) == [t \in SUBSET (DOMAIN s) |->
                            IF t = {} THEN base ELSE EnterKept(it[t \ {Max(t)}], s[Max(t)])]
           f(s) == CHOOSE it : it = Run(it, s)
<1>1. \A v \in V, e \in E : step[<<v, e>>] = EnterKept(v, e) /\ step[<<v, e>>] \in V
  BY EnterKeptType
<1>2. step \in Steps(V, E)
  BY EnterKeptType DEF Steps
<1>3. base \in V
  OBVIOUS
<1>4. \A s : EnterAll(s) = f(s)[DOMAIN s]
  BY DEF EnterAll, FoldLeft, MapThenFoldSet
<1> HIDE DEF step, base, V, E
<1>5. ASSUME NEW s \in Seq(E)
      PROVE  RunsIn(f(s), V, step, base, s) /\ EnterAll(s) = f(s)[1..Len(s)]
  <2>1. DOMAIN s = 1..Len(s)
    OBVIOUS
  <2>2. ASSUME NEW t \in SUBSET (1..Len(s)), t # {}
        PROVE  t \ {Max(t)} \in SUBSET (1..Len(s)) /\ s[Max(t)] \in E
    BY <2>2, MaxBelow
  <2>3. PICK it \in Runs(V, Len(s)) : IsRun(it, step, base, s)
    BY <1>2, <1>3, RunExists, Zenon
  <2>4. it = Run(it, s)
    BY <1>1, <2>1, <2>2, <2>3 DEF Runs, IsRun
  <2>5. f(s) = Run(f(s), s)
    <3> HIDE DEF Run
    <3> QED
      BY <2>4
  <2> HIDE DEF f
  <2>6. RunsIn(f(s), V, step, base, s)
    BY <1>1, <2>1, <2>2, <2>5, ZenonT(60) DEF RunsIn
  <2> QED
    BY <1>4, <2>1, <2>6
<1> HIDE DEF f
<1>6. ASSUME NEW s \in Seq(E)
      PROVE  EnterAll(s) \in V /\ (s = <<>> => EnterAll(s) = base)
  <2>1. GoesForward(f(s), V, step, base, s)
    BY <1>2, <1>3, <1>5, RunForward, Zenon
  <2> QED
    BY <1>5, <2>1 DEF GoesForward
<1>7. ASSUME NEW s \in Seq(E), NEW e \in E
      PROVE  EnterAll(Append(s, e)) = EnterKept(EnterAll(s), e)
  <2>1. Append(s, e) \in Seq(E)
    OBVIOUS
  <2>2. EnterAll(Append(s, e)) = step[<<EnterAll(s), e>>]
    <3>1. RunsIn(f(s), V, step, base, s) /\ RunsIn(f(Append(s, e)), V, step, base, Append(s, e))
      BY <1>5, <2>1
    <3>2. GoesOn(f(s), f(Append(s, e)), step, s, e)
      BY <1>2, <1>3, <3>1, RunLonger, Zenon
    <3> QED
      BY <1>5, <2>1, <3>2 DEF GoesOn
  <2> QED
    BY <1>1, <1>6, <2>2
<1>8. <<>> \in Seq(E)
  OBVIOUS
<1> QED
  BY <1>6, <1>7, <1>8 DEF V, E, base
-----------------------------------------------------------------------------
(***************************************************************************)
(* The path made of names, and its length.                                 *)
(***************************************************************************)
LEMMA DirectoriesAppend ==
  ASSUME NEW S, BackSlash \in S, NEW names \in Seq(Seq(S)), NEW n \in Seq(S)
  PROVE  /\ Directories(names) \in Seq(S) /\ Directories(Append(names, n)) \in Seq(S)
         /\ Directories(Append(names, n)) = Directories(names) \o n \o <<BackSlash>>
         /\ Len(Directories(Append(names, n))) = Len(Directories(names)) + Len(n) + 1
<1>1. Directories(names) \in Seq(S)
  BY DirectoriesIs
<1>2. Directories(Append(names, n)) = Directories(names) \o n \o <<BackSlash>>
  BY DirectoriesIs DEF AddDirectory
<1> DEFINE d == Directories(names)
<1> HIDE DEF d
<1>3. d \in Seq(S) => /\ d \o n \o <<BackSlash>> \in Seq(S)
                      /\ Len(d \o n \o <<BackSlash>>) = Len(d) + Len(n) + 1
  OBVIOUS
<1> QED
  BY <1>1, <1>2, <1>3 DEF d

LEMMA PopShorter ==
  ASSUME NEW S, BackSlash \in S, NEW stack \in Seq(Seq(S))
  PROVE  Len(Directories(Pop(stack))) <= Len(Directories(stack))
<1>1. CASE stack = <<>>
  BY <1>1, DirectoriesIs DEF Pop
<1>2. CASE stack # <<>>
  <2>1. /\ Front(stack) \in Seq(Seq(S)) /\ Last(stack) \in Seq(S)
        /\ stack = Append(Front(stack), Last(stack))
    BY <1>2, FrontLast
  <2>2. /\ Directories(Front(stack)) \in Seq(S)
        /\ Len(Directories(stack)) = Len(Directories(Front(stack))) + Len(Last(stack)) + 1
    BY <2>1, DirectoriesAppend
  <2>3. Pop(stack) = Front(stack)
    BY <1>2 DEF Pop
  <2> QED
    BY <2>1, <2>2, <2>3
<1> QED
  BY <1>1, <1>2

LEMMA JoinAppend ==
  ASSUME NEW S, NEW names \in Seq(Seq(S)), NEW n \in Seq(S)
  PROVE  Join(Append(names, n)) = Directories(names) \o n
BY OfAppend DEF Join

LEMMA JoinIs ==
  ASSUME NEW S, BackSlash \in S, NEW names \in Seq(Seq(S))
  PROVE  Join(names) \in Seq(S) /\ Len(Join(names)) <= Len(Directories(names))
<1>1. CASE names = <<>>
  BY <1>1, DirectoriesIs DEF Join
<1>2. CASE names # <<>>
  <2>1. /\ Front(names) \in Seq(Seq(S)) /\ Last(names) \in Seq(S)
        /\ names = Append(Front(names), Last(names))
    BY <1>2, FrontLast
  <2>2. /\ Directories(Front(names)) \in Seq(S)
        /\ Len(Directories(names)) = Len(Directories(Front(names))) + Len(Last(names)) + 1
    BY <2>1, DirectoriesAppend
  <2>3. Join(names) = Directories(Front(names)) \o Last(names)
    BY <1>2 DEF Join
  <2> DEFINE d == Directories(Front(names))
             n == Last(names)
  <2> HIDE DEF d, n
  <2>4. d \in Seq(S) /\ n \in Seq(S) => d \o n \in Seq(S) /\ Len(d \o n) <= Len(d) + Len(n) + 1
    OBVIOUS
  <2> QED
    BY <2>1, <2>2, <2>3, <2>4 DEF d, n
<1> QED
  BY <1>1, <1>2

LEMMA AddCharIs ==
  ASSUME NEW S, NEW names \in Seq(Seq(S)), NEW n \in Seq(S), NEW c \in S
  PROVE  AddChar(Append(names, n), c)
           = IF c = BackSlash THEN Append(Append(names, n), <<>>)
             ELSE Append(names, Append(n, c))
<1> DEFINE both == Append(names, n)
           more == [both EXCEPT ![Len(both)] = Append(@, c)]
<1>1. /\ both \in Seq(Seq(S)) /\ Len(both) = Len(names) + 1 /\ both[Len(both)] = n
      /\ \A k \in 1..Len(names) : both[k] = names[k]
  OBVIOUS
<1>2. AddChar(both, c) = IF c = BackSlash THEN Append(both, <<>>) ELSE more
  BY DEF AddChar
<1> HIDE DEF both
<1>3. Append(n, c) \in Seq(S)
  OBVIOUS
<1>4. /\ more \in Seq(Seq(S)) /\ Len(more) = Len(names) + 1
      /\ more[Len(names) + 1] = Append(n, c)
      /\ \A k \in 1..Len(names) : more[k] = names[k]
  BY <1>1, <1>3
<1> HIDE DEF more
<1>5. more = Append(names, Append(n, c))
  BY <1>3, <1>4
<1> QED
  BY <1>2, <1>5 DEF both

\* Split takes apart what Join puts together.
LEMMA JoinSplit ==
  ASSUME NEW S, BackSlash \in S, NEW s \in Seq(S)
  PROVE  Join(Split(s)) = s
<1> DEFINE T == {t \in Seq(S) : Join(Split(t)) = t}
<1>1. <<>> \in T
  <2>1. Join(Append(<<>>, <<>>)) = Directories(<<>>) \o <<>>
    <3>1. <<>> \in Seq(Seq(S)) /\ <<>> \in Seq(S)
      OBVIOUS
    <3> QED
      BY <3>1, JoinAppend
  <2>2. Append(<<>>, <<>>) = << <<>> >> /\ <<>> \o <<>> = <<>> /\ <<>> \in Seq(S)
    OBVIOUS
  <2> QED
    BY <2>1, <2>2, SplitIs, DirectoriesIs
<1>2. ASSUME NEW t \in Seq(S), NEW c \in S, t \in T PROVE Append(t, c) \in T
  <2>1. Split(t) \in Seq(Seq(S)) /\ Split(t) # <<>>
    BY SplitIs DEF Lists
  <2> DEFINE f == Front(Split(t))
             l == Last(Split(t))
             d == Directories(f)
  <2>2. f \in Seq(Seq(S)) /\ l \in Seq(S) /\ Split(t) = Append(f, l)
    BY <2>1, FrontLast
  <2> HIDE DEF f, l
  <2>3. d \in Seq(S) /\ t = d \o l
    BY <1>2, <2>2, JoinAppend, DirectoriesAppend
  <2>4. Split(Append(t, c)) = AddChar(Append(f, l), c)
    BY <2>2, SplitIs
  <2>5. CASE c = BackSlash
    <3>1. Split(Append(t, c)) = Append(Append(f, l), <<>>)
      BY <2>2, <2>4, <2>5, AddCharIs
    <3>2. Append(f, l) \in Seq(Seq(S)) /\ <<>> \in Seq(S)
      BY <2>2
    <3>3. Join(Split(Append(t, c))) = Directories(Append(f, l)) \o <<>>
      BY <3>1, <3>2, JoinAppend
    <3>4. Directories(Append(f, l)) = d \o l \o <<BackSlash>>
      BY <2>2, DirectoriesAppend
    <3> HIDE DEF d
    <3>5. (d \o l \o <<BackSlash>>) \o <<>> = Append(d \o l, c)
      BY <2>2, <2>3, <2>5
    <3> QED
      BY <2>3, <3>3, <3>4, <3>5
  <2>6. CASE c # BackSlash
    <3>1. Split(Append(t, c)) = Append(f, Append(l, c)) /\ Append(l, c) \in Seq(S)
      BY <2>2, <2>4, <2>6, AddCharIs
    <3>2. Join(Split(Append(t, c))) = d \o Append(l, c)
      BY <2>2, <3>1, JoinAppend
    <3> HIDE DEF d
    <3>3. d \o Append(l, c) = Append(d \o l, c)
      BY <2>2, <2>3
    <3> QED
      BY <2>3, <3>2, <3>3
  <2> QED
    BY <2>5, <2>6
<1> HIDE DEF T
<1>3. \A t \in Seq(S) : t \in T
  BY <1>1, <1>2, AllSequences
<1> QED
  BY <1>3 DEF T
-----------------------------------------------------------------------------
(***************************************************************************)
(* No component that is entered makes the path longer than it was.         *)
(***************************************************************************)
NamesOf(entries) == [i \in DOMAIN entries |-> entries[i].name]

LEMMA NamesOfAppend ==
  ASSUME NEW S, NEW entries \in Seq(Entries(S)), NEW e \in Entries(S)
  PROVE  /\ NamesOf(entries) \in Seq(Seq(S)) /\ e.name \in Seq(S)
         /\ NamesOf(Append(entries, e)) = Append(NamesOf(entries), e.name)
<1> DEFINE both == Append(entries, e)
           a == NamesOf(entries)
           b == NamesOf(both)
<1>1. /\ both \in Seq(Entries(S)) /\ Len(both) = Len(entries) + 1 /\ both[Len(both)] = e
      /\ \A k \in 1..Len(entries) : both[k] = entries[k]
  OBVIOUS
<1>0. \A x \in Entries(S) : x.name \in Seq(S)
  BY DEF Entries
<1>2. e.name \in Seq(S) /\ \A k \in 1..Len(entries) : entries[k].name \in Seq(S)
  BY <1>0
<1>3. a \in Seq(Seq(S)) /\ Len(a) = Len(entries) /\ \A k \in 1..Len(entries) : a[k] = entries[k].name
  BY <1>2 DEF NamesOf
<1> HIDE DEF both
<1>4. \A k \in 1..Len(both) : both[k].name \in Seq(S)
  BY <1>0, <1>1
<1>5. b \in Seq(Seq(S)) /\ Len(b) = Len(both) /\ \A k \in 1..Len(both) : b[k] = both[k].name
  BY <1>1, <1>4 DEF NamesOf
<1> HIDE DEF a, b
<1>6. b = Append(a, e.name)
  <2> DEFINE c == Append(a, e.name)
  <2>1. /\ c \in Seq(Seq(S)) /\ Len(c) = Len(a) + 1 /\ c[Len(a) + 1] = e.name
        /\ \A k \in 1..Len(a) : c[k] = a[k]
    BY <1>2, <1>3
  <2>2. Len(b) = Len(a) + 1 /\ Len(a) \in Nat
    BY <1>1, <1>3, <1>5
  <2> HIDE DEF c
  <2>3. \A k \in 1..Len(b) : b[k] = c[k]
    <3>1. b[Len(a) + 1] = e.name
      BY <1>1, <1>3, <1>5, <2>2
    <3>2. ASSUME NEW k \in 1..Len(a) PROVE b[k] = a[k]
      <4>1. k \in 1..Len(both) /\ k \in 1..Len(entries)
        BY <1>1, <1>3
      <4>2. b[k] = both[k].name /\ both[k] = entries[k] /\ a[k] = entries[k].name
        BY <1>1, <1>3, <1>5, <4>1, Zenon
      <4> QED
        BY <4>2
    <3>3. \A k \in 1..Len(b) : k = Len(a) + 1 \/ k \in 1..Len(a)
      BY <2>2
    <3> QED
      BY <2>1, <3>1, <3>2, <3>3, Zenon
  <2>4. b = c
    BY <1>5, <2>1, <2>2, <2>3
  <2> QED
    BY <2>4 DEF c
<1> QED
  BY <1>2, <1>3, <1>6 DEF a, b, both

LEMMA EnterLonger ==
  ASSUME NEW S, BackSlash \in S, NEW stack \in Seq(Seq(S)), NEW e \in Entries(S)
  PROVE  Len(Directories(EnterKept(stack, e))) <= Len(Directories(stack)) + Len(e.name) + 1
<1>1. /\ e.name \in Seq(S) /\ WithoutLastDot(e.name) \in Seq(S)
      /\ Len(WithoutLastDot(e.name)) <= Len(e.name)
  BY WithoutLastDotIs DEF Entries
<1>2. /\ Directories(stack) \in Seq(S)
      /\ Len(Directories(Append(stack, WithoutLastDot(e.name))))
           = Len(Directories(stack)) + Len(WithoutLastDot(e.name)) + 1
  BY <1>1, DirectoriesAppend
<1>3. Len(Directories(Pop(stack))) <= Len(Directories(stack))
  BY PopShorter
<1>4. Pop(stack) \in Seq(Seq(S)) /\ Directories(Pop(stack)) \in Seq(S)
  BY PopIs, DirectoriesIs
<1>5. EnterKept(stack, e) \in {stack, Pop(stack), Append(stack, WithoutLastDot(e.name))}
  BY DEF EnterKept, Enter
<1>6. CASE EnterKept(stack, e) = stack
  BY <1>1, <1>2, <1>6
<1>7. CASE EnterKept(stack, e) = Pop(stack)
  BY <1>1, <1>2, <1>3, <1>4, <1>7
<1>8. CASE EnterKept(stack, e) = Append(stack, WithoutLastDot(e.name))
  BY <1>1, <1>2, <1>8
<1> QED
  BY <1>5, <1>6, <1>7, <1>8

LEMMA EnterAllShorter ==
  ASSUME NEW S, BackSlash \in S, NEW entries \in Seq(Entries(S))
  PROVE  Len(Directories(EnterAll(entries))) <= Len(Directories(NamesOf(entries)))
<1> DEFINE T == {r \in Seq(Entries(S)) :
                   Len(Directories(EnterAll(r))) <= Len(Directories(NamesOf(r)))}
<1>1. <<>> \in T
  <2>1. NamesOf(<<>>) = <<>>
    BY DEF NamesOf
  <2> QED
    BY <2>1, EnterAllIs, DirectoriesIs
<1>2. ASSUME NEW r \in Seq(Entries(S)), NEW e \in Entries(S), r \in T PROVE Append(r, e) \in T
  <2>1. EnterAll(r) \in Seq(Seq(S)) /\ EnterAll(Append(r, e)) = EnterKept(EnterAll(r), e)
    BY EnterAllIs
  <2>2. Len(Directories(EnterKept(EnterAll(r), e)))
          <= Len(Directories(EnterAll(r))) + Len(e.name) + 1
    BY <2>1, EnterLonger
  <2>3. /\ NamesOf(r) \in Seq(Seq(S)) /\ e.name \in Seq(S)
        /\ NamesOf(Append(r, e)) = Append(NamesOf(r), e.name)
    BY NamesOfAppend
  <2>4. /\ Directories(NamesOf(r)) \in Seq(S)
        /\ Len(Directories(NamesOf(Append(r, e)))) = Len(Directories(NamesOf(r))) + Len(e.name) + 1
    BY <2>3, DirectoriesAppend
  <2>5. /\ Directories(EnterAll(r)) \in Seq(S)
        /\ EnterKept(EnterAll(r), e) \in Seq(Seq(S))
        /\ Directories(EnterKept(EnterAll(r), e)) \in Seq(S)
    BY <2>1, EnterKeptType, DirectoriesIs
  <2>6. Len(Directories(EnterAll(Append(r, e)))) <= Len(Directories(NamesOf(Append(r, e))))
    BY <1>2, <2>1, <2>2, <2>3, <2>4, <2>5
  <2> QED
    BY <2>6
<1> HIDE DEF T
<1>3. \A r \in Seq(Entries(S)) : r \in T
  BY <1>1, <1>2, AllSequences
<1> QED
  BY <1>3 DEF T

LEMMA NamesIs ==
  ASSUME NEW S, BackSlash \in S, NEW marked, NEW rest \in Seq(S)
  PROVE  /\ Components(marked, rest) \in Seq(Entries(S)) /\ Components(marked, rest) # <<>>
         /\ NamesOf(Components(marked, rest)) = Split(rest)
<1> DEFINE all == Split(rest)
           names == Components(marked, rest)
           Keep(i) == \/ i = Len(all)
                      \/ i = 1 /\ ~(marked # <<>> /\ Last(marked) = BackSlash)
                      \/ all[i] # <<>>
<1>1. all \in Seq(Seq(S)) /\ Len(all) \in Nat \ {0}
  BY SplitIs DEF Lists
<1>2. names = [i \in DOMAIN all |-> [name |-> all[i], keep |-> Keep(i)]]
  BY DEF Components
<1>3. \A i : Keep(i) \in BOOLEAN
  OBVIOUS
<1> HIDE DEF all, Keep, names
<1>4. \A i \in 1..Len(all) : [name |-> all[i], keep |-> Keep(i)] \in Entries(S)
  BY <1>1, <1>3 DEF Entries
<1>5. names \in Seq(Entries(S)) /\ Len(names) = Len(all)
  <2>1. names \in [1..Len(all) -> Entries(S)]
    BY <1>1, <1>2, <1>4
  <2>2. \A k \in Nat : \A f \in [1..k -> Entries(S)] : f \in Seq(Entries(S)) /\ Len(f) = k
    OBVIOUS
  <2>3. Len(all) \in Nat
    BY <1>1
  <2> QED
    BY <2>1, <2>2, <2>3, Zenon
<1>6. names # <<>>
  BY <1>1, <1>5
<1>7. NamesOf(names) = all
  <2>1. \A i \in 1..Len(all) : names[i].name = all[i]
    BY <1>1, <1>2
  <2>2. NamesOf(names) = [i \in 1..Len(all) |-> names[i].name]
    BY <1>1, <1>2 DEF NamesOf
  <2> QED
    BY <1>1, <2>1, <2>2
<1> QED
  BY <1>5, <1>6, <1>7 DEF all, names

\* The components that are left, and the path made of them.
Done(names) == EnterLast(EnterAll(Front(names)), Last(names).name)

LEMMA DoneIs ==
  ASSUME NEW S, BackSlash \in S, NEW marked, NEW rest \in Seq(S)
  PROVE  /\ Join(Done(Components(marked, rest))) \in Seq(S)
         /\ Len(Join(Done(Components(marked, rest)))) <= Len(rest)
<1> DEFINE names == Components(marked, rest)
           f == Front(names)
           n == Last(names).name
           stack == EnterAll(f)
           done == EnterLast(stack, n)
<1>1. names \in Seq(Entries(S)) /\ names # <<>> /\ NamesOf(names) = Split(rest)
  BY NamesIs
<1>2. Done(names) = done
  BY DEF Done
<1> HIDE DEF names
<1>3. f \in Seq(Entries(S)) /\ Last(names) \in Entries(S) /\ names = Append(f, Last(names))
  BY <1>1, FrontLast
<1> HIDE DEF f
<1>4. /\ NamesOf(f) \in Seq(Seq(S)) /\ n \in Seq(S)
      /\ Split(rest) = Append(NamesOf(f), n)
  BY <1>1, <1>3, NamesOfAppend
<1> HIDE DEF n
<1>5. rest = Directories(NamesOf(f)) \o n /\ Directories(NamesOf(f)) \in Seq(S)
  BY <1>4, JoinSplit, JoinAppend, DirectoriesIs
<1>6. Len(rest) = Len(Directories(NamesOf(f))) + Len(n)
  BY <1>4, <1>5
<1>7. /\ stack \in Seq(Seq(S)) /\ Directories(stack) \in Seq(S)
      /\ Len(Directories(stack)) <= Len(Directories(NamesOf(f)))
  BY <1>3, EnterAllIs, EnterAllShorter, DirectoriesIs
<1> HIDE DEF stack
<1>8. done \in {stack, Pop(stack), Append(stack, n)}
  BY DEF EnterLast
<1> HIDE DEF done
<1>9. CASE done = stack
  <2>1. Join(stack) \in Seq(S) /\ Len(Join(stack)) <= Len(Directories(stack))
    BY <1>7, JoinIs
  <2>2. Len(Join(stack)) <= Len(rest)
    BY <1>4, <1>5, <1>6, <1>7, <2>1
  <2> QED
    BY <1>2, <1>9, <2>1, <2>2 DEF names
<1>10. CASE done = Pop(stack)
  <2>1. Pop(stack) \in Seq(Seq(S))
    BY <1>7, PopIs
  <2>2. /\ Join(done) \in Seq(S) /\ Directories(done) \in Seq(S)
        /\ Len(Join(done)) <= Len(Directories(done))
    BY <1>10, <2>1, JoinIs, DirectoriesIs
  <2>3. Len(Directories(done)) <= Len(Directories(stack))
    BY <1>7, <1>10, PopShorter
  <2>4. Len(Join(done)) <= Len(rest)
    BY <1>4, <1>5, <1>6, <1>7, <2>2, <2>3
  <2> QED
    BY <1>2, <2>2, <2>4 DEF names
<1>11. CASE done = Append(stack, n)
  <2>1. Join(done) = Directories(stack) \o n
    BY <1>4, <1>7, <1>11, JoinAppend
  <2> DEFINE d == Directories(stack)
  <2>2. d \in Seq(S) /\ n \in Seq(S) => d \o n \in Seq(S) /\ Len(d \o n) = Len(d) + Len(n)
    OBVIOUS
  <2>3. Join(done) \in Seq(S) /\ Len(Join(done)) = Len(d) + Len(n)
    BY <1>4, <1>7, <2>1, <2>2
  <2>4. Len(Join(done)) <= Len(rest)
    BY <1>4, <1>5, <1>6, <1>7, <2>3
  <2> QED
    BY <1>2, <2>3, <2>4 DEF names
<1> QED
  BY <1>8, <1>9, <1>10, <1>11

\* Trimmed keeps up to the last character that is none of those trimmed.
LEMMA TrimmedIs ==
  ASSUME NEW S, NEW s \in Seq(S), NEW T, NEW floor \in 0..Len(s)
  PROVE  \E n \in floor..Len(s) :
           /\ Trimmed(s, T, floor) = SubSeq(s, 1, n)
           /\ SubSeq(s, 1, n) \in Seq(S) /\ Len(SubSeq(s, 1, n)) = n
           /\ n = floor \/ s[n] \notin T
           /\ \A i \in (n + 1)..Len(s) : s[i] \in T
<1> DEFINE N == {n \in floor..Len(s) : \A i \in (n + 1)..Len(s) : s[i] \in T}
<1>1. N \in SUBSET Nat /\ Len(s) \in N
  OBVIOUS
<1>2. PICK n \in N : \A k \in N : n <= k
  BY <1>1, FirstNatural, Zenon
<1>3. n = floor \/ s[n] \notin T
  <2> SUFFICES ASSUME n # floor, s[n] \in T PROVE FALSE
    OBVIOUS
  <2>1. n - 1 \in floor..Len(s) /\ n \in Nat
    OBVIOUS
  <2>2. \A i \in ((n - 1) + 1)..Len(s) : i = n \/ i \in (n + 1)..Len(s)
    OBVIOUS
  <2>3. n - 1 \in N
    BY <2>1, <2>2
  <2>4. n <= n - 1
    BY <1>2, <2>3
  <2> QED
    BY <2>1, <2>4
<1> DEFINE Cut(k) == (k = floor \/ s[k] \notin T) /\ \A i \in (k + 1)..Len(s) : s[i] \in T
           m == CHOOSE k \in floor..Len(s) : Cut(k)
<1>4. m \in floor..Len(s) /\ Cut(m)
  BY <1>2, <1>3
<1>5. Trimmed(s, T, floor) = SubSeq(s, 1, m)
  BY DEF Trimmed
<1> HIDE DEF m
<1>6. SubSeq(s, 1, m) \in Seq(S) /\ Len(SubSeq(s, 1, m)) = m
  <2>1. m \in Nat /\ m <= Len(s) /\ \A k \in 1..m : s[k] \in S
    BY <1>4
  <2> QED
    BY <2>1
<1> QED
  BY <1>4, <1>5, <1>6

LEMMA ConvertedIs ==
  ASSUME NEW S, BackSlash \in S, NEW s \in Seq(S)
  PROVE  /\ Converted(s) \in Seq(S) /\ Len(Converted(s)) = Len(s)
         /\ \A i \in 1..Len(s) : IS_PATH_SEPARATOR(s[i]) => Converted(s)[i] = BackSlash
BY DEF Converted, IS_PATH_SEPARATOR

(***************************************************************************)
(* The collapsed path is cut, in front of spaces and dots, from one that   *)
(* is no longer than the path it is made of and starts with its marked     *)
(* part.                                                                   *)
(***************************************************************************)
CutFrom(S, text, m, full, kept, n) ==
  /\ kept \in Seq(S) /\ Len(kept) \in m..Len(text)
  /\ \A i \in 1..m : kept[i] = Converted(text)[i]
  /\ n \in 0..Len(kept) /\ full = SubSeq(kept, 1, n) /\ full \in Seq(S) /\ Len(full) = n
  /\ n = 0 \/ kept[n] \notin {Space, Dot}
  /\ \A i \in (n + 1)..Len(kept) : kept[i] \in {Space, Dot}

LEMMA CollapsedCut ==
  ASSUME NEW S, BackSlash \in S, NEW text \in Seq(S), NEW m \in 0..Len(text), NEW skip
  PROVE  \E kept, n : CutFrom(S, text, m, Collapsed(text, m, skip), kept, n)
<1> DEFINE path == Converted(text)
           marked == SubSeq(path, 1, m)
           rest == SubSeq(path, m + 1, Len(path))
           left == Join(Done(Components(marked, rest)))
           whole == marked \o left
           kept == IF skip THEN Trimmed(whole, {BackSlash}, m) ELSE whole
<1>1. path \in Seq(S) /\ Len(path) = Len(text) /\ Len(text) \in Nat
  BY ConvertedIs
<1>2. Collapsed(text, m, skip) = Trimmed(kept, {Space, Dot}, 0)
  BY DEF Collapsed, Done
<1> HIDE DEF path
<1>3. /\ marked \in Seq(S) /\ Len(marked) = m /\ \A i \in 1..m : marked[i] = path[i]
      /\ rest \in Seq(S) /\ Len(rest) = Len(text) - m
  BY <1>1
<1> HIDE DEF marked, rest
<1>4. left \in Seq(S) /\ Len(left) <= Len(text) - m
  BY <1>3, DoneIs
<1> HIDE DEF left
<1>5. /\ whole \in Seq(S) /\ Len(whole) = m + Len(left) /\ Len(left) \in Nat
      /\ \A i \in 1..m : whole[i] = path[i]
  <2>1. Len(left) \in Nat /\ Len(marked \o left) = Len(marked) + Len(left)
    <3>1. \A a, b \in Seq(S) : Len(b) \in Nat /\ Len(a \o b) = Len(a) + Len(b)
      OBVIOUS
    <3> QED
      BY <1>3, <1>4, <3>1, Zenon
  <2>2. marked \o left \in Seq(S)
    BY <1>3, <1>4
  <2>3. \A i \in 1..m : (marked \o left)[i] = marked[i]
    BY <1>3, <1>4
  <2> QED
    BY <1>3, <2>1, <2>2, <2>3
<1> HIDE DEF whole
<1>6. /\ kept \in Seq(S) /\ Len(kept) \in m..Len(whole)
      /\ \A i \in 1..m : kept[i] = path[i]
  <2>1. CASE ~skip
    BY <1>5, <2>1
  <2>2. CASE skip
    <3>1. m \in 0..Len(whole)
      BY <1>5
    <3>2. PICK n \in m..Len(whole) :
            /\ Trimmed(whole, {BackSlash}, m) = SubSeq(whole, 1, n)
            /\ SubSeq(whole, 1, n) \in Seq(S) /\ Len(SubSeq(whole, 1, n)) = n
            /\ n = m \/ whole[n] \notin {BackSlash}
            /\ \A i \in (n + 1)..Len(whole) : whole[i] \in {BackSlash}
      BY <1>5, <3>1, TrimmedIs, Zenon
    <3>3. \A i \in 1..m : SubSeq(whole, 1, n)[i] = whole[i]
      BY <1>5, <3>1, <3>2
    <3>4. kept = SubSeq(whole, 1, n)
      BY <2>2, <3>2
    <3> QED
      BY <1>5, <3>2, <3>3, <3>4
  <2> QED
    BY <2>1, <2>2
<1> HIDE DEF kept
<1>7. PICK n \in 0..Len(kept) :
        /\ Trimmed(kept, {Space, Dot}, 0) = SubSeq(kept, 1, n)
        /\ SubSeq(kept, 1, n) \in Seq(S) /\ Len(SubSeq(kept, 1, n)) = n
        /\ n = 0 \/ kept[n] \notin {Space, Dot}
        /\ \A i \in (n + 1)..Len(kept) : kept[i] \in {Space, Dot}
  <2>1. 0 \in 0..Len(kept)
    BY <1>6
  <2> QED
    BY <1>6, <2>1, TrimmedIs, Zenon
<1>8. Len(kept) \in m..Len(text)
  BY <1>1, <1>4, <1>5, <1>6
<1>9. CutFrom(S, text, m, Collapsed(text, m, skip), kept, n)
  BY <1>2, <1>6, <1>7, <1>8 DEF CutFrom, path
<1> QED
  BY <1>9

\* Nothing is trimmed from a separator in the marked part, or from what is in front of it.
LEMMA CollapsedIs ==
  ASSUME NEW S, BackSlash \in S, NEW text \in Seq(S), NEW m \in 0..Len(text), NEW skip
  PROVE  /\ Collapsed(text, m, skip) \in Seq(S)
         /\ Len(Collapsed(text, m, skip)) <= Len(text)
         /\ \A i \in 1..m : IS_PATH_SEPARATOR(text[i]) => Len(Collapsed(text, m, skip)) >= i
<1> DEFINE full == Collapsed(text, m, skip)
<1>1. PICK kept, n : CutFrom(S, text, m, full, kept, n)
  BY CollapsedCut, Zenon
<1> HIDE DEF full
<1>2. n \in Nat /\ n <= Len(text) /\ full \in Seq(S) /\ Len(full) = n /\ Len(kept) \in Nat
  BY <1>1 DEF CutFrom
<1>3. ASSUME NEW i \in 1..m, IS_PATH_SEPARATOR(text[i]) PROVE n >= i
  <2>1. Converted(text)[i] = BackSlash /\ kept[i] = Converted(text)[i] /\ i \in 1..Len(kept)
    BY <1>1, <1>3, ConvertedIs DEF CutFrom
  <2>2. BackSlash \notin {Space, Dot}
    BY DEF BackSlash, Space, Dot
  <2> QED
    BY <1>1, <1>2, <2>1, <2>2 DEF CutFrom
<1> QED
  BY <1>2, <1>3 DEF full

LEMMA CollapsedKeeps ==
  ASSUME NEW S, BackSlash \in S, NEW text \in Seq(S), NEW m \in 0..Len(text), NEW skip,
         NEW i \in 1..m, i <= Len(Collapsed(text, m, skip))
  PROVE  Collapsed(text, m, skip)[i] = Converted(text)[i]
<1> DEFINE full == Collapsed(text, m, skip)
<1>1. PICK kept, n : CutFrom(S, text, m, full, kept, n)
  BY CollapsedCut, Zenon
<1>2. i <= Len(full)
  OBVIOUS
<1> HIDE DEF full
<1>3. i \in 1..n /\ n \in 0..Len(kept) /\ full[i] = kept[i]
  BY <1>1, <1>2 DEF CutFrom
<1>4. full[i] = Converted(text)[i]
  BY <1>1, <1>3 DEF CutFrom
<1> QED
  BY <1>4 DEF full

-----------------------------------------------------------------------------
(***************************************************************************)
(* The components of a path while it is read: names, those a separator     *)
(* follows, and the one that goes on.  Those at the indices of K are kept  *)
(* also when they are empty.                                               *)
(***************************************************************************)
PlainNames(S) == {n \in Seq(S) : \A j \in 1..Len(n) : n[j] # BackSlash}

FlaggedName(K, i, n) == [name |-> n, keep |-> i \in K \/ n # <<>>]

Flagged(K, names) == [i \in DOMAIN names |-> FlaggedName(K, i, names[i])]

EnteredNames(names) == EnterAll(Flagged(Nat, names))

AreFlagged(entries, S, K, names) ==
  /\ entries \in Seq(Entries(S)) /\ Len(entries) = Len(names)
  /\ \A i \in 1..Len(names) : entries[i] = FlaggedName(K, i, names[i])

LEMMA FlaggedIs ==
  ASSUME NEW S, NEW K, NEW names \in Seq(Seq(S))
  PROVE  AreFlagged(Flagged(K, names), S, K, names)
<1> DEFINE f == Flagged(K, names)
<1>1. f = [i \in 1..Len(names) |-> FlaggedName(K, i, names[i])]
  BY DEF Flagged
<1>2. \A i \in 1..Len(names) : FlaggedName(K, i, names[i]) \in Entries(S)
  BY DEF FlaggedName, Entries
<1> HIDE DEF f
<1>3. f \in [1..Len(names) -> Entries(S)]
  BY <1>1, <1>2
<1>4. \A k \in Nat : \A g \in [1..k -> Entries(S)] : g \in Seq(Entries(S)) /\ Len(g) = k
  OBVIOUS
<1>5. Len(names) \in Nat
  OBVIOUS
<1>6. f \in Seq(Entries(S)) /\ Len(f) = Len(names)
  BY <1>3, <1>4, <1>5, Zenon
<1>7. \A i \in 1..Len(names) : f[i] = FlaggedName(K, i, names[i])
  BY <1>1
<1> QED
  BY <1>6, <1>7 DEF f, AreFlagged

LEMMA FlaggedAppend ==
  ASSUME NEW S, NEW K, NEW names \in Seq(Seq(S)), NEW n \in Seq(S)
  PROVE  /\ FlaggedName(K, Len(names) + 1, n) \in Entries(S)
         /\ Flagged(K, Append(names, n))
              = Append(Flagged(K, names), FlaggedName(K, Len(names) + 1, n))
<1> DEFINE both == Append(names, n)
           e == FlaggedName(K, Len(names) + 1, n)
           a == Flagged(K, names)
           b == Flagged(K, both)
           c == Append(a, e)
<1>1. /\ both \in Seq(Seq(S)) /\ Len(both) = Len(names) + 1 /\ both[Len(names) + 1] = n
      /\ \A k \in 1..Len(names) : both[k] = names[k]
  OBVIOUS
<1>2. e \in Entries(S)
  BY DEF FlaggedName, Entries
<1>3. /\ a \in Seq(Entries(S)) /\ Len(a) = Len(names)
      /\ \A i \in 1..Len(names) : a[i] = FlaggedName(K, i, names[i])
  <2>1. AreFlagged(a, S, K, names)
    BY FlaggedIs, Zenon
  <2> QED
    BY <2>1, Zenon DEF AreFlagged
<1>4. /\ b \in Seq(Entries(S)) /\ Len(b) = Len(both)
      /\ \A i \in 1..Len(both) : b[i] = FlaggedName(K, i, both[i])
  <2>1. AreFlagged(b, S, K, both)
    BY <1>1, FlaggedIs, Zenon
  <2> QED
    BY <2>1, Zenon DEF AreFlagged
<1>5. Len(names) \in Nat
  OBVIOUS
<1>6. b[Len(names) + 1] = e
  <2>1. Len(names) + 1 \in 1..Len(both)
    BY <1>1, <1>5
  <2>2. b[Len(names) + 1] = FlaggedName(K, Len(names) + 1, both[Len(names) + 1])
    BY <1>4, <2>1, Zenon
  <2> QED
    BY <1>1, <2>2, Zenon
<1>7. \A k \in 1..Len(names) : b[k] = a[k]
  <2> SUFFICES ASSUME NEW k \in 1..Len(names) PROVE b[k] = a[k]
    OBVIOUS
  <2>1. k \in 1..Len(both)
    BY <1>1, <1>5
  <2>2. b[k] = FlaggedName(K, k, both[k]) /\ both[k] = names[k]
    BY <1>1, <1>4, <2>1, Zenon
  <2>3. a[k] = FlaggedName(K, k, names[k])
    BY <1>3, Zenon
  <2> QED
    BY <2>2, <2>3, Zenon
<1> HIDE DEF e, a, b, both
<1>8. /\ c \in Seq(Entries(S)) /\ Len(c) = Len(names) + 1 /\ c[Len(names) + 1] = e
      /\ \A k \in 1..Len(names) : c[k] = a[k]
  BY <1>2, <1>3
<1> HIDE DEF c
<1>9. \A k \in 1..Len(b) : b[k] = c[k]
  <2>1. \A k \in 1..Len(b) : k = Len(names) + 1 \/ k \in 1..Len(names)
    BY <1>1, <1>4, <1>5
  <2> QED
    BY <1>6, <1>7, <1>8, <2>1, Zenon
<1>10. b = c
  BY <1>1, <1>4, <1>8, <1>9
<1> QED
  BY <1>2, <1>10 DEF e, a, b, c, both

LEMMA EnteredIs ==
  ASSUME NEW S
  PROVE  /\ EnteredNames(<<>>) = <<>>
         /\ \A names \in Seq(Seq(S)) : EnteredNames(names) \in Seq(Seq(S))
         /\ \A names \in Seq(Seq(S)), n \in Seq(S) : EnteredNames(Append(names, n)) = Enter(EnteredNames(names), n)
<1>1. EnteredNames(<<>>) = <<>>
  <2>1. Flagged(Nat, <<>>) = <<>>
    BY DEF Flagged
  <2> QED
    BY <2>1, EnterAllIs DEF EnteredNames
<1>2. ASSUME NEW names \in Seq(Seq(S)) PROVE EnteredNames(names) \in Seq(Seq(S))
  <2>1. Flagged(Nat, names) \in Seq(Entries(S))
    BY FlaggedIs, Zenon DEF AreFlagged
  <2> QED
    BY <2>1, EnterAllIs, Zenon DEF EnteredNames
<1>3. ASSUME NEW names \in Seq(Seq(S)), NEW n \in Seq(S)
      PROVE  EnteredNames(Append(names, n)) = Enter(EnteredNames(names), n)
  <2> DEFINE e == FlaggedName(Nat, Len(names) + 1, n)
  <2>1. Flagged(Nat, names) \in Seq(Entries(S))
    BY FlaggedIs, Zenon DEF AreFlagged
  <2>2. e \in Entries(S) /\ Flagged(Nat, Append(names, n)) = Append(Flagged(Nat, names), e)
    BY FlaggedAppend
  <2>3. EnterAll(Append(Flagged(Nat, names), e)) = EnterKept(EnterAll(Flagged(Nat, names)), e)
    BY <2>1, <2>2, EnterAllIs, Zenon
  <2>4. e.name = n /\ e.keep
    <3>1. Len(names) + 1 \in Nat
      OBVIOUS
    <3> QED
      BY <3>1 DEF FlaggedName
  <2> HIDE DEF e
  <2> QED
    BY <2>2, <2>3, <2>4 DEF EnteredNames, EnterKept
<1> QED
  BY <1>1, <1>2, <1>3

(***************************************************************************)
(* The path a has the components names, each with a separator behind it,   *)
(* and goes on with l.                                                     *)
(***************************************************************************)
Reads(S, a, names, l) ==
  /\ a \in Seq(S) /\ names \in Seq(Seq(S)) /\ l \in Seq(S)
  /\ Split(a) = Append(names, l)

LEMMA ReadsNothing ==
  ASSUME NEW S
  PROVE  Reads(S, <<>>, <<>>, <<>>)
<1>1. Append(<<>>, <<>>) = << <<>> >>
  OBVIOUS
<1> QED
  BY <1>1, SplitIs DEF Reads

LEMMA ReadsChar ==
  ASSUME NEW S, NEW a, NEW names, NEW l, Reads(S, a, names, l), NEW c \in S, c # BackSlash
  PROVE  Reads(S, Append(a, c), names, Append(l, c))
<1>1. a \in Seq(S) /\ names \in Seq(Seq(S)) /\ l \in Seq(S) /\ Split(a) = Append(names, l)
  BY DEF Reads
<1>2. Split(Append(a, c)) = AddChar(Append(names, l), c)
  BY <1>1, SplitIs
<1>3. AddChar(Append(names, l), c) = Append(names, Append(l, c))
  BY <1>1, AddCharIs
<1>4. Append(a, c) \in Seq(S) /\ Append(l, c) \in Seq(S)
  BY <1>1
<1> QED
  BY <1>1, <1>2, <1>3, <1>4, Zenon DEF Reads

LEMMA ReadsSeparator ==
  ASSUME NEW S, BackSlash \in S, NEW a, NEW names, NEW l, Reads(S, a, names, l)
  PROVE  Reads(S, Append(a, BackSlash), Append(names, l), <<>>)
<1>1. a \in Seq(S) /\ names \in Seq(Seq(S)) /\ l \in Seq(S) /\ Split(a) = Append(names, l)
  BY DEF Reads
<1>2. Split(Append(a, BackSlash)) = AddChar(Append(names, l), BackSlash)
  BY <1>1, SplitIs
<1>3. AddChar(Append(names, l), BackSlash) = Append(Append(names, l), <<>>)
  BY <1>1, AddCharIs
<1>4. Append(a, BackSlash) \in Seq(S) /\ Append(names, l) \in Seq(Seq(S)) /\ <<>> \in Seq(S)
  BY <1>1
<1> QED
  BY <1>2, <1>3, <1>4, Zenon DEF Reads

LEMMA ReadsName ==
  ASSUME NEW S, NEW a, NEW names, Reads(S, a, names, <<>>), NEW n \in PlainNames(S)
  PROVE  Reads(S, a \o n, names, n)
<1> DEFINE T == {t \in Seq(S) : t \in PlainNames(S) => Reads(S, a \o t, names, t)}
<1>1. <<>> \in T
  <2>1. <<>> \in Seq(S) /\ a \o <<>> = a
    BY DEF Reads
  <2> QED
    BY <2>1
<1>2. ASSUME NEW t \in Seq(S), NEW c \in S, t \in T PROVE Append(t, c) \in T
  <2> SUFFICES ASSUME Append(t, c) \in PlainNames(S)
               PROVE  Reads(S, a \o Append(t, c), names, Append(t, c))
    OBVIOUS
  <2> HIDE DEF T
  <2>1. t \in PlainNames(S) /\ c # BackSlash
    <3>1. /\ Len(Append(t, c)) = Len(t) + 1 /\ Append(t, c)[Len(t) + 1] = c
          /\ \A j \in 1..Len(t) : Append(t, c)[j] = t[j] /\ j \in 1..(Len(t) + 1)
          /\ Len(t) + 1 \in 1..(Len(t) + 1)
      OBVIOUS
    <3> QED
      BY <3>1 DEF PlainNames
  <2>2. Reads(S, a \o t, names, t)
    BY <1>2, <2>1 DEF T
  <2>3. Reads(S, Append(a \o t, c), names, Append(t, c))
    BY <2>1, <2>2, ReadsChar, Zenon
  <2>4. a \o Append(t, c) = Append(a \o t, c)
    BY DEF Reads
  <2> QED
    BY <2>3, <2>4
<1> HIDE DEF T
<1>3. \A t \in Seq(S) : t \in T
  BY <1>1, <1>2, AllSequences
<1>4. n \in T
  BY <1>3 DEF PlainNames
<1> QED
  BY <1>4 DEF T

LEMMA ReadsDirectory ==
  ASSUME NEW S, BackSlash \in S, NEW a, NEW names, Reads(S, a, names, <<>>), NEW n \in PlainNames(S)
  PROVE  Reads(S, (a \o n) \o <<BackSlash>>, Append(names, n), <<>>)
<1>1. Reads(S, a \o n, names, n)
  BY ReadsName, Zenon
<1>2. Reads(S, Append(a \o n, BackSlash), Append(names, n), <<>>)
  BY <1>1, ReadsSeparator, Zenon
<1>3. Append(a \o n, BackSlash) = (a \o n) \o <<BackSlash>>
  BY <1>1 DEF Reads
<1> QED
  BY <1>2, <1>3

(***************************************************************************)
(* The names of a path as Components flags them: an empty one is kept in   *)
(* front only, when nothing marked ends in a separator there.              *)
(***************************************************************************)
FirstKept(marked) == IF marked # <<>> /\ Last(marked) = BackSlash THEN {} ELSE {1}

LEMMA DoneOf ==
  ASSUME NEW S, NEW marked, NEW s, NEW names, NEW l, Reads(S, s, names, l)
  PROVE  Done(Components(marked, s))
           = EnterLast(EnterAll(Flagged(FirstKept(marked), names)), l)
<1> DEFINE K == FirstKept(marked)
           all == Split(s)
           rooted == marked # <<>> /\ Last(marked) = BackSlash
           Keep(i) == i = Len(all) \/ (i = 1 /\ ~rooted) \/ all[i] # <<>>
           c == Components(marked, s)
           last == [name |-> l, keep |-> TRUE]
           f == Flagged(K, names)
           d == Append(f, last)
<1>1. names \in Seq(Seq(S)) /\ l \in Seq(S) /\ all = Append(names, l)
  BY DEF Reads
<1>2. /\ all \in Seq(Seq(S)) /\ Len(all) = Len(names) + 1 /\ all[Len(names) + 1] = l
      /\ \A i \in 1..Len(names) : all[i] = names[i]
      /\ Len(names) \in Nat
  BY <1>1
<1>3. c = [i \in DOMAIN all |-> [name |-> all[i], keep |-> Keep(i)]]
  BY DEF Components
<1>4. \A i : Keep(i) \in BOOLEAN /\ (i \in K \/ names[i] # <<>>) \in BOOLEAN
  OBVIOUS
<1>5. \A i \in 1..Len(names) : Keep(i) <=> (i \in K \/ names[i] # <<>>)
  BY <1>2 DEF FirstKept
<1>6. Keep(Len(names) + 1)
  BY <1>2
<1>7. f \in Seq(Entries(S)) /\ Len(f) = Len(names) /\ \A i \in 1..Len(names) : f[i] = FlaggedName(K, i, names[i])
  <2>1. AreFlagged(f, S, K, names)
    BY <1>1, FlaggedIs, Zenon
  <2> QED
    BY <2>1, Zenon DEF AreFlagged
<1> HIDE DEF K, all, rooted, Keep, c, f
<1>8. last \in Entries(S)
  BY <1>1 DEF Entries
<1>9. /\ d \in Seq(Entries(S)) /\ Len(d) = Len(names) + 1 /\ d[Len(names) + 1] = last
      /\ \A i \in 1..Len(names) : d[i] = f[i]
  BY <1>7, <1>8
<1>10. \A i \in 1..Len(all) : [name |-> all[i], keep |-> Keep(i)] = d[i]
  <2> SUFFICES ASSUME NEW i \in 1..Len(all) PROVE [name |-> all[i], keep |-> Keep(i)] = d[i]
    OBVIOUS
  <2>1. CASE i = Len(names) + 1
    BY <1>2, <1>6, <1>4, <1>9, <2>1
  <2>2. CASE i # Len(names) + 1
    <3>1. i \in 1..Len(names)
      BY <1>2, <2>2
    <3>2. d[i] = FlaggedName(K, i, names[i]) /\ all[i] = names[i]
      BY <1>2, <1>7, <1>9, <3>1
    <3>3. Keep(i) = (i \in K \/ names[i] # <<>>)
      BY <1>4, <1>5, <3>1
    <3> QED
      BY <3>2, <3>3 DEF FlaggedName
  <2> QED
    BY <2>1, <2>2
<1>11. c = d
  <2>1. DOMAIN all = 1..Len(d) /\ DOMAIN all = 1..Len(all)
    BY <1>2, <1>9
  <2> HIDE DEF d
  <2>2. c = [i \in 1..Len(d) |-> d[i]]
    BY <1>3, <1>10, <2>1
  <2> QED
    BY <1>9, <2>2
<1>12. Front(d) = f /\ Last(d) = last
  BY <1>7, <1>8, OfAppend
<1>13. last.name = l
  OBVIOUS
<1> HIDE DEF d, last
<1> QED
  BY <1>11, <1>12, <1>13 DEF Done, c, f, K

LEMMA EnterFlagged ==
  ASSUME NEW S, NEW K, NEW names \in Seq(Seq(S)), NEW n \in Seq(S)
  PROVE  /\ EnterAll(Flagged(K, names)) \in Seq(Seq(S))
         /\ EnterAll(Flagged(K, Append(names, n)))
              = IF Len(names) + 1 \in K \/ n # <<>>
                THEN Enter(EnterAll(Flagged(K, names)), n)
                ELSE EnterAll(Flagged(K, names))
<1> DEFINE e == FlaggedName(K, Len(names) + 1, n)
<1>1. Flagged(K, names) \in Seq(Entries(S))
  BY FlaggedIs, Zenon DEF AreFlagged
<1>2. e \in Entries(S) /\ Flagged(K, Append(names, n)) = Append(Flagged(K, names), e)
  BY FlaggedAppend
<1>3. /\ EnterAll(Flagged(K, names)) \in Seq(Seq(S))
      /\ EnterAll(Append(Flagged(K, names), e)) = EnterKept(EnterAll(Flagged(K, names)), e)
  BY <1>1, <1>2, EnterAllIs, Zenon
<1>4. e.name = n /\ (e.keep <=> (Len(names) + 1 \in K \/ n # <<>>))
  BY DEF FlaggedName
<1> HIDE DEF e
<1> QED
  BY <1>2, <1>3, <1>4 DEF EnterKept

(***************************************************************************)
(* Of the path s the separators that follow one another are left out in x, *)
(* but the first of the path when it is kept: both go on alike, and their  *)
(* names leave the same.                                                   *)
(***************************************************************************)
GoesOnWith(x, kept, l) ==
  /\ x = <<>> => kept = <<>> /\ l = <<>>
  /\ x # <<>> /\ x[Len(x)] = BackSlash => kept # <<>> /\ l = <<>>
  /\ x # <<>> /\ x[Len(x)] # BackSlash => l # <<>>

Squeezes(S, K, s, x, names, kept, l) ==
  /\ Reads(S, s, names, l) /\ Reads(S, x, kept, l)
  /\ GoesOnWith(x, kept, l)
  /\ EnterAll(Flagged(K, names)) = EnteredNames(kept)
  /\ 1 \in K => (names = <<>> <=> kept = <<>>)

Matching(S, K, s, x) == \E names, kept, l : Squeezes(S, K, s, x, names, kept, l)

LEMMA MatchingNothing ==
  ASSUME NEW S, NEW K
  PROVE  Matching(S, K, <<>>, <<>>)
<1>1. Reads(S, <<>>, <<>>, <<>>)
  BY ReadsNothing
<1>2. Flagged(K, <<>>) = <<>> /\ Flagged(Nat, <<>>) = <<>>
  BY DEF Flagged
<1>3. Squeezes(S, K, <<>>, <<>>, <<>>, <<>>, <<>>)
  BY <1>1, <1>2 DEF Squeezes, GoesOnWith, EnteredNames
<1> QED
  BY <1>3 DEF Matching

LEMMA AppendEnds ==
  ASSUME NEW S, NEW s \in Seq(S), NEW c \in S
  PROVE  Append(s, c) # <<>> /\ Append(s, c)[Len(Append(s, c))] = c
OBVIOUS

LEMMA MatchingChar ==
  ASSUME NEW S, NEW K, NEW s, NEW x, Matching(S, K, s, x), NEW c \in S, c # BackSlash
  PROVE  Matching(S, K, Append(s, c), Append(x, c))
<1>1. PICK names, kept, l : Squeezes(S, K, s, x, names, kept, l)
  BY DEF Matching
<1>2. Reads(S, Append(s, c), names, Append(l, c)) /\ Reads(S, Append(x, c), kept, Append(l, c))
  <2>1. Reads(S, s, names, l) /\ Reads(S, x, kept, l)
    BY <1>1 DEF Squeezes
  <2> QED
    BY <2>1, ReadsChar, Zenon
<1>3. Append(x, c) # <<>> /\ Append(x, c)[Len(Append(x, c))] = c /\ Append(l, c) # <<>>
  <2>1. x \in Seq(S) /\ l \in Seq(S)
    BY <1>1 DEF Squeezes, Reads
  <2> QED
    BY <2>1, AppendEnds, Zenon
<1>4. Squeezes(S, K, Append(s, c), Append(x, c), names, kept, Append(l, c))
  BY <1>1, <1>2, <1>3 DEF Squeezes, GoesOnWith
<1> QED
  BY <1>4 DEF Matching

\* A separator that stays, and one that goes.
LEMMA MatchingKept ==
  ASSUME NEW S, BackSlash \in S, NEW K \in SUBSET {1}, NEW s, NEW x, Matching(S, K, s, x),
         IF x = <<>> THEN K = {1} ELSE x[Len(x)] # BackSlash
  PROVE  Matching(S, K, Append(s, BackSlash), Append(x, BackSlash))
<1> DEFINE s1 == Append(s, BackSlash)
           x1 == Append(x, BackSlash)
<1>1. PICK names, kept, l : Squeezes(S, K, s, x, names, kept, l)
  BY DEF Matching
<1> DEFINE names1 == Append(names, l)
           kept1 == Append(kept, l)
<1>2. Reads(S, s1, names1, <<>>) /\ Reads(S, x1, kept1, <<>>)
  <2>1. Reads(S, s, names, l) /\ Reads(S, x, kept, l)
    BY <1>1 DEF Squeezes
  <2> QED
    BY <2>1, ReadsSeparator, Zenon
<1>3. x1 # <<>> /\ x1[Len(x1)] = BackSlash /\ names1 # <<>> /\ kept1 # <<>>
  <2>1. x \in Seq(S) /\ names \in Seq(Seq(S)) /\ kept \in Seq(Seq(S)) /\ l \in Seq(S)
    BY <1>1 DEF Squeezes, Reads
  <2>2. x1 # <<>> /\ x1[Len(x1)] = BackSlash
    BY <2>1, AppendEnds, Zenon
  <2>3. names1 # <<>> /\ kept1 # <<>>
    BY <2>1, AppendEnds, Zenon
  <2> QED
    BY <2>2, <2>3
<1>4. names \in Seq(Seq(S)) /\ kept \in Seq(Seq(S)) /\ l \in Seq(S)
  BY <1>1 DEF Squeezes, Reads
<1>5. Len(names) + 1 \in K \/ l # <<>>
  <2>1. CASE x = <<>>
    <3>1. names = <<>>
      BY <1>1, <2>1, Zenon DEF Squeezes, GoesOnWith
    <3>2. Len(names) = 0
      BY <3>1
    <3> QED
      BY <2>1, <3>2
  <2>2. CASE x # <<>>
    BY <1>1, <2>2 DEF Squeezes, GoesOnWith
  <2> QED
    BY <2>1, <2>2
<1>6. EnterAll(Flagged(K, names1)) = Enter(EnterAll(Flagged(K, names)), l)
  BY <1>4, <1>5, EnterFlagged
<1>7. EnteredNames(kept1) = Enter(EnteredNames(kept), l)
  BY <1>4, EnteredIs, Zenon
<1> HIDE DEF s1, x1, names1, kept1
<1>8. Squeezes(S, K, s1, x1, names1, kept1, <<>>)
  BY <1>1, <1>2, <1>3, <1>6, <1>7 DEF Squeezes, GoesOnWith
<1> QED
  BY <1>8, Zenon DEF Matching, s1, x1

LEMMA MatchingDropped ==
  ASSUME NEW S, BackSlash \in S, NEW K \in SUBSET {1}, NEW s, NEW x, Matching(S, K, s, x),
         IF x = <<>> THEN K = {} ELSE x[Len(x)] = BackSlash
  PROVE  Matching(S, K, Append(s, BackSlash), x)
<1> DEFINE s1 == Append(s, BackSlash)
<1>1. PICK names, kept, l : Squeezes(S, K, s, x, names, kept, l)
  BY DEF Matching
<1> DEFINE names1 == Append(names, l)
<1>2. l = <<>> /\ (1 \in K => names # <<>> /\ kept # <<>>)
  BY <1>1 DEF Squeezes, GoesOnWith
<1>3. Reads(S, s1, names1, l) /\ Reads(S, x, kept, l)
  <2>1. Reads(S, s, names, l) /\ Reads(S, x, kept, l)
    BY <1>1 DEF Squeezes
  <2>2. Reads(S, s1, names1, <<>>)
    BY <2>1, ReadsSeparator, Zenon
  <2> QED
    BY <1>2, <2>1, <2>2
<1>4. names \in Seq(Seq(S)) /\ l \in Seq(S) /\ names1 # <<>>
  BY <1>1, AppendEnds DEF Squeezes, Reads
<1>5. ~ (Len(names) + 1 \in K \/ l # <<>>)
  <2>1. names # <<>> => Len(names) + 1 # 1
    BY <1>4
  <2> QED
    BY <1>2, <2>1
<1>6. EnterAll(Flagged(K, names1)) = EnterAll(Flagged(K, names))
  BY <1>4, <1>5, EnterFlagged
<1> HIDE DEF s1, names1
<1>7. Squeezes(S, K, s1, x, names1, kept, l)
  BY <1>1, <1>2, <1>3, <1>4, <1>6 DEF Squeezes
<1> QED
  BY <1>7, Zenon DEF Matching, s1

(***************************************************************************)
(* The names entered before a component is read, and what is left in the   *)
(* end of a path whose rest from there is b.                               *)
(***************************************************************************)
Leaves(S, s, done) ==
  \E names, l : Reads(S, s, names, l) /\ EnterLast(EnteredNames(names), l) = done

Scans(S, done, stack, b) ==
  \E a, names : /\ Reads(S, a, names, <<>>) /\ b \in Seq(S)
                /\ stack = EnteredNames(names)
                /\ Leaves(S, a \o b, done)

LEMMA MatchingLeaves ==
  ASSUME NEW S, NEW marked, NEW s, NEW x, Matching(S, FirstKept(marked), s, x)
  PROVE  Leaves(S, x, Done(Components(marked, s)))
<1>1. PICK names, kept, l : Squeezes(S, FirstKept(marked), s, x, names, kept, l)
  BY DEF Matching
<1>2. Done(Components(marked, s)) = EnterLast(EnterAll(Flagged(FirstKept(marked), names)), l)
  BY <1>1, DoneOf DEF Squeezes
<1> QED
  BY <1>1, <1>2 DEF Squeezes, Leaves

LEMMA ScansStart ==
  ASSUME NEW S, NEW done, NEW b, Leaves(S, b, done)
  PROVE  Scans(S, done, <<>>, b)
<1>1. b \in Seq(S)
  BY DEF Leaves, Reads
<1>2. <<>> \o b = b
  BY <1>1
<1>3. Reads(S, <<>>, <<>>, <<>>)
  BY ReadsNothing
<1>4. EnteredNames(<<>>) = <<>>
  BY EnteredIs
<1> QED
  BY <1>1, <1>2, <1>3, <1>4, Zenon DEF Scans

LEMMA ScansDirectory ==
  ASSUME NEW S, BackSlash \in S, NEW done, NEW stack, NEW n \in PlainNames(S), NEW rest \in Seq(S),
         Scans(S, done, stack, (n \o <<BackSlash>>) \o rest)
  PROVE  Scans(S, done, Enter(stack, n), rest)
<1> DEFINE b == (n \o <<BackSlash>>) \o rest
<1>1. PICK a, names : /\ Reads(S, a, names, <<>>)
                      /\ stack = EnteredNames(names)
                      /\ Leaves(S, a \o b, done)
  BY DEF Scans
<1> DEFINE a1 == (a \o n) \o <<BackSlash>>
           names1 == Append(names, n)
<1>2. Reads(S, a1, names1, <<>>)
  BY <1>1, ReadsDirectory
<1>3. a \in Seq(S) /\ n \in Seq(S) /\ names \in Seq(Seq(S))
  BY <1>1 DEF Reads, PlainNames
<1>4. a1 \o rest = a \o b
  <2>1. n \o <<BackSlash>> \in Seq(S) /\ a1 = a \o (n \o <<BackSlash>>)
    BY <1>3
  <2>2. \A u, v, w \in Seq(S) : (u \o v) \o w = u \o (v \o w)
    OBVIOUS
  <2> HIDE DEF a1
  <2> QED
    BY <1>3, <2>1, <2>2, Zenon
<1>5. EnteredNames(names1) = Enter(stack, n)
  BY <1>1, <1>3, EnteredIs
<1> HIDE DEF a1, names1, b
<1>6. Leaves(S, a1 \o rest, done) /\ Enter(stack, n) = EnteredNames(names1)
  BY <1>1, <1>4, <1>5
<1> QED
  BY <1>2, <1>6, Zenon DEF Scans

LEMMA ReadsOnce ==
  ASSUME NEW S, NEW a, NEW names, NEW l, NEW names1, NEW l1,
         Reads(S, a, names, l), Reads(S, a, names1, l1)
  PROVE  names = names1 /\ l = l1
<1> DEFINE E == Seq(S)
<1>1. /\ names \in Seq(E) /\ names1 \in Seq(E) /\ l \in E /\ l1 \in E
      /\ Split(a) = Append(names, l) /\ Split(a) = Append(names1, l1)
  BY DEF Reads
<1> HIDE DEF E
<1>2. Front(Append(names, l)) = names /\ Last(Append(names, l)) = l
  BY <1>1, OfAppend, Zenon
<1>3. Front(Append(names1, l1)) = names1 /\ Last(Append(names1, l1)) = l1
  BY <1>1, OfAppend, Zenon
<1> QED
  BY <1>1, <1>2, <1>3, Zenon

LEMMA ScansLast ==
  ASSUME NEW S, NEW done, NEW stack, NEW n \in PlainNames(S), Scans(S, done, stack, n)
  PROVE  done = EnterLast(stack, n)
<1>1. PICK a, names : /\ Reads(S, a, names, <<>>)
                      /\ stack = EnteredNames(names)
                      /\ Leaves(S, a \o n, done)
  BY DEF Scans
<1>2. Reads(S, a \o n, names, n)
  BY <1>1, ReadsName
<1>3. PICK names1, l : Reads(S, a \o n, names1, l) /\ EnterLast(EnteredNames(names1), l) = done
  BY <1>1 DEF Leaves
<1>4. names = names1 /\ n = l
  BY <1>2, <1>3, ReadsOnce, Zenon
<1> QED
  BY <1>1, <1>3, <1>4

\* Every directory ends in a separator, and a list of names makes one.
LEMMA NamesAreStrings ==
  ASSUME NEW S, NEW stack \in Seq(PlainNames(S))
  PROVE  stack \in Seq(Seq(S))
BY DEF PlainNames

LEMMA DirectoriesEnd ==
  ASSUME NEW S, BackSlash \in S, NEW stack \in Seq(Seq(S))
  PROVE  /\ Directories(stack) \in Seq(S)
         /\ stack = <<>> => Directories(stack) = <<>> /\ Join(stack) = <<>>
         /\ stack # <<>> => /\ Directories(stack) = Append(Join(stack), BackSlash)
                            /\ Join(stack) \in Seq(S)
                            /\ Len(Directories(stack)) = Len(Join(stack)) + 1
<1>1. Directories(stack) \in Seq(S)
  BY DirectoriesIs
<1>2. stack = <<>> => Directories(stack) = <<>> /\ Join(stack) = <<>>
  BY DirectoriesIs DEF Join
<1>3. ASSUME stack # <<>>
      PROVE  /\ Directories(stack) = Append(Join(stack), BackSlash)
             /\ Join(stack) \in Seq(S)
             /\ Len(Directories(stack)) = Len(Join(stack)) + 1
  <2> DEFINE f == Front(stack)
             n == Last(stack)
             d == Directories(f)
  <2>1. f \in Seq(Seq(S)) /\ n \in Seq(S) /\ stack = Append(f, n)
    BY <1>3, FrontLast
  <2>2. Directories(stack) = (d \o n) \o <<BackSlash>> /\ d \in Seq(S)
    <3> HIDE DEF f, n
    <3> QED
      BY <2>1, DirectoriesAppend
  <2>3. Join(stack) = d \o n
    BY <1>3 DEF Join
  <2> HIDE DEF d
  <2>4. d \o n \in Seq(S)
    BY <2>1, <2>2
  <2> DEFINE j == d \o n
  <2>5. j \in Seq(S) => j \o <<BackSlash>> = Append(j, BackSlash) /\ Len(Append(j, BackSlash)) = Len(j) + 1
    <3> HIDE DEF j
    <3> QED
      OBVIOUS
  <2> QED
    BY <2>2, <2>3, <2>4, <2>5
<1> QED
  BY <1>1, <1>2, <1>3

(***************************************************************************)
(* The strings in a part of a buffer.                                      *)
(***************************************************************************)
Holds(S, buf, i, j) == i \in Nat /\ j \in Nat /\ i <= j /\ \A k \in i..(j - 1) : buf[k] \in S

Spells(S, s, buf, i, j) ==
  /\ s \in Seq(S) /\ Len(s) = j - i
  /\ \A k \in 1..(j - i) : s[k] = buf[(i + k) - 1]

LEMMA CharsBetween ==
  ASSUME NEW S, NEW buf, NEW i, NEW j, Holds(S, buf, i, j)
  PROVE  Spells(S, Between(buf, i, j), buf, i, j)
<1>1. i \in Nat /\ j \in Nat /\ j - i \in Nat
  BY DEF Holds
<1>2. \A k \in 1..(j - i) : (i + k) - 1 \in i..(j - 1)
  BY <1>1
<1>3. Between(buf, i, j) = [k \in 1..(j - i) |-> buf[(i + k) - 1]]
  BY <1>1 DEF Between
<1>4. \A k \in 1..(j - i) : buf[(i + k) - 1] \in S
  BY <1>2 DEF Holds
<1> DEFINE n == j - i
<1>5. \A m \in Nat : \A f \in [1..m -> S] : f \in Seq(S) /\ Len(f) = m
  OBVIOUS
<1>6. Between(buf, i, j) \in [1..n -> S]
  BY <1>3, <1>4
<1> HIDE DEF n
<1>7. Between(buf, i, j) \in Seq(S) /\ Len(Between(buf, i, j)) = n
  BY <1>1, <1>5, <1>6, Zenon DEF n
<1> QED
  BY <1>3, <1>7 DEF n, Spells

LEMMA IsBetween ==
  ASSUME NEW S, NEW buf, NEW i, NEW j, Holds(S, buf, i, j), NEW s, Spells(S, s, buf, i, j)
  PROVE  s = Between(buf, i, j)
<1> DEFINE t == Between(buf, i, j)
<1>1. t \in Seq(S) /\ Len(t) = j - i /\ \A k \in 1..(j - i) : t[k] = buf[(i + k) - 1]
  BY CharsBetween DEF Spells
<1> HIDE DEF t
<1>2. s = t
  BY <1>1 DEF Spells
<1> QED
  BY <1>2 DEF t

LEMMA HoldsParts ==
  ASSUME NEW S, NEW buf, NEW i, NEW j, NEW m \in i..j, Holds(S, buf, i, j)
  PROVE  Holds(S, buf, i, m) /\ Holds(S, buf, m, j)
BY DEF Holds

LEMMA Concatenation ==
  ASSUME NEW S
  PROVE  \A a, b \in Seq(S) :
           /\ a \o b \in Seq(S) /\ Len(a \o b) = Len(a) + Len(b)
           /\ \A k \in 1..(Len(a) + Len(b)) :
                (a \o b)[k] = IF k <= Len(a) THEN a[k] ELSE b[k - Len(a)]
OBVIOUS

LEMMA BetweenJoins ==
  ASSUME NEW S, NEW buf, NEW i, NEW j, NEW m \in i..j, Holds(S, buf, i, j)
  PROVE  Between(buf, i, j) = Between(buf, i, m) \o Between(buf, m, j)
<1> DEFINE a == Between(buf, i, m)
           b == Between(buf, m, j)
<1>1. Holds(S, buf, i, m) /\ Holds(S, buf, m, j)
  BY HoldsParts, Zenon
<1>2. i \in Nat /\ j \in Nat /\ m \in Nat /\ i <= m /\ m <= j
  BY DEF Holds
<1>3. /\ a \in Seq(S) /\ Len(a) = m - i
      /\ \A k \in 1..(m - i) : a[k] = buf[(i + k) - 1]
  <2>1. Spells(S, a, buf, i, m)
    BY <1>1, CharsBetween, Zenon
  <2> QED
    BY <2>1 DEF Spells
<1>4. /\ b \in Seq(S) /\ Len(b) = j - m
      /\ \A k \in 1..(j - m) : b[k] = buf[(m + k) - 1]
  <2>1. Spells(S, b, buf, m, j)
    BY <1>1, CharsBetween, Zenon
  <2> QED
    BY <2>1 DEF Spells
<1> HIDE DEF a, b
<1>5. a \o b \in Seq(S) /\ Len(a \o b) = j - i
  <2>1. a \o b \in Seq(S) /\ Len(a \o b) = Len(a) + Len(b)
    BY <1>3, <1>4, Concatenation, Zenon
  <2> QED
    BY <1>2, <1>3, <1>4, <2>1
<1>6. \A k \in 1..(j - i) : (a \o b)[k] = buf[(i + k) - 1]
  <2> SUFFICES ASSUME NEW k \in 1..(j - i) PROVE (a \o b)[k] = buf[(i + k) - 1]
    OBVIOUS
  <2>0. (a \o b)[k] = IF k <= m - i THEN a[k] ELSE b[k - (m - i)]
    <3>1. k \in 1..(Len(a) + Len(b))
      BY <1>2, <1>3, <1>4
    <3> QED
      <4>1. (a \o b)[k] = IF k <= Len(a) THEN a[k] ELSE b[k - Len(a)]
        BY <1>3, <1>4, <3>1, Concatenation, Zenon
      <4> QED
        BY <1>3, <4>1
  <2>1. CASE k <= m - i
    BY <1>2, <1>3, <2>0, <2>1
  <2>2. CASE k > m - i
    <3>1. (a \o b)[k] = b[k - (m - i)]
      BY <1>2, <2>0, <2>2
    <3>2. k - (m - i) \in 1..(j - m) /\ (m + (k - (m - i))) - 1 = (i + k) - 1
      BY <1>2, <2>2
    <3> QED
      BY <1>4, <3>1, <3>2
  <2>3. k <= m - i \/ k > m - i
    <3>1. k \in Int /\ m - i \in Int
      BY <1>2
    <3> QED
      BY <3>1
  <2> QED
    BY <2>1, <2>2, <2>3, Zenon
<1>7. a \o b = Between(buf, i, j)
  BY <1>5, <1>6, IsBetween, Zenon DEF Spells
<1> QED
  BY <1>7 DEF a, b

LEMMA BetweenOne ==
  ASSUME NEW S, NEW buf, NEW i, Holds(S, buf, i, i + 1)
  PROVE  Between(buf, i, i + 1) = <<buf[i]>>
<1>1. i \in Nat /\ buf[i] \in S
  BY DEF Holds
<1>2. Spells(S, <<buf[i]>>, buf, i, i + 1)
  BY <1>1 DEF Spells
<1> QED
  BY <1>2, IsBetween

LEMMA BetweenMore ==
  ASSUME NEW S, NEW buf, NEW i, NEW j \in Nat, i <= j, Holds(S, buf, i, j + 1)
  PROVE  Between(buf, i, j + 1) = Append(Between(buf, i, j), buf[j])
<1> DEFINE e == j + 1
<1>1. j \in i..e /\ Holds(S, buf, i, e) /\ buf[j] \in S
  BY DEF Holds
<1>2. Between(buf, j, e) = <<buf[j]>>
  <2>1. Holds(S, buf, j, j + 1)
    BY <1>1 DEF Holds
  <2> QED
    BY <2>1, BetweenOne
<1> HIDE DEF e
<1>3. Between(buf, i, e) = Between(buf, i, j) \o Between(buf, j, e)
  BY ONLY <1>1, BetweenJoins
<1>4. Between(buf, i, j) \in Seq(S)
  BY <1>1, HoldsParts, CharsBetween DEF Spells
<1>5. \A s \in Seq(S), c \in S : s \o <<c>> = Append(s, c)
  OBVIOUS
<1>6. Between(buf, i, e) = Append(Between(buf, i, j), buf[j])
  BY <1>1, <1>2, <1>3, <1>4, <1>5, Zenon
<1> QED
  BY <1>6 DEF e

LEMMA BetweenNone ==
  ASSUME NEW buf, NEW i \in Nat
  PROVE  Between(buf, i, i) = <<>>
BY DEF Between

\* What moves by n places stays the same.
LEMMA BetweenMoved ==
  ASSUME NEW S, NEW buf, NEW i, NEW j, Holds(S, buf, i, j), NEW new,
         NEW n \in Nat, n <= i, \A k \in (i - n)..((j - n) - 1) : new[k] = buf[k + n]
  PROVE  Between(new, i - n, j - n) = Between(buf, i, j)
<1> DEFINE s == Between(buf, i, j)
<1>1. i \in Nat /\ j \in Nat /\ i <= j /\ i - n \in Nat /\ j - n \in Nat /\ (j - n) - (i - n) = j - i
  BY DEF Holds
<1>2. Holds(S, new, i - n, j - n)
  <2>1. \A k \in (i - n)..((j - n) - 1) : k + n \in i..(j - 1)
    BY <1>1
  <2> QED
    BY <1>1, <2>1 DEF Holds
<1>3. /\ s \in Seq(S) /\ Len(s) = j - i
      /\ \A k \in 1..(j - i) : s[k] = buf[(i + k) - 1]
  <2>1. Spells(S, s, buf, i, j)
    BY CharsBetween, Zenon
  <2> QED
    BY <2>1 DEF Spells
<1>4. \A k \in 1..(j - i) : s[k] = new[((i - n) + k) - 1]
  <2>1. \A k \in 1..(j - i) : /\ ((i - n) + k) - 1 \in (i - n)..((j - n) - 1)
                             /\ (((i - n) + k) - 1) + n = (i + k) - 1
    BY <1>1
  <2> QED
    BY <1>3, <2>1
<1> HIDE DEF s
<1>5. s = Between(new, i - n, j - n)
  <2>1. Spells(S, s, new, i - n, j - n)
    BY <1>1, <1>3, <1>4 DEF Spells
  <2> QED
    BY <1>2, <2>1, IsBetween, Zenon
<1> QED
  BY <1>2, <1>5 DEF s

LEMMA BetweenSame ==
  ASSUME NEW S, NEW buf, NEW i, NEW j, Holds(S, buf, i, j), NEW new,
         \A k \in i..(j - 1) : new[k] = buf[k]
  PROVE  Between(new, i, j) = Between(buf, i, j)
<1>1. i \in Nat /\ j \in Nat /\ i - 0 = i /\ j - 0 = j
  BY DEF Holds
<1>2. \A k \in (i - 0)..((j - 0) - 1) : new[k] = buf[k + 0]
  BY <1>1
<1> QED
  BY <1>1, <1>2, BetweenMoved

(***************************************************************************)
(* Components in a buffer: a name ends at q, and the parent of what is at  *)
(* p starts at q.                                                          *)
(***************************************************************************)
LEMMA NamesBetween ==
  ASSUME NEW S, NEW buf, NEW i, NEW j, Holds(S, buf, i, j), \A k \in i..(j - 1) : buf[k] # BackSlash
  PROVE  Between(buf, i, j) \in PlainNames(S)
<1>1. Spells(S, Between(buf, i, j), buf, i, j) /\ i \in Nat /\ j \in Nat
  BY CharsBetween DEF Holds
<1>2. \A k \in 1..(j - i) : (i + k) - 1 \in i..(j - 1)
  BY <1>1
<1> QED
  BY <1>1, <1>2 DEF Spells, PlainNames

LEMMA ReadLast ==
  ASSUME NEW S, NEW done, NEW stack, NEW buf, NEW i, NEW j, Holds(S, buf, i, j),
         \A k \in i..(j - 1) : buf[k] # BackSlash,
         Scans(S, done, stack, Between(buf, i, j))
  PROVE  done = EnterLast(stack, Between(buf, i, j))
<1>1. Between(buf, i, j) \in PlainNames(S)
  BY NamesBetween
<1> QED
  BY <1>1, ScansLast

LEMMA ReadDirectory ==
  ASSUME NEW S, BackSlash \in S, NEW done, NEW stack, NEW buf, NEW i, NEW j, Holds(S, buf, i, j),
         NEW q \in i..(j - 1), buf[q] = BackSlash, \A k \in i..(q - 1) : buf[k] # BackSlash,
         Scans(S, done, stack, Between(buf, i, j))
  PROVE  /\ Between(buf, i, q) \in PlainNames(S)
         /\ Scans(S, done, Enter(stack, Between(buf, i, q)), Between(buf, q + 1, j))
<1> DEFINE e == q + 1
           n == Between(buf, i, q)
           rest == Between(buf, e, j)
<1>1. /\ i \in Nat /\ j \in Nat /\ q \in Nat /\ i <= q /\ q + 1 <= j
      /\ Holds(S, buf, i, q + 1) /\ Holds(S, buf, e, j) /\ Holds(S, buf, i, q)
  BY DEF Holds
<1>2. n \in PlainNames(S)
  BY <1>1, NamesBetween
<1>3. Between(buf, i, q + 1) = Append(n, BackSlash)
  <2>1. Between(buf, i, q + 1) = Append(Between(buf, i, q), buf[q])
    BY <1>1, BetweenMore
  <2> QED
    BY <2>1
<1>4. e \in i..j
  BY <1>1
<1>5. Between(buf, i, e) = n \o <<BackSlash>>
  <2>1. n \in Seq(S)
    BY <1>2 DEF PlainNames
  <2> HIDE DEF n
  <2>2. Append(n, BackSlash) = n \o <<BackSlash>>
    BY <2>1
  <2> QED
    BY <1>3, <2>2
<1> HIDE DEF e
<1>6. Between(buf, i, j) = Between(buf, i, e) \o Between(buf, e, j)
  BY <1>4, BetweenJoins
<1>7. rest \in Seq(S)
  BY <1>1, CharsBetween DEF Spells
<1> HIDE DEF n, rest
<1>8. Scans(S, done, stack, (n \o <<BackSlash>>) \o rest)
  BY <1>5, <1>6 DEF rest
<1>9. Scans(S, done, Enter(stack, n), rest)
  BY <1>2, <1>7, <1>8, ScansDirectory
<1> QED
  BY <1>2, <1>9 DEF n, rest, e

LEMMA JoinCut ==
  ASSUME NEW S, BackSlash \in S, NEW stack \in Seq(Seq(S)), NEW buf, NEW i, NEW j, Holds(S, buf, i, j),
         Between(buf, i, j) = Directories(stack)
  PROVE  Between(buf, i, IF j > i THEN j - 1 ELSE j) = Join(stack)
<1> DEFINE d == Directories(stack)
           s == Join(stack)
<1>1. Spells(S, d, buf, i, j) /\ i \in Nat /\ j \in Nat /\ i <= j
  BY CharsBetween DEF Holds
<1>2. /\ stack = <<>> => d = <<>> /\ s = <<>>
      /\ stack # <<>> => d = Append(s, BackSlash) /\ s \in Seq(S) /\ Len(d) = Len(s) + 1
  BY DirectoriesEnd
<1> HIDE DEF d, s
<1>3. CASE stack = <<>>
  <2>1. Len(d) = 0
    BY <1>2, <1>3
  <2>2. j = i
    BY <1>1, <2>1 DEF Spells
  <2> QED
    BY <1>1, <1>2, <1>3, <2>2, BetweenNone DEF s
<1>4. CASE stack # <<>>
  <2>1. s \in Seq(S) /\ d = Append(s, BackSlash) /\ Len(s) + 1 = j - i /\ Len(s) \in Nat
    BY <1>1, <1>2, <1>4 DEF Spells
  <2> DEFINE m == j - 1
  <2>2. j > i /\ m \in i..j /\ Len(s) = m - i
    BY <1>1, <2>1
  <2>3. Holds(S, buf, i, m)
    BY <2>2, HoldsParts
  <2>4. \A k \in 1..(m - i) : s[k] = buf[(i + k) - 1]
    <3>1. \A t \in Seq(S) : \A k \in 1..Len(t) : Append(t, BackSlash)[k] = t[k]
      OBVIOUS
    <3>2. \A k \in 1..Len(s) : d[k] = s[k] /\ k \in 1..(j - i)
      BY <1>1, <2>1, <3>1
    <3> QED
      BY <1>1, <2>2, <3>2 DEF Spells
  <2>5. Spells(S, s, buf, i, m)
    BY <2>1, <2>2, <2>4 DEF Spells
  <2>6. s = Between(buf, i, m)
    BY <2>3, <2>5, IsBetween
  <2> QED
    BY <2>2, <2>6 DEF s
<1> QED
  BY <1>3, <1>4

LEMMA ParentIs ==
  ASSUME NEW S, BackSlash \in S, NEW stack \in Seq(PlainNames(S)), NEW buf, NEW i, NEW j, Holds(S, buf, i, j),
         Between(buf, i, j) = Directories(stack), NEW q \in i..j,
         \/ j = i /\ q = j
         \/ /\ q < j
            /\ q > i => buf[q - 1] = BackSlash
            /\ \A k \in q..(j - 2) : buf[k] # BackSlash
  PROVE  Between(buf, i, q) = Directories(Pop(stack))
<1>1. Spells(S, Directories(stack), buf, i, j) /\ i \in Nat /\ j \in Nat /\ i <= j /\ q \in Nat
  BY CharsBetween DEF Holds
<1>2. CASE stack = <<>>
  <2>1. Directories(stack) = <<>> /\ Pop(stack) = <<>>
    BY <1>2, DirectoriesIs DEF Pop
  <2>2. j = i
    BY <1>1, <2>1 DEF Spells
  <2>3. q = i
    BY <1>1, <2>2
  <2> QED
    BY <1>1, <1>2, <2>1, <2>3, BetweenNone
<1>3. CASE stack # <<>>
  <2> DEFINE f == Front(stack)
             n == Last(stack)
             d == Directories(f)
  <2>1. f \in Seq(PlainNames(S)) /\ n \in PlainNames(S) /\ stack = Append(f, n) /\ Pop(stack) = f
    BY <1>3, FrontLast DEF Pop
  <2>2. f \in Seq(Seq(S)) /\ n \in Seq(S)
    BY <2>1, NamesAreStrings DEF PlainNames
  <2> HIDE DEF f, n
  <2>3. Directories(stack) = (d \o n) \o <<BackSlash>> /\ d \in Seq(S)
    BY ONLY <2>1, <2>2, BackSlash \in S, DirectoriesAppend, Zenon
  <2>4. d # <<>> => d[Len(d)] = BackSlash
    <3>1. /\ f = <<>> => d = <<>>
          /\ f # <<>> => d = Append(Join(f), BackSlash) /\ Join(f) \in Seq(S)
      BY <2>2, DirectoriesEnd
    <3> HIDE DEF d
    <3> QED
      BY <3>1, AppendEnds
  <2> HIDE DEF d
  <2> DEFINE L == Len(d)
             N == Len(n)
  <2>5. L \in Nat /\ N \in Nat
    BY <2>2, <2>3
  <2>6. /\ j - i = L + N + 1
        /\ \A k \in 1..(L + N + 1) :
             buf[(i + k) - 1] = IF k <= L THEN d[k] ELSE IF k <= L + N THEN n[k - L] ELSE BackSlash
    <3> DEFINE dn == d \o n
               one == <<BackSlash>>
    <3>1. /\ dn \in Seq(S) /\ Len(dn) = L + N
          /\ \A k \in 1..(L + N) : dn[k] = IF k <= L THEN d[k] ELSE n[k - L]
      BY <2>2, <2>3, Concatenation, Zenon
    <3>2. one \in Seq(S) /\ Len(one) = 1 /\ one[1] = BackSlash
      OBVIOUS
    <3> HIDE DEF dn, one
    <3>3. /\ Len(dn \o one) = Len(dn) + Len(one)
          /\ \A k \in 1..(Len(dn) + Len(one)) : (dn \o one)[k] = IF k <= Len(dn) THEN dn[k] ELSE one[k - Len(dn)]
      <4>1. dn \in Seq(S) /\ one \in Seq(S)
        BY <3>1, <3>2
      <4> QED
        BY ONLY <4>1, Concatenation
    <3> HIDE DEF L, N
    <3>4. /\ Directories(stack) = dn \o one /\ Len(dn \o one) = L + N + 1
          /\ \A k \in 1..(L + N + 1) : (dn \o one)[k] = IF k <= L + N THEN dn[k] ELSE one[k - (L + N)]
      BY <2>3, <3>1, <3>2, <3>3 DEF dn, one
    <3>5. /\ j - i = L + N + 1
          /\ \A k \in 1..(L + N + 1) : buf[(i + k) - 1] = (dn \o one)[k]
      BY <1>1, <3>4 DEF Spells
    <3>6. \A k \in 1..(L + N + 1) : k \in 1..(L + N) \/ (k = L + N + 1 /\ k - (L + N) = 1 /\ ~(k <= L + N) /\ ~(k <= L))
      BY <2>5
    <3>7. \A k \in 1..(L + N) : k <= L + N
      BY <2>5
    <3> QED
      BY <3>1, <3>2, <3>4, <3>5, <3>6, <3>7
  <2> HIDE DEF L, N
  <2>7. \A k \in (i + L)..((i + L + N) - 1) : buf[k] # BackSlash
    <3> SUFFICES ASSUME NEW k \in (i + L)..((i + L + N) - 1) PROVE buf[k] # BackSlash
      OBVIOUS
    <3> DEFINE h == (k - i) + 1
    <3>1. h \in 1..(L + N + 1) /\ (i + h) - 1 = k /\ ~(h <= L) /\ h <= L + N /\ h - L \in 1..N
      BY <1>1, <2>5
    <3>2. buf[k] = n[h - L]
      <4> HIDE DEF h
      <4> QED
        BY <2>6, <3>1
    <3> QED
      BY <2>1, <3>1, <3>2 DEF PlainNames, N
  <2>8. L > 0 => buf[(i + L) - 1] = BackSlash
    <3> SUFFICES ASSUME L > 0 PROVE buf[(i + L) - 1] = BackSlash
      OBVIOUS
    <3>1. L \in 1..(L + N + 1) /\ L <= L
      BY <2>5
    <3>2. buf[(i + L) - 1] = d[L]
      BY <2>6, <3>1
    <3>3. d # <<>>
      BY <2>5 DEF L
    <3> QED
      BY <2>4, <3>2, <3>3 DEF L
  <2>9. q = i + L
    <3>1. j = i + L + N + 1
      BY <1>1, <2>5, <2>6
    <3>2. q < j /\ (q > i => buf[q - 1] = BackSlash) /\ \A k \in q..(j - 2) : buf[k] # BackSlash
      BY <1>1, <2>5, <3>1
    <3>3. ~(q > i + L)
      <4> SUFFICES ASSUME q > i + L PROVE FALSE
        OBVIOUS
      <4>1. q - 1 \in (i + L)..((i + L + N) - 1) /\ q > i
        BY <1>1, <2>5, <3>1, <3>2
      <4> QED
        BY <2>7, <3>2, <4>1
    <3>4. ~(q < i + L)
      <4> SUFFICES ASSUME q < i + L PROVE FALSE
        OBVIOUS
      <4>1. L > 0 /\ (i + L) - 1 \in q..(j - 2)
        BY <1>1, <2>5, <3>1
      <4> QED
        BY <2>8, <3>2, <4>1
    <3> QED
      BY <1>1, <2>5, <3>3, <3>4
  <2>10. Holds(S, buf, i, q)
    BY HoldsParts
  <2>11. Spells(S, d, buf, i, q)
    <3>1. Len(d) = q - i
      BY <1>1, <2>5, <2>9 DEF L
    <3>2. \A k \in 1..(q - i) : d[k] = buf[(i + k) - 1]
      <4>1. \A k \in 1..(q - i) : k \in 1..(L + N + 1) /\ k <= L
        BY <1>1, <2>5, <2>9
      <4> QED
        BY <2>6, <4>1
    <3> QED
      BY <2>3, <3>1, <3>2 DEF Spells
  <2>12. d = Between(buf, i, q)
    BY <2>10, <2>11, IsBetween
  <2> QED
    BY <2>1, <2>12 DEF d
<1> QED
  BY <1>2, <1>3

\* A part of a string.
LEMMA SubSeqIs ==
  ASSUME NEW S, NEW s \in Seq(S), NEW a \in 0..Len(s), NEW b \in 0..Len(s)
  PROVE  /\ SubSeq(s, a + 1, b) \in Seq(S)
         /\ \A k \in 1..Len(SubSeq(s, a + 1, b)) : SubSeq(s, a + 1, b)[k] = s[k + a]
         /\ a <= b => Len(SubSeq(s, a + 1, b)) = b - a
  <1>1. CASE a <= b
    <2>1. \A k \in (a + 1)..b : s[k] \in S
      OBVIOUS
    <2>. QED
      BY <1>1, <2>1
  <1>2. CASE b < a
    <2>1. SubSeq(s, a + 1, b) = <<>>
      BY <1>2
    <2>. QED
      BY <1>2, <2>1
  <1>. QED
    BY <1>1, <1>2

-----------------------------------------------------------------------------
(***************************************************************************)
(* Where the components of a path are in it: each behind a separator, but  *)
(* for the first one, and in front of one, but for the one that goes on.   *)
(***************************************************************************)
StartsAt(s, k, b) == IF k = 1 THEN b = 0 ELSE b >= 1 /\ s[b] = BackSlash

Spelled(s, n, b) == b + Len(n) <= Len(s) /\ \A j \in 1..Len(n) : n[j] = s[b + j]

DirectoryAt(s, n, k, b) ==
  /\ StartsAt(s, k, b) /\ Spelled(s, n, b)
  /\ b + Len(n) < Len(s) /\ s[(b + Len(n)) + 1] = BackSlash

NameAt(s, n, k, b) == StartsAt(s, k, b) /\ Spelled(s, n, b) /\ b + Len(n) = Len(s)

Pieces(S, s, names, l) ==
  /\ Reads(S, s, names, l)
  /\ names \in Seq(PlainNames(S)) /\ l \in PlainNames(S)
  /\ \A k \in 1..Len(names) : \E b \in 0..Len(s) : DirectoryAt(s, names[k], k, b)
  /\ \E b \in 0..Len(s) : NameAt(s, l, Len(names) + 1, b)

\* A string with one more character.
LEMMA OneMore ==
  ASSUME NEW S, NEW s \in Seq(S), NEW c \in S
  PROVE  /\ Append(s, c) \in Seq(S) /\ Len(s) \in Nat /\ Len(Append(s, c)) = Len(s) + 1
         /\ Append(s, c)[Len(s) + 1] = c
         /\ \A i \in 1..Len(s) : Append(s, c)[i] = s[i]
OBVIOUS

\* A directory stays where it is when the path goes on.
LEMMA DirectoryStays ==
  ASSUME NEW S, NEW s \in Seq(S), NEW c \in S, NEW n \in Seq(S), NEW k, NEW b \in 0..Len(s),
         DirectoryAt(s, n, k, b)
  PROVE  DirectoryAt(Append(s, c), n, k, b) /\ b \in 0..Len(Append(s, c))
  <1> DEFINE t == Append(s, c)
  <1>1. /\ Len(s) \in Nat /\ Len(t) = Len(s) + 1 /\ \A i \in 1..Len(s) : t[i] = s[i]
        /\ Len(n) \in Nat
    BY OneMore
  <1>. HIDE DEF t
  <1>2. /\ StartsAt(s, k, b) /\ b + Len(n) < Len(s) /\ s[(b + Len(n)) + 1] = BackSlash
        /\ \A j \in 1..Len(n) : n[j] = s[b + j]
    BY DEF DirectoryAt, Spelled
  <1>3. StartsAt(t, k, b)
    BY <1>1, <1>2 DEF StartsAt
  <1>4. \A j \in 1..Len(n) : b + j \in 1..Len(s)
    BY <1>1, <1>2
  <1>5. Spelled(t, n, b)
    BY <1>1, <1>2, <1>4 DEF Spelled
  <1>6. (b + Len(n)) + 1 \in 1..Len(s) /\ b + Len(n) < Len(t)
    BY <1>1, <1>2
  <1>. QED
    BY <1>1, <1>2, <1>3, <1>5, <1>6 DEF DirectoryAt, t

\* A name is one with another character, but for the separator.
LEMMA PlainAppend ==
  ASSUME NEW S, NEW n \in PlainNames(S), NEW c \in S, c # BackSlash
  PROVE  Append(n, c) \in PlainNames(S)
  <1>1. n \in Seq(S) /\ \A j \in 1..Len(n) : n[j] # BackSlash
    BY DEF PlainNames
  <1>2. /\ Append(n, c) \in Seq(S) /\ Len(n) \in Nat /\ Len(Append(n, c)) = Len(n) + 1
        /\ Append(n, c)[Len(n) + 1] = c /\ \A i \in 1..Len(n) : Append(n, c)[i] = n[i]
    BY <1>1, OneMore
  <1>3. ASSUME NEW j \in 1..Len(Append(n, c)) PROVE Append(n, c)[j] # BackSlash
    <2>1. j \in 1..Len(n) \/ j = Len(n) + 1
      BY <1>2
    <2>. QED
      BY <1>1, <1>2, <2>1
  <1>. QED
    BY <1>2, <1>3 DEF PlainNames

\* What goes on takes a character, or a separator makes it a directory.
LEMMA NameGrows ==
  ASSUME NEW S, NEW s \in Seq(S), NEW c \in S, NEW n \in Seq(S), NEW k, NEW b \in 0..Len(s),
         NameAt(s, n, k, b)
  PROVE  /\ b \in 0..Len(Append(s, c))
         /\ NameAt(Append(s, c), Append(n, c), k, b)
         /\ c = BackSlash => DirectoryAt(Append(s, c), n, k, b)
  <1> DEFINE t == Append(s, c)
             m == Append(n, c)
  <1>1. /\ Len(s) \in Nat /\ Len(t) = Len(s) + 1 /\ \A i \in 1..Len(s) : t[i] = s[i]
        /\ t[Len(s) + 1] = c
    BY OneMore
  <1>2. /\ Len(n) \in Nat /\ Len(m) = Len(n) + 1 /\ \A i \in 1..Len(n) : m[i] = n[i]
        /\ m[Len(n) + 1] = c
    BY OneMore
  <1>. HIDE DEF t, m
  <1>3. /\ StartsAt(s, k, b) /\ b + Len(n) = Len(s)
        /\ \A j \in 1..Len(n) : n[j] = s[b + j]
    BY DEF NameAt, Spelled
  <1>4. StartsAt(t, k, b)
    BY <1>1, <1>3 DEF StartsAt
  <1>5. \A j \in 1..Len(n) : b + j \in 1..Len(s) /\ t[b + j] = n[j]
    BY <1>1, <1>2, <1>3
  <1>6. Spelled(t, n, b) /\ b + Len(n) < Len(t)
    BY <1>1, <1>2, <1>3, <1>5 DEF Spelled
  <1>7. ASSUME NEW j \in 1..Len(m) PROVE m[j] = t[b + j]
    <2>1. CASE j \in 1..Len(n)
      BY <1>2, <1>5, <2>1
    <2>2. CASE j = Len(n) + 1
      BY <1>1, <1>2, <1>3, <2>2
    <2>. QED
      BY <1>2, <2>1, <2>2
  <1>8. Spelled(t, m, b) /\ b + Len(m) = Len(t)
    BY <1>1, <1>2, <1>3, <1>7 DEF Spelled
  <1>9. (b + Len(n)) + 1 = Len(s) + 1
    BY <1>3
  <1>. QED
    BY <1>1, <1>4, <1>6, <1>8, <1>9 DEF DirectoryAt, NameAt, t, m

\* The pieces of a path whose last name goes on.
LEMMA PiecesChar ==
  ASSUME NEW S, NEW s, NEW names, NEW l, Pieces(S, s, names, l), NEW c \in S, c # BackSlash
  PROVE  Pieces(S, Append(s, c), names, Append(l, c))
  <1>1. /\ s \in Seq(S) /\ l \in Seq(S) /\ names \in Seq(Seq(S)) /\ Reads(S, s, names, l)
        /\ names \in Seq(PlainNames(S)) /\ l \in PlainNames(S)
    BY DEF Pieces, Reads
  <1>2. Reads(S, Append(s, c), names, Append(l, c)) /\ Append(l, c) \in PlainNames(S)
    BY <1>1, ReadsChar, PlainAppend
  <1>3. ASSUME NEW k \in 1..Len(names)
        PROVE  \E b \in 0..Len(Append(s, c)) : DirectoryAt(Append(s, c), names[k], k, b)
    <2>1. PICK b \in 0..Len(s) : DirectoryAt(s, names[k], k, b)
      BY DEF Pieces
    <2>2. names[k] \in Seq(S)
      BY <1>1
    <2>. QED
      BY <1>1, <2>1, <2>2, DirectoryStays
  <1>4. \E b \in 0..Len(Append(s, c)) : NameAt(Append(s, c), Append(l, c), Len(names) + 1, b)
    <2>1. PICK b \in 0..Len(s) : NameAt(s, l, Len(names) + 1, b)
      BY DEF Pieces
    <2>. QED
      BY <1>1, <2>1, NameGrows
  <1>. QED
    BY <1>1, <1>2, <1>3, <1>4 DEF Pieces

\* The pieces of a path with one more separator.
LEMMA PiecesSeparator ==
  ASSUME NEW S, BackSlash \in S, NEW s, NEW names, NEW l, Pieces(S, s, names, l)
  PROVE  Pieces(S, Append(s, BackSlash), Append(names, l), <<>>)
  <1> DEFINE t == Append(s, BackSlash)
             all == Append(names, l)
  <1>1. /\ s \in Seq(S) /\ l \in Seq(S) /\ names \in Seq(Seq(S)) /\ Reads(S, s, names, l)
        /\ names \in Seq(PlainNames(S)) /\ l \in PlainNames(S)
    BY DEF Pieces, Reads
  <1>2. Reads(S, t, all, <<>>) /\ all \in Seq(PlainNames(S)) /\ <<>> \in PlainNames(S)
    BY <1>1, ReadsSeparator DEF PlainNames
  <1>3. /\ Len(names) \in Nat /\ Len(all) = Len(names) + 1 /\ all[Len(names) + 1] = l
        /\ \A k \in 1..Len(names) : all[k] = names[k]
    BY <1>1, OneMore
  <1>4. Len(s) \in Nat /\ Len(t) = Len(s) + 1 /\ t[Len(s) + 1] = BackSlash
    BY <1>1, OneMore
  <1>. HIDE DEF all
  <1>5. ASSUME NEW k \in 1..Len(all) PROVE \E b \in 0..Len(t) : DirectoryAt(t, all[k], k, b)
    <2>1. CASE k \in 1..Len(names)
      <3>1. PICK b \in 0..Len(s) : DirectoryAt(s, names[k], k, b)
        BY <2>1 DEF Pieces
      <3>2. names[k] \in Seq(S) /\ all[k] = names[k]
        BY <1>1, <1>3, <2>1
      <3>. QED
        BY <1>1, <3>1, <3>2, DirectoryStays
    <2>2. CASE k = Len(names) + 1
      <3>1. PICK b \in 0..Len(s) : NameAt(s, l, Len(names) + 1, b)
        BY DEF Pieces
      <3>. QED
        BY <1>1, <1>3, <2>2, <3>1, NameGrows
    <2>. QED
      BY <1>3, <2>1, <2>2
  <1>6. NameAt(t, <<>>, Len(all) + 1, Len(t))
    BY <1>3, <1>4 DEF NameAt, StartsAt, Spelled
  <1>7. Len(t) \in 0..Len(t)
    BY <1>4
  <1>. QED
    BY <1>2, <1>5, <1>6, <1>7 DEF Pieces, all

\* So every path that is read has them.
LEMMA PiecesIs ==
  ASSUME NEW S, BackSlash \in S, NEW s, NEW names, NEW l, Reads(S, s, names, l)
  PROVE  Pieces(S, s, names, l)
  <1> DEFINE T == {t \in Seq(S) : \E ns, n : Pieces(S, t, ns, n)}
  <1>1. <<>> \in T
    <2>1. Reads(S, <<>>, <<>>, <<>>)
      BY ReadsNothing
    <2>2. NameAt(<<>>, <<>>, Len(<<>>) + 1, 0) /\ 0 \in 0..Len(<<>>)
      BY DEF NameAt, StartsAt, Spelled
    <2>3. <<>> \in Seq(PlainNames(S)) /\ <<>> \in PlainNames(S) /\ <<>> \in Seq(S)
      BY DEF PlainNames
    <2>4. Pieces(S, <<>>, <<>>, <<>>)
      BY <2>1, <2>2, <2>3 DEF Pieces
    <2>. QED
      BY <2>3, <2>4
  <1>2. ASSUME NEW t \in Seq(S), NEW c \in S, t \in T PROVE Append(t, c) \in T
    <2>1. PICK ns, n : Pieces(S, t, ns, n)
      BY <1>2
    <2>2. CASE c = BackSlash
      BY <2>1, <2>2, PiecesSeparator, OneMore
    <2>3. CASE c # BackSlash
      BY <2>1, <2>3, PiecesChar, OneMore
    <2>. QED
      BY <2>2, <2>3
  <1>. HIDE DEF T
  <1>3. s \in T
    <2>1. s \in Seq(S)
      BY DEF Reads
    <2>. QED
      BY <1>1, <1>2, <2>1, AllSequences
  <1>4. PICK ns, n : Pieces(S, s, ns, n)
    BY <1>3 DEF T
  <1>5. names = ns /\ l = n
    BY <1>4, ReadsOnce DEF Pieces
  <1>. QED
    BY <1>4, <1>5
-----------------------------------------------------------------------------
(***************************************************************************)
(* A component of a path ends in a dot when a dot of the path is in front  *)
(* of a separator or at the end.                                           *)
(***************************************************************************)
DotEnds(s, i) == s[i] = Dot /\ (i = Len(s) \/ s[i + 1] = BackSlash)

EndsInDot(n) == n # <<>> /\ Last(n) = Dot

DotsFound(s, names, l) ==
  /\ (\E i \in 1..(Len(s) - 1) : DotEnds(s, i)) => \E k \in 1..Len(names) : EndsInDot(names[k])
  /\ s # <<>> /\ s[Len(s)] = Dot => EndsInDot(l)

\* The dots at the ends of names, of a path whose last name goes on.
LEMMA DotsChar ==
  ASSUME NEW S, NEW s, NEW names, NEW l, Reads(S, s, names, l), DotsFound(s, names, l),
         NEW c \in S, c # BackSlash
  PROVE  DotsFound(Append(s, c), names, Append(l, c))
  <1> DEFINE t == Append(s, c)
  <1>1. s \in Seq(S) /\ l \in Seq(S)
    BY DEF Reads
  <1>2. /\ Len(s) \in Nat /\ Len(t) = Len(s) + 1 /\ t[Len(s) + 1] = c
        /\ \A i \in 1..Len(s) : t[i] = s[i]
    BY <1>1, OneMore
  <1>3. Append(l, c) # <<>> /\ Last(Append(l, c)) = c
    BY <1>1, OfAppend
  <1>. HIDE DEF t
  <1>4. ASSUME NEW i \in 1..(Len(t) - 1), DotEnds(t, i)
        PROVE  \E k \in 1..Len(names) : EndsInDot(names[k])
    <2>1. i # Len(s)
      BY <1>2, <1>4 DEF DotEnds
    <2>2. i \in 1..(Len(s) - 1) /\ t[i] = s[i] /\ t[i + 1] = s[i + 1] /\ i # Len(t)
      BY <1>2, <2>1
    <2>. QED
      BY <1>4, <2>2 DEF DotEnds, DotsFound
  <1>. QED
    BY <1>2, <1>3, <1>4 DEF DotsFound, EndsInDot, t

\* The dots at the ends of names, of a path with one more separator.
LEMMA DotsSeparator ==
  ASSUME NEW S, BackSlash \in S, NEW s, NEW names, NEW l, Reads(S, s, names, l), DotsFound(s, names, l)
  PROVE  DotsFound(Append(s, BackSlash), Append(names, l), <<>>)
  <1> DEFINE t == Append(s, BackSlash)
             all == Append(names, l)
  <1>1. s \in Seq(S) /\ l \in Seq(S) /\ names \in Seq(Seq(S))
    BY DEF Reads
  <1>2. /\ Len(s) \in Nat /\ Len(t) = Len(s) + 1 /\ t[Len(s) + 1] = BackSlash
        /\ \A i \in 1..Len(s) : t[i] = s[i]
    BY <1>1, OneMore
  <1>3. /\ Len(names) \in Nat /\ Len(all) = Len(names) + 1 /\ all[Len(names) + 1] = l
        /\ \A k \in 1..Len(names) : all[k] = names[k]
    BY <1>1, OneMore
  <1>. HIDE DEF t, all
  <1>4. ASSUME NEW i \in 1..(Len(t) - 1), DotEnds(t, i)
        PROVE  \E k \in 1..Len(all) : EndsInDot(all[k])
    <2>1. CASE i = Len(s)
      <3>1. EndsInDot(l)
        BY <1>2, <1>4, <2>1 DEF DotEnds, DotsFound
      <3>2. Len(names) + 1 \in 1..Len(all)
        BY <1>3
      <3>. QED
        BY <1>3, <3>1, <3>2
    <2>2. CASE i # Len(s)
      <3>1. i \in 1..(Len(s) - 1) /\ t[i] = s[i] /\ t[i + 1] = s[i + 1] /\ i # Len(t)
        BY <1>2, <2>2
      <3>2. PICK k \in 1..Len(names) : EndsInDot(names[k])
        BY <1>4, <3>1 DEF DotEnds, DotsFound
      <3>3. k \in 1..Len(all) /\ all[k] = names[k]
        BY <1>3
      <3>. QED
        BY <3>2, <3>3
    <2>. QED
      BY <2>1, <2>2
  <1>5. t[Len(t)] # Dot
    BY <1>2 DEF Dot, BackSlash
  <1>. QED
    BY <1>4, <1>5 DEF DotsFound, t, all

\* So they are found in every path that is read.
LEMMA DotsAreFound ==
  ASSUME NEW S, BackSlash \in S, NEW s, NEW names, NEW l, Reads(S, s, names, l)
  PROVE  DotsFound(s, names, l)
  <1> DEFINE T == {t \in Seq(S) : \E ns, n : Reads(S, t, ns, n) /\ DotsFound(t, ns, n)}
  <1>1. <<>> \in T
    <2>1. Reads(S, <<>>, <<>>, <<>>) /\ <<>> \in Seq(S)
      BY ReadsNothing
    <2>2. DotsFound(<<>>, <<>>, <<>>)
      BY DEF DotsFound
    <2>. QED
      BY <2>1, <2>2
  <1>2. ASSUME NEW t \in Seq(S), NEW c \in S, t \in T PROVE Append(t, c) \in T
    <2>1. PICK ns, n : Reads(S, t, ns, n) /\ DotsFound(t, ns, n)
      BY <1>2
    <2>2. CASE c = BackSlash
      BY <2>1, <2>2, ReadsSeparator, DotsSeparator, OneMore
    <2>3. CASE c # BackSlash
      BY <2>1, <2>3, ReadsChar, DotsChar, OneMore
    <2>. QED
      BY <2>2, <2>3
  <1>. HIDE DEF T
  <1>3. s \in T
    <2>1. s \in Seq(S)
      BY DEF Reads
    <2>. QED
      BY <1>1, <1>2, <2>1, AllSequences
  <1>4. PICK ns, n : Reads(S, s, ns, n) /\ DotsFound(s, ns, n)
    BY <1>3 DEF T
  <1>5. names = ns /\ l = n
    BY <1>4, ReadsOnce
  <1>. QED
    BY <1>4, <1>5
-----------------------------------------------------------------------------
(***************************************************************************)
(* What may be left of the components that are entered: names of G, and in *)
(* front an empty one, when it is kept there.                              *)
(***************************************************************************)
Rests(G, K, stack) ==
  \A k \in 1..Len(stack) : stack[k] \in G \/ (k = 1 /\ 1 \in K /\ stack[k] = <<>>)

\* What is entered of names of N, and kept without its dot, is in G.
Enters(S, N, G) ==
  /\ N \subseteq PlainNames(S) /\ G \subseteq PlainNames(S)
  /\ \A n \in N : n \notin {<<>>, <<Dot>>, <<Dot, Dot>>} => WithoutLastDot(n) \in G

\* What rests on a stack still does without its last name.
LEMMA RestsPop ==
  ASSUME NEW S, NEW G, NEW K, NEW stack \in Seq(S), Rests(G, K, stack)
  PROVE  Pop(stack) \in Seq(S) /\ Rests(G, K, Pop(stack))
  <1>1. CASE stack = <<>>
    BY <1>1 DEF Pop
  <1>2. CASE stack # <<>>
    <2> DEFINE f == Front(stack)
    <2>1. /\ f \in Seq(S) /\ Last(stack) \in S /\ stack = Append(f, Last(stack))
          /\ Len(stack) \in Nat /\ Len(f) = Len(stack) - 1
      BY <1>2, FrontLast
    <2>2. Pop(stack) = f
      BY <1>2 DEF Pop
    <2>. HIDE DEF f
    <2>3. \A k \in 1..Len(f) : k \in 1..Len(stack) /\ stack[k] = f[k]
      BY <2>1, OneMore
    <2>. QED
      BY <2>1, <2>2, <2>3 DEF Rests
  <1>. QED
    BY <1>1, <1>2

\* One more name of the kind rests on it.
LEMMA RestsAppend ==
  ASSUME NEW S, NEW G, NEW K, NEW stack \in Seq(S), Rests(G, K, stack), NEW n \in S,
         n \in G \/ (stack = <<>> /\ 1 \in K /\ n = <<>>)
  PROVE  Append(stack, n) \in Seq(S) /\ Rests(G, K, Append(stack, n))
  <1>1. /\ Len(stack) \in Nat /\ Len(Append(stack, n)) = Len(stack) + 1
        /\ Append(stack, n)[Len(stack) + 1] = n /\ Append(stack, n) \in Seq(S)
        /\ \A k \in 1..Len(stack) : Append(stack, n)[k] = stack[k]
    BY OneMore
  <1>2. stack = <<>> => Len(stack) + 1 = 1
    OBVIOUS
  <1>3. ASSUME NEW k \in 1..Len(Append(stack, n))
        PROVE  Append(stack, n)[k] \in G \/ (k = 1 /\ 1 \in K /\ Append(stack, n)[k] = <<>>)
    <2>1. k \in 1..Len(stack) \/ k = Len(stack) + 1
      BY <1>1
    <2>. QED
      BY <1>1, <1>2, <2>1 DEF Rests
  <1>. QED
    BY <1>1, <1>3 DEF Rests

\* So all the names of a path, entered one after the other, leave such a stack.
LEMMA EntersRests ==
  ASSUME NEW S, NEW N, NEW G, Enters(S, N, G), NEW K \in SUBSET {1}, NEW names \in Seq(N)
  PROVE  /\ EnterAll(Flagged(K, names)) \in Seq(PlainNames(S))
         /\ Rests(G, K, EnterAll(Flagged(K, names)))
  <1> DEFINE E(x) == EnterAll(Flagged(K, x))
             T == {x \in Seq(N) : E(x) \in Seq(PlainNames(S)) /\ Rests(G, K, E(x))}
  <1>1. /\ N \subseteq PlainNames(S) /\ G \subseteq PlainNames(S) /\ <<>> \in PlainNames(S)
        /\ PlainNames(S) \subseteq Seq(S) /\ Seq(N) \subseteq Seq(Seq(S))
    <2>1. N \subseteq Seq(S)
      BY DEF Enters, PlainNames
    <2>. QED
      BY <2>1 DEF Enters, PlainNames
  <1>2. E(<<>>) = <<>>
    BY EnterAllIs DEF Flagged
  <1>3. <<>> \in T
    <2>. HIDE DEF E
    <2>1. <<>> \in Seq(N) /\ <<>> \in Seq(PlainNames(S)) /\ Rests(G, K, <<>>)
      BY DEF Rests
    <2>. QED
      BY <1>2, <2>1
  <1>4. ASSUME NEW x \in Seq(N), NEW n \in N, x \in T PROVE Append(x, n) \in T
    <2>1. x \in Seq(Seq(S)) /\ n \in Seq(S) /\ Append(x, n) \in Seq(N)
      BY <1>1
    <2>2. E(Append(x, n)) = IF Len(x) + 1 \in K \/ n # <<>> THEN Enter(E(x), n) ELSE E(x)
      BY <2>1, EnterFlagged
    <2> DEFINE st == E(x)
    <2>3. st \in Seq(PlainNames(S)) /\ Rests(G, K, st)
      BY <1>4
    <2>4. Len(x) + 1 \in K => 1 \in K /\ st = <<>>
      <3>1. SUFFICES ASSUME Len(x) + 1 \in K PROVE 1 \in K /\ x = <<>>
        BY <1>2
      <3>. QED
        BY <2>1, <3>1
    <2>. HIDE DEF E
    <2>. HIDE DEF st
    <2>5. CASE n = <<Dot>>
      BY <2>1, <2>2, <2>3, <2>5 DEF Enter, st
    <2>6. CASE n = <<Dot, Dot>>
      <3>1. Pop(st) \in Seq(PlainNames(S)) /\ Rests(G, K, Pop(st))
        BY <2>3, RestsPop
      <3>2. n # <<>> /\ n # <<Dot>>
        BY <2>6
      <3>. QED
        BY <2>1, <2>2, <2>6, <3>1, <3>2 DEF Enter, st
    <2>7. CASE n = <<>>
      <3>1. WithoutLastDot(n) = <<>> /\ n # <<Dot>> /\ n # <<Dot, Dot>>
        BY <2>7 DEF WithoutLastDot
      <3>2. CASE Len(x) + 1 \in K
        <4>1. /\ Append(st, <<>>) \in Seq(PlainNames(S)) /\ Rests(G, K, Append(st, <<>>))
          BY <1>1, <2>3, <2>4, <3>2, RestsAppend
        <4>. QED
          BY <2>1, <2>2, <3>1, <3>2, <4>1 DEF Enter, st
      <3>. QED
        BY <2>1, <2>2, <2>3, <2>7, <3>2 DEF st
    <2>8. CASE n \notin {<<>>, <<Dot>>, <<Dot, Dot>>}
      <3>1. WithoutLastDot(n) \in G
        BY <2>8 DEF Enters
      <3>2. Append(st, WithoutLastDot(n)) \in Seq(PlainNames(S)) /\ Rests(G, K, Append(st, WithoutLastDot(n)))
        BY <1>1, <2>3, <3>1, RestsAppend
      <3>. QED
        BY <2>1, <2>2, <2>8, <3>2 DEF Enter, st
    <2>. QED
      BY <2>5, <2>6, <2>7, <2>8
  <1>. HIDE DEF T
  <1>5. names \in T
    BY <1>3, <1>4, AllSequences
  <1>. QED
    BY <1>5 DEF T

\* So are the components that are left, but the last one, which is as it was.
LEMMA DoneRests ==
  ASSUME NEW S, NEW N, NEW G, Enters(S, N, G), NEW marked, NEW s, NEW names \in Seq(N),
         NEW l \in PlainNames(S), Reads(S, s, names, l)
  PROVE  LET done == Done(Components(marked, s))
         IN  /\ done \in Seq(PlainNames(S))
             /\ done # <<>> => Rests(G, FirstKept(marked), Front(done))
  <1> DEFINE K    == FirstKept(marked)
             st   == EnterAll(Flagged(K, names))
             done == Done(Components(marked, s))
  <1>1. K \in SUBSET {1}
    BY DEF FirstKept
  <1>. HIDE DEF K
  <1>2. st \in Seq(PlainNames(S)) /\ Rests(G, K, st)
    BY <1>1, EntersRests
  <1>3. done = EnterLast(st, l)
    BY DoneOf DEF K
  <1>. HIDE DEF st, done
  <1>4. Pop(st) \in Seq(PlainNames(S)) /\ Rests(G, K, Pop(st))
    BY <1>2, RestsPop
  <1>5. ASSUME NEW x \in Seq(PlainNames(S)), Rests(G, K, x)
        PROVE  x # <<>> => Rests(G, K, Front(x))
    BY <1>5, RestsPop DEF Pop
  <1>6. Append(st, l) \in Seq(PlainNames(S)) /\ Front(Append(st, l)) = st
    BY <1>2, OfAppend
  <1>7. done \in {st, Pop(st), Append(st, l)}
    BY <1>3 DEF EnterLast
  <1>8. done \in Seq(PlainNames(S)) /\ (done # <<>> => Rests(G, K, Front(done)))
    BY <1>2, <1>4, <1>5, <1>6, <1>7
  <1>. QED
    BY <1>8 DEF K, done
-----------------------------------------------------------------------------
(***************************************************************************)
(* No separators that follow one another, and none in front unless it is   *)
(* kept there.                                                             *)
(***************************************************************************)
Single(K, d) ==
  /\ \A i \in 2..Len(d) : d[i - 1] # BackSlash \/ d[i] # BackSlash
  /\ 1 \notin K /\ d # <<>> => d[1] # BackSlash

FullNames(S) == PlainNames(S) \ {<<>>}

SeparatorLast(d) == d = <<>> \/ d[Len(d)] = BackSlash

\* No separators in a row come from a name at the end.
LEMMA SingleName ==
  ASSUME NEW S, NEW K, NEW d \in Seq(S), Single(K, d), NEW n \in PlainNames(S)
  PROVE  d \o n \in Seq(S) /\ Single(K, d \o n)
  <1> DEFINE t == d \o n
  <1>1. /\ n \in Seq(S) /\ Len(n) \in Nat /\ Len(d) \in Nat /\ \A j \in 1..Len(n) : n[j] # BackSlash
    BY DEF PlainNames
  <1>2. /\ t \in Seq(S) /\ Len(t) = Len(d) + Len(n)
        /\ \A k \in 1..(Len(d) + Len(n)) : t[k] = IF k <= Len(d) THEN d[k] ELSE n[k - Len(d)]
    BY <1>1, Concatenation
  <1>. HIDE DEF t
  <1>3. ASSUME NEW i \in 2..Len(t) PROVE t[i - 1] # BackSlash \/ t[i] # BackSlash
    <2>1. CASE i <= Len(d)
      <3>1. i \in 2..Len(d) /\ t[i] = d[i] /\ t[i - 1] = d[i - 1]
        BY <1>1, <1>2, <2>1
      <3>. QED
        BY <3>1 DEF Single
    <2>2. CASE i > Len(d)
      <3>1. i - Len(d) \in 1..Len(n) /\ t[i] = n[i - Len(d)]
        BY <1>1, <1>2, <2>2
      <3>. QED
        BY <1>1, <3>1
    <2>. QED
      BY <1>1, <2>1, <2>2
  <1>4. 1 \notin K /\ t # <<>> => t[1] # BackSlash
    <2>1. CASE Len(d) > 0
      <3>1. t[1] = d[1] /\ d # <<>>
        BY <1>1, <1>2, <2>1
      <3>. QED
        BY <3>1 DEF Single
    <2>2. CASE Len(d) = 0 /\ Len(n) > 0
      <3>1. t[1] = n[1] /\ 1 \in 1..Len(n)
        BY <1>1, <1>2, <2>2
      <3>. QED
        BY <1>1, <3>1
    <2>3. CASE Len(d) = 0 /\ Len(n) = 0
      BY <1>2, <2>3
    <2>. QED
      BY <1>1, <2>1, <2>2, <2>3
  <1>. QED
    BY <1>2, <1>3, <1>4 DEF Single, t

\* Nor from a directory that has a name.
LEMMA SingleDirectory ==
  ASSUME NEW S, BackSlash \in S, NEW K, NEW d \in Seq(S), Single(K, d), SeparatorLast(d),
         NEW n \in PlainNames(S), n # <<>> \/ (d = <<>> /\ 1 \in K)
  PROVE  Single(K, (d \o n) \o <<BackSlash>>) /\ SeparatorLast((d \o n) \o <<BackSlash>>)
  <1> DEFINE t == d \o n
             u == Append(t, BackSlash)
  <1>1. /\ n \in Seq(S) /\ Len(n) \in Nat /\ Len(d) \in Nat /\ \A j \in 1..Len(n) : n[j] # BackSlash
    BY DEF PlainNames
  <1>2. /\ t \in Seq(S) /\ Len(t) = Len(d) + Len(n)
        /\ \A k \in 1..(Len(d) + Len(n)) : t[k] = IF k <= Len(d) THEN d[k] ELSE n[k - Len(d)]
    BY <1>1, Concatenation
  <1>3. Single(K, t)
    BY SingleName
  <1>. HIDE DEF t
  <1>4. /\ u \in Seq(S) /\ Len(t) \in Nat /\ Len(u) = Len(t) + 1 /\ u[Len(t) + 1] = BackSlash
        /\ \A i \in 1..Len(t) : u[i] = t[i]
    <2>1. t \in Seq(S)
      BY <1>2
    <2>. QED
      BY <2>1, OneMore
  <1>5. (d \o n) \o <<BackSlash>> = u
    BY <1>2 DEF t
  <1>. HIDE DEF u
  <1>6. t # <<>> => t[Len(t)] # BackSlash
    <2>1. CASE n # <<>>
      <3>1. Len(n) \in 1..Len(n) /\ Len(t) > Len(d) /\ Len(t) - Len(d) = Len(n)
        BY <1>1, <1>2, <2>1
      <3>2. t[Len(t)] = n[Len(n)]
        BY <1>1, <1>2, <3>1
      <3>. QED
        BY <1>1, <3>1, <3>2
    <2>2. CASE n = <<>> /\ d = <<>>
      BY <1>2, <2>2
    <2>. QED
      BY <2>1, <2>2
  <1>7. ASSUME NEW i \in 2..Len(u) PROVE u[i - 1] # BackSlash \/ u[i] # BackSlash
    <2>1. CASE i <= Len(t)
      <3>1. i \in 2..Len(t) /\ u[i] = t[i] /\ u[i - 1] = t[i - 1]
        BY <1>4, <2>1
      <3>. QED
        BY <1>3, <3>1 DEF Single
    <2>2. CASE i = Len(t) + 1
      <3>1. Len(t) \in 1..Len(t) /\ i - 1 = Len(t) /\ t # <<>>
        BY <1>4, <2>2
      <3>. QED
        BY <1>4, <1>6, <3>1
    <2>. QED
      BY <1>4, <2>1, <2>2
  <1>8. 1 \notin K => u[1] # BackSlash
    <2>1. CASE n # <<>>
      <3>1. 1 \in 1..Len(t) /\ t # <<>> /\ u[1] = t[1]
        BY <1>1, <1>2, <1>4, <2>1
      <3>. QED
        BY <1>3, <3>1 DEF Single
    <2>. QED
      BY <2>1
  <1>9. u[Len(u)] = BackSlash
    BY <1>4
  <1>. QED
    BY <1>5, <1>7, <1>8, <1>9 DEF Single, SeparatorLast

\* Nor from all the directories of a stack.
LEMMA DirectoriesSingle ==
  ASSUME NEW S, BackSlash \in S, NEW K, NEW stack \in Seq(PlainNames(S)), Rests(FullNames(S), K, stack)
  PROVE  Directories(stack) \in Seq(S) /\ Single(K, Directories(stack)) /\ SeparatorLast(Directories(stack))
  <1> DEFINE Good(x) == Directories(x) \in Seq(S) /\ Single(K, Directories(x)) /\ SeparatorLast(Directories(x))
             T == {x \in Seq(PlainNames(S)) : Rests(FullNames(S), K, x) => Good(x)}
  <1>1. <<>> \in T
    <2>1. Directories(<<>>) = <<>> /\ <<>> \in Seq(S)
      BY DirectoriesIs
    <2>2. Single(K, <<>>) /\ SeparatorLast(<<>>)
      BY DEF Single, SeparatorLast
    <2>3. <<>> \in Seq(PlainNames(S))
      OBVIOUS
    <2>4. Good(<<>>)
      BY <2>1, <2>2, Zenon
    <2>. QED
      BY <2>3, <2>4
  <1>2. ASSUME NEW x \in Seq(PlainNames(S)), NEW n \in PlainNames(S), x \in T PROVE Append(x, n) \in T
    <2>. SUFFICES ASSUME Rests(FullNames(S), K, Append(x, n)) PROVE Good(Append(x, n))
      BY OneMore
    <2>1. /\ Append(x, n) # <<>> /\ Front(Append(x, n)) = x /\ Append(x, n) \in Seq(PlainNames(S))
      BY OfAppend
    <2>2. Pop(Append(x, n)) = x
      BY <2>1 DEF Pop
    <2>3. Rests(FullNames(S), K, x)
      BY <2>1, <2>2, RestsPop
    <2>4. Good(x)
      BY <1>2, <2>3
    <2>5. n # <<>> \/ (x = <<>> /\ 1 \in K)
      <3>1. Len(x) \in Nat /\ Append(x, n)[Len(x) + 1] = n /\ Len(x) + 1 \in 1..Len(Append(x, n))
        BY OneMore
      <3>2. n \in FullNames(S) \/ (Len(x) + 1 = 1 /\ 1 \in K /\ n = <<>>)
        BY <3>1 DEF Rests
      <3>3. Len(x) + 1 = 1 => x = <<>>
        BY <3>1
      <3>. QED
        BY <3>2, <3>3 DEF FullNames
    <2>6. x \in Seq(Seq(S)) /\ n \in Seq(S)
      BY NamesAreStrings DEF PlainNames
    <2>7. /\ Directories(Append(x, n)) = (Directories(x) \o n) \o <<BackSlash>>
          /\ Directories(Append(x, n)) \in Seq(S)
      BY <2>6, DirectoriesAppend
    <2>8. x = <<>> => Directories(x) = <<>>
      BY DirectoriesIs
    <2> DEFINE d == Directories(x)
    <2>9. d \in Seq(S) /\ Single(K, d) /\ SeparatorLast(d) /\ (n # <<>> \/ (d = <<>> /\ 1 \in K))
      BY <2>4, <2>5, <2>8
    <2>. HIDE DEF d
    <2>10. Single(K, (d \o n) \o <<BackSlash>>) /\ SeparatorLast((d \o n) \o <<BackSlash>>)
      BY <2>9, SingleDirectory
    <2>. QED
      BY <2>7, <2>10 DEF d
  <1>. HIDE DEF T
  <1>3. stack \in T
    BY <1>1, <1>2, AllSequences
  <1>. QED
    BY <1>3 DEF T

\* Nor from a path put together of them and a last name.
LEMMA JoinSingle ==
  ASSUME NEW S, BackSlash \in S, NEW K, NEW done \in Seq(PlainNames(S)),
         done # <<>> => Rests(FullNames(S), K, Front(done))
  PROVE  Join(done) \in Seq(S) /\ Single(K, Join(done))
  <1>1. CASE done = <<>>
    BY <1>1 DEF Join, Single
  <1>2. CASE done # <<>>
    <2>1. Front(done) \in Seq(PlainNames(S)) /\ Last(done) \in PlainNames(S)
      BY <1>2, FrontLast
    <2>2. Directories(Front(done)) \in Seq(S) /\ Single(K, Directories(Front(done)))
      BY <1>2, <2>1, DirectoriesSingle
    <2>3. Join(done) = Directories(Front(done)) \o Last(done)
      BY <1>2 DEF Join
    <2>. QED
      BY <2>1, <2>2, <2>3, SingleName
  <1>. QED
    BY <1>1, <1>2
-----------------------------------------------------------------------------
\* Single names with the separator behind them, as they are.
LEMMA ComponentsRead ==
  ASSUME NEW S, BackSlash \in S, NEW s \in Seq(S)
  PROVE  \E names, l : Pieces(S, s, names, l)
  <1>1. Split(s) \in Seq(Seq(S)) /\ Split(s) # <<>>
    BY SplitIs DEF Lists
  <1>2. /\ Front(Split(s)) \in Seq(Seq(S)) /\ Last(Split(s)) \in Seq(S)
        /\ Split(s) = Append(Front(Split(s)), Last(Split(s)))
    BY <1>1, FrontLast
  <1>3. Reads(S, s, Front(Split(s)), Last(Split(s)))
    BY <1>2 DEF Reads
  <1>. QED
    BY <1>3, PiecesIs

\* Every name is entered, and what is left of it is not empty.
LEMMA AllEntered ==
  ASSUME NEW S
  PROVE  Enters(S, PlainNames(S), FullNames(S))
  <1>. SUFFICES ASSUME NEW n \in PlainNames(S), n \notin {<<>>, <<Dot>>, <<Dot, Dot>>}
                PROVE  WithoutLastDot(n) \in FullNames(S)
    BY DEF Enters, FullNames
  <1>1. n \in Seq(S) /\ \A j \in 1..Len(n) : n[j] # BackSlash
    BY DEF PlainNames
  <1>2. CASE Last(n) = Dot
    <2> DEFINE f == Front(n)
    <2>1. f \in Seq(S) /\ n = Append(f, Dot) /\ Last(n) \in S
      BY <1>1, <1>2, FrontLast
    <2>2. WithoutLastDot(n) = f
      BY <1>2 DEF WithoutLastDot
    <2>. HIDE DEF f
    <2>3. /\ Len(f) \in Nat /\ Len(n) = Len(f) + 1 /\ \A i \in 1..Len(f) : n[i] = f[i]
      BY <1>2, <2>1, OneMore
    <2>4. f \in PlainNames(S)
      BY <1>1, <2>1, <2>3 DEF PlainNames
    <2>5. f # <<>>
      <3>1. Append(<<>>, Dot) = <<Dot>>
        OBVIOUS
      <3>. QED
        BY <2>1, <3>1
    <2>. QED
      BY <2>2, <2>4, <2>5 DEF FullNames
  <1>3. CASE Last(n) # Dot
    BY <1>3 DEF WithoutLastDot, FullNames
  <1>. QED
    BY <1>2, <1>3

\* Trimmed keeps the characters it starts with.
LEMMA TrimmedPrefix ==
  ASSUME NEW S, NEW s \in Seq(S), NEW T, NEW floor \in 0..Len(s)
  PROVE  /\ Trimmed(s, T, floor) \in Seq(S) /\ Len(Trimmed(s, T, floor)) \in 0..Len(s)
         /\ \A k \in 1..Len(Trimmed(s, T, floor)) : Trimmed(s, T, floor)[k] = s[k]
  <1>1. PICK n \in floor..Len(s) :
           /\ Trimmed(s, T, floor) = SubSeq(s, 1, n)
           /\ SubSeq(s, 1, n) \in Seq(S) /\ Len(SubSeq(s, 1, n)) = n
    BY TrimmedIs
  <1>2. n \in 0..Len(s) /\ \A k \in 1..n : SubSeq(s, 1, n)[k] = s[k]
    BY <1>1
  <1>. QED
    BY <1>1, <1>2

(***************************************************************************)
(* What a path is collapsed from and to: the marked part, the rest, what   *)
(* is left of the rest, and of both as much as is not trimmed.             *)
(***************************************************************************)
MarkedPart(text, m) == SubSeq(Converted(text), 1, m)

RestPart(text, m) == SubSeq(Converted(text), m + 1, Len(Converted(text)))

LeftOf(text, m) == Join(Done(Components(MarkedPart(text, m), RestPart(text, m))))

MarkedAndRest(S, text, m, marked, rest) ==
  /\ Len(text) \in Nat /\ m \in Nat /\ m <= Len(text)
  /\ marked \in Seq(S) /\ Len(marked) = m
  /\ rest \in Seq(S) /\ Len(rest) = Len(text) - m
  /\ \A k \in 1..m : marked[k] = Converted(text)[k]
  /\ \A k \in 1..(Len(text) - m) : rest[k] = Converted(text)[k + m]

\* A path is its marked part and the rest.
LEMMA MarkedAndRestIs ==
  ASSUME NEW S, BackSlash \in S, NEW text \in Seq(S), NEW m \in 0..Len(text)
  PROVE  MarkedAndRest(S, text, m, MarkedPart(text, m), RestPart(text, m))
  <1> DEFINE path == Converted(text)
  <1>1. path \in Seq(S) /\ Len(path) = Len(text) /\ Len(text) \in Nat
    BY ConvertedIs
  <1>2. 0 \in 0..Len(path) /\ m \in 0..Len(path) /\ Len(path) \in 0..Len(path) /\ 0 <= m /\ m <= Len(path)
    BY <1>1
  <1>. HIDE DEF path
  <1>3. /\ SubSeq(path, 0 + 1, m) \in Seq(S) /\ Len(SubSeq(path, 0 + 1, m)) = m - 0
        /\ \A k \in 1..Len(SubSeq(path, 0 + 1, m)) : SubSeq(path, 0 + 1, m)[k] = path[k + 0]
    BY <1>1, <1>2, SubSeqIs, Zenon
  <1>4. /\ SubSeq(path, m + 1, Len(path)) \in Seq(S)
        /\ Len(SubSeq(path, m + 1, Len(path))) = Len(path) - m
        /\ \A k \in 1..Len(SubSeq(path, m + 1, Len(path))) : SubSeq(path, m + 1, Len(path))[k] = path[k + m]
    BY <1>1, <1>2, SubSeqIs, Zenon
  <1>5. MarkedPart(text, m) = SubSeq(path, 0 + 1, m) /\ RestPart(text, m) = SubSeq(path, m + 1, Len(path))
    BY DEF MarkedPart, RestPart, path
  <1>6. \A k \in 1..m : MarkedPart(text, m)[k] = path[k]
    BY <1>3, <1>5
  <1>. QED
    BY <1>1, <1>2, <1>3, <1>4, <1>5, <1>6 DEF MarkedAndRest, path

CollapseOf(S, text, m, left, full) ==
  /\ left \in Seq(S) /\ full \in Seq(S) /\ Len(full) \in Nat /\ Len(left) \in Nat
  /\ Len(full) <= m + Len(left)
  /\ \A k \in 1..Len(full) : full[k] = IF k <= m THEN Converted(text)[k] ELSE left[k - m]

\* A collapsed path is the marked part and the path put together of the names left.
LEMMA CollapseIs ==
  ASSUME NEW S, BackSlash \in S, NEW text \in Seq(S), NEW m \in 0..Len(text), NEW skip
  PROVE  CollapseOf(S, text, m, LeftOf(text, m), Collapsed(text, m, skip))
  <1> DEFINE marked == MarkedPart(text, m)
             rest == RestPart(text, m)
             left == LeftOf(text, m)
             whole == marked \o left
             kept == IF skip THEN Trimmed(whole, {BackSlash}, m) ELSE whole
             full == Collapsed(text, m, skip)
  <1>1. full = Trimmed(kept, {Space, Dot}, 0)
    BY DEF Collapsed, Done, MarkedPart, RestPart, LeftOf
  <1>2. MarkedAndRest(S, text, m, marked, rest)
    BY MarkedAndRestIs
  <1>3. left \in Seq(S)
    BY <1>2, DoneIs DEF LeftOf, MarkedAndRest
  <1>4. marked \in Seq(S) /\ Len(marked) = m /\ \A k \in 1..m : marked[k] = Converted(text)[k]
    BY <1>2 DEF MarkedAndRest
  <1>. HIDE DEF marked, left
  <1>5. /\ whole \in Seq(S) /\ Len(whole) = m + Len(left) /\ Len(left) \in Nat
        /\ \A k \in 1..Len(whole) : whole[k] = IF k <= m THEN Converted(text)[k] ELSE left[k - m]
    <2>1. /\ whole \in Seq(S) /\ Len(whole) = Len(marked) + Len(left)
          /\ \A k \in 1..(Len(marked) + Len(left)) :
               whole[k] = IF k <= Len(marked) THEN marked[k] ELSE left[k - Len(marked)]
      BY <1>3, <1>4, Concatenation, Zenon
    <2>2. Len(left) \in Nat
      BY <1>3
    <2>. HIDE DEF whole
    <2>. QED
      BY <1>4, <2>1, <2>2
  <1>. HIDE DEF whole
  <1>6. kept \in Seq(S) /\ Len(kept) \in 0..Len(whole) /\ \A k \in 1..Len(kept) : kept[k] = whole[k]
    <2>1. CASE skip
      <3>1. m \in 0..Len(whole)
        BY <1>5
      <3>2. kept = Trimmed(whole, {BackSlash}, m)
        BY <2>1
      <3>. QED
        BY <1>5, <3>1, <3>2, TrimmedPrefix
    <2>2. CASE ~skip
      BY <1>5, <2>2
    <2>. QED
      BY <2>1, <2>2
  <1>. HIDE DEF kept
  <1>7. full \in Seq(S) /\ Len(full) \in 0..Len(kept) /\ \A k \in 1..Len(full) : full[k] = kept[k]
    <2>1. 0 \in 0..Len(kept)
      BY <1>6
    <2>. QED
      BY <1>1, <1>6, <2>1, TrimmedPrefix
  <1>. HIDE DEF full
  <1>8. Len(full) \in Nat /\ Len(kept) \in Nat /\ Len(whole) \in Nat /\ Len(full) <= Len(kept) /\ Len(kept) <= Len(whole)
    BY <1>5, <1>6, <1>7
  <1>9. \A k \in 1..Len(full) : full[k] = IF k <= m THEN Converted(text)[k] ELSE left[k - m]
    <2> TAKE k \in 1..Len(full)
    <2>1. k \in 1..Len(kept) /\ k \in 1..Len(whole)
      BY <1>8
    <2>. QED
      BY <1>5, <1>6, <1>7, <2>1
  <1>. QED
    BY <1>3, <1>5, <1>7, <1>8, <1>9 DEF CollapseOf, full, left

(***************************************************************************)
(* A collapsed path has no two separators behind its marked part that      *)
(* follow one another: none of the rest, and none of both.                 *)
(***************************************************************************)
LEMMA CollapsedSingle ==
  ASSUME NEW S, BackSlash \in S, NEW text \in Seq(S), NEW m \in 0..Len(text), NEW skip,
         NEW i \in (m + 1)..Len(Collapsed(text, m, skip)), i >= 2
  PROVE  Collapsed(text, m, skip)[i - 1] # BackSlash \/ Collapsed(text, m, skip)[i] # BackSlash
  <1> DEFINE marked == MarkedPart(text, m)
             rest == RestPart(text, m)
             left == LeftOf(text, m)
             K == FirstKept(marked)
             full == Collapsed(text, m, skip)
  <1>1. MarkedAndRest(S, text, m, marked, rest) /\ CollapseOf(S, text, m, left, full)
    BY MarkedAndRestIs, CollapseIs
  <1>. HIDE DEF full
  <1>2. PICK names, l : Pieces(S, rest, names, l)
    BY <1>1, ComponentsRead DEF MarkedAndRest
  <1> DEFINE done == Done(Components(marked, rest))
  <1>3. /\ done \in Seq(PlainNames(S))
        /\ done # <<>> => Rests(FullNames(S), K, Front(done))
    BY <1>2, AllEntered, DoneRests DEF Pieces
  <1>4. left = Join(done)
    BY DEF LeftOf
  <1>. HIDE DEF left, done, marked, K
  <1>5. Single(K, left)
    BY <1>3, <1>4, JoinSingle
  <1>6. i \in Nat /\ m \in Nat /\ Len(full) \in Nat /\ Len(left) \in Nat /\ i <= Len(full)
        /\ Len(full) <= m + Len(left) /\ i >= m + 1
    BY <1>1 DEF CollapseOf, MarkedAndRest, full
  <1>7. full[i] = left[i - m]
    <2>1. i \in 1..Len(full) /\ ~(i <= m)
      BY <1>6
    <2>. QED
      BY <1>1, <2>1 DEF CollapseOf
  <1>8. CASE i = m + 1
    <2>1. m \in 1..m /\ m \in 1..Len(full) /\ i - 1 = m /\ i - m = 1
      BY <1>6, <1>8
    <2>2. full[i - 1] = marked[Len(marked)] /\ marked # <<>>
      BY <1>1, <2>1 DEF CollapseOf, MarkedAndRest
    <2>3. marked[Len(marked)] = BackSlash => 1 \notin K
      BY <2>2 DEF K, FirstKept, Last
    <2>4. left # <<>>
      BY <1>6, <1>8
    <2>. QED
      BY <1>5, <1>7, <2>1, <2>2, <2>3, <2>4 DEF Single, full
  <1>9. CASE i > m + 1
    <2>1. i - m \in 2..Len(left) /\ (i - 1) - m = (i - m) - 1 /\ i - 1 \in 1..Len(full) /\ ~(i - 1 <= m)
      BY <1>6, <1>9
    <2>2. full[i - 1] = left[(i - m) - 1]
      BY <1>1, <2>1 DEF CollapseOf
    <2>. QED
      BY <1>5, <1>7, <2>1, <2>2 DEF Single, full
  <1>. QED
    BY <1>6, <1>8, <1>9
-----------------------------------------------------------------------------
(***************************************************************************)
(* A path that is collapsed already.                                       *)
(***************************************************************************)
SteadyNames(S) == {n \in FullNames(S) : Last(n) # Dot}

\* A name that does not end in a dot is not "." or "..".
LEMMA NoDotLast ==
  ASSUME NEW n, n # <<>> => Last(n) # Dot
  PROVE  n # <<Dot>> /\ n # <<Dot, Dot>>
  <1>1. Last(<<Dot>>) = Dot /\ <<Dot>> # <<>>
    BY DEF Last
  <1>2. Last(<<Dot, Dot>>) = Dot /\ <<Dot, Dot>> # <<>>
    BY DEF Last
  <1>. QED
    BY <1>1, <1>2

\* Names that are kept whole are all that is left of them.
LEMMA EnteredSame ==
  ASSUME NEW S, NEW K \in SUBSET {1}, NEW names \in Seq(PlainNames(S)), Rests(SteadyNames(S), K, names)
  PROVE  EnterAll(Flagged(K, names)) = names
  <1> DEFINE E(x) == EnterAll(Flagged(K, x))
             T == {x \in Seq(PlainNames(S)) : Rests(SteadyNames(S), K, x) => E(x) = x}
  <1>1. <<>> \in T
    <2>1. <<>> \in Seq(PlainNames(S))
      OBVIOUS
    <2>. QED
      BY <2>1, EnterAllIs DEF Flagged
  <1>2. ASSUME NEW x \in Seq(PlainNames(S)), NEW n \in PlainNames(S), x \in T PROVE Append(x, n) \in T
    <2>. SUFFICES ASSUME Rests(SteadyNames(S), K, Append(x, n)) PROVE E(Append(x, n)) = Append(x, n)
      BY OneMore
    <2>1. /\ Append(x, n) # <<>> /\ Front(Append(x, n)) = x /\ Append(x, n) \in Seq(PlainNames(S))
      BY OfAppend
    <2>2. Pop(Append(x, n)) = x
      BY <2>1 DEF Pop
    <2>3. Rests(SteadyNames(S), K, x)
      BY <2>1, <2>2, RestsPop
    <2>4. E(x) = x
      BY <1>2, <2>3
    <2>5. x \in Seq(Seq(S)) /\ n \in Seq(S)
      BY NamesAreStrings DEF PlainNames
    <2>6. E(Append(x, n)) = IF Len(x) + 1 \in K \/ n # <<>> THEN Enter(E(x), n) ELSE E(x)
      BY <2>5, EnterFlagged
    <2>. HIDE DEF E
    <2>7. n \in SteadyNames(S) \/ (Len(x) + 1 \in K /\ n = <<>>)
      <3>1. Len(x) \in Nat /\ Append(x, n)[Len(x) + 1] = n /\ Len(x) + 1 \in 1..Len(Append(x, n))
        BY OneMore
      <3>. QED
        BY <3>1 DEF Rests
    <2>8. Len(x) + 1 \in K \/ n # <<>>
      BY <2>7 DEF SteadyNames, FullNames
    <2>9. WithoutLastDot(n) = n /\ n # <<Dot>> /\ n # <<Dot, Dot>>
      <3>1. n # <<>> => Last(n) # Dot
        BY <2>7 DEF SteadyNames
      <3>2. n # <<Dot>> /\ n # <<Dot, Dot>>
        BY <3>1, NoDotLast
      <3>. QED
        BY <3>1, <3>2 DEF WithoutLastDot
    <2>. QED
      BY <2>4, <2>6, <2>8, <2>9 DEF Enter
  <1>. HIDE DEF T
  <1>3. names \in T
    BY <1>1, <1>2, AllSequences
  <1>. QED
    BY <1>3 DEF T

\* Nothing is trimmed of a path whose last character stays.
LEMMA TrimmedSame ==
  ASSUME NEW S, NEW s \in Seq(S), NEW T, s # <<>>, s[Len(s)] \notin T, NEW floor \in 0..Len(s)
  PROVE  Trimmed(s, T, floor) = s
  <1>1. PICK n \in floor..Len(s) :
           /\ Trimmed(s, T, floor) = SubSeq(s, 1, n)
           /\ \A i \in (n + 1)..Len(s) : s[i] \in T
    BY TrimmedIs
  <1>2. n = Len(s)
    <2>1. n < Len(s) => Len(s) \in (n + 1)..Len(s)
      BY <1>1
    <2>. QED
      BY <1>1, <2>1
  <1>. QED
    BY <1>1, <1>2

\* No character of it is in the way of a second collapse.
Steady(text, m, skip) ==
  /\ text # <<>> /\ text[Len(text)] \notin {Space, Dot}
  /\ skip => text[Len(text)] # BackSlash
  /\ \A i \in 1..Len(text) : text[i] # Slash
  /\ \A i \in (m + 1)..Len(text) : i >= 2 => text[i - 1] # BackSlash \/ text[i] # BackSlash
  /\ \A i \in (m + 1)..Len(text) : ~DotEnds(text, i)

\* Its components are kept whole.
LEMMA SteadyComponents ==
  ASSUME NEW S, BackSlash \in S, NEW text \in Seq(S), NEW m \in 0..Len(text), NEW skip,
         Steady(text, m, skip), Converted(text) = text,
         NEW names, NEW l, Pieces(S, RestPart(text, m), names, l)
  PROVE  /\ Rests(SteadyNames(S), FirstKept(MarkedPart(text, m)), names)
         /\ l # <<Dot>> /\ l # <<Dot, Dot>>
  <1> DEFINE marked == MarkedPart(text, m)
             rest == RestPart(text, m)
             K == FirstKept(marked)
  <1>1. /\ Len(text) \in Nat /\ m \in Nat /\ m <= Len(text)
        /\ marked \in Seq(S) /\ Len(marked) = m
        /\ rest \in Seq(S) /\ Len(rest) = Len(text) - m
        /\ \A k \in 1..m : marked[k] = text[k]
        /\ \A k \in 1..(Len(text) - m) : rest[k] = text[k + m]
    <2>1. MarkedAndRest(S, text, m, marked, rest)
      BY MarkedAndRestIs
    <2>. HIDE DEF marked, rest
    <2>. QED
      BY <2>1 DEF MarkedAndRest
  <1>2. Pieces(S, rest, names, l)
    OBVIOUS
  <1>. HIDE DEF marked, rest
  <1>3. ASSUME NEW k \in 1..Len(names)
        PROVE  names[k] \in SteadyNames(S) \/ (k = 1 /\ 1 \in K /\ names[k] = <<>>)
    <2> DEFINE n == names[k]
    <2>1. PICK b \in 0..Len(rest) : DirectoryAt(rest, n, k, b)
      BY <1>2 DEF Pieces
    <2>2. n \in PlainNames(S) /\ n \in Seq(S) /\ Len(n) \in Nat
      <3>1. names \in Seq(PlainNames(S))
        BY <1>2 DEF Pieces
      <3>2. n \in PlainNames(S)
        BY <3>1
      <3>. QED
        BY <3>2 DEF PlainNames
    <2>. HIDE DEF n
    <2>3. /\ b \in Nat /\ b + Len(n) < Len(rest) /\ rest[(b + Len(n)) + 1] = BackSlash
          /\ \A j \in 1..Len(n) : n[j] = rest[b + j]
          /\ StartsAt(rest, k, b)
      BY <1>1, <2>1 DEF DirectoryAt, Spelled
    <2>4. (b + Len(n)) + 1 \in 1..Len(rest) /\ ((b + Len(n)) + 1) + m \in (m + 1)..Len(text)
      BY <1>1, <2>2, <2>3
    <2>5. text[((b + Len(n)) + 1) + m] = BackSlash
      BY <1>1, <2>3, <2>4
    <2>6. CASE n # <<>>
      <3>1. Last(n) # Dot
        <4>. SUFFICES ASSUME Last(n) = Dot PROVE FALSE
          OBVIOUS
        <4>1. Len(n) \in 1..Len(n) /\ n[Len(n)] = Dot
          BY <2>2, <2>6 DEF Last
        <4>2. b + Len(n) \in 1..Len(rest) /\ (b + Len(n)) + m \in (m + 1)..Len(text)
          BY <1>1, <2>2, <2>3, <4>1
        <4>3. text[(b + Len(n)) + m] = Dot
          BY <1>1, <2>3, <4>1, <4>2
        <4>4. ((b + Len(n)) + m) + 1 = ((b + Len(n)) + 1) + m
          BY <1>1, <2>2, <2>3
        <4>5. DotEnds(text, (b + Len(n)) + m)
          BY <2>5, <4>3, <4>4 DEF DotEnds
        <4>. QED
          BY <4>2, <4>5 DEF Steady
      <3>. QED
        BY <2>2, <2>6, <3>1 DEF n, SteadyNames, FullNames
    <2>7. CASE n = <<>>
      <3>1. Len(n) = 0
        BY <2>7
      <3>2. (b + 1) + m \in (m + 1)..Len(text) /\ text[(b + 1) + m] = BackSlash
        BY <2>3, <2>4, <2>5, <3>1
      <3>3. (b + 1) + m >= 2 => text[((b + 1) + m) - 1] # BackSlash
        BY <3>2 DEF Steady
      <3>4. k = 1
        <4>. SUFFICES ASSUME k # 1 PROVE FALSE
          OBVIOUS
        <4>1. b >= 1 /\ rest[b] = BackSlash
          BY <2>3 DEF StartsAt
        <4>2. b \in 1..Len(rest) /\ b \in 1..(Len(text) - m) /\ ((b + 1) + m) - 1 = b + m /\ (b + 1) + m >= 2
          BY <1>1, <2>3, <3>1, <4>1
        <4>3. text[b + m] = BackSlash
          BY <1>1, <4>1, <4>2
        <4>. QED
          BY <3>3, <4>2, <4>3
      <3>5. b = 0
        BY <2>3, <3>4 DEF StartsAt
      <3>6. 1 \in K
        <4>1. CASE m = 0
          <5>1. marked = <<>>
            BY <1>1, <4>1
          <5>. QED
            BY <5>1 DEF FirstKept
        <4>2. CASE m # 0
          <5>1. m \in 1..m /\ (0 + 1) + m >= 2 /\ ((0 + 1) + m) - 1 = m
            BY <1>1, <4>2
          <5>2. text[m] # BackSlash
            BY <3>3, <3>5, <5>1
          <5>3. Last(marked) # BackSlash
            BY <1>1, <5>1, <5>2 DEF Last
          <5>. QED
            BY <5>3 DEF FirstKept
        <4>. QED
          BY <4>1, <4>2
      <3>. QED
        BY <2>7, <3>4, <3>6 DEF n
    <2>. QED
      BY <2>6, <2>7
  <1>4. ASSUME l # <<>> PROVE Last(l) # Dot
    <2>1. PICK b \in 0..Len(rest) : NameAt(rest, l, Len(names) + 1, b)
      BY <1>2 DEF Pieces
    <2>2. l \in Seq(S) /\ Len(l) \in Nat /\ Len(l) \in 1..Len(l)
      BY <1>2, <1>4 DEF Pieces, PlainNames
    <2>3. b \in Nat /\ b + Len(l) = Len(rest) /\ l[Len(l)] = rest[b + Len(l)]
      <3>1. Len(rest) \in Nat
        BY <1>1
      <3>. QED
        BY <2>1, <2>2, <3>1 DEF NameAt, Spelled
    <2>4. Len(rest) \in 1..(Len(text) - m) /\ Len(rest) + m = Len(text)
      BY <1>1, <2>2, <2>3
    <2>5. rest[Len(rest)] = text[Len(text)]
      BY <1>1, <2>4
    <2>. QED
      BY <2>3, <2>5 DEF Steady, Last
  <1>5. l # <<Dot>> /\ l # <<Dot, Dot>>
    BY <1>4, NoDotLast
  <1>. QED
    BY <1>3, <1>5 DEF Rests, K, marked

(***************************************************************************)
(* A collapse leaves it as it is.                                          *)
(***************************************************************************)
LEMMA CollapsedSame ==
  ASSUME NEW S, BackSlash \in S, NEW text \in Seq(S), NEW m \in 0..Len(text), NEW skip,
         Steady(text, m, skip)
  PROVE  Collapsed(text, m, skip) = text
  <1> DEFINE marked == MarkedPart(text, m)
             rest == RestPart(text, m)
             K == FirstKept(marked)
             whole == marked \o Join(Done(Components(marked, rest)))
             kept == IF skip THEN Trimmed(whole, {BackSlash}, m) ELSE whole
  <1>1. Converted(text) = text
    <2>1. \A i \in DOMAIN text : text[i] # Slash
      BY DEF Steady
    <2>. QED
      BY <2>1 DEF Converted
  <1>2. Collapsed(text, m, skip) = Trimmed(kept, {Space, Dot}, 0)
    BY DEF Collapsed, Done, MarkedPart, RestPart
  <1>3. MarkedAndRest(S, text, m, marked, rest)
    BY MarkedAndRestIs
  <1>4. PICK names, l : Pieces(S, rest, names, l)
    BY <1>3, ComponentsRead DEF MarkedAndRest
  <1>5. /\ Rests(SteadyNames(S), K, names)
        /\ l # <<Dot>> /\ l # <<Dot, Dot>>
    BY <1>1, <1>4, SteadyComponents
  <1>. HIDE DEF marked, rest
  <1>6. Join(Done(Components(marked, rest))) = rest
    <2>1. K \in SUBSET {1} /\ names \in Seq(PlainNames(S)) /\ Reads(S, rest, names, l)
      BY <1>4 DEF FirstKept, Pieces
    <2>2. EnterAll(Flagged(K, names)) = names
      BY <1>5, <2>1, EnteredSame
    <2>3. Done(Components(marked, rest)) = EnterLast(names, l)
      BY <2>1, <2>2, DoneOf
    <2>4. EnterLast(names, l) = Append(names, l)
      BY <1>5 DEF EnterLast
    <2>5. Split(rest) = Append(names, l) /\ rest \in Seq(S)
      BY <2>1 DEF Reads
    <2>. QED
      BY <2>3, <2>4, <2>5, JoinSplit
  <1>7. whole = text
    <2>1. /\ Len(text) \in Nat /\ m \in Nat /\ m <= Len(text)
          /\ marked \in Seq(S) /\ Len(marked) = m
          /\ rest \in Seq(S) /\ Len(rest) = Len(text) - m
          /\ \A k \in 1..m : marked[k] = text[k]
          /\ \A k \in 1..(Len(text) - m) : rest[k] = text[k + m]
      BY <1>1, <1>3 DEF MarkedAndRest
    <2>2. /\ whole \in Seq(S) /\ Len(whole) = Len(marked) + Len(rest)
          /\ \A k \in 1..(Len(marked) + Len(rest)) :
               whole[k] = IF k <= Len(marked) THEN marked[k] ELSE rest[k - Len(marked)]
      <3>1. whole = marked \o rest
        BY <1>6
      <3>. HIDE DEF whole
      <3>2. marked \in Seq(S) /\ rest \in Seq(S)
        BY <2>1
      <3>. QED
        BY <3>1, <3>2, Concatenation, Zenon
    <2>. HIDE DEF whole
    <2>3. Len(whole) = Len(text)
      BY <2>1, <2>2
    <2>4. ASSUME NEW k \in 1..Len(text) PROVE whole[k] = text[k]
      <3>1. CASE k <= m
        BY <2>1, <2>2, <3>1
      <3>2. CASE k > m
        <4>1. k - m \in 1..(Len(text) - m) /\ (k - m) + m = k /\ ~(k <= m) /\ k \in 1..(Len(marked) + Len(rest))
          BY <2>1, <3>2
        <4>. QED
          BY <2>1, <2>2, <4>1
      <3>. QED
        BY <2>1, <3>1, <3>2
    <2>. QED
      BY <2>2, <2>3, <2>4
  <1>. HIDE DEF whole
  <1>8. kept = text
    <2>1. skip => text[Len(text)] \notin {BackSlash}
      BY DEF Steady
    <2>2. skip => Trimmed(text, {BackSlash}, m) = text
      BY <2>1, TrimmedSame DEF Steady
    <2>. QED
      BY <1>7, <2>2
  <1>9. 0 \in 0..Len(text) /\ text # <<>> /\ text[Len(text)] \notin {Space, Dot}
    BY DEF Steady
  <1>10. Trimmed(text, {Space, Dot}, 0) = text
    BY <1>9, TrimmedSame
  <1>. QED
    BY <1>2, <1>8, <1>10
-----------------------------------------------------------------------------
\* A collapsed path has no slashes, and does not end in a space or a dot.
LEMMA CollapsedClean ==
  ASSUME NEW S, BackSlash \in S, NEW text \in Seq(S), NEW m \in 0..Len(text), NEW skip
  PROVE  /\ \A i \in 1..Len(Collapsed(text, m, skip)) : Collapsed(text, m, skip)[i] # Slash
         /\ Collapsed(text, m, skip) # <<>>
              => Collapsed(text, m, skip)[Len(Collapsed(text, m, skip))] \notin {Space, Dot}
  <1> DEFINE full == Collapsed(text, m, skip)
             left == LeftOf(text, m)
             C == S \ {Slash}
  <1>1. MarkedAndRest(S, text, m, MarkedPart(text, m), RestPart(text, m)) /\ CollapseOf(S, text, m, left, full)
    BY MarkedAndRestIs, CollapseIs
  <1>2. \A i \in 1..Len(text) : Converted(text)[i] # Slash
    BY DEF Converted, BackSlash, Slash
  <1>3. RestPart(text, m) \in Seq(C)
    <2> DEFINE rest == RestPart(text, m)
    <2>1. /\ rest \in Seq(S) /\ Len(rest) = Len(text) - m /\ Len(text) \in Nat /\ m \in Nat /\ m <= Len(text)
          /\ \A k \in 1..(Len(text) - m) : rest[k] = Converted(text)[k + m]
      BY <1>1 DEF MarkedAndRest
    <2>. HIDE DEF rest
    <2>2. ASSUME NEW k \in 1..Len(rest) PROVE rest[k] \in C
      <3>1. k \in 1..(Len(text) - m) /\ k + m \in 1..Len(text)
        BY <2>1
      <3>. QED
        BY <1>2, <2>1, <3>1
    <2>3. rest \in Seq(C)
      BY <2>1, <2>2
    <2>. QED
      BY <2>3 DEF rest
  <1>4. left \in Seq(C)
    <2>1. BackSlash \in C
      BY DEF BackSlash, Slash
    <2>. HIDE DEF C
    <2>. QED
      BY <1>3, <2>1, DoneIs DEF LeftOf
  <1>. HIDE DEF full, left
  <1>5. ASSUME NEW i \in 1..Len(full) PROVE full[i] # Slash
    <2>1. CASE i <= m
      <3>1. i \in 1..Len(text)
        BY <1>1, <2>1 DEF MarkedAndRest
      <3>. QED
        BY <1>1, <1>2, <2>1, <3>1 DEF CollapseOf
    <2>2. CASE ~(i <= m)
      <3>1. /\ i \in 1..Len(full) /\ m \in Nat /\ ~(i <= m) /\ Len(full) \in Nat /\ Len(left) \in Nat
            /\ Len(full) <= m + Len(left)
            /\ \A k \in 1..Len(full) : full[k] = (IF k <= m THEN Converted(text)[k] ELSE left[k - m])
        BY <1>1, <2>2 DEF CollapseOf, MarkedAndRest
      <3>2. full[i] = left[i - m]
        BY <3>1
      <3>3. i - m \in 1..Len(left)
        BY <3>1
      <3>. QED
        BY <1>4, <3>2, <3>3
    <2>. QED
      BY <2>1, <2>2
  <1>6. full # <<>> => full[Len(full)] \notin {Space, Dot}
    <2>1. PICK kept, n : CutFrom(S, text, m, full, kept, n)
      BY CollapsedCut DEF full
    <2>2. /\ kept \in Seq(S) /\ n \in 0..Len(kept) /\ full = SubSeq(kept, 1, n) /\ Len(full) = n
          /\ n = 0 \/ kept[n] \notin {Space, Dot}
      BY <2>1 DEF CutFrom
    <2>3. n # 0 => n \in 1..n /\ full[n] = kept[n]
      BY <2>2
    <2>4. n = 0 => full = <<>>
      BY <2>2
    <2>. QED
      BY <2>2, <2>3, <2>4
  <1>. QED
    BY <1>5, <1>6 DEF full
-----------------------------------------------------------------------------
(***************************************************************************)
(* The directories "." and ".." of a path, by where their names start.     *)
(***************************************************************************)
StartsName(x, i) == i = 1 \/ x[i - 1] = BackSlash

DotDirectory(x, i) ==
  /\ x[i] = Dot
  /\ \/ i + 1 <= Len(x) /\ x[i + 1] = BackSlash
     \/ i + 2 <= Len(x) /\ x[i + 1] = Dot /\ x[i + 2] = BackSlash

Dotless(x) == \A i \in 1..Len(x) : StartsName(x, i) => ~DotDirectory(x, i)

DotNames == {<<Dot>>, <<Dot, Dot>>}

\* No directory "." or ".." comes from a name at the end.
LEMMA DotlessName ==
  ASSUME NEW S, NEW d \in Seq(S), Dotless(d), NEW n \in PlainNames(S)
  PROVE  d \o n \in Seq(S) /\ Dotless(d \o n)
  <1> DEFINE t == d \o n
  <1>1. /\ n \in Seq(S) /\ Len(n) \in Nat /\ Len(d) \in Nat /\ \A j \in 1..Len(n) : n[j] # BackSlash
    BY DEF PlainNames
  <1>2. /\ t \in Seq(S) /\ Len(t) = Len(d) + Len(n)
        /\ \A k \in 1..(Len(d) + Len(n)) : t[k] = IF k <= Len(d) THEN d[k] ELSE n[k - Len(d)]
    BY <1>1, Concatenation
  <1>. HIDE DEF t
  <1>3. ASSUME NEW j \in 1..Len(t), t[j] = BackSlash
        PROVE  j <= Len(d) /\ d[j] = BackSlash
    <2>1. CASE j > Len(d)
      <3>1. j - Len(d) \in 1..Len(n) /\ t[j] = n[j - Len(d)]
        BY <1>1, <1>2, <2>1
      <3>. QED
        BY <1>1, <1>3, <3>1
    <2>2. CASE j <= Len(d)
      BY <1>1, <1>2, <1>3, <2>2
    <2>. QED
      BY <1>1, <2>1, <2>2
  <1>4. ASSUME NEW i \in 1..Len(t), StartsName(t, i), DotDirectory(t, i) PROVE FALSE
    <2>1. PICK e \in {1, 2} : i + e <= Len(t) /\ t[i + e] = BackSlash /\ (e = 2 => t[i + 1] = Dot) /\ t[i] = Dot
      BY <1>4 DEF DotDirectory
    <2>2. i \in Nat /\ i >= 1 /\ i + e \in 1..Len(t) /\ Len(t) \in Nat
      BY <1>1, <1>2, <2>1
    <2>3. i + e <= Len(d) /\ d[i + e] = BackSlash
      BY <1>3, <2>1, <2>2
    <2>4. \A j \in 1..(i + e) : t[j] = d[j]
      BY <1>1, <1>2, <2>2, <2>3
    <2>5. d[i] = t[i] /\ d[i + 1] = t[i + 1] /\ (i # 1 => d[i - 1] = t[i - 1])
      BY <2>1, <2>2, <2>4
    <2>6. i \in 1..Len(d) /\ StartsName(d, i)
      BY <1>1, <1>4, <2>1, <2>2, <2>3, <2>5 DEF StartsName
    <2>7. DotDirectory(d, i)
      BY <2>1, <2>3, <2>5 DEF DotDirectory
    <2>. QED
      BY <2>6, <2>7 DEF Dotless
  <1>. QED
    BY <1>2, <1>4 DEF Dotless, t

\* Nor from a directory with another name.
LEMMA DotlessDirectory ==
  ASSUME NEW S, BackSlash \in S, NEW d \in Seq(S), Dotless(d), SeparatorLast(d),
         NEW n \in PlainNames(S), n \notin DotNames
  PROVE  Dotless((d \o n) \o <<BackSlash>>) /\ SeparatorLast((d \o n) \o <<BackSlash>>)
  <1> DEFINE t == d \o n
             u == Append(t, BackSlash)
  <1>1. /\ n \in Seq(S) /\ Len(n) \in Nat /\ Len(d) \in Nat /\ \A j \in 1..Len(n) : n[j] # BackSlash
    BY DEF PlainNames
  <1>2. /\ t \in Seq(S) /\ Len(t) = Len(d) + Len(n)
        /\ \A k \in 1..(Len(d) + Len(n)) : t[k] = IF k <= Len(d) THEN d[k] ELSE n[k - Len(d)]
    BY <1>1, Concatenation
  <1>3. Dotless(t)
    BY DotlessName
  <1>. HIDE DEF t
  <1>4. /\ u \in Seq(S) /\ Len(t) \in Nat /\ Len(u) = Len(t) + 1 /\ u[Len(t) + 1] = BackSlash
        /\ \A i \in 1..Len(t) : u[i] = t[i]
    <2>1. t \in Seq(S)
      BY <1>2
    <2>. QED
      BY <2>1, OneMore
  <1>5. (d \o n) \o <<BackSlash>> = u
    BY <1>2 DEF t
  <1>. HIDE DEF u
  <1>6. ASSUME NEW i \in 1..Len(u), StartsName(u, i), DotDirectory(u, i) PROVE FALSE
    <2>1. PICK e \in {1, 2} : i + e <= Len(u) /\ u[i + e] = BackSlash /\ (e = 2 => u[i + 1] = Dot) /\ u[i] = Dot
      BY <1>6 DEF DotDirectory
    <2>2. i \in Nat /\ i >= 1 /\ i \in 1..Len(t) /\ t[i] = Dot /\ (e = 2 => i + 1 \in 1..Len(t) /\ t[i + 1] = Dot)
          /\ (i # 1 => i - 1 \in 1..Len(t) /\ t[i - 1] = BackSlash)
      <3>1. i \in Nat /\ i >= 1 /\ i <= Len(t)
        BY <1>4, <2>1
      <3>2. e = 2 => i + 1 \in 1..Len(t)
        BY <1>4, <2>1, <3>1
      <3>3. i # 1 => i - 1 \in 1..Len(t)
        BY <1>4, <3>1
      <3>. QED
        BY <1>4, <1>6, <2>1, <3>1, <3>2, <3>3 DEF StartsName
    <2>3. CASE i + e <= Len(t)
      <3>1. i + e \in 1..Len(t) /\ t[i + e] = BackSlash
        BY <1>4, <2>1, <2>2, <2>3
      <3>2. DotDirectory(t, i) /\ StartsName(t, i)
        BY <2>1, <2>2, <2>3, <3>1 DEF DotDirectory, StartsName
      <3>. QED
        BY <1>3, <2>2, <3>2 DEF Dotless
    <2>4. CASE i + e = Len(t) + 1
      <3>1. i > Len(d)
        <4>1. ASSUME i <= Len(d) PROVE FALSE
          <5>1. CASE n = <<>>
            <6>1. Len(t) = Len(d) /\ Len(d) \in 1..Len(t) /\ t[Len(d)] = d[Len(d)] /\ d # <<>>
              BY <1>1, <1>2, <2>2, <4>1, <5>1
            <6>2. t[Len(d)] = BackSlash
              BY <6>1 DEF SeparatorLast
            <6>3. Len(d) = i \/ (e = 2 /\ Len(d) = i + 1)
              BY <2>1, <2>2, <2>4, <6>1
            <6>. QED
              BY <2>2, <6>2, <6>3 DEF Dot, BackSlash
          <5>2. CASE n # <<>>
            <6>1. Len(d) = i
              BY <1>1, <1>2, <2>1, <2>2, <2>4, <4>1, <5>2
            <6>2. t[i] = d[Len(d)] /\ d # <<>>
              BY <1>1, <1>2, <2>2, <6>1
            <6>. QED
              BY <2>2, <6>2 DEF SeparatorLast, Dot, BackSlash
          <5>. QED
            BY <5>1, <5>2
        <4>. QED
          BY <1>1, <2>2, <4>1
      <3>2. i = Len(d) + 1
        <4>1. ASSUME i > Len(d) + 1 PROVE FALSE
          <5>1. (i - 1) - Len(d) \in 1..Len(n) /\ i - 1 \in 1..Len(t) /\ ~(i - 1 <= Len(d)) /\ i # 1
            BY <1>1, <1>2, <2>2, <4>1
          <5>2. t[i - 1] = n[(i - 1) - Len(d)]
            BY <1>2, <5>1
          <5>. QED
            BY <1>1, <2>2, <5>1, <5>2
        <4>. QED
          BY <1>1, <2>2, <3>1, <4>1
      <3>3. Len(n) = e
        BY <1>1, <1>2, <2>1, <2>4, <3>2
      <3>4. n[1] = Dot
        BY <1>1, <1>2, <2>1, <2>2, <3>2, <3>3
      <3>5. e = 2 => n[2] = Dot
        BY <1>1, <1>2, <2>2, <3>2, <3>3
      <3>6. CASE e = 1
        <4>1. n = <<Dot>>
          BY <1>1, <3>3, <3>4, <3>6
        <4>. QED
          BY <4>1 DEF DotNames
      <3>7. CASE e = 2
        <4>1. n = <<Dot, Dot>>
          BY <1>1, <3>3, <3>4, <3>5, <3>7
        <4>. QED
          BY <4>1 DEF DotNames
      <3>. QED
        BY <2>1, <3>6, <3>7
    <2>. QED
      BY <1>4, <2>1, <2>2, <2>3, <2>4
  <1>7. u[Len(u)] = BackSlash
    BY <1>4
  <1>. QED
    BY <1>5, <1>6, <1>7 DEF Dotless, SeparatorLast

\* Nor from all the directories of a stack without them.
LEMMA DirectoriesDotless ==
  ASSUME NEW S, BackSlash \in S, NEW stack \in Seq(PlainNames(S)),
         \A k \in 1..Len(stack) : stack[k] \notin DotNames
  PROVE  Directories(stack) \in Seq(S) /\ Dotless(Directories(stack)) /\ SeparatorLast(Directories(stack))
  <1> DEFINE Good(x) == Directories(x) \in Seq(S) /\ Dotless(Directories(x)) /\ SeparatorLast(Directories(x))
             Some(x) == \E k \in 1..Len(x) : x[k] \in DotNames
             T == {x \in Seq(PlainNames(S)) : Some(x) \/ Good(x)}
  <1>1. <<>> \in T
    <2>1. Directories(<<>>) = <<>> /\ <<>> \in Seq(S)
      BY DirectoriesIs
    <2>2. Dotless(<<>>) /\ SeparatorLast(<<>>)
      BY DEF Dotless, SeparatorLast
    <2>3. <<>> \in Seq(PlainNames(S))
      OBVIOUS
    <2>4. Good(<<>>)
      BY <2>1, <2>2, Zenon
    <2>. QED
      BY <2>3, <2>4
  <1>2. ASSUME NEW x \in Seq(PlainNames(S)), NEW n \in PlainNames(S), x \in T PROVE Append(x, n) \in T
    <2>1. /\ Append(x, n) \in Seq(PlainNames(S)) /\ Len(x) \in Nat /\ Len(Append(x, n)) = Len(x) + 1
          /\ Append(x, n)[Len(x) + 1] = n /\ \A i \in 1..Len(x) : Append(x, n)[i] = x[i]
      BY OneMore
    <2>. SUFFICES ASSUME ~Some(Append(x, n)) PROVE Good(Append(x, n))
      BY <2>1
    <2>2. ~Some(x) /\ n \notin DotNames
      BY <2>1
    <2>3. Good(x)
      BY <1>2, <2>2
    <2>4. x \in Seq(Seq(S)) /\ n \in Seq(S)
      BY NamesAreStrings DEF PlainNames
    <2>5. /\ Directories(Append(x, n)) = (Directories(x) \o n) \o <<BackSlash>>
          /\ Directories(Append(x, n)) \in Seq(S)
      BY <2>4, DirectoriesAppend
    <2> DEFINE d == Directories(x)
    <2>6. d \in Seq(S) /\ Dotless(d) /\ SeparatorLast(d)
      BY <2>3
    <2>. HIDE DEF d
    <2>7. Dotless((d \o n) \o <<BackSlash>>) /\ SeparatorLast((d \o n) \o <<BackSlash>>)
      BY <2>2, <2>6, DotlessDirectory
    <2>. QED
      BY <2>5, <2>7 DEF d
  <1>. HIDE DEF T
  <1>3. stack \in T
    BY <1>1, <1>2, AllSequences
  <1>. QED
    BY <1>3 DEF T

\* Nor from a path put together of them and a last name.
LEMMA JoinDotless ==
  ASSUME NEW S, BackSlash \in S, NEW done \in Seq(PlainNames(S)),
         done # <<>> => \A k \in 1..Len(Front(done)) : Front(done)[k] \notin DotNames
  PROVE  Join(done) \in Seq(S) /\ Dotless(Join(done))
  <1>1. CASE done = <<>>
    BY <1>1 DEF Join, Dotless
  <1>2. CASE done # <<>>
    <2>1. Front(done) \in Seq(PlainNames(S)) /\ Last(done) \in PlainNames(S)
      BY <1>2, FrontLast
    <2>2. Directories(Front(done)) \in Seq(S) /\ Dotless(Directories(Front(done)))
      BY <1>2, <2>1, DirectoriesDotless
    <2>3. Join(done) = Directories(Front(done)) \o Last(done)
      BY <1>2 DEF Join
    <2>. QED
      BY <2>1, <2>2, <2>3, DotlessName
  <1>. QED
    BY <1>1, <1>2
-----------------------------------------------------------------------------
(***************************************************************************)
(* The same of the names a path is read as: from the names, and to them.   *)
(***************************************************************************)
ResolvedNames(names, l) ==
  /\ \A k \in 1..Len(names) : names[k] \notin {<<>>, <<Dot>>, <<Dot, Dot>>}
  /\ l \notin DotNames

\* A string whose names are none of these, with a separator behind it.
LEMMA NamesDotless ==
  ASSUME NEW S, BackSlash \in S, NEW s, NEW names, NEW l, Pieces(S, s, names, l), ResolvedNames(names, l)
  PROVE  Dotless(Append(s, BackSlash)) /\ Single({}, s)
  <1>1. /\ s \in Seq(S) /\ names \in Seq(PlainNames(S)) /\ l \in PlainNames(S) /\ Split(s) = Append(names, l)
        /\ \A k \in 1..Len(names) : names[k] \notin {<<>>, <<Dot>>, <<Dot, Dot>>}
        /\ l \notin DotNames
    BY DEF Pieces, Reads, ResolvedNames
  <1>2. \A k \in 1..Len(names) : names[k] \in PlainNames(S)
    BY <1>1
  <1>3. Rests(FullNames(S), {}, names) /\ \A k \in 1..Len(names) : names[k] \notin DotNames
    BY <1>1, <1>2 DEF Rests, FullNames, DotNames
  <1> DEFINE d == Directories(names)
  <1>4. /\ d \in Seq(S) /\ Single({}, d) /\ SeparatorLast(d) /\ Dotless(d)
    BY <1>1, <1>3, DirectoriesSingle, DirectoriesDotless
  <1>5. s = d \o l
    <2>1. names \in Seq(Seq(S)) /\ l \in Seq(S)
      BY <1>1, NamesAreStrings DEF PlainNames
    <2>. QED
      BY <1>1, <2>1, JoinSplit, JoinAppend
  <1>. HIDE DEF d
  <1>6. Single({}, s)
    BY <1>1, <1>4, <1>5, SingleName
  <1>7. Dotless((d \o l) \o <<BackSlash>>)
    BY <1>1, <1>4, DotlessDirectory
  <1>8. Append(s, BackSlash) = (d \o l) \o <<BackSlash>>
    BY <1>1, <1>5
  <1>. QED
    BY <1>6, <1>7, <1>8

\* A path without such directories, empty names and a dot at its end is resolved.
LEMMA DotlessNames ==
  ASSUME NEW S, BackSlash \in S, NEW s, NEW names, NEW l, Pieces(S, s, names, l),
         Dotless(s), Single({}, s), s # <<>> => s[Len(s)] # Dot
  PROVE  ResolvedNames(names, l)
  <1>1. /\ s \in Seq(S) /\ names \in Seq(PlainNames(S)) /\ l \in PlainNames(S) /\ Len(s) \in Nat
        /\ \A k \in 1..Len(names) : \E b \in 0..Len(s) : DirectoryAt(s, names[k], k, b)
        /\ \E b \in 0..Len(s) : NameAt(s, l, Len(names) + 1, b)
    BY DEF Pieces, Reads
  <1>2. ASSUME NEW k \in 1..Len(names) PROVE names[k] \notin {<<>>, <<Dot>>, <<Dot, Dot>>}
    <2>1. PICK b \in 0..Len(s) : DirectoryAt(s, names[k], k, b)
      BY <1>1
    <2> DEFINE n == names[k]
    <2>2. n \in Seq(S) /\ Len(n) \in Nat
      BY <1>1 DEF PlainNames
    <2>. HIDE DEF n
    <2>3. /\ b = 0 \/ (b >= 1 /\ s[b] = BackSlash)
          /\ \A j \in 1..Len(n) : n[j] = s[b + j]
          /\ b + Len(n) < Len(s) /\ s[(b + Len(n)) + 1] = BackSlash
      BY <2>1 DEF DirectoryAt, StartsAt, Spelled, n
    <2>4. CASE n = <<>>
      <3>1. Len(n) = 0 /\ b + 1 \in 1..Len(s) /\ s[b + 1] = BackSlash
        BY <1>1, <2>3, <2>4
      <3>2. CASE b = 0
        BY <3>1, <3>2 DEF Single
      <3>3. CASE b >= 1 /\ s[b] = BackSlash
        <4>1. b + 1 \in 2..Len(s) /\ (b + 1) - 1 = b
          BY <1>1, <3>1, <3>3
        <4>. QED
          BY <3>1, <3>3, <4>1 DEF Single
      <3>. QED
        BY <2>3, <3>2, <3>3
    <2>5. ASSUME n \in DotNames PROVE FALSE
      <3>1. \/ Len(n) = 1 /\ n[1] = Dot
            \/ Len(n) = 2 /\ n[1] = Dot /\ n[2] = Dot
        BY <2>5 DEF DotNames
      <3>2. b + 1 \in 1..Len(s) /\ (b + 1) - 1 = b /\ (b + 1) + 1 = b + 2 /\ (b + 1) + 2 = b + 3 /\ b \in Nat
        BY <1>1, <2>2, <2>3, <3>1
      <3>3. s[b + 1] = Dot
        <4>1. 1 \in 1..Len(n)
          BY <3>1
        <4>. QED
          BY <2>3, <3>1, <4>1
      <3>4. StartsName(s, b + 1)
        BY <2>3, <3>2 DEF StartsName
      <3>5. DotDirectory(s, b + 1)
        <4>1. CASE Len(n) = 1
          <5>1. b + 2 <= Len(s) /\ s[b + 2] = BackSlash
            <6>1. (b + Len(n)) + 1 = b + 2 /\ b + 1 < Len(s)
              BY <2>3, <3>2, <4>1
            <6>. QED
              BY <1>1, <2>3, <3>2, <6>1
          <5>. QED
            BY <3>2, <3>3, <5>1 DEF DotDirectory
        <4>2. CASE Len(n) = 2
          <5>1. b + 3 <= Len(s) /\ s[b + 3] = BackSlash
            <6>1. (b + Len(n)) + 1 = b + 3 /\ b + 2 < Len(s)
              BY <2>3, <3>2, <4>2
            <6>. QED
              BY <1>1, <2>3, <3>2, <6>1
          <5>2. s[b + 2] = Dot
            <6>1. 2 \in 1..Len(n) /\ n[2] = Dot
              BY <3>1, <4>2
            <6>. QED
              BY <2>3, <6>1
          <5>. QED
            BY <3>2, <3>3, <5>1, <5>2 DEF DotDirectory
        <4>. QED
          BY <3>1, <4>1, <4>2
      <3>. QED
        BY <3>2, <3>4, <3>5 DEF Dotless
    <2>. QED
      BY <2>3, <2>4, <2>5 DEF DotNames, n, Single
  <1>3. l \notin DotNames
    <2>1. PICK b \in 0..Len(s) : NameAt(s, l, Len(names) + 1, b)
      BY <1>1
    <2>2. b + Len(l) = Len(s) /\ \A j \in 1..Len(l) : l[j] = s[b + j]
      BY <2>1 DEF NameAt, Spelled
    <2>3. ASSUME l \in DotNames PROVE FALSE
      <3>1. Len(l) \in 1..Len(l) /\ l[Len(l)] = Dot /\ Len(l) \in Nat
        BY <2>3 DEF DotNames
      <3>2. s[b + Len(l)] = Dot
        BY <2>2, <3>1
      <3>3. s[Len(s)] = Dot
        BY <2>2, <3>2
      <3>4. s # <<>>
        BY <1>1, <2>2, <3>1
      <3>. QED
        BY <3>3, <3>4
    <2>. QED
      BY <2>3
  <1>. QED
    BY <1>2, <1>3 DEF ResolvedNames
-----------------------------------------------------------------------------
(***************************************************************************)
(* A collapse leaves no "." or ".." behind the marked part, unless three   *)
(* dots lose one.                                                          *)
(***************************************************************************)
ThreeDots(t, i) == t[i] = Dot /\ t[i + 1] = Dot /\ t[i + 2] = Dot

NoThreeDots(t, m) == \A i \in (m + 1)..(Len(t) - 2) : ~ThreeDots(t, i)

OtherNames(S) == PlainNames(S) \ {<<Dot, Dot, Dot>>}

\* No name behind the marked part is three dots.
LEMMA RestNames ==
  ASSUME NEW S, BackSlash \in S, NEW text \in Seq(S), NEW m \in 0..Len(text), NoThreeDots(text, m),
         NEW names, NEW l, Pieces(S, RestPart(text, m), names, l)
  PROVE  names \in Seq(OtherNames(S))
  <1> DEFINE rest == RestPart(text, m)
  <1>1. /\ Len(text) \in Nat /\ m \in Nat /\ m <= Len(text)
        /\ rest \in Seq(S) /\ Len(rest) = Len(text) - m
        /\ \A k \in 1..(Len(text) - m) : rest[k] = Converted(text)[k + m]
    BY MarkedAndRestIs DEF MarkedAndRest
  <1>2. Pieces(S, rest, names, l)
    OBVIOUS
  <1>. HIDE DEF rest
  <1>3. ASSUME NEW i \in 1..Len(rest), rest[i] = Dot PROVE text[i + m] = Dot
    <2>1. i + m \in 1..Len(text) /\ rest[i] = Converted(text)[i + m]
      BY <1>1
    <2>. QED
      BY <1>3, <2>1 DEF Converted, Dot, BackSlash
  <1>4. names \in Seq(PlainNames(S))
    BY <1>2 DEF Pieces
  <1>5. ASSUME NEW k \in 1..Len(names), names[k] = <<Dot, Dot, Dot>> PROVE FALSE
    <2>1. PICK b \in 0..Len(rest) : DirectoryAt(rest, names[k], k, b)
      BY <1>2 DEF Pieces
    <2>2. DirectoryAt(rest, <<Dot, Dot, Dot>>, k, b)
      BY <1>5, <2>1
    <2>3. /\ b + 3 < Len(rest)
          /\ \A j \in 1..3 : <<Dot, Dot, Dot>>[j] = rest[b + j]
      BY <2>2 DEF DirectoryAt, Spelled
    <2>4. rest[b + 1] = Dot /\ rest[b + 2] = Dot /\ rest[b + 3] = Dot
      BY <2>3
    <2>5. b + 1 \in 1..Len(rest) /\ b + 2 \in 1..Len(rest) /\ b + 3 \in 1..Len(rest) /\ b \in Nat
      BY <1>1, <2>3
    <2>6. text[(b + 1) + m] = Dot /\ text[(b + 2) + m] = Dot /\ text[(b + 3) + m] = Dot
      BY <1>3, <2>4, <2>5
    <2>7. /\ (b + 1) + m \in (m + 1)..(Len(text) - 2)
          /\ ((b + 1) + m) + 1 = (b + 2) + m /\ ((b + 1) + m) + 2 = (b + 3) + m
      BY <1>1, <2>3, <2>5
    <2>8. ThreeDots(text, (b + 1) + m)
      BY <2>6, <2>7 DEF ThreeDots
    <2>. QED
      BY <2>7, <2>8 DEF NoThreeDots
  <1>6. \A k \in 1..Len(names) : names[k] \in OtherNames(S)
    <2>. SUFFICES ASSUME NEW k \in 1..Len(names) PROVE names[k] \in OtherNames(S)
      OBVIOUS
    <2>1. names[k] \in PlainNames(S)
      BY <1>4
    <2>. QED
      BY <1>5, <2>1 DEF OtherNames
  <1>. QED
    BY <1>4, <1>6

\* Of such names, none that is "." or ".." is entered.
LEMMA OthersEntered ==
  ASSUME NEW S
  PROVE  Enters(S, OtherNames(S), FullNames(S) \ DotNames)
  <1>1. Enters(S, PlainNames(S), FullNames(S))
    BY AllEntered
  <1>2. ASSUME NEW n \in OtherNames(S), n \notin {<<>>, <<Dot>>, <<Dot, Dot>>}
        PROVE  WithoutLastDot(n) \in FullNames(S) \ DotNames
    <2>1. n \in PlainNames(S) /\ n # <<Dot, Dot, Dot>>
      BY DEF OtherNames
    <2>2. WithoutLastDot(n) \in FullNames(S)
      BY <1>1, <1>2, <2>1 DEF Enters
    <2>3. n \in Seq(S)
      BY <2>1 DEF PlainNames
    <2>4. CASE Last(n) = Dot
      <3> DEFINE f == Front(n)
      <3>1. WithoutLastDot(n) = f /\ n = Append(f, Last(n)) /\ f \in Seq(S) /\ Last(n) \in S
        BY <1>2, <2>3, <2>4, FrontLast DEF WithoutLastDot
      <3>. HIDE DEF f
      <3>2. /\ Len(f) \in Nat /\ Len(n) = Len(f) + 1 /\ n[Len(f) + 1] = Dot
            /\ \A i \in 1..Len(f) : n[i] = f[i]
        <4> DEFINE c == Last(n)
        <4>1. n = Append(f, c) /\ c \in S /\ c = Dot
          BY <2>4, <3>1
        <4>. HIDE DEF c
        <4>2. /\ Len(f) \in Nat /\ Len(Append(f, c)) = Len(f) + 1 /\ Append(f, c)[Len(f) + 1] = c
              /\ \A i \in 1..Len(f) : Append(f, c)[i] = f[i]
          BY <3>1, <4>1, OneMore
        <4>. QED
          BY <4>1, <4>2
      <3>3. f # <<Dot>>
        <4>. SUFFICES ASSUME f = <<Dot>> PROVE FALSE
          OBVIOUS
        <4>1. Len(n) = 2 /\ n[1] = Dot /\ n[2] = Dot
          BY <3>2
        <4>2. n = <<Dot, Dot>>
          BY <2>3, <4>1
        <4>. QED
          BY <1>2, <4>2
      <3>4. f # <<Dot, Dot>>
        <4>. SUFFICES ASSUME f = <<Dot, Dot>> PROVE FALSE
          OBVIOUS
        <4>1. Len(n) = 3 /\ n[1] = Dot /\ n[2] = Dot /\ n[3] = Dot
          BY <3>2
        <4>2. n = <<Dot, Dot, Dot>>
          BY <2>3, <4>1
        <4>. QED
          BY <2>1, <4>2
      <3>. QED
        BY <2>2, <3>1, <3>3, <3>4 DEF DotNames
    <2>5. CASE Last(n) # Dot
      <3>1. WithoutLastDot(n) = n
        BY <2>5 DEF WithoutLastDot
      <3>. QED
        BY <1>2, <2>2, <3>1 DEF DotNames
    <2>. QED
      BY <2>4, <2>5
  <1>3. OtherNames(S) \subseteq PlainNames(S) /\ FullNames(S) \ DotNames \subseteq PlainNames(S)
    BY DEF OtherNames, FullNames
  <1>. QED
    BY <1>2, <1>3 DEF Enters

\* So none is left behind the marked part.
LEMMA CollapsedDotless ==
  ASSUME NEW S, BackSlash \in S, NEW text \in Seq(S), NEW m \in 0..Len(text), NEW skip,
         NoThreeDots(text, m),
         NEW i \in (m + 1)..Len(Collapsed(text, m, skip)), i >= 2,
         Collapsed(text, m, skip)[i - 1] = BackSlash
  PROVE  ~DotDirectory(Collapsed(text, m, skip), i)
  <1> DEFINE marked == MarkedPart(text, m)
             rest == RestPart(text, m)
             left == LeftOf(text, m)
             K == FirstKept(marked)
             full == Collapsed(text, m, skip)
  <1>1. MarkedAndRest(S, text, m, marked, rest) /\ CollapseOf(S, text, m, left, full)
    BY MarkedAndRestIs, CollapseIs
  <1>0. i \in (m + 1)..Len(full) /\ full[i - 1] = BackSlash
    OBVIOUS
  <1>. HIDE DEF full
  <1>2. PICK names, l : Pieces(S, rest, names, l)
    BY <1>1, ComponentsRead DEF MarkedAndRest
  <1>3. names \in Seq(OtherNames(S)) /\ l \in PlainNames(S) /\ Reads(S, rest, names, l)
    BY <1>2, RestNames DEF Pieces
  <1> DEFINE done == Done(Components(marked, rest))
             G == FullNames(S) \ DotNames
  <1>4. /\ done \in Seq(PlainNames(S))
        /\ done # <<>> => Rests(G, K, Front(done))
    BY <1>3, OthersEntered, DoneRests
  <1>5. left = Join(done)
    BY DEF LeftOf
  <1>. HIDE DEF left, done, marked, K, rest
  <1>6. done # <<>> => \A k \in 1..Len(Front(done)) : Front(done)[k] \notin DotNames
    <2>. SUFFICES ASSUME done # <<>>, NEW k \in 1..Len(Front(done)) PROVE Front(done)[k] \notin DotNames
      OBVIOUS
    <2>1. Front(done)[k] \in G \/ Front(done)[k] = <<>>
      BY <1>4 DEF Rests
    <2>2. <<>> \notin DotNames
      BY DEF DotNames
    <2>. QED
      BY <2>1, <2>2
  <1>7. Dotless(left)
    BY <1>4, <1>5, <1>6, JoinDotless
  <1>8. i \in Nat /\ m \in Nat /\ Len(full) \in Nat /\ Len(left) \in Nat /\ i <= Len(full)
        /\ Len(full) <= m + Len(left) /\ i >= m + 1
    BY <1>0, <1>1 DEF CollapseOf, MarkedAndRest
  <1>9. ASSUME NEW j \in 1..Len(left), j + m <= Len(full) PROVE full[j + m] = left[j]
    <2>1. j + m \in 1..Len(full) /\ ~(j + m <= m) /\ (j + m) - m = j
      BY <1>8, <1>9
    <2>. QED
      BY <1>1, <2>1 DEF CollapseOf
  <1> DEFINE p == i - m
  <1>10. p \in 1..Len(left) /\ p + m = i /\ p + m <= Len(full)
    BY <1>8
  <1>11. StartsName(left, p)
    <2>1. CASE p = 1
      BY <2>1 DEF StartsName
    <2>2. CASE p # 1
      <3>1. p - 1 \in 1..Len(left) /\ (p - 1) + m = i - 1 /\ (p - 1) + m <= Len(full)
        BY <1>8, <1>10, <2>2
      <3>. QED
        BY <1>0, <1>9, <3>1 DEF StartsName
    <2>. QED
      BY <2>1, <2>2
  <1>. HIDE DEF p
  <1>12. ~DotDirectory(left, p)
    BY <1>7, <1>10, <1>11 DEF Dotless
  <1>13. ASSUME DotDirectory(full, i) PROVE FALSE
    <2>1. PICK e \in {1, 2} : i + e <= Len(full) /\ full[i + e] = BackSlash /\ (e = 2 => full[i + 1] = Dot) /\ full[i] = Dot
      BY <1>13 DEF DotDirectory
    <2>2. p + e \in 1..Len(left) /\ (p + e) + m = i + e /\ p + 1 \in 1..Len(left) /\ (p + 1) + m = i + 1
          /\ (p + e) + m <= Len(full) /\ (p + 1) + m <= Len(full)
      BY <1>8, <1>10, <2>1
    <2>3. left[p] = Dot /\ left[p + e] = BackSlash /\ (e = 2 => left[p + 1] = Dot)
      <3>1. full[p + m] = left[p]
        BY <1>9, <1>10
      <3>2. full[(p + e) + m] = left[p + e]
        BY <1>9, <2>2
      <3>3. full[(p + 1) + m] = left[p + 1]
        BY <1>9, <2>2
      <3>. QED
        BY <1>10, <2>1, <2>2, <3>1, <3>2, <3>3
    <2>4. p + e <= Len(left)
      BY <1>8, <2>2
    <2>. QED
      BY <1>12, <2>1, <2>3, <2>4 DEF DotDirectory
  <1>. QED
    BY <1>13 DEF full
-----------------------------------------------------------------------------
(***************************************************************************)
(* What is left of a path whose ".." are never more than the names they    *)
(* can leave.                                                              *)
(***************************************************************************)
\* One number more, of any of the numbers.
LEMMA CountMore ==
  ASSUME NEW T, NEW k \in Nat
  PROVE  /\ Cardinality(T \cap (1..k)) \in Nat
         /\ Cardinality(T \cap (1..(k + 1)))
              = Cardinality(T \cap (1..k)) + (IF k + 1 \in T THEN 1 ELSE 0)
  <1> DEFINE A == T \cap (1..k)
             B == T \cap (1..(k + 1))
  <1>1. IsFiniteSet(1..k)
    BY FS_Interval
  <1>2. IsFiniteSet(A) /\ Cardinality(A) \in Nat
    <2>1. A \in SUBSET (1..k)
      OBVIOUS
    <2>. QED
      BY <1>1, <2>1, FS_Subset, FS_CardinalityType
  <1>3. CASE k + 1 \in T
    <2>1. B = A \cup {k + 1} /\ k + 1 \notin A
      BY <1>3
    <2>. QED
      BY <1>2, <1>3, <2>1, FS_AddElement
  <1>4. CASE k + 1 \notin T
    <2>1. B = A
      BY <1>4
    <2>. QED
      BY <1>2, <1>4, <2>1
  <1>. QED
    BY <1>3, <1>4

\* The ".." among the first k names, and the names one can leave with them.
UpNames(names) == {i \in Nat : names[i] = <<Dot, Dot>>}

DownNames(names) == {i \in Nat : names[i] \notin {<<>>, <<Dot>>, <<Dot, Dot>>}}

Ups(names, k) == Cardinality(UpNames(names) \cap (1..k))

Downs(names, k) == Cardinality(DownNames(names) \cap (1..k))

\* What the first k names leave of a path that starts with a separator.
StackOf(names, k) == EnterAll(Flagged({1}, SubSeq(names, 1, k)))

RootBelow(S, names, k) ==
  /\ StackOf(names, k) \in Seq(PlainNames(S))
  /\ Len(StackOf(names, k)) = 1 + Downs(names, k) - Ups(names, k)
  /\ StackOf(names, k)[1] = <<>>

\* One name more is entered.
LEMMA StackMore ==
  ASSUME NEW S, NEW names \in Seq(PlainNames(S)), NEW k \in Nat, k + 1 <= Len(names)
  PROVE  /\ names[k + 1] \in PlainNames(S)
         /\ StackOf(names, k + 1) = IF k = 0 \/ names[k + 1] # <<>>
                                    THEN Enter(StackOf(names, k), names[k + 1])
                                    ELSE StackOf(names, k)
  <1> DEFINE x == SubSeq(names, 1, k)
             n == names[k + 1]
  <1>1. x \in Seq(PlainNames(S)) /\ Len(x) = k /\ n \in PlainNames(S)
    OBVIOUS
  <1>2. SubSeq(names, 1, k + 1) = Append(x, n)
    OBVIOUS
  <1>3. x \in Seq(Seq(S)) /\ n \in Seq(S)
    BY <1>1, NamesAreStrings DEF PlainNames
  <1> HIDE DEF x, n
  <1>4. EnterAll(Flagged({1}, Append(x, n)))
          = IF Len(x) + 1 \in {1} \/ n # <<>> THEN Enter(EnterAll(Flagged({1}, x)), n)
            ELSE EnterAll(Flagged({1}, x))
    BY <1>3, EnterFlagged
  <1>5. Len(x) + 1 \in {1} <=> k = 0
    BY <1>1
  <1>. QED
    BY <1>1, <1>2, <1>4, <1>5 DEF StackOf, x, n

\* The empty name in front stays, as long as no ".." leaves more than was entered.
LEMMA RootStays ==
  ASSUME NEW S, NEW names \in Seq(PlainNames(S)), names # <<>>, names[1] = <<>>,
         \A k \in 1..Len(names) : Ups(names, k) <= Downs(names, k)
  PROVE  \A k \in 1..Len(names) : RootBelow(S, names, k)
  <1> DEFINE T == {k \in Nat : k + 1 <= Len(names) => RootBelow(S, names, k + 1)}
  <1>0. Len(names) \in Nat /\ Len(names) >= 1
    OBVIOUS
  <1>dots. <<>> # <<Dot>> /\ <<>> # <<Dot, Dot>> /\ <<Dot>> # <<Dot, Dot>>
    OBVIOUS
  <1>1. \A k \in Nat : /\ Ups(names, k) \in Nat /\ Downs(names, k) \in Nat
                       /\ Ups(names, k + 1) = Ups(names, k) + (IF names[k + 1] = <<Dot, Dot>> THEN 1 ELSE 0)
                       /\ Downs(names, k + 1)
                            = Downs(names, k)
                                + (IF names[k + 1] \notin {<<>>, <<Dot>>, <<Dot, Dot>>} THEN 1 ELSE 0)
    <2> TAKE k \in Nat
    <2>1. /\ k + 1 \in UpNames(names) <=> names[k + 1] = <<Dot, Dot>>
          /\ k + 1 \in DownNames(names) <=> names[k + 1] \notin {<<>>, <<Dot>>, <<Dot, Dot>>}
      BY DEF UpNames, DownNames
    <2>. QED
      BY <2>1, CountMore DEF Ups, Downs
  <1>2. \A k \in Nat : k <= Len(names) => StackOf(names, k) \in Seq(PlainNames(S))
    <2> SUFFICES ASSUME NEW k \in Nat, k <= Len(names) PROVE StackOf(names, k) \in Seq(PlainNames(S))
      OBVIOUS
    <2>1. SubSeq(names, 1, k) \in Seq(PlainNames(S)) /\ {1} \in SUBSET {1}
      OBVIOUS
    <2>. QED
      BY <2>1, AllEntered, EntersRests, Zenon DEF StackOf
  <1>3. 0 \in T
    <2>1. StackOf(names, 0) = <<>>
      <3>1. SubSeq(names, 1, 0) = <<>>
        OBVIOUS
      <3>. QED
        BY <3>1, EnterAllIs DEF StackOf, Flagged
    <2>2. StackOf(names, 1) = Enter(<<>>, <<>>)
      <3>1. 0 \in Nat /\ 0 + 1 = 1 /\ 0 + 1 <= Len(names)
        BY <1>0
      <3>. QED
        BY <2>1, <3>1, StackMore
    <2>3. Enter(<<>>, <<>>) = << <<>> >>
      BY DEF Enter, WithoutLastDot
    <2>4. Ups(names, 0) = 0 /\ Downs(names, 0) = 0
      <3>1. UpNames(names) \cap (1..0) = {} /\ DownNames(names) \cap (1..0) = {}
        OBVIOUS
      <3>. QED
        BY <3>1, FS_EmptySet DEF Ups, Downs
    <2>5. Ups(names, 1) = 0 /\ Downs(names, 1) = 0
      <3>1. 0 + 1 = 1 /\ names[0 + 1] = <<>>
        OBVIOUS
      <3>2. /\ Ups(names, 0 + 1) = Ups(names, 0) + (IF names[0 + 1] = <<Dot, Dot>> THEN 1 ELSE 0)
            /\ Downs(names, 0 + 1)
                 = Downs(names, 0)
                     + (IF names[0 + 1] \notin {<<>>, <<Dot>>, <<Dot, Dot>>} THEN 1 ELSE 0)
        BY <1>1, Zenon
      <3>3. names[0 + 1] # <<Dot, Dot>> /\ names[0 + 1] \in {<<>>, <<Dot>>, <<Dot, Dot>>}
        BY <1>dots, <3>1
      <3>. QED
        BY <2>4, <3>1, <3>2, <3>3
    <2>6. RootBelow(S, names, 1)
      <3>1. StackOf(names, 1) = << <<>> >> /\ StackOf(names, 1) \in Seq(PlainNames(S))
        BY <1>0, <1>2, <2>2, <2>3
      <3>2. Len(<< <<>> >>) = 1 /\ << <<>> >>[1] = <<>> /\ 1 = 1 + 0 - 0
        OBVIOUS
      <3>. QED
        BY <2>5, <3>1, <3>2, Zenon DEF RootBelow
    <2>. QED
      BY <2>6
  <1>4. ASSUME NEW j \in Nat, j \in T PROVE j + 1 \in T
    <2> SUFFICES ASSUME (j + 1) + 1 <= Len(names) PROVE RootBelow(S, names, (j + 1) + 1)
      OBVIOUS
    <2> DEFINE k == j + 1
               n == names[k + 1]
               st == StackOf(names, k)
    <2>1. k \in Nat /\ k # 0 /\ k + 1 <= Len(names) /\ k <= Len(names) /\ k + 1 \in 1..Len(names)
      BY <1>0
    <2>2. st \in Seq(PlainNames(S)) /\ Len(st) = 1 + Downs(names, k) - Ups(names, k) /\ st[1] = <<>>
      BY <1>4, <2>1 DEF RootBelow
    <2> HIDE DEF k
    <2>3. /\ n \in PlainNames(S)
          /\ StackOf(names, k + 1) = IF n # <<>> THEN Enter(st, n) ELSE st
      BY <2>1, StackMore
    <2>4. /\ Ups(names, k) \in Nat /\ Downs(names, k) \in Nat
          /\ Ups(names, k + 1) = Ups(names, k) + (IF n = <<Dot, Dot>> THEN 1 ELSE 0)
          /\ Downs(names, k + 1)
               = Downs(names, k) + (IF n \notin {<<>>, <<Dot>>, <<Dot, Dot>>} THEN 1 ELSE 0)
      BY <1>1, <2>1
    <2>5. Ups(names, k) <= Downs(names, k) /\ Ups(names, k + 1) <= Downs(names, k + 1)
      BY <2>1
    <2>6. StackOf(names, k + 1) \in Seq(PlainNames(S))
      BY <1>2, <2>1
    <2> HIDE DEF n, st
    <2>7. /\ Len(StackOf(names, k + 1)) = 1 + Downs(names, k + 1) - Ups(names, k + 1)
          /\ StackOf(names, k + 1)[1] = <<>>
      <3>1. CASE n = <<>> \/ n = <<Dot>>
        <4>1. StackOf(names, k + 1) = st
          <5>1. CASE n = <<>>
            BY <2>3, <5>1
          <5>2. CASE n = <<Dot>>
            BY <1>dots, <2>3, <5>2, Zenon DEF Enter
          <5>. QED
            BY <3>1, <5>1, <5>2
        <4>2. n # <<Dot, Dot>> /\ n \in {<<>>, <<Dot>>, <<Dot, Dot>>}
          BY <1>dots, <3>1, Zenon
        <4>3. Ups(names, k + 1) = Ups(names, k) /\ Downs(names, k + 1) = Downs(names, k)
          BY <2>4, <4>2
        <4>. QED
          BY <2>2, <4>1, <4>3
      <3>2. CASE n = <<Dot, Dot>>
        <4>1. n # <<>> /\ n # <<Dot>>
          BY <3>2
        <4>2. StackOf(names, k + 1) = Pop(st)
          BY <2>3, <3>2, <4>1 DEF Enter
        <4>3. /\ Ups(names, k + 1) = Ups(names, k) + 1
              /\ Downs(names, k + 1) = Downs(names, k)
          BY <2>4, <3>2
        <4>4. Len(st) >= 2
          BY <2>2, <2>4, <2>5, <4>3
        <4>5. Pop(st) = Front(st) /\ Len(Front(st)) = Len(st) - 1 /\ Front(st)[1] = st[1]
          BY <2>2, <4>4 DEF Pop, Front
        <4>6. Len(Pop(st)) = 1 + Downs(names, k + 1) - Ups(names, k + 1) /\ Pop(st)[1] = <<>>
          BY <2>2, <2>4, <4>3, <4>5
        <4>. QED
          BY <4>2, <4>6
      <3>3. CASE n \notin {<<>>, <<Dot>>, <<Dot, Dot>>}
        <4>1. StackOf(names, k + 1) = Append(st, WithoutLastDot(n))
          BY <2>3, <3>3 DEF Enter
        <4>2. /\ Ups(names, k + 1) = Ups(names, k)
              /\ Downs(names, k + 1) = Downs(names, k) + 1
          BY <2>4, <3>3
        <4>3. Len(st) \in Nat /\ Len(st) >= 1
          BY <2>2, <2>4, <2>5
        <4>4. Len(Append(st, WithoutLastDot(n))) = Len(st) + 1 /\ Append(st, WithoutLastDot(n))[1] = st[1]
          BY <2>2, <4>3
        <4>5. /\ Len(Append(st, WithoutLastDot(n))) = 1 + Downs(names, k + 1) - Ups(names, k + 1)
              /\ Append(st, WithoutLastDot(n))[1] = <<>>
          BY <2>2, <2>4, <4>2, <4>4
        <4>. QED
          BY <4>1, <4>5
      <3>. QED
        BY <3>1, <3>2, <3>3
    <2>. QED
      BY <2>6, <2>7 DEF RootBelow, k
  <1> HIDE DEF T
  <1>5. \A k \in Nat : k \in T
    BY <1>3, <1>4, AllNaturals
  <1> SUFFICES ASSUME NEW k \in 1..Len(names) PROVE RootBelow(S, names, k)
    OBVIOUS
  <1>6. k - 1 \in Nat /\ (k - 1) + 1 = k /\ k <= Len(names)
    BY <1>0
  <1>. QED
    BY <1>5, <1>6 DEF T

\* A path put together of an empty name and others starts with a separator.
LEMMA DirectoriesRooted ==
  ASSUME NEW S, BackSlash \in S, NEW stack \in Seq(PlainNames(S)), stack # <<>>, stack[1] = <<>>
  PROVE  /\ Directories(stack) \in Seq(S)
         /\ Directories(stack) # <<>> /\ Directories(stack)[1] = BackSlash
  <1> DEFINE Good(x) == Directories(x) \in Seq(S) /\ Directories(x) # <<>> /\ Directories(x)[1] = BackSlash
             T == {x \in Seq(PlainNames(S)) : x # <<>> /\ x[1] = <<>> => Good(x)}
  <1>1. <<>> \in T
    OBVIOUS
  <1>2. ASSUME NEW x \in Seq(PlainNames(S)), NEW n \in PlainNames(S), x \in T PROVE Append(x, n) \in T
    <2> SUFFICES ASSUME Append(x, n)[1] = <<>> PROVE Good(Append(x, n))
      BY OneMore
    <2> DEFINE d == Directories(x)
    <2>1. x \in Seq(Seq(S)) /\ n \in Seq(S)
      BY NamesAreStrings DEF PlainNames
    <2>2. d \in Seq(S) /\ Directories(Append(x, n)) = (d \o n) \o <<BackSlash>>
      BY <2>1, DirectoriesAppend
    <2>3. CASE x = <<>>
      <3>1. n = <<>> /\ d = <<>>
        BY <2>3, DirectoriesIs
      <3>. QED
        BY <2>2, <3>1
    <2>4. CASE x # <<>>
      <3>1. x[1] = <<>>
        BY <2>4
      <3>2. d # <<>> /\ d[1] = BackSlash
        BY <1>2, <2>4, <3>1
      <3> HIDE DEF d
      <3>. QED
        BY <2>1, <2>2, <3>2
    <2>. QED
      BY <2>3, <2>4
  <1> HIDE DEF T
  <1>3. stack \in T
    BY <1>1, <1>2, AllSequences
  <1>. QED
    BY <1>3 DEF T

\* The first name of a path that starts with a separator is empty.
LEMMA SplitRooted ==
  ASSUME NEW S, BackSlash \in S, NEW s \in Seq(S), s # <<>>, s[1] = BackSlash
  PROVE  Len(Split(s)) >= 2 /\ Split(s)[1] = <<>>
  <1> DEFINE T == {x \in Seq(S) : x # <<>> /\ x[1] = BackSlash => Len(Split(x)) >= 2 /\ Split(x)[1] = <<>>}
  <1>1. <<>> \in T
    OBVIOUS
  <1>2. ASSUME NEW x \in Seq(S), NEW c \in S, x \in T PROVE Append(x, c) \in T
    <2> SUFFICES ASSUME Append(x, c)[1] = BackSlash
                 PROVE  Len(Split(Append(x, c))) >= 2 /\ Split(Append(x, c))[1] = <<>>
      BY OneMore
    <2>1. Split(Append(x, c)) = AddChar(Split(x), c) /\ Split(x) \in Lists(S)
      BY SplitIs
    <2>2. CASE x = <<>>
      <3>1. c = BackSlash /\ Split(x) = << <<>> >>
        BY <2>2, SplitIs
      <3>. QED
        BY <2>1, <3>1 DEF AddChar
    <2>3. CASE x # <<>>
      <3>1. x[1] = BackSlash
        BY <2>3
      <3>2. Len(Split(x)) >= 2 /\ Split(x)[1] = <<>> /\ Split(x) \in Seq(Seq(S))
        BY <1>2, <2>1, <2>3, <3>1 DEF Lists
      <3> DEFINE p == Split(x)
      <3> HIDE DEF p
      <3>3. p \in Seq(Seq(S)) /\ Len(p) >= 2 /\ p[1] = <<>> => Len(AddChar(p, c)) >= 2 /\ AddChar(p, c)[1] = <<>>
        <4> SUFFICES ASSUME p \in Seq(Seq(S)), Len(p) >= 2, p[1] = <<>>
                     PROVE  Len(AddChar(p, c)) >= 2 /\ AddChar(p, c)[1] = <<>>
          OBVIOUS
        <4>1. CASE c = BackSlash
          BY <4>1 DEF AddChar
        <4>2. CASE c # BackSlash
          <5>1. AddChar(p, c) = [p EXCEPT ![Len(p)] = Append(p[Len(p)], c)]
            BY <4>2 DEF AddChar
          <5>2. Len([p EXCEPT ![Len(p)] = Append(p[Len(p)], c)]) = Len(p)
            OBVIOUS
          <5>3. [p EXCEPT ![Len(p)] = Append(p[Len(p)], c)][1] = p[1]
            OBVIOUS
          <5>. QED
            BY <5>1, <5>2, <5>3
        <4>. QED
          BY <4>1, <4>2
      <3>. QED
        BY <2>1, <3>2, <3>3 DEF p
    <2>. QED
      BY <2>2, <2>3
  <1> HIDE DEF T
  <1>3. s \in T
    BY <1>1, <1>2, AllSequences
  <1>. QED
    BY <1>3 DEF T

(***************************************************************************)
(* What is left behind a mark that no separator ends, of a path that does  *)
(* not climb above it: nothing, or what starts with the separator.         *)
(***************************************************************************)
LEMMA LeftRooted ==
  ASSUME NEW S, BackSlash \in S, NEW text \in Seq(S), NEW m \in 1..(Len(text) - 1),
         Converted(text)[m] # BackSlash, Converted(text)[m + 1] = BackSlash,
         \A k \in 1..(Len(Split(RestPart(text, m))) - 1) :
           Ups(Split(RestPart(text, m)), k) <= Downs(Split(RestPart(text, m)), k)
  PROVE  LeftOf(text, m) = <<>> \/ LeftOf(text, m)[1] = BackSlash
  <1> DEFINE rest == RestPart(text, m)
             marked == MarkedPart(text, m)
  <1>1. Len(text) \in Nat /\ m \in 0..Len(text) /\ m \in 1..m /\ 1 \in 1..(Len(text) - m)
    OBVIOUS
  <1>2. /\ marked \in Seq(S) /\ Len(marked) = m /\ marked[m] # BackSlash
        /\ rest \in Seq(S) /\ Len(rest) = Len(text) - m /\ rest[1] = BackSlash
    <2>1. MarkedAndRest(S, text, m, marked, rest)
      BY <1>1, MarkedAndRestIs
    <2>. QED
      BY <1>1, <2>1 DEF MarkedAndRest
  <1>3. FirstKept(marked) = {1}
    BY <1>2 DEF FirstKept, Last
  <1>4. PICK names, l : Pieces(S, rest, names, l)
    BY <1>2, ComponentsRead
  <1>5. /\ Reads(S, rest, names, l) /\ Split(rest) = Append(names, l)
        /\ names \in Seq(PlainNames(S)) /\ l \in PlainNames(S)
    BY <1>4 DEF Pieces, Reads
  <1>6. names # <<>> /\ names[1] = <<>> /\ Len(names) \in Nat
        /\ \A k \in 1..Len(names) : Append(names, l)[k] = names[k]
        /\ Len(Append(names, l)) = Len(names) + 1
    <2>1. Len(Append(names, l)) >= 2 /\ Append(names, l)[1] = <<>>
      <3>1. rest # <<>>
        BY <1>1, <1>2
      <3>. QED
        BY <1>2, <1>5, <3>1, SplitRooted
    <2>. QED
      BY <1>5, <2>1
  <1>7. \A k \in 1..Len(names) : Ups(names, k) <= Downs(names, k)
    <2> SUFFICES ASSUME NEW k \in 1..Len(names) PROVE Ups(names, k) <= Downs(names, k)
      OBVIOUS
    <2>1. \A i \in 1..k : Append(names, l)[i] = names[i]
      BY <1>6
    <2>2. /\ UpNames(Append(names, l)) \cap (1..k) = UpNames(names) \cap (1..k)
          /\ DownNames(Append(names, l)) \cap (1..k) = DownNames(names) \cap (1..k)
      BY <2>1 DEF UpNames, DownNames
    <2>3. k \in 1..(Len(Split(rest)) - 1)
      BY <1>5, <1>6
    <2>4. Ups(Append(names, l), k) <= Downs(Append(names, l), k)
      BY <1>5, <2>3
    <2>. QED
      BY <2>2, <2>4 DEF Ups, Downs
  <1> DEFINE K == {1}
             st == EnterAll(Flagged(K, names))
             done == EnterLast(st, l)
  <1>8. st \in Seq(PlainNames(S)) /\ st # <<>> /\ st[1] = <<>>
    <2>1. RootBelow(S, names, Len(names)) /\ SubSeq(names, 1, Len(names)) = names
      <3>1. Len(names) \in 1..Len(names)
        BY <1>6
      <3>2. \A k \in 1..Len(names) : RootBelow(S, names, k)
        BY <1>5, <1>6, <1>7, RootStays
      <3>. QED
        BY <1>5, <3>1, <3>2
    <2>2. Ups(names, Len(names)) <= Downs(names, Len(names))
      BY <1>6, <1>7
    <2>3. Ups(names, Len(names)) \in Nat /\ Downs(names, Len(names)) \in Nat
      BY <1>6, CountMore DEF Ups, Downs
    <2>4. StackOf(names, Len(names)) = st
      BY <2>1 DEF StackOf
    <2>5. Len(st) >= 1
      BY <2>1, <2>2, <2>3, <2>4 DEF RootBelow
    <2>. QED
      BY <2>1, <2>4, <2>5 DEF RootBelow
  <1>9. LeftOf(text, m) = Join(done)
    <2>1. Done(Components(marked, rest)) = EnterLast(EnterAll(Flagged(FirstKept(marked), names)), l)
      BY <1>5, DoneOf
    <2>. QED
      BY <1>3, <2>1 DEF LeftOf
  <1> HIDE DEF st
  <1>10. done = <<>> \/ (done \in Seq(PlainNames(S)) /\ done[1] = <<>> /\ Len(done) \in Nat \ {0})
    <2>1. CASE l = <<Dot>>
      BY <1>8, <2>1 DEF EnterLast
    <2>2. CASE l = <<Dot, Dot>>
      <3>1. done = Front(st)
        BY <1>8, <2>2 DEF EnterLast, Pop
      <3>. QED
        BY <1>8, <3>1 DEF Front
    <2>3. CASE l # <<Dot>> /\ l # <<Dot, Dot>>
      <3>1. done = Append(st, l)
        BY <2>3 DEF EnterLast
      <3>. QED
        BY <1>5, <1>8, <3>1
    <2>. QED
      BY <2>1, <2>2, <2>3
  <1> HIDE DEF done
  <1>11. CASE done = <<>>
    BY <1>9, <1>11 DEF Join
  <1>12. CASE done \in Seq(PlainNames(S)) /\ done[1] = <<>> /\ Len(done) = 1
    <2>1. Front(done) = <<>> /\ Last(done) = <<>>
      BY <1>12 DEF Front, Last
    <2>2. Join(done) = <<>> \o <<>>
      BY <1>12, <2>1, DirectoriesIs DEF Join
    <2>. QED
      BY <1>9, <2>2
  <1>13. CASE done \in Seq(PlainNames(S)) /\ done[1] = <<>> /\ Len(done) \in Nat /\ Len(done) >= 2
    <2>1. /\ Front(done) \in Seq(PlainNames(S)) /\ Front(done) # <<>> /\ Front(done)[1] = <<>>
          /\ Last(done) \in PlainNames(S)
      <3>1. Len(done) - 1 \in 1..(Len(done) - 1) /\ 1 \in 1..(Len(done) - 1) /\ Len(done) \in 1..Len(done)
        BY <1>13
      <3>2. /\ SubSeq(done, 1, Len(done) - 1) \in Seq(PlainNames(S))
            /\ Len(SubSeq(done, 1, Len(done) - 1)) = Len(done) - 1
            /\ SubSeq(done, 1, Len(done) - 1)[1] = done[1]
        BY <1>13, <3>1
      <3>3. done[Len(done)] \in PlainNames(S)
        BY <1>13, <3>1
      <3>4. Front(done) = SubSeq(done, 1, Len(done) - 1) /\ Last(done) = done[Len(done)]
        BY DEF Front, Last
      <3> HIDE DEF done
      <3>5. Len(SubSeq(done, 1, Len(done) - 1)) # 0
        BY <1>13, <3>1, <3>2
      <3>6. SubSeq(done, 1, Len(done) - 1) # <<>>
        <4>1. Len(<<>>) = 0
          OBVIOUS
        <4>. QED
          BY <3>5, <4>1, Zenon
      <3>. QED
        BY <1>13, <3>2, <3>3, <3>4, <3>6, Zenon
    <2>2. Last(done) \in Seq(S)
      BY <2>1 DEF PlainNames
    <2> DEFINE d == Directories(Front(done))
    <2>3. d \in Seq(S) /\ d # <<>> /\ d[1] = BackSlash
      BY <2>1, DirectoriesRooted
    <2>4. Join(done) = d \o Last(done)
      BY <1>13 DEF Join
    <2> HIDE DEF d
    <2>5. (d \o Last(done))[1] = BackSlash
      BY <2>2, <2>3
    <2>. QED
      BY <1>9, <2>4, <2>5
  <1>14. \A n \in Nat \ {0} : n = 1 \/ (n \in Nat /\ n >= 2)
    OBVIOUS
  <1>. QED
    BY <1>10, <1>11, <1>12, <1>13, <1>14, Zenon
=============================================================================
