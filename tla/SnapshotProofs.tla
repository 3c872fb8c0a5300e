--------------------------- MODULE SnapshotProofs ---------------------------
(***************************************************************************)
(* Proofs about what becomes of the answer to one poll, for any number of  *)
(* folders, projects, containers, probes and services, and counters of any *)
(* size.                                                                   *)
(*                                                                         *)
(* Several definitions recur over a list.  What they compute is proved by  *)
(* induction on sets of numbers: the library's induction theorems are      *)
(* about operators, which the provers do not instantiate.                  *)
(***************************************************************************)
EXTENDS SnapshotParts, Integers, FiniteSetTheorems, WellFoundedInduction, SequenceTheorems, TLAPS

-----------------------------------------------------------------------------
(* Induction and recursion                                                 *)

\* A set of naturals has a smallest element: the intervals up to its elements
\* are finite sets, and inclusion is well-founded on these.
LEMMA LeastElement ==
    ASSUME NEW T \in SUBSET Nat, T # {}
    PROVE  \E m \in T : \A k \in T : m <= k
<1> DEFINE Upto == {0..n : n \in T}
<1>1. Upto \subseteq FiniteSubsetsOf(Nat) /\ Upto # {}
  <2>1. \A n \in T : 0..n \in SUBSET Nat /\ IsFiniteSet(0..n)
    BY FS_Interval
  <2>2. QED
    BY <2>1 DEF FiniteSubsetsOf
<1>2. IsWellFoundedOn(StrictSubsetOrdering(Nat), FiniteSubsetsOf(Nat))
  BY FS_StrictSubsetOrderingWellFounded
<1>3. \E x \in Upto : \A y \in Upto : ~(<<y, x>> \in StrictSubsetOrdering(Nat))
  BY <1>1, <1>2, WFMin, Zenon
<1>4. PICK m \in T : \A k \in T : <<0..k, 0..m>> \notin StrictSubsetOrdering(Nat)
  BY <1>3
<1>5. ASSUME NEW k \in T, k < m PROVE FALSE
  <2>1. <<0..k, 0..m>> \in StrictSubsetOrdering(Nat)
    BY <1>5 DEF StrictSubsetOrdering
  <2>2. QED
    BY <1>4, <2>1
<1>6. QED
  BY <1>5

\* A set with 0 and the successor of each of its numbers has all numbers.
LEMMA SetInduction ==
    ASSUME NEW S, 0 \in S, \A n \in Nat : n \in S => n + 1 \in S
    PROVE  Nat \subseteq S
<1>1. SUFFICES ASSUME Nat \ S # {} PROVE FALSE
  OBVIOUS
<1>2. PICK m \in Nat \ S : \A k \in Nat \ S : m <= k
  BY <1>1, LeastElement
<1>3. m - 1 \in Nat /\ m - 1 \in S
  BY <1>2
<1>4. QED
  BY <1>2, <1>3

\* The same up to a bound.
LEMMA BoundedInduction ==
    ASSUME NEW L \in Nat, NEW S, 0 \in S, \A n \in 0..(L - 1) : n \in S => n + 1 \in S
    PROVE  0..L \subseteq S
<1> DEFINE T == {n \in Nat : n <= L => n \in S}
<1>1. Nat \subseteq T
  <2>1. 0 \in T /\ \A n \in Nat : n \in T => n + 1 \in T
    OBVIOUS
  <2>2. QED
    BY <2>1, SetInduction
<1>2. QED
  BY <1>1

\* From `base`, by the steps `next`.
StepsOver(L, V) == [1..L -> [V -> V]]
Recurs(f, L, V, base, next) ==
    /\ f \in [0..L -> V] /\ f[0] = base
    /\ \A i \in 1..L : f[i] = next[i][f[i - 1]]

\* A function that recurs to the number before exists.
LEMMA RecursionExists ==
    ASSUME NEW L \in Nat, NEW V, NEW base \in V, NEW next \in StepsOver(L, V)
    PROVE  \E f : Recurs(f, L, V, base, next)
<1> USE DEF StepsOver
<1> DEFINE Solves(f, n) ==
        f[0] = base /\ \A i \in 1..n : f[i] = next[i][f[i - 1]]
<1> DEFINE S == {n \in 0..L : \E f \in [0..n -> V] : Solves(f, n)}
<1>1. 0 \in S
  <2> DEFINE g == [i \in 0..0 |-> base]
  <2>1. g \in [0..0 -> V] /\ Solves(g, 0)
    OBVIOUS
  <2>2. \E h \in [0..0 -> V] : Solves(h, 0)
    <3> HIDE DEF g
    <3>1. QED
      BY <2>1
  <2>3. QED
    BY <2>2
<1>2. ASSUME NEW n \in 0..(L - 1), n \in S PROVE n + 1 \in S
  <2>1. PICK f \in [0..n -> V] : Solves(f, n)
    BY <1>2
  <2> DEFINE g == [i \in 0..(n + 1) |-> IF i = n + 1 THEN next[n + 1][f[n]] ELSE f[i]]
  <2>2. next[n + 1][f[n]] \in V
    OBVIOUS
  <2>3. g \in [0..(n + 1) -> V]
    BY <2>2
  <2>4. Solves(g, n + 1)
    BY <2>1
  <2>5. \E h \in [0..(n + 1) -> V] : Solves(h, n + 1)
    <3> HIDE DEF g
    <3>1. QED
      BY <2>3, <2>4
  <2>6. QED
    BY <2>5
<1>3. L \in S
  <2> HIDE DEF S
  <2>1. \A n \in 0..(L - 1) : n \in S => n + 1 \in S
    BY <1>2
  <2>2. 0..L \subseteq S
    BY ONLY L \in Nat, <1>1, <2>1, BoundedInduction
  <2>3. QED
    BY <2>2
<1>4. QED
  BY <1>3 DEF Recurs

-----------------------------------------------------------------------------
(* The matching of folders and projects                                    *)

Matching == UNION {[D -> Project] : D \in SUBSET Folder}

LEMMA FoldersType == Folders \in Seq(Folder) /\ Len(Folders) \in Nat /\ \A i \in 1..Len(Folders) : Folders[i] \in Folder
  BY IdentityAssumption

\* Every folder has its turn.
LEMMA FoldersListed ==
    ASSUME NEW f \in Folder
    PROVE  \E i \in 1..Len(Folders) : Folders[i] = f
  BY IdentityAssumption DEF Folder, Range

LEMMA ClaimType ==
    ASSUME NEW m \in Matching, NEW f \in Folder, NEW c \in SUBSET Project
    PROVE  Claim(m, f, c) \in Matching
<1>1. CASE f \in DOMAIN m \/ c \subseteq Range(m)
  BY <1>1 DEF Claim
<1>2. CASE f \notin DOMAIN m /\ ~(c \subseteq Range(m))
  <2> DEFINE x == CHOOSE p \in c \ Range(m) : TRUE
             r == [g \in DOMAIN m \cup {f} |-> IF g = f THEN x ELSE m[g]]
  <2>1. Claim(m, f, c) = r
    BY <1>2 DEF Claim
  <2>2. x \in Project
    BY <1>2
  <2> HIDE DEF x
  <2>3. PICK D \in SUBSET Folder : m \in [D -> Project]
    BY DEF Matching
  <2>4. r \in [D \cup {f} -> Project] /\ D \cup {f} \in SUBSET Folder
    BY <2>2, <2>3
  <2>5. QED
    BY <2>1, <2>4 DEF Matching
<1>3. QED
  BY <1>1, <1>2

Picked(S) == CHOOSE p \in S : TRUE

\* The matching r is m with a free candidate for f.
CanTake(m, f, c) == f \notin DOMAIN m /\ ~(c \subseteq Range(m))
Takes(m, f, c, r) ==
    /\ DOMAIN r = DOMAIN m \cup {f}
    /\ r[f] = Picked(c \ Range(m)) /\ r[f] \in c /\ r[f] \notin Range(m)
    /\ \A g \in DOMAIN m : r[g] = m[g]

LEMMA ClaimTakes ==
    ASSUME NEW m, NEW f, NEW c
    PROVE  IF CanTake(m, f, c) THEN Takes(m, f, c, Claim(m, f, c)) ELSE Claim(m, f, c) = m
<1>1. CASE ~CanTake(m, f, c)
  BY <1>1 DEF Claim, CanTake
<1>2. CASE CanTake(m, f, c)
  <2> DEFINE x == CHOOSE p \in c \ Range(m) : TRUE
             r == [g \in DOMAIN m \cup {f} |-> IF g = f THEN x ELSE m[g]]
  <2>1. Claim(m, f, c) = r
    BY <1>2 DEF Claim, CanTake
  <2>2. x \in c \ Range(m)
    BY <1>2 DEF CanTake
  <2> HIDE DEF x
  <2>3. DOMAIN r = DOMAIN m \cup {f} /\ r[f] = x /\ \A g \in DOMAIN m : r[g] = m[g]
    BY <1>2 DEF CanTake
  <2>4. QED
    BY <1>2, <2>1, <2>2, <2>3 DEF x, Picked, Takes
<1>3. QED
  BY <1>1, <1>2

\* What one rule does, folder by folder.
Steps(n, candidates, matched, u) ==
    /\ DOMAIN u = 0..Len(Folders) /\ u[0] = matched
    /\ Resolve(n, candidates, matched) = u[Len(Folders)]
    /\ \A i \in 1..Len(Folders) :
          u[i] = IF Folders[i] \in n.dirs THEN Claim(u[i - 1], Folders[i], candidates[Folders[i]]) ELSE u[i - 1]

LEMMA Resolving ==
    ASSUME NEW n, NEW candidates \in [Folder -> SUBSET Project], NEW matched \in Matching
    PROVE  \E u \in [0..Len(Folders) -> Matching] : Steps(n, candidates, matched, u)
<1> DEFINE L == Len(Folders)
           Turn(i, m) == IF Folders[i] \in n.dirs THEN Claim(m, Folders[i], candidates[Folders[i]]) ELSE m
           next == [i \in 1..L |-> [m \in Matching |-> Turn(i, m)]]
           Is(u) == u = [i \in 0..L |->
                           IF i = 0 THEN matched
                           ELSE IF Folders[i] \in n.dirs THEN Claim(u[i - 1], Folders[i], candidates[Folders[i]])
                           ELSE u[i - 1]]
<1>1. ASSUME NEW i \in 1..L, NEW m \in Matching PROVE Turn(i, m) \in Matching
  <2>1. Folders[i] \in Folder /\ candidates[Folders[i]] \in SUBSET Project
    BY FoldersType
  <2>2. Claim(m, Folders[i], candidates[Folders[i]]) \in Matching
    BY <2>1, ClaimType
  <2>3. QED
    BY <2>2
<1>2. next \in StepsOver(L, Matching)
  BY <1>1 DEF StepsOver
<1>3. PICK f : Recurs(f, L, Matching, matched, next)
  <2>1. L \in Nat
    BY FoldersType
  <2> HIDE DEF L, next
  <2>2. QED
    BY <1>2, <2>1, RecursionExists
<1>4. /\ f \in [0..L -> Matching] /\ f[0] = matched
      /\ \A i \in 1..L : i - 1 \in 0..L /\ f[i - 1] \in Matching /\ f[i] = Turn(i, f[i - 1])
  <2>1. L \in Nat
    BY FoldersType
  <2>2. /\ f \in [0..L -> Matching] /\ f[0] = matched
        /\ \A i \in 1..L : i - 1 \in 0..L /\ f[i - 1] \in Matching /\ f[i] = next[i][f[i - 1]]
    <3> HIDE DEF next, L
    <3>1. QED
      BY <1>3, <2>1 DEF Recurs
  <2>3. QED
    BY <2>2
<1>5. Is(f)
  BY <1>4, FoldersType
<1>6. Resolve(n, candidates, matched) = (CHOOSE u : Is(u))[L]
  BY Zenon DEF Resolve
<1> DEFINE u == CHOOSE u : Is(u)
<1>7. Is(u)
  BY <1>5
<1>8. /\ DOMAIN u = 0..L /\ u[0] = matched
      /\ \A i \in 1..L : u[i] = Turn(i, u[i - 1])
  <2> HIDE DEF u
  <2>1. L \in Nat
    BY FoldersType
  <2> HIDE DEF L
  <2>2. DOMAIN u = 0..L
    BY <1>7
  <2>3. u[0] = matched
    BY <1>7, <2>1
  <2>4. ASSUME NEW i \in 1..L PROVE u[i] = Turn(i, u[i - 1])
    <3>1. i \in 0..L /\ i # 0
      BY <2>1
    <3>2. QED
      BY <1>7, <3>1
  <2>5. QED
    BY <2>2, <2>3, <2>4
<1>9. u \in [0..L -> Matching]
  <2> HIDE DEF u
  <2> DEFINE S == {i \in 0..L : u[i] \in Matching}
  <2>1. 0 \in S /\ \A i \in 0..(L - 1) : i \in S => i + 1 \in S
    BY <1>1, <1>8, FoldersType
  <2>2. 0..L \subseteq S
    <3> HIDE DEF S
    <3>1. QED
      BY <2>1, FoldersType, BoundedInduction
  <2>3. u = [i \in 0..L |-> u[i]]
    BY <1>7
  <2>4. QED
    BY <2>2, <2>3
<1>10. QED
  <2> HIDE DEF u
  <2>1. Resolve(n, candidates, matched) = u[L]
    BY <1>6 DEF u
  <2>2. QED
    BY <1>8, <1>9, <2>1 DEF Steps

\* What a poll can be about.
Readable(n) == n.dirs \in SUBSET Folder /\ n.up \in SUBSET Project

Injective(m) == \A f, g \in DOMAIN m : m[f] = m[g] => f = g

\* A matching of what could be read: a folder has one project, a project one
\* folder.
Fits(n, m) ==
    m \in Matching /\ Injective(m) /\ DOMAIN m \subseteq n.dirs /\ \A f \in DOMAIN m : m[f] \in n.up

\* A rule keeps what was matched, gives the others what it has for them, and
\* leaves a folder without only if all of that is taken.
Ruled(n, candidates, matched, r) ==
    /\ Fits(n, r)
    /\ DOMAIN matched \subseteq DOMAIN r /\ \A f \in DOMAIN matched : r[f] = matched[f]
    /\ \A f \in DOMAIN r \ DOMAIN matched : r[f] \in candidates[f]
    /\ \A f \in n.dirs \ DOMAIN r : candidates[f] \subseteq Range(r)

LEMMA Resolved ==
    ASSUME NEW n, Readable(n), NEW matched, Fits(n, matched), NEW candidates \in [Folder -> SUBSET n.up]
    PROVE  Ruled(n, candidates, matched, Resolve(n, candidates, matched))
<1> DEFINE L == Len(Folders)
<1>1. candidates \in [Folder -> SUBSET Project] /\ matched \in Matching /\ L \in Nat
  BY FoldersType DEF Readable, Fits
<1>2. PICK u \in [0..L -> Matching] : Steps(n, candidates, matched, u)
  BY <1>1, Resolving
<1> DEFINE Holds(i, m) == /\ Fits(n, m)
                          /\ DOMAIN matched \subseteq DOMAIN m /\ \A f \in DOMAIN matched : m[f] = matched[f]
                          /\ \A f \in DOMAIN m \ DOMAIN matched : m[f] \in candidates[f]
                          /\ \A k \in 1..i : Folders[k] \in n.dirs \ DOMAIN m => candidates[Folders[k]] \subseteq Range(m)
           S == {i \in 0..L : Holds(i, u[i])}
<1>3. 0 \in S
  BY <1>1, <1>2 DEF Steps
<1>4. ASSUME NEW i \in 0..(L - 1), i \in S PROVE i + 1 \in S
  <2> DEFINE f == Folders[i + 1]
             c == candidates[f]
             x == u[i]
             v == u[i + 1]
  <2>1. i + 1 \in 0..L /\ f \in Folder /\ v = IF f \in n.dirs THEN Claim(x, f, c) ELSE x
    <3>1. i + 1 \in 1..L /\ i \in 0..L /\ f \in Folder /\ (i + 1) - 1 = i
      BY FoldersType
    <3> HIDE DEF L
    <3>2. QED
      BY <1>1, <1>2, <3>1 DEF Steps, L
  <2>2. c \subseteq n.up /\ v \in Matching
    BY <1>2, <2>1
  <2>3. Holds(i, x)
    BY <1>4
  <2>4. 1..(i + 1) = 1..i \cup {i + 1}
    BY <2>1
  <2>5. CASE f \notin n.dirs \/ f \in DOMAIN x \/ c \subseteq Range(x)
    <3>1. v = x
      <4> HIDE DEF f, c, x, v
      <4>1. QED
        BY <2>1, <2>5 DEF Claim
    <3>2. Holds(i + 1, x)
      <4> HIDE DEF x
      <4>1. QED
        BY <2>3, <2>4, <2>5
    <3> HIDE DEF Holds
    <3>3. QED
      BY <2>1, <3>1, <3>2
  <2>6. CASE f \in n.dirs /\ f \notin DOMAIN x /\ ~(c \subseteq Range(x))
    <3>1. Takes(x, f, c, v)
      <4>1. v = Claim(x, f, c) /\ CanTake(x, f, c)
        BY <2>1, <2>6 DEF CanTake
      <4> HIDE DEF v, f, c, x
      <4>2. QED
        BY <4>1, ClaimTakes
    <3>2. f = Folders[i + 1] /\ c = candidates[f]
      OBVIOUS
    <3> HIDE DEF v, f, c, x
    <3>3. /\ DOMAIN v = DOMAIN x \cup {f} /\ v[f] \in c /\ v[f] \notin Range(x)
          /\ \A g \in DOMAIN x : v[g] = x[g]
      BY <3>1 DEF Takes
    <3>4. Fits(n, v)
      <4>1. \A g \in DOMAIN x : v[g] # v[f]
        BY <3>3 DEF Range
      <4>2. Injective(v)
        BY <2>3, <3>3, <4>1 DEF Fits, Injective
      <4>3. QED
        BY <2>2, <2>3, <2>6, <3>3, <4>2 DEF Fits
    <3>5. Range(x) \subseteq Range(v)
      BY <3>3 DEF Range
    <3>6. \A g \in DOMAIN v \ DOMAIN matched : v[g] \in candidates[g]
      BY <2>3, <3>2, <3>3
    <3>7. \A k \in 1..(i + 1) : Folders[k] \in n.dirs \ DOMAIN v => candidates[Folders[k]] \subseteq Range(v)
      BY <2>3, <2>4, <3>2, <3>3, <3>5
    <3>8. Holds(i + 1, v)
      BY <2>3, <3>3, <3>4, <3>6, <3>7
    <3>9. QED
      <4> HIDE DEF Holds
      <4>1. QED
        BY <2>1, <3>8 DEF v
  <2>7. QED
    BY <2>5, <2>6
<1>5. Holds(L, u[L])
  <2>1. \A i \in 0..(L - 1) : i \in S => i + 1 \in S
    BY <1>4
  <2>2. 0..L \subseteq S
    <3> HIDE DEF S, L
    <3>1. QED
      BY <1>1, <1>3, <2>1, BoundedInduction
  <2> HIDE DEF Holds
  <2>3. QED
    BY <1>1, <2>2
<1>6. Resolve(n, candidates, matched) = u[L]
  BY <1>2 DEF Steps
<1>7. \A f \in n.dirs : \E k \in 1..L : Folders[k] = f
  BY FoldersListed DEF Readable
<1>8. QED
  <2> DEFINE r == u[L]
  <2>1. Holds(L, r) /\ Resolve(n, candidates, matched) = r
    BY <1>5, <1>6
  <2> HIDE DEF L, r
  <2>2. QED
    BY <1>7, <2>1 DEF Ruled

\* The same folders with the same candidates get the same.
LEMMA ResolvingSame ==
    ASSUME NEW n, NEW m, m.dirs = n.dirs, NEW matched \in Matching,
           NEW c \in [Folder -> SUBSET Project], NEW d \in [Folder -> SUBSET Project],
           \A f \in n.dirs : d[f] = c[f]
    PROVE  Resolve(n, c, matched) = Resolve(m, d, matched)
<1> DEFINE L == Len(Folders)
<1>1. L \in Nat
  BY FoldersType
<1>2. PICK u \in [0..L -> Matching] : Steps(n, c, matched, u)
  BY Resolving
<1>3. PICK v \in [0..L -> Matching] : Steps(m, d, matched, v)
  BY Resolving
<1> DEFINE S == {i \in 0..L : u[i] = v[i]}
<1>4. 0 \in S
  BY <1>1, <1>2, <1>3 DEF Steps
<1>5. ASSUME NEW i \in 0..(L - 1), i \in S PROVE i + 1 \in S
  <2>1. i + 1 \in 1..L /\ i + 1 \in 0..L /\ (i + 1) - 1 = i
    BY <1>1
  <2> HIDE DEF L
  <2>2. u[i + 1] = IF Folders[i + 1] \in n.dirs THEN Claim(u[i], Folders[i + 1], c[Folders[i + 1]]) ELSE u[i]
    BY <1>2, <2>1 DEF Steps, L
  <2>3. v[i + 1] = IF Folders[i + 1] \in m.dirs THEN Claim(v[i], Folders[i + 1], d[Folders[i + 1]]) ELSE v[i]
    BY <1>3, <2>1 DEF Steps, L
  <2>4. QED
    BY <1>5, <2>1, <2>2, <2>3
<1>6. u[L] = v[L]
  <2>1. \A i \in 0..(L - 1) : i \in S => i + 1 \in S
    BY <1>5
  <2>2. 0..L \subseteq S
    <3> HIDE DEF S, L
    <3>1. QED
      BY <1>1, <1>4, <2>1, BoundedInduction
  <2>3. QED
    BY <1>1, <2>2
<1>7. QED
  BY <1>2, <1>3, <1>6 DEF Steps

\* The matching y is x with p for f, which x does not give away.
Agree(f, p, x, y) ==
    /\ DOMAIN y = DOMAIN x \cup {f} /\ y[f] = p /\ p \notin Range(x)
    /\ \A g \in DOMAIN x : y[g] = x[g]

\* The same candidates, and p besides.
More(p, c, d) == \A g \in Folder : p \notin c[g] /\ d[g] \ {p} = c[g]

\* Only f may have p, and nothing else.
Reserved(dirs, f, p, c, d) == f \in dirs /\ d[f] = {p} /\ \A g \in dirs \ {f} : d[g] = c[g]

\* With p running besides, a folder that finds no project gets it, and the
\* others get what they had: if f has p from an earlier rule, or if this rule
\* has it for no other.
LEMMA ResolvingMore ==
    ASSUME NEW n, NEW m, n.dirs \in SUBSET Folder, m.dirs = n.dirs, NEW f \in Folder, NEW p,
           NEW c \in [Folder -> SUBSET Project], NEW d \in [Folder -> SUBSET Project], More(p, c, d),
           NEW matched \in Matching, NEW more \in Matching,
           \/ Agree(f, p, matched, more)
           \/ more = matched /\ p \notin Range(matched) /\ Reserved(n.dirs, f, p, c, d),
           f \notin DOMAIN Resolve(n, c, matched)
    PROVE  Agree(f, p, Resolve(n, c, matched), Resolve(m, d, more))
<1> DEFINE L == Len(Folders)
<1>1. L \in Nat
  BY FoldersType
<1>2. PICK u \in [0..L -> Matching] : Steps(n, c, matched, u)
  BY Resolving
<1>3. PICK v \in [0..L -> Matching] : Steps(m, d, more, v)
  BY Resolving
<1> DEFINE Waits(i, x, y) == /\ y = x /\ p \notin Range(x) /\ Reserved(n.dirs, f, p, c, d)
                             /\ \A k \in 1..i : Folders[k] # f
           Holds(i, x, y) == f \in DOMAIN x \/ Agree(f, p, x, y) \/ Waits(i, x, y)
           S == {i \in 0..L : Holds(i, u[i], v[i])}
<1>4. 0 \in S
  BY <1>1, <1>2, <1>3 DEF Steps
<1>5. ASSUME NEW i \in 0..(L - 1), i \in S PROVE i + 1 \in S
  <2> DEFINE g == Folders[i + 1]
             x == u[i]
             y == v[i]
             z == u[i + 1]
             w == v[i + 1]
             a == c[g]
             b == d[g]
  <2>1. /\ i + 1 \in 0..L /\ g \in Folder
        /\ z = IF g \in n.dirs THEN Claim(x, g, a) ELSE x
        /\ w = IF g \in n.dirs THEN Claim(y, g, b) ELSE y
    <3>1. i + 1 \in 1..L /\ i \in 0..L /\ g \in Folder /\ (i + 1) - 1 = i
      BY FoldersType
    <3> HIDE DEF L
    <3>2. z = IF g \in n.dirs THEN Claim(x, g, a) ELSE x
      BY <1>2, <3>1 DEF Steps, L
    <3>3. w = IF g \in n.dirs THEN Claim(y, g, b) ELSE y
      BY <1>3, <3>1 DEF Steps, L
    <3>4. i + 1 \in 0..L
      BY <1>1, <3>1
    <3>5. QED
      BY <3>1, <3>2, <3>3, <3>4
  <2>2. p \notin a /\ b \ {p} = a /\ 1..(i + 1) = 1..i \cup {i + 1}
    BY <2>1 DEF More
  <2>3. Holds(i, x, y)
    BY <1>5
  <2>4. g = Folders[i + 1] /\ a = c[g] /\ b = d[g]
    OBVIOUS
  <2>5. z = x \/ Takes(x, g, a, z)
    <3> HIDE DEF x, z, a, g
    <3>1. QED
      BY <2>1, ClaimTakes
  <2>6. Holds(i + 1, z, w)
    <3> HIDE DEF x, y, z, w, a, b, g
    <3>1. CASE f \in DOMAIN x
      BY <2>5, <3>1 DEF Takes
    <3>2. CASE g \notin n.dirs
      <4>1. z = x /\ w = y
        BY <2>1, <3>2
      <4>2. Waits(i, x, y) => Waits(i + 1, x, y)
        BY <2>2, <2>4, <3>2 DEF Reserved
      <4>3. QED
        BY <2>3, <4>1, <4>2
    <3>3. CASE g \in n.dirs /\ g = f /\ f \notin DOMAIN x
      <4>1. CASE Agree(f, p, x, y)
        <5>1. w = y
          BY <2>1, <3>3, <4>1 DEF Claim, Agree
        <5>2. QED
          BY <2>5, <3>3, <4>1, <5>1 DEF Takes
      <4>2. CASE Waits(i, x, y)
        <5>1. a = {} /\ b = {p}
          BY <2>2, <2>4, <3>3, <4>2 DEF Reserved
        <5>2. z = x
          BY <2>1, <3>3, <5>1 DEF Claim
        <5>3. Takes(y, g, b, w)
          <6>1. CanTake(y, g, b) /\ w = Claim(y, g, b)
            BY <2>1, <3>3, <4>2, <5>1 DEF CanTake
          <6>2. QED
            BY <6>1, ClaimTakes
        <5>4. Agree(f, p, z, w)
          BY <3>3, <4>2, <5>1, <5>2, <5>3 DEF Takes, Agree
        <5>5. QED
          BY <5>4
      <4>3. QED
        BY <2>3, <3>3, <4>1, <4>2
    <3>4. CASE g \in n.dirs /\ g # f /\ f \notin DOMAIN x
      <4>1. CASE Waits(i, x, y)
        <5>1. a = b
          BY <2>4, <3>4, <4>1 DEF Reserved
        <5>2. z = w
          BY <2>1, <3>4, <4>1, <5>1
        <5>3. p \notin Range(z)
          BY <2>2, <2>5, <4>1 DEF Takes, Range
        <5>4. Waits(i + 1, z, w)
          BY <2>2, <2>4, <3>4, <4>1, <5>2, <5>3
        <5>5. QED
          BY <5>4
      <4>2. CASE Agree(f, p, x, y)
        <5>1. Range(y) = Range(x) \cup {p}
          BY <4>2 DEF Agree, Range
        <5>2. b \ Range(y) = a \ Range(x)
          BY <2>2, <5>1
        <5>3. g \in DOMAIN y <=> g \in DOMAIN x
          BY <3>4, <4>2 DEF Agree
        <5>4. CanTake(x, g, a) <=> CanTake(y, g, b)
          BY <5>2, <5>3 DEF CanTake
        <5>5. CASE ~CanTake(x, g, a)
          <6>1. z = x /\ w = y
            BY <2>1, <5>4, <5>5, ClaimTakes
          <6>2. QED
            BY <4>2, <6>1
        <5>6. CASE CanTake(x, g, a)
          <6>1. Takes(x, g, a, z) /\ Takes(y, g, b, w)
            BY <2>1, <3>4, <5>4, <5>6, ClaimTakes
          <6>2. z[g] = w[g] /\ z[g] # p
            BY <2>2, <5>2, <6>1 DEF Takes
          <6>3. /\ DOMAIN z = DOMAIN x \cup {g} /\ \A h \in DOMAIN x : z[h] = x[h]
                /\ DOMAIN w = DOMAIN y \cup {g} /\ \A h \in DOMAIN y : w[h] = y[h]
            BY <6>1 DEF Takes
          <6>4. p \notin Range(z)
            BY <4>2, <6>2, <6>3 DEF Range, Agree
          <6>5. Agree(f, p, z, w)
            BY <3>4, <4>2, <6>2, <6>3, <6>4 DEF Agree
          <6>6. QED
            BY <6>5
        <5>7. QED
          BY <5>5, <5>6
      <4>3. QED
        BY <2>3, <3>4, <4>1, <4>2
    <3>5. QED
      BY <3>1, <3>2, <3>3, <3>4
  <2>7. QED
    <3> HIDE DEF Holds
    <3>1. QED
      BY <2>1, <2>6
<1>6. Holds(L, u[L], v[L])
  <2>1. \A i \in 0..(L - 1) : i \in S => i + 1 \in S
    BY <1>5
  <2>2. 0..L \subseteq S
    <3> HIDE DEF S, L
    <3>1. QED
      BY <1>1, <1>4, <2>1, BoundedInduction
  <2> HIDE DEF Holds
  <2>3. QED
    BY <1>1, <2>2
<1>7. Resolve(n, c, matched) = u[L] /\ Resolve(m, d, more) = v[L]
  BY <1>2, <1>3 DEF Steps
<1>8. \E k \in 1..L : Folders[k] = f
  BY FoldersListed
<1>9. QED
  <2> HIDE DEF L
  <2>1. QED
    BY <1>6, <1>7, <1>8

NamesOf(derive, n) == [f \in Folder |-> {derive[f]} \cap n.up]
PlacesOf(n) == [f \in Folder |-> {p \in n.up : Place[p] = f}]

First(n)  == ByName(ComposeName, n, <<>>)
Second(n) == ByName(UnraidName, n, First(n))

NothingYet == <<>>

LEMMA Unmatched ==
    /\ NothingYet \in Matching /\ DOMAIN NothingYet = {}
    /\ \A n : Fits(n, NothingYet)
<1>1. NothingYet \in [{} -> Project] /\ DOMAIN NothingYet = {}
  BY DEF NothingYet
<1>2. NothingYet \in Matching
  BY <1>1 DEF Matching
<1>3. QED
  BY <1>1, <1>2 DEF Fits, Injective

LEMMA NamesTyped ==
    /\ ComposeName \in [Folder -> Project] /\ UnraidName \in [Folder -> Project]
    /\ None \notin Folder /\ None \notin Project
  BY IdentityAssumption

\* What each of the three rules does.
LEMMA Rules ==
    ASSUME NEW n, Readable(n)
    PROVE  /\ Ruled(n, NamesOf(ComposeName, n), NothingYet, First(n))
           /\ Ruled(n, NamesOf(UnraidName, n), First(n), Second(n))
           /\ Ruled(n, PlacesOf(n), Second(n), MatchProjects(n))
<1>1. \A derive : NamesOf(derive, n) \in [Folder -> SUBSET n.up]
  BY DEF NamesOf
<1>2. PlacesOf(n) \in [Folder -> SUBSET n.up]
  BY DEF PlacesOf
<1>3. First(n) = Resolve(n, NamesOf(ComposeName, n), NothingYet)
  BY DEF First, ByName, NamesOf, NothingYet
<1>4. Second(n) = Resolve(n, NamesOf(UnraidName, n), First(n))
  BY DEF Second, ByName, NamesOf
<1>5. MatchProjects(n) = Resolve(n, PlacesOf(n), Second(n))
  BY DEF MatchProjects, First, Second, ByPath, PlacesOf
<1>6. Ruled(n, NamesOf(ComposeName, n), NothingYet, First(n))
  BY <1>1, <1>3, Unmatched, Resolved
<1>7. Ruled(n, NamesOf(UnraidName, n), First(n), Second(n))
  <2>1. Fits(n, First(n))
    BY <1>6 DEF Ruled
  <2>2. QED
    BY <1>1, <1>4, <2>1, Resolved
<1>8. Ruled(n, PlacesOf(n), Second(n), MatchProjects(n))
  <2>1. Fits(n, Second(n))
    BY <1>7 DEF Ruled
  <2>2. QED
    BY <1>2, <1>5, <2>1, Resolved
<1>9. QED
  BY <1>6, <1>7, <1>8

\* The folders that a project is named after.
Composes(n, p) == {f \in n.dirs : ComposeName[f] = p}
Unraids(n, p) ==
    {f \in n.dirs : /\ UnraidName[f] = p
                    /\ f \in DOMAIN MatchProjects(n) => MatchProjects(n)[f] # ComposeName[f]}
Heirs(n, p) == IF Composes(n, p) # {} THEN Composes(n, p) ELSE Unraids(n, p)

\* A folder has one project, a project one folder, and names come before places.
LEMMA Matched ==
    ASSUME NEW n, Readable(n)
    PROVE  /\ Fits(n, MatchProjects(n))
           /\ \A p \in n.up : Heirs(n, p) # {} =>
                 \E f \in Heirs(n, p) \cap DOMAIN MatchProjects(n) : MatchProjects(n)[f] = p
<1> DEFINE a == First(n)
           b == Second(n)
           m == MatchProjects(n)
<1>1. /\ Ruled(n, NamesOf(ComposeName, n), NothingYet, a) /\ Ruled(n, NamesOf(UnraidName, n), a, b)
      /\ Ruled(n, PlacesOf(n), b, m)
  BY Rules
<1> HIDE DEF a, b, m
<1>2. /\ \A f \in Folder : NamesOf(ComposeName, n)[f] = {ComposeName[f]} \cap n.up
      /\ \A f \in Folder : NamesOf(UnraidName, n)[f] = {UnraidName[f]} \cap n.up
  BY DEF NamesOf
<1>3. n.dirs \subseteq Folder /\ DOMAIN a \subseteq n.dirs /\ DOMAIN b \subseteq n.dirs
  BY <1>1 DEF Readable, Ruled, Fits
<1>4. \A f \in DOMAIN a : a[f] = ComposeName[f]
  BY <1>1, <1>2, <1>3, Unmatched DEF Ruled
<1>5. \A f \in n.dirs \ DOMAIN a : {ComposeName[f]} \cap n.up \subseteq Range(a)
  BY <1>1, <1>2, <1>3 DEF Ruled
<1>6. \A f \in DOMAIN b \ DOMAIN a : b[f] = UnraidName[f]
  BY <1>1, <1>2, <1>3 DEF Ruled
<1>7. \A f \in n.dirs \ DOMAIN b : {UnraidName[f]} \cap n.up \subseteq Range(b)
  BY <1>1, <1>2, <1>3 DEF Ruled
<1>8. /\ DOMAIN a \subseteq DOMAIN b /\ \A f \in DOMAIN a : b[f] = a[f]
      /\ DOMAIN b \subseteq DOMAIN m /\ \A f \in DOMAIN b : m[f] = b[f]
  BY <1>1 DEF Ruled
<1>9. ASSUME NEW p \in n.up, NEW f \in Composes(n, p)
      PROVE  \E g \in Composes(n, p) \cap DOMAIN m : m[g] = p
  <2>1. f \in n.dirs /\ ComposeName[f] = p
    BY <1>9 DEF Composes
  <2>2. p \in Range(a)
    BY <1>4, <1>5, <2>1 DEF Range
  <2>3. PICK g \in DOMAIN a : a[g] = p
    BY <2>2 DEF Range
  <2>4. QED
    BY <1>3, <1>4, <1>8, <2>3 DEF Composes
<1>10. ASSUME NEW p \in n.up, Composes(n, p) = {}, NEW f \in Unraids(n, p)
       PROVE  \E g \in Unraids(n, p) \cap DOMAIN m : m[g] = p
  <2>1. f \in n.dirs /\ UnraidName[f] = p /\ (f \in DOMAIN m => m[f] # ComposeName[f])
    BY <1>10 DEF Unraids, m
  <2>2. f \notin DOMAIN a
    BY <1>4, <1>8, <2>1
  <2>3. p \in Range(b)
    BY <1>6, <1>7, <2>1, <2>2 DEF Range
  <2>4. PICK g \in DOMAIN b : b[g] = p
    BY <2>3 DEF Range
  <2>5. g \in n.dirs /\ ComposeName[g] # p
    BY <1>3, <1>10, <2>4 DEF Composes
  <2>6. g \notin DOMAIN a /\ UnraidName[g] = p
    BY <1>4, <1>6, <1>8, <2>4, <2>5
  <2>7. g \in DOMAIN m /\ m[g] = p
    BY <1>8, <2>4
  <2>8. g \in Unraids(n, p)
    BY <2>5, <2>6, <2>7 DEF Unraids, m
  <2>9. QED
    BY <2>7, <2>8
<1>11. Fits(n, m)
  BY <1>1 DEF Ruled
<1>12. QED
  BY <1>9, <1>10, <1>11 DEF m, Heirs

-----------------------------------------------------------------------------
(* The stacks of a snapshot                                                *)

\* What the sections of a poll hold.
Labels(n) == DOMAIN n.labels \in SUBSET Container /\ \A c \in DOMAIN n.labels : n.labels[c] \in Label

StackOf(n, f) == OfFolder(n, MatchProjects(n), f)

NamesOfFolders(n) == {StackOf(n, f).name : f \in n.dirs}

ProjectsAlone(n) ==
    (n.up \cup ({n.labels[c].project : c \in DOMAIN n.labels} \ {None})) \ NamesOfFolders(n)

LEMMA LabelFits ==
    ASSUME NEW l \in Label
    PROVE  l.project \in Project \cup {None} /\ l.service \in Service \cup {None} /\ (l.project = None => l.service = None)
<1>1. l \in AnyLabel
  BY KeyAssumption
<1>2. None \notin Project
  BY IdentityAssumption
<1>3. QED
  BY <1>1, <1>2 DEF AnyLabel

LEMMA StacksListed ==
    ASSUME NEW n
    PROVE  MergeStacks(n) = {StackOf(n, f) : f \in n.dirs} \cup {Named(n, p) : p \in ProjectsAlone(n)}
  BY Zenon DEF MergeStacks, StackOf, ProjectsAlone, NamesOfFolders

LEMMA StackFields ==
    /\ \A n, f : StackOf(n, f).folder = f
    /\ \A n, f : StackOf(n, f).name = IF f \in DOMAIN MatchProjects(n) THEN MatchProjects(n)[f] ELSE ComposeName[f]
    /\ \A n, p : Named(n, p).folder = None
    /\ \A n, p : Named(n, p).name = p
  BY DEF StackOf, OfFolder, Named

LEMMA StackPresent ==
    /\ \A n, f : StackOf(n, f).present = (f \in DOMAIN MatchProjects(n))
    /\ \A n, p : Named(n, p).present = (p \in n.up)
<1>1. \A n, f : StackOf(n, f).present = (f \in DOMAIN MatchProjects(n))
  BY Zenon DEF StackOf, OfFolder
<1>2. \A n, p : Named(n, p).present = (p \in n.up)
  BY Zenon DEF Named
<1>3. QED
  BY <1>1, <1>2

OneOf(n, s) == (\E f \in n.dirs : s = StackOf(n, f)) \/ (\E p \in ProjectsAlone(n) : s = Named(n, p))

LEMMA StackKinds ==
    ASSUME NEW n
    PROVE  \A s : s \in MergeStacks(n) <=> OneOf(n, s)
  BY StacksListed DEF OneOf

\* Two stacks share a name or a key only in these ways.
NamedAlike(s, t) == {s.folder, t.folder} \subseteq Folder /\ ComposeName[s.folder] = ComposeName[t.folder]

\* Every project that runs or that a container is labelled with has a stack.
LEMMA StacksDiffer ==
    ASSUME NEW n, Readable(n), Labels(n)
    PROVE  /\ \A s \in MergeStacks(n) : s.name \in Project /\ s.folder \in n.dirs \cup {None} /\ StackKey(s) \in Folder \cup Project
           /\ \A s, t \in MergeStacks(n) : s # t /\ s.name = t.name => NamedAlike(s, t)
           /\ \A s, t \in MergeStacks(n) : s # t /\ StackKey(s) = StackKey(t) => Clash(s, t)
           /\ \A p \in n.up : \E s \in MergeStacks(n) : s.name = p
           /\ \A c \in DOMAIN n.labels : n.labels[c].project # None =>
                 \E s \in MergeStacks(n) : s.name = n.labels[c].project
<1> DEFINE m == MatchProjects(n)
<1>1. /\ Injective(m) /\ DOMAIN m \subseteq n.dirs /\ \A f \in DOMAIN m : m[f] \in n.up
      /\ \A p \in n.up : Heirs(n, p) # {} => \E f \in Heirs(n, p) \cap DOMAIN m : m[f] = p
  BY Matched DEF Fits
<1> HIDE DEF m
<1>2. \A f \in n.dirs : /\ StackOf(n, f).folder = f
                        /\ StackOf(n, f).name = IF f \in DOMAIN m THEN m[f] ELSE ComposeName[f]
  BY StackFields DEF m
<1>3. \A f \in n.dirs : StackOf(n, f).name \in Project /\ f \in Folder /\ StackKey(StackOf(n, f)) = f
  BY <1>1, <1>2, NamesTyped DEF Readable, StackKey
<1>4. ASSUME NEW f \in n.dirs, NEW g \in n.dirs, f # g, StackOf(n, f).name = StackOf(n, g).name
      PROVE  ComposeName[f] = ComposeName[g]
  <2>1. ASSUME NEW x \in n.dirs, NEW y \in n.dirs, x \in DOMAIN m, y \notin DOMAIN m, m[x] = ComposeName[y]
        PROVE  ComposeName[x] = ComposeName[y]
    <3>1. m[x] \in n.up /\ y \in Composes(n, m[x])
      BY <1>1, <2>1 DEF Composes
    <3>2. PICK h \in Composes(n, m[x]) \cap DOMAIN m : m[h] = m[x]
      BY <1>1, <3>1 DEF Heirs
    <3>3. h = x
      BY <1>1, <2>1, <3>2 DEF Injective
    <3>4. QED
      BY <2>1, <3>2, <3>3 DEF Composes
  <2>2. ~(f \in DOMAIN m /\ g \in DOMAIN m)
    BY <1>1, <1>2, <1>4 DEF Injective
  <2>3. CASE f \in DOMAIN m /\ g \notin DOMAIN m
    <3>1. m[f] = ComposeName[g]
      BY <1>2, <1>4, <2>3
    <3>2. QED
      BY <2>1, <2>3, <3>1
  <2>4. CASE g \in DOMAIN m /\ f \notin DOMAIN m
    <3>1. m[g] = ComposeName[f]
      BY <1>2, <1>4, <2>4
    <3>2. QED
      BY <2>1, <2>4, <3>1
  <2>5. CASE f \notin DOMAIN m /\ g \notin DOMAIN m
    BY <1>2, <1>4, <2>5
  <2>6. QED
    BY <2>2, <2>3, <2>4, <2>5
<1>5. ProjectsAlone(n) \subseteq Project /\ \A p \in ProjectsAlone(n) : p \notin NamesOfFolders(n)
  BY LabelFits DEF ProjectsAlone, Readable, Labels
<1>6. \A p : Named(n, p).name = p /\ Named(n, p).folder = None /\ StackKey(Named(n, p)) = p
  BY DEF Named, StackKey
<1>7. None \notin Folder
  BY NamesTyped
<1>8. \A s \in MergeStacks(n) : (\E f \in n.dirs : s = StackOf(n, f)) \/ (\E p \in ProjectsAlone(n) : s = Named(n, p))
  BY StackKinds DEF OneOf
<1>9. \A s \in MergeStacks(n) : s.name \in Project /\ s.folder \in n.dirs \cup {None} /\ StackKey(s) \in Folder \cup Project
  BY <1>2, <1>3, <1>5, <1>6, <1>8 DEF Readable
<1>10. ASSUME NEW s \in MergeStacks(n), NEW t \in MergeStacks(n), s # t, s.name = t.name PROVE NamedAlike(s, t)
  <2>1. CASE \E f, g \in n.dirs : s = StackOf(n, f) /\ t = StackOf(n, g)
    <3>1. PICK f \in n.dirs, g \in n.dirs : s = StackOf(n, f) /\ t = StackOf(n, g)
      BY <2>1
    <3>2. ComposeName[f] = ComposeName[g] /\ s.folder = f /\ t.folder = g /\ f \in Folder /\ g \in Folder
      BY <1>2, <1>3, <1>4, <1>10, <3>1
    <3>3. QED
      BY <3>2 DEF NamedAlike
  <2>2. CASE \E p, q \in ProjectsAlone(n) : s = Named(n, p) /\ t = Named(n, q)
    BY <1>6, <1>10, <2>2
  <2>3. ASSUME NEW f \in n.dirs, NEW p \in ProjectsAlone(n) PROVE StackOf(n, f).name # p
    BY <1>5 DEF NamesOfFolders
  <2>4. QED
    BY <1>6, <1>8, <1>10, <2>1, <2>2, <2>3
<1>11. ASSUME NEW s \in MergeStacks(n), NEW t \in MergeStacks(n), s # t, StackKey(s) = StackKey(t) PROVE Clash(s, t)
  <2>1. CASE \E f, g \in n.dirs : s = StackOf(n, f) /\ t = StackOf(n, g)
    BY <1>3, <1>11, <2>1
  <2>2. CASE \E p, q \in ProjectsAlone(n) : s = Named(n, p) /\ t = Named(n, q)
    BY <1>6, <1>11, <2>2
  <2>3. ASSUME NEW f \in n.dirs, NEW p \in ProjectsAlone(n), NEW x \in {s, t}, NEW y \in {s, t},
               x = StackOf(n, f), y = Named(n, p)
        PROVE  Clash(s, t)
    <3>1. StackKey(x) = f /\ StackKey(y) = p /\ f = p
      BY <1>3, <1>6, <1>11, <2>3
    <3>2. x.folder = f /\ x.folder # None /\ y.folder = None /\ y.name = x.folder
      BY <1>2, <1>3, <1>6, <1>7, <2>3, <3>1
    <3>3. QED
      BY <3>2 DEF Clash
  <2>4. QED
    BY <1>8, <1>11, <2>1, <2>2, <2>3
<1>12. ASSUME NEW p, p \in n.up \/ (\E c \in DOMAIN n.labels : n.labels[c].project = p /\ p # None)
       PROVE  \E s \in MergeStacks(n) : s.name = p
  <2>1. p \in ProjectsAlone(n) \/ p \in NamesOfFolders(n)
    BY <1>12 DEF ProjectsAlone
  <2>2. QED
    BY <1>6, <2>1, StacksListed DEF NamesOfFolders
<1>13. QED
  BY <1>9, <1>10, <1>11, <1>12

-----------------------------------------------------------------------------
(* The identity of a container                                             *)

\* The snapshot n is what was read as r.
ReadAs(n, r) ==
    /\ Readable(r) /\ Labels(r)
    /\ n.labels = r.labels /\ n.stacks = MergeStacks(r)

LEMMA SnapshotRead ==
    ASSUME TypeOK, NEW failed
    PROVE  ReadAs(Snapshot(failed), Read(failed)) /\ Snapshot(failed).failed = failed
<1>1. Readable(Read(failed)) /\ Labels(Read(failed))
  BY DEF TypeOK, Read, Readable, Labels
<1> HIDE DEF Read
<1>2. QED
  BY <1>1 DEF Snapshot, Built, ReadAs

\* Of the stacks with a name there is a first one.
LEMMA FirstStack ==
    ASSUME NEW n, NEW p, \E s \in n.stacks : s.name = p
    PROVE  FindStack(n, p) \in n.stacks /\ FindStack(n, p).name = p
<1> DEFINE same == {s \in n.stacks : s.name = p}
           turn(s) == {i \in DOMAIN Folders : Folders[i] = s.folder}
           T == {i \in DOMAIN Folders : \E s \in same : Folders[i] = s.folder}
           Leads(s) == \A t \in same \ {s} : \A j \in turn(t) : \E i \in turn(s) : i <= j
<1>1. \E s \in same : Leads(s)
  <2>1. CASE T = {}
    BY <2>1
  <2>2. CASE T # {}
    <3>1. T \in SUBSET Nat
      BY FoldersType
    <3>2. PICK i \in T : \A j \in T : i <= j
      <4> HIDE DEF T
      <4>1. QED
        BY <2>2, <3>1, LeastElement
    <3>3. PICK s \in same : Folders[i] = s.folder
      BY <3>2
    <3>4. Leads(s)
      BY <3>2, <3>3
    <3>5. QED
      BY <3>4
  <2>3. QED
    BY <2>1, <2>2
<1>2. FindStack(n, p) = CHOOSE s \in same : Leads(s)
  BY Zenon DEF FindStack
<1>3. FindStack(n, p) \in same
  <2> HIDE DEF Leads, same
  <2>1. QED
    BY <1>1, <1>2
<1>4. QED
  BY <1>3

\* The stack of a labelled container.
LEMMA FoundStack ==
    ASSUME NEW n, NEW r, ReadAs(n, r), NEW c \in DOMAIN n.labels, n.labels[c].project # None
    PROVE  /\ FindStack(n, n.labels[c].project) \in n.stacks
           /\ FindStack(n, n.labels[c].project).name = n.labels[c].project
<1>1. \E s \in n.stacks : s.name = n.labels[c].project
  BY StacksDiffer DEF ReadAs
<1>2. QED
  BY <1>1, FirstStack

\* A canonical container goes by a stack and a service, any other by its name.
LEMMA KeyFits ==
    ASSUME NEW n, NEW r, ReadAs(n, r), NEW c \in DOMAIN n.labels
    PROVE  /\ c \in Container
           /\ Canonical(n, c) => KeyOf(n, c) \in Composed /\ n.failed = {} /\ Alike(n, c) = {}
           /\ ~Canonical(n, c) => KeyOf(n, c) = c
<1>1. c \in Container /\ n.labels[c] \in Label
  BY DEF ReadAs, Labels
<1>2. CASE ~Canonical(n, c)
  BY <1>1, <1>2 DEF KeyOf
<1>3. CASE Canonical(n, c)
  <2> DEFINE l == n.labels[c]
             s == FindStack(n, l.project)
  <2>1. l.project # None /\ l.service # None /\ n.failed = {} /\ Alike(n, c) = {}
    BY <1>3 DEF Canonical, Status
  <2>2. s \in n.stacks
    BY <2>1, FoundStack
  <2>3. l.service \in Service
    BY <1>1, <2>1, LabelFits
  <2> HIDE DEF l, s
  <2>4. StackKey(s) \in Folder \cup Project
    BY <2>2, StacksDiffer DEF ReadAs
  <2>5. KeyOf(n, c) = [stack |-> StackKey(s), service |-> l.service]
    BY <1>3 DEF KeyOf, l, s
  <2>6. QED
    BY <1>1, <1>3, <2>1, <2>3, <2>4, <2>5 DEF Composed
<1>4. QED
  BY <1>2, <1>3

\* Two containers go by the same only if their stacks share a key.
LEMMA KeysDiffer ==
    ASSUME NEW n, NEW r, ReadAs(n, r), NEW c \in DOMAIN n.labels, NEW d \in DOMAIN n.labels,
           c # d, KeyOf(n, c) = KeyOf(n, d)
    PROVE  Clash(FindStack(n, n.labels[c].project), FindStack(n, n.labels[d].project))
<1>1. CASE ~Canonical(n, c) \/ ~Canonical(n, d)
  BY <1>1, KeyFits, KeyAssumption
<1>2. CASE Canonical(n, c) /\ Canonical(n, d)
  <2> DEFINE l(e) == n.labels[e]
             s(e) == FindStack(n, l(e).project)
  <2>1. \A e \in {c, d} : KeyOf(n, e) = [stack |-> StackKey(s(e)), service |-> l(e).service]
    BY <1>2 DEF KeyOf
  <2>2. StackKey(s(c)) = StackKey(s(d)) /\ l(c).service = l(d).service
    BY <2>1
  <2>3. \A e \in {c, d} : l(e).project # None /\ l(e) \in Label /\ Alike(n, e) = {}
    BY <1>2, KeyFits DEF Canonical, ReadAs, Labels
  <2>4. \A e \in {c, d} : s(e) \in n.stacks /\ s(e).name = l(e).project
    BY <2>3, FoundStack
  <2>5. s(c) # s(d)
    <3>1. SUFFICES ASSUME s(c) = s(d) PROVE FALSE
      OBVIOUS
    <3>2. l(c).project = l(d).project
      <4> HIDE DEF s
      <4>1. QED
        BY <2>4, <3>1
    <3>3. l(c) \in AnyLabel /\ l(d) \in AnyLabel
      BY <2>3, KeyAssumption
    <3>4. l(c) = l(d)
      <4>1. \A x, y \in AnyLabel : x.project = y.project /\ x.service = y.service => x = y
        BY DEF AnyLabel
      <4> HIDE DEF l
      <4>2. QED
        BY <2>2, <3>2, <3>3, <4>1
    <3>5. QED
      BY <1>2, <2>3, <3>4 DEF Alike
  <2>6. Clash(s(c), s(d))
    <3> HIDE DEF s, l
    <3>1. QED
      BY <2>2, <2>4, <2>5, StacksDiffer DEF ReadAs
  <2>7. QED
    BY <2>6
<1>3. QED
  BY <1>1, <1>2

-----------------------------------------------------------------------------
(* Polls and the registry                                                  *)

\* A registry holds no record for what is named after a container.
RegistryOK(options) ==
    /\ DOMAIN options \subseteq Key
    /\ \A k \in DOMAIN options : options[k] \in Container \cup {None}
    /\ \A k \in DOMAIN options : k \in Container => options[k] = None

LEMMA Reconciling ==
    ASSUME NEW n, NEW r, ReadAs(n, r), RegistryOK(record)
    PROVE  /\ RegistryOK(Reconciled(n))
           /\ DOMAIN record \cap Composed \subseteq DOMAIN Reconciled(n)
           /\ DOMAIN Reconciled(n) \cap Container \subseteq DOMAIN record
<1> DEFINE moved == [c \in Renamed(n) |-> KeyOf(n, c)]
           keys == (DOMAIN record \ Renamed(n)) \cup Range(moved)
           owner(k) == {c \in Represented(n, k) : Canonical(n, c)}
           options == Reconciled(n)
<1>1. \A c \in Renamed(n) : c \in Container /\ KeyOf(n, c) \in Composed
  BY KeyFits DEF Renamed
<1>2. Range(moved) \subseteq Composed /\ Renamed(n) \subseteq Container
  BY <1>1 DEF Range
<1> HIDE DEF moved
<1>3. /\ keys \subseteq Key
      /\ DOMAIN record \cap Composed \subseteq keys
      /\ keys \cap Container \subseteq DOMAIN record
  BY <1>2, KeyAssumption DEF RegistryOK, Key
<1>4. options = [k \in keys |-> IF owner(k) # {} THEN CHOOSE c \in owner(k) : TRUE ELSE record[k]]
  BY Zenon DEF Reconciled, moved
<1>5. ASSUME NEW k \in keys, owner(k) # {} PROVE options[k] \in Container /\ k \in Composed
  <2>1. options[k] \in owner(k)
    BY <1>4, <1>5
  <2>2. \A c \in owner(k) : c \in DOMAIN n.labels /\ KeyOf(n, c) = k /\ Canonical(n, c)
    BY DEF Represented
  <2> HIDE DEF owner
  <2>3. QED
    BY <2>1, <2>2, KeyFits
<1>6. ASSUME NEW k \in keys, owner(k) = {} PROVE options[k] = record[k] /\ k \in DOMAIN record
  <2>1. options[k] = record[k]
    BY <1>4, <1>6
  <2>2. ASSUME k \in Range(moved) PROVE FALSE
    <3>1. PICK c \in Renamed(n) : k = KeyOf(n, c)
      BY <2>2 DEF Range, moved
    <3>2. c \in owner(k)
      BY <3>1 DEF Represented, Renamed
    <3>3. QED
      BY <1>6, <3>2
  <2>3. QED
    BY <2>1, <2>2
<1>7. DOMAIN options = keys
  BY <1>4
<1> HIDE DEF options, keys, owner
<1>8. RegistryOK(options)
  <2>1. ASSUME NEW k \in DOMAIN options
        PROVE  options[k] \in Container \cup {None} /\ (k \in Container => options[k] = None)
    BY <1>5, <1>6, <1>7, KeyAssumption DEF RegistryOK
  <2>2. QED
    BY <1>3, <1>7, <2>1 DEF RegistryOK
<1>9. QED
  BY <1>3, <1>7, <1>8 DEF options

LEMMA Keeping ==
    ASSUME NEW n, NEW options, RegistryOK(options), NEW kept \in Kept(n, options)
    PROVE  /\ RegistryOK(kept) /\ DOMAIN kept \subseteq DOMAIN options
           /\ DOMAIN options \ DOMAIN kept \subseteq Stale(n, options)
<1>1. PICK gone \in SUBSET Stale(n, options) : kept = Restrict(options, DOMAIN options \ gone)
  BY DEF Kept
<1>2. DOMAIN kept = DOMAIN options \ gone /\ \A k \in DOMAIN kept : kept[k] = options[k]
  BY <1>1 DEF Restrict
<1>3. QED
  BY <1>2 DEF RegistryOK

\* What is new is a registrable container's; if it is named after it, the
\* container has no identity and is not on record.
LEMMA Adding ==
    ASSUME NEW n, NEW r, ReadAs(n, r), NEW kept, RegistryOK(kept)
    PROVE  /\ RegistryOK(Added(n, kept)) /\ DOMAIN kept \subseteq DOMAIN Added(n, kept)
           /\ \A c \in Container : c \in DOMAIN Added(n, kept) \ DOMAIN kept =>
                 \A k \in DOMAIN Added(n, kept) : Added(n, kept)[k] # c
<1> DEFINE new == {c \in Registrable(n, kept) : KeyOf(n, c) \notin DOMAIN kept}
           member(k) == CHOOSE c \in new : KeyOf(n, c) = k
           keys == DOMAIN kept \cup {KeyOf(n, c) : c \in new}
           added == Added(n, kept)
<1>1. added = [k \in keys |-> IF k \in DOMAIN kept THEN kept[k] ELSE Recorded(n, member(k))]
  BY Zenon DEF Added
<1>2. \A k \in keys \ DOMAIN kept : member(k) \in new /\ KeyOf(n, member(k)) = k
  BY DEF Added
<1>3. \A c \in new : c \in DOMAIN n.labels /\ c \in Container /\ ~Regressed(n, c, kept) /\ KeyOf(n, c) \in Key
  BY KeyFits DEF Registrable, Key
<1>4. DOMAIN added = keys /\ \A k \in DOMAIN kept : added[k] = kept[k]
  BY <1>1
<1>5. \A k \in keys \ DOMAIN kept : added[k] = Recorded(n, member(k))
  BY <1>1
<1>6. keys \subseteq Key
  <2> HIDE DEF new
  <2>1. QED
    BY <1>3 DEF RegistryOK
<1> HIDE DEF added, member, keys
<1>7. \A k \in keys \ DOMAIN kept :
         added[k] = IF Canonical(n, member(k)) THEN member(k) ELSE None
  BY <1>5 DEF Recorded
<1>8. RegistryOK(added)
  <2>1. ASSUME NEW k \in keys \ DOMAIN kept
        PROVE  added[k] \in Container \cup {None} /\ (k \in Container => added[k] = None)
    <3>1. member(k) \in DOMAIN n.labels /\ member(k) \in Container /\ KeyOf(n, member(k)) = k
      BY <1>2, <1>3
    <3>2. Canonical(n, member(k)) => k \in Composed
      BY <3>1, KeyFits
    <3>3. QED
      BY <1>7, <3>1, <3>2, KeyAssumption
  <2>2. QED
    BY <1>4, <1>6, <2>1 DEF RegistryOK
<1>9. ASSUME NEW c \in Container, c \in keys \ DOMAIN kept, NEW k \in keys, added[k] = c
      PROVE  FALSE
  <2>1. member(c) \in DOMAIN n.labels /\ KeyOf(n, member(c)) = c /\ ~Regressed(n, member(c), kept)
    BY <1>2, <1>3, <1>9
  <2>2. ~Canonical(n, c) /\ member(c) = c
    BY <2>1, KeyFits, KeyAssumption
  <2>3. \A h \in DOMAIN kept : kept[h] # c
    BY <2>1, <2>2 DEF Regressed
  <2>4. k \notin DOMAIN kept
    BY <1>4, <1>9, <2>3
  <2>5. Canonical(n, member(k)) /\ member(k) = c
    BY <1>7, <1>9, <2>4, IdentityAssumption
  <2>6. QED
    BY <2>2, <2>5
<1>10. DOMAIN kept \subseteq keys
  BY DEF keys
<1>11. QED
  BY <1>4, <1>8, <1>9, <1>10 DEF added

\* The sections of which one at least was missing when the entity that goes by
\* this stack was removed.
Shows(s) == IF s.folder # None THEN "stacks" ELSE "compose"

\* A stack that is there is in what a poll reads, if it reads what shows it.
LEMMA StackSeen ==
    ASSUME TypeOK, NEW failed, "docker" \notin failed, NEW s \in Snapshot({}).stacks, Shows(s) \notin failed
    PROVE  \E t \in Snapshot(failed).stacks : StackKey(t) = StackKey(s)
<1> DEFINE r == Read({})
           q == Read(failed)
<1>1. ReadAs(Snapshot({}), r) /\ ReadAs(Snapshot(failed), q)
  BY SnapshotRead
<1>2. /\ r.dirs = folders /\ r.up = projects /\ r.labels = labels /\ q.labels = labels
      /\ q.dirs = IF "stacks" \in failed THEN {} ELSE folders
      /\ q.up = IF "compose" \in failed THEN {} ELSE projects
  BY DEF Read
<1>3. "stacks" \notin failed /\ "compose" \notin failed => q = r
  BY DEF Read
<1> HIDE DEF r, q
<1>4. OneOf(r, s)
  BY <1>1, StackKinds DEF ReadAs
<1>5. \A t : OneOf(q, t) => t \in Snapshot(failed).stacks
  BY <1>1, StackKinds DEF ReadAs
<1>6. \A f \in r.dirs \cup q.dirs : StackOf(r, f).folder = f /\ StackKey(StackOf(r, f)) = f /\ StackKey(StackOf(q, f)) = f /\ f # None
  BY <1>1, StackFields, NamesTyped DEF ReadAs, Readable, StackKey
<1>7. \A p : Named(r, p).folder = None /\ StackKey(Named(r, p)) = p /\ StackKey(Named(q, p)) = p
  BY StackFields DEF StackKey
<1>8. ASSUME NEW f \in r.dirs, s = StackOf(r, f)
      PROVE  \E t \in Snapshot(failed).stacks : StackKey(t) = StackKey(s)
  <2>1. "stacks" \notin failed
    BY <1>6, <1>8 DEF Shows
  <2>2. OneOf(q, StackOf(q, f)) /\ f \in q.dirs
    BY <1>2, <1>8, <2>1 DEF OneOf
  <2>3. QED
    BY <1>5, <1>6, <1>8, <2>2
<1>9. ASSUME NEW p \in ProjectsAlone(r), s = Named(r, p)
      PROVE  \E t \in Snapshot(failed).stacks : StackKey(t) = StackKey(s)
  <2>1. "compose" \notin failed
    BY <1>7, <1>9 DEF Shows
  <2>2. CASE "stacks" \notin failed
    <3>1. OneOf(q, s)
      BY <1>3, <1>4, <2>1, <2>2
    <3>2. QED
      BY <1>5, <3>1
  <2>3. CASE "stacks" \in failed
    <3>1. q.dirs = {} /\ q.up = r.up /\ q.labels = r.labels
      BY <1>2, <2>1, <2>3
    <3>2. p \in ProjectsAlone(q)
      BY <1>9, <3>1 DEF ProjectsAlone, NamesOfFolders
    <3>3. OneOf(q, Named(q, p))
      BY <3>2 DEF OneOf
    <3>4. QED
      BY <1>5, <1>7, <1>9, <3>3
  <2>4. QED
    BY <2>2, <2>3
<1>10. QED
  BY <1>4, <1>8, <1>9 DEF OneOf

\* A poll keeps the registry's shape; what goes by a stack that is there is
\* removed only if the section that shows it could not be read, and no name of
\* a recorded container is new.
LEMMA Polling ==
    ASSUME TypeOK, NEW failed, Poll(failed)
    PROVE  /\ RegistryOK(record')
           /\ \A k \in (Composed \cap DOMAIN record) \ DOMAIN record' :
                 \A s \in Snapshot({}).stacks : StackKey(s) = k.stack => Shows(s) \in failed
           /\ \A c \in Container : c \in DOMAIN record' \ DOMAIN record =>
                 \A k \in DOMAIN record' : record'[k] # c
<1> DEFINE n == Snapshot(failed)
           r == Read(failed)
           options == Reconciled(n)
<1>1. ReadAs(n, r) /\ n.failed = failed
  BY SnapshotRead
<1>2. PICK kept \in Kept(n, options) : record' = Added(n, kept)
  BY DEF Poll
<1>3. RegistryOK(record)
  BY DEF TypeOK, RegistryOK
<1>4. ASSUME NEW s \in Snapshot({}).stacks, "docker" \notin failed, Shows(s) \notin failed
      PROVE  \E t \in n.stacks : StackKey(t) = StackKey(s)
  BY <1>4, StackSeen
<1> HIDE DEF n, r
<1>5. /\ RegistryOK(options) /\ DOMAIN record \cap Composed \subseteq DOMAIN options
      /\ DOMAIN options \cap Container \subseteq DOMAIN record
  BY <1>1, <1>3, Reconciling
<1> HIDE DEF options
<1>6. /\ RegistryOK(kept) /\ DOMAIN kept \subseteq DOMAIN options
      /\ DOMAIN options \ DOMAIN kept \subseteq Stale(n, options)
  BY <1>5, Keeping
<1>7. /\ RegistryOK(record') /\ DOMAIN kept \subseteq DOMAIN record'
      /\ \A c \in Container : c \in DOMAIN record' \ DOMAIN kept =>
            \A k \in DOMAIN record' : record'[k] # c
  BY <1>1, <1>2, <1>6, Adding
<1>8. ASSUME NEW k \in (Composed \cap DOMAIN record) \ DOMAIN record',
             NEW s \in Snapshot({}).stacks, StackKey(s) = k.stack
      PROVE  Shows(s) \in failed
  <2>1. k \in Stale(n, options)
    BY <1>5, <1>6, <1>7, <1>8
  <2>2. "docker" \notin failed /\ \A t \in n.stacks : StackKey(t) # k.stack
    BY <1>1, <1>8, <2>1 DEF Stale
  <2>3. QED
    BY <1>4, <1>8, <2>2
<1>9. ASSUME NEW c \in Container, c \in DOMAIN record' \ DOMAIN record, NEW k \in DOMAIN record'
      PROVE  record'[k] # c
  BY <1>5, <1>6, <1>7, <1>9
<1>10. QED
  BY <1>7, <1>8, <1>9

-----------------------------------------------------------------------------
(* Starting a stack                                                        *)

\* Among these folders no other has the name that Unraid starts this one under.
Alone(dirs, f) == \A g \in dirs \ {f} : UnraidName[f] \notin {ComposeName[g], UnraidName[g]}

\* A folder without a project gets the one that starts under its second name,
\* and the matching of the others is as before.
LEMMA MatchedAfterStart ==
    ASSUME NEW r, Readable(r), NEW f \in r.dirs, f \notin DOMAIN MatchProjects(r), Alone(r.dirs, f),
           NEW s, Readable(s), s.dirs = r.dirs, s.up = r.up \cup {UnraidName[f]}
    PROVE  UnraidName[f] \notin r.up /\ Agree(f, UnraidName[f], MatchProjects(r), MatchProjects(s))
<1> DEFINE p == UnraidName[f]
<1>1. f \in Folder /\ p \in Project /\ r.dirs \in SUBSET Folder
  BY NamesTyped DEF Readable
<1>2. p \notin r.up
  <2>1. SUFFICES ASSUME p \in r.up PROVE FALSE
    OBVIOUS
  <2>2. CASE Composes(r, p) # {}
    <3>1. Heirs(r, p) \subseteq {f} /\ Heirs(r, p) # {}
      BY <2>2 DEF Heirs, Composes, Alone
    <3>2. QED
      BY <2>1, <3>1, Matched
  <2>3. CASE Composes(r, p) = {}
    <3>1. Heirs(r, p) \subseteq {f} /\ f \in Heirs(r, p)
      BY <2>3 DEF Heirs, Unraids, Alone
    <3>2. QED
      BY <2>1, <3>1, Matched
  <2>4. QED
    BY <2>2, <2>3
<1>3. /\ Ruled(r, NamesOf(ComposeName, r), NothingYet, First(r))
      /\ Ruled(r, NamesOf(UnraidName, r), First(r), Second(r))
      /\ Ruled(r, PlacesOf(r), Second(r), MatchProjects(r))
      /\ First(s) \in Matching /\ Second(s) \in Matching
      /\ First(r) \in Matching /\ Second(r) \in Matching
  BY Rules DEF Ruled, Fits
<1>4. f \notin DOMAIN Second(r) /\ f \notin DOMAIN First(r)
  BY <1>3 DEF Ruled
<1>5. /\ \A derive : /\ NamesOf(derive, r) \in [Folder -> SUBSET Project]
                     /\ NamesOf(derive, s) \in [Folder -> SUBSET Project]
      /\ PlacesOf(r) \in [Folder -> SUBSET Project] /\ PlacesOf(s) \in [Folder -> SUBSET Project]
  BY DEF NamesOf, PlacesOf, Readable
<1>6. /\ \A derive : More(p, NamesOf(derive, r), NamesOf(derive, s))
      /\ More(p, PlacesOf(r), PlacesOf(s))
  BY <1>2 DEF More, NamesOf, PlacesOf
<1>7. ASSUME NEW derive, derive[f] = p, \A g \in r.dirs \ {f} : derive[g] # p
      PROVE  Reserved(r.dirs, f, p, NamesOf(derive, r), NamesOf(derive, s))
  <2>1. NamesOf(derive, s)[f] = {p}
    BY <1>1, <1>7 DEF NamesOf
  <2>2. \A g \in r.dirs \ {f} : NamesOf(derive, s)[g] = NamesOf(derive, r)[g]
    BY <1>1, <1>7 DEF NamesOf
  <2>3. QED
    BY <2>1, <2>2 DEF Reserved
<1>8. /\ \A n : First(n) = Resolve(n, NamesOf(ComposeName, n), NothingYet)
      /\ \A n : Second(n) = Resolve(n, NamesOf(UnraidName, n), First(n))
      /\ \A n : MatchProjects(n) = Resolve(n, PlacesOf(n), Second(n))
  BY DEF First, Second, MatchProjects, ByName, ByPath, NamesOf, PlacesOf, NothingYet
<1>9. p \notin Range(NothingYet) /\ p \notin Range(First(r))
  <2>1. \A g \in DOMAIN First(r) : First(r)[g] \in r.up
    BY <1>3 DEF Ruled, Fits
  <2>2. QED
    BY <1>2, <2>1, Unmatched DEF Range
<1>10. Agree(f, p, First(r), First(s)) \/ First(s) = First(r)
  <2>1. CASE ComposeName[f] = p
    <3>1. Reserved(r.dirs, f, p, NamesOf(ComposeName, r), NamesOf(ComposeName, s))
      BY <1>7, <2>1 DEF Alone
    <3> DEFINE c == NamesOf(ComposeName, r)
               d == NamesOf(ComposeName, s)
    <3>2. /\ c \in [Folder -> SUBSET Project] /\ d \in [Folder -> SUBSET Project] /\ More(p, c, d)
          /\ Reserved(r.dirs, f, p, c, d) /\ NothingYet \in Matching
          /\ f \notin DOMAIN Resolve(r, c, NothingYet)
      BY <1>4, <1>5, <1>6, <1>8, <3>1, Unmatched
    <3> HIDE DEF c, d, p
    <3>3. Agree(f, p, Resolve(r, c, NothingYet), Resolve(s, d, NothingYet))
      BY <1>1, <1>9, <3>2, ResolvingMore
    <3>4. QED
      BY <1>8, <3>3 DEF c, d
  <2>2. CASE ComposeName[f] # p
    <3>1. \A g \in r.dirs : NamesOf(ComposeName, s)[g] = NamesOf(ComposeName, r)[g]
      BY <1>1, <2>2 DEF NamesOf, Alone
    <3> DEFINE c == NamesOf(ComposeName, r)
               d == NamesOf(ComposeName, s)
    <3>2. \A g \in r.dirs : d[g] = c[g]
      BY <3>1
    <3> HIDE DEF c, d
    <3>3. Resolve(r, c, NothingYet) = Resolve(s, d, NothingYet)
      BY <1>1, <1>5, <3>2, Unmatched, ResolvingSame DEF c, d
    <3>4. QED
      BY <1>8, <3>3 DEF c, d
  <2>3. QED
    BY <2>1, <2>2
<1>11. Agree(f, p, Second(r), Second(s))
  <2> DEFINE c == NamesOf(UnraidName, r)
             d == NamesOf(UnraidName, s)
  <2>1. Reserved(r.dirs, f, p, c, d)
    BY <1>7 DEF Alone
  <2>2. /\ c \in [Folder -> SUBSET Project] /\ d \in [Folder -> SUBSET Project] /\ More(p, c, d)
        /\ f \notin DOMAIN Resolve(r, c, First(r))
    BY <1>4, <1>5, <1>6, <1>8
  <2> HIDE DEF c, d, p
  <2>3. Agree(f, p, Resolve(r, c, First(r)), Resolve(s, d, First(s)))
    BY <1>1, <1>3, <1>9, <1>10, <2>1, <2>2, ResolvingMore
  <2>4. QED
    BY <1>8, <2>3 DEF c, d
<1>12. Agree(f, p, MatchProjects(r), MatchProjects(s))
  <2> DEFINE c == PlacesOf(r)
             d == PlacesOf(s)
  <2>1. /\ c \in [Folder -> SUBSET Project] /\ d \in [Folder -> SUBSET Project] /\ More(p, c, d)
        /\ f \notin DOMAIN Resolve(r, c, Second(r))
    BY <1>5, <1>6, <1>8
  <2> HIDE DEF c, d, p
  <2>2. Agree(f, p, Resolve(r, c, Second(r)), Resolve(s, d, Second(s)))
    BY <1>1, <1>3, <1>11, <2>1, ResolvingMore
  <2>3. QED
    BY <1>8, <2>2 DEF c, d
<1>13. QED
  BY <1>2, <1>12

\* What StartsOnce says of one stack.
StartedOnce(n, s, after) ==
    /\ [name |-> UnraidName[s.folder], folder |-> s.folder, present |-> TRUE] \in after.stacks
    /\ \A t \in n.stacks \ {s} : HasFiles(t) => t \in after.stacks
    /\ \A c \in DOMAIN n.labels : n.labels[c].project = UnraidName[s.folder] => Installable(after, c)

LEMMA Starting ==
    ASSUME TypeOK, NEW failed, "compose" \notin failed,
           NEW s \in Snapshot(failed).stacks, Switchable(s), ~HasFiles(s), NamedAlone(s.folder)
    PROVE  StartedOnce(Snapshot(failed), s, AfterStart(failed, s))
<1> DEFINE n == Snapshot(failed)
           r == Read(failed)
           up == r.up \cup {StartedAs(s)}
           q == [Read(failed) EXCEPT !.up = @ \cup {StartedAs(s)}]
           after == AfterStart(failed, s)
<1>1. ReadAs(n, r)
  BY SnapshotRead
<1>2. q.dirs = r.dirs /\ q.up = up /\ q.labels = r.labels /\ r.dirs \subseteq folders
  BY DEF Read
<1>3. after.stacks = MergeStacks(q) /\ after.labels = r.labels
  <2>1. after = Built(q, failed)
    BY DEF AfterStart
  <2> HIDE DEF q, after, up, r
  <2>2. QED
    BY <1>2, <2>1 DEF Built
<1>4. n.stacks = MergeStacks(r) /\ n.labels = r.labels /\ Readable(r) /\ Labels(r)
  BY <1>1 DEF ReadAs
<1>5. s \in n.stacks /\ s.folder # None /\ ~s.present
  BY DEF Switchable, HasFiles
<1> HIDE DEF n, r, q, after
<1>6. /\ \A t : t \in n.stacks <=> OneOf(r, t)
      /\ \A t : t \in after.stacks <=> OneOf(q, t)
  BY <1>3, <1>4, StackKinds
<1>7. PICK f \in r.dirs : s = StackOf(r, f)
  BY <1>5, <1>6, StackFields DEF OneOf
<1>8. s.folder = f /\ f \in Folder /\ StartedAs(s) = UnraidName[f] /\ UnraidName[f] \in Project
  BY <1>4, <1>5, <1>7, NamesTyped, StackFields DEF StartedAs, Readable
<1>9. f \notin DOMAIN MatchProjects(r) /\ Alone(r.dirs, f)
  <2>1. f \notin DOMAIN MatchProjects(r)
    BY <1>5, <1>7, StackPresent, Zenon
  <2>2. NamedAlone(f)
    BY <1>8
  <2>3. QED
    BY <1>2, <2>1, <2>2 DEF NamedAlone, Alone
<1>10. Readable(q) /\ Labels(q) /\ q.up = r.up \cup {UnraidName[f]}
  BY <1>2, <1>4, <1>8 DEF Readable, Labels
<1> HIDE DEF up
<1>11. /\ UnraidName[f] \notin r.up
       /\ DOMAIN MatchProjects(q) = DOMAIN MatchProjects(r) \cup {f}
       /\ MatchProjects(q)[f] = UnraidName[f]
       /\ \A g \in DOMAIN MatchProjects(r) : MatchProjects(q)[g] = MatchProjects(r)[g]
  BY <1>2, <1>4, <1>9, <1>10, MatchedAfterStart DEF Agree
<1>12. /\ StackOf(q, f) = [name |-> UnraidName[f], folder |-> f, present |-> TRUE]
       /\ StackOf(q, f) \in after.stacks
  BY <1>2, <1>6, <1>11 DEF StackOf, OfFolder, OneOf
<1>13. \A g \in r.dirs : g # f => StackOf(q, g) = StackOf(r, g)
  <2>1. \A g : g # f => (g \in DOMAIN MatchProjects(q) <=> g \in DOMAIN MatchProjects(r))
    BY <1>11
  <2>2. QED
    BY <1>11, <2>1 DEF StackOf, OfFolder
<1>14. \A g \in r.dirs : g # f => StackOf(r, g).name # UnraidName[f]
  <2>1. \A g \in DOMAIN MatchProjects(r) : MatchProjects(r)[g] \in r.up
    BY <1>4, Matched DEF Fits
  <2>2. QED
    BY <1>9, <1>11, <2>1, StackFields DEF Alone
<1>15. ASSUME NEW t \in n.stacks \ {s}, HasFiles(t) PROVE t \in after.stacks
  <2>1. ASSUME NEW g \in r.dirs, t = StackOf(r, g) PROVE t \in after.stacks
    <3>1. g # f
      BY <1>7, <1>15, <2>1
    <3>2. QED
      BY <1>2, <1>6, <1>13, <2>1, <3>1 DEF OneOf
  <2>2. ASSUME NEW p \in ProjectsAlone(r), t = Named(r, p) PROVE t \in after.stacks
    <3>1. p \in r.up /\ p # UnraidName[f]
      <4>1. p \in r.up
        BY <1>15, <2>2, StackPresent, Zenon DEF HasFiles
      <4>2. QED
        BY <1>11, <4>1
    <3>2. ASSUME NEW g \in r.dirs, StackOf(q, g).name = p PROVE FALSE
      <4>1. g # f
        BY <1>12, <3>1, <3>2
      <4>2. p \in NamesOfFolders(r)
        BY <1>13, <3>2, <4>1 DEF NamesOfFolders
      <4>3. QED
        BY <2>2, <4>2 DEF ProjectsAlone
    <3>3. p \in ProjectsAlone(q)
      BY <1>2, <1>10, <3>1, <3>2 DEF ProjectsAlone, NamesOfFolders
    <3>4. Named(q, p) = Named(r, p)
      BY <1>10, <3>1 DEF Named
    <3>5. QED
      BY <1>6, <2>2, <3>3, <3>4 DEF OneOf
  <2>3. QED
    BY <1>6, <1>15, <2>1, <2>2 DEF OneOf
<1>16. ASSUME NEW c \in DOMAIN n.labels, n.labels[c].project = UnraidName[f] PROVE Installable(after, c)
  <2> DEFINE t == FindStack(after, UnraidName[f])
  <2>1. t \in after.stacks /\ t.name = UnraidName[f]
    BY <1>12, FirstStack
  <2> HIDE DEF t
  <2>2. ASSUME NEW g \in r.dirs, t = StackOf(q, g) PROVE t.present
    <3>1. g = f
      BY <1>13, <1>14, <2>1, <2>2
    <3>2. QED
      BY <1>12, <2>2, <3>1
  <2>3. ASSUME NEW p \in ProjectsAlone(q), t = Named(q, p) PROVE FALSE
    <3>1. p = UnraidName[f]
      BY <2>1, <2>3, StackFields
    <3>2. p \in NamesOfFolders(q)
      BY <1>2, <1>12, <3>1 DEF NamesOfFolders
    <3>3. QED
      BY <2>3, <3>2 DEF ProjectsAlone
  <2>4. t.present
    BY <1>2, <1>6, <2>1, <2>2, <2>3 DEF OneOf
  <2>5. after.labels[c].project = UnraidName[f]
    BY <1>3, <1>4, <1>16
  <2>6. QED
    BY <2>4, <2>5 DEF Installable, HasFiles, t
<1>17. QED
  BY <1>8, <1>12, <1>15, <1>16 DEF StartedOnce, n, after

-----------------------------------------------------------------------------
(* Stacks and identities, along every behaviour                            *)

\* Whatever probes, rates and pictures do, the server and the registry are
\* only changed by the actions of Identity.
LEMMA IdentitySteps ==
    ASSUME [SnapshotNext]_<<vars, probing, metering, hanging>>
    PROVE  Next \/ UNCHANGED vars
  BY DEF SnapshotNext

LEMMA TypeStays ==
    ASSUME TypeOK, Next
    PROVE  TypeOK'
<1>1. CASE \E failed \in Failures : Poll(failed)
  <2>1. PICK failed \in Failures : Poll(failed)
    BY <1>1
  <2>2. RegistryOK(record')
    BY <2>1, Polling
  <2>3. UNCHANGED <<folders, projects, labels>>
    BY <2>1 DEF Poll
  <2>4. QED
    BY <2>2, <2>3 DEF TypeOK, RegistryOK
<1>2. CASE \E f \in Folder : FolderChanges(f)
  BY <1>2 DEF TypeOK, FolderChanges
<1>3. CASE \E p \in Project : ProjectChanges(p)
  BY <1>3 DEF TypeOK, ProjectChanges
<1>4. ASSUME NEW c \in Container, Labelled(c) PROVE TypeOK'
  <2>1. PICK l \in Label : labels' = [d \in DOMAIN labels \cup {c} |-> IF d = c THEN l ELSE labels[d]]
    BY <1>4 DEF Labelled
  <2>2. DOMAIN labels' \in SUBSET Container /\ \A d \in DOMAIN labels' : labels'[d] \in Label
    BY <2>1 DEF TypeOK
  <2>3. UNCHANGED <<folders, projects, record>>
    BY <1>4 DEF Labelled
  <2>4. QED
    BY <2>2, <2>3 DEF TypeOK
<1>5. ASSUME NEW c \in Container, Removed(c) PROVE TypeOK'
  BY <1>5 DEF TypeOK, Removed, Restrict
<1>6. QED
  BY <1>1, <1>2, <1>3, <1>4, <1>5 DEF Next

\* Every variable of the registry and the server keeps its type.
THEOREM SnapshotType == SnapshotSpec => []TypeOK
<1>1. SnapshotInit => TypeOK
  BY DEF SnapshotInit, Init, TypeOK, Key
<1>2. TypeOK /\ [SnapshotNext]_<<vars, probing, metering, hanging>> => TypeOK'
  <2>1. TypeOK /\ UNCHANGED vars => TypeOK'
    BY DEF vars, TypeOK
  <2>2. QED
    BY <2>1, IdentitySteps, TypeStays
<1>3. QED
  BY <1>1, <1>2, PTL DEF SnapshotSpec

\* A project is given to one folder at most, and to one named after it if there
\* is any (model.py:105).
THEOREM NamesComeFirst == SnapshotSpec => []NameBeforePath
<1>1. TypeOK => NameBeforePath
  <2>1. ASSUME TypeOK, NEW failed \in Failures, NEW n, n = Read(failed)
        PROVE  /\ \A f, g \in DOMAIN MatchProjects(n) : MatchProjects(n)[f] = MatchProjects(n)[g] => f = g
               /\ \A p \in n.up : Heirs(n, p) # {} =>
                     \E f \in Heirs(n, p) \cap DOMAIN MatchProjects(n) : MatchProjects(n)[f] = p
    <3>1. Readable(n)
      BY <2>1, SnapshotRead DEF ReadAs
    <3>2. QED
      BY <3>1, Matched DEF Fits, Injective
  <2>2. QED
    BY <2>1 DEF NameBeforePath, Heirs, Composes, Unraids
<1>2. QED
  BY <1>1, SnapshotType, PTL

\* Two stacks share a name only as folders that compose's rule names alike, and
\* stacks or containers a key only where a project without a folder is named
\* like another stack's folder, whatever a poll could read (model.py:536).
THEOREM NoTwoAlike == SnapshotSpec => []Distinct
<1>1. TypeOK => Distinct
  <2>1. ASSUME TypeOK, NEW failed \in Failures, NEW n, n = Snapshot(failed)
        PROVE  /\ \A s, t \in n.stacks : s # t /\ s.name = t.name => NamedAlike(s, t)
               /\ \A s, t \in n.stacks : s # t /\ StackKey(s) = StackKey(t) => Clash(s, t)
               /\ \A c \in DOMAIN n.labels : \A d \in Represented(n, KeyOf(n, c)) \ {c} :
                     Clash(FindStack(n, n.labels[c].project), FindStack(n, n.labels[d].project))
    <3>1. ReadAs(n, Read(failed))
      BY <2>1, SnapshotRead
    <3>2. \A c \in DOMAIN n.labels : \A d \in Represented(n, KeyOf(n, c)) \ {c} :
             Clash(FindStack(n, n.labels[c].project), FindStack(n, n.labels[d].project))
      BY <3>1, KeysDiffer DEF Represented
    <3>3. QED
      BY <3>1, <3>2, StacksDiffer DEF ReadAs
  <2>2. QED
    BY <2>1 DEF Distinct, NamedAlike
<1>2. QED
  BY <1>1, SnapshotType, PTL

\* A stack that compose does not list and that is switched on comes back under
\* its key, can be updated, and has no other stack's project, when it has a name
\* of its own and the projects could be read (actions.py:107).
THEOREM StackStartsOnce == SnapshotSpec => []StartsOnce
<1>1. TypeOK => StartsOnce
  <2>1. ASSUME TypeOK, NEW failed, "compose" \notin failed,
               NEW s \in Snapshot(failed).stacks, Switchable(s), ~HasFiles(s), NamedAlone(s.folder)
        PROVE  StartedOnce(Snapshot(failed), s, AfterStart(failed, s))
    BY <2>1, Starting
  <2>2. QED
    BY <2>1 DEF StartsOnce, StartedOnce
<1>2. QED
  BY <1>1, SnapshotType, PTL

\* A recorded container gets no entity named after it (entity.py:111).
THEOREM NoAliasEver == SnapshotSpec => NoAlias
<1> DEFINE NoNew == \A c \in Container :
              c \in DOMAIN record' \ DOMAIN record => \A k \in DOMAIN record' : record'[k] # c
<1>1. TypeOK /\ Next => NoNew \/ UNCHANGED vars
  <2>1. ASSUME TypeOK, NEW failed \in Failures, Poll(failed) PROVE NoNew
    BY <2>1, Polling
  <2>2. ASSUME Next, \A failed \in Failures : ~Poll(failed) PROVE NoNew
    BY <2>2 DEF Next, FolderChanges, ProjectChanges, Labelled, Removed
  <2>3. QED
    BY <2>1, <2>2
<1>2. TypeOK /\ [SnapshotNext]_<<vars, probing, metering, hanging>> => [NoNew]_vars
  BY <1>1, IdentitySteps
<1>3. QED
  BY <1>2, SnapshotType, PTL DEF SnapshotSpec, NoAlias

\* An entity that goes by a stack which is there is removed only by a poll that
\* could not read the section that shows the stack (prune.py:40, 82).
THEOREM PlaceKept == SnapshotSpec => KeepsItsPlace
<1> DEFINE Keep == \A k \in (Composed \cap DOMAIN record) \ DOMAIN record' :
              \A s \in {t \in Snapshot({}).stacks : StackKey(t) = k.stack}, failed \in Failures :
                  Poll(failed) => (IF s.folder # None THEN "stacks" ELSE "compose") \in failed
<1>1. TypeOK => Keep
  <2>1. ASSUME TypeOK, NEW failed \in Failures, Poll(failed),
               NEW k \in (Composed \cap DOMAIN record) \ DOMAIN record',
               NEW s \in Snapshot({}).stacks, StackKey(s) = k.stack
        PROVE  (IF s.folder # None THEN "stacks" ELSE "compose") \in failed
    <3>1. Shows(s) \in failed
      BY <2>1, Polling
    <3>2. QED
      BY <3>1 DEF Shows
  <2>2. QED
    BY <2>1
<1>2. TypeOK /\ [SnapshotNext]_<<vars, probing, metering, hanging>> => [Keep]_vars
  BY <1>1
<1>3. QED
  BY <1>2, SnapshotType, PTL DEF SnapshotSpec, KeepsItsPlace

-----------------------------------------------------------------------------
(* Rates                                                                   *)

LEMMA RatesConstants ==
    Bound \in Nat /\ Bound > 0 /\ Limit \in Nat /\ Limit > 0 /\ None \notin Int /\ None \notin Meter!Kind
  BY SnapshotAssumption DEF Meter!RatesAssumption

CounterType == [owner : Nat, used : Nat, idle : Nat]

MeterType ==
    /\ kind \in Meter!Kind \cup {None} /\ boot \in Nat /\ counter \in CounterType /\ passed \in Nat /\ spent \in Nat
    /\ prev \in [boot : Nat \cup {None}, counter : CounterType \cup {None}]
    /\ kind = None => prev = Meter!Unread /\ counter.used = 0

\* An energy counter that cannot have gone round has gone on or wrapped once.
Wrapped ==
    /\ counter.used < Limit /\ (prev.counter # None => prev.counter.used < Limit)
    /\ spent <= passed * Bound
    /\ prev.counter # None /\ prev.boot = boot /\ passed * Bound < Limit
       => counter.used \in {prev.counter.used + spent, prev.counter.used + spent - Limit}

\* Since the sample of this boot and owner the counter has counted what was used.
Followed ==
    prev.counter # None /\ prev.boot = boot =>
        /\ prev.counter.owner <= counter.owner
        /\ kind \in Meter!Named /\ prev.counter.owner = counter.owner
           => counter.used = prev.counter.used + spent
        /\ kind \in Meter!Cpu
           => /\ counter.used = prev.counter.used + spent
              /\ counter.idle + spent = prev.counter.idle + passed

\* Where nothing tells the boot it is always told.
MeterInv ==
    /\ MeterType
    /\ prev.boot # None => prev.boot <= boot
    /\ kind # None /\ kind \notin Meter!Booted /\ prev.counter # None => prev.boot # None
    /\ Followed
    /\ kind \in {None, "power"} => Wrapped

LEMMA WrapAround ==
    ASSUME NEW L \in Nat, L > 0, NEW x \in 0..(2 * L - 1)
    PROVE  x % L = IF x < L THEN x ELSE x - L
  OBVIOUS

LEMMA MeterTicks ==
    ASSUME MeterInv, NEW use \in Meter!Uses, Meter!Tick(use)
    PROVE  MeterInv'
<1> USE RatesConstants
<1>1. /\ kind # None /\ passed' = passed + 1 /\ spent' = spent + use /\ UNCHANGED <<kind, boot, prev>>
      /\ counter' = [counter EXCEPT !.used = IF kind = "power" THEN (@ + use) % Limit ELSE @ + use,
                                    !.idle = IF kind \in Meter!Cpu THEN @ + 1 - use ELSE @]
  BY DEF Meter!Tick
<1>2. use \in Nat /\ (kind = "power" => use <= Bound) /\ (kind # "power" => use \in 0..1)
  BY DEF Meter!Uses
<1>3. counter \in CounterType /\ counter'.owner = counter.owner
  BY <1>1 DEF MeterInv, MeterType, CounterType
<1>4. CASE kind = "power"
  <2>1. counter'.used = (counter.used + use) % Limit /\ counter'.idle = counter.idle /\ kind \notin Meter!Cpu \cup Meter!Named
    BY <1>1, <1>3, <1>4 DEF CounterType, Meter!Cpu, Meter!Named
  <2>2. counter.used \in Nat /\ counter.used < Limit
    BY <1>3, <1>4 DEF MeterInv, Wrapped, CounterType
  <2>3. counter'.used \in Nat /\ counter'.used < Limit
    BY <1>2, <2>1, <2>2
  <2> DEFINE most == passed * Bound
  <2>4. most \in Nat /\ passed' * Bound = most + Bound
    BY <1>1 DEF MeterInv, MeterType
  <2>5. spent \in Nat /\ spent <= most
    BY <1>4 DEF MeterInv, MeterType, Wrapped
  <2> HIDE DEF most
  <2>6. spent' <= passed' * Bound
    BY <1>1, <1>2, <1>4, <2>4, <2>5
  <2>7. ASSUME prev.counter # None, prev.boot = boot, passed' * Bound < Limit
        PROVE  counter'.used \in {prev.counter.used + spent', prev.counter.used + spent' - Limit}
    <3> DEFINE old == prev.counter.used
    <3>1. old \in Nat /\ old < Limit
      BY <1>4, <2>7 DEF MeterInv, MeterType, Wrapped, CounterType
    <3>2. counter.used \in {old + spent, old + spent - Limit}
      BY <1>4, <2>4, <2>7 DEF MeterInv, Wrapped, most
    <3> HIDE DEF old
    <3>3. counter.used + use \in 0..(2 * Limit - 1)
      BY <1>2, <1>4, <2>2, <2>4, <2>7
    <3>4. counter'.used = IF counter.used + use < Limit THEN counter.used + use ELSE counter.used + use - Limit
      <4>1. PICK x \in 0..(2 * Limit - 1) : x = counter.used + use
        BY <3>3
      <4>2. x % Limit = IF x < Limit THEN x ELSE x - Limit
        BY WrapAround
      <4>3. counter'.used = IF x < Limit THEN x ELSE x - Limit
        BY <2>1, <4>1, <4>2
      <4>4. QED
        BY <1>2, <2>2, <4>1, <4>3
    <3>5. spent' < Limit
      BY <1>1, <1>2, <2>4, <2>5, <2>6, <2>7
    <3>6. QED
      BY <1>1, <1>2, <2>2, <2>5, <3>1, <3>2, <3>4, <3>5 DEF old
  <2>8. Wrapped'
    BY <1>1, <1>4, <2>3, <2>6, <2>7 DEF MeterInv, Wrapped
  <2>9. counter' \in CounterType
    BY <1>1, <1>3, <2>1, <2>3 DEF CounterType
  <2>10. QED
    BY <1>1, <1>2, <1>3, <1>4, <2>1, <2>8, <2>9 DEF MeterInv, MeterType, Followed
<1>5. CASE kind # "power"
  <2>1. /\ counter'.used = counter.used + use
        /\ counter'.idle = IF kind \in Meter!Cpu THEN counter.idle + 1 - use ELSE counter.idle
    BY <1>1, <1>3, <1>5 DEF CounterType
  <2>2. counter' \in CounterType
    <3>1. counter.used + use \in Nat /\ counter.idle + 1 - use \in Nat /\ counter.idle \in Nat
      BY <1>2, <1>3, <1>5 DEF CounterType
    <3>2. counter' \in [owner : Nat, used : Nat, idle : Nat]
      <4> DEFINE a == counter.used + use
                 b == IF kind \in Meter!Cpu THEN counter.idle + 1 - use ELSE counter.idle
      <4>1. a \in Nat /\ b \in Nat
        BY <3>1
      <4>2. counter' = [counter EXCEPT !.used = a, !.idle = b]
        BY <1>1, <1>5
      <4> HIDE DEF a, b
      <4>3. QED
        BY <1>3, <4>1, <4>2 DEF CounterType
    <3>3. QED
      BY <3>2 DEF CounterType
  <2>3. MeterType'
    BY <1>1, <1>2, <2>2 DEF MeterInv, MeterType
  <2>4. Followed'
    <3>1. SUFFICES ASSUME prev.counter # None, prev.boot = boot PROVE Followed'
      BY <1>1 DEF Followed
    <3>2. prev.counter \in CounterType /\ passed \in Nat /\ spent \in Nat
      BY <3>1 DEF MeterInv, MeterType
    <3>3. Followed
      BY DEF MeterInv
    <3>4. QED
      BY <1>1, <1>2, <1>3, <1>5, <2>1, <3>2, <3>3 DEF Followed, CounterType
  <2>5. QED
    BY <1>1, <1>5, <2>3, <2>4 DEF MeterInv
<1>6. QED
  BY <1>4, <1>5

LEMMA MeterAnswers ==
    ASSUME MeterInv, NEW told \in BOOLEAN, NEW counted \in BOOLEAN, Meter!Answered(told, counted)
    PROVE  MeterInv' /\ (shown' # None /\ ~Meter!Guessed => shown' = Meter!Rate(spent, passed))
<1> USE RatesConstants
<1> DEFINE seen == [boot |-> IF told THEN boot ELSE None, counter |-> IF counted THEN counter ELSE None]
<1>1. /\ kind # None /\ (kind \notin Meter!Booted => told) /\ (kind = "core" => told = counted)
      /\ prev' = seen /\ passed' = 0 /\ spent' = 0 /\ UNCHANGED <<kind, boot, uptime, counter>>
      /\ shown' = IF seen.counter = None \/ prev.counter = None THEN None ELSE Meter!RateOf(seen)
  BY DEF Meter!Answered
<1>2. MeterType'
  BY <1>1 DEF MeterInv, MeterType
<1>3. Followed'
  BY <1>1 DEF MeterInv, MeterType, Followed, CounterType
<1>4. kind = "power" => Wrapped'
  BY <1>1 DEF MeterInv, MeterType, Wrapped, CounterType
<1>5. MeterInv'
  BY <1>1, <1>2, <1>3, <1>4 DEF MeterInv, MeterType
<1>6. ASSUME shown' # None, ~Meter!Guessed PROVE shown' = Meter!Rate(spent, passed)
  <2>1. /\ counted /\ prev.counter # None /\ shown' = Meter!RateOf(seen)
        /\ seen.counter = counter /\ seen.boot = IF told THEN boot ELSE None
    BY <1>1, <1>6
  <2> HIDE DEF seen
  <2>2. /\ counter.used \in Nat /\ counter.idle \in Nat /\ prev.counter.used \in Nat /\ prev.counter.idle \in Nat
        /\ passed \in Nat /\ spent \in Nat /\ boot \in Nat
    BY <2>1 DEF MeterInv, MeterType, CounterType
  <2>3. kind \notin Meter!Booted => prev.boot = boot
    BY <1>6 DEF Meter!Guessed
  <2>4. Meter!SameBoot(seen) => prev.boot = boot
    BY <2>1 DEF Meter!SameBoot
  <2>5. prev.boot = boot => Followed /\ prev.counter # None
    BY <2>1 DEF MeterInv
  <2>6. CASE kind \in {"cpu", "core"}
    <3>1. prev.boot = boot /\ shown' = Meter!CpuRate(seen)
      BY <1>6, <2>1, <2>3, <2>4, <2>6 DEF Meter!RateOf, Meter!CoreRate, Meter!Booted
    <3>2. counter.used = prev.counter.used + spent /\ counter.idle + spent = prev.counter.idle + passed
      BY <2>5, <2>6, <3>1 DEF Followed, Meter!Cpu
    <3>3. counter.used - prev.counter.used = spent /\ spent + counter.idle - prev.counter.idle = passed
      BY <2>2, <3>2
    <3>4. QED
      BY <1>6, <2>1, <3>1, <3>3 DEF Meter!CpuRate
  <2>7. CASE kind \in {"interface", "host", "machine"}
    <3>1. /\ prev.boot = boot /\ prev.counter.owner = counter.owner
          /\ shown' = Meter!Delta(counter.used, prev.counter.used)
      BY <1>6, <2>1, <2>3, <2>4, <2>7
         DEF Meter!RateOf, Meter!InterfaceRate, Meter!HostRate, Meter!MachineRate, Meter!SameOwner, Meter!Booted
    <3>2. counter.used = prev.counter.used + spent
      BY <2>5, <2>7, <3>1 DEF Followed, Meter!Named
    <3>3. counter.used - prev.counter.used = spent
      BY <2>2, <3>2
    <3>4. QED
      BY <1>6, <3>1, <3>3 DEF Meter!Delta
  <2>8. CASE kind = "power"
    <3> DEFINE less == counter.used - prev.counter.used
               delta == IF less < 0 THEN less + Limit ELSE less
    <3>1. shown' = Meter!PowerRate(seen)
      BY <2>1, <2>8 DEF Meter!RateOf
    <3>2. prev.boot = boot /\ passed * Bound < Limit /\ shown' = Meter!Rate(delta, passed)
      BY <1>6, <2>1, <2>4, <3>1 DEF Meter!PowerRate
    <3>3. /\ counter.used \in {prev.counter.used + spent, prev.counter.used + spent - Limit}
          /\ prev.counter.used < Limit /\ counter.used < Limit /\ spent <= passed * Bound
      BY <2>1, <2>8, <3>2 DEF MeterInv, Wrapped
    <3>4. spent < Limit
      <4> DEFINE most == passed * Bound
      <4>1. most \in Nat /\ most < Limit /\ spent <= most
        BY <2>2, <3>2, <3>3
      <4> HIDE DEF most
      <4>2. QED
        BY <2>2, <4>1
    <3>5. delta = spent
      BY <2>2, <3>3, <3>4
    <3>6. QED
      BY <3>2, <3>5
  <2>9. CASE kind \notin {"cpu", "core", "interface", "host", "machine", "power"}
    BY <1>1, <2>9 DEF MeterInv, MeterType, Meter!Kind
  <2>10. QED
    BY <2>6, <2>7, <2>8, <2>9
<1>7. QED
  BY <1>5, <1>6

LEMMA MeterStays ==
    ASSUME MeterInv, Meter!Next
    PROVE  MeterInv'
<1> USE RatesConstants
<1>1. CASE Meter!Chosen
  <2>1. kind = None /\ prev = Meter!Unread /\ counter.used = 0 /\ Wrapped
    BY <1>1 DEF Meter!Chosen, MeterInv, MeterType
  <2>2. kind' \in Meter!Kind /\ UNCHANGED <<boot, uptime, counter, prev, shown, passed, spent>>
    BY <1>1 DEF Meter!Chosen
  <2>3. prev.boot = None /\ prev.counter = None
    BY <2>1 DEF Meter!Unread
  <2>4. MeterType' /\ Wrapped'
    BY <2>1, <2>2 DEF MeterInv, MeterType, Wrapped
  <2>5. Followed'
    BY <2>2, <2>3 DEF Followed
  <2>6. QED
    BY <2>2, <2>3, <2>4, <2>5 DEF MeterInv
<1>2. CASE \E use \in Meter!Uses : Meter!Tick(use)
  BY <1>2, MeterTicks
<1>3. CASE Meter!Reboot
  <2>1. /\ kind # None /\ boot' = boot + 1 /\ UNCHANGED <<kind, prev, passed, spent>>
        /\ counter' = [owner |-> 1, used |-> 0, idle |-> 0]
    BY <1>3 DEF Meter!Reboot, Meter!Restarted
  <2>2. boot \in Nat /\ (prev.boot # None => prev.boot \in Nat /\ prev.boot <= boot)
    BY DEF MeterInv, MeterType
  <2>3. prev.boot # boot'
    BY <2>1, <2>2
  <2>4. MeterType'
    BY <2>1 DEF MeterInv, MeterType, CounterType
  <2>5. Followed' /\ (kind = "power" => Wrapped')
    BY <2>1, <2>3 DEF MeterInv, Followed, Wrapped
  <2>6. QED
    BY <2>1, <2>2, <2>4, <2>5 DEF MeterInv
<1>4. CASE Meter!Replaced
  <2>1. /\ kind \in Meter!Named /\ UNCHANGED <<kind, boot, prev, passed, spent>>
        /\ counter' = [owner |-> counter.owner + 1, used |-> 0, idle |-> 0]
    BY <1>4 DEF Meter!Replaced, Meter!Restarted
  <2>2. counter.owner \in Nat /\ (prev.counter # None => prev.counter.owner \in Nat)
    BY DEF MeterInv, MeterType, CounterType
  <2>3. MeterType' /\ kind # None /\ kind # "power"
    BY <2>1, <2>2 DEF MeterInv, MeterType, CounterType, Meter!Named, Meter!Kind
  <2>4. Followed'
    BY <2>1, <2>2 DEF MeterInv, Followed, Meter!Named, Meter!Cpu
  <2>5. QED
    BY <2>1, <2>3, <2>4 DEF MeterInv
<1>5. CASE \E told, counted \in BOOLEAN : Meter!Answered(told, counted)
  BY <1>5, MeterAnswers
<1>6. QED
  BY <1>1, <1>2, <1>3, <1>4, <1>5 DEF Meter!Next

LEMMA MeterAlways == SnapshotSpec => []MeterInv
<1>1. SnapshotInit => MeterInv
  <2> SUFFICES ASSUME Meter!Init PROVE MeterInv
    BY DEF SnapshotInit
  <2>1. /\ kind = None /\ boot = 1 /\ counter = [owner |-> 1, used |-> 0, idle |-> 0]
        /\ prev = Meter!Unread /\ passed = 0 /\ spent = 0
    BY DEF Meter!Init, Meter!Restarted
  <2>2. QED
    BY <2>1, RatesConstants DEF MeterInv, MeterType, CounterType, Followed, Wrapped, Meter!Unread
<1>2. MeterInv /\ [SnapshotNext]_<<vars, probing, metering, hanging>> => MeterInv'
  <2>1. MeterInv /\ UNCHANGED metering => MeterInv'
    BY DEF metering, MeterInv, MeterType, Followed, Wrapped
  <2>2. [SnapshotNext]_<<vars, probing, metering, hanging>> => Meter!Next \/ UNCHANGED metering
    BY DEF SnapshotNext
  <2>3. QED
    BY <2>1, <2>2, MeterStays
<1>3. QED
  BY <1>1, <1>2, PTL DEF SnapshotSpec

\* A rate that is shown is what was used between the two samples, over the time
\* between them, however far the counters go, whenever the server restarts, a
\* counter changes its owner or wraps, and whichever polls and sections are
\* missing (telemetry.py:159).
THEOREM RatesReal == SnapshotSpec => RatesAreReal
<1> DEFINE Real == \A told, counted \in BOOLEAN :
              Meter!Answered(told, counted) /\ shown' # None /\ ~Meter!Guessed
              => shown' = Meter!Rate(spent, passed)
<1>1. MeterInv => Real
  BY MeterAnswers
<1>2. QED
  BY <1>1, MeterAlways, PTL DEF RatesAreReal, Meter!RatesAreReal

-----------------------------------------------------------------------------
(* Probes                                                                  *)

LEMMA ProbesConstants ==
    /\ Groups \in Seq(Seq(Launcher!Probe)) /\ Len(Groups) \in Nat /\ Len(Groups) > 0
    /\ DOMAIN Groups = 1..Len(Groups)
    /\ \A g \in 1..Len(Groups) :
          /\ Groups[g] \in Seq(Launcher!Probe) /\ Len(Groups[g]) \in Nat /\ DOMAIN Groups[g] = 1..Len(Groups[g])
          /\ \A i \in 1..Len(Groups[g]) : Groups[g][i] \in Launcher!Probe
          /\ Budget[g] \in Nat
    /\ Grace \in Nat /\ Slots \in Nat /\ Slots > 0
    /\ \A p \in Launcher!Probe : Cap[p] \in Nat /\ Cap[p] > 0
    /\ Need \in [Launcher!Probe -> SUBSET (Nat \ {0})]
    /\ {None, "end"} \cap Launcher!Probe = {} /\ None # "end" /\ None \notin BOOLEAN
<1>1. /\ Groups \in Seq(Seq(Launcher!Probe)) /\ Groups # <<>>
      /\ Budget \in [DOMAIN Groups -> Nat] /\ Cap \in [Launcher!Probe -> Nat \ {0}]
      /\ Need \in [Launcher!Probe -> SUBSET (Nat \ {0})]
      /\ Grace \in Nat /\ Slots \in Nat /\ Slots > 0
      /\ {None, "end"} \cap Launcher!Probe = {} /\ None # "end" /\ None \notin BOOLEAN
  BY SnapshotAssumption DEF Launcher!ProbesAssumption
<1>2. Len(Groups) \in Nat /\ Len(Groups) > 0 /\ DOMAIN Groups = 1..Len(Groups)
  BY <1>1
<1>3. \A g \in 1..Len(Groups) : Groups[g] \in Seq(Launcher!Probe) /\ Budget[g] \in Nat
  <2>1. \A X : Groups \in Seq(X) => \A g \in 1..Len(Groups) : Groups[g] \in X
    OBVIOUS
  <2>2. \A g \in 1..Len(Groups) : Budget[g] \in Nat
    BY <1>1, <1>2
  <2>3. QED
    BY <1>1, <2>1, <2>2, Zenon
<1>4. \A p \in Launcher!Probe : Cap[p] \in Nat /\ Cap[p] > 0
  BY <1>1
<1>5. \A s \in Seq(Launcher!Probe) :
         Len(s) \in Nat /\ DOMAIN s = 1..Len(s) /\ \A i \in 1..Len(s) : s[i] \in Launcher!Probe
  OBVIOUS
<1>6. QED
  BY <1>1, <1>2, <1>3, <1>4, <1>5

\* A sum exists and grows.
Sums(f, L, add) ==
    /\ f \in [0..L -> Nat] /\ f[0] = 0
    /\ \A i \in 1..L : f[i] = f[i - 1] + add[i]

LEMMA SumExists ==
    ASSUME NEW L \in Nat, NEW add \in [1..L -> Nat]
    PROVE  \E f : Sums(f, L, add)
<1> DEFINE next == [i \in 1..L |-> [m \in Nat |-> m + add[i]]]
<1>1. next \in StepsOver(L, Nat)
  BY DEF StepsOver
<1>2. \A i \in 1..L, m \in Nat : next[i][m] = m + add[i]
  OBVIOUS
<1> HIDE DEF next
<1>3. PICK f : Recurs(f, L, Nat, 0, next)
  BY <1>1, RecursionExists
<1>4. \A i \in 1..L : i - 1 \in 0..L
  OBVIOUS
<1>5. Sums(f, L, add)
  BY <1>2, <1>3, <1>4 DEF Recurs, Sums
<1>6. QED
  BY <1>5

LEMMA Allowances ==
    /\ Launcher!Allowance[0] = 0
    /\ \A g \in 0..Len(Groups) : Launcher!Allowance[g] \in Nat
    /\ \A g \in 1..Len(Groups) : Launcher!Allowance[g] = Launcher!Allowance[g - 1] + Budget[g]
<1> DEFINE L == Len(Groups)
           Is(u) == u = [g \in 0..L |-> IF g = 0 THEN 0 ELSE u[g - 1] + Budget[g]]
           add == [g \in 1..L |-> Budget[g]]
<1>1. L \in Nat /\ add \in [1..L -> Nat]
  BY ProbesConstants
<1>2. PICK f : Sums(f, L, add)
  <2> HIDE DEF L, add
  <2>1. QED
    BY <1>1, SumExists
<1>3. /\ f \in [0..L -> Nat] /\ f[0] = 0
      /\ \A g \in 1..L : f[g] = f[g - 1] + Budget[g]
  BY <1>2 DEF Sums
<1>4. Is(f)
  <2> HIDE DEF L
  <2>1. QED
    BY <1>1, <1>3
<1>5. Launcher!Allowance = CHOOSE u : Is(u)
  BY Zenon DEF Launcher!Allowance
<1> DEFINE u == CHOOSE u : Is(u)
<1>6. Is(u)
  BY <1>4
<1>7. u[0] = 0 /\ DOMAIN u = 0..L /\ \A g \in 1..L : u[g] = u[g - 1] + Budget[g]
  <2> HIDE DEF u, L
  <2>1. 0 \in 0..L /\ \A g \in 1..L : g \in 0..L /\ g # 0
    BY <1>1
  <2>2. QED
    BY <1>6, <2>1
<1> HIDE DEF u
<1> DEFINE S == {g \in 0..L : u[g] \in Nat}
<1>8. 0..L \subseteq S
  <2>1. 0 \in S
    BY <1>1, <1>7
  <2>2. ASSUME NEW g \in 0..(L - 1), g \in S PROVE g + 1 \in S
    <3> HIDE DEF L
    <3>1. g + 1 \in 1..L /\ g + 1 \in 0..L /\ (g + 1) - 1 = g
      BY <1>1
    <3>2. Budget[g + 1] \in Nat
      BY <3>1, ProbesConstants DEF L
    <3>3. QED
      BY <1>7, <2>2, <3>1, <3>2
  <2>3. \A g \in 0..(L - 1) : g \in S => g + 1 \in S
    BY <2>2
  <2> HIDE DEF S, L
  <2>4. QED
    BY <1>1, <2>1, <2>3, BoundedInduction
<1>9. QED
  BY <1>5, <1>7, <1>8 DEF u

\* The times that probes may take.
Times == [Launcher!Probe -> Nat \ {0}]

\* What calm probes take together, probe by probe.
LEMMA CalmTimes ==
    ASSUME NEW times \in Times, NEW g \in 1..Len(Groups)
    PROVE  /\ Launcher!CalmTime(times, g, 0) = 0
           /\ \A n \in 0..Len(Groups[g]) : Launcher!CalmTime(times, g, n) \in Nat
           /\ \A n \in 1..Len(Groups[g]) :
                 Launcher!CalmTime(times, g, n) = Launcher!CalmTime(times, g, n - 1)
                    + IF Groups[g][n] \in Launcher!Calm(times, g) THEN times[Groups[g][n]] ELSE 0
<1> DEFINE L == Len(Groups[g])
           calm == Launcher!Calm(times, g)
           Share(i) == IF Groups[g][i] \in calm THEN times[Groups[g][i]] ELSE 0
           Is(u) == u = [i \in 0..L |-> IF i = 0 THEN 0
                                        ELSE u[i - 1] + IF Groups[g][i] \in calm THEN times[Groups[g][i]] ELSE 0]
           add == [i \in 1..L |-> Share(i)]
<1>1. L \in Nat /\ \A i \in 1..L : Share(i) \in Nat
  BY ProbesConstants DEF Times
<1>2. add \in [1..L -> Nat]
  <2> HIDE DEF Share, L
  <2>1. QED
    BY <1>1
<1>3. PICK f : Sums(f, L, add)
  <2> HIDE DEF L, add
  <2>1. QED
    BY <1>1, <1>2, SumExists
<1>4. /\ f \in [0..L -> Nat] /\ f[0] = 0
      /\ \A i \in 1..L : f[i] = f[i - 1] + Share(i)
  <2> HIDE DEF L, Share
  <2>1. QED
    BY <1>3 DEF Sums
<1>5. Is(f)
  <2> HIDE DEF L
  <2>1. QED
    BY <1>1, <1>4
<1>6. \A n : Launcher!CalmTime(times, g, n) = (CHOOSE u : Is(u))[n]
  BY Zenon DEF Launcher!CalmTime
<1> DEFINE u == CHOOSE u : Is(u)
<1>7. Is(u)
  BY <1>5
<1>8. u[0] = 0 /\ \A i \in 1..L : u[i] = u[i - 1] + Share(i)
  <2> HIDE DEF u, L
  <2>1. 0 \in 0..L /\ \A i \in 1..L : i \in 0..L /\ i # 0
    BY <1>1
  <2>2. QED
    BY <1>7, <2>1
<1> HIDE DEF u
<1> DEFINE S == {i \in 0..L : u[i] \in Nat}
<1>9. 0..L \subseteq S
  <2>1. 0 \in S
    BY <1>1, <1>8
  <2>2. ASSUME NEW i \in 0..(L - 1), i \in S PROVE i + 1 \in S
    <3> HIDE DEF L, Share
    <3>1. i + 1 \in 1..L /\ i + 1 \in 0..L /\ (i + 1) - 1 = i
      BY <1>1
    <3>2. QED
      BY <1>1, <1>8, <2>2, <3>1
  <2>3. \A i \in 0..(L - 1) : i \in S => i + 1 \in S
    BY <2>2
  <2> HIDE DEF S, L
  <2>4. QED
    BY <1>1, <2>1, <2>3, BoundedInduction
<1>10. QED
  BY <1>6, <1>8, <1>9 DEF u

LEMMA CalmTimeGrows ==
    ASSUME NEW times \in Times, NEW g \in 1..Len(Groups), NEW n \in 0..Len(Groups[g])
    PROVE  Launcher!CalmTime(times, g, n) <= Launcher!CalmTime(times, g, Len(Groups[g]))
<1> DEFINE L == Len(Groups[g])
           T(i) == Launcher!CalmTime(times, g, i)
           S == {i \in 0..(L - n) : T(n) <= T(n + i)}
<1>1. L \in Nat /\ L - n \in Nat /\ \A i \in 0..L : T(i) \in Nat
  BY ProbesConstants, CalmTimes
<1>2. \A i \in 1..L : T(i) >= T(i - 1)
  <2>1. \A p \in Launcher!Calm(times, g) : times[p] \in Nat
    BY ProbesConstants DEF Launcher!Calm, Times, Launcher!Range
  <2>2. ASSUME NEW i \in 1..L PROVE T(i) >= T(i - 1)
    <3>1. T(i) = T(i - 1) + IF Groups[g][i] \in Launcher!Calm(times, g) THEN times[Groups[g][i]] ELSE 0
      BY CalmTimes
    <3>2. i \in 0..L /\ i - 1 \in 0..L
      BY <1>1
    <3> HIDE DEF T, L
    <3>3. QED
      BY <1>1, <2>1, <3>1, <3>2
  <2>3. QED
    BY <2>2
<1> HIDE DEF T
<1>3. 0 \in S
  BY <1>1
<1>4. ASSUME NEW i \in 0..((L - n) - 1), i \in S PROVE i + 1 \in S
  <2> HIDE DEF L
  <2>1. n + i \in 0..L /\ n + (i + 1) \in 1..L /\ (n + (i + 1)) - 1 = n + i /\ i + 1 \in 0..(L - n)
    BY <1>1
  <2>2. T(n + i) <= T(n + (i + 1)) /\ T(n) \in Nat /\ T(n + i) \in Nat /\ T(n + (i + 1)) \in Nat
    BY <1>1, <1>2, <2>1
  <2>3. QED
    BY <1>4, <2>1, <2>2
<1>5. L - n \in S
  <2> DEFINE M == L - n
  <2>1. M \in Nat /\ 0 \in S /\ \A i \in 0..(M - 1) : i \in S => i + 1 \in S
    BY <1>1, <1>3, <1>4
  <2>2. 0..M \subseteq S
    <3> HIDE DEF M, S
    <3>1. QED
      BY <2>1, BoundedInduction
  <2>3. M \in 0..M
    BY <2>1
  <2> HIDE DEF S
  <2>4. QED
    BY <2>2, <2>3
<1>6. n + (L - n) = L
  BY <1>1
<1>7. QED
  BY <1>5, <1>6 DEF T

\* All groups after one another hold every probe.
LEMMA OrderListed ==
    /\ Launcher!Order \in Seq(Launcher!Probe) /\ Len(Launcher!Order) \in Nat
    /\ \A i \in 1..Len(Launcher!Order) : Launcher!Order[i] \in Launcher!Probe
    /\ \A p \in Launcher!Probe : \E i \in 1..Len(Launcher!Order) : Launcher!Order[i] = p
<1> DEFINE L == Len(Groups)
           V == Seq(Launcher!Probe)
           Is(u) == u = [g \in 1..L |-> IF g = 1 THEN Groups[g] ELSE u[g - 1] \o Groups[g]]
           next == [g \in 1..L |-> [s \in V |-> s \o Groups[g]]]
<1>1. /\ L \in Nat /\ L > 0 /\ <<>> \in V /\ \A g \in 1..L : Groups[g] \in V
      /\ \A s, t \in V : s \o t \in V /\ <<>> \o s = s
  BY ProbesConstants, ConcatProperties, ConcatEmptySeq
<1> HIDE DEF V
<1>2. next \in StepsOver(L, V) /\ \A g \in 1..L, s \in V : next[g][s] = s \o Groups[g]
  BY <1>1 DEF StepsOver
<1>3. PICK f : Recurs(f, L, V, <<>>, next)
  <2> HIDE DEF L, next
  <2>1. QED
    BY <1>1, <1>2, RecursionExists
<1>4. f \in [0..L -> V] /\ f[0] = <<>> /\ \A g \in 1..L : f[g] = f[g - 1] \o Groups[g]
  <2> HIDE DEF next, L
  <2>1. f \in [0..L -> V] /\ f[0] = <<>> /\ \A g \in 1..L : f[g] = next[g][f[g - 1]]
    BY <1>3 DEF Recurs
  <2>2. \A g \in 1..L : f[g - 1] \in V
    BY <1>1, <2>1
  <2>3. QED
    BY <1>2, <2>1, <2>2
<1>5. Is([g \in 1..L |-> f[g]])
  <2> DEFINE h == [g \in 1..L |-> f[g]]
  <2>1. \A g \in 1..L : h[g] = IF g = 1 THEN Groups[g] ELSE h[g - 1] \o Groups[g]
    <3> HIDE DEF L
    <3>1. 1 \in 1..L /\ f[1] = Groups[1]
      BY <1>1, <1>4
    <3>2. ASSUME NEW g \in 1..L, g # 1 PROVE g - 1 \in 1..L
      BY <1>1, <3>2
    <3>3. QED
      BY <1>4, <3>1, <3>2
  <2>2. QED
    BY <2>1
<1>6. Launcher!Order = (CHOOSE u : Is(u))[L]
  <2>1. Len(Groups) # 0
    BY <1>1
  <2>2. QED
    BY <2>1, Zenon DEF Launcher!Order, Launcher!FlattenSeq
<1> DEFINE u == CHOOSE u : Is(u)
<1>7. Is(u)
  BY <1>5
<1>8. u[1] = Groups[1] /\ \A g \in 2..L : u[g] = u[g - 1] \o Groups[g]
  <2> HIDE DEF u, L
  <2>1. 1 \in 1..L /\ \A g \in 2..L : g \in 1..L /\ g # 1
    BY <1>1
  <2>2. QED
    BY <1>7, <2>1
<1> HIDE DEF u
<1> DEFINE Holds(s, i) == \A g \in 1..i : \A k \in 1..Len(Groups[g]) :
                             \E j \in 1..Len(s) : s[j] = Groups[g][k]
           M == L - 1
           S == {i \in 0..M : u[i + 1] \in V /\ Holds(u[i + 1], i + 1)}
<1>9. 0 \in S
  <2>1. u[0 + 1] = Groups[1] /\ Groups[1] \in V /\ 0 \in 0..M
    BY <1>1, <1>8
  <2>2. Holds(Groups[1], 0 + 1)
    OBVIOUS
  <2> HIDE DEF Holds
  <2>3. QED
    BY <2>1, <2>2
<1>10. ASSUME NEW i \in 0..(M - 1), i \in S PROVE i + 1 \in S
  <2> DEFINE s == u[i + 1]
             g == i + 2
             t == Groups[g]
             r == s \o t
  <2>1. i + 1 \in 0..M /\ g \in 2..L /\ g \in 1..L /\ g - 1 = i + 1 /\ (i + 1) + 1 = g /\ 1..g = 1..(i + 1) \cup {g}
    BY <1>1
  <2>2. u[(i + 1) + 1] = r
    <3> HIDE DEF L
    <3>1. QED
      BY <1>8, <2>1
  <2>3. s \in V /\ t \in V /\ Holds(s, i + 1)
    <3>1. s \in V /\ Holds(s, i + 1)
      BY <1>10
    <3>2. QED
      BY <1>1, <2>1, <3>1
  <2> HIDE DEF s, t, g
  <2>4. /\ r \in V /\ Len(s) \in Nat /\ Len(t) \in Nat /\ Len(r) = Len(s) + Len(t)
        /\ \A j \in 1..(Len(s) + Len(t)) : r[j] = IF j <= Len(s) THEN s[j] ELSE t[j - Len(s)]
    BY <2>3, ConcatProperties DEF V
  <2> HIDE DEF r
  <2>5. \A j \in 1..Len(s) : j \in 1..Len(r) /\ r[j] = s[j]
    BY <2>4
  <2>6. \A k \in 1..Len(t) : Len(s) + k \in 1..Len(r) /\ r[Len(s) + k] = t[k]
    BY <2>4
  <2>7. Holds(r, g)
    <3> SUFFICES ASSUME NEW h \in 1..g, NEW k \in 1..Len(Groups[h])
                 PROVE  \E j \in 1..Len(r) : r[j] = Groups[h][k]
      OBVIOUS
    <3>1. CASE h = g
      BY <2>6, <3>1 DEF t
    <3>2. CASE h \in 1..(i + 1)
      BY <2>3, <2>5, <3>2
    <3>3. QED
      BY <2>1, <3>1, <3>2
  <2> HIDE DEF Holds
  <2>8. QED
    BY <2>1, <2>2, <2>4, <2>7
<1>11. M \in S
  <2>1. M \in Nat /\ \A i \in 0..(M - 1) : i \in S => i + 1 \in S
    BY <1>1, <1>10
  <2> HIDE DEF S, M
  <2>2. 0..M \subseteq S
    BY <1>9, <2>1, BoundedInduction
  <2>3. QED
    BY <2>1, <2>2
<1>12. M + 1 = L
  BY <1>1
<1>13. Launcher!Order \in V /\ Holds(Launcher!Order, L)
  <2> HIDE DEF Holds, L
  <2>1. QED
    BY <1>6, <1>11, <1>12 DEF u
<1>14. ASSUME NEW p \in Launcher!Probe PROVE \E i \in 1..Len(Launcher!Order) : Launcher!Order[i] = p
  <2>1. PICK g \in 1..L : \E k \in 1..Len(Groups[g]) : Groups[g][k] = p
    BY ProbesConstants DEF Launcher!Probe, Launcher!Range
  <2>2. QED
    BY <1>13, <2>1
<1>15. QED
  BY <1>13, <1>14 DEF V

\* What a reading can have come to.
Reading == [current : Launcher!Probe \cup {None, "end"}, sections : SUBSET (Launcher!Probe \cup {"end"})]

LEMMA MarkerType ==
    ASSUME NEW r \in Reading, NEW m, m.name \in Launcher!Probe \cup {"end"}
    PROVE  Launcher!Marker(r, m) \in Reading
<1>1. CASE m.status = None
  BY <1>1 DEF Launcher!Marker, Reading
<1>2. CASE m.status # None
  BY <1>2 DEF Launcher!Marker, Reading
<1>3. QED
  BY <1>1, <1>2

LEMMA AnswerMarkers ==
    ASSUME NEW i \in 1..Launcher!Markers
    PROVE  /\ Launcher!Answer(i).name \in Launcher!Probe \cup {"end"}
           /\ i = Launcher!Markers => Launcher!Answer(i).name = "end" /\ Launcher!Answer(i).status = None
           /\ i # Launcher!Markers =>
                 /\ (i + 1) \div 2 \in 1..Len(Launcher!Order)
                 /\ Launcher!Answer(i).name = Launcher!Order[(i + 1) \div 2]
                 /\ i % 2 = 1 => Launcher!Answer(i).status = None
                 /\ i % 2 # 1 => Launcher!Answer(i).status = (Launcher!Order[(i + 1) \div 2] \in whole)
<1>1. CASE i = Launcher!Markers
  BY <1>1 DEF Launcher!Answer
<1>2. CASE i # Launcher!Markers
  <2>1. i \in 1..(2 * Len(Launcher!Order)) /\ Len(Launcher!Order) \in Nat
    BY <1>2, OrderListed DEF Launcher!Markers
  <2>2. (i + 1) \div 2 \in 1..Len(Launcher!Order)
    BY <2>1
  <2>3. Launcher!Order[(i + 1) \div 2] \in Launcher!Probe
    BY <2>2, OrderListed
  <2>4. Launcher!Answer(i) = [name |-> Launcher!Order[(i + 1) \div 2],
                              status |-> IF i % 2 = 1 THEN None ELSE Launcher!Order[(i + 1) \div 2] \in whole]
    BY <1>2 DEF Launcher!Answer
  <2>5. QED
    BY <1>2, <2>2, <2>3, <2>4
<1>3. QED
  BY <1>1, <1>2

\* The answer is complete when its end is read, and then the sections are the
\* probes with status 0.
LEMMA ReadToTheEnd ==
    ASSUME whole \subseteq Launcher!Probe, NEW n \in 0..Launcher!Markers,
           Launcher!SplitOutput(n).current = "end"
    PROVE  Launcher!SplitOutput(n).sections = whole
<1> DEFINE L == Len(Launcher!Order)
           start == [current |-> None, sections |-> {}]
           next == [i \in 1..n |-> [r \in Reading |-> Launcher!Marker(r, Launcher!Answer(i))]]
           Is(u) == u = [i \in 0..n |-> IF i = 0 THEN [current |-> None, sections |-> {}]
                                        ELSE Launcher!Marker(u[i - 1], Launcher!Answer(i))]
<1>1. L \in Nat /\ n \in Nat /\ n <= 2 * L + 1 /\ Launcher!Markers = 2 * L + 1
  BY OrderListed DEF Launcher!Markers
<1>2. start \in Reading
  BY DEF Reading
<1>3. \A i \in 1..n, r \in Reading : Launcher!Marker(r, Launcher!Answer(i)) \in Reading
  <2>1. \A i \in 1..n : i \in 1..Launcher!Markers
    BY <1>1
  <2>2. QED
    BY <2>1, AnswerMarkers, MarkerType
<1>4. next \in StepsOver(n, Reading)
  BY <1>3 DEF StepsOver
<1>5. PICK f : Recurs(f, n, Reading, start, next)
  <2> HIDE DEF next, start
  <2>1. QED
    BY <1>1, <1>2, <1>4, RecursionExists
<1>6. /\ f \in [0..n -> Reading] /\ f[0] = start
      /\ \A i \in 1..n : f[i] = Launcher!Marker(f[i - 1], Launcher!Answer(i))
  <2>1. /\ f \in [0..n -> Reading] /\ f[0] = start
        /\ \A i \in 1..n : f[i - 1] \in Reading /\ f[i] = next[i][f[i - 1]]
    <3> HIDE DEF next, start
    <3>1. QED
      BY <1>1, <1>5 DEF Recurs
  <2>2. QED
    BY <2>1
<1>7. Is(f)
  BY <1>1, <1>6
<1>8. Launcher!SplitOutput(n) = (CHOOSE u : Is(u))[n]
  BY Zenon DEF Launcher!SplitOutput
<1> DEFINE u == CHOOSE u : Is(u)
<1>9. Is(u)
  BY <1>7
<1>10. u[0] = start /\ \A i \in 1..n : u[i] = Launcher!Marker(u[i - 1], Launcher!Answer(i))
  <2> HIDE DEF u
  <2>1. 0 \in 0..n /\ \A i \in 1..n : i \in 0..n /\ i # 0
    BY <1>1
  <2>2. QED
    BY <1>9, <2>1
<1> HIDE DEF u
<1> DEFINE Upto(k) == {Launcher!Order[j] : j \in 1..k}
           Now(i) == IF i = 2 * L + 1 THEN "end" ELSE IF i % 2 = 1 THEN Launcher!Order[(i + 1) \div 2] ELSE None
           Holds(r, i) == r.current = Now(i) /\ r.sections = Upto(i \div 2) \cap whole
           S == {i \in 0..n : Holds(u[i], i)}
<1>11. 0 \in S
  <2>1. 0 % 2 = 0 /\ 0 \div 2 = 0 /\ Upto(0) = {} /\ 0 # 2 * L + 1
    BY <1>1
  <2>2. QED
    BY <1>1, <1>10, <2>1
<1>12. ASSUME NEW i \in 0..(n - 1), i \in S PROVE i + 1 \in S
  <2> DEFINE m == Launcher!Answer(i + 1)
             r == u[i]
  <2>1. i + 1 \in 1..n /\ i + 1 \in 0..n /\ (i + 1) - 1 = i /\ i + 1 \in 1..Launcher!Markers /\ i # 2 * L + 1 /\ i \in Nat
    BY <1>1
  <2>2. u[i + 1] = Launcher!Marker(r, m)
    BY <1>10, <2>1
  <2>3. /\ r.current = IF i % 2 = 1 THEN Launcher!Order[(i + 1) \div 2] ELSE None
        /\ r.sections = Upto(i \div 2) \cap whole
    <3>1. Holds(r, i)
      BY <1>12
    <3>2. QED
      BY <2>1, <3>1
  <2>4. /\ i + 1 = 2 * L + 1 => m.name = "end" /\ m.status = None
        /\ i + 1 # 2 * L + 1 =>
              /\ ((i + 1) + 1) \div 2 \in 1..L /\ m.name = Launcher!Order[((i + 1) + 1) \div 2]
              /\ (i + 1) % 2 = 1 => m.status = None
              /\ (i + 1) % 2 # 1 => m.status = (Launcher!Order[((i + 1) + 1) \div 2] \in whole)
    BY <1>1, <2>1, AnswerMarkers
  <2> HIDE DEF m, r
  <2>5. CASE i % 2 # 1
    <3>1. (i + 1) \div 2 = i \div 2 /\ (i + 1) % 2 = 1
      BY <2>1, <2>5
    <3>2. m.status = None /\ r.current = None
      BY <2>3, <2>4, <2>5, <3>1
    <3>3. u[i + 1].current = m.name /\ u[i + 1].sections = r.sections
      BY <2>2, <3>2 DEF Launcher!Marker
    <3>4. m.name = Now(i + 1)
      BY <2>4, <3>1
    <3> HIDE DEF Upto, Now
    <3>5. Holds(u[i + 1], i + 1)
      BY <2>3, <3>1, <3>3, <3>4
    <3>6. QED
      BY <2>1, <3>5
  <2>6. CASE i % 2 = 1
    <3> DEFINE k == (i + 1) \div 2
               p == Launcher!Order[k]
    <3>1. k \in Nat /\ k = (i \div 2) + 1 /\ (i + 1) % 2 = 0 /\ ((i + 1) + 1) \div 2 = k /\ i + 1 # 2 * L + 1
      BY <1>1, <2>1, <2>6
    <3>2. m.name = p /\ m.status = (p \in whole) /\ r.current = p
      BY <2>3, <2>4, <2>6, <3>1
    <3>3. m.status # None /\ (m.status <=> p \in whole)
      <4>1. m.status = (p \in whole) /\ None \notin BOOLEAN
        BY <3>2, ProbesConstants
      <4> HIDE DEF p
      <4>2. CASE p \in whole
        <5>1. m.status = TRUE
          BY <4>1, <4>2, Zenon
        <5>2. QED
          BY <4>1, <4>2, <5>1
      <4>3. CASE p \notin whole
        <5>0. FALSE = (p \in whole)
          BY <4>3
        <5>1. m.status = FALSE
          BY <4>1, <5>0, Zenon
        <5>2. QED
          BY <4>1, <4>3, <5>1
      <4>4. QED
        BY <4>2, <4>3
    <3>4. Upto(k) = Upto(i \div 2) \cup {p}
      <4>1. 1..k = 1..(i \div 2) \cup {k}
        BY <2>1, <3>1
      <4>2. QED
        BY <4>1
    <3>5. Now(i + 1) = None
      BY <3>1
    <3> HIDE DEF k, p, Upto, Now
    <3>6. /\ u[i + 1].current = None
          /\ u[i + 1].sections = IF p \in whole THEN r.sections \cup {p} ELSE r.sections \ {p}
      BY <2>2, <3>2, <3>3 DEF Launcher!Marker
    <3>7. u[i + 1].sections = Upto(k) \cap whole
      BY <2>3, <3>4, <3>6
    <3>8. Holds(u[i + 1], i + 1)
      BY <3>5, <3>6, <3>7 DEF k
    <3>9. QED
      BY <2>1, <3>8
  <2>7. QED
    BY <2>5, <2>6
<1>13. Holds(u[n], n)
  <2>1. \A i \in 0..(n - 1) : i \in S => i + 1 \in S
    BY <1>12
  <2> HIDE DEF S
  <2>2. 0..n \subseteq S
    BY <1>1, <1>11, <2>1, BoundedInduction
  <2>3. n \in S
    BY <1>1, <2>2
  <2>4. QED
    BY <2>3 DEF S
<1>14. u[n].current = "end"
  BY <1>8 DEF u
<1>15. n = 2 * L + 1
  <2>1. ASSUME n # 2 * L + 1 PROVE FALSE
    <3>1. n % 2 = 1 => (n + 1) \div 2 \in 1..L
      BY <1>1, <2>1
    <3>2. Now(n) \in Launcher!Probe \cup {None}
      BY <2>1, <3>1, OrderListed
    <3>3. QED
      BY <1>13, <1>14, <3>2, ProbesConstants
  <2>2. QED
    BY <2>1
<1>16. n \div 2 = L
  BY <1>1, <1>15
<1>17. Upto(L) = Launcher!Probe
  BY OrderListed
<1>18. QED
  <2> HIDE DEF Upto, L
  <2>1. u[n].sections = whole
    BY <1>13, <1>16, <1>17
  <2>2. QED
    BY <1>8, <2>1 DEF u

\* Where the launcher is, and what the time of the group allows.
PlanOK ==
    /\ step \in {"idle", "running", "read", "truncated"}
    /\ group \in 1..Len(Groups) /\ launched \in 0..Len(Groups[group])
    /\ clock \in Nat /\ deadline \in Nat
    /\ clock <= deadline /\ Budget[group] <= deadline /\ deadline <= Launcher!Allowance[group]
    /\ step = "idle" => clock = 0 /\ launched = 0 /\ group = 1 /\ whole = {} /\ deadline = Budget[1]
    /\ step # "idle" => need \in Times
    /\ step # "running" => DOMAIN jobs = {}
    /\ step \in {"read", "truncated"} => group = Len(Groups) /\ launched = Len(Groups[group])

\* What runs is of the group, ends in time and has a slot.
JobsOK ==
    /\ DOMAIN jobs \subseteq Launcher!Range(Groups[group])
    /\ \A p \in DOMAIN jobs :
          jobs[p].ends \in Nat /\ jobs[p].ends <= deadline /\ (jobs[p].ok => need[p] <= Cap[p])
    /\ Cardinality(DOMAIN jobs) <= Slots

\* What ended by itself was within its cap, and is what was read.
WholeOK ==
    /\ whole \subseteq Launcher!Probe /\ \A p \in whole : need[p] <= Cap[p]
    /\ step = "read" => sections = whole

\* By itself, with whatever status.
Ended == whole \cup faulty

\* What is left of the budget counts from here.
Start == deadline - Budget[group]

\* Of a group whose hanging probes leave a slot, a calm probe starts as early as
\* if it waited for all calm ones before, so that it ends by itself.
Unhurried(times, g, n) ==
    /\ n < Len(Groups[g]) => clock <= Start + Launcher!CalmTime(times, g, n)
    /\ \A q \in DOMAIN jobs \cap Launcher!Calm(times, g) :
          jobs[q].ok /\ jobs[q].ends <= Start + Launcher!CalmTime(times, g, n)
    /\ \A i \in 1..n : Groups[g][i] \in Launcher!Calm(times, g) => Groups[g][i] \in DOMAIN jobs \cup Ended

CalmOK ==
    step # "idle" =>
        /\ \A g \in 1..(group - 1) :
              Launcher!Unhindered(need, g) => Launcher!Calm(need, g) \subseteq Ended
        /\ Launcher!Unhindered(need, group) => Unhurried(need, group, launched)

ProbeInv == PlanOK /\ JobsOK /\ WholeOK /\ CalmOK

\* An instance has its own name for what it takes from the library.
LEMMA SameCardinality ==
    ASSUME NEW S
    PROVE  Launcher!Cardinality(S) = Cardinality(S)
  BY Zenon DEF Launcher!Cardinality, Cardinality

LEMMA GroupFinite ==
    ASSUME NEW g \in 1..Len(Groups)
    PROVE  /\ IsFiniteSet(Launcher!Range(Groups[g])) /\ Launcher!Range(Groups[g]) \subseteq Launcher!Probe
           /\ \A i \in 1..Len(Groups[g]) : Groups[g][i] \in Launcher!Range(Groups[g])
<1> DEFINE s == Groups[g]
           L == Len(s)
           Up(i) == {s[k] : k \in 1..i}
           S == {i \in 0..L : IsFiniteSet(Up(i))}
<1>1. s \in Seq(Launcher!Probe) /\ L \in Nat /\ DOMAIN s = 1..L /\ \A i \in 1..L : s[i] \in Launcher!Probe
  BY ProbesConstants
<1> HIDE DEF s, L
<1>2. 0 \in S
  <2>1. Up(0) = {} /\ 0 \in 0..L
    BY <1>1
  <2>2. QED
    BY <2>1, FS_EmptySet
<1>3. \A i \in 0..(L - 1) : i \in S => i + 1 \in S
  <2> SUFFICES ASSUME NEW i \in 0..(L - 1), i \in S PROVE i + 1 \in S
    OBVIOUS
  <2>1. i + 1 \in 0..L /\ 1..(i + 1) = 1..i \cup {i + 1}
    BY <1>1
  <2>2. Up(i + 1) = Up(i) \cup {s[i + 1]}
    BY <2>1
  <2>3. IsFiniteSet(Up(i))
    OBVIOUS
  <2> HIDE DEF Up
  <2>4. IsFiniteSet(Up(i) \cup {s[i + 1]})
    BY <2>3, FS_AddElement
  <2>5. QED
    BY <2>1, <2>2, <2>4
<1>4. IsFiniteSet(Up(L))
  <2> HIDE DEF S
  <2>1. 0..L \subseteq S
    BY <1>1, <1>2, <1>3, BoundedInduction
  <2>2. L \in S
    BY <1>1, <2>1
  <2>3. QED
    BY <2>2 DEF S
<1>5. Launcher!Range(s) = Up(L)
  BY <1>1 DEF Launcher!Range
<1>6. QED
  BY <1>1, <1>4, <1>5 DEF s, L

LEMMA CalmFits ==
    ASSUME NEW times \in Times, NEW g \in 1..Len(Groups), NEW p \in Launcher!Calm(times, g)
    PROVE  /\ p \in Launcher!Probe /\ times[p] \in Nat /\ times[p] > 0 /\ times[p] <= Cap[p]
           /\ \E i \in 1..Len(Groups[g]) : Groups[g][i] = p
<1>1. p \in Launcher!Range(Groups[g]) /\ ~(times[p] > Cap[p])
  BY DEF Launcher!Calm, Launcher!Hanging
<1>2. p \in Launcher!Probe
  BY <1>1, GroupFinite
<1>3. times[p] \in Nat \ {0} /\ Cap[p] \in Nat
  BY <1>2, ProbesConstants DEF Times
<1>4. \E i \in 1..Len(Groups[g]) : Groups[g][i] = p
  BY <1>1, ProbesConstants DEF Launcher!Range
<1>5. QED
  BY <1>1, <1>2, <1>3, <1>4

\* When fewer probes hang than there are slots and all slots are taken, a calm
\* probe runs.
LEMMA CalmRuns ==
    ASSUME NEW times \in Times, NEW g \in 1..Len(Groups), NEW running \in SUBSET Launcher!Range(Groups[g]),
           Launcher!Unhindered(times, g), ~(Cardinality(running) < Slots)
    PROVE  \E q \in running : q \in Launcher!Calm(times, g)
<1>1. SUFFICES ASSUME running \subseteq Launcher!Hanging(times, g) PROVE FALSE
  BY DEF Launcher!Calm
<1>2. IsFiniteSet(Launcher!Hanging(times, g))
  <2>1. Launcher!Hanging(times, g) \in SUBSET Launcher!Range(Groups[g])
    BY DEF Launcher!Hanging
  <2>2. QED
    BY <2>1, GroupFinite, FS_Subset
<1>3. Cardinality(running) <= Cardinality(Launcher!Hanging(times, g)) /\ IsFiniteSet(running)
  BY <1>1, <1>2, FS_Subset
<1>4. Cardinality(running) \in Nat /\ Cardinality(Launcher!Hanging(times, g)) \in Nat
  BY <1>2, <1>3, FS_CardinalityType
<1>5. Cardinality(Launcher!Hanging(times, g)) < Slots
  BY SameCardinality DEF Launcher!Unhindered
<1>6. QED
  BY <1>3, <1>4, <1>5, ProbesConstants

LEMMA SmallerOf ==
    ASSUME NEW a \in Int, NEW b \in Int
    PROVE  Launcher!Min({a, b}) = IF a <= b THEN a ELSE b
<1> DEFINE m == IF a <= b THEN a ELSE b
<1>1. m \in {a, b} /\ \A y \in {a, b} : m <= y
  OBVIOUS
<1>2. \A x \in {a, b} : (\A y \in {a, b} : x <= y) => x = m
  OBVIOUS
<1>3. Launcher!Min({a, b}) = CHOOSE x \in {a, b} : \A y \in {a, b} : x <= y
  BY DEF Launcher!Min
<1> DEFINE r == CHOOSE x \in {a, b} : \A y \in {a, b} : x <= y
<1>4. r \in {a, b} /\ \A y \in {a, b} : r <= y
  <2> HIDE DEF m
  <2>1. QED
    BY <1>1
<1> HIDE DEF r, m
<1>5. r = m
  BY <1>2, <1>4
<1>6. QED
  BY <1>3, <1>5 DEF r, m

LEMMA ProbesBegin ==
    ASSUME ProbeInv, Launcher!Begin
    PROVE  ProbeInv'
<1>1. /\ step = "idle" /\ step' = "running" /\ UNCHANGED <<group, launched, clock, deadline, jobs, whole, faulty, sections>>
      /\ need' \in {n \in [Launcher!Probe -> UNION Launcher!Range(Need)] : \A p \in Launcher!Probe : n[p] \in Need[p]}
  BY DEF Launcher!Begin
<1>2. need' \in Times
  <2>1. \A p \in Launcher!Probe : need'[p] \in Nat \ {0}
    BY <1>1, ProbesConstants
  <2>2. need' = [p \in Launcher!Probe |-> need'[p]]
    BY <1>1
  <2> HIDE DEF ProbeInv
  <2>3. QED
    BY <2>1, <2>2 DEF Times
<1>3. /\ clock = 0 /\ launched = 0 /\ group = 1 /\ whole = {} /\ deadline = Budget[1]
      /\ DOMAIN jobs = {}
  BY <1>1 DEF ProbeInv, PlanOK
<1>4. PlanOK'
  BY <1>1, <1>2 DEF ProbeInv, PlanOK
<1>5. JobsOK' /\ WholeOK'
  BY <1>1, <1>3 DEF ProbeInv, JobsOK, WholeOK
<1>6. 1 \in 1..Len(Groups) /\ Budget[1] \in Nat
  BY ProbesConstants
<1>7. Unhurried(need, group, launched)'
  <2>1. Launcher!CalmTime(need', 1, 0) = 0
    BY <1>2, <1>6, CalmTimes
  <2>2. Start' = 0
    BY <1>1, <1>3, <1>6 DEF Start
  <2>3. /\ launched' = 0 /\ group' = 1 /\ clock' = 0 /\ DOMAIN jobs' = {}
        /\ Launcher!CalmTime(need', group', launched') = 0
    BY <1>1, <1>3, <2>1
  <2>4. QED
    BY <2>2, <2>3 DEF Unhurried
<1>8. CalmOK'
  BY <1>1, <1>3, <1>7 DEF CalmOK
<1>9. QED
  BY <1>4, <1>5, <1>8 DEF ProbeInv

LEMMA ProbesNextGroup ==
    ASSUME ProbeInv, Launcher!NextGroup
    PROVE  ProbeInv'
<1>1. /\ step = "running" /\ ~(launched < Len(Groups[group])) /\ jobs = <<>> /\ group < Len(Groups)
      /\ group' = group + 1 /\ launched' = 0 /\ deadline' = clock + Budget[group + 1]
      /\ UNCHANGED <<step, clock, need, jobs, whole, faulty, sections>>
  BY DEF Launcher!NextGroup, Launcher!Launching
<1>2. /\ group \in 1..Len(Groups) /\ launched \in 0..Len(Groups[group]) /\ clock \in Nat /\ deadline \in Nat
      /\ clock <= deadline /\ deadline <= Launcher!Allowance[group] /\ need \in Times
  BY <1>1 DEF ProbeInv, PlanOK
<1>3. /\ group' \in 1..Len(Groups) /\ group' - 1 = group /\ Budget[group'] \in Nat /\ Len(Groups[group']) \in Nat
      /\ Launcher!Allowance[group] \in Nat
      /\ Launcher!Allowance[group'] = Launcher!Allowance[group] + Budget[group']
  <2>1. group' \in 1..Len(Groups) /\ group' - 1 = group /\ group \in 0..Len(Groups)
    BY <1>1, <1>2, ProbesConstants
  <2>2. QED
    BY <2>1, Allowances, ProbesConstants
<1>4. DOMAIN jobs = {} /\ DOMAIN jobs' = {} /\ launched = Len(Groups[group])
  BY <1>1, <1>2, ProbesConstants
<1>5. PlanOK'
  BY <1>1, <1>2, <1>3, <1>4 DEF PlanOK
<1>6. JobsOK'
  BY <1>1, <1>4, FS_EmptySet, ProbesConstants DEF JobsOK
<1>7. WholeOK'
  BY <1>1 DEF ProbeInv, WholeOK
<1>8. Launcher!Unhindered(need, group) => Launcher!Calm(need, group) \subseteq Ended
  <2>1. Launcher!Unhindered(need, group) => Unhurried(need, group, Len(Groups[group]))
    BY <1>1, <1>4 DEF ProbeInv, CalmOK
  <2>2. \A p \in Launcher!Calm(need, group) : \E i \in 1..Len(Groups[group]) : Groups[group][i] = p
    BY <1>2, CalmFits
  <2>3. QED
    BY <1>4, <2>1, <2>2 DEF Unhurried
<1>9. Unhurried(need, group, launched)'
  <2>1. Launcher!CalmTime(need, group', 0) = 0
    BY <1>2, <1>3, CalmTimes
  <2>2. Start' = clock
    BY <1>1, <1>2, <1>3 DEF Start
  <2>3. launched' = 0 /\ clock' = clock /\ Launcher!CalmTime(need', group', launched') = 0
    BY <1>1, <2>1
  <2>4. QED
    BY <1>2, <1>4, <2>2, <2>3 DEF Unhurried
<1>10. CalmOK'
  <2>1. \A g \in 1..(group' - 1) : g \in 1..(group - 1) \/ g = group
    BY <1>1, <1>2, ProbesConstants
  <2>2. \A g \in 1..(group' - 1) : Launcher!Unhindered(need, g) => Launcher!Calm(need, g) \subseteq Ended
    BY <1>1, <1>8, <2>1 DEF ProbeInv, CalmOK
  <2>3. QED
    BY <1>1, <1>9, <2>2 DEF CalmOK, Ended
<1>11. QED
  BY <1>5, <1>6, <1>7, <1>10 DEF ProbeInv

LEMMA ProbesJobEnds ==
    ASSUME ProbeInv, NEW p \in DOMAIN jobs, Launcher!JobEnds(p)
    PROVE  ProbeInv'
<1>1. /\ ~(Launcher!Launching /\ Launcher!SlotFree)
      /\ \A q \in DOMAIN jobs : jobs[p].ends <= jobs[q].ends
      /\ clock' = jobs[p].ends /\ jobs' = Launcher!Restrict(jobs, DOMAIN jobs \ {p})
      /\ whole' \in {whole, whole \cup {p}} /\ (whole' # whole => jobs[p].ok)
      /\ Ended' = (IF jobs[p].ok THEN Ended \cup {p} ELSE Ended)
      /\ UNCHANGED <<step, group, launched, deadline, need, sections>>
  BY DEF Launcher!JobEnds, Ended
<1>2. DOMAIN jobs' = DOMAIN jobs \ {p} /\ \A q \in DOMAIN jobs' : jobs'[q] = jobs[q]
  BY <1>1 DEF Launcher!Restrict
<1>3. /\ step = "running" /\ group \in 1..Len(Groups) /\ launched \in 0..Len(Groups[group])
      /\ need \in Times
  BY DEF ProbeInv, PlanOK
<1>4. PlanOK'
  <2>1. jobs[p].ends \in Nat /\ jobs[p].ends <= deadline
    BY DEF ProbeInv, JobsOK
  <2>2. QED
    BY <1>1, <1>3, <2>1 DEF ProbeInv, PlanOK
<1>5. p \in Launcher!Probe /\ (jobs[p].ok => need[p] <= Cap[p]) /\ DOMAIN jobs \subseteq Launcher!Range(Groups[group])
  BY <1>3, GroupFinite DEF ProbeInv, JobsOK
<1>6. JobsOK'
  <2>1. IsFiniteSet(DOMAIN jobs)
    BY <1>3, <1>5, GroupFinite, FS_Subset
  <2>2. Cardinality(DOMAIN jobs') <= Cardinality(DOMAIN jobs) /\ IsFiniteSet(DOMAIN jobs')
    BY <1>2, <2>1, FS_Subset
  <2>3. Cardinality(DOMAIN jobs') <= Slots
    BY <2>1, <2>2, FS_CardinalityType, ProbesConstants DEF ProbeInv, JobsOK
  <2>4. QED
    BY <1>1, <1>2, <2>3 DEF ProbeInv, JobsOK
<1>7. WholeOK'
  BY <1>1, <1>3, <1>5 DEF ProbeInv, WholeOK
<1>8. ASSUME Launcher!Unhindered(need, group) PROVE Unhurried(need, group, launched)'
  <2> DEFINE n == launched
             T == Launcher!CalmTime(need, group, n)
             calm == Launcher!Calm(need, group)
  <2>1. Unhurried(need, group, n)
    BY <1>3, <1>8 DEF ProbeInv, CalmOK
  <2>2. Start' = Start /\ T \in Nat /\ Start \in Int
    <3>1. Budget[group] \in Nat /\ deadline \in Nat
      BY <1>3, ProbesConstants DEF ProbeInv, PlanOK
    <3>2. QED
      BY <1>1, <1>3, <3>1, CalmTimes DEF Start
  <2>3. n < Len(Groups[group]) => clock' <= Start + T
    <3> SUFFICES ASSUME n < Len(Groups[group]) PROVE clock' <= Start + T
      OBVIOUS
    <3>1. ~(Cardinality(DOMAIN jobs) < Slots)
      BY <1>1, <1>3, SameCardinality DEF Launcher!Launching, Launcher!SlotFree
    <3>2. PICK q \in DOMAIN jobs : q \in calm
      BY <1>3, <1>5, <1>8, <3>1, CalmRuns
    <3>3. jobs[q].ends <= Start + T /\ jobs[p].ends <= jobs[q].ends
      BY <1>1, <2>1, <3>2 DEF Unhurried
    <3>4. jobs[p].ends \in Nat /\ jobs[q].ends \in Nat
      BY <3>2 DEF ProbeInv, JobsOK
    <3>5. QED
      BY <1>1, <2>2, <3>3, <3>4
  <2>4. \A q \in DOMAIN jobs' \cap calm : jobs'[q].ok /\ jobs'[q].ends <= Start + T
    BY <1>2, <2>1 DEF Unhurried
  <2>5. \A i \in 1..n : Groups[group][i] \in calm => Groups[group][i] \in DOMAIN jobs' \cup Ended'
    <3>1. p \in calm => p \in Ended'
      BY <1>1, <2>1 DEF Unhurried
    <3>2. Ended \subseteq Ended'
      BY <1>1
    <3>3. QED
      BY <1>2, <2>1, <3>1, <3>2 DEF Unhurried
  <2>6. QED
    BY <1>1, <2>2, <2>3, <2>4, <2>5 DEF Unhurried
<1>9. CalmOK'
  <2>1. \A g \in 1..(group - 1) : Launcher!Unhindered(need, g) => Launcher!Calm(need, g) \subseteq Ended'
    BY <1>1, <1>3 DEF ProbeInv, CalmOK
  <2>2. QED
    BY <1>1, <1>8, <2>1 DEF CalmOK
<1>10. QED
  BY <1>4, <1>6, <1>7, <1>9 DEF ProbeInv

LEMMA ProbesRead ==
    ASSUME ProbeInv, NEW n \in 0..Launcher!Markers, Launcher!Read(n)
    PROVE  ProbeInv'
<1>1. /\ step = "running" /\ ~(launched < Len(Groups[group])) /\ jobs = <<>> /\ group = Len(Groups)
      /\ UNCHANGED <<group, launched, clock, deadline, need, jobs, whole, faulty>>
      /\ step' \in {"read", "truncated"}
      /\ step' = "read" => Launcher!SplitOutput(n).current = "end" /\ sections' = Launcher!SplitOutput(n).sections
  BY DEF Launcher!Read, Launcher!Launching
<1>2. launched = Len(Groups[group]) /\ DOMAIN jobs = {} /\ DOMAIN jobs' = {}
  BY <1>1, ProbesConstants DEF ProbeInv, PlanOK
<1>3. PlanOK'
  BY <1>1, <1>2 DEF ProbeInv, PlanOK
<1>4. JobsOK'
  BY <1>1 DEF ProbeInv, JobsOK
<1>5. WholeOK'
  <2>1. step' = "read" => sections' = whole
    BY <1>1, ReadToTheEnd DEF ProbeInv, WholeOK
  <2>2. QED
    BY <1>1, <2>1 DEF ProbeInv, WholeOK
<1>6. CalmOK'
  <2>1. Unhurried(need, group, launched) => Unhurried(need, group, launched)'
    BY <1>1 DEF Unhurried, Start, Ended
  <2>2. QED
    BY <1>1, <2>1 DEF ProbeInv, CalmOK, Ended
<1>7. QED
  BY <1>3, <1>4, <1>5, <1>6 DEF ProbeInv

\* When a probe with this allowance ends.
EndsAt(now, time, most, grace) == now + IF time <= most THEN time ELSE most + grace

LEMMA CalmInTime ==
    ASSUME NEW now \in Nat, NEW time \in Nat, NEW due \in Nat, NEW grace \in Nat, NEW budget \in Nat,
           NEW before \in Nat, NEW after \in Nat, NEW total \in Nat,
           now <= due - budget + before, after = before + time, after <= total, total <= budget - grace
    PROVE  now + time <= due - budget + after /\ now + time <= due - grace
  OBVIOUS

\* The next probe starts or is skipped.
LEMMA ProbesLaunch ==
    ASSUME ProbeInv, Launcher!Launch
    PROVE  ProbeInv'
<1> DEFINE p == Groups[group][launched + 1]
           left == Launcher!Remaining
           allowed == Launcher!Min({left, Cap[p]})
           end == IF need[p] <= allowed THEN need[p] ELSE allowed + Grace
           job == [ends |-> clock + end, ok |-> need[p] <= allowed]
<1>1. /\ step = "running" /\ launched < Len(Groups[group]) /\ Launcher!SlotFree
      /\ launched' = launched + 1
      /\ jobs' = IF left <= 0 THEN jobs
                 ELSE [q \in DOMAIN jobs \cup {p} |-> IF q = p THEN job ELSE jobs[q]]
      /\ UNCHANGED <<step, group, clock, deadline, need, whole, faulty, sections>>
  BY DEF Launcher!Launch, Launcher!Launching
<1>2. /\ group \in 1..Len(Groups) /\ launched \in 0..Len(Groups[group]) /\ need \in Times
      /\ clock \in Nat /\ deadline \in Nat /\ clock <= deadline /\ Budget[group] \in Nat
      /\ Len(Groups[group]) \in Nat
  BY <1>1, ProbesConstants DEF ProbeInv, PlanOK
<1>3. launched + 1 \in 1..Len(Groups[group]) /\ (launched + 1) - 1 = launched /\ launched' \in 0..Len(Groups[group])
  BY <1>1, <1>2
<1>4. p \in Launcher!Range(Groups[group]) /\ p \in Launcher!Probe
  BY <1>2, <1>3, GroupFinite
<1> HIDE DEF p
<1>5. /\ need[p] \in Nat /\ need[p] > 0 /\ Cap[p] \in Nat /\ Cap[p] > 0 /\ Grace \in Nat
      /\ left \in Int /\ left = deadline - clock - Grace
  <2>1. need[p] \in Nat \ {0}
    BY <1>2, <1>4 DEF Times
  <2>2. Cap[p] \in Nat /\ Cap[p] > 0 /\ Grace \in Nat
    BY <1>4, ProbesConstants
  <2>3. left = deadline - clock - Grace
    BY DEF Launcher!Remaining
  <2> HIDE DEF left
  <2>4. QED
    BY <1>2, <2>1, <2>2, <2>3
<1> HIDE DEF left
<1>6. allowed = (IF left <= Cap[p] THEN left ELSE Cap[p]) /\ allowed \in Int
  BY <1>5, SmallerOf
<1> HIDE DEF allowed
<1>7. job.ends = clock + end /\ job.ok = (need[p] <= allowed)
  OBVIOUS
<1>8. /\ need[p] <= allowed <=> need[p] <= Cap[p] /\ clock + need[p] <= deadline - Grace
      /\ left > 0 => job.ends \in Nat /\ job.ends <= deadline
  <2>1. job.ends = EndsAt(clock, need[p], allowed, Grace)
    BY <1>7 DEF EndsAt
  <2> HIDE DEF job, end
  <2>2. /\ need[p] <= allowed <=> need[p] <= Cap[p] /\ clock + need[p] <= deadline - Grace
        /\ left > 0 => EndsAt(clock, need[p], allowed, Grace) \in Nat
                       /\ EndsAt(clock, need[p], allowed, Grace) <= deadline
    <3>1. /\ clock \in Nat /\ deadline \in Nat /\ Grace \in Nat /\ Cap[p] \in Nat /\ need[p] \in Nat
          /\ allowed \in Int /\ left \in Int /\ left = deadline - clock - Grace
          /\ allowed = (IF left <= Cap[p] THEN left ELSE Cap[p]) /\ Cap[p] > 0
      BY <1>2, <1>5, <1>6
    <3>2. QED
      BY ONLY <3>1 DEF EndsAt
  <2>3. QED
    BY <2>1, <2>2
<1>9. need[p] <= allowed => job.ends = clock + need[p]
  BY <1>7
<1> HIDE DEF job
<1>10. left <= 0 => DOMAIN jobs' = DOMAIN jobs /\ jobs' = jobs
  BY <1>1
<1>11. left > 0 => /\ DOMAIN jobs' = DOMAIN jobs \cup {p} /\ jobs'[p] = job
                   /\ \A q \in DOMAIN jobs : q # p => jobs'[q] = jobs[q]
  BY <1>1, <1>5
<1>12. PlanOK'
  BY <1>1, <1>3 DEF ProbeInv, PlanOK
<1>13. JobsOK'
  <2>1. DOMAIN jobs \subseteq Launcher!Range(Groups[group]) /\ IsFiniteSet(DOMAIN jobs)
    BY <1>2, GroupFinite, FS_Subset DEF ProbeInv, JobsOK
  <2>2. Cardinality(DOMAIN jobs) \in Nat /\ Cardinality(DOMAIN jobs) < Slots
    BY <1>1, <2>1, FS_CardinalityType, SameCardinality DEF Launcher!SlotFree
  <2>3. Cardinality(DOMAIN jobs \cup {p}) <= Slots
    <3>1. Cardinality(DOMAIN jobs \cup {p}) \in {Cardinality(DOMAIN jobs), Cardinality(DOMAIN jobs) + 1}
      BY <2>1, FS_AddElement
    <3>2. QED
      BY <2>2, <3>1, ProbesConstants
  <2>4. CASE left <= 0
    BY <1>1, <1>10, <2>4 DEF ProbeInv, JobsOK
  <2>5. CASE left > 0
    <3>1. jobs'[p].ends \in Nat /\ jobs'[p].ends <= deadline /\ (jobs'[p].ok => need[p] <= Cap[p])
      BY <1>7, <1>8, <1>11, <2>5
    <3>2. \A q \in DOMAIN jobs' : jobs'[q].ends \in Nat /\ jobs'[q].ends <= deadline /\ (jobs'[q].ok => need[q] <= Cap[q])
      BY <1>11, <2>5, <3>1 DEF ProbeInv, JobsOK
    <3>3. DOMAIN jobs' \subseteq Launcher!Range(Groups[group]) /\ Cardinality(DOMAIN jobs') <= Slots
      BY <1>4, <1>11, <2>1, <2>3, <2>5
    <3>4. QED
      BY <1>1, <3>2, <3>3 DEF JobsOK
  <2>6. QED
    BY <1>5, <2>4, <2>5
<1>14. WholeOK'
  BY <1>1 DEF ProbeInv, WholeOK
<1>15. ASSUME Launcher!Unhindered(need, group) PROVE Unhurried(need, group, launched)'
  <2> DEFINE T(i) == Launcher!CalmTime(need, group, i)
             calm == Launcher!Calm(need, group)
             n == launched + 1
  <2>1. Unhurried(need, group, launched)
    BY <1>1, <1>15 DEF ProbeInv, CalmOK
  <2>2. /\ T(launched) \in Nat /\ T(n) \in Nat /\ T(Len(Groups[group])) \in Nat /\ Start \in Int /\ Start' = Start
        /\ T(n) = T(launched) + IF p \in calm THEN need[p] ELSE 0
        /\ T(n) <= T(Len(Groups[group])) /\ T(Len(Groups[group])) <= Budget[group] - Grace
    <3>1. T(n) = T(launched) + IF Groups[group][n] \in calm THEN need[Groups[group][n]] ELSE 0
      BY <1>2, <1>3, CalmTimes
    <3>2. T(launched) \in Nat /\ T(n) \in Nat /\ T(Len(Groups[group])) \in Nat
      BY <1>2, <1>3, CalmTimes
    <3>3. T(n) <= T(Len(Groups[group]))
      BY <1>2, <1>3, CalmTimeGrows
    <3>4. T(Len(Groups[group])) <= Budget[group] - Grace
      BY <1>15 DEF Launcher!Unhindered
    <3>5. Start \in Int /\ Start' = Start
      BY <1>1, <1>2 DEF Start
    <3> HIDE DEF T, calm
    <3>6. QED
      BY <3>1, <3>2, <3>3, <3>4, <3>5 DEF p
  <2>3. clock <= Start + T(launched)
    BY <1>1, <2>1 DEF Unhurried
  <2> HIDE DEF T
  <2>4. T(launched) <= T(n)
    BY <1>5, <2>2
  <2>5. clock <= Start + T(n)
    BY <1>2, <2>2, <2>3, <2>4
  <2>6. ASSUME p \in calm PROVE left > 0 /\ job.ok /\ job.ends <= Start + T(n)
    <3>1. need[p] <= Cap[p]
      BY <1>2, <2>6, CalmFits
    <3>2. clock + need[p] <= Start + T(n) /\ clock + need[p] <= deadline - Grace
      <4>1. T(n) = T(launched) + need[p] /\ Start = deadline - Budget[group]
        BY <2>2, <2>6 DEF Start
      <4>2. clock <= deadline - Budget[group] + T(launched)
        BY <2>3, <4>1
      <4> HIDE DEF n, calm, Start
      <4>3. clock + need[p] <= deadline - Budget[group] + T(n) /\ clock + need[p] <= deadline - Grace
        BY <1>2, <1>5, <2>2, <4>1, <4>2, CalmInTime
      <4>4. QED
        BY <4>1, <4>3
    <3>3. need[p] <= allowed
      BY <1>8, <3>1, <3>2
    <3>4. left > 0
      BY <1>2, <1>5, <3>2
    <3>5. QED
      BY <1>7, <1>9, <3>2, <3>3, <3>4
  <2>7. \A q \in DOMAIN jobs \cap calm : jobs[q].ok /\ jobs[q].ends <= Start + T(n)
    <3>1. \A q \in DOMAIN jobs \cap calm : jobs[q].ok /\ jobs[q].ends <= Start + T(launched) /\ jobs[q].ends \in Nat
      BY <2>1 DEF Unhurried, T, ProbeInv, JobsOK
    <3>2. QED
      BY <2>2, <2>4, <3>1
  <2>8. \A q \in DOMAIN jobs' \cap calm : jobs'[q].ok /\ jobs'[q].ends <= Start + T(n)
    <3>1. CASE left <= 0
      BY <1>10, <2>7, <3>1
    <3>2. CASE left > 0
      BY <1>11, <2>6, <2>7, <3>2
    <3>3. QED
      BY <1>5, <3>1, <3>2
  <2>9. \A i \in 1..n : Groups[group][i] \in calm => Groups[group][i] \in DOMAIN jobs' \cup Ended
    <3>1. DOMAIN jobs \subseteq DOMAIN jobs'
      BY <1>5, <1>10, <1>11
    <3>2. p \in calm => p \in DOMAIN jobs'
      BY <1>11, <2>6
    <3>3. \A i \in 1..n : i \in 1..launched \/ i = n
      BY <1>2, <1>3
    <3>4. \A i \in 1..launched : Groups[group][i] \in calm => Groups[group][i] \in DOMAIN jobs \cup Ended
      BY <2>1 DEF Unhurried
    <3>5. QED
      BY <3>1, <3>2, <3>3, <3>4 DEF p
  <2>10. QED
    BY <1>1, <2>2, <2>5, <2>8, <2>9 DEF Unhurried, T, Ended
<1>16. CalmOK'
  <2>1. \A g \in 1..(group - 1) : Launcher!Unhindered(need, g) => Launcher!Calm(need, g) \subseteq Ended
    BY <1>1 DEF ProbeInv, CalmOK
  <2>2. QED
    BY <1>1, <1>15, <2>1 DEF CalmOK, Ended
<1>17. QED
  BY <1>12, <1>13, <1>14, <1>16 DEF ProbeInv

LEMMA ProbesAlways == SnapshotSpec => []ProbeInv
<1>1. SnapshotInit => ProbeInv
  <2> SUFFICES ASSUME Launcher!Init PROVE ProbeInv
    BY DEF SnapshotInit
  <2>1. /\ step = "idle" /\ group = 1 /\ launched = 0 /\ clock = 0 /\ deadline = Budget[1]
        /\ DOMAIN jobs = {} /\ whole = {}
    BY DEF Launcher!Init
  <2>2. /\ 1 \in 1..Len(Groups) /\ Budget[1] \in Nat /\ 0 \in 0..Len(Groups[1])
        /\ Launcher!Allowance[1] = Budget[1]
    <3>1. 1 \in 1..Len(Groups) /\ Budget[1] \in Nat /\ 0 \in 0..Len(Groups[1]) /\ 1 - 1 = 0
      BY ProbesConstants
    <3>2. Launcher!Allowance[1] = Launcher!Allowance[1 - 1] + Budget[1]
      BY <3>1, Allowances
    <3>3. QED
      BY <3>1, <3>2, Allowances
  <2>3. PlanOK
    BY <2>1, <2>2 DEF PlanOK
  <2>4. JobsOK /\ WholeOK /\ CalmOK
    BY <2>1, FS_EmptySet, ProbesConstants DEF JobsOK, WholeOK, CalmOK
  <2>5. QED
    BY <2>3, <2>4 DEF ProbeInv
<1>2. ProbeInv /\ [SnapshotNext]_<<vars, probing, metering, hanging>> => ProbeInv'
  <2>1. ProbeInv /\ UNCHANGED probing => ProbeInv'
    BY DEF probing, ProbeInv, PlanOK, JobsOK, WholeOK, CalmOK, Unhurried, Start, Ended
  <2>2. [SnapshotNext]_<<vars, probing, metering, hanging>> => Launcher!Next \/ UNCHANGED probing
    BY DEF SnapshotNext
  <2>3. ProbeInv /\ Launcher!Next => ProbeInv'
    BY ProbesBegin, ProbesLaunch, ProbesNextGroup, ProbesJobEnds, ProbesRead DEF Launcher!Next
  <2>4. QED
    BY <2>1, <2>2, <2>3
<1>3. QED
  BY <1>1, <1>2, PTL DEF SnapshotSpec

\* However many groups, probes and slots there are and however long probes take,
\* a group ends within its budget, and exactly the probes that ended by
\* themselves with status 0 are read: of a group that nothing hinders, all that
\* would end and would not fail (collect.py:240, 225).
THEOREM ProbesInTime == SnapshotSpec => []WholeInTime
<1>1. ProbeInv => Launcher!Bounded
  BY SameCardinality DEF ProbeInv, PlanOK, JobsOK, Launcher!Bounded
<1>2. ProbeInv => Launcher!OnlyWhole
  <2> SUFFICES ASSUME ProbeInv, step = "read" PROVE Launcher!OnlyWhole
    BY DEF Launcher!OnlyWhole
  <2>1. /\ sections = whole /\ \A p \in whole : need[p] <= Cap[p]
        /\ group = Len(Groups) /\ launched = Len(Groups[group]) /\ need \in Times /\ DOMAIN jobs = {}
    BY DEF ProbeInv, PlanOK, WholeOK
  <2>2. ASSUME Launcher!Unhindered(need, group) PROVE Launcher!Calm(need, group) \subseteq Ended
    <3>1. Unhurried(need, group, Len(Groups[group]))
      BY <2>1, <2>2 DEF ProbeInv, CalmOK
    <3>2. \A p \in Launcher!Calm(need, group) : \E i \in 1..Len(Groups[group]) : Groups[group][i] = p
      BY <2>1, CalmFits, ProbesConstants
    <3>3. QED
      BY <2>1, <3>1, <3>2 DEF Unhurried
  <2>3. \A g \in 1..Len(Groups) : g = group \/ g \in 1..(group - 1)
    BY <2>1, ProbesConstants
  <2>4. \A g \in 1..(group - 1) : Launcher!Unhindered(need, g) => Launcher!Calm(need, g) \subseteq Ended
    BY DEF ProbeInv, CalmOK
  <2>5. QED
    BY <2>1, <2>2, <2>3, <2>4, ProbesConstants DEF Launcher!OnlyWhole, Ended
<1>3. QED
  BY <1>1, <1>2, ProbesAlways, PTL DEF WholeInTime

-----------------------------------------------------------------------------
(* Pictures                                                                *)

\* Containers, in docker's order.
Containers == [service : Listed, kind : PictureKind]
Ranked(m) == m \in Seq(Containers)

\* What compose files can say.
Parsable(read) == read.order \in Seq(Listed) /\ read.icons \subseteq {read.order[k] : k \in DOMAIN read.order}

LEMMA WallConstants ==
    /\ None \notin {"url", "blank", "file"}
    /\ None \notin [of : Listed, from : {"file", "url", "label"}]
    /\ \A k \in PictureKind : k.cached \in BOOLEAN
    /\ \A f \in File : f \in Seq(Wall!Entry)
  BY SnapshotAssumption DEF Wall!PicturesAssumption, Wall!Picture, Wall!Url, Wall!Blank

LEMMA LeastOf ==
    ASSUME NEW T \in SUBSET Nat, T # {}
    PROVE  Wall!Min(T) \in T /\ \A k \in T : Wall!Min(T) <= k
<1>1. \E m \in T : \A k \in T : m <= k
  BY LeastElement
<1>2. QED
  BY <1>1 DEF Wall!Min

Pictured(m, at) == {i \in at : Wall!SelectIcon(m[i].kind) # None}

\* The first picture is that of the first container that has one.
LEMMA FirstPicture ==
    ASSUME NEW m, Ranked(m), NEW at \in SUBSET DOMAIN m
    PROVE  /\ Pictured(m, at) = {} => Wall!FirstOf(m, at) = None
           /\ Pictured(m, at) # {} =>
                 /\ Wall!FirstOf(m, at) # None
                 /\ \E i \in Pictured(m, at) :
                       /\ \A j \in Pictured(m, at) : i <= j
                       /\ Wall!FirstOf(m, at) = [of |-> m[i].service, from |-> Wall!SelectIcon(m[i].kind)]
<1> DEFINE pictured == Pictured(m, at)
           first == m[Wall!Min(pictured)]
<1>1. Wall!FirstOf(m, at) = IF pictured = {} THEN None
                            ELSE [of |-> first.service, from |-> Wall!SelectIcon(first.kind)]
  BY Zenon DEF Wall!FirstOf, Pictured
<1>2. ASSUME pictured # {}
      PROVE  /\ Wall!FirstOf(m, at) # None
             /\ \E i \in pictured :
                   /\ \A j \in pictured : i <= j
                   /\ Wall!FirstOf(m, at) = [of |-> m[i].service, from |-> Wall!SelectIcon(m[i].kind)]
  <2>1. at \subseteq Nat /\ \A i \in at : m[i] \in Containers
    BY DEF Ranked
  <2>2. pictured \subseteq at
    BY DEF Pictured
  <2>3. PICK i \in pictured : i = Wall!Min(pictured) /\ \A j \in pictured : i <= j
    BY <1>2, <2>1, <2>2, LeastOf
  <2>4. Wall!FirstOf(m, at) = [of |-> m[i].service, from |-> Wall!SelectIcon(m[i].kind)]
    BY <1>1, <1>2, <2>3
  <2>5. m[i].service \in Listed /\ Wall!SelectIcon(m[i].kind) \in {"file", "url"}
    <3>1. m[i] \in Containers /\ Wall!SelectIcon(m[i].kind) # None
      BY <2>1, <2>2 DEF Pictured
    <3>2. m[i].service \in Listed /\ m[i].kind \in PictureKind
      BY <3>1 DEF Containers
    <3>3. m[i].kind.cached \in BOOLEAN
      BY <3>2, WallConstants
    <3>4. QED
      BY <3>1, <3>2, <3>3 DEF Wall!SelectIcon, Wall!Url
  <2>6. Wall!FirstOf(m, at) \in [of : Listed, from : {"file", "url", "label"}]
    BY <2>4, <2>5
  <2>7. QED
    BY <2>3, <2>4, <2>6, WallConstants
<1>3. QED
  BY <1>1, <1>2

OfService(m, s) == {i \in DOMAIN m : m[i].service = s}

\* The picture of a service is its own, and depends on its containers alone.
LEMMA PictureOfService ==
    ASSUME NEW m, Ranked(m), NEW read, NEW s \in Listed
    PROVE  /\ Wall!ServicePicture(m, read, s) # None => Wall!ServicePicture(m, read, s).of = s
           /\ s \in read.icons => Wall!ServicePicture(m, read, s) # None
           /\ \A i \in DOMAIN m : m[i].service = s /\ Wall!SelectIcon(m[i].kind) # None
                 => Wall!ServicePicture(m, read, s) # None
<1> DEFINE at == OfService(m, s)
           own == Wall!FirstOf(m, at)
           label == [of |-> s, from |-> "label"]
<1>1. Wall!ServicePicture(m, read, s) = IF own = None /\ s \in read.icons THEN label ELSE own
  BY Zenon DEF Wall!ServicePicture, OfService
<1>2. at \subseteq DOMAIN m /\ \A i \in Pictured(m, at) : m[i].service = s
  BY DEF OfService, Pictured
<1>3. label.of = s /\ label # None
  <2>1. label \in [of : Listed, from : {"file", "url", "label"}]
    OBVIOUS
  <2>2. QED
    BY <2>1, WallConstants
<1> HIDE DEF at, label
<1>4. own # None => Pictured(m, at) # {} /\ own.of = s
  <2> HIDE DEF own
  <2>1. /\ Pictured(m, at) = {} => own = None
        /\ Pictured(m, at) # {} => \E i \in Pictured(m, at) : own = [of |-> m[i].service, from |-> Wall!SelectIcon(m[i].kind)]
    BY <1>2, FirstPicture DEF own
  <2>2. QED
    BY <1>2, <2>1
<1>5. ASSUME NEW i \in DOMAIN m, m[i].service = s, Wall!SelectIcon(m[i].kind) # None PROVE own # None
  <2>1. i \in Pictured(m, at)
    BY <1>5 DEF at, OfService, Pictured
  <2>2. QED
    BY <1>2, <2>1, FirstPicture
<1> HIDE DEF own
<1>6. QED
  BY <1>1, <1>3, <1>4, <1>5

\* The same containers of a service, in the same order.
Carries(m, n, s, to) ==
    /\ to \in [OfService(m, s) -> OfService(n, s)]
    /\ \A i \in OfService(m, s) : n[to[i]] = m[i]
    /\ \A i, j \in OfService(m, s) : i < j => to[i] < to[j]
    /\ \A k \in OfService(n, s) : \E i \in OfService(m, s) : to[i] = k

LEMMA FirstOfService ==
    ASSUME NEW m, Ranked(m), NEW s
    PROVE  /\ OfService(m, s) \subseteq Nat
           /\ Pictured(m, OfService(m, s)) = {} => Wall!FirstOf(m, OfService(m, s)) = None
           /\ Pictured(m, OfService(m, s)) # {} =>
                 \E i \in Pictured(m, OfService(m, s)) :
                    /\ \A j \in Pictured(m, OfService(m, s)) : i <= j
                    /\ Wall!FirstOf(m, OfService(m, s))
                          = [of |-> m[i].service, from |-> Wall!SelectIcon(m[i].kind)]
<1>1. PICK at \in SUBSET DOMAIN m : at = OfService(m, s)
  BY DEF OfService
<1>2. at \subseteq Nat
  BY DEF Ranked
<1>3. QED
  BY <1>1, <1>2, FirstPicture

\* So it is the same as long as they are.
LEMMA PictureStays ==
    ASSUME NEW m, Ranked(m), NEW n, Ranked(n), NEW read, NEW s \in Listed,
           NEW to, Carries(m, n, s, to)
    PROVE  Wall!ServicePicture(m, read, s) = Wall!ServicePicture(n, read, s)
<1> DEFINE P(x) == Pictured(x, OfService(x, s))
           F(x) == Wall!FirstOf(x, OfService(x, s))
           V(x, i) == [of |-> x[i].service, from |-> Wall!SelectIcon(x[i].kind)]
<1>1. \A i \in OfService(m, s) : to[i] \in OfService(n, s) /\ n[to[i]] = m[i]
  BY DEF Carries
<1>2. \A i \in OfService(m, s) : (i \in P(m) <=> to[i] \in P(n)) /\ V(n, to[i]) = V(m, i)
  BY <1>1 DEF Pictured
<1>3. P(m) \subseteq OfService(m, s) /\ P(n) \subseteq OfService(n, s)
  BY DEF Pictured
<1>4. /\ P(m) = {} => F(m) = None
      /\ P(m) # {} => \E i \in P(m) : (\A j \in P(m) : i <= j) /\ F(m) = V(m, i)
  BY FirstOfService
<1>5. /\ P(n) = {} => F(n) = None
      /\ P(n) # {} => \E i \in P(n) : (\A j \in P(n) : i <= j) /\ F(n) = V(n, i)
  BY FirstOfService
<1>6. OfService(m, s) \subseteq Nat /\ OfService(n, s) \subseteq Nat
  BY FirstOfService
<1>7. \A k \in P(n) : \E i \in P(m) : to[i] = k
  <2> SUFFICES ASSUME NEW k \in P(n) PROVE \E i \in P(m) : to[i] = k
    OBVIOUS
  <2>1. PICK i \in OfService(m, s) : to[i] = k
    BY <1>3 DEF Carries
  <2>2. QED
    BY <1>2, <2>1
<1> HIDE DEF P, F, V
<1>8. F(m) = F(n)
  <2>1. CASE P(m) = {}
    BY <1>4, <1>5, <1>7, <2>1
  <2>2. CASE P(m) # {}
    <3>1. PICK i \in P(m) : (\A j \in P(m) : i <= j) /\ F(m) = V(m, i)
      BY <1>4, <2>2
    <3>2. to[i] \in P(n) /\ V(n, to[i]) = V(m, i)
      BY <1>2, <1>3, <3>1
    <3>3. PICK h \in P(n) : (\A j \in P(n) : h <= j) /\ F(n) = V(n, h)
      BY <1>5, <3>2
    <3>4. PICK j \in P(m) : to[j] = h
      BY <1>7
    <3>5. i <= j /\ h <= to[i]
      BY <3>1, <3>2, <3>3
    <3>6. i < j => to[i] < h
      BY <1>3, <3>4 DEF Carries
    <3>7. i \in Nat /\ j \in Nat /\ h \in Nat /\ to[i] \in Nat
      BY <1>3, <1>6, <3>2
    <3>8. i = j
      BY <3>5, <3>6, <3>7
    <3>9. QED
      BY <3>1, <3>2, <3>3, <3>4, <3>8
  <2>3. QED
    BY <2>1, <2>2
<1>9. \A x : Wall!ServicePicture(x, read, s)
                = IF F(x) = None /\ s \in read.icons THEN [of |-> s, from |-> "label"] ELSE F(x)
  BY Zenon DEF Wall!ServicePicture, OfService, F
<1>10. QED
  BY <1>8, <1>9

-----------------------------------------------------------------------------
\* The services in this order.
Ordered(q) == {q[k] : k \in DOMAIN q}

LEMMA Appending ==
    ASSUME NEW q \in Seq(Listed), NEW s \in Listed
    PROVE  Append(q, s) \in Seq(Listed) /\ Ordered(Append(q, s)) = Ordered(q) \cup {s}
<1>1. /\ Len(q) \in Nat /\ DOMAIN q = 1..Len(q) /\ DOMAIN Append(q, s) = 1..(Len(q) + 1)
      /\ \A k \in 1..Len(q) : Append(q, s)[k] = q[k]
      /\ Append(q, s)[Len(q) + 1] = s
  OBVIOUS
<1>2. 1..(Len(q) + 1) = 1..Len(q) \cup {Len(q) + 1}
  BY <1>1
<1>3. QED
  BY <1>1, <1>2 DEF Ordered

\* One more entry of the override: its service, unless the main file has it.
Listing(main, entry, q) == IF entry.service \in Wall!Named(main) THEN q ELSE Append(q, entry.service)

LEMMA EntriesFit ==
    ASSUME NEW f \in Seq(Wall!Entry)
    PROVE  \A i \in 1..Len(f) : f[i].service \in Listed
<1>1. \A i \in 1..Len(f) : f[i] \in Wall!Entry
  OBVIOUS
<1>2. \A e \in Wall!Entry : e.service \in Listed
  BY DEF Wall!Entry
<1>3. QED
  BY <1>1, <1>2

LEMMA OrderExists ==
    ASSUME NEW main \in File, NEW override \in Seq(Wall!Entry), NEW base \in Seq(Listed)
    PROVE  \E u : /\ u \in [0..Len(override) -> Seq(Listed)] /\ u[0] = base
                  /\ \A i \in 1..Len(override) : u[i] = Listing(main, override[i], u[i - 1])
<1> DEFINE L == Len(override)
           next == [i \in 1..L |-> [q \in Seq(Listed) |-> Listing(main, override[i], q)]]
<1>1. \A i \in 1..L : override[i].service \in Listed
  BY EntriesFit
<1>2. next \in StepsOver(L, Seq(Listed))
  <2>1. \A i \in 1..L, q \in Seq(Listed) : Listing(main, override[i], q) \in Seq(Listed)
    BY <1>1, Appending DEF Listing
  <2>2. QED
    BY <2>1 DEF StepsOver
<1>3. \A i \in 1..L, q \in Seq(Listed) : next[i][q] = Listing(main, override[i], q)
  OBVIOUS
<1>4. L \in Nat /\ \A i \in 1..L : i - 1 \in 0..L
  OBVIOUS
<1> HIDE DEF next, L
<1>5. PICK f : Recurs(f, L, Seq(Listed), base, next)
  BY <1>2, <1>4, RecursionExists
<1>6. f \in [0..L -> Seq(Listed)] /\ f[0] = base /\ \A i \in 1..L : f[i] = Listing(main, override[i], f[i - 1])
  BY <1>3, <1>4, <1>5 DEF Recurs
<1>7. QED
  BY <1>6 DEF L

\* The order names every service of both files.
LEMMA OrderFits ==
    ASSUME NEW main \in File, NEW override \in File
    PROVE  /\ Wall!Order(main, override) \in Seq(Listed)
           /\ Wall!Named(main) \cup Wall!Named(override) \subseteq Ordered(Wall!Order(main, override))
<1> DEFINE L == Len(override)
           base == [j \in 1..Len(main) |-> main[j].service]
           Is(u) == u = [i \in 0..L |->
                           IF i = 0 THEN [j \in 1..Len(main) |-> main[j].service]
                           ELSE IF override[i].service \in Wall!Named(main) THEN u[i - 1]
                           ELSE Append(u[i - 1], override[i].service)]
<1>1. main \in Seq(Wall!Entry) /\ override \in Seq(Wall!Entry)
  BY WallConstants
<1>2. /\ \A j \in 1..Len(main) : main[j].service \in Listed
      /\ \A i \in 1..L : override[i].service \in Listed
  BY <1>1, EntriesFit
<1>3. base \in Seq(Listed) /\ Ordered(base) = Wall!Named(main)
  <2>1. Len(main) \in Nat /\ DOMAIN main = 1..Len(main)
    BY <1>1
  <2>2. base \in [1..Len(main) -> Listed]
    BY <1>2
  <2>3. base \in Seq(Listed)
    BY <2>1, <2>2
  <2>4. QED
    BY <2>1, <2>3 DEF Ordered, Wall!Named
<1>4. PICK f : /\ f \in [0..L -> Seq(Listed)] /\ f[0] = base
               /\ \A i \in 1..L : f[i] = Listing(main, override[i], f[i - 1])
  <2> HIDE DEF base
  <2>1. QED
    BY <1>1, <1>3, OrderExists
<1>5. Is(f)
  <2>1. L \in Nat /\ \A i \in 0..L : i # 0 => i \in 1..L
    BY <1>1
  <2> HIDE DEF L
  <2>2. QED
    BY <1>4, <2>1 DEF Listing
<1>6. Wall!Order(main, override) = (CHOOSE u : Is(u))[L]
  BY Zenon DEF Wall!Order
<1> DEFINE u == CHOOSE u : Is(u)
<1>7. Is(u)
  BY <1>5
<1>8. u[0] = base /\ \A i \in 1..L : u[i] = Listing(main, override[i], u[i - 1])
  <2> HIDE DEF u
  <2>1. L \in Nat /\ 0 \in 0..L /\ \A i \in 1..L : i \in 0..L /\ i # 0
    BY <1>1
  <2> HIDE DEF L
  <2>2. QED
    BY <1>7, <2>1 DEF Listing
<1> HIDE DEF u, base, Is
<1> DEFINE S == {n \in 0..L : /\ u[n] \in Seq(Listed) /\ Wall!Named(main) \subseteq Ordered(u[n])
                              /\ \A i \in 1..n : override[i].service \in Ordered(u[n])}
<1>9. L \in Nat
  BY <1>1
<1>10. 0..L \subseteq S
  <2>1. 0 \in S
    BY <1>3, <1>8, <1>9
  <2>2. ASSUME NEW n \in 0..(L - 1), n \in S PROVE n + 1 \in S
    <3> HIDE DEF L
    <3>1. n \in Nat /\ n + 1 \in 1..L /\ n + 1 \in 0..L /\ (n + 1) - 1 = n
      BY <1>9
    <3>2. u[n + 1] = Listing(main, override[n + 1], u[n])
      BY <1>8, <3>1
    <3>3. PICK s \in Listed : s = override[n + 1].service
      BY <1>2, <3>1
    <3>4. PICK q \in Seq(Listed) : q = u[n]
      BY <2>2
    <3>5. Append(q, s) \in Seq(Listed) /\ Ordered(Append(q, s)) = Ordered(q) \cup {s}
      BY Appending
    <3>6. Wall!Named(main) \subseteq Ordered(q) /\ \A i \in 1..n : override[i].service \in Ordered(q)
      BY <2>2, <3>4
    <3>7. /\ u[n + 1] \in Seq(Listed) /\ Ordered(q) \subseteq Ordered(u[n + 1])
          /\ s \in Ordered(u[n + 1])
      BY <3>2, <3>3, <3>4, <3>5, <3>6 DEF Listing
    <3>8. \A i \in 1..(n + 1) : i \in 1..n \/ i = n + 1
      BY <3>1
    <3>9. \A i \in 1..(n + 1) : override[i].service \in Ordered(u[n + 1])
      BY <3>3, <3>6, <3>7, <3>8
    <3>10. QED
      BY <3>1, <3>6, <3>7, <3>9
  <2> HIDE DEF S, L
  <2>3. QED
    BY <1>9, <2>1, <2>2, BoundedInduction
<1>11. L \in S
  <2> HIDE DEF S, L
  <2>1. QED
    BY <1>9, <1>10
<1>12. /\ u[L] \in Seq(Listed) /\ Wall!Named(main) \subseteq Ordered(u[L])
       /\ \A i \in 1..L : override[i].service \in Ordered(u[L])
  BY <1>11
<1>13. Wall!Named(override) \subseteq Ordered(u[L])
  BY <1>1, <1>12 DEF Wall!Named
<1>14. QED
  BY <1>6, <1>12, <1>13 DEF u

LEMMA ParsedFits ==
    ASSUME NEW main \in File, NEW override \in File
    PROVE  Parsable(Wall!Parsed(main, override))
<1> DEFINE read == Wall!Parsed(main, override)
<1>1. /\ read.order = Wall!Order(main, override)
      /\ read.icons \subseteq Wall!Named(main) \cup Wall!Named(override)
  BY DEF Wall!Parsed
<1> HIDE DEF read
<1>2. read.order \in Seq(Listed) /\ read.icons \subseteq Ordered(read.order)
  BY <1>1, OrderFits
<1>3. QED
  BY <1>2 DEF Parsable, Ordered, read

\* A container is removed.
LEMMA Removing ==
    ASSUME NEW m, Ranked(m), NEW i \in DOMAIN m
    PROVE  Ranked(Wall!RemoveAt(m, i))
<1>1. Wall!RemoveAt(m, i) = SubSeq(m, 1, i - 1) \o SubSeq(m, i + 1, Len(m))
  BY DEF Wall!RemoveAt
<1>2. m \in Seq(Containers) /\ Len(m) \in Nat /\ i \in 1..Len(m)
  BY DEF Ranked
<1>3. SubSeq(m, 1, i - 1) \in Seq(Containers) /\ SubSeq(m, i + 1, Len(m)) \in Seq(Containers)
  BY <1>2
<1>4. QED
  BY <1>1, <1>3 DEF Ranked

\* One is created.
LEMMA Prepending ==
    ASSUME NEW m, Ranked(m), NEW c \in Containers
    PROVE  Ranked(<<c>> \o m)
  BY DEF Ranked

Showing(m, read) == {k \in DOMAIN read.order : Wall!ServicePicture(m, read, read.order[k]) # None}

LEMMA FirstListed ==
    ASSUME NEW m, NEW read, Parsable(read)
    PROVE  /\ Showing(m, read) = {} => Wall!ListedPicture(m, read) = None
           /\ Showing(m, read) # {} =>
                 \E k \in Showing(m, read) :
                    /\ \A j \in Showing(m, read) : k <= j
                    /\ Wall!ListedPicture(m, read) = Wall!ServicePicture(m, read, read.order[k])
<1> DEFINE T == Showing(m, read)
<1>1. Wall!ListedPicture(m, read)
        = IF T = {} THEN None ELSE Wall!ServicePicture(m, read, read.order[Wall!Min(T)])
  BY Zenon DEF Wall!ListedPicture, Showing
<1>2. T \in SUBSET Nat
  BY DEF Showing, Parsable
<1> HIDE DEF T
<1>3. ASSUME T # {} PROVE \E k \in T : k = Wall!Min(T) /\ \A j \in T : k <= j
  BY <1>2, <1>3, LeastOf
<1>4. ASSUME T # {}
      PROVE  \E k \in T : /\ \A j \in T : k <= j
                          /\ Wall!ListedPicture(m, read) = Wall!ServicePicture(m, read, read.order[k])
  BY <1>1, <1>3, <1>4
<1>5. QED
  BY <1>1, <1>4 DEF T

\* The containers a poll without this can join to the stack.
Joinable(unread, m) == IF "compose" \in unread /\ ~OwnName THEN <<>> ELSE m

\* What holds between any two polls.
WallInv ==
    /\ Ranked(listing)
    /\ services = None \/ Parsable(services)
    /\ Wall!Folded(missing) => picture = Wall!SelectStackIcon(Joinable(missing, listing), services)

LEMMA Relisting == WallInv /\ Wall!Relisted => Ranked(listing')
<1> SUFFICES ASSUME WallInv, Wall!Relisted PROVE Ranked(listing')
  OBVIOUS
<1>1. Ranked(listing)
  BY DEF WallInv
<1>2. CASE listing' = listing
  BY <1>1, <1>2
<1>3. CASE \E i \in DOMAIN listing : listing' = Wall!RemoveAt(listing, i)
  BY <1>1, <1>3, Removing
<1>4. ASSUME NEW i \in DOMAIN listing, NEW k \in PictureKind,
             listing' = <<[service |-> listing[i].service, kind |-> k]>> \o Wall!RemoveAt(listing, i)
      PROVE  Ranked(listing')
  <2> DEFINE c == [service |-> listing[i].service, kind |-> k]
  <2>1. listing[i].service \in Listed
    <3>1. listing[i] \in Containers
      BY <1>1 DEF Ranked
    <3>2. QED
      BY <3>1 DEF Containers
  <2>2. c \in Containers
    BY <2>1 DEF Containers
  <2> HIDE DEF c
  <2>3. PICK m : m = Wall!RemoveAt(listing, i)
    OBVIOUS
  <2>4. Ranked(<<c>> \o m)
    BY <1>1, <2>2, <2>3, Removing, Prepending
  <2>5. QED
    BY <1>4, <2>3, <2>4 DEF c
<1>5. ASSUME NEW s \in Listed, NEW k \in PictureKind,
             listing' = <<[service |-> s, kind |-> k]>> \o listing
      PROVE  Ranked(listing')
  <2> DEFINE c == [service |-> s, kind |-> k]
  <2>1. c \in Containers
    BY DEF Containers
  <2> HIDE DEF c
  <2>2. Ranked(<<c>> \o listing)
    BY <1>1, <2>1, Prepending
  <2>3. QED
    BY <1>5, <2>2 DEF c
<1>6. QED
  BY <1>2, <1>3, <1>4, <1>5 DEF Wall!Relisted

LEMMA WallPolls == WallInv /\ Wall!Next => WallInv'
<1> SUFFICES ASSUME WallInv, Wall!Next PROVE WallInv'
  OBVIOUS
<1>1. Wall!Poll /\ Wall!Scheduled
  BY DEF Wall!Next
<1>2. Ranked(listing')
  BY <1>1, Relisting DEF Wall!Poll, WallInv
<1>3. services' = None \/ Parsable(services')
  <2>1. CASE services' = services
    BY <2>1 DEF WallInv
  <2>2. CASE Wall!Reread
    BY <2>2, ParsedFits DEF Wall!Reread
  <2>3. QED
    BY <1>1, <2>1, <2>2 DEF Wall!Poll
<1>4. ASSUME missing' \cap {"docker", "stacks"} = {}
      PROVE  picture' = Wall!SelectStackIcon(Joinable(missing', listing'), services')
  <2>1. /\ "docker" \notin missing'
        /\ missing' \cap {"docker", "stacks"} # {"stacks"}
    BY <1>4
  <2>2. picture' = Wall!SelectStackIcon(Wall!Members, services')
    BY <1>1, <2>1 DEF Wall!Scheduled
  <2>3. Wall!Members = Joinable(missing', listing')
    BY DEF Wall!Members, Joinable
  <2>4. QED
    BY <2>2, <2>3
<1>5. QED
  BY <1>2, <1>3, <1>4 DEF WallInv, Wall!Folded

LEMMA WallAlways == SnapshotSpec => []WallInv
<1>1. SnapshotInit => WallInv
  <2> SUFFICES ASSUME Wall!Init PROVE WallInv
    BY DEF SnapshotInit
  <2>1. Ranked(<<>>)
    BY DEF Ranked
  <2>2. QED
    BY <2>1 DEF Wall!Init, WallInv, Wall!Folded
<1>2. WallInv /\ [SnapshotNext]_<<vars, probing, metering, hanging>> => WallInv'
  <2>1. WallInv /\ UNCHANGED hanging => WallInv'
    BY DEF hanging, WallInv, Wall!Folded, Joinable
  <2>2. [SnapshotNext]_<<vars, probing, metering, hanging>> => Wall!Next \/ UNCHANGED hanging
    BY DEF SnapshotNext
  <2>3. QED
    BY <2>1, <2>2, WallPolls
<1>3. QED
  BY <1>1, <1>2, PTL DEF SnapshotSpec

\* A service with a picture in the files gives the stack one.
LEMMA StackLabelled == WallInv => Wall!Labelled
<1> SUFFICES ASSUME WallInv, Wall!Folded(missing), services # None, services.icons # {} PROVE picture # None
  BY DEF Wall!Labelled
<1>1. PICK m : m = Joinable(missing, listing)
  OBVIOUS
<1>2. Ranked(m)
  <2>1. Ranked(<<>>)
    BY DEF Ranked
  <2>2. QED
    BY <1>1, <2>1 DEF WallInv, Joinable
<1>3. Parsable(services) /\ picture = Wall!SelectStackIcon(m, services)
  BY <1>1 DEF WallInv
<1>4. PICK k \in DOMAIN services.order : services.order[k] \in services.icons
  BY <1>3 DEF Parsable
<1>5. services.order[k] \in Listed
  BY <1>3 DEF Parsable
<1>6. k \in Showing(m, services)
  BY <1>2, <1>4, <1>5, PictureOfService DEF Showing
<1>7. Wall!ListedPicture(m, services) # None
  BY <1>3, <1>6, FirstListed DEF Showing
<1>8. QED
  BY <1>3, <1>7 DEF Wall!SelectStackIcon, Wall!Either

\* The service that decides is the one the picture is of.
LEMMA StackSteady ==
    ASSUME NEW m, Ranked(m), NEW n, Ranked(n), NEW read, Parsable(read), read # None,
           Wall!SelectStackIcon(m, read) # None,
           NEW i \in DOMAIN read.order, read.order[i] = Wall!SelectStackIcon(m, read).of,
           \A j \in 1..i : \E to : Carries(m, n, read.order[j], to)
    PROVE  Wall!SelectStackIcon(n, read) = Wall!SelectStackIcon(m, read)
<1> DEFINE SP(x, k) == Wall!ServicePicture(x, read, read.order[k])
<1>1. /\ DOMAIN read.order \subseteq Nat \ {0}
      /\ \A k \in DOMAIN read.order : \A j \in 1..k : j \in DOMAIN read.order
      /\ \A k \in DOMAIN read.order : k \in 1..k /\ read.order[k] \in Listed
  BY DEF Parsable
<1>2. \A j \in 1..i : SP(m, j) = SP(n, j)
  <2> SUFFICES ASSUME NEW j \in 1..i PROVE SP(m, j) = SP(n, j)
    OBVIOUS
  <2>1. PICK s \in Listed : s = read.order[j]
    BY <1>1
  <2>2. PICK to : Carries(m, n, s, to)
    BY <2>1
  <2>3. Wall!ServicePicture(m, read, s) = Wall!ServicePicture(n, read, s)
    BY <2>2, PictureStays
  <2>4. QED
    BY <2>1, <2>3
<1>3. \A x, j : j \in Showing(x, read) <=> j \in DOMAIN read.order /\ SP(x, j) # None
  BY DEF Showing
<1>4. \A x : Wall!SelectStackIcon(x, read)
               = IF Wall!ListedPicture(x, read) # None THEN Wall!ListedPicture(x, read) ELSE Wall!OwnPicture(x)
  BY DEF Wall!SelectStackIcon, Wall!Either
<1>5. SP(m, i) # None
  <2>1. CASE Showing(m, read) = {}
    <3>1. Wall!SelectStackIcon(m, read) = Wall!FirstOf(m, DOMAIN m)
      BY <1>4, <2>1, FirstListed DEF Wall!OwnPicture
    <3>2. PICK at \in SUBSET DOMAIN m : at = DOMAIN m
      OBVIOUS
    <3>3. PICK h \in Pictured(m, at) :
             Wall!FirstOf(m, at) = [of |-> m[h].service, from |-> Wall!SelectIcon(m[h].kind)]
      <4>1. Wall!FirstOf(m, at) # None
        BY <3>1, <3>2
      <4>2. QED
        BY <4>1, FirstPicture
    <3>4. h \in DOMAIN m /\ Wall!SelectIcon(m[h].kind) # None /\ m[h].service = read.order[i]
      BY <3>1, <3>2, <3>3 DEF Pictured
    <3>5. QED
      BY <1>1, <3>4, PictureOfService
  <2>2. CASE Showing(m, read) # {}
    <3>1. PICK k \in Showing(m, read) : Wall!ListedPicture(m, read) = SP(m, k)
      BY <2>2, FirstListed
    <3>2. k \in DOMAIN read.order /\ SP(m, k) # None
      BY <1>3
    <3>3. SP(m, k).of = read.order[k]
      BY <1>1, <3>2, PictureOfService
    <3>4. read.order[k] = read.order[i]
      BY <1>4, <3>1, <3>2, <3>3
    <3>5. QED
      BY <3>2, <3>4
  <2>3. QED
    BY <2>1, <2>2
<1> HIDE DEF SP
<1>6. i \in Showing(m, read) /\ i \in Showing(n, read)
  BY <1>1, <1>2, <1>3, <1>5
<1>7. PICK k \in Showing(m, read) :
         (\A j \in Showing(m, read) : k <= j) /\ Wall!ListedPicture(m, read) = SP(m, k)
  BY <1>6, FirstListed DEF SP
<1>8. PICK h \in Showing(n, read) :
         (\A j \in Showing(n, read) : h <= j) /\ Wall!ListedPicture(n, read) = SP(n, h)
  BY <1>6, FirstListed DEF SP
<1>9. k \in 1..i /\ h \in 1..i
  <2>1. k \in Nat \ {0} /\ h \in Nat \ {0} /\ i \in Nat
    BY <1>1, <1>3
  <2>2. k <= i /\ h <= i
    BY <1>6, <1>7, <1>8
  <2>3. QED
    BY <2>1, <2>2
<1>10. k \in Showing(n, read) /\ h \in Showing(m, read)
  BY <1>2, <1>3, <1>7, <1>8, <1>9
<1>11. k = h
  <2>1. k <= h /\ h <= k
    BY <1>7, <1>8, <1>10
  <2>2. QED
    BY <1>9, <2>1
<1>12. Wall!ListedPicture(n, read) = Wall!ListedPicture(m, read) /\ Wall!ListedPicture(m, read) # None
  BY <1>2, <1>3, <1>7, <1>8, <1>9, <1>11
<1>13. QED
  BY <1>4, <1>12

\* What a poll could join is all the containers there are.
LEMMA JoinedShows ==
    WallInv /\ Wall!Joined(missing) => picture = Wall!SelectStackIcon(listing, services)
<1> SUFFICES ASSUME WallInv, Wall!Joined(missing) PROVE picture = Wall!SelectStackIcon(listing, services)
  OBVIOUS
<1>1. Wall!Folded(missing) /\ Joinable(missing, listing) = listing
  BY DEF Wall!Joined, Joinable
<1>2. QED
  BY <1>1 DEF WallInv

LEMMA UntouchedCarries == \A s : Wall!Untouched(s) => \E to : Carries(listing, listing', s, to)
  BY DEF Wall!Untouched, Wall!At, Carries, OfService

\* Whatever compose files, docker and the icon cache can say, in whatever order:
\* a stack with a picture in its files shows one at every poll that could read
\* folders, containers and pictures, and between two of them that also knew its
\* project, or need not, its picture is the same as long as the containers of
\* the deciding service and those before it are (icons.py:101, model.py:303).
THEOREM PictureKept == SnapshotSpec => StackKeepsPicture
<1>1. WallInv => Wall!Labelled
  BY StackLabelled
<1> DEFINE Steadily ==
        Wall!Joined(missing) /\ Wall!Joined(missing') /\ services' = services /\ services # None /\ picture # None
        => \A i \in DOMAIN services.order :
              services.order[i] = picture.of /\ (\A j \in 1..i : Wall!Untouched(services.order[j]))
              => picture' = picture
<1>2. WallInv /\ WallInv' => [Steadily]_(Wall!vars)
  <2> SUFFICES ASSUME WallInv, WallInv', Wall!Joined(missing), Wall!Joined(missing'),
                      services' = services, services # None, picture # None,
                      NEW i \in DOMAIN services.order, services.order[i] = picture.of,
                      \A j \in 1..i : Wall!Untouched(services.order[j])
               PROVE  picture' = picture
    OBVIOUS
  <2>1. Ranked(listing) /\ Parsable(services) /\ picture = Wall!SelectStackIcon(listing, services)
    BY JoinedShows DEF WallInv
  <2>2. Ranked(listing')
    BY DEF WallInv
  <2>3. picture' = Wall!SelectStackIcon(listing', services)
    <3>1. Wall!Folded(missing') /\ Joinable(missing', listing') = listing'
      BY DEF Wall!Joined, Joinable
    <3>2. QED
      BY <3>1 DEF WallInv, Wall!Folded, Joinable
  <2>4. \A j \in 1..i : \E to : Carries(listing, listing', services.order[j], to)
    BY UntouchedCarries
  <2>5. Wall!SelectStackIcon(listing', services) = Wall!SelectStackIcon(listing, services)
    BY <2>1, <2>2, <2>4, StackSteady
  <2>6. QED
    BY <2>1, <2>3, <2>5
<1>3. QED
  BY <1>1, <1>2, WallAlways, PTL DEF StackKeepsPicture, Wall!Steady

=============================================================================
