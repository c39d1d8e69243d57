-------------------------- MODULE RunVideosProofs --------------------------
(* The storage of flow videos, for any runs, requests, chunks and limits:
   proofs about RunVideos.

   The limits are on sums over the videos, so the proof begins with what a
   sum does.  The library's induction theorems take a predicate, which no
   prover here can instantiate; a minimal counterexample among the subsets of
   a finite set (WFMin with FS_StrictSubsetOrderingWellFounded) serves
   instead.                                                                 *)
EXTENDS RunVideos, FiniteSetTheorems, SequenceTheorems, TLAPS

-----------------------------------------------------------------------------
(* Sums *)

\* g is the recursive sum of f over the subsets of S.
Sums(g, f, S) ==
  g = [s \in SUBSET S |-> IF s = {} THEN 0 ELSE f[CHOOSE x \in s : TRUE] + g[s \ {CHOOSE x \in s : TRUE}]]

LEMMA SumIsSums ==
  ASSUME NEW f, NEW S
  PROVE  SumFunctionOnSet(f, S) = (CHOOSE g : Sums(g, f, S))[S]
  BY DEF SumFunctionOnSet, FoldFunctionOnSet, MapThenFoldSet, Sums

\* A set of subsets of a finite set has a minimal member.
LEMMA MinimalSubset ==
  ASSUME NEW S, IsFiniteSet(S), NEW B, B \subseteq SUBSET S, B # {}
  PROVE  \E T \in B : \A U \in SUBSET T : U # T => U \notin B
  <1>1. IsWellFoundedOn(StrictSubsetOrdering(S), SUBSET S)
    BY FS_StrictSubsetOrderingWellFounded, FS_FiniteSubsetsOfFinite
  <1>2. PICK T \in B : \A U \in B : ~(<<U, T>> \in StrictSubsetOrdering(S))
    BY <1>1, WFMin
  <1>3. ASSUME NEW U \in SUBSET T, U # T, U \in B
        PROVE  FALSE
    BY <1>2, <1>3 DEF StrictSubsetOrdering
  <1> QED
    BY <1>2, <1>3

LEMMA SumsAgree ==
  ASSUME NEW f, NEW e, NEW g, NEW h, NEW S, NEW T, Sums(g, f, S), Sums(h, e, T),
         NEW U, IsFiniteSet(U), U \subseteq S, U \subseteq T, \A x \in U : f[x] = e[x]
  PROVE  g[U] = h[U]
  <1> DEFINE B == {V \in SUBSET U : g[V] # h[V]}
  <1>1. SUFFICES ASSUME B # {} PROVE FALSE
    OBVIOUS
  <1>2. PICK V \in B : \A W \in SUBSET V : W # V => W \notin B
    <2>1. B \subseteq SUBSET U
      OBVIOUS
    <2> HIDE DEF B
    <2> QED
      BY <1>1, <2>1, MinimalSubset
  <1>3. CASE V = {}
    BY <1>2, <1>3 DEF Sums
  <1>4. CASE V # {}
    <2> DEFINE c == CHOOSE x \in V : TRUE
    <2>1. c \in V /\ c \in U
      BY <1>2, <1>4
    <2>2. g[V] = f[c] + g[V \ {c}] /\ h[V] = e[c] + h[V \ {c}]
      BY <1>2, <1>4 DEF Sums
    <2>3. g[V \ {c}] = h[V \ {c}]
      BY <1>2, <2>1
    <2> QED
      BY <1>2, <2>1, <2>2, <2>3
  <1> QED
    BY <1>3, <1>4

LEMMA SumsExist ==
  ASSUME NEW f, NEW S, IsFiniteSet(S)
  PROVE  \E g : Sums(g, f, S)
  <1> DEFINE B == {T \in SUBSET S : ~ \E g : Sums(g, f, T)}
  <1>1. SUFFICES ASSUME B # {} PROVE FALSE
    OBVIOUS
  <1>2. PICK T \in B : \A U \in SUBSET T : U # T => U \notin B
    <2>1. B \subseteq SUBSET S
      OBVIOUS
    <2> HIDE DEF B
    <2> QED
      BY <1>1, <2>1, MinimalSubset
  <1> DEFINE G(y) == CHOOSE g : Sums(g, f, T \ {y})
             y(s) == CHOOSE x \in T : x \notin s
             c(s) == CHOOSE x \in s : TRUE
             h == [s \in SUBSET T |-> IF s # T THEN G(y(s))[s] ELSE IF T = {} THEN 0 ELSE f[c(T)] + G(c(T))[T \ {c(T)}]]
  <1>3. ASSUME NEW x \in T
        PROVE  Sums(G(x), f, T \ {x})
    <2>1. \E g : Sums(g, f, T \ {x})
      BY <1>2
    <2> QED
      BY <2>1
  <1> HIDE DEF G
  <1>4. ASSUME NEW s \in SUBSET T, s # T
        PROVE  y(s) \in T /\ y(s) \notin s
    <2>1. \E x \in T : x \notin s
      BY <1>4
    <2> QED
      BY <2>1
  <1>5. ASSUME NEW s \in SUBSET T, s # {}
        PROVE  c(s) \in s
    BY <1>5
  <1>6. /\ \A s \in SUBSET T : s # T => h[s] = G(y(s))[s]
        /\ T = {} => h[T] = 0
        /\ T # {} => h[T] = f[c(T)] + G(c(T))[T \ {c(T)}]
    OBVIOUS
  <1>7. h = [s \in SUBSET T |-> h[s]]
    OBVIOUS
  <1> HIDE DEF h
  <1>8. ASSUME NEW s \in SUBSET T
        PROVE  h[s] = IF s = {} THEN 0 ELSE f[c(s)] + h[s \ {c(s)}]
    <2>1. CASE s = {}
      <3>1. CASE T = {}
        BY <1>6, <2>1, <3>1
      <3>2. CASE T # {}
        <4>1. h[s] = G(y(s))[s] /\ Sums(G(y(s)), f, T \ {y(s)})
          BY <1>3, <1>4, <1>6, <2>1, <3>2
        <4> HIDE DEF y
        <4> QED
          BY <2>1, <4>1 DEF Sums
      <3> QED
        BY <3>1, <3>2
    <2>2. CASE s # {} /\ s = T
      <3>1. h[s] = f[c(s)] + G(c(s))[s \ {c(s)}]
        BY <1>6, <2>2
      <3>2. c(s) \in T
        BY <1>5, <2>2
      <3> HIDE DEF c
      <3> DEFINE u == s \ {c(s)}
      <3>3. u \in SUBSET T /\ u # T
        BY <2>2, <3>2
      <3>4. h[u] = G(y(u))[u] /\ y(u) \in T /\ y(u) \notin u
        BY <1>4, <1>6, <3>3
      <3> HIDE DEF y
      <3>5. y(u) = c(s)
        BY <2>2, <3>4
      <3> QED
        BY <2>2, <3>1, <3>4, <3>5
    <2>3. CASE s # {} /\ s # T
      <3> DEFINE z == y(s)  u == s \ {c(s)}  w == y(u)
      <3>1. h[s] = G(z)[s] /\ z \in T /\ z \notin s
        BY <1>4, <1>6, <2>3
      <3>2. c(s) \in s
        BY <1>5, <2>3
      <3>3. u \in SUBSET T /\ u # T
        BY <2>3
      <3>4. h[u] = G(w)[u] /\ w \in T /\ w \notin u
        BY <1>4, <1>6, <3>3
      <3>5. Sums(G(z), f, T \ {z}) /\ Sums(G(w), f, T \ {w})
        BY <1>3, <3>1, <3>4
      <3>6. G(z)[s] = f[c(s)] + G(z)[u]
        <4> HIDE DEF z
        <4> QED
          BY <2>3, <3>1, <3>5 DEF Sums
      <3>7. IsFiniteSet(u)
        BY FS_Subset
      <3>8. u \subseteq T \ {z} /\ u \subseteq T \ {w}
        BY <3>1, <3>4
      <3>9. G(z)[u] = G(w)[u]
        <4> HIDE DEF z, w, u
        <4> QED
          BY <3>5, <3>7, <3>8, SumsAgree
      <3> QED
        BY <2>3, <3>1, <3>4, <3>6, <3>9
    <2> QED
      BY <2>1, <2>2, <2>3
  <1>9. Sums(h, f, T)
    BY <1>7, <1>8 DEF Sums
  <1> QED
    BY <1>2, <1>9

LEMMA SumIs ==
  ASSUME NEW f, NEW S, IsFiniteSet(S)
  PROVE  \E g : Sums(g, f, S) /\ SumFunctionOnSet(f, S) = g[S]
  BY SumIsSums, SumsExist

\* A sum does not depend on the function outside the set.
LEMMA SumSame ==
  ASSUME NEW f, NEW e, NEW S, IsFiniteSet(S), \A x \in S : f[x] = e[x]
  PROVE  SumFunctionOnSet(f, S) = SumFunctionOnSet(e, S)
  <1>1. PICK g : Sums(g, f, S) /\ SumFunctionOnSet(f, S) = g[S]
    BY SumIs
  <1>2. PICK h : Sums(h, e, S) /\ SumFunctionOnSet(e, S) = h[S]
    BY SumIs
  <1> QED
    BY <1>1, <1>2, SumsAgree

LEMMA SumOfNone ==
  ASSUME NEW f
  PROVE  SumFunctionOnSet(f, {}) = 0
  <1>1. IsFiniteSet({})
    BY FS_EmptySet
  <1>2. PICK g : Sums(g, f, {}) /\ SumFunctionOnSet(f, {}) = g[{}]
    BY <1>1, SumIs
  <1> QED
    BY <1>2 DEF Sums

LEMMA SumOfChosen ==
  ASSUME NEW f, NEW S, IsFiniteSet(S), S # {}
  PROVE  \E c \in S : SumFunctionOnSet(f, S) = f[c] + SumFunctionOnSet(f, S \ {c})
  <1> DEFINE c == CHOOSE x \in S : TRUE
  <1>1. c \in S
    OBVIOUS
  <1>2. PICK g : Sums(g, f, S) /\ SumFunctionOnSet(f, S) = g[S]
    BY SumIs
  <1>3. g[S] = f[c] + g[S \ {c}]
    BY <1>2 DEF Sums
  <1> HIDE DEF c
  <1>4. IsFiniteSet(S \ {c})
    BY FS_Subset
  <1>5. PICK h : Sums(h, f, S \ {c}) /\ SumFunctionOnSet(f, S \ {c}) = h[S \ {c}]
    BY <1>4, SumIs
  <1>6. g[S \ {c}] = h[S \ {c}]
    BY <1>2, <1>4, <1>5, SumsAgree
  <1> QED
    BY <1>1, <1>2, <1>3, <1>5, <1>6

LEMMA SumType ==
  ASSUME NEW S, IsFiniteSet(S), NEW f, \A x \in S : f[x] \in Int
  PROVE  SumFunctionOnSet(f, S) \in Int
  <1> DEFINE B == {T \in SUBSET S : SumFunctionOnSet(f, T) \notin Int}
  <1>1. SUFFICES ASSUME B # {} PROVE FALSE
    OBVIOUS
  <1>2. PICK T \in B : \A U \in SUBSET T : U # T => U \notin B
    <2>1. B \subseteq SUBSET S
      OBVIOUS
    <2> HIDE DEF B
    <2> QED
      BY <1>1, <2>1, MinimalSubset
  <1>3. CASE T = {}
    BY <1>2, <1>3, SumOfNone
  <1>4. CASE T # {}
    <2>1. IsFiniteSet(T)
      BY FS_Subset
    <2>2. PICK c \in T : SumFunctionOnSet(f, T) = f[c] + SumFunctionOnSet(f, T \ {c})
      BY <1>4, <2>1, SumOfChosen
    <2>3. SumFunctionOnSet(f, T \ {c}) \in Int
      BY <1>2
    <2> QED
      BY <1>2, <2>2, <2>3
  <1> QED
    BY <1>3, <1>4

\* Any member may be taken out of a sum.
LEMMA SumTakes ==
  ASSUME NEW S, IsFiniteSet(S), NEW f, \A x \in S : f[x] \in Int, NEW k \in S
  PROVE  SumFunctionOnSet(f, S) = f[k] + SumFunctionOnSet(f, S \ {k})
  <1> DEFINE sum(T) == SumFunctionOnSet(f, T)
             B == {T \in SUBSET S : \E x \in T : sum(T) # f[x] + sum(T \ {x})}
  <1>1. SUFFICES ASSUME B # {} PROVE FALSE
    OBVIOUS
  <1>2. PICK T \in B : \A U \in SUBSET T : U # T => U \notin B
    <2>1. B \subseteq SUBSET S
      OBVIOUS
    <2> HIDE DEF B
    <2> QED
      BY <1>1, <2>1, MinimalSubset
  <1>3. PICK x \in T : sum(T) # f[x] + sum(T \ {x})
    BY <1>2
  <1>4. \A U \in SUBSET T : IsFiniteSet(U) /\ sum(U) \in Int
    <2>1. \A U \in SUBSET T : IsFiniteSet(U)
      BY FS_Subset
    <2> QED
      BY <2>1, SumType
  <1>5. PICK c \in T : sum(T) = f[c] + sum(T \ {c})
    BY <1>3, <1>4, SumOfChosen
  <1>6. c # x
    BY <1>3, <1>5
  <1>7. sum(T \ {c}) = f[x] + sum((T \ {c}) \ {x})
    BY <1>2, <1>3, <1>6
  <1>8. sum(T \ {x}) = f[c] + sum((T \ {x}) \ {c})
    BY <1>2, <1>5, <1>6
  <1>9. (T \ {c}) \ {x} = (T \ {x}) \ {c}
    OBVIOUS
  <1>10. f[x] \in Int /\ f[c] \in Int /\ sum((T \ {x}) \ {c}) \in Int
    BY <1>4
  <1>11. sum(T) = f[c] + (f[x] + sum((T \ {x}) \ {c}))
    BY <1>5, <1>7, <1>9
  <1>12. f[x] + sum(T \ {x}) = f[x] + (f[c] + sum((T \ {x}) \ {c}))
    BY <1>8
  <1> DEFINE rest == sum((T \ {x}) \ {c})
  <1> HIDE DEF sum, rest
  <1>13. f[c] + (f[x] + rest) = f[x] + (f[c] + rest)
    BY <1>10 DEF rest
  <1> QED
    BY <1>3, <1>11, <1>12, <1>13 DEF rest

\* A sum of sums, member by member, that stays within another.
LEMMA SumAtMost ==
  ASSUME NEW S, IsFiniteSet(S), NEW f, NEW e, \A x \in S : f[x] \in Int /\ e[x] \in Int /\ f[x] <= e[x]
  PROVE  SumFunctionOnSet(f, S) <= SumFunctionOnSet(e, S)
  <1> DEFINE F(T) == SumFunctionOnSet(f, T)  E(T) == SumFunctionOnSet(e, T)
             B == {T \in SUBSET S : ~(F(T) <= E(T))}
  <1>1. SUFFICES ASSUME B # {} PROVE FALSE
    OBVIOUS
  <1>2. PICK T \in B : \A U \in SUBSET T : U # T => U \notin B
    <2>1. B \subseteq SUBSET S
      OBVIOUS
    <2> HIDE DEF B
    <2> QED
      BY <1>1, <2>1, MinimalSubset
  <1>3. CASE T = {}
    BY <1>2, <1>3, SumOfNone
  <1>4. CASE T # {}
    <2>1. PICK k \in T : TRUE
      BY <1>4
    <2>2. IsFiniteSet(T) /\ IsFiniteSet(T \ {k})
      BY FS_Subset
    <2>3. F(T) = f[k] + F(T \ {k}) /\ E(T) = e[k] + E(T \ {k})
      BY <2>1, <2>2, SumTakes
    <2>4. F(T \ {k}) <= E(T \ {k})
      BY <1>2, <2>1
    <2>5. F(T \ {k}) \in Int /\ E(T \ {k}) \in Int
      BY <2>2, SumType
    <2>6. f[k] \in Int /\ e[k] \in Int /\ f[k] <= e[k]
      OBVIOUS
    <2> HIDE DEF F, E
    <2> QED
      BY <1>2, <2>3, <2>4, <2>5, <2>6
  <1> QED
    BY <1>3, <1>4

LEMMA SumAdds ==
  ASSUME NEW S, IsFiniteSet(S), NEW f, NEW e, NEW h,
         \A x \in S : f[x] \in Int /\ e[x] \in Int /\ h[x] = f[x] + e[x]
  PROVE  SumFunctionOnSet(h, S) = SumFunctionOnSet(f, S) + SumFunctionOnSet(e, S)
  <1> DEFINE F(T) == SumFunctionOnSet(f, T)  E(T) == SumFunctionOnSet(e, T)  H(T) == SumFunctionOnSet(h, T)
             B == {T \in SUBSET S : H(T) # F(T) + E(T)}
  <1>1. SUFFICES ASSUME B # {} PROVE FALSE
    OBVIOUS
  <1>2. PICK T \in B : \A U \in SUBSET T : U # T => U \notin B
    <2>1. B \subseteq SUBSET S
      OBVIOUS
    <2> HIDE DEF B
    <2> QED
      BY <1>1, <2>1, MinimalSubset
  <1>3. CASE T = {}
    BY <1>2, <1>3, SumOfNone
  <1>4. CASE T # {}
    <2>1. PICK k \in T : TRUE
      BY <1>4
    <2>2. IsFiniteSet(T) /\ IsFiniteSet(T \ {k})
      BY FS_Subset
    <2>3. F(T) = f[k] + F(T \ {k}) /\ E(T) = e[k] + E(T \ {k}) /\ H(T) = h[k] + H(T \ {k})
      BY <2>1, <2>2, SumTakes
    <2>4. H(T \ {k}) = F(T \ {k}) + E(T \ {k})
      BY <1>2, <2>1
    <2>5. F(T \ {k}) \in Int /\ E(T \ {k}) \in Int
      BY <2>2, SumType
    <2>6. f[k] \in Int /\ e[k] \in Int /\ h[k] = f[k] + e[k]
      OBVIOUS
    <2> HIDE DEF F, E, H
    <2> QED
      BY <1>2, <2>3, <2>4, <2>5, <2>6
  <1> QED
    BY <1>3, <1>4

\* A sum that has n at one member and nothing elsewhere.
LEMMA SumOfOne ==
  ASSUME NEW S, IsFiniteSet(S), NEW k \in S, NEW n \in Int
  PROVE  SumFunctionOnSet([x \in S |-> IF x = k THEN n ELSE 0], S) = n
  <1> DEFINE f == [x \in S |-> IF x = k THEN n ELSE 0]  z == [x \in S |-> 0]
  <1>1. \A x \in S : f[x] \in Int /\ z[x] \in Int /\ z[x] = z[x] + z[x]
    OBVIOUS
  <1>2. IsFiniteSet(S \ {k})
    BY FS_Subset
  <1>3. SumFunctionOnSet(f, S) = n + SumFunctionOnSet(f, S \ {k})
    BY <1>1, SumTakes
  <1>4. SumFunctionOnSet(f, S \ {k}) = SumFunctionOnSet(z, S \ {k})
    BY <1>2, SumSame
  <1>5. SumFunctionOnSet(z, S \ {k}) = SumFunctionOnSet(z, S \ {k}) + SumFunctionOnSet(z, S \ {k})
    BY <1>1, <1>2, SumAdds
  <1>6. SumFunctionOnSet(z, S \ {k}) \in Int
    BY <1>1, <1>2, SumType
  <1>7. \A m \in Int : m = m + m => m = 0
    OBVIOUS
  <1> HIDE DEF f, z
  <1>8. SumFunctionOnSet(z, S \ {k}) = 0
    BY <1>5, <1>6, <1>7
  <1>9. SumFunctionOnSet(f, S) = n
    BY <1>3, <1>4, <1>8
  <1> QED
    BY <1>9 DEF f

-----------------------------------------------------------------------------
(* Types *)

VideoRows == [on : BOOLEAN, bytes : Nat, reserved : Nat, next : 0..(MaxSeq + 1),
              ended : BOOLEAN, reason : Reasons, last : -1..MaxSeq,
              evicted : BOOLEAN, born : Nat]
Taps == [n : 0..(MaxSeq + 1), over : BOOLEAN, failed : BOOLEAN]
LanesType == [pos : 0..(MaxSeq + 3), again : BOOLEAN, wait : Requests \cup {NoReq},
              closed : BOOLEAN, awaiting : BOOLEAN, tailLost : BOOLEAN, stopped : BOOLEAN]
Openings == [op : {"open"}, run : Runs]
Endings == [op : {"end"}, run : Runs, last : -1..MaxSeq, reason : {"done", "truncated"}]
Pieces == [op : {"chunk"}, run : Runs, seq : Seqs,
           at : {"body", "queued", "reserved", "writing"}, off : Nat, put : Nat]
Calls == Openings \cup Endings \cup Pieces
Marks == [seq : Seqs, off : Nat]

StoreTypes ==
    /\ video \in [Runs -> VideoRows]
    /\ chunks \in [Runs -> Seq(Marks)]
    /\ file \in [Runs -> Seq(Seqs) \cup {NoFile}]
    /\ queue \in [Runs -> Seq(Requests)]

RunnerTypes ==
    /\ req \in [Requests -> Calls \cup {Idle}]
    /\ tap \in [Runs -> Taps]
    /\ lane \in [Runs -> LanesType]
    /\ took \in [Runs -> SUBSET Seqs]

RowTypes ==
    /\ row \in [Runs -> Row]
    /\ open \in [Runs -> SUBSET Sockets]
    /\ faults \in 0..MaxFaults

TypeInv == RowTypes /\ StoreTypes /\ RunnerTypes

\* What handles keep of a file is a number of cells (see the room, below).
Inodes == [played : BOOLEAN, seen : Nat, unseen : Nat]
InodeInv == inode \in [Runs -> Inodes]

LEMMA TypesOK == TypeInv /\ InodeInv => TypeOK
  BY DEF InodeInv, Inodes, TypeInv, RowTypes, StoreTypes, RunnerTypes, TypeOK, VideoRows, Taps, LanesType

\* Call x is of the item the lane of r is at.
Answers(r, x) == x.run = r /\ x.op = Item(r) /\ (x.op = "chunk" => x.seq = Seq0(r))

\* A lane is at most one past the end of its flow, waits for a call of the item it is at,
\* unless that call has ended unheard, and for a call no other lane waits for.
LaneInv == \A r \in Runs :
    /\ lane[r].pos <= tap[r].n + (IF tap[r].over THEN 2 ELSE 1)
    /\ lane[r].wait # NoReq =>
         /\ HasItem(r) /\ ~ lane[r].stopped
         /\ req[lane[r].wait] # Idle => Answers(r, req[lane[r].wait])
         /\ \A s \in Runs : lane[s].wait = lane[r].wait => s = r

LEMMA CallParts ==
  ASSUME NEW x \in Calls \cup {Idle}
  PROVE  /\ x = Idle <=> x.op = "none"
         /\ x.op = "chunk" <=> x \in Pieces
         /\ x.op = "open" <=> x \in Openings
         /\ x.op = "end" <=> x \in Endings
         /\ x # Idle => x.run \in Runs
  BY DEF Calls, Idle, Pieces, Openings, Endings

LEMMA ItemParts ==
  ASSUME RunnerTypes, NEW r \in Runs
  PROVE  /\ Item(r) \in {"open", "chunk", "end"}
         /\ Item(r) = "open" <=> lane[r].pos = 0
         /\ Item(r) = "chunk" <=> lane[r].pos \in 1..tap[r].n
         /\ Item(r) = "end" <=> lane[r].pos > tap[r].n
         /\ HasItem(r) <=> lane[r].pos <= tap[r].n + (IF tap[r].over THEN 1 ELSE 0)
         /\ lane[r].pos \in 0..(MaxSeq + 3) /\ tap[r].n \in 0..(MaxSeq + 1)
         /\ MaxSeq \in Nat
         /\ Item(r) = "chunk" => Seq0(r) \in Seqs
  <1>1. lane[r] \in LanesType /\ tap[r] \in Taps /\ MaxSeq \in Nat
    BY VideosAssumption DEF RunnerTypes
  <1>2. lane[r].pos \in 0..(MaxSeq + 3) /\ tap[r].n \in 0..(MaxSeq + 1) /\ tap[r].over \in BOOLEAN
    BY <1>1 DEF LanesType, Taps
  <1> DEFINE p == lane[r].pos  n == tap[r].n
  <1>3. Item(r) = CASE p = 0 -> "open" [] p \in 1..n -> "chunk" [] OTHER -> "end"
    BY DEF Item
  <1>4. HasItem(r) <=> p <= n + (IF tap[r].over THEN 1 ELSE 0)
    BY DEF HasItem
  <1>5. Seq0(r) = p - 1 /\ Seqs = 0..MaxSeq
    BY DEF Seq0, Seqs
  <1>6. p \in Int /\ n \in Int /\ p >= 0 /\ n >= 0 /\ n <= MaxSeq + 1
    BY <1>1, <1>2
  <1> HIDE DEF p, n
  <1>7. /\ Item(r) \in {"open", "chunk", "end"} /\ (Item(r) = "open" <=> p = 0) /\ (Item(r) = "chunk" <=> p \in 1..n)
        /\ (Item(r) = "end" <=> p > n) /\ (Item(r) = "chunk" => Seq0(r) \in Seqs)
    <2>1. CASE p = 0
      <3>1. Item(r) = "open"
        BY <1>3, <2>1
      <3>2. p \notin 1..n /\ ~(p > n)
        BY <1>6, <2>1
      <3> QED
        BY <2>1, <3>1, <3>2
    <2>2. CASE p # 0 /\ p <= n
      <3>1. Item(r) = "chunk" /\ p \in 1..n /\ p - 1 \in 0..MaxSeq
        BY <1>1, <1>3, <1>6, <2>2
      <3> QED
        BY <1>5, <1>6, <2>2, <3>1
    <2>3. CASE p # 0 /\ ~(p <= n)
      BY <1>3, <1>6, <2>3
    <2> QED
      BY <2>1, <2>2, <2>3
  <1> QED
    BY <1>1, <1>2, <1>4, <1>7 DEF p, n

\* What a call can be answered, or found lost.
Codes == {"ok", "conflict", "gone", "missing", "size-limit", "full", "error", "lost"}

\* What an answer does to the lane that waits for it.
LEMMA AfterParts ==
  ASSUME RunnerTypes, NEW r \in Runs, HasItem(r), NEW code \in Codes
  PROVE  /\ After(r, code) \in LanesType
         /\ After(r, code).wait = NoReq
         /\ \/ After(r, code).pos = lane[r].pos
            \/ After(r, code).pos = lane[r].pos + 1
         /\ lane[r].closed => After(r, code).closed
         /\ lane[r].stopped => After(r, code).stopped
         /\ \/ After(r, code).stopped \/ After(r, code).closed \/ After(r, code).awaiting
            \/ Item(r) = "chunk" /\ After(r, code).pos = lane[r].pos /\ After(r, code).awaiting = lane[r].awaiting
            \/ Item(r) # "end" /\ code = "ok" /\ After(r, code).pos = lane[r].pos + 1
            \/ Item(r) = "end" /\ After(r, code).pos = lane[r].pos + 1
         /\ Item(r) = "open" =>
              \/ code = "ok" /\ After(r, code).pos = 1
              \/ After(r, code).stopped \/ After(r, code).closed
  <1> DEFINE l == lane[r]  a == After(r, code)
  <1>1. l \in LanesType /\ l.pos + 1 \in 0..(MaxSeq + 3) /\ MaxSeq \in Nat /\ l.pos \in Nat
    BY ItemParts DEF RunnerTypes
  <1>2. /\ Next1(l) \in LanesType /\ Next1(l).pos = l.pos + 1 /\ Next1(l).wait = NoReq
        /\ Next1(l).closed = l.closed /\ Next1(l).stopped = l.stopped /\ Next1(l).awaiting = l.awaiting
    BY <1>1 DEF Next1, LanesType
  <1>3. /\ Stopped(l) \in LanesType /\ Stopped(l).pos = l.pos /\ Stopped(l).wait = NoReq
        /\ Stopped(l).closed = l.closed /\ Stopped(l).stopped
    BY <1>1 DEF Stopped, LanesType
  <1> DEFINE c == [Next1(l) EXCEPT !.closed = TRUE]
             g == [l EXCEPT !.again = TRUE, !.wait = NoReq]
             w == [Next1(l) EXCEPT !.awaiting = TRUE, !.tailLost = @ \/ IsTail(r)]
  <1>4. c \in LanesType /\ c.pos = l.pos + 1 /\ c.wait = NoReq /\ c.closed /\ c.stopped = l.stopped
    <2> HIDE DEF l
    <2> QED
      BY <1>2 DEF LanesType
  <1>5. /\ g \in LanesType /\ g.pos = l.pos /\ g.wait = NoReq /\ g.closed = l.closed /\ g.stopped = l.stopped
        /\ g.awaiting = l.awaiting
    <2> HIDE DEF l
    <2> QED
      BY <1>1 DEF LanesType
  <1>6. w \in LanesType /\ w.pos = l.pos + 1 /\ w.wait = NoReq /\ w.awaiting /\ w.closed = l.closed /\ w.stopped = l.stopped
    <2>1. (Next1(l).tailLost \/ IsTail(r)) \in BOOLEAN
      OBVIOUS
    <2> HIDE DEF l
    <2> QED
      BY <1>2, <2>1 DEF LanesType
  <1>7. Item(r) = "chunk" => a = AfterChunk(r, code)
    BY DEF After
  <1>8. Item(r) = "chunk" =>
          \/ a = Next1(l) /\ code = "ok"
          \/ a = c \/ a = Stopped(l) \/ a = g \/ a = w
    BY <1>7 DEF AfterChunk, Codes
  <1>9. Item(r) = "open" => \/ a = Next1(l) /\ code = "ok"
                            \/ a = c \/ a = Stopped(l)
    BY DEF After
  <1>10. Item(r) = "end" => a = Next1(l) \/ a = Stopped(l)
    BY DEF After
  <1>11. Item(r) = "open" => l.pos = 0
    BY ItemParts
  <1>12. Item(r) \in {"open", "chunk", "end"}
    BY ItemParts
  <1> HIDE DEF a, c, g, w
  <1>13. CASE Item(r) = "chunk"
    BY <1>2, <1>3, <1>4, <1>5, <1>6, <1>8, <1>13 DEF a
  <1>14. CASE Item(r) = "open"
    BY <1>2, <1>3, <1>4, <1>9, <1>11, <1>14 DEF a
  <1>15. CASE Item(r) = "end"
    BY <1>2, <1>3, <1>10, <1>15 DEF a
  <1> QED
    BY <1>12, <1>13, <1>14, <1>15

-----------------------------------------------------------------------------
(* Rows *)

LEMMA RowParts ==
  ASSUME NEW x \in Row
  PROVE  /\ Abandoned(x) \in Row /\ Gone \in Row
         /\ \A s \in Outcomes : Finished(x, s) \in Row
         /\ \A b \in BOOLEAN : [x EXCEPT !.quiet = b] \in Row /\ [x EXCEPT !.recent = b] \in Row
         /\ x.status = "running" => Exists(x)
         /\ ~ Exists(Gone)
         /\ \A b \in BOOLEAN : Exists([x EXCEPT !.quiet = b]) <=> Exists(x)
         /\ \A b \in BOOLEAN : Exists([x EXCEPT !.recent = b]) <=> Exists(x)
  <1>1. \A s \in Outcomes : s \in Final
    BY OutcomesAssumption
  <1>2. Abandoned(x) \in Row /\ Gone \in Row /\ ~ Exists(Gone)
    BY DEF Row, Abandoned, Gone, NoRow, Final, Exists
  <1>3. \A s \in Outcomes : Finished(x, s) \in Row
    BY <1>1 DEF Row, Finished
  <1>4. x.status = "running" => Exists(x)
    BY DEF Exists
  <1>5. ASSUME NEW b \in BOOLEAN
        PROVE  /\ [x EXCEPT !.quiet = b] \in Row /\ [x EXCEPT !.recent = b] \in Row
               /\ Exists([x EXCEPT !.quiet = b]) <=> Exists(x)
               /\ Exists([x EXCEPT !.recent = b]) <=> Exists(x)
    BY DEF Row, Exists
  <1> QED
    BY <1>2, <1>3, <1>4, <1>5

\* A settling pass writes rows, and none that was not there.
LEMMA SettledParts ==
  ASSUME RowTypes
  PROVE  /\ Settled \in [Runs -> Row]
         /\ \A r \in Runs : Exists(Settled[r]) => Exists(row[r])
  <1>1. ASSUME NEW r \in Runs
        PROVE  /\ Settled[r] \in Row
               /\ Exists(Settled[r]) => Exists(row[r])
    <2>1. row[r] \in Row
      BY DEF RowTypes
    <2>2. Settled[r] = IF OrphanIn(r, open) THEN Abandoned(row[r]) ELSE row[r]
      BY DEF Settled, SettledWith
    <2>3. OrphanIn(r, open) => Exists(row[r])
      BY <2>1, RowParts DEF OrphanIn
    <2> QED
      BY <2>1, <2>2, <2>3, RowParts
  <1>2. Settled = [r \in Runs |-> Settled[r]]
    BY DEF Settled, SettledWith
  <1> QED
    BY <1>1, <1>2

\* The type of the rows, sockets and faults, and that no step brings a row back.
RowsStep == RowTypes' /\ \A r \in Runs : Exists(row'[r]) => Exists(row[r])

LEMMA RowsSame ==
  ASSUME RowTypes, UNCHANGED row, open' \in [Runs -> SUBSET Sockets], faults' \in 0..MaxFaults
  PROVE  RowsStep
  BY DEF RowsStep, RowTypes

LEMMA RowsSettle ==
  ASSUME RowTypes, row' = Settled, UNCHANGED <<open, faults>>
  PROVE  RowsStep
  BY SettledParts DEF RowsStep, RowTypes

LEMMA RowsOne ==
  ASSUME RowTypes, NEW r \in Runs, NEW x \in Row, Exists(x) => Exists(row[r]), row' = [row EXCEPT ![r] = x],
         open' \in [Runs -> SUBSET Sockets], faults' \in 0..MaxFaults
  PROVE  RowsStep
  BY DEF RowsStep, RowTypes

LEMMA FaultCounts ==
  ASSUME RowTypes, NEW r, Fault(r)
  PROVE  faults' \in 0..MaxFaults
  <1>1. MaxFaults \in Nat /\ faults \in 0..MaxFaults
    BY VideosAssumption DEF RowTypes
  <1> QED
    BY <1>1 DEF Fault

LEMMA RowsMove ==
  ASSUME TypeInv, Next
  PROVE  RowsStep
  <1>1. RowTypes /\ open \in [Runs -> SUBSET Sockets] /\ faults \in 0..MaxFaults
    BY DEF TypeInv, RowTypes
  <1>2. ASSUME NEW q \in Requests, Handle(q) \/ BodyLost(q) \/ WriteFails(q)
        PROVE  RowsStep
    <2>1. CASE ReserveChunk(q) \/ NoRoom(q)
      BY <1>1, <2>1, RowsSettle DEF ReserveChunk, NoRoom
    <2>2. CASE WriteFails(q)
      <3>1. UNCHANGED <<row, open>> /\ Fault(req[q].run)
        BY <2>2 DEF WriteFails
      <3>2. faults' \in 0..MaxFaults
        BY <1>1, <3>1, FaultCounts
      <3> QED
        BY <1>1, <3>1, <3>2, RowsSame
    <2>3. CASE OpenVideo(q) \/ EndVideo(q) \/ ChunkBody(q) \/ RefuseChunk(q)
      <3>1. UNCHANGED <<row, open, faults>>
        BY <2>3 DEF OpenVideo, EndVideo, ChunkBody, RefuseChunk
      <3> QED
        BY <1>1, <3>1, RowsSame
    <2>4. CASE OpenFile(q) \/ WriteCell(q) \/ CommitChunk(q) \/ BodyLost(q)
      <3>1. UNCHANGED <<row, open, faults>>
        BY <2>4 DEF OpenFile, WriteCell, CommitChunk, BodyLost
      <3> QED
        BY <1>1, <3>1, RowsSame
    <2> QED
      BY <1>2, <2>1, <2>2, <2>3, <2>4 DEF Handle
  <1>3. ASSUME NEW r \in Runs, Runner(r)
        PROVE  RowsStep
    <2>1. CASE Cut(r) \/ Skip(r) \/ Send(r) \/ \E failed \in BOOLEAN, rest \in 0..1 : FlowOver(r, failed, rest)
      <3>1. UNCHANGED <<row, open, faults>>
        BY <2>1 DEF Cut, Skip, Send, FlowOver
      <3> QED
        BY <1>1, <3>1, RowsSame
    <2>2. CASE GiveUp(r) \/ LaneStops(r)
      <3>1. UNCHANGED <<row, open>> /\ Fault(r)
        BY <2>2 DEF GiveUp, LaneStops
      <3>2. faults' \in 0..MaxFaults
        BY <1>1, <3>1, FaultCounts
      <3> QED
        BY <1>1, <3>1, <3>2, RowsSame
    <2>3. ASSUME NEW s \in Outcomes, FinishRun(r, s)
          PROVE  RowsStep
      <3>1. /\ row' = [row EXCEPT ![r] = Finished(row[r], s)] /\ Exists(row[r])
            /\ UNCHANGED <<open, faults>>
        BY <2>3 DEF FinishRun, work
      <3>2. Finished(row[r], s) \in Row
        BY <1>1, RowParts DEF RowTypes
      <3> QED
        BY <1>1, <3>1, <3>2, RowsOne
    <2> QED
      BY <1>3, <2>1, <2>2, <2>3 DEF Runner
  <1>4. ASSUME NEW r \in Runs, DeleteRun(r)
        PROVE  RowsStep
    <2>1. row' = [row EXCEPT ![r] = Gone] /\ UNCHANGED open /\ Fault(r) /\ row[r] \in Row
      BY <1>1, <1>4 DEF DeleteRun, RowTypes
    <2>2. faults' \in 0..MaxFaults
      BY <1>1, <2>1, FaultCounts
    <2>3. Gone \in Row /\ ~ Exists(Gone)
      BY <2>1, RowParts
    <2> QED
      BY <1>1, <2>1, <2>2, <2>3, RowsOne
  <1>5. ASSUME NEW r \in Runs, (open[r] = {} /\ GoesQuiet(r) /\ UNCHANGED work) \/ (GraceOver(r) /\ UNCHANGED work)
        PROVE  RowsStep
    <2>1. /\ \/ row' = [row EXCEPT ![r] = [row[r] EXCEPT !.quiet = TRUE]]
             \/ row' = [row EXCEPT ![r] = [row[r] EXCEPT !.recent = FALSE]]
          /\ UNCHANGED <<open, faults>> /\ row[r] \in Row
      BY <1>1, <1>5 DEF GoesQuiet, GraceOver, work, RowTypes
    <2>2. /\ [row[r] EXCEPT !.quiet = TRUE] \in Row /\ [row[r] EXCEPT !.recent = FALSE] \in Row
          /\ Exists([row[r] EXCEPT !.quiet = TRUE]) <=> Exists(row[r])
          /\ Exists([row[r] EXCEPT !.recent = FALSE]) <=> Exists(row[r])
      BY <2>1, RowParts
    <2> QED
      BY <1>1, <2>1, <2>2, RowsOne
  <1>6. ASSUME NEW r \in Runs, NEW s \in Sockets, SocketCloses(r, s)
        PROVE  RowsStep
    <2>1. /\ open' = [open EXCEPT ![r] = open[r] \ {s}] /\ row[r] \in Row
          /\ \/ UNCHANGED row
             \/ row[r].status = "running" /\ row' = [row EXCEPT ![r] = Abandoned(row[r])]
          /\ UNCHANGED faults \/ Fault(r)
      BY <1>1, <1>6 DEF SocketCloses, RowTypes
    <2>2. faults' \in 0..MaxFaults
      BY <1>1, <2>1, FaultCounts
    <2>3. open' \in [Runs -> SUBSET Sockets]
      BY <1>1, <2>1
    <2>4. Abandoned(row[r]) \in Row /\ (row[r].status = "running" => Exists(row[r]))
      BY <2>1, RowParts
    <2> QED
      BY <1>1, <2>1, <2>2, <2>3, <2>4, RowsOne, RowsSame
  <1>7. CASE \/ ReadSettles \/ \E old \in SUBSET Passed : PurgeVideos(old)
             \/ \E r \in Runs : PlayVideo(r)
    <2>1. row' = Settled /\ UNCHANGED <<open, faults>>
      BY <1>7 DEF ReadSettles, PlayVideo, PurgeVideos, work
    <2> QED
      BY <1>1, <2>1, RowsSettle
  <1>8. CASE Restart
    <2>1. PICK r \in Runs : Fault(r)
      BY <1>8 DEF Restart
    <2>2. faults' \in 0..MaxFaults
      BY <1>1, <2>1, FaultCounts
    <2>3. UNCHANGED row /\ open' \in [Runs -> SUBSET Sockets]
      BY <1>8 DEF Restart
    <2> QED
      BY <1>1, <2>2, <2>3, RowsSame
  <1>9. CASE \E r \in Runs : PlayerDone(r)
    BY <1>1, <1>9, RowsSame DEF PlayerDone
  <1> QED
    BY <1>2, <1>3, <1>4, <1>5, <1>6, <1>7, <1>8, <1>9 DEF Next

-----------------------------------------------------------------------------
(* Calls and their queues *)

\* A queue holds chunk calls of its video that have their bodies, each once, and only the
\* first of them is past its wait.
QueueInv == \A r \in Runs :
    /\ \A i \in 1..Len(queue[r]) :
         LET x == req[queue[r][i]]
         IN  x \in Pieces /\ x.run = r /\ x.at # "body" /\ (i > 1 => x.at = "queued")
    /\ \A i, j \in 1..Len(queue[r]) : queue[r][i] = queue[r][j] => i = j

\* A chunk call that has its body is in the queue of its video.
WaitInv == \A q \in Requests : req[q] \in Pieces /\ req[q].at # "body" =>
    \E i \in 1..Len(queue[req[q].run]) : queue[req[q].run][i] = q

CallInv == QueueInv /\ WaitInv

\* What a step can do to the calls.
CallsStay == UNCHANGED <<queue, req>>
CallsEnd == queue' = [r \in Runs |-> <<>>] /\ req' = [q \in Requests |-> Idle]
CallLeaves(q) == /\ req[q] # Idle /\ (req[q] \in Pieces => req[q].at = "body")
                 /\ req' = [req EXCEPT ![q] = Idle] /\ UNCHANGED queue
CallComes(q, x) == /\ req[q] = Idle /\ x \in Calls /\ (x \in Pieces => x.at = "body")
                   /\ req' = [req EXCEPT ![q] = x] /\ UNCHANGED queue
CallJoins(q) == /\ req[q] \in Pieces /\ req[q].at = "body"
                /\ req' = [req EXCEPT ![q] = [req[q] EXCEPT !.at = "queued"]]
                /\ queue' = [queue EXCEPT ![req[q].run] = Append(queue[req[q].run], q)]
First(q) == req[q] \in Pieces /\ req[q].at # "body" /\ Len(queue[req[q].run]) >= 1 /\ queue[req[q].run][1] = q
CallPops(q) == /\ First(q) /\ req' = [req EXCEPT ![q] = Idle]
               /\ queue' = [queue EXCEPT ![req[q].run] = Tail(queue[req[q].run])]
CallWorks(q, x) == /\ First(q) /\ x \in Pieces /\ x.run = req[q].run /\ x.seq = req[q].seq
                   /\ x.at \in {"reserved", "writing"}
                   /\ req' = [req EXCEPT ![q] = x] /\ UNCHANGED queue

CallKeeps == req' \in [Requests -> Calls \cup {Idle}] /\ queue' \in [Runs -> Seq(Requests)] /\ CallInv'

LEMMA PieceParts ==
  ASSUME NEW x \in Pieces
  PROVE  /\ x.run \in Runs /\ x.seq \in Seqs /\ x.op = "chunk" /\ x \in Calls /\ x # Idle
         /\ x.off \in Nat /\ x.put \in Nat /\ x.at \in {"body", "queued", "reserved", "writing"}
  BY DEF Pieces, Calls, Idle

LEMMA IdleIsNone == Idle \notin Calls /\ Idle \notin Pieces /\ Idle.op = "none"
  BY DEF Idle, Calls, Openings, Endings, Pieces

LEMMA CallTypes ==
  ASSUME TypeInv
  PROVE  /\ \A q \in Requests : req[q] \in Calls \cup {Idle}
         /\ req \in [Requests -> Calls \cup {Idle}]
         /\ queue \in [Runs -> Seq(Requests)]
         /\ \A r \in Runs : queue[r] \in Seq(Requests) /\ Len(queue[r]) \in Nat
         /\ \A r \in Runs : \A i \in 1..Len(queue[r]) : queue[r][i] \in Requests
  <1>1. req \in [Requests -> Calls \cup {Idle}] /\ queue \in [Runs -> Seq(Requests)]
    BY DEF TypeInv, RunnerTypes, StoreTypes
  <1>2. \A r \in Runs : queue[r] \in Seq(Requests)
    BY <1>1
  <1> QED
    BY <1>1, <1>2, LenProperties, ElementOfSeq

\* A call whose turn it is is the first of its queue.
LEMMA TurnParts ==
  ASSUME TypeInv, CallInv, NEW q \in Requests, NEW at \in {"queued", "reserved", "writing"}, Turn(q, at)
  PROVE  First(q) /\ req[q].at = at /\ req[q].run \in Runs /\ req[q].seq \in Seqs
  <1> DEFINE r == req[q].run
  <1>1. req[q] \in Pieces /\ req[q].at = at
    BY CallTypes, CallParts DEF Turn
  <1>2. r \in Runs /\ req[q].seq \in Seqs
    BY <1>1, PieceParts
  <1>3. PICK i \in 1..Len(queue[r]) : queue[r][i] = q
    BY <1>1 DEF CallInv, WaitInv
  <1>4. Len(queue[r]) \in Nat /\ queue[r] \in Seq(Requests)
    BY <1>2, CallTypes
  <1>5. Len(queue[r]) >= 1
    BY <1>3, <1>4
  <1>6. Head(queue[r]) = queue[r][1]
    BY <1>4, <1>5, HeadTailProperties
  <1> QED
    BY <1>1, <1>2, <1>5, <1>6 DEF Turn, First

\* A call past its wait is the first of its queue.
LEMMA HeldIsFirst ==
  ASSUME TypeInv, CallInv, NEW q \in Requests, req[q] \in Pieces, req[q].at \in {"reserved", "writing"}
  PROVE  First(q)
  <1> DEFINE r == req[q].run
  <1>1. r \in Runs /\ Len(queue[r]) \in Nat
    BY PieceParts, CallTypes
  <1>2. PICK i \in 1..Len(queue[r]) : queue[r][i] = q
    BY DEF CallInv, WaitInv
  <1>3. ~(i > 1)
    BY <1>1, <1>2 DEF CallInv, QueueInv
  <1>4. i = 1
    BY <1>1, <1>2, <1>3
  <1> QED
    BY <1>1, <1>2, <1>4 DEF First

LEMMA StayKeeps ==
  ASSUME TypeInv, CallInv, CallsStay
  PROVE  CallKeeps
  BY CallTypes DEF CallsStay, CallKeeps, CallInv, QueueInv, WaitInv

LEMMA EndKeeps ==
  ASSUME TypeInv, CallsEnd
  PROVE  CallKeeps
  <1>1. Len(<<>>) = 0 /\ <<>> \in Seq(Requests)
    BY EmptySeq
  <1>2. \A r \in Runs : queue'[r] = <<>>
    BY DEF CallsEnd
  <1>3. \A q \in Requests : req'[q] = Idle
    BY DEF CallsEnd
  <1>4. QueueInv'
    BY <1>1, <1>2 DEF QueueInv
  <1>5. WaitInv'
    BY <1>3, IdleIsNone DEF WaitInv
  <1>6. req' \in [Requests -> Calls \cup {Idle}] /\ queue' \in [Runs -> Seq(Requests)]
    BY <1>1 DEF CallsEnd
  <1> QED
    BY <1>4, <1>5, <1>6 DEF CallKeeps, CallInv

\* A call that is in no queue, before and after, changes nothing of them.
LEMMA OutsideKeeps ==
  ASSUME TypeInv, CallInv, NEW q \in Requests, NEW x \in Calls \cup {Idle}, req[q] \in Pieces => req[q].at = "body",
         x \in Pieces => x.at = "body", req' = [req EXCEPT ![q] = x], UNCHANGED queue
  PROVE  CallKeeps
  <1>1. req' \in [Requests -> Calls \cup {Idle}] /\ req'[q] = x /\ \A p \in Requests : p # q => req'[p] = req[p]
    BY CallTypes
  <1>2. ASSUME NEW r \in Runs, NEW i \in 1..Len(queue[r])
        PROVE  req'[queue[r][i]] = req[queue[r][i]]
    <2>1. req[queue[r][i]] \in Pieces /\ req[queue[r][i]].at # "body"
      BY DEF CallInv, QueueInv
    <2>2. queue[r][i] \in Requests
      BY CallTypes
    <2> QED
      BY <1>1, <2>1, <2>2
  <1>3. QueueInv'
    BY <1>2 DEF CallInv, QueueInv
  <1>4. WaitInv'
    BY <1>1 DEF CallInv, WaitInv
  <1> QED
    BY <1>1, <1>3, <1>4, CallTypes DEF CallKeeps, CallInv

LEMMA LeavesKeeps ==
  ASSUME TypeInv, CallInv, NEW q \in Requests, CallLeaves(q)
  PROVE  CallKeeps
  BY OutsideKeeps, IdleIsNone DEF CallLeaves

LEMMA ComesKeeps ==
  ASSUME TypeInv, CallInv, NEW q \in Requests, NEW x, CallComes(q, x)
  PROVE  CallKeeps
  BY OutsideKeeps, IdleIsNone DEF CallComes

LEMMA JoinsKeeps ==
  ASSUME TypeInv, CallInv, NEW q \in Requests, CallJoins(q)
  PROVE  CallKeeps
  <1> DEFINE r == req[q].run  x == [req[q] EXCEPT !.at = "queued"]  s == queue[r]
  <1>1. req[q] \in Pieces /\ req[q].at = "body" /\ r \in Runs /\ s \in Seq(Requests) /\ Len(s) \in Nat
    BY PieceParts, CallTypes DEF CallJoins
  <1>2. x \in Pieces /\ x.at = "queued" /\ x.run = r
    BY <1>1 DEF Pieces
  <1>3. req' \in [Requests -> Calls \cup {Idle}] /\ req'[q] = x /\ \A p \in Requests : p # q => req'[p] = req[p]
    BY <1>2, CallTypes, PieceParts DEF CallJoins
  <1>4. /\ Append(s, q) \in Seq(Requests) /\ Len(Append(s, q)) = Len(s) + 1
        /\ \A i \in 1..Len(s) : Append(s, q)[i] = s[i]
        /\ Append(s, q)[Len(s) + 1] = q
    BY <1>1, AppendProperties
  <1>5. queue' \in [Runs -> Seq(Requests)] /\ queue'[r] = Append(s, q) /\ \A u \in Runs : u # r => queue'[u] = queue[u]
    BY <1>1, <1>4, CallTypes DEF CallJoins
  <1>6. ASSUME NEW u \in Runs, NEW i \in 1..Len(queue[u])
        PROVE  queue[u][i] # q /\ queue[u][i] \in Requests /\ req'[queue[u][i]] = req[queue[u][i]]
    <2>1. req[queue[u][i]].at # "body" /\ queue[u][i] \in Requests
      BY CallTypes DEF CallInv, QueueInv
    <2> QED
      BY <1>1, <1>3, <2>1
  <1> HIDE DEF x
  <1>7. QueueInv'
    <2>1. ASSUME NEW u \in Runs
          PROVE  /\ \A i \in 1..Len(queue'[u]) :
                      /\ req'[queue'[u][i]] \in Pieces /\ req'[queue'[u][i]].run = u
                      /\ req'[queue'[u][i]].at # "body" /\ (i > 1 => req'[queue'[u][i]].at = "queued")
                 /\ \A i, j \in 1..Len(queue'[u]) : queue'[u][i] = queue'[u][j] => i = j
      <3>1. CASE u # r
        BY <1>5, <1>6, <3>1 DEF CallInv, QueueInv
      <3>2. CASE u = r
        <4>1. \A i \in 1..Len(s) : /\ req[s[i]] \in Pieces /\ req[s[i]].run = r
                                   /\ req[s[i]].at # "body" /\ (i > 1 => req[s[i]].at = "queued")
          BY <1>1 DEF CallInv, QueueInv
        <4>2. \A i, j \in 1..Len(s) : s[i] = s[j] => i = j
          BY <1>1 DEF CallInv, QueueInv
        <4>3. \A i \in 1..Len(s) : s[i] # q /\ req'[s[i]] = req[s[i]]
          BY <1>1, <1>6
        <4> HIDE DEF s
        <4>4. \A i \in 1..Len(s) + 1 : i \in 1..Len(s) \/ i = Len(s) + 1
          BY <1>1
        <4> HIDE DEF r
        <4>5. \A i \in 1..Len(queue'[u]) :
                /\ req'[queue'[u][i]] \in Pieces /\ req'[queue'[u][i]].run = u
                /\ req'[queue'[u][i]].at # "body" /\ (i > 1 => req'[queue'[u][i]].at = "queued")
          <5>1. Len(queue'[u]) = Len(s) + 1 /\ queue'[u] = Append(s, q)
            BY <1>4, <1>5, <3>2
          <5>2. ASSUME NEW i \in 1..Len(queue'[u]), i \in 1..Len(s)
                PROVE  req'[queue'[u][i]] = req[s[i]]
            BY <1>4, <4>3, <5>1, <5>2
          <5>3. ASSUME NEW i \in 1..Len(queue'[u]), i = Len(s) + 1
                PROVE  req'[queue'[u][i]] = x
            BY <1>3, <1>4, <5>1, <5>3
          <5>4. \A i \in 1..Len(queue'[u]) : i \in 1..Len(s) \/ i = Len(s) + 1
            BY <4>4, <5>1
          <5> QED
            BY <1>2, <3>2, <4>1, <5>2, <5>3, <5>4
        <4>6. \A i, j \in 1..Len(queue'[u]) : queue'[u][i] = queue'[u][j] => i = j
          BY <1>2, <1>3, <1>4, <1>5, <3>2, <4>2, <4>3, <4>4
        <4> QED
          BY <4>5, <4>6
      <3> QED
        BY <3>1, <3>2
    <2> QED
      BY <2>1 DEF QueueInv
  <1>8. WaitInv'
    <2>1. ASSUME NEW p \in Requests, req'[p] \in Pieces, req'[p].at # "body"
          PROVE  \E i \in 1..Len(queue'[req'[p].run]) : queue'[req'[p].run][i] = p
      <3>1. CASE p = q
        <4>1. Len(s) + 1 \in 1..Len(queue'[r]) /\ queue'[r][Len(s) + 1] = q /\ req'[p].run = r
          BY <1>1, <1>2, <1>3, <1>4, <1>5, <3>1
        <4> QED
          BY <3>1, <4>1
      <3>2. CASE p # q
        <4>1. req'[p] = req[p] /\ req[p].run \in Runs
          BY <1>3, <2>1, <3>2, PieceParts
        <4> DEFINE u == req[p].run
        <4>2. PICK i \in 1..Len(queue[u]) : queue[u][i] = p
          BY <2>1, <4>1 DEF CallInv, WaitInv
        <4>3. CASE u = r
          <5>1. i \in 1..Len(queue'[u]) /\ queue'[u][i] = p
            BY <1>1, <1>4, <1>5, <4>2, <4>3, SMTT(20)
          <5> QED
            BY <4>1, <5>1
        <4>4. CASE u # r
          BY <1>5, <4>1, <4>2, <4>4
        <4> QED
          BY <4>3, <4>4
      <3> QED
        BY <3>1, <3>2
    <2> QED
      BY <2>1 DEF WaitInv
  <1> QED
    BY <1>3, <1>5, <1>7, <1>8 DEF CallKeeps, CallInv

LEMMA PopsKeeps ==
  ASSUME TypeInv, CallInv, NEW q \in Requests, CallPops(q)
  PROVE  CallKeeps
  <1> DEFINE r == req[q].run  s == queue[r]
  <1>1. /\ req[q] \in Pieces /\ req[q].at # "body" /\ r \in Runs /\ s \in Seq(Requests) /\ Len(s) \in Nat
        /\ Len(s) >= 1 /\ s[1] = q
    BY PieceParts, CallTypes DEF CallPops, First
  <1>2. req' \in [Requests -> Calls \cup {Idle}] /\ req'[q] = Idle /\ \A p \in Requests : p # q => req'[p] = req[p]
    BY CallTypes DEF CallPops
  <1>3. s # <<>>
    BY <1>1
  <1>4. Tail(s) \in Seq(Requests) /\ Len(Tail(s)) = Len(s) - 1 /\ \A i \in 1..Len(s) - 1 : Tail(s)[i] = s[i + 1]
    BY <1>1, <1>3, HeadTailProperties
  <1>5. queue' \in [Runs -> Seq(Requests)] /\ queue'[r] = Tail(s) /\ \A u \in Runs : u # r => queue'[u] = queue[u]
    BY <1>1, <1>4, CallTypes DEF CallPops
  <1>6. ASSUME NEW u \in Runs, u # r, NEW i \in 1..Len(queue[u])
        PROVE  queue[u][i] # q /\ queue[u][i] \in Requests /\ req'[queue[u][i]] = req[queue[u][i]]
    <2>1. req[queue[u][i]].run = u /\ queue[u][i] \in Requests
      BY CallTypes DEF CallInv, QueueInv
    <2> QED
      BY <1>1, <1>2, <1>6, <2>1
  <1>7. /\ \A i \in 1..Len(s) : /\ req[s[i]] \in Pieces /\ req[s[i]].run = r /\ s[i] \in Requests
                                /\ req[s[i]].at # "body" /\ (i > 1 => req[s[i]].at = "queued")
        /\ \A i, j \in 1..Len(s) : s[i] = s[j] => i = j
    BY <1>1, CallTypes DEF CallInv, QueueInv
  <1>8. \A i \in 2..Len(s) : s[i] # q /\ req'[s[i]] = req[s[i]]
    <2> HIDE DEF s, r
    <2> QED
      BY <1>1, <1>2, <1>7
  <1>9. QueueInv'
    <2>1. ASSUME NEW u \in Runs
          PROVE  /\ \A i \in 1..Len(queue'[u]) :
                      /\ req'[queue'[u][i]] \in Pieces /\ req'[queue'[u][i]].run = u
                      /\ req'[queue'[u][i]].at # "body" /\ (i > 1 => req'[queue'[u][i]].at = "queued")
                 /\ \A i, j \in 1..Len(queue'[u]) : queue'[u][i] = queue'[u][j] => i = j
      <3>1. CASE u # r
        <4>1. queue'[u] = queue[u]
          BY <1>5, <3>1
        <4>2. /\ \A i \in 1..Len(queue[u]) :
                   /\ req[queue[u][i]] \in Pieces /\ req[queue[u][i]].run = u
                   /\ req[queue[u][i]].at # "body" /\ (i > 1 => req[queue[u][i]].at = "queued")
              /\ \A i, j \in 1..Len(queue[u]) : queue[u][i] = queue[u][j] => i = j
          BY DEF CallInv, QueueInv
        <4>3. \A i \in 1..Len(queue[u]) : req'[queue[u][i]] = req[queue[u][i]]
          BY <1>6, <3>1
        <4> HIDE DEF s, r
        <4> QED
          BY ONLY <4>1, <4>2, <4>3
      <3>2. CASE u = r
        <4> HIDE DEF s, r
        <4>1. \A i \in 1..Len(s) - 1 : i + 1 \in 2..Len(s) /\ i + 1 \in 1..Len(s) /\ i + 1 > 1
          BY <1>1
        <4>2. queue'[u] = Tail(s) /\ Len(queue'[u]) = Len(s) - 1 /\ \A i \in 1..Len(s) - 1 : queue'[u][i] = s[i + 1]
          BY <1>4, <1>5, <3>2
        <4>3. \A i \in 1..Len(s) - 1 :
                /\ req'[queue'[u][i]] \in Pieces /\ req'[queue'[u][i]].run = u
                /\ req'[queue'[u][i]].at = "queued"
          BY <1>7, <1>8, <3>2, <4>1, <4>2
        <4>4. \A i, j \in 1..Len(s) - 1 : queue'[u][i] = queue'[u][j] => i = j
          <5>1. ASSUME NEW i \in 1..Len(s) - 1, NEW j \in 1..Len(s) - 1, queue'[u][i] = queue'[u][j]
                PROVE  i = j
            <6>1. s[i + 1] = s[j + 1] /\ i + 1 \in 1..Len(s) /\ j + 1 \in 1..Len(s)
              BY <4>1, <4>2, <5>1
            <6>2. i + 1 = j + 1
              BY <1>7, <6>1
            <6> QED
              BY <6>2
          <5> QED
            BY <5>1
        <4> QED
          BY <4>2, <4>3, <4>4
      <3> QED
        BY <3>1, <3>2
    <2> QED
      BY <2>1 DEF QueueInv
  <1>10. WaitInv'
    <2>1. ASSUME NEW p \in Requests, req'[p] \in Pieces, req'[p].at # "body"
          PROVE  \E i \in 1..Len(queue'[req'[p].run]) : queue'[req'[p].run][i] = p
      <3>1. p # q
        BY <1>2, <2>1, IdleIsNone
      <3>2. req'[p] = req[p] /\ req[p].run \in Runs
        BY <1>2, <2>1, <3>1, PieceParts
      <3> DEFINE u == req[p].run
      <3>3. PICK i \in 1..Len(queue[u]) : queue[u][i] = p
        BY <2>1, <3>2 DEF CallInv, WaitInv
      <3>4. CASE u = r
        <4>1. i # 1 /\ i \in 1..Len(s)
          BY <1>1, <3>1, <3>3, <3>4
        <4>2. i - 1 \in 1..Len(s) - 1 /\ (i - 1) + 1 = i
          BY <1>1, <4>1
        <4>3. queue'[u][i - 1] = p /\ i - 1 \in 1..Len(queue'[u])
          BY <1>4, <1>5, <3>3, <3>4, <4>2
        <4> QED
          BY <3>2, <4>3
      <3>5. CASE u # r
        BY <1>5, <3>2, <3>3, <3>5
      <3> QED
        BY <3>4, <3>5
    <2> QED
      BY <2>1 DEF WaitInv
  <1> QED
    BY <1>2, <1>5, <1>9, <1>10 DEF CallKeeps, CallInv

LEMMA WorksKeeps ==
  ASSUME TypeInv, CallInv, NEW q \in Requests, NEW x, CallWorks(q, x)
  PROVE  CallKeeps
  <1> DEFINE r == req[q].run
  <1>1. /\ req[q] \in Pieces /\ req[q].at # "body" /\ r \in Runs /\ Len(queue[r]) >= 1 /\ queue[r][1] = q
        /\ x \in Pieces /\ x.run = r /\ x.at # "body" /\ UNCHANGED queue
    BY PieceParts DEF CallWorks, First
  <1>2. req' \in [Requests -> Calls \cup {Idle}] /\ req'[q] = x /\ \A p \in Requests : p # q => req'[p] = req[p]
    BY <1>1, CallTypes, PieceParts DEF CallWorks
  <1>3. ASSUME NEW u \in Runs, NEW i \in 1..Len(queue[u])
        PROVE  /\ req'[queue[u][i]] \in Pieces /\ req'[queue[u][i]].run = u /\ req'[queue[u][i]].at # "body"
               /\ i > 1 => req'[queue[u][i]].at = "queued"
    <2>1. /\ req[queue[u][i]] \in Pieces /\ req[queue[u][i]].run = u /\ req[queue[u][i]].at # "body"
          /\ i > 1 => req[queue[u][i]].at = "queued"
          /\ queue[u][i] \in Requests
      BY CallTypes DEF CallInv, QueueInv
    <2>2. CASE queue[u][i] = q
      <3>1. u = r
        BY <2>1, <2>2
      <3>2. 1 \in 1..Len(queue[r]) /\ Len(queue[r]) \in Nat
        BY <1>1, CallTypes
      <3>3. i = 1
        BY <1>1, <2>2, <3>1, <3>2 DEF CallInv, QueueInv
      <3> QED
        BY <1>1, <1>2, <2>2, <3>1, <3>3
    <2>3. CASE queue[u][i] # q
      BY <1>2, <2>1, <2>3
    <2> QED
      BY <2>2, <2>3
  <1>4. QueueInv'
    BY <1>1, <1>3 DEF CallInv, QueueInv
  <1>5. WaitInv'
    BY <1>1, <1>2 DEF CallInv, WaitInv
  <1> QED
    BY <1>1, <1>2, <1>4, <1>5, CallTypes DEF CallKeeps, CallInv

-----------------------------------------------------------------------------
(* What each step does to the calls *)

\* The call of a lane's item.
LEMMA CallOf ==
  ASSUME TypeInv, NEW r \in Runs
  PROVE  /\ Call(r) \in Calls /\ Answers(r, Call(r))
         /\ Call(r) \in Pieces => Item(r) = "chunk" /\ Call(r).at = "body"
  <1>1. /\ Item(r) \in {"open", "chunk", "end"}
        /\ Item(r) = "chunk" => Seq0(r) \in Seqs
        /\ tap[r].n \in 0..(MaxSeq + 1) /\ MaxSeq \in Nat
    BY ItemParts DEF TypeInv
  <1>2. CASE Item(r) = "open"
    <2>1. Call(r) = [op |-> "open", run |-> r]
      BY <1>2 DEF Call
    <2> QED
      BY <1>2, <2>1 DEF Calls, Openings, Pieces, Answers
  <1>3. CASE Item(r) = "chunk"
    <2>1. Call(r) = [op |-> "chunk", run |-> r, seq |-> Seq0(r), at |-> "body", off |-> 0, put |-> 0]
      BY <1>3 DEF Call
    <2> QED
      BY <1>1, <1>3, <2>1 DEF Calls, Pieces, Answers
  <1>4. CASE Item(r) = "end"
    <2> DEFINE why == IF lane[r].tailLost THEN "truncated" ELSE "done"
    <2>1. Call(r) = [op |-> "end", run |-> r, last |-> tap[r].n - 1, reason |-> why]
      BY <1>4 DEF Call
    <2>2. why \in {"done", "truncated"} /\ tap[r].n - 1 \in -1..MaxSeq
      BY <1>1
    <2> HIDE DEF why
    <2> QED
      BY <1>4, <2>1, <2>2 DEF Calls, Endings, Pieces, Answers
  <1> QED
    BY <1>1, <1>2, <1>3, <1>4

LEMMA SendCalls ==
  ASSUME TypeInv, NEW r \in Runs, Send(r)
  PROVE  \/ AtHeaders(r) # "body" /\ CallsStay /\ lane' = [lane EXCEPT ![r] = After(r, AtHeaders(r))]
         \/ \E q \in Requests : /\ AtHeaders(r) = "body" /\ Free(q) /\ CallComes(q, Call(r))
                                /\ lane' = [lane EXCEPT ![r].wait = q, ![r].awaiting = @ /\ Item(r) # "chunk"]
  <1>1. CASE AtHeaders(r) # "body"
    BY <1>1 DEF Send, CallsStay
  <1>2. CASE AtHeaders(r) = "body"
    <2>1. AFree \in Requests /\ Free(AFree)
      BY DEF Send, AFree
    <2>2. req[AFree] = Idle
      BY <2>1 DEF Free
    <2>3. /\ req' = [req EXCEPT ![AFree] = Call(r)] /\ UNCHANGED queue
          /\ lane' = [lane EXCEPT ![r].wait = AFree, ![r].awaiting = @ /\ Item(r) # "chunk"]
      BY <1>2 DEF Send
    <2>4. CallComes(AFree, Call(r))
      BY <2>2, <2>3, CallOf DEF CallComes
    <2> QED
      BY <1>2, <2>1, <2>3, <2>4
  <1> QED
    BY <1>1, <1>2

LEMMA OpenCalls ==
  ASSUME TypeInv, NEW q \in Requests, OpenVideo(q) \/ EndVideo(q) \/ BodyLost(q)
  PROVE  CallLeaves(q)
  <1>1. req[q] # Idle /\ (req[q] \in Pieces => req[q].at = "body")
    <2>1. CASE OpenVideo(q) \/ EndVideo(q)
      <3>1. req[q].op \in {"open", "end"}
        BY <2>1 DEF OpenVideo, EndVideo
      <3> QED
        BY <3>1, IdleIsNone, PieceParts
    <2>2. CASE BodyLost(q)
      BY <2>2, PieceParts DEF BodyLost
    <2> QED
      BY <2>1, <2>2
  <1>2. req' = [req EXCEPT ![q] = Idle] /\ UNCHANGED queue
    BY DEF OpenVideo, EndVideo, BodyLost, Reply
  <1> QED
    BY <1>1, <1>2 DEF CallLeaves

LEMMA BodyCalls ==
  ASSUME TypeInv, NEW q \in Requests, ChunkBody(q)
  PROVE  CallJoins(q)
  <1>1. req[q] \in Pieces /\ req[q].at = "body"
    BY CallTypes, CallParts DEF ChunkBody
  <1> QED
    BY <1>1 DEF ChunkBody, CallJoins

\* The steps that end a chunk's turn.
Ending(q) ==
    \/ RefuseChunk(q) \/ NoRoom(q) \/ WriteFails(q) \/ CommitChunk(q)
    \/ OpenFile(q) /\ file[req[q].run] = NoFile

LEMMA EndingCalls ==
  ASSUME TypeInv, CallInv, NEW q \in Requests, Ending(q)
  PROVE  CallPops(q)
  <1>1. \E at \in {"queued", "reserved", "writing"} : Turn(q, at)
    BY DEF Ending, RefuseChunk, NoRoom, WriteFails, CommitChunk, OpenFile
  <1>2. First(q)
    BY <1>1, TurnParts
  <1>3. Done(req[q].run) /\ req' = [req EXCEPT ![q] = Idle]
    BY DEF Ending, RefuseChunk, NoRoom, WriteFails, CommitChunk, OpenFile, Reply
  <1> QED
    BY <1>2, <1>3 DEF CallPops, Done

\* The call after a step of its turn.
Worked(q) ==
    IF req[q].at = "queued"   THEN [req[q] EXCEPT !.at = "reserved", !.off = Offset(req[q].run)]
    ELSE IF req[q].at = "reserved" THEN [req[q] EXCEPT !.at = "writing"]
    ELSE [req[q] EXCEPT !.put = @ + 1]

Working(q) ==
    \/ ReserveChunk(q) \/ WriteCell(q)
    \/ OpenFile(q) /\ file[req[q].run] # NoFile

LEMMA WorkingCalls ==
  ASSUME TypeInv, CallInv, NEW q \in Requests, Working(q)
  PROVE  /\ CallWorks(q, Worked(q))
         /\ ReserveChunk(q) => req[q].at = "queued"
         /\ OpenFile(q) => req[q].at = "reserved"
         /\ WriteCell(q) => req[q].at = "writing"
  <1> DEFINE r == req[q].run
  <1>1. PICK at \in {"queued", "reserved", "writing"} : Turn(q, at)
    BY DEF Working, ReserveChunk, WriteCell, OpenFile
  <1>2. First(q) /\ req[q].at = at /\ r \in Runs
    BY <1>1, TurnParts
  <1>3. req[q] \in Pieces /\ Offset(r) \in Nat
    BY <1>2 DEF First, Offset, TypeInv, StoreTypes, VideoRows
  <1>4. UNCHANGED queue
    BY DEF Working, ReserveChunk, WriteCell, OpenFile
  <1>5. CASE ReserveChunk(q)
    <2>1. req[q].at = "queued" /\ req' = [req EXCEPT ![q].at = "reserved", ![q].off = Offset(r)]
      BY <1>5 DEF ReserveChunk, Turn
    <2>2. Worked(q) \in Pieces /\ Worked(q).run = r /\ Worked(q).seq = req[q].seq /\ Worked(q).at = "reserved"
      BY <1>3, <2>1 DEF Worked, Pieces
    <2>3. req' = [req EXCEPT ![q] = Worked(q)]
      BY <2>1 DEF Worked
    <2>4. ~ OpenFile(q) /\ ~ WriteCell(q)
      BY <2>1 DEF OpenFile, WriteCell, Turn
    <2> QED
      BY <1>2, <1>4, <2>1, <2>2, <2>3, <2>4 DEF CallWorks
  <1>6. CASE WriteCell(q)
    <2>1. req[q].at = "writing" /\ req' = [req EXCEPT ![q].put = @ + 1]
      BY <1>6 DEF WriteCell, Turn
    <2>2. Worked(q) \in Pieces /\ Worked(q).run = r /\ Worked(q).seq = req[q].seq /\ Worked(q).at = "writing"
      BY <1>3, <2>1 DEF Worked, Pieces
    <2>3. req' = [req EXCEPT ![q] = Worked(q)]
      BY <2>1 DEF Worked
    <2>4. ~ OpenFile(q) /\ ~ ReserveChunk(q)
      BY <2>1 DEF OpenFile, ReserveChunk, Turn
    <2> QED
      BY <1>2, <1>4, <2>1, <2>2, <2>3, <2>4 DEF CallWorks
  <1>7. CASE OpenFile(q) /\ file[req[q].run] # NoFile
    <2>1. req[q].at = "reserved" /\ req' = [req EXCEPT ![q].at = "writing"]
      BY <1>7 DEF OpenFile, Turn
    <2>2. Worked(q) \in Pieces /\ Worked(q).run = r /\ Worked(q).seq = req[q].seq /\ Worked(q).at = "writing"
      BY <1>3, <2>1 DEF Worked, Pieces
    <2>3. req' = [req EXCEPT ![q] = Worked(q)]
      BY <2>1 DEF Worked
    <2>4. ~ WriteCell(q) /\ ~ ReserveChunk(q)
      BY <2>1 DEF WriteCell, ReserveChunk, Turn
    <2> QED
      BY <1>2, <1>4, <2>1, <2>2, <2>3, <2>4 DEF CallWorks
  <1> QED
    BY <1>5, <1>6, <1>7 DEF Working

\* Steps that leave every call where it is.
Aside ==
    \/ \E r \in Runs : Cut(r) \/ Skip(r) \/ GiveUp(r) \/ LaneStops(r) \/ DeleteRun(r)
    \/ \E r \in Runs : \E failed \in BOOLEAN, rest \in 0..1 : FlowOver(r, failed, rest)
    \/ \E r \in Runs : \E s \in Outcomes : FinishRun(r, s)
    \/ \E r \in Runs : (GoesQuiet(r) \/ GraceOver(r)) /\ UNCHANGED work
    \/ \E r \in Runs : \E s \in Sockets : SocketCloses(r, s)
    \/ ReadSettles
    \/ \E r \in Runs : PlayVideo(r) \/ PlayerDone(r)
    \/ \E old \in SUBSET Passed : PurgeVideos(old)

LEMMA AsideCalls ==
  ASSUME Aside
  PROVE  CallsStay
  BY DEF Aside, Cut, Skip, GiveUp, LaneStops, DeleteRun, FlowOver, FinishRun, SocketCloses, ReadSettles, PlayVideo, PlayerDone,
         PurgeVideos, work, CallsStay

\* Every step is one of these.
LEMMA StepKinds ==
  ASSUME Next
  PROVE  \/ Aside \/ Restart
         \/ \E r \in Runs : Send(r)
         \/ \E q \in Requests : OpenVideo(q) \/ EndVideo(q) \/ BodyLost(q)
         \/ \E q \in Requests : ChunkBody(q)
         \/ \E q \in Requests : Ending(q)
         \/ \E q \in Requests : Working(q)
  BY DEF Next, Handle, Runner, Aside, Ending, Working

LEMMA CallsMove ==
  ASSUME TypeInv, CallInv, Next
  PROVE  CallKeeps
  <1>1. CASE Aside
    BY <1>1, AsideCalls, StayKeeps
  <1>2. CASE Restart
    BY <1>2, EndKeeps DEF Restart, CallsEnd
  <1>3. ASSUME NEW r \in Runs, Send(r)
        PROVE  CallKeeps
    BY <1>3, SendCalls, StayKeeps, ComesKeeps
  <1>4. ASSUME NEW q \in Requests, OpenVideo(q) \/ EndVideo(q) \/ BodyLost(q)
        PROVE  CallKeeps
    BY <1>4, OpenCalls, LeavesKeeps
  <1>5. ASSUME NEW q \in Requests, ChunkBody(q)
        PROVE  CallKeeps
    BY <1>5, BodyCalls, JoinsKeeps
  <1>6. ASSUME NEW q \in Requests, Ending(q)
        PROVE  CallKeeps
    BY <1>6, EndingCalls, PopsKeeps
  <1>7. ASSUME NEW q \in Requests, Working(q)
        PROVE  CallKeeps
    BY <1>7, WorkingCalls, WorksKeeps
  <1> QED
    BY <1>1, <1>2, <1>3, <1>4, <1>5, <1>6, <1>7, StepKinds

-----------------------------------------------------------------------------
(* The runner: taps and lanes *)

\* Only a send makes a call; every other step leaves a call what it asks, or ends it.
SameCalls == \A q \in Requests :
    \/ req'[q] = Idle
    \/ /\ req[q] # Idle /\ req'[q].run = req[q].run /\ req'[q].op = req[q].op
       /\ req[q].op = "chunk" => req'[q].seq = req[q].seq

LEMMA SameCallsOf ==
  ASSUME TypeInv
  PROVE  /\ CallsStay => SameCalls
         /\ CallsEnd => SameCalls
         /\ \A q \in Requests : CallLeaves(q) \/ CallPops(q) \/ CallJoins(q) => SameCalls
         /\ \A q \in Requests : \A x : CallWorks(q, x) => SameCalls
  <1>1. CallsStay => SameCalls
    BY DEF CallsStay, SameCalls
  <1>2. CallsEnd => SameCalls
    BY DEF CallsEnd, SameCalls
  <1>3. ASSUME NEW q \in Requests, CallLeaves(q) \/ CallPops(q)
        PROVE  SameCalls
    <2>1. req' = [req EXCEPT ![q] = Idle]
      BY <1>3 DEF CallLeaves, CallPops
    <2> QED
      BY <2>1, CallTypes DEF SameCalls
  <1>4. ASSUME NEW q \in Requests, NEW x \in Pieces, req[q] \in Pieces, x.run = req[q].run, x.seq = req[q].seq,
               req' = [req EXCEPT ![q] = x]
        PROVE  SameCalls
    <2>1. x.op = "chunk" /\ req[q].op = "chunk" /\ req[q] # Idle
      BY <1>4, PieceParts
    <2>2. req'[q] = x /\ \A p \in Requests : p # q => req'[p] = req[p]
      BY <1>4, CallTypes
    <2> QED
      BY <1>4, <2>1, <2>2 DEF SameCalls
  <1>5. ASSUME NEW q \in Requests, CallJoins(q)
        PROVE  SameCalls
    <2> DEFINE x == [req[q] EXCEPT !.at = "queued"]
    <2>1. x \in Pieces /\ req[q] \in Pieces /\ x.run = req[q].run /\ x.seq = req[q].seq /\ req' = [req EXCEPT ![q] = x]
      BY <1>5 DEF CallJoins, Pieces
    <2> QED
      BY <1>4, <2>1
  <1>6. ASSUME NEW q \in Requests, NEW x, CallWorks(q, x)
        PROVE  SameCalls
    BY <1>4, <1>6 DEF CallWorks, First
  <1> QED
    BY <1>1, <1>2, <1>3, <1>5, <1>6

\* The tap of a flow that is not over may have cut more.
TapGrows == \A r \in Runs :
    \/ tap'[r] = tap[r]
    \/ ~ tap[r].over /\ tap'[r] \in Taps /\ tap[r].n <= tap'[r].n

\* A lane is as it was, or waits for nothing and is at most one item further.
LaneMoves(r) ==
    \/ lane'[r] = lane[r]
    \/ /\ lane'[r] \in LanesType /\ lane'[r].wait = NoReq
       /\ \/ lane'[r].pos = lane[r].pos
          \/ HasItem(r) /\ lane'[r].pos = lane[r].pos + 1

LEMMA LaneParts ==
  ASSUME TypeInv, NEW r \in Runs
  PROVE  /\ lane[r] \in LanesType /\ tap[r] \in Taps
         /\ lane[r].pos \in Nat /\ tap[r].n \in Nat /\ tap[r].over \in BOOLEAN
         /\ HasItem(r) <=> lane[r].pos <= tap[r].n + (IF tap[r].over THEN 1 ELSE 0)
         /\ Item(r) \in {"open", "chunk", "end"}
         /\ Item(r) = "open" <=> lane[r].pos = 0
         /\ Item(r) = "chunk" <=> lane[r].pos \in 1..tap[r].n
         /\ Item(r) = "end" <=> lane[r].pos > tap[r].n
         /\ Seq0(r) = lane[r].pos - 1 /\ (Item(r) = "chunk" => Seq0(r) \in Seqs)
         /\ lane \in [Runs -> LanesType] /\ tap \in [Runs -> Taps] /\ took \in [Runs -> SUBSET Seqs]
  <1>1. RunnerTypes
    BY DEF TypeInv
  <1>2. lane[r] \in LanesType /\ tap[r] \in Taps
    BY <1>1 DEF RunnerTypes
  <1>3. tap[r].over \in BOOLEAN /\ lane[r].pos \in Nat /\ tap[r].n \in Nat
    BY <1>2 DEF Taps, LanesType
  <1> QED
    BY <1>1, <1>2, <1>3, ItemParts DEF Seq0, RunnerTypes

\* What a lane's item is stays while its flow goes on or is unchanged.
LEMMA ItemStays ==
  ASSUME TypeInv, TapGrows, NEW r \in Runs, lane'[r] = lane[r], HasItem(r)
  PROVE  HasItem(r)' /\ Item(r)' = Item(r) /\ Seq0(r)' = Seq0(r)
  <1>1. CASE tap'[r] = tap[r]
    BY <1>1 DEF HasItem, Item, Seq0
  <1>2. CASE ~ tap[r].over /\ tap'[r] \in Taps /\ tap[r].n <= tap'[r].n
    <2>1. lane[r].pos <= tap[r].n /\ lane[r].pos \in Nat /\ tap[r].n \in Nat
      BY <1>2, LaneParts
    <2>2. tap'[r].n \in Nat /\ tap'[r].over \in BOOLEAN
      BY <1>2 DEF Taps
    <2>3. lane'[r].pos <= tap'[r].n + (IF tap'[r].over THEN 1 ELSE 0)
      BY <1>2, <2>1, <2>2
    <2>4. CASE lane[r].pos = 0
      <3>1. /\ Item(r) = CASE lane[r].pos = 0 -> "open" [] lane[r].pos \in 1..tap[r].n -> "chunk" [] OTHER -> "end"
            /\ Item(r)' = CASE lane[r].pos = 0 -> "open" [] lane[r].pos \in 1..tap'[r].n -> "chunk" [] OTHER -> "end"
        BY DEF Item
      <3>2. lane[r].pos \notin 1..tap[r].n /\ lane[r].pos \notin 1..tap'[r].n
        BY <2>4
      <3> QED
        BY <2>3, <2>4, <3>1, <3>2 DEF HasItem, Seq0
    <2>5. CASE lane[r].pos # 0
      <3>1. lane[r].pos \in 1..tap[r].n /\ lane[r].pos \in 1..tap'[r].n
        BY <1>2, <2>1, <2>2, <2>5
      <3> QED
        BY <2>3, <2>5, <3>1 DEF HasItem, Item, Seq0
    <2> QED
      BY <2>4, <2>5
  <1> QED
    BY <1>1, <1>2 DEF TapGrows

LEMMA LanesFrom ==
  ASSUME TypeInv, LaneInv, SameCalls, TapGrows, \A r \in Runs : LaneMoves(r)
  PROVE  LaneInv'
  <1> SUFFICES ASSUME NEW r \in Runs
      PROVE  /\ lane'[r].pos <= tap'[r].n + (IF tap'[r].over THEN 2 ELSE 1)
             /\ lane'[r].wait # NoReq =>
                  /\ HasItem(r)' /\ ~ lane'[r].stopped
                  /\ req'[lane'[r].wait] # Idle => Answers(r, req[lane[r].wait])'
                  /\ \A s \in Runs : lane'[s].wait = lane'[r].wait => s = r
    BY DEF LaneInv
  <1>1. lane'[r].pos <= tap'[r].n + (IF tap'[r].over THEN 2 ELSE 1)
    <2>1. /\ lane[r].pos <= tap[r].n + (IF tap[r].over THEN 2 ELSE 1)
          /\ lane[r].pos \in Nat /\ tap[r].n \in Nat /\ tap[r].over \in BOOLEAN
          /\ HasItem(r) <=> lane[r].pos <= tap[r].n + (IF tap[r].over THEN 1 ELSE 0)
      BY LaneParts DEF LaneInv
    <2>2. lane'[r].pos <= tap[r].n + (IF tap[r].over THEN 2 ELSE 1) /\ lane'[r].pos \in Nat
      BY <2>1 DEF LaneMoves
    <2>3. CASE tap'[r] = tap[r]
      BY <2>2, <2>3
    <2>4. CASE ~ tap[r].over /\ tap'[r] \in Taps /\ tap[r].n <= tap'[r].n
      <3>1. tap'[r].n \in Nat /\ tap'[r].over \in BOOLEAN
        BY <2>4 DEF Taps
      <3> QED
        BY <2>1, <2>2, <2>4, <3>1
    <2> QED
      BY <2>3, <2>4 DEF TapGrows
  <1>2. ASSUME lane'[r].wait # NoReq
        PROVE  /\ HasItem(r)' /\ ~ lane'[r].stopped
               /\ req'[lane'[r].wait] # Idle => Answers(r, req[lane[r].wait])'
               /\ \A s \in Runs : lane'[s].wait = lane'[r].wait => s = r
    <2>1. lane'[r] = lane[r] /\ lane[r].wait # NoReq
      BY <1>2 DEF LaneMoves
    <2> DEFINE q == lane[r].wait
    <2>2. /\ HasItem(r) /\ ~ lane[r].stopped
          /\ req[q] # Idle => Answers(r, req[q])
          /\ \A s \in Runs : lane[s].wait = q => s = r
      BY <2>1 DEF LaneInv
    <2>3. q \in Requests
      BY <2>1, LaneParts DEF LanesType
    <2>4. HasItem(r)' /\ Item(r)' = Item(r) /\ Seq0(r)' = Seq0(r)
      BY <2>1, <2>2, ItemStays
    <2>5. ASSUME req'[q] # Idle
          PROVE  req'[q].run = r /\ req'[q].op = Item(r)' /\ (req'[q].op = "chunk" => req'[q].seq = Seq0(r)')
      BY <2>2, <2>3, <2>4, <2>5 DEF SameCalls, Answers
    <2>6. \A s \in Runs : lane'[s].wait = q => s = r
      <3>1. ASSUME NEW s \in Runs, lane'[s].wait = q
            PROVE  lane[s].wait = q
        BY <2>1, <3>1 DEF LaneMoves
      <3> QED
        BY <2>2, <3>1
    <2> QED
      BY <2>1, <2>2, <2>4, <2>5, <2>6 DEF Answers
  <1> QED
    BY <1>1, <1>2

\* An answer, and what it does to the lane of its run.
Replies(q, code) == req[q] # Idle /\ code \in Codes /\ Reply(q, req[q].run, code) /\ UNCHANGED tap

LEMMA ReplyParts ==
  ASSUME TypeInv, LaneInv, NEW q \in Requests, NEW code, Replies(q, code)
  PROVE  LET r == req[q].run IN
         /\ r \in Runs
         /\ lane' \in [Runs -> LanesType] /\ took' \in [Runs -> SUBSET Seqs]
         /\ \A s \in Runs : s # r => lane'[s] = lane[s] /\ took'[s] = took[s]
         /\ ~ Hears(r, q) => lane' = lane /\ took' = took
         /\ Hears(r, q) => /\ HasItem(r) /\ ~ lane[r].stopped /\ Answers(r, req[q])
                           /\ lane'[r] = After(r, code)
         /\ \/ took'[r] = took[r]
            \/ /\ Hears(r, q) /\ Item(r) = "chunk" /\ code = "ok"
               /\ took'[r] = took[r] \cup {Seq0(r)}
         /\ \A s \in Runs : LaneMoves(s)
  <1> DEFINE r == req[q].run
  <1>1. r \in Runs /\ code \in Codes
    BY CallTypes, CallParts DEF Replies
  <1>2. q # NoReq
    BY VideosAssumption
  <1>3. /\ lane' = IF Hears(r, q) THEN [lane EXCEPT ![r] = After(r, code)] ELSE lane
        /\ took' = IF Hears(r, q) /\ Item(r) = "chunk" /\ code = "ok"
                     THEN [took EXCEPT ![r] = @ \cup {Seq0(r)}] ELSE took
    BY DEF Replies, Reply
  <1>4. lane \in [Runs -> LanesType] /\ took \in [Runs -> SUBSET Seqs] /\ (Item(r) = "chunk" => Seq0(r) \in Seqs)
    BY <1>1, LaneParts
  <1>5. Hears(r, q) => HasItem(r) /\ ~ lane[r].stopped /\ Answers(r, req[q])
    BY <1>1, <1>2 DEF Hears, LaneInv, Replies
  <1>6. Hears(r, q) => /\ After(r, code) \in LanesType /\ After(r, code).wait = NoReq
                       /\ \/ After(r, code).pos = lane[r].pos
                          \/ After(r, code).pos = lane[r].pos + 1
    BY <1>1, <1>5, AfterParts DEF TypeInv
  <1> HIDE DEF r
  <1>7. /\ lane' \in [Runs -> LanesType] /\ took' \in [Runs -> SUBSET Seqs]
        /\ \A s \in Runs : s # r => lane'[s] = lane[s] /\ took'[s] = took[s]
        /\ ~ Hears(r, q) => lane' = lane /\ took' = took
        /\ Hears(r, q) => lane'[r] = After(r, code)
    BY <1>1, <1>3, <1>4, <1>6
  <1>8. \/ took'[r] = took[r]
        \/ /\ Hears(r, q) /\ Item(r) = "chunk" /\ code = "ok"
           /\ took'[r] = took[r] \cup {Seq0(r)}
    BY <1>1, <1>3, <1>4
  <1>9. \A s \in Runs : LaneMoves(s)
    BY <1>1, <1>5, <1>6, <1>7 DEF LaneMoves
  <1> QED
    BY <1>1, <1>5, <1>7, <1>8, <1>9 DEF r

LEMMA RefusedCodes ==
  ASSUME NEW r, NEW seq
  PROVE  Refused(r, seq) \in Codes \cup {"none"}
  BY DEF Refused, Codes

\* The handlers that answer.
LEMMA HandlersReply ==
  ASSUME TypeInv, CallInv, NEW q \in Requests
  PROVE  /\ OpenVideo(q) => \E code \in {"error", "conflict", "ok"} : Replies(q, code)
         /\ EndVideo(q) => \E code \in {"missing", "ok"} : Replies(q, code)
         /\ RefuseChunk(q) => Replies(q, Refused(req[q].run, req[q].seq))
         /\ NoRoom(q) => Replies(q, "full")
         /\ OpenFile(q) /\ file[req[q].run] = NoFile => Replies(q, "gone")
         /\ WriteFails(q) => Replies(q, "error")
         /\ CommitChunk(q) => Replies(q, "ok")
  <1>1. OpenVideo(q) \/ EndVideo(q) => req[q] # Idle
    BY IdleIsNone DEF OpenVideo, EndVideo
  <1>2. Ending(q) => req[q] # Idle
    BY EndingCalls, IdleIsNone DEF CallPops, First
  <1>3. OpenVideo(q) => \E code \in {"error", "conflict", "ok"} : Replies(q, code)
    <2>1. OpenVideo(q) => UNCHANGED tap /\ \E code \in {"error", "conflict", "ok"} : Reply(q, req[q].run, code)
      BY DEF OpenVideo
    <2> QED
      BY <1>1, <2>1 DEF Replies, Codes
  <1>4. EndVideo(q) => \E code \in {"missing", "ok"} : Replies(q, code)
    <2>1. EndVideo(q) => UNCHANGED tap /\ \E code \in {"missing", "ok"} : Reply(q, req[q].run, code)
      BY DEF EndVideo
    <2> QED
      BY <1>1, <2>1 DEF Replies, Codes
  <1>5. RefuseChunk(q) => Replies(q, Refused(req[q].run, req[q].seq))
    <2>1. RefuseChunk(q) => /\ UNCHANGED tap /\ Reply(q, req[q].run, Refused(req[q].run, req[q].seq))
                            /\ Refused(req[q].run, req[q].seq) # "none"
      BY DEF RefuseChunk
    <2> QED
      BY <1>2, <2>1, RefusedCodes DEF Replies, Ending
  <1>6. NoRoom(q) => Replies(q, "full")
    BY <1>2 DEF NoRoom, Ending, Replies, Codes
  <1>7. OpenFile(q) /\ file[req[q].run] = NoFile => Replies(q, "gone")
    BY <1>2 DEF OpenFile, Ending, Replies, Codes
  <1>8. WriteFails(q) => Replies(q, "error")
    BY <1>2 DEF WriteFails, Ending, Replies, Codes
  <1>9. CommitChunk(q) => Replies(q, "ok")
    BY <1>2 DEF CommitChunk, Ending, Replies, Codes
  <1> QED
    BY <1>3, <1>4, <1>5, <1>6, <1>7, <1>8, <1>9

\* Every lane and every history has its type; a lane only goes forward, and what has closed
\* or stopped stays so.
LaneKeeps ==
    /\ lane' \in [Runs -> LanesType] /\ tap' \in [Runs -> Taps] /\ took' \in [Runs -> SUBSET Seqs]
    /\ LaneInv'
    /\ \A r \in Runs : /\ lane[r].pos <= lane'[r].pos
                       /\ lane[r].closed => lane'[r].closed
                       /\ lane[r].stopped => lane'[r].stopped

LEMMA RepliesKeep ==
  ASSUME TypeInv, LaneInv, SameCalls, NEW q \in Requests, NEW code, Replies(q, code)
  PROVE  LaneKeeps
  <1> DEFINE r == req[q].run
  <1>1. /\ r \in Runs
        /\ lane' \in [Runs -> LanesType] /\ took' \in [Runs -> SUBSET Seqs]
        /\ \A s \in Runs : s # r => lane'[s] = lane[s]
        /\ ~ Hears(r, q) => lane' = lane
        /\ Hears(r, q) => HasItem(r) /\ lane'[r] = After(r, code)
        /\ \A s \in Runs : LaneMoves(s)
    BY ReplyParts
  <1>2. UNCHANGED tap /\ code \in Codes
    BY DEF Replies
  <1>3. tap' \in [Runs -> Taps] /\ \A s \in Runs : lane[s].pos \in Nat
    BY <1>1, <1>2, LaneParts
  <1>4. LaneInv'
    BY <1>1, <1>2, LanesFrom DEF TapGrows
  <1>5. Hears(r, q) => /\ \/ lane'[r].pos = lane[r].pos
                          \/ lane'[r].pos = lane[r].pos + 1
                       /\ lane[r].closed => lane'[r].closed
                       /\ lane[r].stopped => lane'[r].stopped
    BY <1>1, <1>2, AfterParts DEF TypeInv
  <1> HIDE DEF r
  <1>6. ASSUME NEW s \in Runs
        PROVE  /\ lane[s].pos <= lane'[s].pos
               /\ lane[s].closed => lane'[s].closed
               /\ lane[s].stopped => lane'[s].stopped
    <2>1. CASE lane'[s] = lane[s]
      BY <1>3, <2>1
    <2>2. CASE lane'[s] # lane[s]
      BY <1>1, <1>3, <1>5, <2>2
    <2> QED
      BY <2>1, <2>2
  <1> QED
    BY <1>1, <1>3, <1>4, <1>6 DEF LaneKeeps

\* One lane moves, and no call is answered.
LEMMA LaneKept ==
  ASSUME TypeInv, LaneInv, SameCalls, NEW r \in Runs, NEW l \in LanesType, lane' = [lane EXCEPT ![r] = l],
         l.wait = NoReq, \/ l.pos = lane[r].pos
                         \/ HasItem(r) /\ l.pos = lane[r].pos + 1,
         lane[r].closed => l.closed, lane[r].stopped => l.stopped,
         TapGrows, tap' \in [Runs -> Taps], UNCHANGED took
  PROVE  LaneKeeps
  <1>1. lane \in [Runs -> LanesType] /\ took \in [Runs -> SUBSET Seqs] /\ \A s \in Runs : lane[s].pos \in Nat
    BY LaneParts
  <1>2. lane'[r] = l /\ \A s \in Runs : s # r => lane'[s] = lane[s]
    BY <1>1
  <1>3. \A s \in Runs : LaneMoves(s)
    BY <1>2 DEF LaneMoves
  <1>4. LaneInv'
    BY <1>3, LanesFrom
  <1>5. \A s \in Runs : /\ lane[s].pos <= lane'[s].pos
                        /\ lane[s].closed => lane'[s].closed
                        /\ lane[s].stopped => lane'[s].stopped
    BY <1>1, <1>2
  <1> QED
    BY <1>1, <1>4, <1>5 DEF LaneKeeps

LEMMA LanesKept ==
  ASSUME TypeInv, LaneInv, SameCalls, UNCHANGED lane, took' \in [Runs -> SUBSET Seqs], TapGrows, tap' \in [Runs -> Taps]
  PROVE  LaneKeeps
  <1>1. lane \in [Runs -> LanesType] /\ \A s \in Runs : lane[s].pos \in Nat
    BY LaneParts DEF TypeInv, RunnerTypes
  <1>2. LaneInv'
    BY LanesFrom DEF LaneMoves
  <1> QED
    BY <1>1, <1>2 DEF LaneKeeps

LEMMA TapKept ==
  ASSUME TypeInv, UNCHANGED tap
  PROVE  TapGrows /\ tap' \in [Runs -> Taps]
  BY DEF TypeInv, RunnerTypes, TapGrows

LEMMA CutLanes ==
  ASSUME TypeInv, LaneInv, NEW r \in Runs, Cut(r)
  PROVE  LaneKeeps
  <1>1. SameCalls
    <2>1. CallsStay
      BY DEF Cut, CallsStay
    <2> QED
      BY <2>1, SameCallsOf
  <1>2. /\ ~ tap[r].over /\ tap[r].n < CutsOf[r] /\ CutsOf[r] \in 0..(MaxSeq + 1) /\ MaxSeq \in Nat
        /\ tap \in [Runs -> Taps] /\ tap[r] \in Taps /\ tap[r].n \in Nat
    BY VideosAssumption, LaneParts DEF Cut
  <1> DEFINE t == [tap[r] EXCEPT !.n = @ + 1]
  <1>3. tap[r].n + 1 \in 0..(MaxSeq + 1)
    BY <1>2
  <1>4. t \in Taps /\ t.n = tap[r].n + 1 /\ tap' = [tap EXCEPT ![r] = t]
    BY <1>2, <1>3 DEF Taps, Cut
  <1> HIDE DEF t
  <1>5. TapGrows /\ tap' \in [Runs -> Taps]
    BY <1>2, <1>4 DEF TapGrows
  <1>6. CASE UNCHANGED lane
    BY <1>1, <1>5, <1>6, LanesKept, LaneParts DEF Cut
  <1>7. CASE lane' = [lane EXCEPT ![r] = Stopped(@)]
    <2>1. lane[r] \in LanesType
      BY LaneParts
    <2>2. /\ Stopped(lane[r]) \in LanesType /\ Stopped(lane[r]).wait = NoReq /\ Stopped(lane[r]).pos = lane[r].pos
          /\ Stopped(lane[r]).closed = lane[r].closed /\ Stopped(lane[r]).stopped
      BY <2>1 DEF Stopped, LanesType
    <2> QED
      BY <1>1, <1>5, <1>7, <2>2, LaneKept DEF Cut
  <1> QED
    BY <1>6, <1>7 DEF Cut

LEMMA OverLanes ==
  ASSUME TypeInv, LaneInv, NEW r \in Runs, NEW failed \in BOOLEAN, NEW rest \in 0..1, FlowOver(r, failed, rest)
  PROVE  LaneKeeps
  <1>1. SameCalls
    <2>1. CallsStay
      BY DEF FlowOver, CallsStay
    <2> QED
      BY <2>1, SameCallsOf
  <1>2. /\ ~ tap[r].over /\ tap[r].n + rest <= CutsOf[r] /\ CutsOf[r] \in 0..(MaxSeq + 1) /\ MaxSeq \in Nat
        /\ tap \in [Runs -> Taps] /\ tap[r] \in Taps /\ tap[r].n \in Nat
    BY VideosAssumption, LaneParts DEF FlowOver
  <1> DEFINE t == [n |-> tap[r].n + rest, over |-> TRUE, failed |-> failed]
  <1>3. tap[r].n + rest \in 0..(MaxSeq + 1) /\ tap[r].n <= tap[r].n + rest
    BY <1>2
  <1>4. t \in Taps /\ t.n = tap[r].n + rest /\ tap' = [tap EXCEPT ![r] = t]
    BY <1>2, <1>3 DEF Taps, FlowOver
  <1> HIDE DEF t
  <1>5. TapGrows /\ tap' \in [Runs -> Taps]
    BY <1>2, <1>3, <1>4 DEF TapGrows
  <1> QED
    BY <1>1, <1>5, LanesKept, LaneParts DEF FlowOver

LEMMA SkipLanes ==
  ASSUME TypeInv, LaneInv, NEW r \in Runs, Skip(r)
  PROVE  LaneKeeps
  <1>1. SameCalls
    <2>1. CallsStay
      BY DEF Skip, CallsStay
    <2> QED
      BY <2>1, SameCallsOf
  <1> DEFINE lost == lane[r].tailLost \/ (~ lane[r].closed /\ Item(r) = "chunk" /\ IsTail(r))
             l == [Next1(lane[r]) EXCEPT !.tailLost = lost]
  <1>2. lane[r] \in LanesType /\ HasItem(r) /\ lane[r].pos + 1 \in 0..(MaxSeq + 3)
    BY ItemParts, LaneParts DEF Skip, Ready, TypeInv
  <1>3. lost \in BOOLEAN
    BY <1>2 DEF LanesType
  <1>4. lane' = [lane EXCEPT ![r] = l]
    BY DEF Skip
  <1>5. l \in LanesType /\ l.wait = NoReq /\ l.pos = lane[r].pos + 1 /\ l.closed = lane[r].closed /\ l.stopped = lane[r].stopped
    <2> HIDE DEF lost
    <2> QED
      BY <1>2, <1>3 DEF Next1, LanesType
  <1> HIDE DEF l
  <1>6. UNCHANGED <<tap, took>>
    BY DEF Skip
  <1> QED
    BY <1>1, <1>2, <1>4, <1>5, <1>6, LaneKept, TapKept

\* A lane takes in an answer it has by itself: what the headers say, or that the call is lost.
LEMMA HeardLanes ==
  ASSUME TypeInv, LaneInv, SameCalls, NEW r \in Runs, NEW code \in Codes, HasItem(r),
         lane' = [lane EXCEPT ![r] = After(r, code)], UNCHANGED <<tap, took>>
  PROVE  LaneKeeps
  <1>1. /\ After(r, code) \in LanesType
        /\ After(r, code).wait = NoReq
        /\ \/ After(r, code).pos = lane[r].pos
           \/ After(r, code).pos = lane[r].pos + 1
        /\ lane[r].closed => After(r, code).closed
        /\ lane[r].stopped => After(r, code).stopped
    BY AfterParts DEF TypeInv
  <1> DEFINE l == After(r, code)
  <1> HIDE DEF l
  <1>2. l \in LanesType /\ l.wait = NoReq /\ (l.pos = lane[r].pos \/ l.pos = lane[r].pos + 1)
        /\ (lane[r].closed => l.closed) /\ (lane[r].stopped => l.stopped) /\ lane' = [lane EXCEPT ![r] = l]
    BY <1>1 DEF l
  <1> QED
    BY <1>2, TapKept, LaneKept

LEMMA StopLanes ==
  ASSUME TypeInv, LaneInv, NEW r \in Runs, LaneStops(r)
  PROVE  LaneKeeps
  <1>1. SameCalls
    <2>1. CallsStay
      BY DEF LaneStops, CallsStay
    <2> QED
      BY <2>1, SameCallsOf
  <1>2. lane[r] \in LanesType
    BY LaneParts
  <1>3. /\ Stopped(lane[r]) \in LanesType /\ Stopped(lane[r]).wait = NoReq /\ Stopped(lane[r]).pos = lane[r].pos
        /\ Stopped(lane[r]).closed = lane[r].closed /\ Stopped(lane[r]).stopped
    BY <1>2 DEF Stopped, LanesType
  <1>4. lane' = [lane EXCEPT ![r] = Stopped(lane[r])] /\ UNCHANGED <<tap, took>>
    BY DEF LaneStops
  <1> QED
    BY <1>1, <1>3, <1>4, LaneKept, TapKept

LEMMA SendLanes ==
  ASSUME TypeInv, LaneInv, NEW r \in Runs, Send(r)
  PROVE  LaneKeeps
  <1>1. HasItem(r) /\ lane[r].wait = NoReq /\ ~ lane[r].stopped /\ UNCHANGED <<tap, took>>
    BY DEF Send, Ready
  <1>2. CASE /\ AtHeaders(r) # "body" /\ CallsStay
             /\ lane' = [lane EXCEPT ![r] = After(r, AtHeaders(r))]
    <2>1. AtHeaders(r) \in Codes
      BY <1>2 DEF AtHeaders, Codes
    <2> QED
      BY <1>1, <1>2, <2>1, SameCallsOf, HeardLanes
  <1>3. ASSUME NEW q \in Requests, AtHeaders(r) = "body", Free(q), CallComes(q, Call(r)),
               lane' = [lane EXCEPT ![r].wait = q, ![r].awaiting = @ /\ Item(r) # "chunk"]
        PROVE  LaneKeeps
    <2>1. lane[r] \in LanesType /\ lane \in [Runs -> LanesType] /\ took \in [Runs -> SUBSET Seqs] /\ tap \in [Runs -> Taps]
      BY LaneParts
    <2> DEFINE off == lane[r].awaiting /\ Item(r) # "chunk"
               l == [lane[r] EXCEPT !.wait = q, !.awaiting = off]
    <2>2. /\ off \in BOOLEAN
          /\ lane' = [lane EXCEPT ![r] = l]
      BY <1>3
    <2>3. /\ l \in LanesType /\ l.wait = q /\ l.pos = lane[r].pos /\ l.closed = lane[r].closed
          /\ l.stopped = lane[r].stopped
      <3> HIDE DEF off
      <3> QED
        BY <2>1, <2>2 DEF LanesType
    <2> HIDE DEF l
    <2>4. lane' \in [Runs -> LanesType] /\ lane'[r] = l /\ \A s \in Runs : s # r => lane'[s] = lane[s]
      BY <2>1, <2>2, <2>3
    <2>5. req'[q] = Call(r) /\ \A p \in Requests : p # q => req'[p] = req[p]
      BY <1>3, CallTypes DEF CallComes
    <2>6. Answers(r, Call(r)) /\ q # NoReq /\ \A s \in Runs : lane[s].wait # q
      BY <1>3, CallOf, VideosAssumption DEF Free
    <2>7. \A s \in Runs : lane'[s].pos = lane[s].pos /\ (HasItem(s)' <=> HasItem(s)) /\ Item(s)' = Item(s) /\ Seq0(s)' = Seq0(s)
      BY <1>1, <2>3, <2>4 DEF HasItem, Item, Seq0
    <2>8. LaneInv'
      <3> SUFFICES ASSUME NEW s \in Runs
          PROVE  /\ lane'[s].pos <= tap'[s].n + (IF tap'[s].over THEN 2 ELSE 1)
                 /\ lane'[s].wait # NoReq =>
                      /\ HasItem(s)' /\ ~ lane'[s].stopped
                      /\ req'[lane'[s].wait] # Idle => Answers(s, req[lane[s].wait])'
                      /\ \A u \in Runs : lane'[u].wait = lane'[s].wait => u = s
        BY DEF LaneInv
      <3>1. lane'[s].pos <= tap'[s].n + (IF tap'[s].over THEN 2 ELSE 1)
        BY <1>1, <2>7 DEF LaneInv
      <3>2. CASE s = r
        <4>1. HasItem(s)' /\ ~ lane'[s].stopped /\ \A u \in Runs : lane'[u].wait = lane'[s].wait => u = s
          BY <1>1, <2>3, <2>4, <2>6, <2>7, <3>2
        <4>2. Answers(s, req[lane[s].wait])'
          BY <2>3, <2>4, <2>5, <2>6, <2>7, <3>2 DEF Answers
        <4> QED
          BY <3>1, <4>1, <4>2
      <3>3. CASE s # r
        <4>1. lane'[s] = lane[s]
          BY <2>4, <3>3
        <4>2. ASSUME lane[s].wait # NoReq
              PROVE  /\ HasItem(s)' /\ ~ lane'[s].stopped
                     /\ req'[lane'[s].wait] # Idle => Answers(s, req[lane[s].wait])'
                     /\ \A u \in Runs : lane'[u].wait = lane'[s].wait => u = s
          <5>1. /\ HasItem(s) /\ ~ lane[s].stopped
                /\ req[lane[s].wait] # Idle => Answers(s, req[lane[s].wait])
                /\ \A u \in Runs : lane[u].wait = lane[s].wait => u = s
            BY <4>2 DEF LaneInv
          <5>2. lane[s].wait \in Requests
            <6>1. lane[s] \in LanesType
              BY LaneParts
            <6> QED
              BY <4>2, <6>1 DEF LanesType
          <5>3. req'[lane'[s].wait] = req[lane[s].wait]
            BY <2>5, <2>6, <4>1, <5>2
          <5>4. HasItem(s)' /\ ~ lane'[s].stopped
            BY <2>7, <4>1, <5>1
          <5>5. req'[lane'[s].wait] # Idle => Answers(s, req[lane[s].wait])'
            BY <2>7, <4>1, <5>1, <5>3 DEF Answers
          <5>6. \A u \in Runs : lane'[u].wait = lane'[s].wait => u = s
            BY <2>3, <2>4, <2>6, <4>1, <5>1
          <5> QED
            BY <5>4, <5>5, <5>6
        <4> QED
          BY <3>1, <4>1, <4>2
      <3> QED
        BY <3>2, <3>3
    <2>9. \A s \in Runs : /\ lane[s].pos <= lane'[s].pos
                          /\ lane[s].closed => lane'[s].closed
                          /\ lane[s].stopped => lane'[s].stopped
      <3>1. \A s \in Runs : lane[s].pos \in Nat
        BY LaneParts
      <3> QED
        BY <2>3, <2>4, <2>7, <3>1
    <2> QED
      BY <1>1, <2>1, <2>4, <2>8, <2>9 DEF LaneKeeps
  <1> QED
    BY <1>2, <1>3, SendCalls

\* A chunk's history is of its own run and goes with the run.
LEMMA TookKept ==
  ASSUME TypeInv, NEW r \in Runs, took' = [took EXCEPT ![r] = {}]
  PROVE  took' \in [Runs -> SUBSET Seqs]
  BY DEF TypeInv, RunnerTypes

LEMMA AsideLanes ==
  ASSUME TypeInv, LaneInv, Aside
  PROVE  LaneKeeps
  <1>1. SameCalls
    BY AsideCalls, SameCallsOf
  <1>2. took \in [Runs -> SUBSET Seqs]
    BY DEF TypeInv, RunnerTypes
  <1>3. ASSUME NEW r \in Runs, GiveUp(r)
        PROVE  LaneKeeps
    <2>1. HasItem(r)
      BY <1>3 DEF GiveUp, LaneInv
    <2>2. lane' = [lane EXCEPT ![r] = After(r, "lost")] /\ UNCHANGED <<tap, took>> /\ "lost" \in Codes
      BY <1>3 DEF GiveUp, Codes
    <2> QED
      BY <1>1, <2>1, <2>2, HeardLanes
  <1>4. ASSUME NEW r \in Runs, DeleteRun(r)
        PROVE  LaneKeeps
    <2>1. UNCHANGED <<tap, lane>> /\ took' = [took EXCEPT ![r] = {}]
      BY <1>4 DEF DeleteRun
    <2> QED
      BY <1>1, <2>1, TookKept, TapKept, LanesKept
  <1>5. CASE \/ \E r \in Runs : \E s \in Outcomes : FinishRun(r, s)
             \/ \E r \in Runs : (GoesQuiet(r) \/ GraceOver(r)) /\ UNCHANGED work
             \/ \E r \in Runs : \E s \in Sockets : SocketCloses(r, s)
             \/ ReadSettles
             \/ \E r \in Runs : PlayVideo(r) \/ PlayerDone(r)
             \/ \E old \in SUBSET Passed : PurgeVideos(old)
    <2>1. UNCHANGED <<tap, lane, took>>
      BY <1>5 DEF FinishRun, SocketCloses, ReadSettles, PlayVideo, PlayerDone, PurgeVideos, work
    <2> QED
      BY <1>1, <1>2, <2>1, TapKept, LanesKept
  <1> QED
    BY <1>3, <1>4, <1>5, CutLanes, SkipLanes, StopLanes, OverLanes DEF Aside

LEMMA LanesMove ==
  ASSUME TypeInv, CallInv, LaneInv, Next
  PROVE  LaneKeeps
  <1>1. took \in [Runs -> SUBSET Seqs]
    BY DEF TypeInv, RunnerTypes
  <1>2. CASE Restart
    <2>1. CallsEnd /\ UNCHANGED <<tap, lane, took>>
      BY <1>2 DEF Restart, CallsEnd
    <2> QED
      BY <1>1, <2>1, SameCallsOf, TapKept, LanesKept
  <1>3. ASSUME NEW q \in Requests, OpenVideo(q) \/ EndVideo(q) \/ BodyLost(q)
        PROVE  LaneKeeps
    <2>1. SameCalls
      BY <1>3, OpenCalls, SameCallsOf
    <2>2. CASE BodyLost(q)
      BY <1>1, <2>1, <2>2, TapKept, LanesKept DEF BodyLost
    <2>3. CASE OpenVideo(q) \/ EndVideo(q)
      BY <2>1, <2>3, HandlersReply, RepliesKeep
    <2> QED
      BY <1>3, <2>2, <2>3
  <1>4. ASSUME NEW q \in Requests, ChunkBody(q)
        PROVE  LaneKeeps
    <2>1. SameCalls
      BY <1>4, BodyCalls, SameCallsOf
    <2> QED
      BY <1>1, <1>4, <2>1, TapKept, LanesKept DEF ChunkBody
  <1>5. ASSUME NEW q \in Requests, Ending(q)
        PROVE  LaneKeeps
    <2>1. SameCalls
      BY <1>5, EndingCalls, SameCallsOf
    <2> QED
      BY <1>5, <2>1, HandlersReply, RepliesKeep DEF Ending
  <1>6. ASSUME NEW q \in Requests, Working(q)
        PROVE  LaneKeeps
    <2>1. SameCalls
      BY <1>6, WorkingCalls, SameCallsOf
    <2>2. UNCHANGED <<tap, lane, took>>
      BY <1>6 DEF Working, ReserveChunk, WriteCell, OpenFile
    <2> QED
      BY <1>1, <2>1, <2>2, TapKept, LanesKept
  <1> QED
    BY <1>2, <1>3, <1>4, <1>5, <1>6, AsideLanes, SendLanes, StepKinds

-----------------------------------------------------------------------------
(* The index of a video, by itself *)

\* An index, the file it is of, and the two counters that sum it up.
Indexed(c, f, bytes, next) ==
    /\ LaidOut(c, f)
    /\ bytes = IF c = <<>> THEN 0 ELSE End(c, Len(c))
    /\ next = IF c = <<>> THEN 0 ELSE c[Len(c)].seq + 1
    /\ \A i \in 1..Len(c) : End(c, i) <= bytes

LEMMA MarkParts ==
  ASSUME NEW c \in Seq(Marks)
  PROVE  /\ Len(c) \in Nat
         /\ c = <<>> <=> Len(c) = 0
         /\ \A i \in 1..Len(c) : /\ c[i] \in Marks /\ c[i].seq \in Seqs /\ c[i].seq \in Nat /\ c[i].off \in Nat
                                 /\ LenOf[c[i].seq] \in Nat \ {0} /\ End(c, i) = c[i].off + LenOf[c[i].seq] /\ End(c, i) \in Nat
  <1>1. Len(c) \in Nat /\ (c = <<>> <=> Len(c) = 0)
    BY EmptySeq, LenProperties
  <1>2. ASSUME NEW i \in 1..Len(c)
        PROVE  /\ c[i] \in Marks /\ c[i].seq \in Seqs /\ c[i].seq \in Nat /\ c[i].off \in Nat
               /\ LenOf[c[i].seq] \in Nat \ {0} /\ End(c, i) = c[i].off + LenOf[c[i].seq] /\ End(c, i) \in Nat
    <2>1. c[i] \in Marks
      BY ElementOfSeq
    <2>2. c[i].seq \in Seqs /\ c[i].off \in Nat
      BY <2>1 DEF Marks
    <2>3. LenOf[c[i].seq] \in Nat \ {0} /\ c[i].seq \in Nat
      BY <2>2, VideosAssumption DEF Seqs
    <2> QED
      BY <2>1, <2>2, <2>3 DEF End
  <1> QED
    BY <1>1, <1>2

\* A new video has an empty index.
LEMMA EmptyIndex ==
  ASSUME NEW f
  PROVE  Indexed(<<>>, f, 0, 0) /\ Playable(<<>>)
  <1>1. Len(<<>>) = 0
    BY EmptySeq
  <1> QED
    BY <1>1 DEF Indexed, LaidOut, Playable

\* What is written past the index does not disturb it.
LEMMA IndexStays ==
  ASSUME NEW c \in Seq(Marks), NEW f, NEW g, NEW bytes \in Nat, NEW next,
         Indexed(c, f, bytes, next), \A b \in 1..bytes : g[b] = f[b]
  PROVE  Indexed(c, g, bytes, next)
  <1>1. ASSUME NEW i \in 1..Len(c), NEW b \in (c[i].off + 1)..End(c, i)
        PROVE  g[b] = c[i].seq
    <2>1. c[i].off \in Nat /\ End(c, i) \in Nat /\ End(c, i) <= bytes
      BY MarkParts DEF Indexed
    <2>2. b \in 1..bytes
      BY <2>1
    <2>3. f[b] = c[i].seq
      BY DEF Indexed, LaidOut
    <2> QED
      BY <2>2, <2>3
  <1> QED
    BY <1>1 DEF Indexed, LaidOut

\* A chunk written at the committed length, with a later number, extends the index.
\* The cells after the first bytes hold chunk x.
Holds(f, bytes, x) == \A b \in 1..LenOf[x] : f[bytes + b] = x

LEMMA IndexGrows ==
  ASSUME NEW c \in Seq(Marks), NEW f, NEW bytes \in Nat, NEW next \in Nat, Indexed(c, f, bytes, next),
         NEW x \in Seqs, x >= next, Holds(f, bytes, x)
  PROVE  LET d == Append(c, [seq |-> x, off |-> bytes]) IN
         /\ d \in Seq(Marks)
         /\ Indexed(d, f, bytes + LenOf[x], x + 1)
         /\ Playable(c) /\ (x \in KeySeqs \/ next >= x) => Playable(d)
         /\ \A i \in 1..Len(c) : i \in 1..Len(d) /\ d[i].seq = c[i].seq
         /\ Len(d) \in 1..Len(d) /\ d[Len(d)].seq = x
  <1> DEFINE m == [seq |-> x, off |-> bytes]  d == Append(c, m)  n == Len(c)  len == LenOf[x]
  <1>1. m \in Marks /\ m.seq = x /\ m.off = bytes /\ len \in Nat \ {0} /\ x \in Nat
    BY VideosAssumption DEF Marks, Seqs
  <1>2. /\ d \in Seq(Marks) /\ Len(d) = n + 1 /\ n \in Nat
        /\ \A i \in 1..n : d[i] = c[i]
        /\ d[n + 1] = m
    BY <1>1, AppendProperties, MarkParts
  <1>3. \A i \in 1..n + 1 : i \in 1..n \/ i = n + 1
    BY <1>2
  <1> HIDE DEF d, m
  <1>4. /\ \A i \in 1..n : End(d, i) = End(c, i)
        /\ End(d, n + 1) = bytes + len
    BY <1>1, <1>2 DEF End
  <1>5. d # <<>> /\ Len(d) \in 1..Len(d) /\ \A i \in 1..n : i \in 1..Len(d)
    BY <1>2, MarkParts
  <1>6. /\ n = 0 => bytes = 0 /\ next = 0
        /\ n > 0 => bytes = End(c, n) /\ next = c[n].seq + 1 /\ c[n].seq \in Nat /\ n \in 1..n
    BY <1>2, MarkParts, SMTT(20) DEF Indexed
  <1>7. LaidOut(d, f)
    <2> SUFFICES ASSUME NEW i \in 1..Len(d)
        PROVE  /\ d[i].off = IF i = 1 THEN 0 ELSE End(d, i - 1)
               /\ i > 1 => d[i - 1].seq < d[i].seq
               /\ \A b \in (d[i].off + 1)..End(d, i) : f[b] = d[i].seq
      BY DEF LaidOut
    <2>1. CASE i \in 1..n
      <3>1. /\ c[i].off = IF i = 1 THEN 0 ELSE End(c, i - 1)
            /\ i > 1 => c[i - 1].seq < c[i].seq
            /\ \A b \in (c[i].off + 1)..End(c, i) : f[b] = c[i].seq
        BY <2>1 DEF Indexed, LaidOut
      <3>2. i > 1 => i - 1 \in 1..n
        BY <1>2, <2>1
      <3>3. d[i] = c[i] /\ End(d, i) = End(c, i) /\ (i > 1 => d[i - 1] = c[i - 1] /\ End(d, i - 1) = End(c, i - 1))
        BY <1>2, <1>4, <2>1, <3>2
      <3>4. i = 1 \/ i > 1
        BY <1>2, <2>1
      <3> QED
        BY <3>1, <3>3, <3>4
    <2>2. CASE i = n + 1
      <3>1. d[i].off = bytes /\ d[i].seq = x /\ End(d, i) = bytes + len
        BY <1>1, <1>2, <1>4, <2>2
      <3>2. \A b \in (bytes + 1)..(bytes + len) : f[b] = x
        <4> TAKE b \in (bytes + 1)..(bytes + len)
        <4>1. b - bytes \in 1..len /\ bytes + (b - bytes) = b
          BY <1>1
        <4> QED
          BY <4>1 DEF Holds
      <3>3. n > 0 => i - 1 \in 1..n /\ i - 1 = n
        BY <1>2, <2>2
      <3>4. CASE n = 0
        BY <1>6, <2>2, <3>1, <3>2, <3>4
      <3>5. CASE n > 0
        <4>1. d[n].seq = c[n].seq /\ End(d, n) = End(c, n)
          BY <1>2, <1>4, <1>6, <3>5
        <4>2. c[n].seq < x
          BY <1>1, <1>6, <3>5
        <4>3. i # 1 /\ i - 1 = n
          BY <1>2, <2>2, <3>5
        <4> QED
          BY <1>6, <3>1, <3>2, <3>5, <4>1, <4>2, <4>3
      <3> QED
        BY <1>2, <3>4, <3>5
    <2> QED
      BY <1>2, <1>3, <2>1, <2>2
  <1>8. \A i \in 1..Len(d) : End(d, i) <= bytes + len
    <2>1. \A i \in 1..n : End(c, i) \in Nat /\ End(c, i) <= bytes
      BY MarkParts DEF Indexed
    <2> QED
      BY <1>1, <1>2, <1>3, <1>4, <2>1
  <1>9. Indexed(d, f, bytes + len, x + 1)
    <2>1. d[Len(d)].seq = x /\ End(d, Len(d)) = bytes + len
      BY <1>1, <1>2, <1>4
    <2> QED
      BY <1>5, <1>7, <1>8, <2>1 DEF Indexed
  <1>10. ASSUME Playable(c), x \in KeySeqs \/ next >= x
         PROVE  Playable(d)
    <2> SUFFICES ASSUME NEW i \in 1..Len(d)
        PROVE  \/ d[i].seq = IF i = 1 THEN 0 ELSE d[i - 1].seq + 1
               \/ d[i].seq \in KeySeqs
      BY DEF Playable
    <2>1. CASE i \in 1..n
      <3>1. \/ c[i].seq = IF i = 1 THEN 0 ELSE c[i - 1].seq + 1
            \/ c[i].seq \in KeySeqs
        BY <1>10, <2>1 DEF Playable
      <3>2. i # 1 => i - 1 \in 1..n
        BY <1>2, <2>1
      <3> QED
        BY <1>2, <2>1, <3>1, <3>2
    <2>2. CASE i = n + 1
      <3>1. d[i].seq = x /\ next \in Nat
        BY <1>1, <1>2, <2>2
      <3>2. x \in KeySeqs \/ x = next
        BY <1>1, <1>10, <3>1
      <3>3. CASE n = 0
        BY <1>6, <2>2, <3>1, <3>2, <3>3
      <3>4. CASE n > 0
        <4>1. d[n].seq = c[n].seq /\ i # 1 /\ i - 1 = n
          BY <1>2, <1>6, <2>2, <3>4
        <4> QED
          BY <1>6, <3>1, <3>2, <3>4, <4>1
      <3> QED
        BY <1>2, <3>3, <3>4
    <2> QED
      BY <1>2, <1>3, <2>1, <2>2
  <1>11. /\ \A i \in 1..n : i \in 1..Len(d) /\ d[i].seq = c[i].seq
         /\ Len(d) \in 1..Len(d) /\ d[Len(d)].seq = x
    BY <1>1, <1>2, <1>5
  <1> QED
    BY <1>2, <1>9, <1>10, <1>11 DEF d, m

-----------------------------------------------------------------------------
(* Each video, its file and the calls that write it *)

Of(q, s) == req[q] \in Pieces /\ req[q].run = s

\* A chunk call has left its lane behind, and the chunk can be decoded where it will land.
CallInOrder(q, s) ==
    /\ req[q].seq < lane[s].pos
    /\ Live(s) => req[q].seq \in KeySeqs \/ video[s].next >= req[q].seq

\* A chunk being written goes to the committed end of a file that its video still has, and
\* the part of it that is written is all its own.
CallWrites(q, s) ==
    LET x == req[q] IN
    /\ x.at # "writing" => x.put = 0
    /\ x.at \in {"reserved", "writing"} =>
      /\ file[s] # NoFile => Live(s)
      /\ Live(s) => x.off = video[s].bytes /\ x.seq >= video[s].next
      /\ x.put <= LenOf[x.seq]
      /\ Live(s) => /\ x.off + x.put <= Len(file[s])
                    /\ \A b \in 1..x.put : file[s][x.off + b] = x.seq

\* A live video has its file, an index of it, and no chunk its lane has not sent.
Stored(s) ==
    /\ file[s] # NoFile /\ video[s].bytes <= Len(file[s])
    /\ Indexed(chunks[s], file[s], video[s].bytes, video[s].next)
    /\ Playable(chunks[s])
    /\ video[s].next <= lane[s].pos

StoreOk(s) ==
    /\ ~ video[s].on /\ Exists(row[s]) => chunks[s] = <<>> /\ \A q \in Requests : ~ Of(q, s)
    /\ Live(s) => Stored(s)
    /\ \A q \in Requests : Of(q, s) => CallInOrder(q, s) /\ CallWrites(q, s)

StoreInv == \A s \in Runs : StoreOk(s)

\* The calls that are left are as they were, or have just got their bodies.
CallsQuiet(s) == \A q \in Requests : req'[q] \in Pieces /\ req'[q].run = s =>
    \/ Of(q, s) /\ req'[q] = req[q]
    \/ Of(q, s) /\ req[q].at = "body" /\ req'[q] = [req[q] EXCEPT !.at = "queued"]

\* What the runner does and what only ends calls: the video of s is as it was.
Quiet(s) ==
    /\ /\ video'[s].on = video[s].on /\ video'[s].evicted = video[s].evicted
       /\ video'[s].bytes = video[s].bytes /\ video'[s].next = video[s].next
    /\ chunks'[s] = chunks[s]
    /\ \/ file'[s] = file[s]
       \/ ~ Live(s) /\ file'[s] = NoFile
    /\ Exists(row'[s]) => Exists(row[s])
    /\ lane[s].pos <= lane'[s].pos
    /\ CallsQuiet(s)

LEMMA QuietCall ==
  ASSUME NEW s \in Runs, CallsQuiet(s), NEW q \in Requests, Of(q, s)'
  PROVE  /\ Of(q, s) /\ req'[q].seq = req[q].seq /\ req'[q].put = req[q].put
         /\ \/ req'[q] = req[q]
            \/ req[q].at = "body" /\ req'[q].at = "queued"
  <1>1. \/ Of(q, s) /\ req'[q] = req[q]
        \/ Of(q, s) /\ req[q].at = "body" /\ req'[q] = [req[q] EXCEPT !.at = "queued"]
    BY DEF CallsQuiet, Of
  <1>2. CASE Of(q, s) /\ req[q].at = "body" /\ req'[q] = [req[q] EXCEPT !.at = "queued"]
    BY <1>2 DEF Of, Pieces
  <1> QED
    BY <1>1, <1>2

LEMMA StoreParts ==
  ASSUME TypeInv, NEW s \in Runs
  PROVE  /\ video[s] \in VideoRows /\ chunks[s] \in Seq(Marks) /\ file[s] \in Seq(Seqs) \cup {NoFile}
         /\ video[s].on \in BOOLEAN /\ video[s].evicted \in BOOLEAN
         /\ video[s].bytes \in Nat /\ video[s].next \in Nat /\ video[s].reserved \in Nat
         /\ file[s] # NoFile => file[s] \in Seq(Seqs) /\ Len(file[s]) \in Nat
         /\ lane[s].pos \in Nat
         /\ video \in [Runs -> VideoRows] /\ chunks \in [Runs -> Seq(Marks)]
         /\ file \in [Runs -> Seq(Seqs) \cup {NoFile}]
  <1>1. video[s] \in VideoRows /\ chunks[s] \in Seq(Marks) /\ file[s] \in Seq(Seqs) \cup {NoFile}
    BY DEF TypeInv, StoreTypes
  <1>2. video[s].next \in Nat
    BY <1>1, VideosAssumption DEF VideoRows
  <1>3. file[s] # NoFile => file[s] \in Seq(Seqs) /\ Len(file[s]) \in Nat
    BY <1>1, LenProperties
  <1> QED
    BY <1>1, <1>2, <1>3, LaneParts DEF VideoRows, TypeInv, StoreTypes

LEMMA QuietKeeps ==
  ASSUME TypeInv, NEW s \in Runs, StoreOk(s), Quiet(s), lane'[s].pos \in Nat
  PROVE  StoreOk(s)'
  <1>1. Live(s)' <=> Live(s)
    BY DEF Quiet, Live
  <1>2. ~ video'[s].on /\ Exists(row'[s]) => chunks'[s] = <<>> /\ \A q \in Requests : ~ Of(q, s)'
    <2>1. \A q \in Requests : Of(q, s)' => Of(q, s)
      BY QuietCall DEF Quiet
    <2> QED
      BY <2>1 DEF Quiet, StoreOk
  <1>3. ASSUME Live(s)
        PROVE  Stored(s)'
    <2>1. file'[s] = file[s] /\ Stored(s)
      BY <1>3 DEF Quiet, StoreOk
    <2>2. video[s].next \in Nat /\ lane[s].pos \in Nat
      BY StoreParts
    <2>3. /\ video'[s].bytes = video[s].bytes /\ video'[s].next = video[s].next /\ chunks'[s] = chunks[s]
          /\ lane[s].pos <= lane'[s].pos
      BY DEF Quiet
    <2>4. video'[s].next <= lane'[s].pos
      BY <2>1, <2>2, <2>3 DEF Stored
    <2>5. Indexed(chunks'[s], file'[s], video'[s].bytes, video'[s].next) /\ Playable(chunks'[s])
      BY <2>1, <2>3 DEF Stored
    <2> QED
      BY <2>1, <2>3, <2>4, <2>5 DEF Stored, Indexed, LaidOut, Playable, End
  <1>4. ASSUME NEW q \in Requests, Of(q, s)'
        PROVE  CallInOrder(q, s)' /\ CallWrites(q, s)'
    <2>1. /\ Of(q, s) /\ req'[q].seq = req[q].seq /\ req'[q].put = req[q].put
          /\ \/ req'[q] = req[q]
             \/ req[q].at = "body" /\ req'[q].at = "queued"
      BY <1>4, QuietCall DEF Quiet
    <2>2. CallInOrder(q, s) /\ CallWrites(q, s)
      BY <2>1 DEF StoreOk
    <2>3. req[q].seq \in Nat /\ lane[s].pos \in Nat
      BY <2>1, PieceParts, StoreParts DEF Of, Seqs
    <2>4. CallInOrder(q, s)'
      BY <1>1, <2>1, <2>2, <2>3 DEF CallInOrder, Quiet
    <2>5. CallWrites(q, s)'
      <3>1. SUFFICES ASSUME req'[q] = req[q]
            PROVE  CallWrites(q, s)'
        BY <2>1, <2>2 DEF CallWrites
      <3>2. CASE file'[s] = file[s]
        BY <1>1, <2>2, <3>1, <3>2 DEF CallWrites, Quiet
      <3>3. CASE ~ Live(s) /\ file'[s] = NoFile
        BY <1>1, <2>2, <3>1, <3>3 DEF CallWrites
      <3> QED
        BY <3>2, <3>3 DEF Quiet
    <2> QED
      BY <2>4, <2>5
  <1> QED
    BY <1>1, <1>2, <1>3, <1>4 DEF StoreOk

\* A video that is evicted: no call of it is past its wait.
Fades(s) ==
    /\ video'[s].on /\ video'[s].evicted /\ queue[s] = <<>>
    /\ lane[s].pos <= lane'[s].pos
    /\ CallsQuiet(s)

\* With an empty queue no chunk call has its body.
LEMMA EmptyIsIdle ==
  ASSUME TypeInv, CallInv, NEW s \in Runs, queue[s] = <<>>, NEW q \in Requests, Of(q, s)
  PROVE  req[q].at = "body"
  <1>1. Len(queue[s]) = 0
    BY EmptySeq
  <1> QED
    BY <1>1 DEF CallInv, WaitInv, Of

LEMMA FadesKeeps ==
  ASSUME TypeInv, CallInv, NEW s \in Runs, StoreOk(s), Fades(s), lane'[s].pos \in Nat
  PROVE  StoreOk(s)'
  <1>1. ~ Live(s)' /\ video'[s].on
    BY DEF Fades, Live
  <1>2. ASSUME NEW q \in Requests, Of(q, s)'
        PROVE  CallInOrder(q, s)' /\ CallWrites(q, s)'
    <2>1. /\ Of(q, s) /\ req'[q].seq = req[q].seq /\ req'[q].put = req[q].put
          /\ \/ req'[q] = req[q]
             \/ req[q].at = "body" /\ req'[q].at = "queued"
          /\ lane[s].pos <= lane'[s].pos
      BY <1>2, QuietCall DEF Fades
    <2>4. req[q].at = "body"
      BY <2>1, EmptyIsIdle DEF Fades
    <2>2. req[q].seq < lane[s].pos /\ req[q].put = 0
      BY <2>1, <2>4 DEF StoreOk, CallInOrder, CallWrites
    <2>3. req[q].seq \in Nat /\ lane[s].pos \in Nat
      BY <2>1, PieceParts, StoreParts DEF Of, Seqs
    <2> QED
      BY <1>1, <2>1, <2>2, <2>3, <2>4 DEF CallInOrder, CallWrites
  <1> QED
    BY <1>1, <1>2 DEF StoreOk

-----------------------------------------------------------------------------
(* What is evicted *)

LEMMA EvictableParts ==
  ASSUME TypeInv, NEW keep, NEW rows
  PROVE  /\ Evictable(keep, rows) \subseteq Runs /\ keep \notin Evictable(keep, rows)
         /\ \A c \in Evictable(keep, rows) : Live(c) /\ queue[c] = <<>>
         /\ IsFiniteSet(Evictable(keep, rows)) /\ IsFiniteSet(Runs)
  <1>1. Evictable(keep, rows) \subseteq Runs /\ IsFiniteSet(Runs)
    BY VideosAssumption DEF Evictable
  <1>2. IsFiniteSet(Evictable(keep, rows))
    BY <1>1, FS_Subset
  <1> QED
    BY <1>1, <1>2 DEF Evictable

\* The order of eviction is strict, so its first members form a chain.
LEMMA FirstsAreAChain ==
  ASSUME TypeInv, NEW all \in SUBSET Runs, NEW d \in SUBSET all, NEW e \in SUBSET all,
         \A a \in d, b \in all \ d : Before(a, b),
         \A a \in e, b \in all \ e : Before(a, b)
  PROVE  d \subseteq e \/ e \subseteq d
  <1>1. SUFFICES ASSUME NEW a \in d \ e, NEW b \in e \ d
        PROVE  FALSE
    OBVIOUS
  <1>2. Before(a, b) /\ Before(b, a)
    OBVIOUS
  <1>3. a \in Runs /\ b \in Runs
    OBVIOUS
  <1>4. video[a].born \in Nat /\ video[b].born \in Nat
    BY <1>3, StoreParts DEF VideoRows
  <1>5. (a \in Passed <=> b \in Passed) /\ video[a].born < video[b].born /\ video[b].born < video[a].born
    BY <1>2 DEF Before
  <1> QED
    BY <1>4, <1>5

LEMMA EvictedParts ==
  ASSUME TypeInv, NEW keep, NEW rows, NEW len
  PROVE  ToEvict(keep, rows, len) \subseteq Evictable(keep, rows)
  <1> DEFINE all == Evictable(keep, rows)
             firsts == {e \in SUBSET all : \A a \in e, b \in all \ e : Before(a, b)}
             good == {e \in firsts : Enough(e, len)}
  <1>1. ToEvict(keep, rows, len) = IF good = {} THEN all ELSE CHOOSE e \in good : \A x \in good : e \subseteq x
    BY DEF ToEvict
  <1>2. ASSUME good # {}
        PROVE  \E e \in good : \A x \in good : e \subseteq x
    <2>1. good \subseteq SUBSET all /\ all \subseteq Runs
      BY EvictableParts
    <2>2. \A x \in good : \A a \in x, b \in all \ x : Before(a, b)
      OBVIOUS
    <2>3. IsFiniteSet(all)
      BY EvictableParts
    <2> HIDE DEF good, all
    <2>4. PICK e \in good : \A u \in SUBSET e : u # e => u \notin good
      BY <1>2, <2>1, <2>3, MinimalSubset
    <2>5. ASSUME NEW x \in good
          PROVE  e \subseteq x
      <3>1. e \in SUBSET all /\ x \in SUBSET all /\ all \in SUBSET Runs
        BY <2>1, <2>4
      <3>2. (\A a \in e, b \in all \ e : Before(a, b)) /\ (\A a \in x, b \in all \ x : Before(a, b))
        BY <2>2, <2>4, <2>5
      <3>3. e \subseteq x \/ x \subseteq e
        BY <3>1, <3>2, FirstsAreAChain
      <3> QED
        BY <2>4, <2>5, <3>3
    <2> QED
      BY <2>4, <2>5
  <1>3. good # {} => ToEvict(keep, rows, len) \in good
    <2> HIDE DEF good
    <2> QED
      BY <1>1, <1>2
  <1>4. \A e \in good : e \subseteq all
    OBVIOUS
  <1> QED
    BY <1>1, <1>3, <1>4

-----------------------------------------------------------------------------
(* The store under each step *)

\* What a step is taken from, and what is already known of it.
Around ==
    /\ TypeInv /\ CallInv /\ LaneInv /\ StoreInv
    /\ RowsStep /\ CallKeeps /\ LaneKeeps

StoreKeeps == StoreTypes' /\ StoreInv'

LEMMA AroundParts ==
  ASSUME Around, NEW s \in Runs
  PROVE  /\ StoreOk(s)
         /\ lane[s].pos <= lane'[s].pos /\ lane'[s].pos \in Nat /\ lane[s].pos \in Nat
         /\ Exists(row'[s]) => Exists(row[s])
         /\ queue' \in [Runs -> Seq(Requests)]
  <1>1. lane'[s] \in LanesType
    BY DEF Around, LaneKeeps
  <1>2. lane'[s].pos \in Nat
    BY <1>1 DEF LanesType
  <1> QED
    BY <1>2, LaneParts DEF Around, LaneKeeps, RowsStep, CallKeeps, StoreInv

LEMMA QuietKinds ==
  ASSUME TypeInv
  PROVE  /\ CallsStay \/ CallsEnd => \A s \in Runs : CallsQuiet(s)
         /\ \A q \in Requests : CallLeaves(q) \/ CallPops(q) \/ CallJoins(q) => \A s \in Runs : CallsQuiet(s)
         /\ \A q \in Requests : \A x : CallWorks(q, x) => \A s \in Runs : s # req[q].run => CallsQuiet(s)
         /\ \A q \in Requests : \A x : CallComes(q, x) => \A s \in Runs : (x \in Pieces => s # x.run) => CallsQuiet(s)
  <1>1. CallsStay => \A s \in Runs : CallsQuiet(s)
    BY DEF CallsStay, CallsQuiet, Of
  <1>2. CallsEnd => \A s \in Runs : CallsQuiet(s)
    BY IdleIsNone DEF CallsEnd, CallsQuiet
  <1>3. ASSUME NEW q \in Requests, NEW x \in Calls \cup {Idle}, NEW s \in Runs, req' = [req EXCEPT ![q] = x],
               \/ ~(x \in Pieces /\ x.run = s)
               \/ req[q] \in Pieces /\ x.run = req[q].run /\ req[q].at = "body" /\ x = [req[q] EXCEPT !.at = "queued"]
        PROVE  CallsQuiet(s)
    <2>1. req'[q] = x /\ \A p \in Requests : p # q => req'[p] = req[p]
      BY <1>3, CallTypes
    <2> QED
      BY <1>3, <2>1 DEF CallsQuiet, Of
  <1>4. ASSUME NEW q \in Requests, CallLeaves(q) \/ CallPops(q), NEW s \in Runs
        PROVE  CallsQuiet(s)
    BY <1>3, <1>4, IdleIsNone DEF CallLeaves, CallPops
  <1>5. ASSUME NEW q \in Requests, CallJoins(q), NEW s \in Runs
        PROVE  CallsQuiet(s)
    <2> DEFINE x == [req[q] EXCEPT !.at = "queued"]
    <2>1. /\ x \in Pieces /\ req[q] \in Pieces /\ x.run = req[q].run /\ req[q].at = "body"
          /\ req' = [req EXCEPT ![q] = x]
      BY <1>5 DEF CallJoins, Pieces
    <2>2. x \in Calls \cup {Idle} /\ x = [req[q] EXCEPT !.at = "queued"]
      BY <2>1, PieceParts
    <2> HIDE DEF x
    <2> QED
      BY <1>3, <2>1, <2>2
  <1>6. ASSUME NEW q \in Requests, NEW x, CallWorks(q, x), NEW s \in Runs, s # req[q].run
        PROVE  CallsQuiet(s)
    <2>1. x \in Calls /\ x.run # s /\ req' = [req EXCEPT ![q] = x]
      BY <1>6, PieceParts DEF CallWorks
    <2> QED
      BY <1>3, <2>1
  <1>7. ASSUME NEW q \in Requests, NEW x, CallComes(q, x), NEW s \in Runs, x \in Pieces => s # x.run
        PROVE  CallsQuiet(s)
    <2>1. x \in Calls /\ ~(x \in Pieces /\ x.run = s) /\ req' = [req EXCEPT ![q] = x]
      BY <1>7 DEF CallComes
    <2> QED
      BY <1>3, <2>1
  <1> QED
    BY <1>1, <1>2, <1>4, <1>5, <1>6, <1>7

\* A row of a video that has the same data, whatever it says of its end or holds in reserve.
SameData(s) == /\ video'[s].on = video[s].on /\ video'[s].evicted = video[s].evicted
               /\ video'[s].bytes = video[s].bytes /\ video'[s].next = video[s].next

LEMMA QuietAll ==
  ASSUME Around, \A s \in Runs : CallsQuiet(s), video' \in [Runs -> VideoRows],
         \A s \in Runs : SameData(s), UNCHANGED <<chunks, file>>
  PROVE  StoreKeeps
  <1>1. StoreTypes'
    <2>1. chunks \in [Runs -> Seq(Marks)] /\ file \in [Runs -> Seq(Seqs) \cup {NoFile}]
      BY DEF Around, TypeInv, StoreTypes
    <2> QED
      BY <2>1 DEF StoreTypes, Around, CallKeeps
  <1>2. ASSUME NEW s \in Runs
        PROVE  StoreOk(s)'
    <2>1. Quiet(s)
      BY AroundParts DEF Quiet, SameData
    <2> QED
      BY <2>1, AroundParts, QuietKeeps DEF Around
  <1> QED
    BY <1>1, <1>2 DEF StoreKeeps, StoreInv

\* One row changes, and not in its data.
LEMMA QuietOne ==
  ASSUME Around, \A s \in Runs : CallsQuiet(s), NEW r \in Runs, NEW v \in VideoRows, video' = [video EXCEPT ![r] = v],
         v.on = video[r].on, v.evicted = video[r].evicted, v.bytes = video[r].bytes, v.next = video[r].next,
         UNCHANGED <<chunks, file>>
  PROVE  StoreKeeps
  <1>1. video \in [Runs -> VideoRows]
    BY StoreParts DEF Around
  <1>2. video' \in [Runs -> VideoRows] /\ \A s \in Runs : SameData(s)
    BY <1>1 DEF SameData
  <1> QED
    BY <1>2, QuietAll

LEMMA QuietSame ==
  ASSUME Around, \A s \in Runs : CallsQuiet(s), UNCHANGED <<video, chunks, file>>
  PROVE  StoreKeeps
  <1>1. video' \in [Runs -> VideoRows] /\ \A s \in Runs : SameData(s)
    BY DEF SameData, Around, TypeInv, StoreTypes
  <1> QED
    BY <1>1, QuietAll

\* A released reservation.
LEMMA ReleaseParts ==
  ASSUME TypeInv, NEW r \in Runs, NEW len \in Nat
  PROVE  \E v \in VideoRows :
           /\ Release(r, len) = [video EXCEPT ![r] = v]
           /\ v.on = video[r].on /\ v.evicted = video[r].evicted /\ v.bytes = video[r].bytes /\ v.next = video[r].next
           /\ v.reserved = IF video[r].reserved > len THEN video[r].reserved - len ELSE 0
           /\ v = [video[r] EXCEPT !.reserved = IF video[r].reserved > len THEN video[r].reserved - len ELSE 0]
  <1> DEFINE n == IF video[r].reserved > len THEN video[r].reserved - len ELSE 0
             v == [video[r] EXCEPT !.reserved = n]
  <1>1. video[r] \in VideoRows /\ n \in Nat
    BY StoreParts
  <1>2. Release(r, len) = [video EXCEPT ![r] = v]
    BY DEF Release
  <1> HIDE DEF n
  <1>3. /\ v \in VideoRows /\ v.on = video[r].on /\ v.evicted = video[r].evicted /\ v.bytes = video[r].bytes
        /\ v.next = video[r].next /\ v.reserved = n
    BY <1>1 DEF VideoRows
  <1> QED
    BY <1>2, <1>3 DEF n

LEMMA LenParts ==
  ASSUME NEW x \in Seqs
  PROVE  LenOf[x] \in Nat /\ LenOf[x] > 0 /\ x \in Nat
  BY VideosAssumption DEF Seqs

\* The handlers that end a call without a change to the data of a video.
LEMMA QuietHandlers ==
  ASSUME Around, NEW q \in Requests,
         EndVideo(q) \/ RefuseChunk(q) \/ WriteFails(q) \/ (OpenFile(q) /\ file[req[q].run] = NoFile)
  PROVE  StoreKeeps
  <1> DEFINE r == req[q].run
  <1>1. TypeInv /\ CallInv
    BY DEF Around
  <1>2. \A s \in Runs : CallsQuiet(s)
    BY <1>1, OpenCalls, EndingCalls, QuietKinds DEF Ending
  <1>3. CASE EndVideo(q)
    <2>1. req[q] \in Endings /\ r \in Runs
      BY <1>1, <1>3, CallTypes, CallParts, IdleIsNone DEF EndVideo
    <2>2. req[q].last \in -1..MaxSeq /\ req[q].reason \in Reasons
      BY <2>1 DEF Endings, Reasons
    <2> DEFINE v == EndWith(video[r], req[q].reason, req[q].last)
    <2>3. video[r] \in VideoRows
      BY <1>1, <2>1, StoreParts
    <2>4. v = [video[r] EXCEPT !.ended = TRUE,
                  !.reason = IF video[r].reason = "none" THEN req[q].reason ELSE video[r].reason,
                  !.last = IF video[r].last = -1 THEN req[q].last ELSE video[r].last]
      BY DEF EndWith
    <2>5. /\ (IF video[r].reason = "none" THEN req[q].reason ELSE video[r].reason) \in Reasons
          /\ (IF video[r].last = -1 THEN req[q].last ELSE video[r].last) \in -1..MaxSeq
      BY <2>2, <2>3 DEF VideoRows
    <2>6. v \in VideoRows /\ v.on = video[r].on /\ v.evicted = video[r].evicted /\ v.bytes = video[r].bytes /\ v.next = video[r].next
      BY <2>3, <2>4, <2>5 DEF VideoRows
    <2>7. UNCHANGED <<chunks, file>> /\ (UNCHANGED video \/ video' = [video EXCEPT ![r] = v])
      BY <1>3 DEF EndVideo
    <2> HIDE DEF v
    <2> QED
      BY <1>2, <2>1, <2>6, <2>7, QuietOne, QuietSame
  <1>4. CASE RefuseChunk(q)
    <2>1. First(q) /\ r \in Runs
      BY <1>1, <1>4, TurnParts DEF RefuseChunk
    <2> DEFINE v == [video[r] EXCEPT !.ended = TRUE, !.reason = "size-limit"]
    <2>2. video[r] \in VideoRows
      BY <1>1, <2>1, StoreParts
    <2>3. v \in VideoRows /\ v.on = video[r].on /\ v.evicted = video[r].evicted /\ v.bytes = video[r].bytes /\ v.next = video[r].next
      BY <2>2 DEF VideoRows, Reasons
    <2>4. UNCHANGED <<chunks, file>> /\ (UNCHANGED video \/ video' = [video EXCEPT ![r] = v])
      BY <1>4, <1>1, <2>1, StoreParts DEF RefuseChunk
    <2> HIDE DEF v
    <2> QED
      BY <1>2, <2>1, <2>3, <2>4, QuietOne, QuietSame
  <1>5. CASE WriteFails(q) \/ (OpenFile(q) /\ file[req[q].run] = NoFile)
    <2>1. r \in Runs /\ req[q].seq \in Seqs
      BY <1>1, <1>5, TurnParts DEF WriteFails, OpenFile
    <2> DEFINE len == LenOf[req[q].seq]
    <2>2. video' = Release(r, len) /\ UNCHANGED <<chunks, file>> /\ len \in Nat
      BY <1>5, <2>1, LenParts DEF WriteFails, OpenFile
    <2> HIDE DEF len
    <2>3. PICK v \in VideoRows :
              /\ Release(r, len) = [video EXCEPT ![r] = v]
              /\ v.on = video[r].on /\ v.evicted = video[r].evicted /\ v.bytes = video[r].bytes /\ v.next = video[r].next
              /\ v.reserved = IF video[r].reserved > len THEN video[r].reserved - len ELSE 0
              /\ v = [video[r] EXCEPT !.reserved = IF video[r].reserved > len THEN video[r].reserved - len ELSE 0]
      <3> HIDE DEF r
      <3> QED
        BY ONLY <1>1, <2>1, <2>2, ReleaseParts
    <2> QED
      BY <1>2, <2>1, <2>2, <2>3, QuietOne
  <1> QED
    BY <1>3, <1>4, <1>5

LEMMA StoreFrom ==
  ASSUME Around, video' \in [Runs -> VideoRows], chunks' \in [Runs -> Seq(Marks)],
         file' \in [Runs -> Seq(Seqs) \cup {NoFile}], \A s \in Runs : Quiet(s) \/ Fades(s) \/ StoreOk(s)'
  PROVE  StoreKeeps
  <1>1. StoreTypes'
    BY DEF StoreTypes, Around, CallKeeps
  <1>2. ASSUME NEW s \in Runs
        PROVE  StoreOk(s)'
    BY AroundParts, QuietKeeps, FadesKeeps DEF Around
  <1> QED
    BY <1>1, <1>2 DEF StoreKeeps, StoreInv

LEMMA EvictParts ==
  ASSUME TypeInv, NEW e \in SUBSET Runs
  PROVE  /\ Evict(e) \in [Runs -> VideoRows] /\ Unlinked(e) \in [Runs -> Seq(Seqs) \cup {NoFile}]
         /\ \A c \in e : /\ Evict(e)[c].evicted /\ Evict(e)[c].on = video[c].on /\ Unlinked(e)[c] = NoFile
         /\ \A c \in Runs \ e : Evict(e)[c] = video[c] /\ Unlinked(e)[c] = file[c]
  <1>1. ASSUME NEW c \in Runs
        PROVE  /\ [video[c] EXCEPT !.evicted = TRUE] \in VideoRows
               /\ [video[c] EXCEPT !.evicted = TRUE].evicted
               /\ [video[c] EXCEPT !.evicted = TRUE].on = video[c].on
               /\ video[c] \in VideoRows /\ file[c] \in Seq(Seqs) \cup {NoFile}
    <2>1. video[c] \in VideoRows /\ file[c] \in Seq(Seqs) \cup {NoFile}
      BY StoreParts
    <2> QED
      BY <2>1 DEF VideoRows
  <1> QED
    BY <1>1 DEF Evict, Unlinked

LEMMA NoRoomStore ==
  ASSUME Around, NEW q \in Requests, NoRoom(q)
  PROVE  StoreKeeps
  <1> DEFINE r == req[q].run  e == ToEvict(r, Settled, LenOf[req[q].seq])
             v == [video[r] EXCEPT !.ended = TRUE, !.reason = "storage-full"]
  <1>1. TypeInv /\ CallInv
    BY DEF Around
  <1>2. \A s \in Runs : CallsQuiet(s)
    BY <1>1, EndingCalls, QuietKinds DEF Ending
  <1>3. r \in Runs
    BY <1>1, TurnParts DEF NoRoom
  <1>4. e \subseteq Runs /\ r \notin e /\ \A c \in e : Live(c) /\ queue[c] = <<>>
    BY <1>1, EvictedParts, EvictableParts
  <1>5. video' = [Evict(e) EXCEPT ![r].ended = TRUE, ![r].reason = "storage-full"] /\ UNCHANGED <<chunks, file>>
    BY DEF NoRoom
  <1> HIDE DEF r, e
  <1>6. /\ Evict(e) \in [Runs -> VideoRows]
        /\ \A c \in e : Evict(e)[c].evicted /\ Evict(e)[c].on = video[c].on
        /\ \A c \in Runs \ e : Evict(e)[c] = video[c]
    BY <1>1, <1>4, EvictParts
  <1>7. video' = [Evict(e) EXCEPT ![r] = v]
    BY <1>3, <1>4, <1>5, <1>6
  <1>8. video[r] \in VideoRows /\ video[r].on \in BOOLEAN
    BY <1>1, <1>3, StoreParts
  <1>9. v \in VideoRows /\ v.on = video[r].on /\ v.evicted = video[r].evicted /\ v.bytes = video[r].bytes /\ v.next = video[r].next
    BY <1>8 DEF VideoRows, Reasons
  <1> HIDE DEF v
  <1>10. video' \in [Runs -> VideoRows] /\ video'[r] = v /\ \A c \in Runs : c # r => video'[c] = Evict(e)[c]
    BY <1>3, <1>6, <1>7, <1>9
  <1>11. ASSUME NEW s \in Runs
         PROVE  Quiet(s) \/ Fades(s)
    <2>1. CASE s \in e
      BY <1>2, <1>4, <1>6, <1>10, <2>1, AroundParts DEF Fades, Live
    <2>2. CASE s \notin e
      <3>1. SameData(s)
        BY <1>6, <1>9, <1>10, <2>2 DEF SameData
      <3> QED
        BY <1>2, <1>5, <3>1, AroundParts DEF Quiet, SameData
    <2> QED
      BY <2>1, <2>2
  <1>12. chunks' \in [Runs -> Seq(Marks)] /\ file' \in [Runs -> Seq(Seqs) \cup {NoFile}]
    BY <1>1, <1>5 DEF TypeInv, StoreTypes
  <1> QED
    BY <1>10, <1>11, <1>12, StoreFrom

LEMMA PurgeStore ==
  ASSUME Around, NEW old, PurgeVideos(old)
  PROVE  StoreKeeps
  <1> DEFINE gone == old \cap {r \in Passed : /\ Live(r) /\ queue[r] = <<>>
                                              /\ Settled[r].status # "running"
                                              /\ VideoEnded(video[r], Settled[r])}
             lost == {r \in Runs : Live(r) /\ file[r] = NoFile}
             dead == {r \in Runs : r \in gone \/ ~ Live(r)}
             e == gone \cup lost
  <1>1. TypeInv /\ CallInv
    BY DEF Around
  <1>2. video' = Evict(e) /\ file' = Unlinked(dead) /\ UNCHANGED <<chunks, queue, req>>
    BY DEF PurgeVideos, Purged
  <1>3. \A s \in Runs : CallsQuiet(s)
    BY <1>1, <1>2, QuietKinds DEF CallsStay
  <1>4. lost = {}
    BY AroundParts DEF StoreOk, Stored
  <1>5. gone \subseteq Runs /\ \A c \in gone : Live(c) /\ queue[c] = <<>>
    BY VideosAssumption
  <1>6. e = gone /\ e \in SUBSET Runs /\ dead \in SUBSET Runs /\ (\A c \in Runs : c \in dead <=> c \in gone \/ ~ Live(c))
    BY <1>4, <1>5
  <1> HIDE DEF gone, lost, dead, e
  <1>7. /\ Evict(e) \in [Runs -> VideoRows] /\ Unlinked(dead) \in [Runs -> Seq(Seqs) \cup {NoFile}]
        /\ \A c \in e : Evict(e)[c].evicted /\ Evict(e)[c].on = video[c].on
        /\ \A c \in Runs \ e : Evict(e)[c] = video[c]
        /\ \A c \in dead : Unlinked(dead)[c] = NoFile
        /\ \A c \in Runs \ dead : Unlinked(dead)[c] = file[c]
    BY <1>1, <1>6, EvictParts
  <1>8. ASSUME NEW s \in Runs
        PROVE  Quiet(s) \/ Fades(s)
    <2>1. CASE s \in gone
      BY <1>2, <1>3, <1>5, <1>6, <1>7, <2>1, AroundParts DEF Fades, Live
    <2>2. CASE s \notin gone
      <3>1. video'[s] = video[s] /\ (file'[s] = file[s] \/ (~ Live(s) /\ file'[s] = NoFile))
        BY <1>2, <1>6, <1>7, <2>2
      <3> QED
        BY <1>2, <1>3, <3>1, AroundParts DEF Quiet
    <2> QED
      BY <2>1, <2>2
  <1>9. chunks' \in [Runs -> Seq(Marks)]
    BY <1>1, <1>2 DEF TypeInv, StoreTypes
  <1> QED
    BY <1>2, <1>7, <1>8, <1>9, StoreFrom

LEMMA RestartStore ==
  ASSUME Around, Restart
  PROVE  StoreKeeps
  <1>1. TypeInv /\ CallsEnd /\ UNCHANGED <<chunks, file>>
    BY DEF Around, Restart, CallsEnd
  <1>2. \A s \in Runs : CallsQuiet(s)
    BY <1>1, QuietKinds
  <1>3. video' = [r \in Runs |-> [video[r] EXCEPT !.reserved = 0]]
    BY DEF Restart
  <1>4. ASSUME NEW s \in Runs
        PROVE  video'[s] \in VideoRows /\ SameData(s)
    <2>1. video[s] \in VideoRows /\ video'[s] = [video[s] EXCEPT !.reserved = 0]
      BY <1>1, <1>3, StoreParts
    <2> QED
      BY <2>1 DEF VideoRows, SameData
  <1>5. video' \in [Runs -> VideoRows]
    BY <1>3, <1>4
  <1> QED
    BY <1>1, <1>2, <1>4, <1>5, QuietAll

LEMMA NoVideoParts == NoVideo \in VideoRows /\ ~ NoVideo.on /\ NoVideo.reserved = 0
  <1>1. MaxSeq \in Nat
    BY VideosAssumption
  <1>2. 0 \in 0..(MaxSeq + 1) /\ -1 \in -1..MaxSeq /\ "none" \in Reasons
    BY <1>1 DEF Reasons
  <1> QED
    BY <1>2 DEF NoVideo, VideoRows

LEMMA DeleteStore ==
  ASSUME Around, NEW r \in Runs, DeleteRun(r)
  PROVE  StoreKeeps
  <1> DEFINE v == [NoVideo EXCEPT !.born = video[r].born]
  <1>1. TypeInv /\ CallsStay
    BY DEF Around, DeleteRun, CallsStay
  <1>2. \A s \in Runs : CallsQuiet(s)
    BY <1>1, QuietKinds
  <1>3. /\ video' = [video EXCEPT ![r] = v] /\ chunks' = [chunks EXCEPT ![r] = <<>>]
        /\ file' = IF Live(r) THEN Unlinked({r}) ELSE file
        /\ row' = [row EXCEPT ![r] = Gone]
    BY DEF DeleteRun
  <1>4. video[r] \in VideoRows /\ MaxSeq \in Nat
    BY <1>1, StoreParts, VideosAssumption
  <1>5. v \in VideoRows /\ ~ v.on
    <2>1. NoVideo \in VideoRows /\ ~ NoVideo.on
      BY NoVideoParts
    <2>2. video[r].born \in Nat
      BY <1>4 DEF VideoRows
    <2> QED
      BY <2>1, <2>2 DEF VideoRows
  <1> HIDE DEF v
  <1>6. /\ video \in [Runs -> VideoRows] /\ chunks \in [Runs -> Seq(Marks)] /\ file \in [Runs -> Seq(Seqs) \cup {NoFile}]
        /\ row \in [Runs -> Row] /\ <<>> \in Seq(Marks)
    BY <1>1, StoreParts, EmptySeq DEF TypeInv, RowTypes
  <1>7. /\ Unlinked({r}) \in [Runs -> Seq(Seqs) \cup {NoFile}] /\ Unlinked({r})[r] = NoFile
        /\ \A c \in Runs : c # r => Unlinked({r})[c] = file[c]
    BY <1>1, EvictParts
  <1>8. /\ video' \in [Runs -> VideoRows] /\ chunks' \in [Runs -> Seq(Marks)] /\ file' \in [Runs -> Seq(Seqs) \cup {NoFile}]
        /\ ~ video'[r].on /\ ~ Exists(row'[r]) /\ (file'[r] = NoFile \/ (~ Live(r) /\ file'[r] = file[r]))
        /\ \A s \in Runs : s # r => video'[s] = video[s] /\ chunks'[s] = chunks[s] /\ file'[s] = file[s]
    <2>1. video' \in [Runs -> VideoRows] /\ video'[r] = v /\ \A s \in Runs : s # r => video'[s] = video[s]
      BY <1>3, <1>5, <1>6
    <2>2. chunks' \in [Runs -> Seq(Marks)] /\ \A s \in Runs : s # r => chunks'[s] = chunks[s]
      BY <1>3, <1>6
    <2>3. /\ file' \in [Runs -> Seq(Seqs) \cup {NoFile}] /\ (file'[r] = NoFile \/ (~ Live(r) /\ file'[r] = file[r]))
          /\ \A s \in Runs : s # r => file'[s] = file[s]
      BY <1>3, <1>6, <1>7
    <2>4. ~ Exists(row'[r])
      BY <1>3, <1>6, RowParts
    <2> QED
      BY <1>5, <2>1, <2>2, <2>3, <2>4
  <1>9. StoreOk(r)'
    <2>1. ~ Live(r)' /\ ~ Exists(row'[r])
      BY <1>8 DEF Live
    <2>2. ASSUME NEW q \in Requests, Of(q, r)'
          PROVE  CallInOrder(q, r)' /\ CallWrites(q, r)'
      <3>1. Of(q, r) /\ req'[q] = req[q] /\ lane'[r] = lane[r]
        BY <2>2 DEF DeleteRun, Of
      <3>2. CallInOrder(q, r) /\ CallWrites(q, r)
        BY <3>1, AroundParts DEF StoreOk
      <3> QED
        BY <1>8, <2>1, <3>1, <3>2 DEF CallInOrder, CallWrites
    <2> QED
      BY <2>1, <2>2 DEF StoreOk
  <1>10. ASSUME NEW s \in Runs, s # r
         PROVE  Quiet(s)
    BY <1>2, <1>8, <1>10, AroundParts DEF Quiet
  <1> QED
    BY <1>8, <1>9, <1>10, StoreFrom

\* Unless it has told the lane so, a live video lacks nothing the lane's next chunk needs.
LaneOrder(s) ==
    Live(s) /\ ~ lane[s].stopped /\ ~ lane[s].closed /\ ~ lane[s].awaiting /\ lane[s].pos \in 1..tap[s].n + 1
      => Seq0(s) \in KeySeqs \/ video[s].next >= Seq0(s)

\* A call of r alone comes in, or moves on: the other videos are as they were.
LEMMA StoreAt ==
  ASSUME Around, NEW r \in Runs, \A s \in Runs : s # r => CallsQuiet(s) /\ SameData(s),
         \A s \in Runs : s # r => chunks'[s] = chunks[s] /\ file'[s] = file[s],
         video' \in [Runs -> VideoRows], chunks' \in [Runs -> Seq(Marks)],
         file' \in [Runs -> Seq(Seqs) \cup {NoFile}], StoreOk(r)'
  PROVE  StoreKeeps
  <1>1. ASSUME NEW s \in Runs, s # r
        PROVE  Quiet(s)
    BY <1>1, AroundParts DEF Quiet, SameData
  <1> QED
    BY <1>1, StoreFrom

LEMMA SendStore ==
  ASSUME Around, NEW r \in Runs, LaneOrder(r), Send(r)
  PROVE  StoreKeeps
  <1>1. TypeInv /\ UNCHANGED <<video, chunks, file, row>>
    BY DEF Around, Send
  <1>2. CASE CallsStay
    BY <1>1, <1>2, QuietKinds, QuietSame
  <1>3. ASSUME NEW q \in Requests, AtHeaders(r) = "body", CallComes(q, Call(r)),
               lane' = [lane EXCEPT ![r].wait = q, ![r].awaiting = @ /\ Item(r) # "chunk"]
        PROVE  StoreKeeps
    <2>1. CASE Call(r) \notin Pieces
      BY <1>1, <1>3, <2>1, QuietKinds, QuietSame
    <2>2. CASE Call(r) \in Pieces
      <3>1. Item(r) = "chunk" /\ Call(r) = [op |-> "chunk", run |-> r, seq |-> Seq0(r), at |-> "body", off |-> 0, put |-> 0]
        BY <1>1, <2>2, CallOf DEF Call
      <3>2. Call(r).run = r /\ Call(r).seq = Seq0(r) /\ Call(r).at = "body" /\ Call(r).put = 0
        BY <3>1
      <3>3. \A s \in Runs : s # r => CallsQuiet(s)
        BY <1>1, <1>3, <3>2, QuietKinds
      <3>4. video[r].on
        BY <1>3, <3>1 DEF AtHeaders
      <3>5. req'[q] = Call(r) /\ \A p \in Requests : p # q => req'[p] = req[p]
        BY <1>1, <1>3, CallTypes DEF CallComes
      <3>6. lane'[r].pos = lane[r].pos
        BY <1>1, <1>3, LaneParts DEF LanesType
      <3>7. lane[r].pos \in 1..tap[r].n /\ Seq0(r) = lane[r].pos - 1 /\ lane[r].pos \in Nat /\ tap[r].n \in Nat
        BY <1>1, <3>1, LaneParts
      <3>8. Live(r) => Seq0(r) \in KeySeqs \/ video[r].next >= Seq0(r)
        <4>1. ~ lane[r].stopped /\ ~ lane[r].closed /\ (lane[r].awaiting => Seq0(r) \in KeySeqs)
          BY <3>1 DEF Send, Ready, Skips
        <4>2. lane[r].pos \in 1..tap[r].n + 1
          BY <3>7
        <4> QED
          BY <4>1, <4>2 DEF LaneOrder
      <3>9. StoreOk(r) /\ (Live(r)' <=> Live(r))
        BY <1>1, AroundParts DEF Live
      <3>10. ASSUME NEW p \in Requests, Of(p, r)'
             PROVE  CallInOrder(p, r)' /\ CallWrites(p, r)'
        <4>1. CASE p = q
          <5>1. Seq0(r) < lane'[r].pos
            BY <3>6, <3>7
          <5> QED
            BY <1>1, <3>2, <3>5, <3>8, <3>9, <4>1, <5>1 DEF CallInOrder, CallWrites
        <4>2. CASE p # q
          <5>1. req'[p] = req[p] /\ Of(p, r)
            BY <3>5, <3>10, <4>2 DEF Of
          <5>2. CallInOrder(p, r) /\ CallWrites(p, r)
            BY <3>9, <5>1 DEF StoreOk
          <5> QED
            BY <1>1, <3>6, <3>9, <5>1, <5>2 DEF CallInOrder, CallWrites
        <4> QED
          BY <4>1, <4>2
      <3>11. Live(r)' => Stored(r)'
        <4>1. Live(r) => Stored(r)
          BY <3>9 DEF StoreOk
        <4> QED
          BY <1>1, <3>6, <3>9, <4>1 DEF Stored, Indexed, LaidOut, Playable, End
      <3>12. StoreOk(r)'
        BY <1>1, <3>4, <3>10, <3>11 DEF StoreOk
      <3>13. /\ video' \in [Runs -> VideoRows] /\ chunks' \in [Runs -> Seq(Marks)]
             /\ file' \in [Runs -> Seq(Seqs) \cup {NoFile}]
        BY <1>1 DEF TypeInv, StoreTypes
      <3> QED
        BY <1>1, <3>3, <3>12, <3>13, StoreAt DEF SameData
    <2> QED
      BY <2>1, <2>2
  <1> QED
    BY <1>1, <1>2, <1>3, SendCalls

\* What an opening does, when it opens.
Opens(q, r) ==
    /\ req[q].run = r /\ ~ video[r].on /\ Exists(row[r])
    /\ \E n \in Nat : video' = [video EXCEPT ![r] = [NoVideo EXCEPT !.on = TRUE, !.born = n]]
    /\ file' = [file EXCEPT ![r] = <<>>]
    /\ Replies(q, "ok")

LEMMA OpenParts ==
  ASSUME TypeInv, CallInv, NEW q \in Requests, OpenVideo(q)
  PROVE  /\ req[q] \in Openings /\ req[q].run \in Runs /\ CallLeaves(q) /\ UNCHANGED <<row, chunks, queue, tap>>
         /\ \/ UNCHANGED <<video, file>>
            \/ Opens(q, req[q].run)
  <1> DEFINE r == req[q].run  n == 1 + Cardinality({x \in Runs : video[x].born # 0})
  <1>1. req[q] \in Openings /\ r \in Runs /\ req[q] # Idle
    BY CallTypes, CallParts, IdleIsNone DEF OpenVideo
  <1>2. CallLeaves(q) /\ UNCHANGED <<row, chunks, queue, tap>>
    BY OpenCalls DEF OpenVideo, CallLeaves
  <1>3. n \in Nat
    <2>1. {x \in Runs : video[x].born # 0} \subseteq Runs /\ IsFiniteSet(Runs)
      BY VideosAssumption
    <2>2. Cardinality({x \in Runs : video[x].born # 0}) \in Nat
      BY <2>1, FS_Subset, FS_CardinalityType
    <2> QED
      BY <2>2
  <1>4. \/ UNCHANGED <<video, file>>
        \/ /\ ~ video[r].on /\ Exists(row[r])
           /\ video' = [video EXCEPT ![r] = [NoVideo EXCEPT !.on = TRUE, !.born = n]]
           /\ file' = [file EXCEPT ![r] = <<>>]
           /\ Reply(q, r, "ok") /\ UNCHANGED tap
    BY DEF OpenVideo
  <1> HIDE DEF n
  <1> QED
    BY <1>1, <1>2, <1>3, <1>4 DEF Opens, Replies, Codes

LEMMA OpenStore ==
  ASSUME Around, NEW q \in Requests, NEW r \in Runs, r = req[q].run, OpenVideo(q)
  PROVE  StoreKeeps
  <1>1. TypeInv /\ CallInv
    BY DEF Around
  <1>2. r \in Runs /\ CallLeaves(q) /\ UNCHANGED <<row, chunks>> /\ (UNCHANGED <<video, file>> \/ Opens(q, r))
    BY <1>1, OpenParts
  <1>3. \A s \in Runs : CallsQuiet(s)
    BY <1>1, <1>2, QuietKinds
  <1>4. CASE UNCHANGED <<video, file>>
    BY <1>2, <1>3, <1>4, QuietSame
  <1>5. CASE Opens(q, r)
    <2>1. PICK n \in Nat : video' = [video EXCEPT ![r] = [NoVideo EXCEPT !.on = TRUE, !.born = n]]
      BY <1>5 DEF Opens
    <2> DEFINE v == [NoVideo EXCEPT !.on = TRUE, !.born = n]
    <2>2. v \in VideoRows /\ v.on /\ ~ v.evicted /\ v.bytes = 0 /\ v.next = 0
      BY NoVideoParts DEF VideoRows, NoVideo
    <2>3. video' = [video EXCEPT ![r] = v]
      BY <2>1
    <2> HIDE DEF v
    <2>4. ~ video[r].on /\ Exists(row[r]) /\ file' = [file EXCEPT ![r] = <<>>]
      BY <1>5 DEF Opens
    <2>5. /\ video \in [Runs -> VideoRows] /\ chunks \in [Runs -> Seq(Marks)] /\ file \in [Runs -> Seq(Seqs) \cup {NoFile}]
          /\ <<>> \in Seq(Seqs) /\ Len(<<>>) = 0 /\ <<>> # NoFile
      BY <1>1, <1>2, StoreParts, EmptySeq, VideosAssumption
    <2>6. /\ video' \in [Runs -> VideoRows] /\ file' \in [Runs -> Seq(Seqs) \cup {NoFile}]
          /\ video'[r] = v /\ file'[r] = <<>>
          /\ \A s \in Runs : s # r => video'[s] = video[s] /\ file'[s] = file[s]
      BY <1>2, <2>2, <2>3, <2>4, <2>5
    <2>7. chunks[r] = <<>> /\ \A p \in Requests : ~ Of(p, r)
      BY <1>2, <2>4, AroundParts DEF StoreOk
    <2>8. \A p \in Requests : ~ Of(p, r)'
      <3>1. ASSUME NEW p \in Requests, Of(p, r)'
            PROVE  FALSE
        <4>1. CallsQuiet(r)
          BY <1>2, <1>3
        <4>2. Of(p, r)
          BY <1>2, <3>1, <4>1, QuietCall
        <4> QED
          BY <2>7, <4>2
      <3> QED
        BY <3>1
    <2>9. Stored(r)'
      <3>1. Indexed(<<>>, <<>>, 0, 0) /\ Playable(<<>>)
        BY EmptyIndex
      <3>2. chunks'[r] = <<>> /\ file'[r] = <<>> /\ video'[r].bytes = 0 /\ video'[r].next = 0 /\ lane'[r].pos \in Nat
        BY <1>2, <2>2, <2>6, <2>7, AroundParts
      <3>3. file'[r] # NoFile /\ video'[r].bytes <= Len(file'[r]) /\ video'[r].next <= lane'[r].pos
        BY <2>5, <3>2
      <3>4. Indexed(chunks'[r], file'[r], video'[r].bytes, video'[r].next) /\ Playable(chunks'[r])
        BY <3>1, <3>2
      <3>5. Indexed(chunks[r], file[r], video[r].bytes, video[r].next)' /\ Playable(chunks[r])'
        BY <3>4 DEF Indexed, LaidOut, Playable, End
      <3> QED
        BY <3>3, <3>5 DEF Stored
    <2>10. StoreOk(r)'
      BY <2>2, <2>6, <2>8, <2>9 DEF StoreOk
    <2> QED
      <3>1. \A s \in Runs : s # r => CallsQuiet(s) /\ SameData(s)
        BY <1>3, <2>6 DEF SameData
      <3>2. \A s \in Runs : s # r => chunks'[s] = chunks[s] /\ file'[s] = file[s]
        BY <1>2, <2>6
      <3>3. chunks' \in [Runs -> Seq(Marks)]
        BY <1>2, <2>5
      <3> QED
        BY <1>2, <2>6, <2>10, <3>1, <3>2, <3>3, StoreAt
  <1> QED
    BY <1>2, <1>4, <1>5

\* One chunk of a video is written at a time.
LEMMA OneAtATime ==
  ASSUME TypeInv, CallInv, NEW q \in Requests, First(q), NEW p \in Requests, Of(p, req[q].run), p # q
  PROVE  req[p].at \in {"body", "queued"}
  <1>1. req[p] \in Pieces /\ req[p].at \in {"body", "queued", "reserved", "writing"}
    BY PieceParts DEF Of
  <1>2. ASSUME req[p].at \in {"reserved", "writing"}
        PROVE  FALSE
    <2>1. First(p)
      BY <1>1, <1>2, HeldIsFirst
    <2> QED
      BY <2>1 DEF First, Of
  <1> QED
    BY <1>1, <1>2

\* A call at work leaves its video's data as it was, and the others' calls too.
LEMMA WorkedRun ==
  ASSUME Around, NEW q \in Requests, NEW r \in Runs, r = req[q].run, Working(q), SameData(r), chunks'[r] = chunks[r],
         Live(r) => Stored(r)', CallWrites(q, r)'
  PROVE  StoreOk(r)' /\ \A s \in Runs : s # r => CallsQuiet(s)
  <1>1. TypeInv /\ CallInv
    BY DEF Around
  <1>2. CallWorks(q, Worked(q))
    BY <1>1, WorkingCalls
  <1>3. \A s \in Runs : s # r => CallsQuiet(s)
    BY <1>1, <1>2, QuietKinds
  <1>4. /\ First(q) /\ Of(q, r) /\ Worked(q).seq = req[q].seq /\ UNCHANGED queue
        /\ req'[q] = Worked(q) /\ \A p \in Requests : p # q => req'[p] = req[p]
    BY <1>1, <1>2, CallTypes DEF CallWorks, First, Of
  <1>5. StoreOk(r) /\ (Live(r)' <=> Live(r)) /\ (Exists(row'[r]) => Exists(row[r]))
    BY AroundParts DEF SameData, Live
  <1>6. lane[r].pos <= lane'[r].pos /\ lane[r].pos \in Nat /\ lane'[r].pos \in Nat
    BY AroundParts
  <1>7. video'[r].on \/ ~ Exists(row'[r])
    BY <1>4, <1>5 DEF StoreOk, SameData
  <1>8. ASSUME NEW p \in Requests, Of(p, r)'
        PROVE  CallInOrder(p, r)' /\ CallWrites(p, r)'
    <2>1. Of(p, r) /\ req'[p].seq = req[p].seq
      BY <1>4, <1>8 DEF Of
    <2>2. CallInOrder(p, r) /\ CallWrites(p, r) /\ req[p].seq \in Nat
      BY <1>5, <2>1, PieceParts DEF StoreOk, Of, Seqs
    <2>3. CallInOrder(p, r)'
      BY <1>5, <1>6, <2>1, <2>2 DEF CallInOrder, SameData
    <2>4. CASE p # q
      <3>1. req'[p] = req[p] /\ req[p].at \in {"body", "queued"}
        BY <1>1, <1>4, <2>1, <2>4, OneAtATime
      <3> QED
        BY <2>2, <2>3, <3>1 DEF CallWrites
    <2> QED
      BY <2>3, <2>4
  <1>9. Live(r)' => Stored(r)'
    BY <1>5
  <1>10. StoreOk(r)'
    BY <1>7, <1>8, <1>9 DEF StoreOk
  <1> QED
    BY <1>3, <1>10

\* The file is open: nothing of it is written yet.
LEMMA OpenFileStore ==
  ASSUME Around, NEW q \in Requests, NEW r \in Runs, r = req[q].run, OpenFile(q), file[r] # NoFile
  PROVE  StoreKeeps
  <1>1. TypeInv /\ CallInv /\ Working(q)
    BY DEF Around, Working
  <1>2. UNCHANGED <<video, chunks, file, lane, row>>
    BY DEF OpenFile
  <1>3. req[q].at = "reserved" /\ First(q) /\ req'[q] = Worked(q) /\ req[q] \in Pieces
    BY <1>1, WorkingCalls, CallTypes DEF CallWorks, First
  <1>4. Worked(q).at = "writing" /\ Worked(q).put = req[q].put /\ Worked(q).off = req[q].off /\ Worked(q).seq = req[q].seq
    BY <1>3 DEF Worked, Pieces
  <1>5. StoreOk(r) /\ Of(q, r)
    BY <1>3, AroundParts DEF Of
  <1>6. CallWrites(q, r)
    BY <1>5 DEF StoreOk
  <1>7. CallWrites(q, r)'
    BY <1>2, <1>3, <1>4, <1>6 DEF CallWrites, Live
  <1>8. Live(r) => Stored(r)'
    BY <1>2, <1>5, ZenonT(30) DEF StoreOk, Stored, Indexed, LaidOut, Playable, End
  <1>9. StoreOk(r)' /\ \A s \in Runs : s # r => CallsQuiet(s)
    BY <1>1, <1>2, <1>7, <1>8, WorkedRun DEF SameData
  <1>10. /\ video' \in [Runs -> VideoRows] /\ chunks' \in [Runs -> Seq(Marks)]
         /\ file' \in [Runs -> Seq(Seqs) \cup {NoFile}]
    BY <1>1, <1>2 DEF TypeInv, StoreTypes
  <1> QED
    BY <1>2, <1>9, <1>10, StoreAt DEF SameData

\* One cell written at or past the committed end.
LEMMA OverwrittenParts ==
  ASSUME NEW f \in Seq(Seqs), NEW at \in Nat, at <= Len(f), NEW x \in Seqs
  PROVE  /\ Overwritten(f, at, x) \in Seq(Seqs)
         /\ Len(Overwritten(f, at, x)) = IF Len(f) > at THEN Len(f) ELSE at + 1
         /\ Overwritten(f, at, x)[at + 1] = x
         /\ \A b \in 1..Len(f) : b # at + 1 => Overwritten(f, at, x)[b] = f[b]
  <1> DEFINE n == IF Len(f) > at THEN Len(f) ELSE at + 1
             g == Overwritten(f, at, x)
  <1>1. Len(f) \in Nat /\ \A b \in 1..Len(f) : f[b] \in Seqs
    BY LenProperties, ElementOfSeq
  <1>2. n \in Nat /\ at + 1 \in 1..n /\ Len(f) <= n /\ \A b \in 1..n : b = at + 1 \/ b \in 1..Len(f)
    BY <1>1
  <1>3. g = [b \in 1..n |-> IF b = at + 1 THEN x ELSE f[b]]
    BY DEF Overwritten
  <1> HIDE DEF n, g
  <1>4. g \in [1..n -> Seqs]
    BY <1>1, <1>2, <1>3
  <1>5. g \in Seq(Seqs) /\ Len(g) = n
    BY <1>2, <1>4, LenProperties, SeqDef
  <1>6. g[at + 1] = x /\ \A b \in 1..Len(f) : b # at + 1 => g[b] = f[b]
    BY <1>1, <1>2, <1>3
  <1> QED
    BY <1>5, <1>6 DEF n, g

LEMMA StoredFrom ==
  ASSUME NEW s \in Runs, file'[s] # NoFile, video'[s].bytes <= Len(file'[s]),
         Indexed(chunks'[s], file'[s], video'[s].bytes, video'[s].next), Playable(chunks'[s]),
         video'[s].next <= lane'[s].pos
  PROVE  Stored(s)'
  <1>1. Indexed(chunks[s], file[s], video[s].bytes, video[s].next)' /\ Playable(chunks[s])'
    BY DEF Indexed, LaidOut, Playable, End
  <1> QED
    BY <1>1 DEF Stored

LEMMA WriteCellStore ==
  ASSUME Around, NEW q \in Requests, NEW r \in Runs, r = req[q].run, WriteCell(q)
  PROVE  StoreKeeps
  <1> DEFINE x == req[q].seq  off == req[q].off  put == req[q].put  at == off + put  f == file[r]
             g == Overwritten(f, at, x)
  <1>1. TypeInv /\ CallInv /\ Working(q)
    BY DEF Around, Working
  <1>2. /\ UNCHANGED <<video, chunks, lane, row>> /\ put < LenOf[x]
        /\ file' = IF f = NoFile THEN file ELSE [file EXCEPT ![r] = g]
    BY DEF WriteCell
  <1>3. req[q].at = "writing" /\ First(q) /\ req'[q] = Worked(q) /\ req[q] \in Pieces
    BY <1>1, WorkingCalls, CallTypes DEF CallWorks, First
  <1>4. Worked(q).at = "writing" /\ Worked(q).put = put + 1 /\ Worked(q).off = off /\ Worked(q).seq = x
    BY <1>3 DEF Worked, Pieces
  <1>5. StoreOk(r) /\ Of(q, r) /\ x \in Seqs /\ off \in Nat /\ put \in Nat /\ LenOf[x] \in Nat
    BY <1>3, AroundParts, PieceParts, LenParts DEF Of
  <1>6. /\ f # NoFile => Live(r)
        /\ Live(r) => /\ off = video[r].bytes /\ x >= video[r].next /\ at <= Len(f)
                      /\ \A b \in 1..put : f[off + b] = x
                      /\ Stored(r)
    BY <1>3, <1>5 DEF StoreOk, CallWrites
  <1>7. Live(r)' <=> Live(r)
    BY <1>2 DEF Live
  <1>8. /\ chunks[r] \in Seq(Marks) /\ video[r].bytes \in Nat /\ video[r].next \in Nat
        /\ f # NoFile => f \in Seq(Seqs) /\ Len(f) \in Nat
        /\ file \in [Runs -> Seq(Seqs) \cup {NoFile}]
    BY <1>1, StoreParts
  <1>9. put + 1 <= LenOf[x]
    BY <1>2, <1>5
  <1>10. CASE f = NoFile
    <2>1. ~ Live(r) /\ UNCHANGED file
      BY <1>2, <1>6, <1>10 DEF Stored
    <2>2. CallWrites(q, r)'
      BY <1>3, <1>4, <1>7, <1>9, <1>10, <2>1 DEF CallWrites
    <2>3. StoreOk(r)' /\ \A s \in Runs : s # r => CallsQuiet(s)
      BY <1>1, <1>2, <2>1, <2>2, WorkedRun DEF SameData
    <2>4. /\ video' \in [Runs -> VideoRows] /\ chunks' \in [Runs -> Seq(Marks)]
          /\ file' \in [Runs -> Seq(Seqs) \cup {NoFile}]
      BY <1>1, <1>2, <2>1 DEF TypeInv, StoreTypes
    <2> QED
      BY <1>2, <2>1, <2>3, <2>4, StoreAt DEF SameData
  <1>11. CASE f # NoFile
    <2>1. Live(r) /\ f \in Seq(Seqs) /\ Len(f) \in Nat /\ at \in Nat /\ at <= Len(f) /\ at = off + put
      BY <1>5, <1>6, <1>8, <1>11
    <2>2. /\ g \in Seq(Seqs) /\ Len(g) = (IF Len(f) > at THEN Len(f) ELSE at + 1) /\ g[at + 1] = x
          /\ \A b \in 1..Len(f) : b # at + 1 => g[b] = f[b]
      <3> HIDE DEF x, at, f
      <3> QED
        BY <1>5, <2>1, OverwrittenParts, ZenonT(30)
    <2>3. file' = [file EXCEPT ![r] = g] /\ file'[r] = g /\ g # NoFile
      BY <1>2, <1>8, <1>11, <2>2, VideosAssumption
    <2>4. /\ off = video[r].bytes /\ x >= video[r].next /\ (\A b \in 1..put : f[off + b] = x)
          /\ Stored(r)
      BY <1>6, <2>1
    <2> HIDE DEF g
    <2>5. Len(f) <= Len(g) /\ at + 1 <= Len(g) /\ Len(g) \in Nat
      BY <2>1, <2>2
    <2>6. \A b \in 1..video[r].bytes : g[b] = f[b]
      <3> TAKE b \in 1..video[r].bytes
      <3>1. b \in 1..Len(f) /\ b # at + 1
        BY <1>5, <1>8, <2>1, <2>4
      <3> QED
        BY <2>2, <3>1
    <2>7. Indexed(chunks[r], g, video[r].bytes, video[r].next)
      <3>1. Indexed(chunks[r], f, video[r].bytes, video[r].next)
        BY <2>4 DEF Stored
      <3> HIDE DEF f
      <3> QED
        BY <1>8, <2>6, <3>1, IndexStays
    <2>8. Stored(r)'
      <3>1. /\ video[r].bytes <= Len(g) /\ Playable(chunks[r]) /\ video[r].next <= lane[r].pos
        <4>1. video[r].bytes <= Len(f) /\ Playable(chunks[r]) /\ video[r].next <= lane[r].pos
          BY <2>4 DEF Stored
        <4> HIDE DEF f
        <4> QED
          BY <1>8, <2>1, <2>5, <4>1
      <3>2. /\ chunks'[r] = chunks[r] /\ video'[r] = video[r] /\ lane'[r] = lane[r]
        BY <1>2
      <3> QED
        BY <2>3, <2>7, <3>1, <3>2, StoredFrom
    <2>9. CallWrites(q, r)'
      <3>1. off + (put + 1) <= Len(g)
        BY <1>5, <2>5
      <3>2. \A b \in 1..put + 1 : g[off + b] = x
        <4> TAKE b \in 1..put + 1
        <4>1. CASE b = put + 1
          <5>1. off + b = at + 1
            BY <1>5, <4>1
          <5> QED
            BY <2>2, <5>1
        <4>2. CASE b # put + 1
          <5>1. b \in 1..put /\ off + b \in 1..Len(f) /\ off + b # at + 1
            <6> HIDE DEF off, put, at, f
            <6> QED
              BY <1>5, <2>1, <4>2
          <5> QED
            BY <2>2, <2>4, <5>1
        <4> QED
          BY <4>1, <4>2
      <3>3. /\ req'[q].at = "writing" /\ req'[q].put = put + 1 /\ req'[q].off = off /\ req'[q].seq = x
            /\ video'[r] = video[r]
        BY <1>2, <1>3, <1>4
      <3>4. Live(r)' /\ off = video[r].bytes /\ x >= video[r].next
        BY <1>7, <2>1, <2>4
      <3> HIDE DEF x, off, put, at, f
      <3> QED
        BY <1>9, <2>3, <3>1, <3>2, <3>3, <3>4 DEF CallWrites
    <2>10. StoreOk(r)' /\ \A s \in Runs : s # r => CallsQuiet(s)
      BY <1>1, <1>2, <2>8, <2>9, WorkedRun DEF SameData
    <2>11. /\ video' \in [Runs -> VideoRows] /\ chunks' \in [Runs -> Seq(Marks)]
           /\ file' \in [Runs -> Seq(Seqs) \cup {NoFile}]
      BY <1>1, <1>2, <1>8, <2>2, <2>3 DEF TypeInv, StoreTypes
    <2>12. \A s \in Runs : s # r => chunks'[s] = chunks[s] /\ file'[s] = file[s] /\ SameData(s)
      BY <1>2, <1>8, <2>3 DEF SameData
    <2> QED
      BY <2>10, <2>11, <2>12, StoreAt
  <1> QED
    BY <1>10, <1>11

LEMMA ReserveStore ==
  ASSUME Around, NEW q \in Requests, NEW r \in Runs, r = req[q].run, ReserveChunk(q)
  PROVE  StoreKeeps
  <1> DEFINE x == req[q].seq  len == LenOf[x]  e == ToEvict(r, Settled, len)
             n == video[r].reserved + len
             v == [video[r] EXCEPT !.reserved = n]
  <1>1. TypeInv /\ CallInv /\ Working(q)
    BY DEF Around, Working
  <1>2. /\ video' = [Evict(e) EXCEPT ![r].reserved = @ + len] /\ file' = Unlinked(e)
        /\ UNCHANGED <<chunks, lane, queue>> /\ Refused(r, x) = "none"
    BY DEF ReserveChunk
  <1>3. req[q].at = "queued" /\ First(q) /\ req'[q] = Worked(q) /\ req[q] \in Pieces /\ CallWorks(q, Worked(q))
    BY <1>1, WorkingCalls, CallTypes DEF CallWorks, First
  <1>4. /\ Worked(q).at = "reserved" /\ Worked(q).put = req[q].put /\ Worked(q).off = video[r].bytes
        /\ Worked(q).seq = x
    BY <1>3 DEF Worked, Pieces, Offset
  <1>5. StoreOk(r) /\ Of(q, r) /\ x \in Seqs /\ x \in Nat /\ len \in Nat
    BY <1>3, AroundParts, PieceParts, LenParts DEF Of
  <1>6. e \in SUBSET Runs /\ r \notin e /\ \A c \in e : Live(c) /\ queue[c] = <<>>
    BY <1>1, EvictedParts, EvictableParts
  <1>7. Live(r) /\ ~(x < video[r].next)
    BY <1>2 DEF Refused, Live
  <1> HIDE DEF e
  <1>8. /\ Evict(e) \in [Runs -> VideoRows] /\ Unlinked(e) \in [Runs -> Seq(Seqs) \cup {NoFile}]
        /\ \A c \in e : Evict(e)[c].evicted /\ Evict(e)[c].on = video[c].on
        /\ \A c \in Runs \ e : Evict(e)[c] = video[c] /\ Unlinked(e)[c] = file[c]
    BY <1>1, <1>6, EvictParts
  <1>9. video' = [Evict(e) EXCEPT ![r] = v]
    BY <1>2, <1>6, <1>8
  <1>10. video[r] \in VideoRows /\ video[r].bytes \in Nat /\ video[r].next \in Nat /\ chunks \in [Runs -> Seq(Marks)]
    BY <1>1, StoreParts
  <1>11. v \in VideoRows /\ v.on = video[r].on /\ v.evicted = video[r].evicted /\ v.bytes = video[r].bytes /\ v.next = video[r].next
    <2>1. n \in Nat
      BY <1>5, <1>10, SMTT(20) DEF VideoRows
    <2> HIDE DEF n
    <2> QED
      BY <1>10, <2>1 DEF VideoRows
  <1> HIDE DEF v
  <1>12. /\ video' \in [Runs -> VideoRows] /\ video'[r] = v /\ \A c \in Runs : c # r => video'[c] = Evict(e)[c]
         /\ file'[r] = file[r]
    BY <1>2, <1>6, <1>8, <1>9, <1>11
  <1>13. SameData(r) /\ chunks'[r] = chunks[r]
    BY <1>2, <1>11, <1>12 DEF SameData
  <1>14. Stored(r)'
    <2>1. Stored(r)
      BY <1>5, <1>7 DEF StoreOk
    <2>2. /\ video'[r].bytes = video[r].bytes /\ video'[r].next = video[r].next /\ chunks'[r] = chunks[r]
          /\ file'[r] = file[r] /\ lane'[r] = lane[r]
      BY <1>2, <1>12, <1>13 DEF SameData
    <2> QED
      BY <2>1, <2>2, StoredFrom DEF Stored
  <1>15. CallWrites(q, r)'
    <2>1. req[q].put = 0 /\ video[r].bytes <= Len(file[r]) /\ file[r] # NoFile
      BY <1>3, <1>5, <1>7 DEF StoreOk, CallWrites, Stored
    <2>2. Live(r)'
      BY <1>7, <1>13 DEF Live, SameData
    <2>3. video'[r].bytes = video[r].bytes /\ video'[r].next = video[r].next /\ x >= video[r].next
      BY <1>5, <1>7, <1>10, <1>13 DEF SameData
    <2>4. file[r] \in Seq(Seqs) /\ Len(file[r]) \in Nat
      BY <1>1, <2>1, StoreParts
    <2>5. video[r].bytes + 0 <= Len(file[r]) /\ 0 <= len
      BY <1>5, <1>10, <2>1, <2>4
    <2>6. /\ req'[q].at = "reserved" /\ req'[q].put = 0 /\ req'[q].off = video[r].bytes /\ req'[q].seq = x
      BY <1>3, <1>4, <2>1
    <2> QED
      BY <1>12, <2>2, <2>3, <2>5, <2>6 DEF CallWrites
  <1>16. StoreOk(r)' /\ \A s \in Runs : s # r => CallsQuiet(s)
    BY <1>1, <1>13, <1>14, <1>15, WorkedRun
  <1>17. ASSUME NEW s \in Runs, s # r
         PROVE  Quiet(s) \/ Fades(s)
    <2>1. CASE s \in e
      BY <1>6, <1>8, <1>12, <1>16, <1>17, <2>1, AroundParts DEF Fades, Live
    <2>2. CASE s \notin e
      BY <1>2, <1>8, <1>12, <1>16, <1>17, <2>2, AroundParts DEF Quiet
    <2> QED
      BY <2>1, <2>2
  <1>18. chunks' \in [Runs -> Seq(Marks)] /\ file' \in [Runs -> Seq(Seqs) \cup {NoFile}]
    BY <1>2, <1>8, <1>10
  <1> QED
    BY <1>12, <1>16, <1>17, <1>18, StoreFrom

\* The row of a video whose chunk is committed.
Committed(r, x, bytes, n) == [video[r] EXCEPT !.reserved = n, !.bytes = bytes, !.next = x + 1]

LEMMA CommitParts ==
  ASSUME TypeInv, CallInv, NEW q \in Requests, NEW r \in Runs, r = req[q].run, CommitChunk(q), StoreOk(r)
  PROVE  LET x == req[q].seq  len == LenOf[x]  n == IF video[r].reserved > len THEN video[r].reserved - len ELSE 0
             bytes == video[r].bytes + len
         IN  /\ First(q) /\ Of(q, r) /\ req[q].at = "writing" /\ x \in Seqs /\ len \in Nat /\ CallPops(q)
             /\ req[q].put = len /\ n \in Nat
             /\ Live(r) => /\ video' = [video EXCEPT ![r] = Committed(r, x, bytes, n)]
                           /\ chunks' = [chunks EXCEPT ![r] = Append(chunks[r], [seq |-> x, off |-> video[r].bytes])]
                           /\ req[q].off = video[r].bytes
             /\ ~ Live(r) => video' = Release(r, len) /\ UNCHANGED chunks
             /\ UNCHANGED <<row, file>> /\ Replies(q, "ok")
  <1> DEFINE x == req[q].seq  len == LenOf[x]  n == IF video[r].reserved > len THEN video[r].reserved - len ELSE 0
             bytes == video[r].bytes + len
  <1>1. First(q) /\ x \in Seqs /\ req[q].at = "writing"
    BY TurnParts DEF CommitChunk
  <1>2. Of(q, r) /\ len \in Nat /\ CallPops(q) /\ Replies(q, "ok") /\ video[r].reserved \in Nat
    BY <1>1, LenParts, EndingCalls, HandlersReply, StoreParts DEF First, Of, Ending
  <1>3. Live(r) => req[q].off = video[r].bytes
    BY <1>1, <1>2 DEF StoreOk, CallWrites
  <1>4. /\ req[q].put = len /\ UNCHANGED <<row, file>>
        /\ ~ Live(r) => video' = Release(r, len) /\ UNCHANGED chunks
        /\ Live(r) => /\ video' = [Release(r, len) EXCEPT ![r].bytes = req[q].off + len, ![r].next = x + 1]
                      /\ chunks' = [chunks EXCEPT ![r] = Append(@, [seq |-> x, off |-> req[q].off])]
    BY DEF CommitChunk
  <1>5. n \in Nat
    BY <1>2
  <1>6. ASSUME Live(r)
        PROVE  [Release(r, len) EXCEPT ![r].bytes = bytes, ![r].next = x + 1] = [video EXCEPT ![r] = Committed(r, x, bytes, n)]
    <2>1. video \in [Runs -> VideoRows] /\ video[r] \in VideoRows
      BY StoreParts
    <2>2. Release(r, len) = [video EXCEPT ![r] = [video[r] EXCEPT !.reserved = n]]
      BY DEF Release
    <2> HIDE DEF bytes, n
    <2> QED
      BY <2>1, <2>2 DEF Committed
  <1> HIDE DEF n
  <1> QED
    BY <1>1, <1>2, <1>3, <1>4, <1>5, <1>6 DEF n

LEMMA CommitStore ==
  ASSUME Around, NEW q \in Requests, NEW r \in Runs, r = req[q].run, CommitChunk(q)
  PROVE  StoreKeeps
  <1> DEFINE x == req[q].seq  len == LenOf[x]  n == IF video[r].reserved > len THEN video[r].reserved - len ELSE 0
             bytes == video[r].bytes + len  v == Committed(r, x, bytes, n)
             d == Append(chunks[r], [seq |-> x, off |-> video[r].bytes])
  <1>1. TypeInv /\ CallInv /\ StoreOk(r)
    BY AroundParts DEF Around
  <1>2. /\ First(q) /\ Of(q, r) /\ req[q].at = "writing" /\ x \in Seqs /\ len \in Nat /\ CallPops(q)
        /\ req[q].put = len /\ n \in Nat
        /\ Live(r) => /\ video' = [video EXCEPT ![r] = v] /\ chunks' = [chunks EXCEPT ![r] = d]
                      /\ req[q].off = video[r].bytes
        /\ ~ Live(r) => video' = Release(r, len) /\ UNCHANGED chunks
        /\ UNCHANGED <<row, file>>
    BY <1>1, CommitParts
  <1>3. \A s \in Runs : CallsQuiet(s)
    BY <1>1, <1>2, QuietKinds
  <1>4. CASE ~ Live(r)
    <2>1. video' = Release(r, len) /\ UNCHANGED <<chunks, file>>
      BY <1>2, <1>4
    <2> HIDE DEF len
    <2>2. PICK w \in VideoRows :
              /\ Release(r, len) = [video EXCEPT ![r] = w]
              /\ w.on = video[r].on /\ w.evicted = video[r].evicted /\ w.bytes = video[r].bytes /\ w.next = video[r].next
              /\ w.reserved = IF video[r].reserved > len THEN video[r].reserved - len ELSE 0
              /\ w = [video[r] EXCEPT !.reserved = IF video[r].reserved > len THEN video[r].reserved - len ELSE 0]
      <3>1. r \in Runs /\ len \in Nat /\ TypeInv
        BY <1>1, <1>2
      <3> QED
        BY ONLY <3>1, ReleaseParts
    <2> QED
      BY <1>3, <2>1, <2>2, QuietOne
  <1>5. CASE Live(r)
    <2>1. /\ video' = [video EXCEPT ![r] = v] /\ chunks' = [chunks EXCEPT ![r] = d]
          /\ req[q].off = video[r].bytes
      BY <1>2, <1>5
    <2>2. /\ video[r] \in VideoRows /\ video[r].bytes \in Nat /\ video[r].next \in Nat /\ chunks[r] \in Seq(Marks)
          /\ video \in [Runs -> VideoRows] /\ chunks \in [Runs -> Seq(Marks)]
          /\ file \in [Runs -> Seq(Seqs) \cup {NoFile}] /\ lane[r].pos \in Nat
      BY <1>1, StoreParts
    <2>3. x \in Nat /\ x + 1 \in 0..(MaxSeq + 1) /\ bytes \in Nat
      <3>1. bytes \in Nat
        BY <1>2, <2>2
      <3>2. x \in Seqs
        BY <1>2
      <3> HIDE DEF x, bytes
      <3> QED
        BY <3>1, <3>2, VideosAssumption DEF Seqs
    <2> HIDE DEF bytes, n, x, d
    <2>4. v \in VideoRows /\ v.on = video[r].on /\ v.evicted = video[r].evicted /\ v.bytes = bytes /\ v.next = x + 1
      BY <1>2, <2>2, <2>3 DEF Committed, VideoRows
    <2> HIDE DEF v
    <2>5. /\ video' \in [Runs -> VideoRows] /\ video'[r] = v /\ \A s \in Runs : s # r => video'[s] = video[s]
      BY <2>1, <2>2, <2>4
    <2>6. Stored(r) /\ CallWrites(q, r) /\ CallInOrder(q, r)
      BY <1>1, <1>2, <1>5 DEF StoreOk
    <2>7. Indexed(chunks[r], file[r], video[r].bytes, video[r].next) /\ Playable(chunks[r])
      BY <2>6 DEF Stored
    <2>8. /\ x >= video[r].next /\ (\A b \in 1..len : file[r][video[r].bytes + b] = x)
          /\ video[r].bytes + len <= Len(file[r]) /\ file[r] # NoFile
      BY <1>2, <1>5, <2>1, <2>6 DEF CallWrites, x, Stored
    <2>9. (x \in KeySeqs \/ video[r].next >= x) /\ x < lane[r].pos
      BY <1>5, <2>6 DEF CallInOrder, x
    <2>10. /\ d \in Seq(Marks) /\ Indexed(d, file[r], bytes, x + 1) /\ Playable(d)
      <3> DEFINE e == Append(chunks[r], [seq |-> x, off |-> video[r].bytes])
      <3>1. /\ x \in Seqs /\ x >= video[r].next /\ (x \in KeySeqs \/ video[r].next >= x)
            /\ Holds(file[r], video[r].bytes, x)
        BY <1>2, <2>8, <2>9 DEF Holds
      <3>2. /\ e \in Seq(Marks) /\ Indexed(e, file[r], video[r].bytes + LenOf[x], x + 1)
            /\ (Playable(chunks[r]) /\ (x \in KeySeqs \/ video[r].next >= x) => Playable(e))
        BY ONLY <2>2, <2>7, <3>1, IndexGrows
      <3> HIDE DEF e
      <3>3. e = d /\ bytes = video[r].bytes + LenOf[x]
        BY DEF e, d, bytes
      <3> QED
        BY <2>7, <3>1, <3>2, <3>3
    <2>11. chunks' \in [Runs -> Seq(Marks)] /\ chunks'[r] = d /\ \A s \in Runs : s # r => chunks'[s] = chunks[s]
      BY <2>1, <2>2, <2>10
    <2>12. lane[r].pos <= lane'[r].pos /\ lane'[r].pos \in Nat
      BY AroundParts
    <2>13. Stored(r)'
      <3>1. bytes <= Len(file[r]) /\ x + 1 <= lane'[r].pos
        BY <2>2, <2>3, <2>8, <2>9, <2>12 DEF bytes
      <3>2. file'[r] = file[r] /\ video'[r].bytes = bytes /\ video'[r].next = x + 1 /\ chunks'[r] = d
        BY <1>2, <2>4, <2>5, <2>11
      <3> QED
        BY <2>8, <2>10, <3>1, <3>2, StoredFrom
    <2>14. ASSUME NEW p \in Requests, Of(p, r)'
           PROVE  CallInOrder(p, r)' /\ CallWrites(p, r)'
      <3>1. /\ Of(p, r) /\ req'[p].seq = req[p].seq /\ req'[p].put = req[p].put
            /\ \/ req'[p] = req[p]
               \/ req[p].at = "body" /\ req'[p].at = "queued"
        BY <1>3, <2>14, QuietCall
      <3>2. p # q
        BY <1>1, <1>2, <2>14, CallTypes, IdleIsNone DEF CallPops, Of
      <3>3. req[p].at \in {"body", "queued"}
        BY <1>1, <1>2, <3>1, <3>2, OneAtATime DEF Of
      <3>4. CallInOrder(p, r) /\ CallWrites(p, r) /\ req[p].seq \in Nat
        BY <1>1, <3>1, PieceParts DEF StoreOk, Of, Seqs
      <3>5. Live(r)' /\ video'[r].next = x + 1
        BY <1>5, <2>4, <2>5 DEF Live
      <3>6. CallInOrder(p, r)'
        <4>1. req[p].seq < lane'[r].pos
          BY <2>2, <2>12, <3>4 DEF CallInOrder
        <4>2. req[p].seq \in KeySeqs \/ x + 1 >= req[p].seq
          BY <1>5, <2>2, <2>3, <2>8, <3>4, SMTT(20) DEF CallInOrder
        <4> QED
          BY <3>1, <3>5, <4>1, <4>2 DEF CallInOrder
      <3>7. CallWrites(p, r)'
        BY <3>1, <3>3, <3>4 DEF CallWrites
      <3> QED
        BY <3>6, <3>7
    <2>15. StoreOk(r)'
      <3>1. Live(r)' /\ video'[r].on
        BY <1>5, <2>4, <2>5 DEF Live
      <3> QED
        BY <2>13, <2>14, <3>1 DEF StoreOk
    <2>16. file' \in [Runs -> Seq(Seqs) \cup {NoFile}] /\ \A s \in Runs : s # r => file'[s] = file[s] /\ SameData(s)
      BY <1>2, <2>2, <2>5 DEF SameData
    <2> QED
      BY <1>3, <2>5, <2>11, <2>15, <2>16, StoreAt
  <1> QED
    BY <1>4, <1>5

LEMMA StoreMoves ==
  ASSUME Around, Next, \A r \in Runs : LaneOrder(r)
  PROVE  StoreKeeps
  <1>1. TypeInv /\ CallInv
    BY DEF Around
  <1>2. CASE Aside
    <2>1. \A s \in Runs : CallsQuiet(s)
      BY <1>1, <1>2, AsideCalls, QuietKinds
    <2>2. ASSUME NEW r \in Runs, Cut(r) \/ Skip(r) \/ GiveUp(r) \/ LaneStops(r)
          PROVE  StoreKeeps
      <3>1. UNCHANGED <<video, chunks, file>>
        BY <2>2 DEF Cut, Skip, GiveUp, LaneStops
      <3> QED
        BY <2>1, <3>1, QuietSame
    <2>3. CASE \/ \E r \in Runs : \E failed \in BOOLEAN, rest \in 0..1 : FlowOver(r, failed, rest)
               \/ \E r \in Runs : \E s \in Outcomes : FinishRun(r, s)
               \/ \E r \in Runs : (GoesQuiet(r) \/ GraceOver(r)) /\ UNCHANGED work
               \/ \E r \in Runs : \E s \in Sockets : SocketCloses(r, s)
               \/ ReadSettles
               \/ \E r \in Runs : PlayVideo(r) \/ PlayerDone(r)
      <3>1. UNCHANGED <<video, chunks, file>>
        BY <2>3 DEF FlowOver, FinishRun, SocketCloses, ReadSettles, PlayVideo, PlayerDone, work
      <3> QED
        BY <2>1, <3>1, QuietSame
    <2> QED
      BY <1>2, <2>2, <2>3, DeleteStore, PurgeStore DEF Aside
  <1>3. ASSUME NEW q \in Requests, BodyLost(q) \/ ChunkBody(q)
        PROVE  StoreKeeps
    <2>1. \A s \in Runs : CallsQuiet(s)
      BY <1>1, <1>3, OpenCalls, BodyCalls, QuietKinds
    <2>2. UNCHANGED <<video, chunks, file>>
      BY <1>3 DEF BodyLost, ChunkBody
    <2> QED
      BY <2>1, <2>2, QuietSame
  <1>4. ASSUME NEW q \in Requests, OpenVideo(q)
        PROVE  StoreKeeps
    BY <1>1, <1>4, OpenParts, OpenStore
  <1>5. ASSUME NEW q \in Requests, Ending(q)
        PROVE  StoreKeeps
    <2>1. req[q].run \in Runs
      BY <1>1, <1>5, EndingCalls, PieceParts DEF CallPops, First
    <2> QED
      BY <1>5, <2>1, QuietHandlers, NoRoomStore, CommitStore DEF Ending
  <1>6. ASSUME NEW q \in Requests, Working(q)
        PROVE  StoreKeeps
    <2>1. req[q].run \in Runs
      BY <1>1, <1>6, WorkingCalls, PieceParts DEF CallWorks, First
    <2> QED
      BY <1>6, <2>1, OpenFileStore, WriteCellStore, ReserveStore DEF Working
  <1> QED
    BY <1>2, <1>3, <1>4, <1>5, <1>6, RestartStore, SendStore, QuietHandlers, StepKinds

-----------------------------------------------------------------------------
(* The call that holds a reservation *)

\* The first call of the queue of s is past its wait.
Held(s) == queue[s] # <<>> /\ req[Head(queue[s])].at \in {"reserved", "writing"}

\* The call that holds the reservation of s, if any, is the same and has got as far.
HoldsOn(s) ==
    /\ Held(s)' <=> Held(s)
    /\ Held(s) => /\ queue'[s] # <<>> /\ Head(queue'[s]) = Head(queue[s])
                  /\ LET h == Head(queue[s]) IN
                     req'[h].seq = req[h].seq /\ req'[h].put = req[h].put

LEMMA HeadParts ==
  ASSUME TypeInv, CallInv, NEW s \in Runs, queue[s] # <<>>
  PROVE  LET h == Head(queue[s]) IN
         /\ h \in Requests /\ First(h) /\ Of(h, s) /\ h = queue[s][1] /\ Len(queue[s]) >= 1
         /\ req[h].seq \in Seqs /\ req[h].put \in Nat
  <1> DEFINE h == Head(queue[s])
  <1>1. queue[s] \in Seq(Requests) /\ Len(queue[s]) \in Nat
    BY CallTypes
  <1>2. Len(queue[s]) >= 1 /\ h = queue[s][1] /\ h \in Requests
    BY <1>1, EmptySeq, HeadTailProperties, ElementOfSeq
  <1>3. 1 \in 1..Len(queue[s])
    BY <1>1, <1>2
  <1>4. req[h] \in Pieces /\ req[h].run = s /\ req[h].at # "body"
    BY <1>2, <1>3 DEF CallInv, QueueInv
  <1> QED
    BY <1>2, <1>4, PieceParts DEF First, Of

LEMMA HoldStay ==
  ASSUME TypeInv, CallInv
  PROVE  /\ CallsStay => \A s \in Runs : HoldsOn(s)
         /\ CallsEnd => \A s \in Runs : ~ Held(s)'
  BY CallTypes DEF CallsStay, CallsEnd, HoldsOn, Held

LEMMA HoldOutside ==
  ASSUME TypeInv, CallInv, NEW q \in Requests, NEW x, CallLeaves(q) \/ CallComes(q, x)
  PROVE  \A s \in Runs : HoldsOn(s)
  <1> TAKE s \in Runs
  <1>1. queue' = queue /\ \A p \in Requests : p # q => req'[p] = req[p]
    BY CallTypes DEF CallLeaves, CallComes
  <1>2. req[q] \in Pieces => req[q].at = "body"
    BY IdleIsNone DEF CallLeaves, CallComes
  <1>3. CASE queue[s] = <<>>
    BY <1>1, <1>3 DEF HoldsOn, Held
  <1>4. CASE queue[s] # <<>>
    <2>1. Head(queue[s]) \in Requests /\ Head(queue[s]) # q
      BY <1>2, <1>4, HeadParts DEF First
    <2> QED
      BY <1>1, <1>4, <2>1 DEF HoldsOn, Held
  <1> QED
    BY <1>3, <1>4

LEMMA HoldJoins ==
  ASSUME TypeInv, CallInv, NEW q \in Requests, CallJoins(q)
  PROVE  \A s \in Runs : HoldsOn(s)
  <1> TAKE s \in Runs
  <1> DEFINE r == req[q].run
  <1>1. req[q] \in Pieces /\ r \in Runs /\ req[q].at = "body"
    BY PieceParts DEF CallJoins
  <1>2. req'[q].at = "queued" /\ \A p \in Requests : p # q => req'[p] = req[p]
    BY <1>1, CallTypes DEF CallJoins, Pieces
  <1>3. queue[r] \in Seq(Requests) /\ queue'[r] = Append(queue[r], q) /\ Len(queue[r]) \in Nat
        /\ \A p \in Runs : p # r => queue'[p] = queue[p]
    BY <1>1, CallTypes DEF CallJoins
  <1> HIDE DEF r
  <1>4. CASE queue[s] # <<>>
    <2>1. Head(queue[s]) \in Requests /\ Head(queue[s]) # q /\ Len(queue[s]) >= 1 /\ Head(queue[s]) = queue[s][1]
      BY <1>1, <1>4, HeadParts DEF First
    <2>2. queue'[s] # <<>> /\ Head(queue'[s]) = Head(queue[s])
      <3>1. CASE s = r
        <4>1. /\ Append(queue[r], q) \in Seq(Requests) /\ Len(Append(queue[r], q)) = Len(queue[r]) + 1
              /\ Append(queue[r], q)[1] = queue[r][1]
          BY <1>3, <2>1, <3>1, AppendProperties
        <4>2. Append(queue[r], q) # <<>>
          BY <1>3, <4>1, EmptySeq
        <4>3. Head(Append(queue[r], q)) = Append(queue[r], q)[1]
          BY <4>1, <4>2, HeadTailProperties
        <4> QED
          BY <1>3, <2>1, <3>1, <4>1, <4>2, <4>3
      <3> QED
        BY <1>3, <1>4, <3>1
    <2> QED
      BY <1>2, <1>4, <2>1, <2>2 DEF HoldsOn, Held
  <1>5. CASE queue[s] = <<>>
    <2>1. CASE s = r
      <3>1. Append(<<>>, q) = <<q>> /\ Head(<<q>>) = q
        OBVIOUS
      <3> QED
        BY <1>2, <1>3, <1>5, <2>1, <3>1 DEF HoldsOn, Held
    <2>2. CASE s # r
      BY <1>3, <1>5, <2>2 DEF HoldsOn, Held
    <2> QED
      BY <2>1, <2>2
  <1> QED
    BY <1>4, <1>5

LEMMA HoldPops ==
  ASSUME TypeInv, CallInv, CallKeeps, NEW q \in Requests, NEW r \in Runs, r = req[q].run, CallPops(q)
  PROVE  /\ ~ Held(r)'
         /\ \A s \in Runs : s # r => HoldsOn(s)
  <1>1. First(q) /\ queue'[r] = Tail(queue[r]) /\ queue[r] \in Seq(Requests)
        /\ (\A p \in Requests : p # q => req'[p] = req[p])
        /\ \A s \in Runs : s # r => queue'[s] = queue[s]
    BY CallTypes DEF CallPops
  <1>2. ASSUME NEW s \in Runs, s # r
        PROVE  HoldsOn(s)
    <2>1. CASE queue[s] = <<>>
      BY <1>1, <1>2, <2>1 DEF HoldsOn, Held
    <2>2. CASE queue[s] # <<>>
      <3>1. Head(queue[s]) \in Requests /\ Head(queue[s]) # q
        BY <1>2, <2>2, HeadParts DEF Of
      <3> QED
        BY <1>1, <1>2, <2>2, <3>1 DEF HoldsOn, Held
    <2> QED
      BY <2>1, <2>2
  <1>3. ASSUME Held(r)'
        PROVE  FALSE
    <2>1. queue[r] # <<>> /\ Len(queue[r]) \in Nat /\ Len(queue[r]) >= 1 /\ queue[r][1] = q
      BY <1>1, EmptySeq, LenProperties DEF First
    <2>2. queue'[r] \in Seq(Requests) /\ Len(queue'[r]) = Len(queue[r]) - 1
          /\ \A i \in 1..Len(queue'[r]) : queue'[r][i] = queue[r][i + 1]
      BY <1>1, <2>1, HeadTailProperties
    <2>3. queue'[r] # <<>>
      BY <1>3 DEF Held
    <2>4. Len(queue'[r]) >= 1 /\ Head(queue'[r]) = queue'[r][1]
      BY <2>2, <2>3, EmptySeq, LenProperties, HeadTailProperties
    <2>5. 2 \in 1..Len(queue[r]) /\ queue'[r][1] = queue[r][2]
      BY <2>1, <2>2, <2>4
    <2> DEFINE p == queue[r][2]
    <2>6. req[p].at = "queued" /\ p \in Requests
      BY <2>5, CallTypes DEF CallInv, QueueInv
    <2>7. p # q
      BY <2>1, <2>5 DEF CallInv, QueueInv
    <2>8. req'[p].at = "queued"
      BY <1>1, <2>6, <2>7
    <2> QED
      BY <1>3, <2>4, <2>5, <2>8 DEF Held
  <1> QED
    BY <1>2, <1>3

LEMMA HoldWorks ==
  ASSUME TypeInv, CallInv, NEW q \in Requests, NEW r \in Runs, r = req[q].run, NEW x, CallWorks(q, x)
  PROVE  /\ Held(r)' /\ Head(queue[r]) = q /\ queue[r] # <<>> /\ queue' = queue /\ req'[q] = x
         /\ Held(r) <=> req[q].at # "queued"
         /\ \A s \in Runs : s # r => HoldsOn(s)
  <1>1. First(q) /\ queue' = queue /\ queue[r] \in Seq(Requests) /\ req'[q] = x /\ x.at \in {"reserved", "writing"}
        /\ (\A p \in Requests : p # q => req'[p] = req[p])
    BY CallTypes DEF CallWorks
  <1>2. queue[r] # <<>> /\ Head(queue[r]) = q
    <2>1. queue[r] # <<>>
      BY <1>1, EmptySeq, LenProperties DEF First
    <2> QED
      BY <1>1, <2>1, HeadParts DEF First
  <1>3. ASSUME NEW s \in Runs, s # r
        PROVE  HoldsOn(s)
    <2>1. CASE queue[s] = <<>>
      BY <1>1, <1>3, <2>1 DEF HoldsOn, Held
    <2>2. CASE queue[s] # <<>>
      <3>1. Head(queue[s]) \in Requests /\ Head(queue[s]) # q
        BY <1>3, <2>2, HeadParts DEF Of
      <3> QED
        BY <1>1, <1>3, <2>2, <3>1 DEF HoldsOn, Held
    <2> QED
      BY <2>1, <2>2
  <1>4. Held(r) <=> req[q].at # "queued"
    <2>1. req[q] \in Pieces /\ req[q].at # "body"
      BY <1>1 DEF First
    <2> QED
      BY <1>2, <2>1, PieceParts DEF Held
  <1> QED
    BY <1>1, <1>2, <1>3, <1>4 DEF Held

\* A video's reservation is that of the call that holds it.
ReserveOk(s) ==
    video[s].reserved = IF Held(s) /\ video[s].on THEN LenOf[req[Head(queue[s])].seq] ELSE 0

-----------------------------------------------------------------------------
(* What a step does to one video: one of these, but for the step that reserves *)

Kept(s) == /\ video'[s].on = video[s].on /\ video'[s].bytes = video[s].bytes /\ video'[s].next = video[s].next
           /\ chunks'[s] = chunks[s] /\ (video[s].evicted => video'[s].evicted)

\* It holds what it held; at most it is evicted, or its file goes.
Still(s) == Kept(s) /\ HoldsOn(s) /\ video'[s].reserved = video[s].reserved /\ file'[s] \in {file[s], NoFile}

\* The call that held its reservation, if any, has gone.
Lets(s) == Kept(s) /\ ~ Held(s)' /\ video'[s].reserved = 0 /\ file'[s] = file[s]

\* It goes with its run.
Went(s) == /\ ~ video'[s].on /\ video'[s].reserved = 0 /\ HoldsOn(s) /\ file'[s] \in {file[s], NoFile}
           /\ ~ Exists(row'[s])

\* It is opened.
Came(s) == /\ ~ video[s].on /\ Exists(row[s]) /\ ~ Held(s)' /\ chunks'[s] = chunks[s] /\ file'[s] = <<>>
           /\ video'[s].on /\ ~ video'[s].evicted /\ video'[s].reserved = 0 /\ video'[s].bytes = 0 /\ video'[s].next = 0

\* A chunk of it is committed.
Commits(s) == \E x \in Seqs :
    /\ Live(s) /\ Live(s)' /\ video'[s].on /\ ~ Held(s)' /\ video[s].reserved = LenOf[x] /\ video'[s].reserved = 0
    /\ video'[s].bytes = video[s].bytes + LenOf[x] /\ x >= video[s].next /\ video'[s].next = x + 1
    /\ chunks'[s] = Append(chunks[s], [seq |-> x, off |-> video[s].bytes]) /\ file'[s] = file[s]

\* A cell of it is written.
Writes(s) ==
    LET h == Head(queue[s]) IN
    /\ Kept(s) /\ video'[s].evicted = video[s].evicted /\ video'[s].reserved = video[s].reserved
    /\ Held(s) /\ Held(s)' /\ queue'[s] = queue[s] /\ req'[h].seq = req[h].seq /\ req'[h].put = req[h].put + 1
    /\ IF file[s] = NoFile THEN file'[s] = NoFile ELSE file'[s] # NoFile /\ Len(file'[s]) <= Len(file[s]) + 1

Shape(s) == Still(s) \/ Lets(s) \/ Went(s) \/ Came(s) \/ Commits(s) \/ Writes(s)

\* What is known when a step is taken.
Around2 == Around /\ InodeInv /\ \A s \in Runs : ReserveOk(s)

LEMMA StillSame ==
  ASSUME NEW s \in Runs, HoldsOn(s), video'[s] = video[s], chunks'[s] = chunks[s], file'[s] \in {file[s], NoFile}
  PROVE  Still(s)
  BY DEF Still, Kept

LEMMA AsideShape ==
  ASSUME Around2, Aside, NEW s \in Runs
  PROVE  Shape(s)
  <1>1. TypeInv /\ CallInv
    BY DEF Around2, Around
  <1>2. HoldsOn(s)
    BY <1>1, AsideCalls, HoldStay
  <1>3. ASSUME NEW r \in Runs, DeleteRun(r)
        PROVE  Shape(s)
    <2> DEFINE v == [NoVideo EXCEPT !.born = video[r].born]
    <2>1. /\ video' = [video EXCEPT ![r] = v] /\ chunks' = [chunks EXCEPT ![r] = <<>>]
          /\ file' = (IF Live(r) THEN Unlinked({r}) ELSE file) /\ row' = [row EXCEPT ![r] = Gone]
      BY <1>3 DEF DeleteRun
    <2>2. ~ v.on /\ v.reserved = 0
      BY DEF NoVideo
    <2> HIDE DEF v
    <2>3. /\ video \in [Runs -> VideoRows] /\ chunks \in [Runs -> Seq(Marks)] /\ row \in [Runs -> Row]
          /\ Unlinked({r})[r] = NoFile /\ \A c \in Runs : c # r => Unlinked({r})[c] = file[c]
      <3>1. /\ video \in [Runs -> VideoRows] /\ chunks \in [Runs -> Seq(Marks)] /\ row \in [Runs -> Row]
        BY <1>1, StoreParts DEF TypeInv, RowTypes
      <3>2. Unlinked({r})[r] = NoFile /\ \A c \in Runs : c # r => Unlinked({r})[c] = file[c]
        BY <1>1, EvictParts
      <3> QED
        BY <3>1, <3>2
    <2>4. CASE s = r
      <3>1. video'[s] = v /\ row'[s] = Gone /\ file'[s] \in {file[s], NoFile}
        BY <2>1, <2>3, <2>4
      <3> QED
        BY <1>2, <2>2, <3>1, RowParts, <2>3 DEF Went, Shape
    <2>5. CASE s # r
      <3>1. video'[s] = video[s] /\ chunks'[s] = chunks[s] /\ file'[s] = file[s]
        BY <2>1, <2>3, <2>5
      <3> QED
        BY <1>2, <3>1, StillSame DEF Shape
    <2> QED
      BY <2>4, <2>5
  <1>4. ASSUME NEW old, PurgeVideos(old)
        PROVE  Shape(s)
    <2> DEFINE gone == old \cap {r \in Passed : /\ Live(r) /\ queue[r] = <<>>
                                                /\ Settled[r].status # "running"
                                                /\ VideoEnded(video[r], Settled[r])}
               dead == {r \in Runs : r \in gone \/ ~ Live(r)}
               e == gone \cup {r \in Runs : Live(r) /\ file[r] = NoFile}
    <2>1. video' = Evict(e) /\ file' = Unlinked(dead) /\ chunks' = chunks
      BY <1>4 DEF PurgeVideos, Purged
    <2> HIDE DEF e, dead
    <2>2. video[s] \in VideoRows
      BY <1>1, StoreParts
    <2>3. /\ video'[s] = IF s \in e THEN [video[s] EXCEPT !.evicted = TRUE] ELSE video[s]
          /\ file'[s] = IF s \in dead THEN NoFile ELSE file[s]
      BY <2>1 DEF Evict, Unlinked
    <2>4. /\ video'[s].on = video[s].on /\ video'[s].bytes = video[s].bytes /\ video'[s].next = video[s].next
          /\ video'[s].reserved = video[s].reserved /\ (video[s].evicted => video'[s].evicted)
      BY <2>2, <2>3 DEF VideoRows
    <2> QED
      BY <1>2, <2>1, <2>3, <2>4 DEF Still, Kept, Shape
  <1>5. CASE ~ ((\E r \in Runs : DeleteRun(r)) \/ \E old \in SUBSET Passed : PurgeVideos(old))
    <2>1. UNCHANGED <<video, chunks, file>>
      <3>1. ASSUME NEW r \in Runs, Cut(r) \/ Skip(r) \/ GiveUp(r) \/ LaneStops(r)
            PROVE  UNCHANGED <<video, chunks, file>>
        BY <3>1 DEF Cut, Skip, GiveUp, LaneStops
      <3>2. CASE \/ \E r \in Runs : \E failed \in BOOLEAN, rest \in 0..1 : FlowOver(r, failed, rest)
                 \/ \E r \in Runs : \E x \in Outcomes : FinishRun(r, x)
                 \/ \E r \in Runs : (GoesQuiet(r) \/ GraceOver(r)) /\ UNCHANGED work
                 \/ \E r \in Runs : \E x \in Sockets : SocketCloses(r, x)
                 \/ ReadSettles
                 \/ \E r \in Runs : PlayVideo(r) \/ PlayerDone(r)
        BY <3>2 DEF FlowOver, FinishRun, SocketCloses, ReadSettles, PlayVideo, PlayerDone, work
      <3> QED
        BY <1>5, <3>1, <3>2 DEF Aside
    <2> QED
      BY <1>2, <2>1, StillSame DEF Shape
  <1> QED
    BY <1>3, <1>4, <1>5

\* One row changes, in what it says of its end or in what it holds in reserve.
Same(v, r) == /\ v.on = video[r].on /\ v.evicted = video[r].evicted
              /\ v.bytes = video[r].bytes /\ v.next = video[r].next

LEMMA PopShape ==
  ASSUME Around2, NEW q \in Requests, NEW r \in Runs, r = req[q].run, CallPops(q),
         NEW v \in VideoRows, video' = [video EXCEPT ![r] = v], Same(v, r), v.reserved = 0, UNCHANGED <<chunks, file>>
  PROVE  \A s \in Runs : Shape(s)
  <1> TAKE s \in Runs
  <1>1. TypeInv /\ CallInv /\ CallKeeps
    BY DEF Around2, Around
  <1>2. ~ Held(r)' /\ (s # r => HoldsOn(s))
    BY <1>1, HoldPops
  <1>3. video'[r] = v /\ (s # r => video'[s] = video[s])
    BY <1>1, StoreParts
  <1>4. CASE s = r
    BY <1>2, <1>3, <1>4 DEF Shape, Lets, Kept, Same
  <1>5. CASE s # r
    BY <1>2, <1>3, <1>5, StillSame DEF Shape
  <1> QED
    BY <1>4, <1>5

\* What the first call of a queue holds.
LEMMA FirstHolds ==
  ASSUME Around2, NEW q \in Requests, NEW r \in Runs, r = req[q].run, First(q)
  PROVE  /\ Held(r) <=> req[q].at \in {"reserved", "writing"}
         /\ queue[r] # <<>> /\ Head(queue[r]) = q
         /\ req[q].at = "queued" => video[r].reserved = 0
         /\ req[q].at # "queued" => video[r].reserved = IF video[r].on THEN LenOf[req[q].seq] ELSE 0
  <1>1. TypeInv /\ CallInv /\ ReserveOk(r)
    BY DEF Around2, Around
  <1>2. queue[r] \in Seq(Requests) /\ queue[r] # <<>>
    BY <1>1, CallTypes, EmptySeq, LenProperties DEF First
  <1>3. Head(queue[r]) = q
    BY <1>1, <1>2, HeadParts DEF First
  <1>4. req[q].at \in {"queued", "reserved", "writing"}
    BY PieceParts DEF First
  <1> QED
    BY <1>1, <1>2, <1>3, <1>4 DEF Held, ReserveOk

LEMMA RefuseShape ==
  ASSUME Around2, NEW q \in Requests, NEW r \in Runs, r = req[q].run, RefuseChunk(q)
  PROVE  \A s \in Runs : Shape(s)
  <1> DEFINE v == [video[r] EXCEPT !.ended = TRUE, !.reason = "size-limit"]
  <1>1. TypeInv /\ CallInv
    BY DEF Around2, Around
  <1>2. CallPops(q) /\ First(q) /\ req[q].at = "queued"
    BY <1>1, EndingCalls, TurnParts DEF Ending, RefuseChunk
  <1>3. video[r] \in VideoRows /\ video \in [Runs -> VideoRows] /\ video[r].reserved = 0
    BY <1>1, <1>2, StoreParts, FirstHolds
  <1>4. v \in VideoRows /\ Same(v, r) /\ v.reserved = 0
    BY <1>3 DEF VideoRows, Reasons, Same
  <1>5. UNCHANGED <<chunks, file>> /\ (UNCHANGED video \/ video' = [video EXCEPT ![r] = v])
    BY <1>3 DEF RefuseChunk
  <1> HIDE DEF v
  <1>6. CASE UNCHANGED video
    <2>1. video' = [video EXCEPT ![r] = video[r]] /\ Same(video[r], r)
      BY <1>3, <1>6 DEF Same
    <2> QED
      BY <1>2, <1>3, <1>5, <2>1, PopShape
  <1>7. CASE video' = [video EXCEPT ![r] = v]
    BY <1>2, <1>4, <1>5, <1>7, PopShape
  <1> QED
    BY <1>5, <1>6, <1>7

\* A reservation released is gone: it was that of this call, or there was none.
LEMMA ReleaseShape ==
  ASSUME Around2, NEW q \in Requests, NEW r \in Runs, r = req[q].run, CallPops(q), NEW at \in {"reserved", "writing"},
         req[q].at = at, video' = Release(r, LenOf[req[q].seq]), UNCHANGED <<chunks, file>>
  PROVE  \A s \in Runs : Shape(s)
  <1> DEFINE len == LenOf[req[q].seq]
  <1>1. TypeInv /\ CallInv /\ First(q)
    BY DEF Around2, Around, CallPops
  <1>2. len \in Nat
    BY <1>1, LenParts, PieceParts DEF First
  <1>3. video[r].reserved = IF video[r].on THEN len ELSE 0
    BY <1>1, FirstHolds
  <1>4. video' = Release(r, len)
    OBVIOUS
  <1> HIDE DEF len
  <1>5. PICK v \in VideoRows :
            /\ Release(r, len) = [video EXCEPT ![r] = v]
            /\ v.on = video[r].on /\ v.evicted = video[r].evicted /\ v.bytes = video[r].bytes /\ v.next = video[r].next
            /\ v.reserved = IF video[r].reserved > len THEN video[r].reserved - len ELSE 0
            /\ v = [video[r] EXCEPT !.reserved = IF video[r].reserved > len THEN video[r].reserved - len ELSE 0]
    <2>1. r \in Runs
      OBVIOUS
    <2> QED
      BY ONLY <1>1, <1>2, <2>1, ReleaseParts
  <1>6. v.reserved = 0 /\ Same(v, r)
    BY <1>2, <1>3, <1>5 DEF Same
  <1> QED
    BY <1>4, <1>5, <1>6, PopShape, ZenonT(30)

LEMMA OpenShape ==
  ASSUME Around2, NEW q \in Requests, NEW r \in Runs, r = req[q].run, OpenVideo(q)
  PROVE  \A s \in Runs : Shape(s)
  <1> TAKE s \in Runs
  <1>1. TypeInv /\ CallInv
    BY DEF Around2, Around
  <1>2. CallLeaves(q) /\ UNCHANGED <<row, chunks, queue>> /\ (UNCHANGED <<video, file>> \/ Opens(q, r))
    BY <1>1, OpenParts
  <1>3. HoldsOn(s)
    BY <1>1, <1>2, HoldOutside
  <1>4. CASE UNCHANGED <<video, file>>
    BY <1>2, <1>3, <1>4, StillSame DEF Shape
  <1>5. CASE Opens(q, r)
    <2>1. PICK n \in Nat : video' = [video EXCEPT ![r] = [NoVideo EXCEPT !.on = TRUE, !.born = n]]
      BY <1>5 DEF Opens
    <2> DEFINE v == [NoVideo EXCEPT !.on = TRUE, !.born = n]
    <2>2. v.on /\ ~ v.evicted /\ v.bytes = 0 /\ v.next = 0 /\ v.reserved = 0
      BY DEF NoVideo
    <2>3. video' = [video EXCEPT ![r] = v]
      BY <2>1
    <2> HIDE DEF v
    <2>4. ~ video[r].on /\ Exists(row[r]) /\ file' = [file EXCEPT ![r] = <<>>]
      BY <1>5 DEF Opens
    <2>5. video \in [Runs -> VideoRows] /\ file \in [Runs -> Seq(Seqs) \cup {NoFile}]
      BY <1>1, StoreParts
    <2>6. CASE s = r
      <3>1. \A p \in Requests : ~ Of(p, r)
        BY <2>4, AroundParts DEF StoreOk, Around2
      <3>2. queue[r] = <<>>
        BY <1>1, <3>1, HeadParts
      <3>3. ~ Held(r)'
        BY <1>2, <3>2 DEF Held
      <3>4. video'[s] = v /\ file'[s] = <<>>
        BY <2>3, <2>4, <2>5, <2>6
      <3> QED
        BY <1>2, <2>2, <2>4, <2>6, <3>3, <3>4 DEF Shape, Came
    <2>7. CASE s # r
      <3>1. video'[s] = video[s] /\ file'[s] = file[s]
        BY <2>3, <2>4, <2>5, <2>7
      <3> QED
        BY <1>2, <1>3, <3>1, StillSame DEF Shape
    <2> QED
      BY <2>6, <2>7
  <1> QED
    BY <1>2, <1>4, <1>5

LEMMA NoRoomShape ==
  ASSUME Around2, NEW q \in Requests, NEW r \in Runs, r = req[q].run, NoRoom(q)
  PROVE  \A s \in Runs : Shape(s)
  <1> TAKE s \in Runs
  <1> DEFINE e == ToEvict(r, Settled, LenOf[req[q].seq])
             v == [video[r] EXCEPT !.ended = TRUE, !.reason = "storage-full"]
  <1>1. TypeInv /\ CallInv /\ CallKeeps
    BY DEF Around2, Around
  <1>2. CallPops(q) /\ First(q) /\ req[q].at = "queued"
    BY <1>1, EndingCalls, TurnParts DEF Ending, NoRoom
  <1>3. ~ Held(r)' /\ (s # r => HoldsOn(s)) /\ video[r].reserved = 0
    BY <1>1, <1>2, HoldPops, FirstHolds
  <1>4. r \notin e
    BY <1>1, EvictedParts, EvictableParts
  <1>5. video' = [Evict(e) EXCEPT ![r].ended = TRUE, ![r].reason = "storage-full"] /\ UNCHANGED <<chunks, file>>
    BY DEF NoRoom
  <1> HIDE DEF e
  <1>6. Evict(e)[r] = video[r] /\ Evict(e)[s] = IF s \in e THEN [video[s] EXCEPT !.evicted = TRUE] ELSE video[s]
    BY <1>4 DEF Evict
  <1>7. video'[r] = v /\ (s # r => video'[s] = Evict(e)[s])
    BY <1>5, <1>6 DEF Evict
  <1>8. video[s] \in VideoRows /\ video[r] \in VideoRows
    BY <1>1, StoreParts
  <1>9. CASE s = r
    <2>1. v.on = video[r].on /\ v.evicted = video[r].evicted /\ v.bytes = video[r].bytes /\ v.next = video[r].next
          /\ v.reserved = 0
      BY <1>3, <1>8 DEF VideoRows
    <2> HIDE DEF v
    <2> QED
      BY <1>3, <1>5, <1>7, <1>9, <2>1 DEF Shape, Lets, Kept
  <1>10. CASE s # r
    <2>1. /\ video'[s].on = video[s].on /\ video'[s].bytes = video[s].bytes /\ video'[s].next = video[s].next
          /\ video'[s].reserved = video[s].reserved /\ (video[s].evicted => video'[s].evicted)
      BY <1>6, <1>7, <1>8, <1>10 DEF VideoRows
    <2> QED
      BY <1>3, <1>5, <1>10, <2>1 DEF Shape, Still, Kept
  <1> QED
    BY <1>9, <1>10

LEMMA CommitShape ==
  ASSUME Around2, NEW q \in Requests, NEW r \in Runs, r = req[q].run, CommitChunk(q)
  PROVE  \A s \in Runs : Shape(s)
  <1> DEFINE x == req[q].seq  len == LenOf[x]  n == IF video[r].reserved > len THEN video[r].reserved - len ELSE 0
             bytes == video[r].bytes + len  v == Committed(r, x, bytes, n)
             d == Append(chunks[r], [seq |-> x, off |-> video[r].bytes])
  <1>1. TypeInv /\ CallInv /\ CallKeeps /\ StoreOk(r)
    BY AroundParts DEF Around2, Around
  <1>2. /\ First(q) /\ Of(q, r) /\ req[q].at = "writing" /\ x \in Seqs /\ len \in Nat /\ CallPops(q)
        /\ Live(r) => video' = [video EXCEPT ![r] = v] /\ chunks' = [chunks EXCEPT ![r] = d]
        /\ ~ Live(r) => video' = Release(r, len) /\ UNCHANGED chunks
        /\ UNCHANGED <<row, file>>
    BY <1>1, CommitParts
  <1>3. CASE ~ Live(r)
    BY <1>2, <1>3, ReleaseShape
  <1>4. CASE Live(r)
    <2> TAKE s \in Runs
    <2>1. video[r].on /\ ~ video[r].evicted
      BY <1>4 DEF Live
    <2>2. video[r].reserved = len
      BY <1>2, <2>1, FirstHolds
    <2>3. x >= video[r].next
      BY <1>1, <1>2, <1>4 DEF StoreOk, CallWrites
    <2>4. ~ Held(r)' /\ (s # r => HoldsOn(s))
      BY <1>1, <1>2, HoldPops
    <2>5. video[r] \in VideoRows /\ video \in [Runs -> VideoRows] /\ chunks \in [Runs -> Seq(Marks)]
      BY <1>1, StoreParts
    <2>6. n = 0
      BY <1>2, <2>2
    <2> HIDE DEF bytes, x, len, d, n
    <2>7. v.on /\ ~ v.evicted /\ v.bytes = bytes /\ v.next = x + 1 /\ v.reserved = 0
      BY <2>1, <2>5, <2>6 DEF Committed, VideoRows
    <2> HIDE DEF v
    <2>8. /\ video'[r] = v /\ chunks'[r] = d /\ file'[r] = file[r]
          /\ s # r => video'[s] = video[s] /\ chunks'[s] = chunks[s] /\ file'[s] = file[s]
      BY <1>2, <1>4, <2>5
    <2>9. CASE s # r
      BY <2>4, <2>8, <2>9, StillSame DEF Shape
    <2>10. CASE s = r
      <3>1. d = Append(chunks[r], [seq |-> x, off |-> video[r].bytes]) /\ bytes = video[r].bytes + LenOf[x] /\ len = LenOf[x]
        BY DEF d, bytes, len
      <3>2. Live(r)'
        BY <2>7, <2>8 DEF Live
      <3>3. Commits(s)
        BY <1>2, <1>4, <2>2, <2>3, <2>4, <2>7, <2>8, <2>10, <3>1, <3>2 DEF Commits
      <3> QED
        BY <3>3 DEF Shape
    <2> QED
      BY <2>9, <2>10
  <1> QED
    BY <1>3, <1>4

LEMMA FileShape ==
  ASSUME Around2, NEW q \in Requests, NEW r \in Runs, r = req[q].run, OpenFile(q)
  PROVE  \A s \in Runs : Shape(s)
  <1>1. TypeInv /\ CallInv
    BY DEF Around2, Around
  <1>2. req[q].at = "reserved" /\ UNCHANGED <<chunks, file>>
    BY <1>1, TurnParts DEF OpenFile
  <1>3. CASE file[r] = NoFile
    <2>1. CallPops(q)
      BY <1>1, <1>3, EndingCalls DEF Ending
    <2>2. video' = Release(r, LenOf[req[q].seq])
      BY <1>3 DEF OpenFile
    <2> QED
      BY <1>2, <2>1, <2>2, ReleaseShape
  <1>4. CASE file[r] # NoFile
    <2> TAKE s \in Runs
    <2>1. CallWorks(q, Worked(q)) /\ UNCHANGED video
      BY <1>1, <1>4, WorkingCalls DEF Working, OpenFile
    <2>2. /\ Held(r)' /\ Head(queue[r]) = q /\ queue[r] # <<>> /\ queue' = queue /\ req'[q] = Worked(q)
          /\ Held(r) /\ (s # r => HoldsOn(s))
      BY <1>1, <1>2, <2>1, HoldWorks
    <2>3. Worked(q).seq = req[q].seq /\ Worked(q).put = req[q].put
      <3>1. req[q] \in Pieces
        BY <2>1 DEF CallWorks, First
      <3> QED
        BY <1>2, <3>1 DEF Worked, Pieces
    <2>4. HoldsOn(s)
      BY <2>2, <2>3 DEF HoldsOn
    <2> QED
      BY <1>2, <2>1, <2>4, StillSame DEF Shape
  <1> QED
    BY <1>3, <1>4

LEMMA WriteShape ==
  ASSUME Around2, NEW q \in Requests, NEW r \in Runs, r = req[q].run, WriteCell(q)
  PROVE  \A s \in Runs : Shape(s)
  <1> TAKE s \in Runs
  <1> DEFINE at == req[q].off + req[q].put
  <1>1. TypeInv /\ CallInv /\ StoreOk(r)
    BY AroundParts DEF Around2, Around
  <1>2. CallWorks(q, Worked(q)) /\ req[q].at = "writing" /\ UNCHANGED <<video, chunks>>
    BY <1>1, WorkingCalls DEF Working, WriteCell
  <1>3. /\ Held(r)' /\ Head(queue[r]) = q /\ queue[r] # <<>> /\ queue' = queue /\ req'[q] = Worked(q)
        /\ Held(r) /\ (s # r => HoldsOn(s))
    BY <1>1, <1>2, HoldWorks
  <1>4. req[q] \in Pieces /\ Of(q, r) /\ req[q].seq \in Seqs /\ at \in Nat
    BY <1>2, PieceParts DEF CallWorks, First, Of
  <1>5. Worked(q).seq = req[q].seq /\ Worked(q).put = req[q].put + 1
    BY <1>2, <1>4 DEF Worked, Pieces
  <1>6. file' = IF file[r] = NoFile THEN file ELSE [file EXCEPT ![r] = Overwritten(file[r], at, req[q].seq)]
    BY DEF WriteCell
  <1>7. file \in [Runs -> Seq(Seqs) \cup {NoFile}] /\ (file[r] # NoFile => file[r] \in Seq(Seqs) /\ Len(file[r]) \in Nat)
    BY <1>1, StoreParts
  <1> HIDE DEF at
  <1>8. CASE s # r
    <2>1. file'[s] = file[s]
      BY <1>6, <1>7, <1>8
    <2> QED
      BY <1>2, <1>3, <1>8, <2>1, StillSame DEF Shape
  <1>9. CASE s = r
    <2>1. CASE file[r] = NoFile
      BY <1>2, <1>3, <1>5, <1>6, <1>9, <2>1 DEF Shape, Writes, Kept
    <2>2. CASE file[r] # NoFile
      <3>1. at <= Len(file[r])
        BY <1>1, <1>2, <1>4, <2>2 DEF StoreOk, CallWrites, at
      <3>2. /\ Overwritten(file[r], at, req[q].seq) \in Seq(Seqs)
            /\ Len(Overwritten(file[r], at, req[q].seq)) = IF Len(file[r]) > at THEN Len(file[r]) ELSE at + 1
        BY <1>4, <1>7, <2>2, <3>1, OverwrittenParts
      <3>3. file'[r] # NoFile /\ Len(file'[r]) <= Len(file[r]) + 1
        <4>1. file'[r] = Overwritten(file[r], at, req[q].seq)
          BY <1>6, <1>7, <2>2
        <4> QED
          <5> DEFINE o == Overwritten(file[r], at, req[q].seq)
          <5>1. o # NoFile
            BY <3>2, VideosAssumption
          <5>2. Len(o) = (IF Len(file[r]) > at THEN Len(file[r]) ELSE at + 1) /\ Len(file[r]) \in Nat /\ file'[r] = o
            BY <1>7, <2>2, <3>2, <4>1
          <5> HIDE DEF o
          <5>3. Len(o) <= Len(file[r]) + 1
            BY <1>4, <3>1, <5>2
          <5> QED
            BY <5>1, <5>2, <5>3
      <3> QED
        BY <1>2, <1>3, <1>5, <1>9, <2>2, <3>3 DEF Shape, Writes, Kept
    <2> QED
      BY <2>1, <2>2
  <1> QED
    BY <1>8, <1>9

LEMMA RestartShape ==
  ASSUME Around2, Restart
  PROVE  \A s \in Runs : Shape(s)
  <1> TAKE s \in Runs
  <1>1. TypeInv /\ CallInv /\ CallsEnd /\ UNCHANGED <<chunks, file>>
    BY DEF Around2, Around, Restart, CallsEnd
  <1>2. video'[s] = [video[s] EXCEPT !.reserved = 0] /\ video[s] \in VideoRows
    BY <1>1, StoreParts DEF Restart
  <1>3. ~ Held(s)'
    BY <1>1, HoldStay
  <1> QED
    BY <1>1, <1>2, <1>3 DEF VideoRows, Shape, Lets, Kept

LEMMA EndShape ==
  ASSUME Around2, NEW q \in Requests, EndVideo(q)
  PROVE  \A s \in Runs : Shape(s)
  <1> TAKE s \in Runs
  <1> DEFINE r == req[q].run
  <1>1. TypeInv /\ CallInv
    BY DEF Around2, Around
  <1>2. HoldsOn(s) /\ UNCHANGED <<chunks, file>>
    <2>1. CallLeaves(q)
      BY <1>1, OpenCalls
    <2> QED
      BY <1>1, <2>1, HoldOutside DEF EndVideo
  <1>3. UNCHANGED video \/ video' = [video EXCEPT ![r] = EndWith(video[r], req[q].reason, req[q].last)]
    BY DEF EndVideo
  <1>4. video[r] \in VideoRows /\ r \in Runs /\ video \in [Runs -> VideoRows]
    BY <1>1, CallTypes, CallParts, IdleIsNone, StoreParts DEF EndVideo
  <1>5. video'[s] = video[s] \/ (s = r /\ video'[s] = EndWith(video[r], req[q].reason, req[q].last))
    BY <1>3, <1>4
  <1> HIDE DEF r
  <1>6. CASE video'[s] = video[s]
    BY <1>2, <1>6, StillSame DEF Shape
  <1>7. CASE s = r /\ video'[s] = EndWith(video[r], req[q].reason, req[q].last)
    <2> DEFINE why == IF video[r].reason = "none" THEN req[q].reason ELSE video[r].reason
               last == IF video[r].last = -1 THEN req[q].last ELSE video[r].last
    <2>1. video'[s] = [video[r] EXCEPT !.ended = TRUE, !.reason = why, !.last = last]
      BY <1>7 DEF EndWith
    <2> HIDE DEF why, last
    <2>2. /\ video'[s].on = video[s].on /\ video'[s].bytes = video[s].bytes /\ video'[s].next = video[s].next
          /\ video'[s].reserved = video[s].reserved /\ video'[s].evicted = video[s].evicted
      BY <1>4, <1>7, <2>1 DEF VideoRows
    <2> QED
      BY <1>2, <2>2 DEF Shape, Still, Kept
  <1> QED
    BY <1>5, <1>6, <1>7

LEMMA Shapes ==
  ASSUME Around2, Next, \A q \in Requests : ~ ReserveChunk(q)
  PROVE  \A s \in Runs : Shape(s)
  <1>1. TypeInv /\ CallInv
    BY DEF Around2, Around
  <1>2. CASE Aside
    BY <1>2, AsideShape
  <1>3. ASSUME NEW r \in Runs, Send(r)
        PROVE  \A s \in Runs : Shape(s)
    <2> TAKE s \in Runs
    <2>1. HoldsOn(s)
      BY <1>1, <1>3, SendCalls, HoldStay, HoldOutside
    <2>2. UNCHANGED <<video, chunks, file>>
      BY <1>3 DEF Send
    <2> QED
      BY <2>1, <2>2, StillSame DEF Shape
  <1>4. ASSUME NEW q \in Requests, BodyLost(q) \/ ChunkBody(q)
        PROVE  \A s \in Runs : Shape(s)
    <2> TAKE s \in Runs
    <2>1. HoldsOn(s)
      BY <1>1, <1>4, OpenCalls, BodyCalls, HoldOutside, HoldJoins
    <2>2. UNCHANGED <<video, chunks, file>>
      BY <1>4 DEF BodyLost, ChunkBody
    <2> QED
      BY <2>1, <2>2, StillSame DEF Shape
  <1>5. ASSUME NEW q \in Requests, OpenVideo(q)
        PROVE  \A s \in Runs : Shape(s)
    BY <1>1, <1>5, OpenParts, OpenShape
  <1>6. ASSUME NEW q \in Requests, Ending(q)
        PROVE  \A s \in Runs : Shape(s)
    <2>1. req[q].run \in Runs /\ CallPops(q)
      BY <1>1, <1>6, EndingCalls, PieceParts DEF CallPops, First
    <2>2. ASSUME WriteFails(q)
          PROVE  \A s \in Runs : Shape(s)
      <3>1. req[q].at = "writing" /\ video' = Release(req[q].run, LenOf[req[q].seq]) /\ UNCHANGED <<chunks, file>>
        BY <1>1, <2>2, TurnParts DEF WriteFails
      <3> QED
        BY <2>1, <3>1, ReleaseShape
    <2> QED
      BY <1>6, <2>1, <2>2, RefuseShape, NoRoomShape, CommitShape, FileShape DEF Ending
  <1>7. ASSUME NEW q \in Requests, Working(q)
        PROVE  \A s \in Runs : Shape(s)
    <2>1. req[q].run \in Runs
      BY <1>1, <1>7, WorkingCalls, PieceParts DEF CallWorks, First
    <2> QED
      BY <1>7, <2>1, WriteShape, FileShape DEF Working
  <1>8. CASE Restart
    BY <1>8, RestartShape
  <1> QED
    BY <1>2, <1>3, <1>4, <1>5, <1>6, <1>7, <1>8, EndShape, StepKinds

-----------------------------------------------------------------------------
(* What handles keep of a file that has lost its name *)

\* What a check has counted of a nameless file only goes, or comes when the name goes.
Seen(s) == \/ inode'[s].seen <= inode[s].seen
           \/ file'[s] = NoFile /\ inode'[s].seen <= Cells(file[s])
InodeMoves == InodeInv' /\ \A s \in Runs : Seen(s)

LEMMA InodesSame ==
  ASSUME InodeInv, \A s \in Runs : /\ inode'[s] \in Inodes
                                     /\ inode'[s].seen \in {inode[s].seen, 0},
         inode' = [s \in Runs |-> inode'[s]]
  PROVE  InodeMoves
  <1>1. ASSUME NEW s \in Runs
        PROVE  Seen(s)
    <2>1. inode[s].seen \in Nat /\ (inode'[s].seen = inode[s].seen \/ inode'[s].seen = 0)
      BY DEF InodeInv, Inodes
    <2> QED
      BY <2>1 DEF Seen
  <1>2. InodeInv'
    BY DEF InodeInv
  <1> QED
    BY <1>1, <1>2 DEF InodeMoves

LEMMA NamelessParts ==
  ASSUME TypeInv, InodeInv, NEW e, NEW n, file' = Unlinked(e), inode' = Nameless(e, n),
         \A s \in Runs : s \in e /\ file[s] # NoFile => n[s] \in Nat /\ n[s] <= Len(file[s])
  PROVE  /\ InodeMoves
         /\ \A s \in Runs : /\ s \notin e => inode'[s] = inode[s]
                            /\ s \in e /\ file[s] # NoFile =>
                                 inode'[s].seen + n[s] <= Cells(file[s]) + inode[s].seen
  <1>1. ASSUME NEW s \in Runs
        PROVE  /\ inode'[s] \in Inodes /\ Seen(s)
               /\ s \notin e => inode'[s] = inode[s]
               /\ s \in e /\ file[s] # NoFile =>
                    inode'[s].seen + n[s] <= Cells(file[s]) + inode[s].seen
    <2>1. inode[s] \in Inodes /\ inode[s].seen \in Nat
      BY DEF InodeInv, Inodes
    <2>2. file[s] # NoFile => Len(file[s]) \in Nat /\ Cells(file[s]) = Len(file[s])
      BY StoreParts DEF Cells
    <2>3. CASE inode'[s] = inode[s]
      BY <2>1, <2>2, <2>3 DEF Seen
    <2>4. CASE inode'[s] # inode[s]
      <3>1. /\ s \in e /\ file[s] # NoFile /\ file'[s] = NoFile
            /\ inode'[s] = [inode[s] EXCEPT !.seen = Len(file[s]) - n[s], !.unseen = n[s]]
        BY <2>4 DEF Nameless, Unlinked
      <3> DEFINE k == Len(file[s]) - n[s]
      <3>2. k \in Nat /\ n[s] \in Nat /\ k + n[s] = Cells(file[s])
        BY <2>2, <3>1
      <3>3. inode'[s] = [inode[s] EXCEPT !.seen = k, !.unseen = n[s]]
        BY <3>1
      <3> HIDE DEF k
      <3>4. inode'[s] \in Inodes /\ inode'[s].seen = k
        BY <2>1, <3>2, <3>3 DEF Inodes
      <3> QED
        BY <2>1, <3>1, <3>2, <3>4 DEF Seen
    <2> QED
      BY <2>3, <2>4
  <1>2. InodeInv'
    <2>1. DOMAIN inode' = Runs /\ inode' = [s \in Runs |-> inode'[s]]
      BY DEF Nameless
    <2> QED
      BY <1>1, <2>1 DEF InodeInv
  <1> QED
    BY <1>1, <1>2 DEF InodeMoves

\* The last writer or player of a file lets go of it.
LEMMA InodeGoes ==
  ASSUME InodeInv, NEW r \in Runs, NEW x \in {NoInode, inode[r], [inode[r] EXCEPT !.played = TRUE],
                                             [inode[r] EXCEPT !.played = FALSE]},
         inode' = [inode EXCEPT ![r] = x]
  PROVE  InodeMoves
  <1>1. x \in Inodes /\ (x.seen = inode[r].seen \/ x.seen = 0)
    <2>1. inode[r] \in Inodes
      BY DEF InodeInv
    <2>2. NoInode \in Inodes /\ NoInode.seen = 0
      BY DEF NoInode, Inodes
    <2> QED
      BY <2>1, <2>2 DEF Inodes
  <1>2. /\ inode'[r] = x /\ \A s \in Runs : s # r => inode'[s] = inode[s]
        /\ inode' = [s \in Runs |-> inode'[s]]
    BY DEF InodeInv
  <1>3. \A s \in Runs : inode[s] \in Inodes
    BY DEF InodeInv
  <1> QED
    BY <1>1, <1>2, <1>3, InodesSame

\* What ReserveChunk unlinks: the room it took for freed is what a player may keep unseen.
LEMMA ReserveSees ==
  ASSUME Around2, NEW q \in Requests, NEW r \in Runs, r = req[q].run, ReserveChunk(q),
         NEW e, e = ToEvict(r, Settled, LenOf[req[q].seq])
  PROVE  /\ InodeMoves
         /\ \A s \in Runs : inode'[s].seen + (IF s \in e THEN video[s].bytes ELSE 0)
                               <= (IF s \in e THEN Cells(file[s]) ELSE 0) + inode[s].seen
  <1> DEFINE n == [c \in Runs |-> video[c].bytes]
  <1>1. TypeInv /\ CallInv /\ InodeInv
    BY DEF Around2, Around
  <1>2. e \subseteq Runs /\ \A c \in e : Live(c)
    BY <1>1, EvictedParts, EvictableParts
  <1>3. file' = Unlinked(e) /\ inode' = Nameless(e, n)
    BY DEF ReserveChunk
  <1>4. ASSUME NEW s \in Runs, s \in e
        PROVE  file[s] # NoFile /\ n[s] \in Nat /\ n[s] <= Len(file[s])
    <2>1. StoreOk(s) /\ Live(s)
      BY <1>2, <1>4, AroundParts DEF Around2
    <2>2. video[s].bytes \in Nat
      BY <1>1, StoreParts
    <2> QED
      BY <2>1, <2>2 DEF StoreOk, Stored
  <1> HIDE DEF n
  <1>5. /\ InodeMoves
        /\ \A s \in Runs : /\ s \notin e => inode'[s] = inode[s]
                           /\ s \in e => inode'[s].seen + n[s] <= Cells(file[s]) + inode[s].seen
    BY <1>1, <1>3, <1>4, NamelessParts
  <1>6. ASSUME NEW s \in Runs
        PROVE  inode'[s].seen + (IF s \in e THEN video[s].bytes ELSE 0)
                 <= (IF s \in e THEN Cells(file[s]) ELSE 0) + inode[s].seen
    <2>1. inode[s].seen \in Nat /\ n[s] = video[s].bytes
      BY <1>1 DEF InodeInv, Inodes, n
    <2>2. CASE s \in e
      BY <1>5, <2>1, <2>2
    <2>3. CASE s \notin e
      BY <1>5, <2>1, <2>3
    <2> QED
      BY <2>2, <2>3
  <1> QED
    BY <1>5, <1>6

LEMMA InodesMove ==
  ASSUME Around2, Next
  PROVE  InodeMoves
  <1>1. TypeInv /\ CallInv /\ InodeInv
    BY DEF Around2, Around
  <1>2. ASSUME UNCHANGED inode
        PROVE  InodeMoves
    BY <1>1, <1>2, InodesSame DEF InodeInv
  <1>3. ASSUME NEW q \in Requests, ReserveChunk(q)
        PROVE  InodeMoves
    <2>1. req[q].run \in Runs
      BY <1>1, <1>3, TurnParts DEF ReserveChunk
    <2> QED
      BY <1>3, <2>1, ReserveSees
  <1>4. ASSUME NEW q \in Requests, CommitChunk(q) \/ WriteFails(q)
        PROVE  InodeMoves
    <2> DEFINE r == req[q].run  x == IF inode[r].played THEN inode[r] ELSE NoInode
    <2>1. r \in Runs
      BY <1>1, <1>4, TurnParts DEF CommitChunk, WriteFails
    <2>2. inode' = [inode EXCEPT ![r] = x]
      BY <1>4 DEF CommitChunk, WriteFails, Closed
    <2>3. x \in {NoInode, inode[r]}
      OBVIOUS
    <2> HIDE DEF r, x
    <2> QED
      BY <1>1, <2>1, <2>2, <2>3, InodeGoes
  <1>5. ASSUME NEW q \in Requests, WriteCell(q)
        PROVE  InodeMoves
    <2> DEFINE r == req[q].run
    <2>1. r \in Runs
      BY <1>1, <1>5, TurnParts DEF WriteCell
    <2>2. UNCHANGED inode \/ inode' = [inode EXCEPT ![r].unseen = inode[r].unseen + 1]
      BY <1>5 DEF WriteCell
    <2> HIDE DEF r
    <2>3. CASE inode' = [inode EXCEPT ![r].unseen = inode[r].unseen + 1]
      <3> DEFINE x == [inode[r] EXCEPT !.unseen = inode[r].unseen + 1]
      <3>1. inode[r] \in Inodes /\ inode \in [Runs -> Inodes]
        BY <1>1, <2>1 DEF InodeInv
      <3>2. x \in Inodes /\ x.seen = inode[r].seen
        BY <3>1 DEF Inodes
      <3>3. inode' = [inode EXCEPT ![r] = x]
        BY <2>3, <3>1
      <3> HIDE DEF x
      <3>4. /\ inode'[r] = x /\ \A s \in Runs : s # r => inode'[s] = inode[s]
            /\ inode' = [s \in Runs |-> inode'[s]]
        BY <2>1, <3>1, <3>3
      <3> QED
        BY <1>1, <3>1, <3>2, <3>4, InodesSame
    <2> QED
      BY <1>2, <2>2, <2>3
  <1>6. ASSUME NEW r \in Runs, DeleteRun(r)
        PROVE  InodeMoves
    <2> DEFINE n == [c \in Runs |-> 0]
    <2>1. CASE Live(r)
      <3>1. file' = Unlinked({r}) /\ inode' = Nameless({r}, n)
        BY <1>6, <2>1 DEF DeleteRun
      <3>2. \A s \in Runs : file[s] # NoFile => n[s] \in Nat /\ n[s] <= Len(file[s])
        BY <1>1, StoreParts
      <3> HIDE DEF n
      <3> QED
        BY <1>1, <3>1, <3>2, NamelessParts
    <2>2. CASE ~ Live(r)
      BY <1>2, <1>6, <2>2 DEF DeleteRun
    <2> QED
      BY <2>1, <2>2
  <1>7. ASSUME NEW old, PurgeVideos(old)
        PROVE  InodeMoves
    <2> DEFINE n == [c \in Runs |-> 0]
    <2>1. PICK e : file' = Unlinked(e) /\ inode' = Nameless(e, n)
      BY <1>7 DEF PurgeVideos, Purged
    <2>2. \A s \in Runs : file[s] # NoFile => n[s] \in Nat /\ n[s] <= Len(file[s])
      BY <1>1, StoreParts
    <2> HIDE DEF n
    <2> QED
      BY <1>1, <2>1, <2>2, NamelessParts
  <1>8. ASSUME NEW r \in Runs, PlayVideo(r) \/ PlayerDone(r)
        PROVE  InodeMoves
    <2>1. PICK x \in {NoInode, [inode[r] EXCEPT !.played = TRUE], [inode[r] EXCEPT !.played = FALSE]} :
            inode' = [inode EXCEPT ![r] = x]
      <3>1. inode \in [Runs -> Inodes]
        BY <1>1 DEF InodeInv
      <3>2. CASE PlayVideo(r)
        BY <3>1, <3>2 DEF PlayVideo
      <3>3. CASE PlayerDone(r)
        BY <3>1, <3>3 DEF PlayerDone
      <3> QED
        BY <1>8, <3>2, <3>3
    <2> QED
      BY <1>1, <2>1, InodeGoes
  <1>9. CASE Restart
    <2>1. inode' = [s \in Runs |-> NoInode] /\ NoInode \in Inodes /\ NoInode.seen = 0
      BY <1>9 DEF Restart, NoInode, Inodes
    <2> QED
      BY <1>1, <2>1, InodesSame
  <1>10. ASSUME NEW q \in Requests, \/ OpenVideo(q) \/ EndVideo(q) \/ ChunkBody(q) \/ RefuseChunk(q)
                                    \/ NoRoom(q) \/ OpenFile(q) \/ BodyLost(q)
         PROVE  UNCHANGED inode
    BY <1>10 DEF OpenVideo, EndVideo, ChunkBody, RefuseChunk, NoRoom, OpenFile, BodyLost
  <1>11. ASSUME NEW r \in Runs, Runner(r) \/ UNCHANGED work \/ \E x \in Sockets : SocketCloses(r, x)
         PROVE  UNCHANGED inode
    BY <1>11 DEF Runner, Cut, Skip, Send, GiveUp, LaneStops, FlowOver, FinishRun, SocketCloses, work
  <1>12. ReadSettles => UNCHANGED inode
    BY DEF ReadSettles, work
  <1>13. \A q \in Requests : Handle(q) \/ BodyLost(q) \/ WriteFails(q) => InodeMoves
    BY <1>2, <1>3, <1>4, <1>5, <1>10 DEF Handle
  <1> QED
    BY <1>2, <1>6, <1>7, <1>8, <1>9, <1>11, <1>12, <1>13 DEF Next

-----------------------------------------------------------------------------
(* The room a video takes under the cap and on the disk *)

Takes(s) == IF Live(s) THEN video[s].bytes + video[s].reserved ELSE 0
Lies(s) == Cells(file[s]) + Unwritten(s)

LEMMA RoomTypes ==
  ASSUME TypeInv, CallInv, NEW s \in Runs
  PROVE  /\ Takes(s) \in Nat /\ Cells(file[s]) \in Nat /\ Unwritten(s) \in Int /\ Lies(s) \in Int
         /\ Unwritten(s) = IF Held(s) /\ file[s] # NoFile
                             THEN LenOf[req[Head(queue[s])].seq] - req[Head(queue[s])].put ELSE 0
         /\ Held(s) => LenOf[req[Head(queue[s])].seq] \in Nat /\ req[Head(queue[s])].put \in Nat
  <1> DEFINE h == Head(queue[s])
  <1>1. Takes(s) \in Nat
    BY StoreParts DEF Takes
  <1>2. Cells(file[s]) \in Nat
    BY StoreParts DEF Cells
  <1>3. Unwritten(s) = IF Held(s) /\ file[s] # NoFile THEN LenOf[req[h].seq] - req[h].put ELSE 0
    BY DEF Unwritten, Held
  <1>4. ASSUME Held(s)
        PROVE  LenOf[req[h].seq] \in Nat /\ req[h].put \in Nat
    <2>1. req[h].seq \in Seqs /\ req[h].put \in Nat
      BY <1>4, HeadParts DEF Held
    <2> QED
      BY <2>1, LenParts
  <1>5. Unwritten(s) \in Int
    BY <1>3, <1>4
  <1> QED
    BY <1>1, <1>2, <1>3, <1>4, <1>5 DEF Lies

RoomParts(s) ==
    /\ Takes(s) \in Nat /\ Cells(file[s]) \in Nat /\ Unwritten(s) \in Int
    /\ Unwritten(s) = IF Held(s) /\ file[s] # NoFile
                         THEN LenOf[req[Head(queue[s])].seq] - req[Head(queue[s])].put ELSE 0

LEMMA RoomTypesNow == TypeInv /\ CallInv => \A s \in Runs : RoomParts(s)
  BY RoomTypes DEF RoomParts

\* The same after a step.
LEMMA RoomTypesNext == (TypeInv /\ CallInv => \A s \in Runs : RoomParts(s))'
  BY RoomTypesNow, PTL

\* What is still to be written of a video is within its reservation.
LEMMA UnwrittenParts ==
  ASSUME Around2, NEW s \in Runs
  PROVE  0 <= Unwritten(s) /\ Unwritten(s) <= IF Live(s) THEN video[s].reserved ELSE 0
  <1> DEFINE h == Head(queue[s])
  <1>1. TypeInv /\ CallInv /\ ReserveOk(s) /\ StoreOk(s)
    BY AroundParts DEF Around2, Around
  <1>2. video[s].reserved \in Nat
    BY <1>1, StoreParts
  <1>3. CASE ~ (Held(s) /\ file[s] # NoFile)
    BY <1>1, <1>2, <1>3, RoomTypes
  <1>4. CASE Held(s) /\ file[s] # NoFile
    <2>1. h \in Requests /\ Of(h, s) /\ req[h].at \in {"reserved", "writing"}
      BY <1>1, <1>4, HeadParts DEF Held
    <2>2. Live(s) /\ req[h].put <= LenOf[req[h].seq]
      BY <1>1, <1>4, <2>1 DEF StoreOk, CallWrites
    <2>3. video[s].reserved = LenOf[req[h].seq]
      BY <1>1, <1>4, <2>2 DEF ReserveOk, Live
    <2>4. Unwritten(s) = LenOf[req[h].seq] - req[h].put /\ LenOf[req[h].seq] \in Nat /\ req[h].put \in Nat
      BY <1>1, <1>4, RoomTypes
    <2> QED
      BY <2>2, <2>3, <2>4
  <1> QED
    BY <1>3, <1>4

LEMMA ShapeReserve ==
  ASSUME Around2, TypeInv', CallInv', NEW s \in Runs, Shape(s)
  PROVE  ReserveOk(s)'
  <1>1. ReserveOk(s)
    BY DEF Around2
  <1>2. CASE Still(s)
    BY <1>1, <1>2 DEF Still, Kept, HoldsOn, ReserveOk
  <1>3. CASE Lets(s) \/ Went(s) \/ Came(s) \/ Commits(s)
    BY <1>3 DEF Lets, Went, Came, Commits, ReserveOk
  <1>4. CASE Writes(s)
    BY <1>1, <1>4 DEF Writes, Kept, ReserveOk
  <1> QED
    BY <1>2, <1>3, <1>4 DEF Shape

LEMMA ShapeRoom ==
  ASSUME Around2, TypeInv', CallInv', NEW s \in Runs, Shape(s)
  PROVE  Takes(s)' <= Takes(s) /\ Lies(s)' <= Lies(s)
  <1>1. TypeInv /\ CallInv
    BY DEF Around2, Around
  <1>2. /\ Takes(s) \in Nat /\ video[s].bytes \in Nat /\ video[s].reserved \in Nat
        /\ Cells(file[s]) \in Nat /\ Unwritten(s) \in Int /\ 0 <= Unwritten(s)
        /\ Cells(NoFile) = 0 /\ Cells(<<>>) = 0
    BY <1>1, RoomTypes, UnwrittenParts, StoreParts DEF Cells
  <1>3. /\ Unwritten(s) = IF Held(s) /\ file[s] # NoFile
                             THEN LenOf[req[Head(queue[s])].seq] - req[Head(queue[s])].put ELSE 0
        /\ Unwritten(s)' = IF Held(s)' /\ file'[s] # NoFile
                             THEN LenOf[req'[Head(queue'[s])].seq] - req'[Head(queue'[s])].put ELSE 0
        /\ Cells(file[s])' = Cells(file'[s])
        /\ Unwritten(s)' \in Int /\ Cells(file'[s]) \in Nat
    <2>1. Cells(file[s])' = Cells(file'[s])
      BY DEF Cells
    <2>2. RoomParts(s)'
      BY RoomTypesNext
    <2> QED
      BY <1>1, <2>1, <2>2, RoomTypes DEF RoomParts
  <1>4. CASE Still(s)
    <2>1. Takes(s)' <= Takes(s)
      BY <1>2, <1>4 DEF Still, Kept, Takes, Live
    <2>2. CASE file'[s] = file[s]
      <3>1. Unwritten(s)' = Unwritten(s)
        BY <1>3, <1>4, <2>2 DEF Still, HoldsOn
      <3> QED
        BY <1>2, <1>3, <2>1, <2>2, <3>1 DEF Lies
    <2>3. CASE file'[s] = NoFile
      BY <1>2, <1>3, <2>1, <2>3 DEF Lies
    <2> QED
      BY <1>4, <2>2, <2>3 DEF Still
  <1>5. CASE Lets(s)
    <2>1. Takes(s)' <= Takes(s)
      BY <1>2, <1>5 DEF Lets, Kept, Takes, Live
    <2>2. Unwritten(s)' = 0 /\ file'[s] = file[s]
      BY <1>3, <1>5 DEF Lets
    <2> QED
      BY <1>2, <1>3, <2>1, <2>2 DEF Lies
  <1>6. CASE Went(s)
    <2>1. Takes(s)' <= Takes(s)
      BY <1>2, <1>6 DEF Went, Takes, Live
    <2>2. CASE file'[s] = file[s]
      <3>1. Unwritten(s)' = Unwritten(s)
        BY <1>3, <1>6, <2>2 DEF Went, HoldsOn
      <3> QED
        BY <1>2, <1>3, <2>1, <2>2, <3>1 DEF Lies
    <2>3. CASE file'[s] = NoFile
      BY <1>2, <1>3, <2>1, <2>3 DEF Lies
    <2> QED
      BY <1>6, <2>2, <2>3 DEF Went
  <1>7. CASE Came(s)
    <2>1. Takes(s)' <= Takes(s)
      BY <1>2, <1>7 DEF Came, Takes, Live
    <2>2. Unwritten(s)' = 0 /\ file'[s] = <<>>
      BY <1>3, <1>7 DEF Came
    <2> QED
      BY <1>2, <1>3, <2>1, <2>2 DEF Lies
  <1>8. CASE Commits(s)
    <2>1. PICK x \in Seqs :
             /\ Live(s) /\ Live(s)' /\ ~ Held(s)' /\ video[s].reserved = LenOf[x] /\ video'[s].reserved = 0
             /\ video'[s].bytes = video[s].bytes + LenOf[x] /\ file'[s] = file[s]
      BY <1>8 DEF Commits
    <2>2. Takes(s)' = Takes(s)
      BY <1>2, <2>1 DEF Takes
    <2>3. Unwritten(s)' = 0
      BY <1>3, <2>1
    <2> QED
      BY <1>2, <1>3, <2>1, <2>2, <2>3 DEF Lies
  <1>9. CASE Writes(s)
    <2>1. Takes(s)' <= Takes(s)
      BY <1>2, <1>9 DEF Writes, Kept, Takes, Live
    <2>2. CASE file[s] = NoFile
      <3>1. file'[s] = NoFile
        BY <1>9, <2>2 DEF Writes
      <3> QED
        BY <1>2, <1>3, <2>1, <3>1 DEF Lies
    <2>3. CASE file[s] # NoFile
      <3>1. file'[s] # NoFile /\ Len(file'[s]) <= Len(file[s]) + 1
        BY <1>9, <2>3 DEF Writes
      <3>2. Cells(file'[s]) <= Cells(file[s]) + 1
        BY <2>3, <3>1 DEF Cells
      <3> DEFINE h == Head(queue[s])
      <3>3. Held(s) /\ Held(s)' /\ queue'[s] = queue[s] /\ req'[h].seq = req[h].seq /\ req'[h].put = req[h].put + 1
        BY <1>9 DEF Writes
      <3>4. LenOf[req[h].seq] \in Nat /\ req[h].put \in Nat
        BY <1>1, <3>3, RoomTypes
      <3>5. Unwritten(s) = LenOf[req[h].seq] - req[h].put /\ Unwritten(s)' = LenOf[req[h].seq] - (req[h].put + 1)
        BY <1>3, <2>3, <3>1, <3>3
      <3>6. Unwritten(s)' = Unwritten(s) - 1
        BY <3>4, <3>5
      <3>7. Cells(file'[s]) \in Nat
        BY <1>3, RoomTypes, PTL
      <3> QED
        BY <1>2, <1>3, <2>1, <3>2, <3>6, <3>7 DEF Lies
    <2> QED
      BY <2>2, <2>3
  <1> QED
    BY <1>4, <1>5, <1>6, <1>7, <1>8, <1>9 DEF Shape

\* On the disk with what is kept of it without its name, but for what no check has counted.
Weighs(s) == Lies(s) + inode[s].seen

LEMMA InodeParts ==
  ASSUME InodeInv, NEW s \in Runs
  PROVE  inode[s] \in Inodes /\ inode[s].seen \in Nat /\ inode[s].unseen \in Nat
  BY DEF InodeInv, Inodes

LEMMA InodePartsNext == (InodeInv => \A s \in Runs : inode[s].seen \in Nat /\ inode[s].unseen \in Nat)'
  <1>1. InodeInv => \A s \in Runs : inode[s].seen \in Nat /\ inode[s].unseen \in Nat
    BY InodeParts
  <1> QED
    BY <1>1, PTL

LEMMA ShapeWeighs ==
  ASSUME Around2, TypeInv', CallInv', InodeInv', NEW s \in Runs, Shape(s), Seen(s)
  PROVE  Takes(s)' <= Takes(s) /\ Weighs(s)' <= Weighs(s) /\ Weighs(s) \in Int /\ Weighs(s)' \in Int
  <1>1. TypeInv /\ CallInv /\ InodeInv
    BY DEF Around2, Around
  <1>2. Takes(s)' <= Takes(s) /\ Lies(s)' <= Lies(s)
    BY ShapeRoom
  <1>3. /\ Cells(file[s]) \in Nat /\ Unwritten(s) \in Int /\ 0 <= Unwritten(s)
        /\ inode[s].seen \in Nat /\ Cells(NoFile) = 0 /\ Lies(s) \in Int
    BY <1>1, RoomTypes, UnwrittenParts, InodeParts DEF Cells
  <1>4. RoomParts(s)' /\ inode'[s].seen \in Nat
    BY RoomTypesNext, InodePartsNext
  <1>5. Lies(s)' \in Int
    BY <1>4 DEF RoomParts, Lies
  <1>6. Weighs(s)' = Lies(s)' + inode'[s].seen
    BY DEF Weighs
  <1>7. Weighs(s)' <= Weighs(s)
    <2>1. CASE inode'[s].seen <= inode[s].seen
      BY <1>2, <1>3, <1>4, <1>5, <1>6, <2>1 DEF Weighs
    <2>2. CASE file'[s] = NoFile /\ inode'[s].seen <= Cells(file[s])
      <3>1. Cells(file[s])' = 0
        BY <1>3, <2>2 DEF Cells
      <3>2. Lies(s)' = 0
        BY <1>4, <2>2, <3>1 DEF RoomParts, Lies
      <3> QED
        BY <1>3, <1>4, <1>6, <2>2, <3>2 DEF Weighs, Lies
    <2> QED
      BY <2>1, <2>2 DEF Seen
  <1> QED
    BY <1>2, <1>3, <1>4, <1>5, <1>6, <1>7 DEF Weighs

TakesAll == SumFunctionOnSet([s \in Runs |-> Takes(s)], Runs)
WeighsAll == SumFunctionOnSet([s \in Runs |-> Weighs(s)], Runs)
UsedBy(s) == IF Live(s) THEN video[s].bytes ELSE 0
ReservedBy(s) == IF Live(s) THEN video[s].reserved ELSE 0

\* What statfs counts of a video.
Full(s) == Cells(file[s]) + inode[s].seen + inode[s].unseen

LEMMA RoomIsSums == TypeInv /\ CallInv /\ InodeInv =>
    /\ Used + Reserved = TakesAll
    /\ OnDisk + SumFunction([r \in Runs |-> Unwritten(r)])
         = WeighsAll + SumFunction([r \in Runs |-> inode[r].unseen])
    /\ TakesAll \in Int /\ WeighsAll \in Int /\ SumFunction([r \in Runs |-> inode[r].unseen]) \in Int
  <1> DEFINE f == [r \in Runs |-> UsedBy(r)]     g == [r \in Runs |-> ReservedBy(r)]
             c == [r \in Runs |-> Full(r)]       w == [r \in Runs |-> Unwritten(r)]
             t == [r \in Runs |-> Takes(r)]      d == [r \in Runs |-> Weighs(r)]
             u == [r \in Runs |-> inode[r].unseen]
             k == [r \in Runs |-> Full(r) + Unwritten(r)]
  <1> SUFFICES ASSUME TypeInv, CallInv, InodeInv
      PROVE  /\ Used + Reserved = TakesAll
             /\ OnDisk + SumFunction(w) = WeighsAll + SumFunction(u)
             /\ TakesAll \in Int /\ WeighsAll \in Int /\ SumFunction(u) \in Int
    OBVIOUS
  <1>1. IsFiniteSet(Runs)
    BY VideosAssumption
  <1>2. ASSUME NEW x \in Runs
        PROVE  /\ f[x] \in Int /\ g[x] \in Int /\ t[x] = f[x] + g[x] /\ t[x] \in Int
               /\ c[x] \in Int /\ w[x] \in Int /\ d[x] \in Int /\ u[x] \in Int
               /\ k[x] = c[x] + w[x] /\ k[x] = d[x] + u[x] /\ k[x] \in Int
    <2>1. /\ video[x].bytes \in Nat /\ video[x].reserved \in Nat /\ Cells(file[x]) \in Int /\ Unwritten(x) \in Int
          /\ inode[x].seen \in Int /\ inode[x].unseen \in Int
      BY RoomTypes, StoreParts, InodeParts
    <2>2. UsedBy(x) \in Int /\ ReservedBy(x) \in Int /\ Takes(x) = UsedBy(x) + ReservedBy(x) /\ Takes(x) \in Int
      BY <2>1 DEF UsedBy, ReservedBy, Takes
    <2>3. /\ Full(x) = Cells(file[x]) + inode[x].seen + inode[x].unseen
          /\ Weighs(x) = Cells(file[x]) + Unwritten(x) + inode[x].seen
      BY <2>1 DEF Full, Weighs, Lies
    <2>4. /\ Full(x) \in Int /\ Weighs(x) \in Int /\ Full(x) + Unwritten(x) \in Int
          /\ Full(x) + Unwritten(x) = Weighs(x) + inode[x].unseen
      BY <2>1, <2>3
    <2> QED
      BY <2>1, <2>2, <2>4
  <1>3. /\ Used = SumFunctionOnSet(f, Runs) /\ Reserved = SumFunctionOnSet(g, Runs)
        /\ OnDisk = SumFunctionOnSet(c, Runs) /\ SumFunction(w) = SumFunctionOnSet(w, Runs)
        /\ SumFunction(u) = SumFunctionOnSet(u, Runs)
        /\ TakesAll = SumFunctionOnSet(t, Runs) /\ WeighsAll = SumFunctionOnSet(d, Runs)
    BY DEF Used, Reserved, OnDisk, SumFunction, UsedBy, ReservedBy, TakesAll, WeighsAll, Full
  <1> HIDE DEF f, g, c, w, t, d, u, k
  <1>4. SumFunctionOnSet(t, Runs) = SumFunctionOnSet(f, Runs) + SumFunctionOnSet(g, Runs)
    BY <1>1, <1>2, SumAdds
  <1>5. /\ SumFunctionOnSet(k, Runs) = SumFunctionOnSet(c, Runs) + SumFunctionOnSet(w, Runs)
        /\ SumFunctionOnSet(k, Runs) = SumFunctionOnSet(d, Runs) + SumFunctionOnSet(u, Runs)
    <2>1. SumFunctionOnSet(k, Runs) = SumFunctionOnSet(c, Runs) + SumFunctionOnSet(w, Runs)
      BY <1>1, <1>2, SumAdds
    <2>2. SumFunctionOnSet(k, Runs) = SumFunctionOnSet(d, Runs) + SumFunctionOnSet(u, Runs)
      BY <1>1, <1>2, SumAdds
    <2> QED
      BY <2>1, <2>2
  <1>6. /\ SumFunctionOnSet(t, Runs) \in Int /\ SumFunctionOnSet(d, Runs) \in Int
        /\ SumFunctionOnSet(u, Runs) \in Int
    BY <1>1, <1>2, SumType
  <1> QED
    BY <1>3, <1>4, <1>5, <1>6

RoomIs == /\ RoomHolds <=> TakesAll <= Cap /\ WeighsAll <= Disk
          /\ TakesAll \in Int /\ WeighsAll \in Int

LEMMA RoomIsNow == TypeInv /\ CallInv /\ InodeInv => RoomIs
  <1> SUFFICES ASSUME TypeInv, CallInv, InodeInv
      PROVE  RoomIs
    OBVIOUS
  <1> DEFINE u == SumFunction([r \in Runs |-> inode[r].unseen])
             o == OnDisk + SumFunction([r \in Runs |-> Unwritten(r)])
  <1>1. /\ Used + Reserved = TakesAll /\ o = WeighsAll + u
        /\ TakesAll \in Int /\ WeighsAll \in Int /\ u \in Int
    BY RoomIsSums
  <1>2. Disk \in Int
    BY VideosAssumption
  <1>3. RoomHolds <=> Used + Reserved <= Cap /\ o <= Disk + u
    BY DEF RoomHolds
  <1> HIDE DEF u, o
  <1>4. o <= Disk + u <=> WeighsAll <= Disk
    BY <1>1, <1>2
  <1> QED
    BY <1>1, <1>3, <1>4 DEF RoomIs

LEMMA RoomIsNext == (TypeInv /\ CallInv /\ InodeInv => RoomIs)'
  BY RoomIsNow, PTL

LEMMA ShapesRoom ==
  ASSUME Around2, TypeInv', CallInv', InodeMoves, \A s \in Runs : Shape(s), RoomHolds
  PROVE  RoomHolds' /\ \A s \in Runs : ReserveOk(s)'
  <1> DEFINE f == [s \in Runs |-> Takes(s)'] g == [s \in Runs |-> Takes(s)]
             d == [s \in Runs |-> Weighs(s)'] w == [s \in Runs |-> Weighs(s)]
  <1>1. TypeInv /\ CallInv /\ RoomIs /\ RoomIs'
    BY RoomIsNow, RoomIsNext DEF Around2, Around, InodeMoves
  <1>2. IsFiniteSet(Runs)
    BY VideosAssumption
  <1>3. ASSUME NEW x \in Runs
        PROVE  f[x] \in Int /\ g[x] \in Int /\ f[x] <= g[x] /\ d[x] \in Int /\ w[x] \in Int /\ d[x] <= w[x]
    <2>1. Takes(x) \in Nat
      BY <1>1, RoomTypes
    <2>2. RoomParts(x)'
      BY RoomTypesNext
    <2>3. Takes(x)' \in Nat
      BY <2>2 DEF RoomParts
    <2>4. Takes(x)' <= Takes(x) /\ Weighs(x)' <= Weighs(x) /\ Weighs(x) \in Int /\ Weighs(x)' \in Int
      BY ShapeWeighs DEF InodeMoves
    <2> QED
      BY <2>1, <2>3, <2>4
  <1>4. /\ TakesAll' = SumFunctionOnSet(f, Runs) /\ TakesAll = SumFunctionOnSet(g, Runs)
        /\ WeighsAll' = SumFunctionOnSet(d, Runs) /\ WeighsAll = SumFunctionOnSet(w, Runs)
    BY DEF TakesAll, WeighsAll
  <1> HIDE DEF f, g, d, w
  <1>5. TakesAll' <= TakesAll /\ WeighsAll' <= WeighsAll
    BY <1>2, <1>3, <1>4, SumAtMost
  <1>6. {Cap, Disk} \subseteq Int
    BY VideosAssumption
  <1>7. RoomHolds'
    <2>1. TakesAll <= Cap /\ WeighsAll <= Disk /\ TakesAll \in Int /\ WeighsAll \in Int
      BY <1>1 DEF RoomIs
    <2>2. TakesAll' \in Int /\ WeighsAll' \in Int /\ (TakesAll' <= Cap /\ WeighsAll' <= Disk => RoomHolds')
      BY <1>1 DEF RoomIs
    <2> QED
      BY <1>5, <1>6, <2>1, <2>2
  <1> QED
    BY <1>7, ShapeReserve

\* What the step that reserves does to each video: what it evicts makes room for what it reserves.
LEMMA ReserveEach ==
  ASSUME Around2, TypeInv', CallInv', NEW q \in Requests, NEW r \in Runs, r = req[q].run, ReserveChunk(q),
         NEW len, len = LenOf[req[q].seq], NEW e, e = ToEvict(r, Settled, len), NEW s \in Runs
  PROVE  LET freed == IF s \in e THEN video[s].bytes ELSE 0
             one == IF s = r THEN len ELSE 0
         IN  /\ ReserveOk(s)'
             /\ Takes(s)' + freed = Takes(s) + one
             /\ Lies(s)' + freed <= Cells(file[s]) + ReservedBy(s) + one
             /\ len \in Nat
             /\ s \in e => s # r /\ Live(s) /\ Lies(s)' = 0
  <1>1. TypeInv /\ CallInv /\ CallWorks(q, Worked(q)) /\ req[q].at = "queued"
    BY WorkingCalls DEF Around2, Around, Working
  <1>2. /\ Held(r)' /\ Head(queue[r]) = q /\ queue[r] # <<>> /\ queue' = queue /\ req'[q] = Worked(q)
        /\ ~ Held(r)
        /\ s # r => HoldsOn(s)
    BY <1>1, HoldWorks
  <1>3. First(q) /\ req[q] \in Pieces /\ Of(q, r) /\ req[q].seq \in Seqs /\ len \in Nat
    BY <1>1, PieceParts, LenParts DEF CallWorks, First, Of
  <1>4. Worked(q).seq = req[q].seq /\ Worked(q).put = req[q].put
    BY <1>1, <1>3 DEF Worked, Pieces
  <1>5. /\ r \notin e /\ e \subseteq Runs /\ \A c \in e : Live(c) /\ queue[c] = <<>>
    BY <1>1, EvictedParts, EvictableParts
  <1>6. /\ video' = [Evict(e) EXCEPT ![r].reserved = @ + len] /\ file' = Unlinked(e)
        /\ Refused(r, req[q].seq) = "none"
    BY DEF ReserveChunk
  <1>7. Live(r)
    BY <1>6 DEF Refused, Live
  <1>8. /\ video[s] \in VideoRows /\ video[r] \in VideoRows /\ video[s].bytes \in Nat /\ video[s].reserved \in Nat
        /\ video[r].reserved = 0 /\ Cells(NoFile) = 0
        /\ ReserveOk(s) /\ StoreOk(s) /\ StoreOk(r)
    BY <1>1, <1>3, StoreParts, FirstHolds, AroundParts DEF Around2, Cells
  <1>9. /\ Evict(e)[r] = video[r] /\ Evict(e)[s] = (IF s \in e THEN [video[s] EXCEPT !.evicted = TRUE] ELSE video[s])
        /\ file'[s] = IF s \in e THEN NoFile ELSE file[s]
    BY <1>5, <1>6 DEF Evict, Unlinked
  <1>10. video'[s] = IF s = r THEN [video[r] EXCEPT !.reserved = 0 + len] ELSE Evict(e)[s]
    <2> DEFINE f == Evict(e)
    <2>1. DOMAIN f = Runs
      BY DEF Evict
    <2> HIDE DEF f
    <2>2. video' = [f EXCEPT ![r].reserved = @ + len]
      BY <1>6 DEF f
    <2>3. video'[r] = [f[r] EXCEPT !.reserved = f[r].reserved + len] /\ (s # r => video'[s] = f[s])
      BY <2>1, <2>2
    <2>4. f[r] = video[r] /\ f[r].reserved = 0
      BY <1>8, <1>9 DEF f
    <2> QED
      BY <2>3, <2>4 DEF f
  <1>11. /\ Unwritten(s) = (IF Held(s) /\ file[s] # NoFile
                             THEN LenOf[req[Head(queue[s])].seq] - req[Head(queue[s])].put ELSE 0)
         /\ Unwritten(s)' = (IF Held(s)' /\ file'[s] # NoFile
                             THEN LenOf[req'[Head(queue'[s])].seq] - req'[Head(queue'[s])].put ELSE 0)
         /\ Cells(file[s])' = Cells(file'[s]) /\ Cells(file[s]) \in Nat
         /\ Unwritten(s) \in Int /\ 0 <= Unwritten(s) /\ Unwritten(s) <= ReservedBy(s) /\ ReservedBy(s) \in Nat
    <2>1. Cells(file[s])' = Cells(file'[s])
      BY DEF Cells
    <2>2. RoomParts(s)'
      BY RoomTypesNext
    <2>3. Unwritten(s) <= ReservedBy(s) /\ 0 <= Unwritten(s)
      BY UnwrittenParts DEF ReservedBy
    <2>4. ReservedBy(s) \in Nat
      BY <1>8 DEF ReservedBy
    <2> QED
      BY <1>1, <2>1, <2>2, <2>3, <2>4, RoomTypes DEF RoomParts
  <1>12. CASE s = r
    <2>1. /\ video'[s].on /\ video'[s].reserved = len /\ video'[s].bytes = video[s].bytes /\ ~ video'[s].evicted
          /\ video[s].on
      BY <1>3, <1>7, <1>8, <1>10, <1>12 DEF VideoRows, Live
    <2>2. req[q].put = 0 /\ file[s] # NoFile
      BY <1>1, <1>3, <1>7, <1>8, <1>12 DEF StoreOk, CallWrites, Stored
    <2>3. Unwritten(s)' = len
      <3>1. Held(s)' /\ queue'[s] = queue[s] /\ Head(queue[s]) = q /\ req'[q] = Worked(q) /\ file'[s] = file[s]
        BY <1>2, <1>5, <1>9, <1>12
      <3>2. Unwritten(s)' = LenOf[req'[q].seq] - req'[q].put
        BY <1>11, <2>2, <3>1
      <3> QED
        BY <1>3, <1>4, <2>2, <3>1, <3>2
    <2>4. Takes(s)' = Takes(s) + len
      BY <1>3, <1>7, <1>8, <1>12, <2>1 DEF Takes, Live
    <2>5. Lies(s)' = Cells(file[s]) + len
      BY <1>5, <1>9, <1>11, <1>12, <2>3 DEF Lies
    <2>6. ReserveOk(s)'
      BY <1>2, <1>4, <1>12, <2>1 DEF ReserveOk
    <2>7. Takes(s) \in Nat
      BY <1>1, RoomTypes
    <2> QED
      <3>1. s \notin e
        BY <1>5, <1>12
      <3>2. Cells(file[s]) \in Nat /\ ReservedBy(s) \in Nat
        BY <1>11
      <3>3. /\ Takes(s)' + 0 = Takes(s) + len
            /\ Lies(s)' + 0 <= Cells(file[s]) + ReservedBy(s) + len
        BY <1>3, <2>4, <2>5, <2>7, <3>2
      <3> QED
        BY <1>3, <1>12, <2>6, <3>1, <3>3
  <1>13. CASE s \in e
    <2>1. Live(s) /\ queue[s] = <<>> /\ s # r
      BY <1>5, <1>13
    <2>2. ~ Held(s) /\ ~ Held(s)' /\ video[s].reserved = 0
      BY <1>2, <1>8, <2>1 DEF Held, ReserveOk
    <2>3. video'[s].evicted /\ video'[s].reserved = 0
      BY <1>8, <1>9, <1>10, <1>13, <2>1, <2>2 DEF VideoRows
    <2>4. Takes(s)' = 0 /\ Takes(s) = video[s].bytes
      BY <1>8, <2>1, <2>2, <2>3 DEF Takes, Live
    <2>5. Lies(s)' = 0
      BY <1>8, <1>9, <1>11, <1>13, <2>2 DEF Lies
    <2>6. video[s].bytes <= Cells(file[s])
      BY <1>8, <2>1 DEF StoreOk, Stored, Cells
    <2>7. ReserveOk(s)'
      BY <2>2, <2>3 DEF ReserveOk
    <2> QED
      BY <1>3, <1>8, <1>11, <1>13, <2>1, <2>4, <2>5, <2>6, <2>7
  <1>14. CASE s # r /\ s \notin e
    <2>1. video'[s] = video[s] /\ file'[s] = file[s] /\ HoldsOn(s)
      BY <1>2, <1>9, <1>10, <1>14
    <2>2. Unwritten(s)' = Unwritten(s)
      BY <1>11, <2>1 DEF HoldsOn
    <2>3. Takes(s)' = Takes(s) /\ Lies(s)' = Cells(file[s]) + Unwritten(s)
      BY <1>11, <2>1, <2>2 DEF Takes, Live, Lies
    <2>4. ReserveOk(s)'
      BY <1>8, <2>1 DEF ReserveOk, HoldsOn
    <2>5. Takes(s) \in Nat
      BY <1>1, RoomTypes
    <2> QED
      BY <1>3, <1>11, <1>14, <2>3, <2>4, <2>5, SMTT(20)
  <1> QED
    BY <1>12, <1>13, <1>14

LEMMA ReserveRoom ==
  ASSUME Around2, TypeInv', CallInv', InodeMoves, NEW q \in Requests, NEW r \in Runs, r = req[q].run, ReserveChunk(q)
  PROVE  RoomHolds' /\ \A s \in Runs : ReserveOk(s)'
  <1> DEFINE len == LenOf[req[q].seq]  e == ToEvict(r, Settled, len)
             t0 == [s \in Runs |-> Takes(s)]        t1 == [s \in Runs |-> Takes(s)']
             w1 == [s \in Runs |-> Weighs(s)']      c == [s \in Runs |-> Full(s)]
             b == [s \in Runs |-> ReservedBy(s)]    f == [s \in Runs |-> IF s \in e THEN video[s].bytes ELSE 0]
             n == [s \in Runs |-> IF s = r THEN len ELSE 0]
             tn == [s \in Runs |-> Takes(s) + (IF s = r THEN len ELSE 0)]
             cb == [s \in Runs |-> Full(s) + ReservedBy(s)]
             cbn == [s \in Runs |-> (Full(s) + ReservedBy(s)) + (IF s = r THEN len ELSE 0)]
             wf == [s \in Runs |-> Weighs(s)' + (IF s \in e THEN video[s].bytes ELSE 0)]
  <1>1. TypeInv /\ CallInv /\ RoomIs'
    BY RoomIsNext DEF Around2, Around, InodeMoves
  <1>2. IsFiniteSet(Runs) /\ Cap \in Int /\ Disk \in Int
    BY VideosAssumption
  <1>3. Enough(e, len)
    BY DEF ReserveChunk
  <1>4. /\ Used + Reserved + len - Cap <= SumFunctionOnSet(f, Runs)
        /\ Reserved + len - (Disk - OnDisk) <= SumFunctionOnSet(f, Runs)
        /\ Reserved = SumFunctionOnSet(b, Runs) /\ OnDisk = SumFunctionOnSet(c, Runs)
        /\ TakesAll = SumFunctionOnSet(t0, Runs)
        /\ TakesAll' = SumFunctionOnSet(t1, Runs) /\ WeighsAll' = SumFunctionOnSet(w1, Runs)
    BY <1>3 DEF Enough, OverCap, OverDisk, Freed, Reserved, OnDisk, SumFunction, ReservedBy, TakesAll, WeighsAll, Full
  <1>5. Used + Reserved = TakesAll
    BY <1>1, RoomIsSums DEF Around2
  <1> HIDE DEF len, e
  <1>6. ASSUME NEW s \in Runs
        PROVE  /\ Takes(s)' + (IF s \in e THEN video[s].bytes ELSE 0) = Takes(s) + (IF s = r THEN len ELSE 0)
               /\ Weighs(s)' + (IF s \in e THEN video[s].bytes ELSE 0) <= (Full(s) + ReservedBy(s)) + (IF s = r THEN len ELSE 0)
               /\ ReserveOk(s)' /\ len \in Nat
               /\ Takes(s) \in Int /\ Takes(s)' \in Int /\ Weighs(s)' \in Int /\ Full(s) \in Int
               /\ ReservedBy(s) \in Int /\ (IF s \in e THEN video[s].bytes ELSE 0) \in Int
               /\ (IF s = r THEN len ELSE 0) \in Int
    <2> DEFINE freed == IF s \in e THEN video[s].bytes ELSE 0
               one == IF s = r THEN len ELSE 0
    <2>1. /\ Takes(s)' + freed = Takes(s) + one
          /\ Lies(s)' + freed <= Cells(file[s]) + ReservedBy(s) + one
          /\ ReserveOk(s)' /\ len \in Nat /\ (s \in e => Lies(s)' = 0)
      BY ReserveEach DEF e, len
    <2>2. video[s].bytes \in Nat /\ video[s].reserved \in Nat /\ Takes(s) \in Nat /\ Cells(file[s]) \in Nat
          /\ inode[s].seen \in Nat /\ inode[s].unseen \in Nat
      BY <1>1, StoreParts, RoomTypes, InodeParts DEF Around2
    <2>3. RoomParts(s)' /\ inode'[s].seen \in Nat
      BY RoomTypesNext, InodePartsNext DEF InodeMoves
    <2>4. Takes(s)' \in Int /\ Lies(s)' \in Int /\ Weighs(s)' = Lies(s)' + inode'[s].seen
      BY <2>3 DEF RoomParts, Lies, Weighs
    <2>5. ReservedBy(s) \in Nat
      BY <2>2 DEF ReservedBy
    <2>6. inode'[s].seen + freed <= (IF s \in e THEN Cells(file[s]) ELSE 0) + inode[s].seen
      BY ReserveSees DEF e, len
    <2>7. freed \in Nat /\ one \in Nat
      BY <2>1, <2>2
    <2>8. Weighs(s)' + freed <= (Full(s) + ReservedBy(s)) + one
      <3>1. CASE s \in e
        <4>1. Lies(s)' = 0 /\ inode'[s].seen + freed <= Cells(file[s]) + inode[s].seen
          BY <2>1, <2>6, <3>1
        <4> HIDE DEF freed, one
        <4> QED
          BY <2>2, <2>3, <2>4, <2>5, <2>7, <4>1 DEF Full
      <3>2. CASE s \notin e
        <4>1. freed = 0 /\ inode'[s].seen <= inode[s].seen
          BY <2>2, <2>3, <2>6, <3>2
        <4> HIDE DEF one
        <4> QED
          BY <2>1, <2>2, <2>3, <2>4, <2>5, <2>7, <4>1 DEF Full
      <3> QED
        BY <3>1, <3>2
    <2>9. Full(s) \in Int /\ Weighs(s)' \in Int
      BY <2>2, <2>3, <2>4 DEF Full
    <2> QED
      BY <2>1, <2>2, <2>4, <2>5, <2>7, <2>8, <2>9
  <1>7. \A s \in Runs : /\ t0[s] \in Int /\ t1[s] \in Int /\ w1[s] \in Int /\ c[s] \in Int /\ b[s] \in Int
                        /\ f[s] \in Int /\ n[s] \in Int
                        /\ tn[s] = t0[s] + n[s] /\ tn[s] = t1[s] + f[s]
                        /\ cb[s] = c[s] + b[s] /\ cb[s] \in Int /\ cbn[s] = cb[s] + n[s] /\ cbn[s] \in Int
                        /\ wf[s] = w1[s] + f[s] /\ wf[s] \in Int /\ wf[s] <= cbn[s]
    BY <1>6
  <1>8. SumFunctionOnSet(n, Runs) = len /\ len \in Int
    <2>1. len \in Int
      BY <1>6
    <2> QED
      BY <1>2, <2>1, SumOfOne
  <1> HIDE DEF t0, t1, w1, c, b, f, n, tn, cb, cbn, wf
  <1> DEFINE S(x) == SumFunctionOnSet(x, Runs)
  <1>9. S(tn) = S(t0) + S(n) /\ S(tn) = S(t1) + S(f)
    BY <1>2, <1>7, SumAdds
  <1>10. S(cb) = S(c) + S(b) /\ S(cbn) = S(cb) + S(n) /\ S(wf) = S(w1) + S(f)
    BY <1>2, <1>7, SumAdds
  <1>11. S(wf) <= S(cbn)
    BY <1>2, <1>7, SumAtMost
  <1>12. S(t0) \in Int /\ S(t1) \in Int /\ S(w1) \in Int /\ S(c) \in Int /\ S(b) \in Int /\ S(f) \in Int
    BY <1>2, <1>7, SumType
  <1>13. /\ TakesAll = S(t0) /\ TakesAll' = S(t1) /\ WeighsAll' = S(w1) /\ Reserved = S(b) /\ OnDisk = S(c)
         /\ Used + Reserved + len - Cap <= S(f) /\ Reserved + len - (Disk - OnDisk) <= S(f)
         /\ S(n) = len
    BY <1>4, <1>8
  <1> HIDE DEF S
  <1>14. TakesAll' <= Cap
    <2>1. S(t1) + S(f) = S(t0) + len
      BY <1>9, <1>13
    <2>2. S(t0) + len - Cap <= S(f)
      BY <1>5, <1>13
    <2> QED
      BY <1>2, <1>8, <1>12, <1>13, <2>1, <2>2
  <1>15. WeighsAll' <= Disk
    <2>1. S(w1) + S(f) <= S(c) + S(b) + len
      BY <1>10, <1>11, <1>13
    <2>2. S(b) + len - (Disk - S(c)) <= S(f)
      BY <1>13
    <2> QED
      BY <1>2, <1>8, <1>12, <1>13, <2>1, <2>2
  <1> QED
    BY <1>1, <1>6, <1>14, <1>15 DEF RoomIs

\* The types after a step.
LEMMA TypesMove ==
  ASSUME Around, StoreKeeps
  PROVE  TypeInv' /\ CallInv' /\ LaneInv' /\ StoreInv'
  BY DEF Around, StoreKeeps, CallKeeps, LaneKeeps, RowsStep, TypeInv, RunnerTypes

LEMMA RoomMoves ==
  ASSUME Around2, TypeInv', CallInv', RoomHolds, InodeMoves, Next
  PROVE  RoomHolds' /\ \A s \in Runs : ReserveOk(s)'
  <1>1. CASE \E q \in Requests : ReserveChunk(q)
    <2>1. PICK q \in Requests : ReserveChunk(q)
      BY <1>1
    <2>2. req[q].run \in Runs
      BY <2>1, TurnParts DEF Around2, Around, ReserveChunk
    <2> QED
      BY <2>1, <2>2, ReserveRoom
  <1>2. CASE \A q \in Requests : ~ ReserveChunk(q)
    BY <1>2, Shapes, ShapesRoom
  <1> QED
    BY <1>1, <1>2

-----------------------------------------------------------------------------
(* What the lane has been told is kept *)

Members(c) == {c[i].seq : i \in 1..Len(c)}

\* The index of a video only grows while the video lives, and a video that is not there is
\* opened or its run has gone.
Grows(s) ==
    /\ \/ ~ Live(s)'
       \/ Live(s) /\ video[s].next <= video'[s].next /\ Members(chunks[s]) \subseteq Members(chunks'[s])
       \/ ~ video[s].on /\ Exists(row[s])
    /\ video[s].on => video'[s].on \/ ~ Exists(row'[s])

LEMMA ShapeGrows ==
  ASSUME Around2, NEW s \in Runs, Shape(s)
  PROVE  Grows(s)
  <1>1. /\ video[s].next \in Nat /\ chunks[s] \in Seq(Marks)
        /\ video[s].on \in BOOLEAN /\ video[s].evicted \in BOOLEAN
    BY StoreParts DEF Around2, Around
  <1>2. CASE Kept(s)
    BY <1>1, <1>2 DEF Kept, Grows, Live
  <1>3. CASE Went(s)
    BY <1>3 DEF Went, Grows, Live
  <1>4. CASE Came(s)
    BY <1>4 DEF Came, Grows
  <1>5. CASE Commits(s)
    <2>1. PICK x \in Seqs :
             /\ Live(s) /\ video'[s].on /\ x >= video[s].next /\ video'[s].next = x + 1
             /\ chunks'[s] = Append(chunks[s], [seq |-> x, off |-> video[s].bytes])
      BY <1>5 DEF Commits
    <2>2. x \in Nat
      BY LenParts
    <2>3. video[s].next <= video'[s].next
      BY <1>1, <2>1, <2>2
    <2>4. Members(chunks[s]) \subseteq Members(chunks'[s])
      <3> DEFINE m == [seq |-> x, off |-> video[s].bytes]
      <3>1. m \in Marks
        BY StoreParts DEF Marks, Around2, Around
      <3>2. /\ Len(chunks'[s]) = Len(chunks[s]) + 1 /\ Len(chunks[s]) \in Nat
            /\ \A i \in 1..Len(chunks[s]) : chunks'[s][i] = chunks[s][i]
        BY <1>1, <2>1, <3>1, AppendProperties, LenProperties
      <3>3. \A i \in 1..Len(chunks[s]) : i \in 1..Len(chunks'[s])
        BY <3>2
      <3> QED
        BY <3>2, <3>3 DEF Members
    <2> QED
      BY <2>1, <2>3, <2>4 DEF Grows
  <1> QED
    BY <1>2, <1>3, <1>4, <1>5 DEF Shape, Still, Lets, Writes

LEMMA ReserveGrows ==
  ASSUME Around2, NEW q \in Requests, NEW r \in Runs, r = req[q].run, ReserveChunk(q), NEW s \in Runs
  PROVE  Grows(s)
  <1> DEFINE len == LenOf[req[q].seq]  e == ToEvict(r, Settled, len)  f == Evict(e)
  <1>1. TypeInv /\ CallInv
    BY DEF Around2, Around
  <1>2. video' = [f EXCEPT ![r].reserved = @ + len] /\ chunks' = chunks
    BY DEF ReserveChunk
  <1>3. video[s] \in VideoRows
    BY <1>1, StoreParts
  <1>4. DOMAIN f = Runs /\ f[s] = IF s \in e THEN [video[s] EXCEPT !.evicted = TRUE] ELSE video[s]
    BY DEF Evict
  <1>5. f[s].on = video[s].on /\ f[s].next = video[s].next /\ (video[s].evicted => f[s].evicted) /\ f[s] \in VideoRows
    BY <1>3, <1>4 DEF VideoRows
  <1> HIDE DEF f, len
  <1>6. video'[s] = IF s = r THEN [f[s] EXCEPT !.reserved = f[s].reserved + len] ELSE f[s]
    BY <1>2, <1>4
  <1>7. video'[s].on = video[s].on /\ video'[s].next = video[s].next /\ (video[s].evicted => video'[s].evicted)
    BY <1>5, <1>6 DEF VideoRows
  <1>8. video[s].next \in Nat
    BY <1>1, StoreParts
  <1> QED
    BY <1>2, <1>7, <1>8 DEF Grows, Live

LEMMA GrowsMove ==
  ASSUME Around2, Next
  PROVE  \A s \in Runs : Grows(s)
  <1>1. CASE \E q \in Requests : ReserveChunk(q)
    <2>1. PICK q \in Requests : ReserveChunk(q)
      BY <1>1
    <2>2. req[q].run \in Runs
      BY <2>1, TurnParts DEF Around2, Around, ReserveChunk
    <2> QED
      BY <2>1, <2>2, ReserveGrows
  <1>2. CASE \A q \in Requests : ~ ReserveChunk(q)
    BY <1>2, Shapes, ShapeGrows
  <1> QED
    BY <1>1, <1>2

\* How far a lane goes in a step.
LaneGoes(s) ==
    LET l == lane[s]  m == lane'[s] IN
    \/ m.stopped \/ m.closed
    \/ m.awaiting /\ (l.pos = 0 => m.pos = 0)
    \/ m.pos = l.pos /\ m.awaiting = l.awaiting
    \/ m.pos = l.pos /\ l.pos # 0 /\ Seq0(s) \in KeySeqs
    \/ m.pos > tap'[s].n + 1 /\ l.pos # 0
    \/ l.pos = 0 /\ m.pos = 1 /\ video'[s].on
    \/ /\ l.pos # 0 /\ m.pos = l.pos + 1 /\ (video[s].on \/ ~ Exists(row[s]))
       /\ Live(s)' => video'[s].next >= l.pos

TookGoes(s) ==
    \/ took'[s] = took[s]
    \/ took'[s] = {}
    \/ /\ took'[s] = took[s] \cup {Seq0(s)} /\ (video[s].on \/ ~ Exists(row[s]))
       /\ Live(s)' => Seq0(s) \in Members(chunks'[s])

LEMMA HeardGoes ==
  ASSUME TypeInv, LaneInv, NEW s \in Runs, HasItem(s), NEW code \in Codes, lane'[s] = After(s, code), tap'[s] = tap[s],
         code = "ok" /\ Item(s) = "open" => video'[s].on,
         code = "ok" /\ Item(s) = "chunk" => /\ video[s].on \/ ~ Exists(row[s])
                                             /\ Live(s)' => video'[s].next >= lane[s].pos
  PROVE  LaneGoes(s)
  <1>1. /\ lane'[s].pos = lane[s].pos \/ lane'[s].pos = lane[s].pos + 1
        /\ \/ lane'[s].stopped \/ lane'[s].closed \/ lane'[s].awaiting
           \/ Item(s) = "chunk" /\ lane'[s].pos = lane[s].pos /\ lane'[s].awaiting = lane[s].awaiting
           \/ Item(s) # "end" /\ code = "ok" /\ lane'[s].pos = lane[s].pos + 1
           \/ Item(s) = "end" /\ lane'[s].pos = lane[s].pos + 1
        /\ Item(s) = "open" => \/ code = "ok" /\ lane'[s].pos = 1
                               \/ lane'[s].stopped \/ lane'[s].closed
    BY AfterParts DEF TypeInv
  <1>2. /\ Item(s) \in {"open", "chunk", "end"} /\ (Item(s) = "open" <=> lane[s].pos = 0)
        /\ Item(s) = "end" <=> lane[s].pos > tap[s].n
        /\ lane[s].pos \in Nat /\ tap[s].n \in Nat
    BY LaneParts
  <1>3. CASE Item(s) = "open"
    BY <1>1, <1>2, <1>3 DEF LaneGoes
  <1>4. CASE Item(s) = "chunk"
    BY <1>1, <1>2, <1>4 DEF LaneGoes
  <1>5. CASE Item(s) = "end"
    BY <1>1, <1>2, <1>5 DEF LaneGoes
  <1> QED
    BY <1>2, <1>3, <1>4, <1>5

LEMMA SameGoes ==
  ASSUME NEW s \in Runs, lane'[s] = lane[s] \/ lane'[s].stopped, took'[s] = took[s] \/ took'[s] = {}
  PROVE  LaneGoes(s) /\ TookGoes(s)
  BY DEF LaneGoes, TookGoes

\* What has to be so when call q of r is answered 200 while its lane waits.
OkMeans(q, r) ==
    /\ req[q].op = "open" => video'[r].on
    /\ req[q].op = "chunk" => /\ video[r].on \/ ~ Exists(row[r])
                              /\ Live(r)' => /\ video'[r].next >= req[q].seq + 1
                                             /\ req[q].seq \in Members(chunks'[r])

LEMMA ReplyGoes ==
  ASSUME TypeInv, LaneInv, NEW q \in Requests, NEW r \in Runs, r = req[q].run, NEW code, Replies(q, code),
         Hears(r, q) /\ code = "ok" => OkMeans(q, r)
  PROVE  \A s \in Runs : LaneGoes(s) /\ TookGoes(s)
  <1> TAKE s \in Runs
  <1>1. /\ \A x \in Runs : x # r => lane'[x] = lane[x] /\ took'[x] = took[x]
        /\ ~ Hears(r, q) => lane' = lane /\ took' = took
        /\ Hears(r, q) => /\ HasItem(r) /\ ~ lane[r].stopped /\ Answers(r, req[q])
                          /\ lane'[r] = After(r, code)
        /\ \/ took'[r] = took[r]
           \/ /\ Hears(r, q) /\ Item(r) = "chunk" /\ code = "ok"
              /\ took'[r] = took[r] \cup {Seq0(r)}
    BY ReplyParts
  <1>2. CASE s # r \/ ~ Hears(r, q)
    BY <1>1, <1>2, SameGoes
  <1>3. CASE s = r /\ Hears(r, q)
    <2>1. code \in Codes /\ tap'[r] = tap[r]
      BY DEF Replies
    <2>2. Item(r) = req[q].op /\ (Item(r) = "chunk" => req[q].seq = Seq0(r) /\ Seq0(r) = lane[r].pos - 1 /\ lane[r].pos \in Nat)
      BY <1>1, <1>3, LaneParts DEF Answers
    <2>3. code = "ok" /\ Item(r) = "open" => video'[r].on
      BY <1>3, <2>2 DEF OkMeans
    <2>4. code = "ok" /\ Item(r) = "chunk" => /\ video[r].on \/ ~ Exists(row[r])
                                              /\ Live(r)' => video'[r].next >= lane[r].pos
      BY <1>3, <2>2 DEF OkMeans
    <2>5. LaneGoes(r)
      BY <1>1, <1>3, <2>1, <2>3, <2>4, HeardGoes
    <2>6. TookGoes(r)
      BY <1>1, <1>3, <2>2 DEF OkMeans, TookGoes
    <2> QED
      BY <1>3, <2>5, <2>6
  <1> QED
    BY <1>2, <1>3

LEMMA RefuseGoes ==
  ASSUME Around2, NEW q \in Requests, NEW r \in Runs, r = req[q].run, RefuseChunk(q)
  PROVE  \A s \in Runs : LaneGoes(s) /\ TookGoes(s)
  <1> DEFINE x == req[q].seq
  <1>1. TypeInv /\ CallInv /\ LaneInv /\ StoreOk(r)
    BY AroundParts DEF Around2, Around
  <1>2. Replies(q, Refused(r, x)) /\ First(q)
    BY <1>1, HandlersReply, TurnParts DEF RefuseChunk
  <1>3. ASSUME Hears(r, q), Refused(r, x) = "ok"
        PROVE  OkMeans(q, r)
    <2>1. video[r].on /\ ~ video[r].evicted /\ x < video[r].next
      BY <1>3 DEF Refused
    <2>2. UNCHANGED <<video, chunks>>
      BY <1>3 DEF RefuseChunk
    <2>3. req[q].op = "chunk"
      BY <1>2, PieceParts DEF First
    <2>4. Answers(r, req[q]) /\ x = lane[r].pos - 1 /\ lane[r].pos \in Nat
      BY <1>1, <1>2, <1>3, <2>3, ReplyParts, LaneParts DEF Answers
    <2>5. Live(r) /\ Stored(r) /\ video[r].next \in Nat
      BY <1>1, <2>1, StoreParts DEF StoreOk, Live
    <2>6. video[r].next = x + 1 /\ video[r].next > 0
      <3>1. x \in Nat
        BY <1>2, PieceParts, LenParts DEF First
      <3> QED
        BY <2>1, <2>4, <2>5, <3>1 DEF Stored
    <2>7. chunks[r] \in Seq(Marks) /\ video[r].next = IF chunks[r] = <<>> THEN 0 ELSE chunks[r][Len(chunks[r])].seq + 1
      BY <1>1, <2>5, StoreParts DEF Stored, Indexed
    <2>8. Len(chunks[r]) \in Nat /\ Len(chunks[r]) > 0 /\ chunks[r] # <<>>
      BY <2>6, <2>7, MarkParts
    <2>9. Len(chunks[r]) \in 1..Len(chunks[r])
      BY <2>8
    <2>10. chunks[r][Len(chunks[r])].seq \in Nat
      BY <2>7, <2>9, MarkParts
    <2>11. x = chunks[r][Len(chunks[r])].seq
      BY <2>4, <2>6, <2>7, <2>8, <2>10, SMTT(20)
    <2>12. x \in Members(chunks[r])
      BY <2>9, <2>11 DEF Members
    <2>13. chunks'[r] = chunks[r] /\ video'[r] = video[r]
      BY <2>2
    <2> QED
      BY <2>1, <2>3, <2>6, <2>12, <2>13, <2>4 DEF OkMeans
  <1> QED
    BY <1>1, <1>2, <1>3, ReplyGoes

LEMMA CommitGoes ==
  ASSUME Around2, NEW q \in Requests, NEW r \in Runs, r = req[q].run, CommitChunk(q)
  PROVE  \A s \in Runs : LaneGoes(s) /\ TookGoes(s)
  <1> DEFINE x == req[q].seq
  <1>1. TypeInv /\ CallInv /\ LaneInv /\ StoreOk(r)
    BY AroundParts DEF Around2, Around
  <1>2. Replies(q, "ok") /\ Of(q, r) /\ First(q)
    BY <1>1, CommitParts
  <1>3. OkMeans(q, r)
    <2>1. req[q].op = "chunk" /\ x \in Nat
      BY <1>2, PieceParts, LenParts DEF Of
    <2>2. video[r].on \/ ~ Exists(row[r])
      BY <1>1, <1>2 DEF StoreOk
    <2>3. Live(r)' => video'[r].next >= x + 1 /\ x \in Members(chunks'[r])
      <3>1. CASE Live(r)
        <4>1. video[r] \in VideoRows /\ video \in [Runs -> VideoRows] /\ chunks \in [Runs -> Seq(Marks)] /\ video[r].bytes \in Nat
          BY <1>1, StoreParts
        <4> DEFINE d == Append(chunks[r], [seq |-> x, off |-> video[r].bytes])
        <4>2. chunks' = [chunks EXCEPT ![r] = d]
          BY <1>1, <3>1, CommitParts
        <4>3. [seq |-> x, off |-> video[r].bytes] \in Marks /\ chunks[r] \in Seq(Marks)
          BY <1>2, <4>1, PieceParts DEF Of, Marks
        <4>4. d \in Seq(Marks) /\ Len(d) = Len(chunks[r]) + 1 /\ Len(chunks[r]) \in Nat /\ d[Len(chunks[r]) + 1].seq = x
          BY <4>3, AppendProperties, LenProperties
        <4> HIDE DEF d
        <4>5. chunks'[r] = d
          BY <4>1, <4>2
        <4>6. Len(chunks[r]) + 1 \in 1..Len(d)
          BY <4>4
        <4>7. x \in Members(chunks'[r])
          BY <4>4, <4>5, <4>6 DEF Members
        <4> DEFINE n == IF video[r].reserved > LenOf[x] THEN video[r].reserved - LenOf[x] ELSE 0
                   bytes == video[r].bytes + LenOf[x]
        <4>8. video' = [video EXCEPT ![r] = Committed(r, x, bytes, n)]
          BY <1>1, <3>1, CommitParts
        <4> HIDE DEF n, bytes
        <4>9. Committed(r, x, bytes, n).next = x + 1
          BY <4>1 DEF Committed, VideoRows
        <4>10. video'[r].next = x + 1
          BY <4>1, <4>8, <4>9
        <4> QED
          BY <2>1, <4>7, <4>10
      <3>2. CASE ~ Live(r)
        <4> DEFINE len == LenOf[x]
        <4>1. video' = Release(r, len) /\ len \in Nat
          BY <1>1, <3>2, CommitParts
        <4> HIDE DEF len
        <4>2. PICK v \in VideoRows :
              /\ Release(r, len) = [video EXCEPT ![r] = v]
              /\ v.on = video[r].on /\ v.evicted = video[r].evicted /\ v.bytes = video[r].bytes /\ v.next = video[r].next
              /\ v.reserved = IF video[r].reserved > len THEN video[r].reserved - len ELSE 0
              /\ v = [video[r] EXCEPT !.reserved = IF video[r].reserved > len THEN video[r].reserved - len ELSE 0]
          <5>1. r \in Runs
            OBVIOUS
          <5> QED
            BY ONLY <1>1, <4>1, <5>1, ReleaseParts
        <4>3. video \in [Runs -> VideoRows]
          BY <1>1, StoreParts
        <4>4. video'[r] = v
          BY <4>1, <4>2, <4>3
        <4> QED
          BY <3>2, <4>2, <4>4 DEF Live
      <3> QED
        BY <3>1, <3>2
    <2> QED
      BY <2>1, <2>2, <2>3 DEF OkMeans
  <1> QED
    BY <1>1, <1>2, <1>3, ReplyGoes

LEMMA OpenAnswers ==
  ASSUME TypeInv, CallInv, NEW q \in Requests, NEW r \in Runs, r = req[q].run, OpenVideo(q)
  PROVE  \/ Replies(q, "error") \/ Replies(q, "conflict")
         \/ Replies(q, "ok") /\ video'[r].on
  <1> DEFINE n == 1 + Cardinality({x \in Runs : video[x].born # 0})
             v == [NoVideo EXCEPT !.on = TRUE, !.born = n]
  <1>1. req[q] # Idle /\ UNCHANGED tap
    BY OpenParts, IdleIsNone DEF OpenVideo
  <1>2. v.on
    BY DEF NoVideo
  <1>3. video \in [Runs -> VideoRows]
    BY StoreParts
  <1>4. \/ UNCHANGED video /\ Reply(q, r, IF ~ video[r].on THEN "error"
                                        ELSE IF video[r].ended \/ video[r].evicted THEN "conflict" ELSE "ok")
        \/ video' = [video EXCEPT ![r] = v] /\ Reply(q, r, "ok")
    BY DEF OpenVideo
  <1> HIDE DEF v
  <1>5. CASE video' = [video EXCEPT ![r] = v] /\ Reply(q, r, "ok")
    BY <1>1, <1>2, <1>3, <1>5 DEF Replies, Codes
  <1>6. CASE UNCHANGED video /\ Reply(q, r, IF ~ video[r].on THEN "error"
                                             ELSE IF video[r].ended \/ video[r].evicted THEN "conflict" ELSE "ok")
    <2>1. CASE ~ video[r].on
      BY <1>1, <1>6, <2>1 DEF Replies, Codes
    <2>2. CASE video[r].on /\ (video[r].ended \/ video[r].evicted)
      BY <1>1, <1>6, <2>2 DEF Replies, Codes
    <2>3. CASE video[r].on /\ ~ (video[r].ended \/ video[r].evicted)
      BY <1>1, <1>6, <2>3 DEF Replies, Codes
    <2> QED
      BY <2>1, <2>2, <2>3
  <1> QED
    BY <1>4, <1>5, <1>6

\* The other answers.
LEMMA OtherGoes ==
  ASSUME Around2, NEW q \in Requests, NEW r \in Runs, r = req[q].run,
         OpenVideo(q) \/ EndVideo(q) \/ NoRoom(q) \/ WriteFails(q) \/ (OpenFile(q) /\ file[r] = NoFile)
  PROVE  \A s \in Runs : LaneGoes(s) /\ TookGoes(s)
  <1>1. TypeInv /\ CallInv /\ LaneInv
    BY DEF Around2, Around
  <1>2. CASE NoRoom(q) \/ WriteFails(q) \/ (OpenFile(q) /\ file[r] = NoFile)
    <2>1. PICK code \in {"full", "error", "gone"} : Replies(q, code)
      BY <1>1, <1>2, HandlersReply
    <2> QED
      BY <1>1, <2>1, ReplyGoes
  <1>3. CASE EndVideo(q)
    <2>1. PICK code \in {"missing", "ok"} : Replies(q, code)
      BY <1>1, <1>3, HandlersReply
    <2>2. req[q].op = "end"
      BY <1>3 DEF EndVideo
    <2>3. OkMeans(q, r)
      BY <2>2 DEF OkMeans
    <2> QED
      BY <1>1, <2>1, <2>3, ReplyGoes
  <1>4. CASE OpenVideo(q)
    <2>1. req[q].op = "open"
      BY <1>4 DEF OpenVideo
    <2>2. CASE Replies(q, "ok") /\ video'[r].on
      <3>1. OkMeans(q, r)
        BY <2>1, <2>2 DEF OkMeans
      <3> QED
        BY <1>1, <2>2, <3>1, ReplyGoes
    <2>3. ASSUME NEW code \in {"error", "conflict"}, Replies(q, code)
          PROVE  \A s \in Runs : LaneGoes(s) /\ TookGoes(s)
      BY <1>1, <2>3, ReplyGoes
    <2> QED
      BY <1>1, <1>4, <2>2, <2>3, OpenAnswers
  <1> QED
    BY <1>2, <1>3, <1>4

LEMMA SendGoes ==
  ASSUME Around2, NEW r \in Runs, Send(r)
  PROVE  \A s \in Runs : LaneGoes(s) /\ TookGoes(s)
  <1> TAKE s \in Runs
  <1>1. TypeInv /\ LaneInv /\ UNCHANGED <<tap, took, video, row>> /\ lane \in [Runs -> LanesType]
    BY LaneParts DEF Around2, Around, Send
  <1>2. CASE lane' = [lane EXCEPT ![r] = After(r, AtHeaders(r))] /\ AtHeaders(r) # "body"
    <2>1. AtHeaders(r) \in Codes /\ AtHeaders(r) # "ok"
      BY <1>2 DEF AtHeaders, Codes
    <2>2. HasItem(r)
      BY DEF Send, Ready
    <2>3. CASE s = r
      <3>1. lane'[s] = After(s, AtHeaders(s))
        BY <1>1, <1>2, <2>3
      <3>2. LaneGoes(s)
        BY <1>1, <2>1, <2>2, <2>3, <3>1, HeardGoes
      <3> QED
        BY <1>1, <3>2 DEF TookGoes
    <2>4. CASE s # r
      BY <1>1, <1>2, <2>4, SameGoes
    <2> QED
      BY <2>3, <2>4
  <1>3. ASSUME NEW q \in Requests, lane' = [lane EXCEPT ![r].wait = q, ![r].awaiting = @ /\ Item(r) # "chunk"]
        PROVE  LaneGoes(s) /\ TookGoes(s)
    <2>1. CASE s = r
      <3>1. lane[r] \in LanesType /\ lane[r].pos \in Nat /\ lane[r].awaiting \in BOOLEAN
        BY LaneParts, <1>1 DEF LanesType
      <3>2. lane'[r].pos = lane[r].pos /\ lane'[r].awaiting = (lane[r].awaiting /\ Item(r) # "chunk")
        BY <1>1, <1>3, <3>1 DEF LanesType
      <3>3. CASE Item(r) = "chunk" /\ lane[r].awaiting
        <4>1. Seq0(r) \in KeySeqs /\ lane[r].pos # 0
          BY <1>1, <3>3, LaneParts DEF Send, Skips
        <4> QED
          BY <1>1, <2>1, <3>2, <4>1 DEF LaneGoes, TookGoes
      <3>4. CASE ~ (Item(r) = "chunk" /\ lane[r].awaiting)
        <4>1. lane'[r].awaiting = lane[r].awaiting
          BY <3>1, <3>2, <3>4
        <4> QED
          BY <1>1, <2>1, <3>2, <4>1 DEF LaneGoes, TookGoes
      <3> QED
        BY <3>3, <3>4
    <2>2. CASE s # r
      BY <1>1, <1>3, <2>2, SameGoes
    <2> QED
      BY <2>1, <2>2
  <1> QED
    BY <1>1, <1>2, <1>3, SendCalls

LEMMA SkipGoes ==
  ASSUME Around2, NEW r \in Runs, Skip(r)
  PROVE  \A s \in Runs : LaneGoes(s) /\ TookGoes(s)
  <1> TAKE s \in Runs
  <1>1. TypeInv /\ UNCHANGED took /\ lane \in [Runs -> LanesType] /\ lane[r] \in LanesType
    BY LaneParts DEF Around2, Around, Skip
  <1> DEFINE t == lane[r].tailLost \/ (~ lane[r].closed /\ Item(r) = "chunk" /\ IsTail(r))
  <1>2. lane' = [lane EXCEPT ![r] = [Next1(lane[r]) EXCEPT !.tailLost = t]]
    BY DEF Skip
  <1> HIDE DEF t
  <1>3. CASE s # r
    BY <1>1, <1>2, <1>3, SameGoes
  <1>4. CASE s = r
    <2>1. lane'[r] = [Next1(lane[r]) EXCEPT !.tailLost = t]
      BY <1>1, <1>2
    <2>2. lane'[r].closed = lane[r].closed /\ lane'[r].awaiting = lane[r].awaiting
      BY <1>1, <2>1 DEF Next1, LanesType
    <2>3. lane[r].pos # 0 /\ (lane[r].closed \/ lane[r].awaiting)
      BY <1>1, LaneParts DEF Skip, Skips
    <2> QED
      BY <1>1, <1>4, <2>2, <2>3 DEF LaneGoes, TookGoes
  <1> QED
    BY <1>3, <1>4

LEMMA AsideGoes ==
  ASSUME Around2, Aside
  PROVE  \A s \in Runs : LaneGoes(s) /\ TookGoes(s)
  <1>1. TypeInv /\ LaneInv /\ lane \in [Runs -> LanesType] /\ took \in [Runs -> SUBSET Seqs]
    BY LaneParts DEF Around2, Around, TypeInv, RunnerTypes
  <1>2. ASSUME NEW r \in Runs, Cut(r) \/ LaneStops(r), NEW s \in Runs
        PROVE  LaneGoes(s) /\ TookGoes(s)
    <2>1. took' = took /\ (lane' = lane \/ lane' = [lane EXCEPT ![r] = Stopped(lane[r])])
      BY <1>2 DEF Cut, LaneStops
    <2>2. Stopped(lane[r]).stopped
      BY <1>1 DEF Stopped, LanesType
    <2> QED
      BY <1>1, <2>1, <2>2, SameGoes
  <1>3. ASSUME NEW r \in Runs, GiveUp(r), NEW s \in Runs
        PROVE  LaneGoes(s) /\ TookGoes(s)
    <2>1. lane' = [lane EXCEPT ![r] = After(r, "lost")] /\ UNCHANGED <<took, tap>> /\ HasItem(r)
      BY <1>1, <1>3 DEF GiveUp, LaneInv
    <2>2. CASE s = r
      <3>1. lane'[s] = After(s, "lost") /\ "lost" \in Codes
        BY <1>1, <2>1, <2>2 DEF Codes
      <3>2. LaneGoes(s)
        BY <1>1, <2>1, <2>2, <3>1, HeardGoes
      <3> QED
        BY <2>1, <3>2 DEF TookGoes
    <2>3. CASE s # r
      BY <1>1, <2>1, <2>3, SameGoes
    <2> QED
      BY <2>2, <2>3
  <1>4. ASSUME NEW r \in Runs, DeleteRun(r), NEW s \in Runs
        PROVE  LaneGoes(s) /\ TookGoes(s)
    <2>1. lane' = lane /\ took' = [took EXCEPT ![r] = {}]
      BY <1>4 DEF DeleteRun
    <2> QED
      BY <1>1, <2>1, SameGoes
  <1>5. ASSUME NEW s \in Runs, UNCHANGED <<lane, took>>
        PROVE  LaneGoes(s) /\ TookGoes(s)
    BY <1>5, SameGoes
  <1>6. CASE \/ \E r \in Runs : \E failed \in BOOLEAN, rest \in 0..1 : FlowOver(r, failed, rest)
             \/ \E r \in Runs : \E s \in Outcomes : FinishRun(r, s)
             \/ \E r \in Runs : (GoesQuiet(r) \/ GraceOver(r)) /\ UNCHANGED work
             \/ \E r \in Runs : \E s \in Sockets : SocketCloses(r, s)
             \/ ReadSettles
             \/ \E r \in Runs : PlayVideo(r) \/ PlayerDone(r)
             \/ \E old \in SUBSET Passed : PurgeVideos(old)
    <2>1. UNCHANGED <<lane, took>>
      BY <1>6 DEF FlowOver, FinishRun, SocketCloses, ReadSettles, PlayVideo, PlayerDone, PurgeVideos, work
    <2> QED
      BY <1>5, <2>1
  <1> QED
    BY <1>2, <1>3, <1>4, <1>6, SkipGoes DEF Aside

LEMMA LanesGo ==
  ASSUME Around2, Next
  PROVE  \A s \in Runs : LaneGoes(s) /\ TookGoes(s)
  <1>1. TypeInv /\ CallInv
    BY DEF Around2, Around
  <1>2. ASSUME UNCHANGED <<lane, took>>
        PROVE  \A s \in Runs : LaneGoes(s) /\ TookGoes(s)
    BY <1>2, SameGoes
  <1>3. ASSUME NEW q \in Requests, BodyLost(q) \/ ChunkBody(q) \/ Working(q)
        PROVE  \A s \in Runs : LaneGoes(s) /\ TookGoes(s)
    <2>1. UNCHANGED <<lane, took>>
      BY <1>3 DEF BodyLost, ChunkBody, Working, ReserveChunk, WriteCell, OpenFile
    <2> QED
      BY <1>2, <2>1
  <1>4. ASSUME NEW q \in Requests, Ending(q)
        PROVE  \A s \in Runs : LaneGoes(s) /\ TookGoes(s)
    <2>1. req[q].run \in Runs
      BY <1>1, <1>4, EndingCalls, PieceParts DEF CallPops, First
    <2> QED
      BY <1>4, <2>1, RefuseGoes, CommitGoes, OtherGoes DEF Ending
  <1>5. ASSUME NEW q \in Requests, OpenVideo(q) \/ EndVideo(q)
        PROVE  \A s \in Runs : LaneGoes(s) /\ TookGoes(s)
    <2>1. req[q].run \in Runs
      BY <1>1, <1>5, OpenCalls, CallTypes, CallParts DEF CallLeaves
    <2> QED
      BY <1>5, <2>1, OtherGoes
  <1>6. CASE Restart
    <2>1. UNCHANGED <<lane, took>>
      BY <1>6 DEF Restart
    <2> QED
      BY <1>2, <2>1
  <1> QED
    BY <1>3, <1>4, <1>5, <1>6, AsideGoes, SendGoes, StepKinds

-----------------------------------------------------------------------------
(* The invariant *)

\* Before a video is opened, its lane has sent nothing of it.
Opening(s) == ~ video[s].on /\ Exists(row[s]) =>
    took[s] = {} /\ (lane[s].pos = 0 \/ lane[s].stopped \/ lane[s].closed)

KeptOk(s) == Live(s) => took[s] \subseteq Members(chunks[s])

LaneOk(s) == LaneOrder(s) /\ Opening(s) /\ KeptOk(s) /\ ReserveOk(s)

VideoInv == TypeInv /\ InodeInv /\ CallInv /\ LaneInv /\ StoreInv /\ RoomHolds /\ \A s \in Runs : LaneOk(s)

LEMMA OpeningMoves ==
  ASSUME Around2, NEW s \in Runs, Opening(s), Grows(s), LaneGoes(s), TookGoes(s)
  PROVE  Opening(s)'
  <1> SUFFICES ASSUME ~ video'[s].on, Exists(row'[s])
      PROVE  took'[s] = {} /\ (lane'[s].pos = 0 \/ lane'[s].stopped \/ lane'[s].closed)
    BY DEF Opening
  <1>1. ~ video[s].on /\ Exists(row[s])
    BY AroundParts DEF Grows, Around2
  <1>2. took[s] = {} /\ (lane[s].pos = 0 \/ lane[s].stopped \/ lane[s].closed)
    BY <1>1 DEF Opening
  <1>3. (lane[s].stopped => lane'[s].stopped) /\ (lane[s].closed => lane'[s].closed)
    BY DEF Around2, Around, LaneKeeps
  <1>4. took'[s] = {}
    BY <1>1, <1>2 DEF TookGoes
  <1>5. lane[s].pos = 0 => lane'[s].pos = 0 \/ lane'[s].stopped \/ lane'[s].closed
    BY DEF LaneGoes
  <1> QED
    BY <1>2, <1>3, <1>4, <1>5

LEMMA KeptMoves ==
  ASSUME NEW s \in Runs, Opening(s), KeptOk(s), Grows(s), TookGoes(s)
  PROVE  KeptOk(s)'
  <1> SUFFICES ASSUME Live(s)'
      PROVE  took'[s] \subseteq Members(chunks'[s])
    BY DEF KeptOk, Members
  <1>1. CASE Live(s) /\ Members(chunks[s]) \subseteq Members(chunks'[s])
    BY <1>1 DEF TookGoes, KeptOk
  <1>2. CASE ~ video[s].on /\ Exists(row[s])
    BY <1>2 DEF TookGoes, Opening
  <1> QED
    BY <1>1, <1>2 DEF Grows

\* A tap changes while its flow goes on.
LEMMA TapMoves ==
  ASSUME TypeInv, Next, NEW s \in Runs
  PROVE  tap'[s] = tap[s] \/ ~ tap[s].over
  <1>1. tap \in [Runs -> Taps]
    BY LaneParts
  <1>2. ASSUME NEW r \in Runs, Runner(r)
        PROVE  tap'[s] = tap[s] \/ ~ tap[s].over
    <2>1. CASE Cut(r)
      BY <1>1, <2>1 DEF Cut
    <2>2. ASSUME NEW failed, NEW rest, FlowOver(r, failed, rest)
          PROVE  tap'[s] = tap[s] \/ ~ tap[s].over
      BY <1>1, <2>2 DEF FlowOver
    <2>3. ASSUME Skip(r) \/ Send(r) \/ GiveUp(r) \/ LaneStops(r) \/ \E x \in Outcomes : FinishRun(r, x)
          PROVE  tap'[s] = tap[s] \/ ~ tap[s].over
      BY <2>3 DEF Skip, Send, GiveUp, LaneStops, FinishRun, work
    <2> QED
      BY <1>2, <2>1, <2>2, <2>3 DEF Runner
  <1>3. ASSUME NEW q \in Requests, Handle(q) \/ BodyLost(q) \/ WriteFails(q)
        PROVE  UNCHANGED tap
    BY <1>3 DEF Handle, BodyLost, WriteFails, OpenVideo, EndVideo, ChunkBody, RefuseChunk, ReserveChunk, NoRoom,
                OpenFile, WriteCell, CommitChunk
  <1>4. ASSUME NEW r \in Runs, \/ DeleteRun(r) \/ PlayVideo(r) \/ PlayerDone(r) \/ UNCHANGED work
                               \/ \E x \in Sockets : SocketCloses(r, x)
        PROVE  UNCHANGED tap
    BY <1>4 DEF DeleteRun, PlayVideo, PlayerDone, SocketCloses, work
  <1>5. ASSUME ReadSettles \/ Restart \/ \E old \in SUBSET Passed : PurgeVideos(old)
        PROVE  UNCHANGED tap
    BY <1>5 DEF ReadSettles, Restart, PurgeVideos, work
  <1> QED
    BY <1>2, <1>3, <1>4, <1>5 DEF Next

LEMMA OrderMoves ==
  ASSUME Around2, LaneInv', TypeInv', NEW s \in Runs, tap'[s] = tap[s] \/ ~ tap[s].over, Opening(s), LaneOrder(s), Grows(s), LaneGoes(s)
  PROVE  LaneOrder(s)'
  <1> SUFFICES ASSUME Live(s)', ~ lane'[s].stopped, ~ lane'[s].closed, ~ lane'[s].awaiting, lane'[s].pos \in 1..tap'[s].n + 1
      PROVE  lane'[s].pos - 1 \in KeySeqs \/ video'[s].next >= lane'[s].pos - 1
    BY DEF LaneOrder, Seq0
  <1>1. /\ lane[s].pos \in Nat /\ tap[s].n \in Nat /\ tap'[s].n \in Nat /\ lane'[s].pos \in Nat
        /\ video[s].next \in Nat /\ video'[s].next \in Nat /\ Seq0(s) = lane[s].pos - 1
    <2>1. /\ lane[s].pos \in Nat /\ tap[s].n \in Nat /\ video[s].next \in Nat /\ Seq0(s) = lane[s].pos - 1
      BY LaneParts, StoreParts DEF Around2, Around
    <2>2. lane'[s] \in LanesType /\ tap'[s] \in Taps /\ video'[s] \in VideoRows
      BY DEF TypeInv, RunnerTypes, StoreTypes
    <2> QED
      BY <2>1, <2>2 DEF LanesType, Taps, VideoRows
  <1>2. ~ lane[s].stopped /\ ~ lane[s].closed
    BY DEF Around2, Around, LaneKeeps
  <1>3. 0 \in KeySeqs
    BY VideosAssumption
  <1>4. CASE lane'[s].pos = lane[s].pos /\ lane'[s].awaiting = lane[s].awaiting
    <2>1. lane[s].pos # 0
      BY <1>1, <1>4
    <2>2. Live(s) /\ video[s].next <= video'[s].next
      BY <1>2, <2>1 DEF Grows, Opening
    <2>3. lane[s].pos \in 1..tap[s].n + 1
      <3>1. tap'[s] = tap[s] \/ ~ tap[s].over
        OBVIOUS
      <3>2. lane[s].pos <= tap[s].n + (IF tap[s].over THEN 2 ELSE 1)
        BY DEF LaneInv, Around2, Around
      <3> QED
        BY <1>1, <1>4, <3>1, <3>2
    <2>4. Seq0(s) \in KeySeqs \/ video[s].next >= Seq0(s)
      BY <1>2, <1>4, <2>2, <2>3 DEF LaneOrder
    <2> QED
      BY <1>1, <1>4, <2>2, <2>4
  <1>5. CASE lane'[s].pos = lane[s].pos /\ Seq0(s) \in KeySeqs
    BY <1>1, <1>5
  <1>6. CASE lane'[s].pos > tap'[s].n + 1
    BY <1>1, <1>6
  <1>7. CASE lane'[s].pos = 1
    BY <1>3, <1>7
  <1>8. CASE lane'[s].pos = lane[s].pos + 1 /\ video'[s].next >= lane[s].pos
    BY <1>1, <1>8
  <1> QED
    BY <1>4, <1>5, <1>6, <1>7, <1>8 DEF LaneGoes

LEMMA InvMoves ==
  ASSUME VideoInv, Next \/ UNCHANGED vars
  PROVE  VideoInv'
  <1>1. TypeInv /\ InodeInv /\ CallInv /\ LaneInv /\ StoreInv /\ RoomHolds /\ \A s \in Runs : LaneOk(s)
    BY DEF VideoInv
  <1>2. Around2
    <2>1. CASE Next
      BY <1>1, <2>1, RowsMove, CallsMove, LanesMove DEF Around2, Around, LaneOk
    <2>2. CASE UNCHANGED vars
      <3>1. CallsStay /\ UNCHANGED <<row, open, faults, lane, tap, took>>
        BY <2>2 DEF vars, CallsStay
      <3>2. RowsStep
        BY <1>1, <3>1, RowsSame DEF TypeInv, RowTypes
      <3>3. CallKeeps /\ SameCalls
        BY <1>1, <3>1, StayKeeps, SameCallsOf
      <3>4. LaneKeeps
        BY <1>1, <3>1, <3>3, LanesKept, TapKept DEF TypeInv, RunnerTypes
      <3> QED
        BY <1>1, <3>2, <3>3, <3>4 DEF Around2, Around, LaneOk
    <2> QED
      BY <2>1, <2>2
  <1>3. Around
    BY <1>2 DEF Around2
  <1>4. StoreKeeps
    <2>1. CASE Next
      BY <1>1, <1>3, <2>1, StoreMoves DEF LaneOk
    <2>2. CASE UNCHANGED vars
      <3>1. CallsStay /\ UNCHANGED <<video, chunks, file>>
        BY <2>2 DEF vars, CallsStay
      <3> QED
        BY <1>1, <1>3, <3>1, QuietKinds, QuietSame
    <2> QED
      BY <2>1, <2>2
  <1>5. TypeInv' /\ CallInv' /\ LaneInv' /\ StoreInv'
    BY <1>3, <1>4, TypesMove
  <1>8. InodeMoves
    <2>1. CASE UNCHANGED vars
      BY <1>1, <2>1, InodesSame DEF vars, InodeInv
    <2> QED
      BY <1>2, <2>1, InodesMove
  <1>6. /\ RoomHolds' /\ \A s \in Runs : ReserveOk(s)'
        /\ \A s \in Runs : /\ Grows(s) /\ LaneGoes(s) /\ TookGoes(s)
                           /\ tap'[s] = tap[s] \/ ~ tap[s].over
    <2>1. CASE Next
      BY <1>8, <1>1, <1>2, <1>5, <2>1, RoomMoves, GrowsMove, LanesGo, TapMoves
    <2>2. CASE UNCHANGED vars
      <3>1. CallsStay /\ UNCHANGED <<video, chunks, file, lane, took, tap>>
        BY <2>2 DEF vars, CallsStay
      <3>2. \A s \in Runs : Shape(s)
        BY <1>1, <3>1, HoldStay, StillSame DEF Shape
      <3> QED
        BY <1>8, <1>1, <1>2, <1>5, <3>1, <3>2, ShapesRoom, ShapeGrows, SameGoes
    <2> QED
      BY <2>1, <2>2
  <1>7. ASSUME NEW s \in Runs
        PROVE  LaneOk(s)'
    <2>1. Opening(s) /\ KeptOk(s) /\ LaneOrder(s)
      BY <1>1 DEF LaneOk
    <2>2. Grows(s) /\ LaneGoes(s) /\ TookGoes(s) /\ (tap'[s] = tap[s] \/ ~ tap[s].over) /\ ReserveOk(s)'
      BY <1>6
    <2>3. Opening(s)'
      BY <1>2, <2>1, <2>2, OpeningMoves
    <2>4. KeptOk(s)'
      BY <2>1, <2>2, KeptMoves
    <2>5. LaneOrder(s)'
      BY <1>2, <1>5, <2>1, <2>2, OrderMoves
    <2> QED
      BY <2>2, <2>3, <2>4, <2>5 DEF LaneOk
  <1> QED
    BY <1>8, <1>5, <1>6, <1>7 DEF VideoInv, InodeMoves

\* A sum of nothing is nothing.
LEMMA SumOfZeros ==
  ASSUME NEW S, IsFiniteSet(S), NEW f, \A x \in S : f[x] = 0
  PROVE  SumFunctionOnSet(f, S) = 0
  <1> DEFINE n == SumFunctionOnSet(f, S)
  <1>1. n = n + n
    BY SumAdds
  <1>2. n \in Int
    BY SumType
  <1> HIDE DEF n
  <1>3. n = 0
    BY <1>1, <1>2
  <1> QED
    BY <1>3 DEF n

LEMMA InvInit == Init => VideoInv
  <1> SUFFICES ASSUME Init
      PROVE  VideoInv
    OBVIOUS
  <1>1. MaxSeq \in Nat /\ IsFiniteSet(Runs) /\ NoReq \notin Requests /\ {Cap, Disk, MaxFaults} \subseteq Nat
    BY VideosAssumption
  <1>2. TypeInv
    <2>1. RowTypes
      <3>1. NewRow(FALSE) \in Row
        BY DEF NewRow, NoRow, Row, Final
      <3> QED
        <4>1. row \in [Runs -> Row]
          BY <3>1 DEF Init
        <4>2. open \in [Runs -> SUBSET Sockets]
          BY DEF Init
        <4>3. faults \in 0..MaxFaults
          BY <1>1 DEF Init
        <4> QED
          BY <4>1, <4>2, <4>3 DEF RowTypes
    <2>2. StoreTypes
      <3>1. NoVideo \in VideoRows /\ <<>> \in Seq(Marks) /\ <<>> \in Seq(Requests)
        BY NoVideoParts, EmptySeq
      <3> QED
        BY <3>1 DEF Init, StoreTypes
    <2>3. RunnerTypes
      <3>1. NoTap \in Taps
        BY <1>1 DEF NoTap, Taps
      <3>2. NewLane \in LanesType
        BY <1>1 DEF NewLane, LanesType
      <3> QED
        BY <3>1, <3>2 DEF Init, RunnerTypes
    <2> QED
      BY <2>1, <2>2, <2>3 DEF TypeInv
  <1>3. /\ \A q \in Requests : req[q] = Idle
        /\ \A r \in Runs : queue[r] = <<>> /\ video[r] = NoVideo /\ lane[r] = NewLane /\ tap[r] = NoTap /\ took[r] = {}
                           /\ chunks[r] = <<>> /\ file[r] = NoFile
    BY DEF Init
  <1>4. ~ NoVideo.on /\ NoVideo.reserved = 0 /\ NewLane.pos = 0 /\ NewLane.wait = NoReq /\ NoTap.n = 0 /\ NoTap.over = FALSE
    BY DEF NoVideo, NewLane, NoTap
  <1>5. CallInv
    BY <1>3, IdleIsNone, EmptySeq DEF CallInv, QueueInv, WaitInv
  <1>6. LaneInv
    BY <1>3, <1>4 DEF LaneInv
  <1>7. StoreInv
    BY <1>3, <1>4, IdleIsNone DEF StoreInv, StoreOk, Of, Live
  <1>8. ASSUME NEW s \in Runs
        PROVE  LaneOk(s) /\ ~ Live(s) /\ ~ Held(s)
    BY <1>3, <1>4 DEF LaneOk, LaneOrder, Opening, KeptOk, ReserveOk, Held, Live
  <1>10. InodeInv
    BY DEF Init, InodeInv, Inodes, NoInode
  <1>9. RoomHolds
    <2> DEFINE t == [s \in Runs |-> Takes(s)]  d == [s \in Runs |-> Weighs(s)]
    <2>1. ASSUME NEW s \in Runs
          PROVE  Takes(s) = 0 /\ Weighs(s) = 0
      <3>1. Unwritten(s) = 0
        BY <1>2, <1>5, <1>8, RoomTypes
      <3>2. Cells(file[s]) = 0
        BY <1>3 DEF Cells
      <3>3. inode[s].seen = 0
        BY DEF Init, NoInode
      <3> QED
        BY <1>8, <3>1, <3>2, <3>3 DEF Takes, Weighs, Lies
    <2>2. (\A s \in Runs : t[s] = 0 /\ d[s] = 0) /\ TakesAll = SumFunctionOnSet(t, Runs) /\ WeighsAll = SumFunctionOnSet(d, Runs)
      BY <2>1 DEF TakesAll, WeighsAll
    <2> HIDE DEF t, d
    <2>3. TakesAll = 0 /\ WeighsAll = 0
      BY <1>1, <2>2, SumOfZeros
    <2> QED
      BY <1>1, <1>2, <1>5, <1>10, <2>3, RoomIsNow DEF RoomIs
  <1> QED
    BY <1>2, <1>5, <1>6, <1>7, <1>8, <1>9, <1>10 DEF VideoInv

LEMMA InvHolds == Spec => []VideoInv
  <1>1. VideoInv /\ [Next]_vars => VideoInv'
    BY InvMoves
  <1> QED
    BY <1>1, InvInit, PTL DEF Spec

-----------------------------------------------------------------------------
(* What holds *)

LEMMA InvIsVideosInv == VideoInv => VideosInv
  <1> SUFFICES ASSUME VideoInv
      PROVE  VideosInv
    OBVIOUS
  <1>1. TypeOK /\ RoomHolds
    BY TypesOK DEF VideoInv
  <1>2. ReservedIsInFlight
    BY DEF VideoInv, LaneOk, ReserveOk, Held, ReservedIsInFlight
  <1> QED
    BY <1>1, <1>2 DEF VideosInv

\* The limits hold whatever is interleaved: makeRoom (runVideos.ts:258) reads the sums and
\* reserves in one transaction, a write that fails, is deleted under or dies with the relay gives
\* its reservation back, and none is given back twice (runVideos.ts:156).  So what is committed
\* and reserved stays under the storage cap.  What is on the disk, in files that have lost their
\* names too, and what is still to be written stay above the floor of free disk but for the cells
\* no check can have counted: those a write puts into a file whose run was deleted under it, and
\* those of an evicted video that a player keeps.  For any number of videos, of any length, under
\* any limits, any faults and any players.
THEOREM VideosHold == Spec => []VideosInv
  BY InvHolds, InvIsVideosInv, PTL

\* The index describes the file (runVideos.ts:279): the committed chunks of a video lie end to
\* end from the start of its file, in the order of their numbers, and every cell of each is its
\* own, whatever was cut short, retried, late, or deleted under it.
THEOREM FilesAreWhole == Spec => []BytesAreWhole
  <1>1. VideoInv => BytesAreWhole
    <2> SUFFICES ASSUME VideoInv, NEW r \in Runs, Live(r)
        PROVE  LET c == chunks[r] IN
               /\ LaidOut(c, file[r])
               /\ video[r].bytes = IF c = <<>> THEN 0 ELSE End(c, Len(c))
               /\ video[r].next = IF c = <<>> THEN 0 ELSE c[Len(c)].seq + 1
      BY DEF BytesAreWhole
    <2>1. Stored(r)
      BY DEF VideoInv, StoreInv, StoreOk
    <2> QED
      BY <2>1 DEF Stored, Indexed
  <1> QED
    BY <1>1, InvHolds, PTL

\* A player can decode what is kept, and what the lane was told is kept is kept: after a gap a
\* chunk is let in only at a keyframe (videoLane.ts:13), and the chunk of every 200 that reached
\* the lane is in the index while the video lives, a repeated chunk's too (runVideos.ts:254).
THEOREM VideosPlay == Spec => []PlayableAndKept
  <1>1. VideoInv => PlayableAndKept
    BY DEF VideoInv, StoreInv, StoreOk, Stored, LaneOk, KeptOk, Members, PlayableAndKept
  <1> QED
    BY <1>1, InvHolds, PTL
=============================================================================
