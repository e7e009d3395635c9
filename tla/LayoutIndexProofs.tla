-------------------------- MODULE LayoutIndexProofs -------------------------
(***************************************************************************)
(* What the operations of LayoutIndex do to any index, of any length, over *)
(* any sets of digests and tags. A sound index (one entry per tag, one per *)
(* subject, and a bare entry only where its digest has no other but        *)
(* responses) stays sound, and what a client can ask of it (which digest a *)
(* tag names, which answers for a subject, which are known) changes only   *)
(* as the call says.                                                       *)
(*                                                                         *)
(* Four groups of lemmas: induction, stated for a set of numbers so that   *)
(* it takes no operator, and the folds of the community modules unrolled   *)
(* into the states of a loop; operators on sequences; one lemma per        *)
(* operation; and AddDesc and RmDesc, which are made of them.              *)
(***************************************************************************)
EXTENDS Integers, LayoutIndex, SequenceTheorems, WellFoundedInduction, NaturalsInduction, TLAPS

-----------------------------------------------------------------------------
(* Induction and loops *)

\* A set that holds 0 and the successor of each of its numbers holds every number.
LEMMA Induction ==
  ASSUME NEW S, 0 \in S, \A n \in Nat : n \in S => n + 1 \in S
  PROVE  Nat \subseteq S
<1> DEFINE R == OpToRel(<, Nat)
           T == Nat \ S
<1>1. IsWellFoundedOn(R, Nat)
  BY NatLessThanWellFounded, Zenon
<1> SUFFICES ASSUME T # {} PROVE FALSE
  OBVIOUS
<1>2. PICK x \in T : \A y \in T : ~(<<y, x>> \in R)
  <2> HIDE DEF R
  <2> QED BY <1>1, WFMin, Zenon
<1>3. x \in Nat /\ x # 0
  OBVIOUS
<1>4. x - 1 \in Nat /\ x - 1 \in S
  <2>1. x - 1 \in Nat
    BY <1>3
  <2>2. <<x - 1, x>> \in R
    BY <1>3, <2>1 DEF OpToRel
  <2> QED BY <1>2, <2>1, <2>2
<1> QED BY <1>3, <1>4

\* Max picks the largest member of a set of positions.
LEMMA Top ==
  ASSUME NEW n \in Nat, NEW s \in SUBSET (1..n), s # {}
  PROVE  Max(s) \in s /\ \A y \in s : Max(s) >= y
<1> DEFINE Has(m) == \A t \in SUBSET (1..m) : t # {} => \E x \in t : \A y \in t : x >= y
           S == {m \in Nat : Has(m)}
<1>1. 0 \in S
  <2>1. \A t \in SUBSET (1..0) : t = {}
    OBVIOUS
  <2> QED BY <2>1
<1>2. ASSUME NEW m \in Nat, m \in S PROVE m + 1 \in S
  <2> SUFFICES ASSUME NEW t \in SUBSET (1..(m + 1)), t # {} PROVE \E x \in t : \A y \in t : x >= y
    OBVIOUS
  <2>1. CASE m + 1 \in t
    BY <2>1
  <2>2. CASE m + 1 \notin t
    <3>1. t \in SUBSET (1..m)
      BY <2>2
    <3> QED BY <3>1, <1>2
  <2> QED BY <2>1, <2>2
<1>3. Nat \subseteq S
  <2> HIDE DEF S
  <2> QED BY <1>1, <1>2, Induction
<1>4. \E x \in s : \A y \in s : x >= y
  BY <1>3
<1> QED BY <1>4 DEF Max

\* The largest of 1..n is n, and 1..(n - 1) is what it leaves.
LEMMA TopOfRange ==
  ASSUME NEW n \in Nat \ {0}
  PROVE  Max(1..n) = n /\ (1..n) \ {Max(1..n)} = 1..(n - 1)
<1>1. 1..n \in SUBSET (1..n) /\ 1..n # {} /\ n \in 1..n
  OBVIOUS
<1>2. Max(1..n) \in 1..n /\ \A y \in 1..n : Max(1..n) >= y
  BY <1>1, Top
<1>3. Max(1..n) = n
  BY <1>1, <1>2
<1> QED BY <1>3

\* F tells what a loop over a set of positions in ascending order has computed:
\* base before the first, and G of the last position and what came before it.
Iterates(F, n, base, G) ==
  \A s \in SUBSET (1..n) : F[s] = IF s = {} THEN base ELSE G[<<Max(s), F[s \ {Max(s)}]>>]

\* The same of an H of which nothing is known outside A.
IteratesIn(H, n, A, base, G) ==
  /\ H[{}] = base
  /\ \A s \in SUBSET (1..n) :
       s # {} /\ H[s \ {Max(s)}] \in A => H[s] = G[<<Max(s), H[s \ {Max(s)}]>>]

\* p lists the values of the loop over 1..n, from base to H[1..n].
Traces(p, n, H, base, G) ==
  /\ p[0] = base /\ p[n] = H[1..n]
  /\ \A k \in 1..n : p[k] = G[<<k, p[k - 1]>>]

\* Such an F exists: the CHOOSE in the definition of a fold has something to choose.
LEMMA IterationExists ==
  ASSUME NEW n \in Nat, NEW A, NEW base \in A, NEW G \in [(1..n) \X A -> A]
  PROVE  \E F \in [SUBSET (1..n) -> A] : Iterates(F, n, base, G)
<1> DEFINE Is(F, m) == \A s \in SUBSET (1..m) :
                        F[s] = IF s = {} THEN base ELSE G[<<Max(s), F[s \ {Max(s)}]>>]
           Exists(m) == \E F \in [SUBSET (1..m) -> A] : Is(F, m)
           S == {m \in Nat : m > n \/ Exists(m)}
<1>1. Exists(0)
  <2>1. SUBSET (1..0) = {{}}
    OBVIOUS
  <2> DEFINE F == [s \in SUBSET (1..0) |-> base]
  <2>2. F \in [SUBSET (1..0) -> A]
    OBVIOUS
  <2>3. Is(F, 0)
    BY <2>1
  <2> QED BY <2>2, <2>3
<1>2. ASSUME NEW m \in Nat, m \in S PROVE m + 1 \in S
  <2> SUFFICES ASSUME m + 1 <= n PROVE Exists(m + 1)
    <3> HIDE DEF Exists
    <3> QED OBVIOUS
  <2>0. Exists(m)
    <3> HIDE DEF Exists
    <3> QED BY <1>2
  <2>1. PICK F \in [SUBSET (1..m) -> A] : Is(F, m)
    BY <2>0
  <2> DEFINE E == [s \in SUBSET (1..(m + 1)) |->
                    IF m + 1 \in s THEN G[<<m + 1, F[s \ {m + 1}]>>] ELSE F[s]]
  <2>2. ASSUME NEW s \in SUBSET (1..(m + 1)), m + 1 \in s
        PROVE  s \ {m + 1} \in SUBSET (1..m) /\ Max(s) = m + 1
    <3>1. s \ {m + 1} \in SUBSET (1..m)
      OBVIOUS
    <3>2. Max(s) = m + 1
      <4>1. m + 1 \in Nat /\ s # {}
        BY <2>2
      <4>2. Max(s) \in s /\ \A y \in s : Max(s) >= y
        BY <4>1, Top, Zenon
      <4>3. Max(s) \in 1..(m + 1) /\ Max(s) >= m + 1
        BY <4>2, <2>2
      <4> QED BY <4>3
    <3> QED BY <3>1, <3>2
  <2>3. ASSUME NEW s \in SUBSET (1..(m + 1)), m + 1 \notin s
        PROVE  s \in SUBSET (1..m)
    BY <2>3
  <2>4. E \in [SUBSET (1..(m + 1)) -> A]
    <3> SUFFICES ASSUME NEW s \in SUBSET (1..(m + 1)) PROVE E[s] \in A
      BY Zenon
    <3>1. CASE m + 1 \in s
      <4>1. F[s \ {m + 1}] \in A
        BY <3>1, <2>2
      <4>2. <<m + 1, F[s \ {m + 1}]>> \in (1..n) \X A
        BY <4>1
      <4> QED BY <3>1, <4>2
    <3>2. CASE m + 1 \notin s
      BY <3>2, <2>3
    <3> QED BY <3>1, <3>2
  <2>5. ASSUME NEW s \in SUBSET (1..(m + 1))
        PROVE  E[s] = IF s = {} THEN base ELSE G[<<Max(s), E[s \ {Max(s)}]>>]
    <3>1. CASE m + 1 \in s
      <4>1. s \ {m + 1} \in SUBSET (1..m) /\ Max(s) = m + 1
        BY <3>1, <2>2
      <4>2. E[s \ {Max(s)}] = F[s \ {m + 1}]
        BY <4>1
      <4> QED BY <3>1, <4>1, <4>2
    <3>2. CASE m + 1 \notin s
      <4>1. s \in SUBSET (1..m) /\ s \ {Max(s)} \in SUBSET (1..m)
        BY <3>2, <2>3
      <4>2. E[s] = F[s] /\ E[s \ {Max(s)}] = F[s \ {Max(s)}]
        BY <3>2, <4>1
      <4>3. F[s] = IF s = {} THEN base ELSE G[<<Max(s), F[s \ {Max(s)}]>>]
        BY <2>1, <4>1
      <4> QED BY <4>2, <4>3
    <3> QED BY <3>1, <3>2
  <2>6. Is(E, m + 1)
    <3> HIDE DEF E
    <3> QED BY <2>5
  <2> HIDE DEF E
  <2> QED BY <2>4, <2>6
<1>3. 0 \in S
  BY <1>1
<1>4. Nat \subseteq S
  <2> HIDE DEF S
  <2> QED BY <1>2, <1>3, Induction
<1>5. Exists(n)
  <2> HIDE DEF Exists
  <2> QED BY <1>4
<1> QED BY <1>5 DEF Iterates

\* The loop over 1..n never leaves A, so its values can be listed.
LEMMA IterationTrace ==
  ASSUME NEW n \in Nat, NEW A, NEW base \in A, NEW G \in [(1..n) \X A -> A], NEW H,
         IteratesIn(H, n, A, base, G)
  PROVE  \E p \in [0..n -> A] : Traces(p, n, H, base, G)
<1> USE DEF IteratesIn
<1> DEFINE Good(k) == H[1..k] \in A /\ (k > 0 => H[1..k] = G[<<k, H[1..(k - 1)]>>])
           S == {k \in Nat : k > n \/ Good(k)}
<1>1. 0 \in S
  <2>1. 1..0 = {}
    OBVIOUS
  <2> QED BY <2>1
<1>2. ASSUME NEW k \in Nat, k \in S PROVE k + 1 \in S
  <2> SUFFICES ASSUME k + 1 <= n PROVE Good(k + 1)
    OBVIOUS
  <2>1. H[1..k] \in A
    BY <1>2
  <2>2. Max(1..(k + 1)) = k + 1 /\ (1..(k + 1)) \ {Max(1..(k + 1))} = 1..k
    BY TopOfRange
  <2>3. 1..(k + 1) \in SUBSET (1..n) /\ 1..(k + 1) # {}
    OBVIOUS
  <2>4. H[1..(k + 1)] = G[<<k + 1, H[1..k]>>]
    BY <2>1, <2>2, <2>3
  <2>5. <<k + 1, H[1..k]>> \in (1..n) \X A
    BY <2>1
  <2>6. G[<<k + 1, H[1..k]>>] \in A
    BY <2>5
  <2>7. (k + 1) - 1 = k
    OBVIOUS
  <2> QED BY <2>4, <2>6, <2>7
<1>3. Nat \subseteq S
  <2> HIDE DEF S
  <2> QED BY <1>1, <1>2, Induction
<1>4. \A k \in 0..n : Good(k)
  BY <1>3
<1> DEFINE p == [k \in 0..n |-> H[1..k]]
<1>5. p \in [0..n -> A]
  BY <1>4
<1>6. p[0] = base /\ p[n] = H[1..n]
  <2>1. 1..0 = {}
    OBVIOUS
  <2> QED BY <2>1
<1>7. ASSUME NEW k \in 1..n PROVE p[k] = G[<<k, p[k - 1]>>]
  <2>1. k \in 0..n /\ k - 1 \in 0..n /\ k > 0
    OBVIOUS
  <2>2. p[k] = H[1..k] /\ p[k - 1] = H[1..(k - 1)]
    BY <2>1
  <2> QED BY <1>4, <2>1, <2>2
<1> HIDE DEF p
<1> QED BY <1>5, <1>6, <1>7 DEF Traces

\* p lists what Only(s, S) has kept after each element of s.
OnlySteps(p, s, S) ==
  /\ p[0] = <<>> /\ p[Len(s)] = Only(s, S)
  /\ \A k \in 1..Len(s) : p[k] = IF s[k] \in S THEN Append(p[k - 1], s[k]) ELSE p[k - 1]

\* Only is such a loop: the fold of slices.DeleteFunc, one element at a time.
LEMMA OnlyTrace ==
  ASSUME NEW A, NEW X, NEW s \in Seq(X), NEW S, <<>> \in A,
         \A a \in A, k \in 1..Len(s) : Append(a, s[k]) \in A
  PROVE  \E p \in [0..Len(s) -> A] : OnlySteps(p, s, S)
<1> DEFINE Rest(H, t) == IF s[Max(t)] \in S THEN Append(H[t \ {Max(t)}], s[Max(t)])
                         ELSE H[t \ {Max(t)}]
           Is(H) == H = [t \in SUBSET DOMAIN s |-> IF t = {} THEN <<>> ELSE Rest(H, t)]
           Chosen == CHOOSE H : Is(H)
           G == [x \in (1..Len(s)) \X A |-> IF s[x[1]] \in S THEN Append(x[2], s[x[1]]) ELSE x[2]]
<1>0. Len(s) \in Nat /\ DOMAIN s = 1..Len(s)
  OBVIOUS
<1>1. \A k \in 1..Len(s), a \in A : G[<<k, a>>] = IF s[k] \in S THEN Append(a, s[k]) ELSE a
  OBVIOUS
<1>2. G \in [(1..Len(s)) \X A -> A]
  BY <1>1
<1>3. \A t \in SUBSET (1..Len(s)) : t # {} => Max(t) \in 1..Len(s)
  BY <1>0, Top
<1> HIDE DEF G
<1>4. \E H : Is(H)
  <2>1. PICK F \in [SUBSET (1..Len(s)) -> A] : Iterates(F, Len(s), <<>>, G)
    BY <1>0, <1>2, IterationExists, Zenon
  <2>2. ASSUME NEW t \in SUBSET (1..Len(s)), t # {} PROVE F[t] = Rest(F, t)
    <3>1. F[t \ {Max(t)}] \in A
      OBVIOUS
    <3>2. F[t] = G[<<Max(t), F[t \ {Max(t)}]>>]
      BY <2>1, <2>2 DEF Iterates
    <3> QED BY <1>1, <1>3, <2>2, <3>1, <3>2
  <2>3. F[{}] = <<>>
    BY <2>1 DEF Iterates
  <2>4. F = [t \in SUBSET (1..Len(s)) |-> F[t]]
    OBVIOUS
  <2>5. Is(F)
    BY <1>0, <2>2, <2>3, <2>4
  <2> QED BY <2>5
<1>5. Is(Chosen)
  <2> HIDE DEF Is
  <2> QED BY <1>4
<1>6. Only(s, S) = Chosen[DOMAIN s]
  BY Zenon DEF Only, FoldLeft, MapThenFoldSet
<1> HIDE DEF Chosen
<1>7. IteratesIn(Chosen, Len(s), A, <<>>, G)
  <2>1. Chosen[{}] = <<>>
    BY <1>5
  <2>2. ASSUME NEW t \in SUBSET (1..Len(s)), t # {}, Chosen[t \ {Max(t)}] \in A
        PROVE  Chosen[t] = G[<<Max(t), Chosen[t \ {Max(t)}]>>]
    <3>1. Chosen[t] = Rest(Chosen, t)
      BY <1>0, <1>5, <2>2
    <3> QED BY <1>1, <1>3, <2>2, <3>1
  <2> QED BY <2>1, <2>2 DEF IteratesIn
<1>8. PICK p \in [0..Len(s) -> A] : Traces(p, Len(s), Chosen, <<>>, G)
  BY <1>0, <1>2, <1>7, IterationTrace, Zenon
<1>9. ASSUME NEW k \in 1..Len(s) PROVE p[k] = IF s[k] \in S THEN Append(p[k - 1], s[k]) ELSE p[k - 1]
  <2>1. p[k - 1] \in A
    OBVIOUS
  <2>2. p[k] = G[<<k, p[k - 1]>>]
    BY <1>8 DEF Traces
  <2> QED BY <1>1, <2>1, <2>2
<1>10. p[0] = <<>> /\ p[Len(s)] = Only(s, S)
  BY <1>0, <1>6, <1>8 DEF Traces
<1> QED BY <1>9, <1>10 DEF OnlySteps

\* p lists the index after each member that AddDesc moves.
MoveSteps(p, li, cs) ==
  /\ p[0] = li /\ p[Len(cs)] = FoldLeft(MoveChild, li, cs)
  /\ \A k \in 1..Len(cs) : p[k] = MoveChild(p[k - 1], cs[k])

\* Moving the members of a pushed index is such a loop.
LEMMA MoveTrace ==
  ASSUME NEW A, NEW X, NEW cs \in Seq(X), NEW li \in A,
         \A a \in A, k \in 1..Len(cs) : MoveChild(a, cs[k]) \in A
  PROVE  \E p \in [0..Len(cs) -> A] : MoveSteps(p, li, cs)
<1> DEFINE Rest(H, t) == MoveChild(H[t \ {Max(t)}], cs[Max(t)])
           Is(H) == H = [t \in SUBSET DOMAIN cs |-> IF t = {} THEN li ELSE Rest(H, t)]
           Chosen == CHOOSE H : Is(H)
           G == [x \in (1..Len(cs)) \X A |-> MoveChild(x[2], cs[x[1]])]
<1>0. Len(cs) \in Nat /\ DOMAIN cs = 1..Len(cs)
  OBVIOUS
<1>1. \A k \in 1..Len(cs), a \in A : G[<<k, a>>] = MoveChild(a, cs[k])
  OBVIOUS
<1>2. G \in [(1..Len(cs)) \X A -> A]
  BY <1>1
<1>3. \A t \in SUBSET (1..Len(cs)) : t # {} => Max(t) \in 1..Len(cs)
  BY <1>0, Top
<1> HIDE DEF G
<1>4. \E H : Is(H)
  <2>1. PICK F \in [SUBSET (1..Len(cs)) -> A] : Iterates(F, Len(cs), li, G)
    BY <1>0, <1>2, IterationExists, Zenon
  <2>2. ASSUME NEW t \in SUBSET (1..Len(cs)), t # {} PROVE F[t] = Rest(F, t)
    <3>1. F[t \ {Max(t)}] \in A
      OBVIOUS
    <3>2. F[t] = G[<<Max(t), F[t \ {Max(t)}]>>]
      BY <2>1, <2>2 DEF Iterates
    <3> QED BY <1>1, <1>3, <2>2, <3>1, <3>2
  <2>3. F[{}] = li
    BY <2>1 DEF Iterates
  <2>4. F = [t \in SUBSET (1..Len(cs)) |-> F[t]]
    OBVIOUS
  <2>5. Is(F)
    BY <1>0, <2>2, <2>3, <2>4
  <2> QED BY <2>5
<1>5. Is(Chosen)
  <2> HIDE DEF Is
  <2> QED BY <1>4
<1>6. FoldLeft(MoveChild, li, cs) = Chosen[DOMAIN cs]
  BY Zenon DEF FoldLeft, MapThenFoldSet
<1> HIDE DEF Chosen
<1>7. IteratesIn(Chosen, Len(cs), A, li, G)
  <2>1. Chosen[{}] = li
    BY <1>5
  <2>2. ASSUME NEW t \in SUBSET (1..Len(cs)), t # {}, Chosen[t \ {Max(t)}] \in A
        PROVE  Chosen[t] = G[<<Max(t), Chosen[t \ {Max(t)}]>>]
    <3>1. Chosen[t] = Rest(Chosen, t)
      BY <1>0, <1>5, <2>2
    <3> QED BY <1>1, <1>3, <2>2, <3>1
  <2> QED BY <2>1, <2>2 DEF IteratesIn
<1>8. PICK p \in [0..Len(cs) -> A] : Traces(p, Len(cs), Chosen, li, G)
  BY <1>0, <1>2, <1>7, IterationTrace, Zenon
<1>9. ASSUME NEW k \in 1..Len(cs) PROVE p[k] = MoveChild(p[k - 1], cs[k])
  <2>1. p[k - 1] \in A
    OBVIOUS
  <2>2. p[k] = G[<<k, p[k - 1]>>]
    BY <1>8 DEF Traces
  <2> QED BY <1>1, <2>1, <2>2
<1>10. p[0] = li /\ p[Len(cs)] = FoldLeft(MoveChild, li, cs)
  BY <1>0, <1>6, <1>8 DEF Traces
<1> QED BY <1>9, <1>10 DEF MoveSteps

\* p lists the manifests after each entry that Untag visits, last entry first; the
\* entry visited is always still there.
UntagSteps(p, ms, e) ==
  /\ p[0] = ms /\ p[Len(ms)] = Untag(ms, e)
  /\ \A k \in 1..Len(ms) :
       Len(p[k - 1]) >= Len(ms) + 1 - k /\ p[k] = UntagAt(p[k - 1], Len(ms) + 1 - k, e)

\* Visiting an entry removes at most that entry.
Untags(X, e) ==
  \A s \in Seq(X) : \A i \in 1..Len(s) :
    UntagAt(s, i, e) \in Seq(X) /\ Len(UntagAt(s, i, e)) >= Len(s) - 1

\* H follows the loop of Untag wherever the entry it visits exists.
UntagsFrom(H, n, X, e) ==
  \A t \in SUBSET (1..n) :
    t # {} /\ H[t \ {Max(t)}] \in Seq(X) /\ Len(H[t \ {Max(t)}]) >= n + 1 - Max(t)
      => H[t] = UntagAt(H[t \ {Max(t)}], n + 1 - Max(t), e)

\* After m entries are visited, the others are still there.
LongUpTo(H, n, X, m) == \A t \in SUBSET (1..m) : H[t] \in Seq(X) /\ Len(H[t]) >= n - m

\* The loop of Untag runs from the tail, so a removal does not move the entries still
\* to come: it never indexes beyond the end of the list.
LEMMA UntagInRange ==
  ASSUME NEW X, NEW ms \in Seq(X), NEW e, Untags(X, e), NEW H, H[{}] = ms,
         UntagsFrom(H, Len(ms), X, e)
  PROVE  \A m \in 0..Len(ms) : LongUpTo(H, Len(ms), X, m)
<1> DEFINE n == Len(ms)
           Good == {m \in Nat : m > n \/ LongUpTo(H, n, X, m)}
<1>0. n \in Nat
  OBVIOUS
<1>1. 0 \in Good
  <2>1. \A t \in SUBSET (1..0) : t = {}
    OBVIOUS
  <2>2. H[{}] \in Seq(X) /\ Len(H[{}]) >= n - 0
    BY <1>0
  <2>3. LongUpTo(H, n, X, 0)
    BY <2>1, <2>2 DEF LongUpTo
  <2> QED BY <2>3
<1> HIDE DEF n
<1>2. ASSUME NEW m \in Nat, m \in Good PROVE m + 1 \in Good
  <2> SUFFICES ASSUME m + 1 <= n PROVE LongUpTo(H, n, X, m + 1)
    BY <1>0
  <2> SUFFICES ASSUME NEW t \in SUBSET (1..(m + 1))
               PROVE  H[t] \in Seq(X) /\ Len(H[t]) >= n - (m + 1)
    BY DEF LongUpTo
  <2>1. LongUpTo(H, n, X, m)
    BY <1>0, <1>2
  <2>2. CASE m + 1 \notin t
    <3>1. t \in SUBSET (1..m)
      BY <2>2
    <3>2. H[t] \in Seq(X) /\ Len(H[t]) >= n - m /\ Len(H[t]) \in Nat
      BY <2>1, <3>1 DEF LongUpTo
    <3> QED BY <1>0, <3>2
  <2>3. CASE m + 1 \in t
    <3>1. Max(t) = m + 1
      <4>1. m + 1 \in Nat /\ t # {}
        BY <2>3
      <4>2. Max(t) \in t /\ \A y \in t : Max(t) >= y
        BY <4>1, Top, Zenon
      <4>3. Max(t) \in 1..(m + 1) /\ Max(t) >= m + 1
        BY <2>3, <4>2
      <4> QED BY <4>3
    <3> DEFINE s == H[t \ {m + 1}]
    <3>2. t \ {m + 1} \in SUBSET (1..m) /\ t \in SUBSET (1..n) /\ t # {}
      BY <1>0, <2>3
    <3>3. s \in Seq(X) /\ Len(s) >= n - m /\ Len(s) \in Nat
      BY <2>1, <3>2 DEF LongUpTo
    <3>4. n + 1 - (m + 1) = n - m
      BY <1>0
    <3>5. H[t] = UntagAt(s, n - m, e)
      BY <3>1, <3>2, <3>3, <3>4 DEF UntagsFrom, n
    <3>6. n - m \in 1..Len(s)
      BY <1>0, <3>3
    <3> HIDE DEF s
    <3>7. UntagAt(s, n - m, e) \in Seq(X) /\ Len(UntagAt(s, n - m, e)) >= Len(s) - 1
      BY <3>3, <3>6 DEF Untags
    <3>8. Len(H[t]) \in Nat
      BY <3>5, <3>7
    <3> QED BY <1>0, <3>3, <3>5, <3>7, <3>8
  <2> QED BY <2>2, <2>3
<1>3. Nat \subseteq Good
  <2> HIDE DEF Good
  <2> QED BY <1>1, <1>2, Induction
<1> QED BY <1>0, <1>3 DEF n

\* Untag is such a loop.
LEMMA UntagTrace ==
  ASSUME NEW X, NEW ms \in Seq(X), NEW e, Untags(X, e)
  PROVE  \E p \in [0..Len(ms) -> Seq(X)] : UntagSteps(p, ms, e)
<1> DEFINE n == Len(ms)
           down == Reverse([i \in DOMAIN ms |-> i])
           Rest(H, t) == UntagAt(H[t \ {Max(t)}], down[Max(t)], e)
           Is(H) == H = [t \in SUBSET DOMAIN down |-> IF t = {} THEN ms ELSE Rest(H, t)]
           Chosen == CHOOSE H : Is(H)
           G == [x \in (1..n) \X Seq(X) |->
                  IF down[x[1]] \in 1..Len(x[2]) THEN UntagAt(x[2], down[x[1]], e) ELSE x[2]]
<1>0. /\ n \in Nat /\ DOMAIN down = 1..n
      /\ \A k \in 1..n : down[k] = n + 1 - k /\ down[k] \in 1..n
  <2> DEFINE all == [i \in DOMAIN ms |-> i]
  <2>1. Len(ms) \in Nat /\ DOMAIN ms = 1..Len(ms)
    OBVIOUS
  <2>2. all \in Seq(Nat) /\ Len(all) = Len(ms) /\ \A k \in 1..Len(ms) : all[k] = k
    BY <2>1
  <2>3. down = [k \in 1..Len(ms) |-> all[Len(ms) - k + 1]]
    BY <2>2 DEF Reverse
  <2> HIDE DEF down, all
  <2>4. ASSUME NEW k \in 1..Len(ms)
        PROVE  down[k] = Len(ms) + 1 - k /\ down[k] \in 1..Len(ms)
    <3>1. Len(ms) - k + 1 \in 1..Len(ms) /\ Len(ms) - k + 1 = Len(ms) + 1 - k
      BY <2>1
    <3> QED BY <2>2, <2>3, <3>1
  <2> QED BY <2>1, <2>3, <2>4
<1> HIDE DEF down, n
<1>1. \A k \in 1..n, s \in Seq(X) :
        G[<<k, s>>] = IF down[k] \in 1..Len(s) THEN UntagAt(s, down[k], e) ELSE s
  OBVIOUS
<1>2. G \in [(1..n) \X Seq(X) -> Seq(X)]
  <2>1. ASSUME NEW k \in 1..n, NEW s \in Seq(X) PROVE G[<<k, s>>] \in Seq(X)
    BY <1>1 DEF Untags
  <2> QED BY <2>1
<1>3. \A t \in SUBSET (1..n) : t # {} => Max(t) \in 1..n
  BY <1>0, Top
<1> HIDE DEF G
<1>4. \E H : Is(H)
  <2>1. PICK F \in [SUBSET (1..n) -> Seq(X)] : Iterates(F, n, ms, G)
    BY <1>0, <1>2, IterationExists, Zenon
  <2>2. F[{}] = ms
    BY <2>1 DEF Iterates
  <2>3. ASSUME NEW t \in SUBSET (1..n), t # {}
        PROVE  /\ F[t \ {Max(t)}] \in Seq(X)
               /\ F[t] = IF down[Max(t)] \in 1..Len(F[t \ {Max(t)}]) THEN Rest(F, t) ELSE F[t \ {Max(t)}]
    <3>1. F[t \ {Max(t)}] \in Seq(X)
      OBVIOUS
    <3>2. F[t] = G[<<Max(t), F[t \ {Max(t)}]>>]
      BY <2>1, <2>3 DEF Iterates
    <3> QED BY <1>1, <1>3, <2>3, <3>1, <3>2
  <2>4. UntagsFrom(F, n, X, e)
    <3> SUFFICES ASSUME NEW t \in SUBSET (1..n), t # {},
                        Len(F[t \ {Max(t)}]) >= n + 1 - Max(t)
                 PROVE  F[t] = UntagAt(F[t \ {Max(t)}], n + 1 - Max(t), e)
      BY DEF UntagsFrom
    <3>1. down[Max(t)] = n + 1 - Max(t) /\ Max(t) \in 1..n
      BY <1>0, <1>3
    <3>2. down[Max(t)] \in 1..Len(F[t \ {Max(t)}])
      BY <1>0, <2>3, <3>1
    <3> QED BY <2>3, <3>1, <3>2
  <2>5. \A m \in 0..n : LongUpTo(F, n, X, m)
    BY <2>2, <2>4, UntagInRange DEF n
  <2>6. ASSUME NEW t \in SUBSET (1..n), t # {} PROVE F[t] = Rest(F, t)
    <3>1. Max(t) \in t /\ \A y \in t : Max(t) >= y
      BY <1>0, <2>6, Top
    <3>2. Max(t) \in 1..n /\ t \ {Max(t)} \in SUBSET (1..(Max(t) - 1)) /\ Max(t) - 1 \in 0..n
      <4> DEFINE top == Max(t)
      <4>1. top \in 1..n /\ \A y \in t : top >= y
        BY <3>1
      <4> HIDE DEF top
      <4>2. \A y \in t \ {top} : y \in 1..(top - 1)
        BY <1>0, <4>1
      <4>3. top - 1 \in 0..n
        BY <1>0, <4>1
      <4> QED BY <4>1, <4>2, <4>3 DEF top
    <3>3. Len(F[t \ {Max(t)}]) >= n - (Max(t) - 1)
      BY <2>5, <3>2 DEF LongUpTo
    <3>4. n - (Max(t) - 1) = down[Max(t)] /\ down[Max(t)] \in 1..n
      BY <1>0, <3>2
    <3>5. down[Max(t)] \in 1..Len(F[t \ {Max(t)}])
      BY <1>0, <2>3, <2>6, <3>3, <3>4
    <3> QED BY <2>3, <2>6, <3>5
  <2>7. F = [t \in SUBSET (1..n) |-> F[t]]
    OBVIOUS
  <2>8. Is(F)
    BY <1>0, <2>2, <2>6, <2>7
  <2> QED BY <2>8
<1>5. Is(Chosen)
  <2> HIDE DEF Is
  <2> QED BY <1>4
<1>6. Untag(ms, e) = Chosen[DOMAIN down]
  BY Zenon DEF Untag, FoldLeft, MapThenFoldSet, down
<1> HIDE DEF Chosen
<1>7. Chosen[{}] = ms /\ \A t \in SUBSET (1..n) : t # {} => Chosen[t] = Rest(Chosen, t)
  BY <1>0, <1>5
<1>8. UntagsFrom(Chosen, n, X, e)
  BY <1>0, <1>3, <1>7 DEF UntagsFrom
<1>9. \A m \in 0..n : LongUpTo(Chosen, n, X, m)
  BY <1>7, <1>8, UntagInRange DEF n
<1> DEFINE p == [k \in 0..n |-> Chosen[1..k]]
<1>10. \A k \in 0..n : Chosen[1..k] \in Seq(X) /\ Len(Chosen[1..k]) >= n - k
  BY <1>9 DEF LongUpTo
<1>11. p \in [0..n -> Seq(X)]
  BY <1>10
<1>12. p[0] = ms /\ p[n] = Untag(ms, e)
  <2>1. 1..0 = {}
    OBVIOUS
  <2> QED BY <1>0, <1>6, <1>7, <2>1
<1>13. ASSUME NEW k \in 1..n
       PROVE  Len(p[k - 1]) >= n + 1 - k /\ p[k] = UntagAt(p[k - 1], n + 1 - k, e)
  <2>1. k \in Nat \ {0} /\ k \in 0..n /\ k - 1 \in 0..n /\ n - (k - 1) = n + 1 - k
    BY <1>0
  <2>2. p[k] = Chosen[1..k] /\ p[k - 1] = Chosen[1..(k - 1)]
    BY <2>1
  <2>3. Len(Chosen[1..(k - 1)]) >= n + 1 - k
    BY <1>10, <2>1
  <2>4. Max(1..k) = k /\ (1..k) \ {Max(1..k)} = 1..(k - 1)
    BY <2>1, TopOfRange
  <2>5. 1..k \in SUBSET (1..n) /\ 1..k # {}
    BY <1>0, <2>1
  <2>6. Chosen[1..k] = UntagAt(Chosen[1..(k - 1)], down[k], e)
    BY <1>7, <2>4, <2>5
  <2> QED BY <1>0, <2>2, <2>3, <2>6
<1> HIDE DEF p
<1> QED BY <1>11, <1>12, <1>13 DEF UntagSteps, n

-----------------------------------------------------------------------------
(* Sequences *)

\* Min picks a member of a set of positions: SelectInSeq finds an element it tests for.
LEMMA Bottom ==
  ASSUME NEW n \in Nat, NEW s \in SUBSET (1..n), s # {}
  PROVE  Min(s) \in s
<1> DEFINE flip == {n + 1 - x : x \in s}
<1>1. flip \in SUBSET (1..n) /\ flip # {}
  <2>1. \A x \in s : n + 1 - x \in 1..n
    OBVIOUS
  <2> QED BY <2>1
<1>2. Max(flip) \in flip /\ \A y \in flip : Max(flip) >= y
  BY <1>1, Top
<1>3. PICK m \in s : Max(flip) = n + 1 - m
  BY <1>2
<1>4. ASSUME NEW x \in s PROVE m <= x
  <2>1. n + 1 - x \in flip
    OBVIOUS
  <2>2. n + 1 - m >= n + 1 - x
    BY <1>2, <1>3, <2>1
  <2> QED BY <2>2
<1> QED BY <1>4 DEF Min

\* f tells which element of s each element of r is; no element is taken twice.
Picks(f, r, s) ==
  /\ f \in [1..Len(r) -> 1..Len(s)]
  /\ \A i, j \in 1..Len(r) : f[i] = f[j] => i = j
  /\ \A i \in 1..Len(r) : r[i] = s[f[i]]

\* r is made of elements of s, none taken twice.
PartOf(r, s) == \E f : Picks(f, r, s)

\* The set of a sequence's elements, and where each of them is.
LEMMA Elements ==
  ASSUME NEW X, NEW s \in Seq(X)
  PROVE  /\ ToSet(s) \subseteq X
         /\ \A i \in 1..Len(s) : s[i] \in ToSet(s)
         /\ \A x \in ToSet(s) : \E i \in 1..Len(s) : s[i] = x
         /\ DOMAIN s = 1..Len(s) /\ Len(s) \in Nat
BY DEF ToSet

\* Only keeps the elements in S and no others, and keeps none twice.
LEMMA OnlyIs ==
  ASSUME NEW X, NEW s \in Seq(X), NEW S
  PROVE  /\ Only(s, S) \in Seq(X)
         /\ PartOf(Only(s, S), s)
         /\ ToSet(Only(s, S)) = ToSet(s) \intersect S
<1> DEFINE Is(f, r, k) ==
             /\ f \in [1..Len(r) -> 1..k]
             /\ \A i, j \in 1..Len(r) : f[i] = f[j] => i = j
             /\ \A i \in 1..Len(r) : r[i] = s[f[i]] /\ s[f[i]] \in S
             /\ \A j \in 1..k : s[j] \in S => \E i \in 1..Len(r) : f[i] = j
<1>0. Len(s) \in Nat /\ DOMAIN s = 1..Len(s) /\ \A k \in 1..Len(s) : s[k] \in X
  OBVIOUS
<1>1. PICK p \in [0..Len(s) -> Seq(X)] : OnlySteps(p, s, S)
  <2>1. <<>> \in Seq(X) /\ \A a \in Seq(X), k \in 1..Len(s) : Append(a, s[k]) \in Seq(X)
    BY <1>0
  <2> QED BY <2>1, OnlyTrace, Zenon
<1> DEFINE Done(k) == \E f : Is(f, p[k], k)
           Good == {k \in Nat : k > Len(s) \/ Done(k)}
<1>2. Done(0)
  <2>1. Is(<<>>, <<>>, 0)
    OBVIOUS
  <2>2. p[0] = <<>>
    BY <1>1 DEF OnlySteps
  <2> HIDE DEF Is
  <2> QED BY <2>1, <2>2, Zenon
<1>3. ASSUME NEW k \in Nat, k \in Good PROVE k + 1 \in Good
  <2> SUFFICES ASSUME k + 1 <= Len(s) PROVE Done(k + 1)
    <3> HIDE DEF Done
    <3> QED OBVIOUS
  <2>1. Done(k)
    <3> HIDE DEF Done
    <3> QED BY <1>3
  <2>2. PICK f : Is(f, p[k], k)
    BY <2>1
  <2>3. p[k] \in Seq(X) /\ k + 1 \in 1..Len(s) /\ s[k + 1] \in X /\ (k + 1) - 1 = k
    BY <1>0
  <2>4. CASE s[k + 1] \in S
    <3> DEFINE r == p[k]
               g == [i \in 1..(Len(r) + 1) |-> IF i <= Len(r) THEN f[i] ELSE k + 1]
    <3>1. p[k + 1] = Append(r, s[k + 1])
      BY <1>1, <2>3, <2>4 DEF OnlySteps
    <3>2. r \in Seq(X) /\ Len(r) \in Nat
      BY <2>3
    <3> HIDE DEF r
    <3>3. /\ Len(Append(r, s[k + 1])) = Len(r) + 1
          /\ Append(r, s[k + 1])[Len(r) + 1] = s[k + 1]
          /\ \A i \in 1..Len(r) : Append(r, s[k + 1])[i] = r[i]
      BY <2>3, <3>2
    <3>4. Is(f, r, k)
      BY <2>2 DEF r
    <3>5. Is(g, Append(r, s[k + 1]), k + 1)
      <4>1. g \in [1..(Len(r) + 1) -> 1..(k + 1)]
        BY <3>2, <3>4
      <4>2. ASSUME NEW i \in 1..(Len(r) + 1), NEW j \in 1..(Len(r) + 1), g[i] = g[j] PROVE i = j
        <5>1. ASSUME NEW l \in 1..Len(r)
              PROVE  l \in 1..(Len(r) + 1) /\ g[l] = f[l] /\ g[l] \in 1..k
          <6>1. l \in 1..(Len(r) + 1) /\ l <= Len(r)
            BY <3>2
          <6>2. f[l] \in 1..k
            BY <3>4
          <6> QED BY <6>1, <6>2
        <5>2. g[Len(r) + 1] = k + 1 /\ k + 1 \notin 1..k
          BY <3>2
        <5>3. \A l \in 1..(Len(r) + 1) : l \in 1..Len(r) \/ l = Len(r) + 1
          BY <3>2
        <5> HIDE DEF g
        <5> QED BY <4>2, <5>1, <5>2, <5>3, <3>4
      <4>3. \A i \in 1..(Len(r) + 1) : Append(r, s[k + 1])[i] = s[g[i]] /\ s[g[i]] \in S
        BY <2>4, <3>2, <3>3, <3>4
      <4>4. ASSUME NEW j \in 1..(k + 1), s[j] \in S PROVE \E i \in 1..(Len(r) + 1) : g[i] = j
        <5>1. CASE j = k + 1
          BY <3>2, <5>1
        <5>2. CASE j \in 1..k
          <6>1. PICK i \in 1..Len(r) : f[i] = j
            BY <3>4, <4>4, <5>2
          <6> QED BY <3>2, <6>1
        <5> QED BY <5>1, <5>2
      <4> QED BY <3>3, <4>1, <4>2, <4>3, <4>4
    <3> HIDE DEF g, Is
    <3> QED BY <3>1, <3>5
  <2>5. CASE s[k + 1] \notin S
    <3>1. p[k + 1] = p[k]
      BY <1>1, <2>3, <2>5 DEF OnlySteps
    <3>2. Is(f, p[k], k + 1)
      BY <2>2, <2>5
    <3> HIDE DEF Is
    <3> QED BY <3>1, <3>2, Zenon
  <2> QED BY <2>4, <2>5
<1>4. Nat \subseteq Good
  <2>1. 0 \in Good
    <3> HIDE DEF Done
    <3> QED BY <1>2
  <2> HIDE DEF Good
  <2> QED BY <1>3, <2>1, Induction
<1>5. Done(Len(s))
  <2> HIDE DEF Done
  <2> QED BY <1>0, <1>4
<1> DEFINE r == Only(s, S)
<1>6. PICK f : Is(f, r, Len(s))
  BY <1>1, <1>5 DEF OnlySteps
<1>7. r \in Seq(X)
  BY <1>0, <1>1 DEF OnlySteps
<1> HIDE DEF r
<1>8. PartOf(r, s)
  BY <1>6 DEF PartOf, Picks
<1>9. ToSet(r) = ToSet(s) \intersect S
  <2>1. ASSUME NEW x \in ToSet(r) PROVE x \in ToSet(s) \intersect S
    <3>1. PICK i \in 1..Len(r) : r[i] = x
      BY <1>7, Elements
    <3>2. f[i] \in 1..Len(s) /\ x = s[f[i]] /\ x \in S
      BY <1>6, <3>1
    <3> QED BY <3>2, Elements
  <2>2. ASSUME NEW x \in ToSet(s), x \in S PROVE x \in ToSet(r)
    <3>1. PICK j \in 1..Len(s) : s[j] = x
      BY Elements
    <3>2. PICK i \in 1..Len(r) : f[i] = j
      BY <1>6, <2>2, <3>1
    <3>3. r[i] = x
      BY <1>6, <3>1, <3>2
    <3> QED BY <1>7, <3>3, Elements
  <2> QED BY <2>1, <2>2
<1> QED BY <1>7, <1>8, <1>9 DEF r

\* r is s without the element at p.
Without(r, s, p) ==
  /\ Len(r) = Len(s) - 1
  /\ PartOf(r, s)
  /\ \A x \in ToSet(r) : \E j \in 1..Len(s) : j # p /\ s[j] = x
  /\ \A j \in 1..Len(s) : j # p => s[j] \in ToSet(r)

\* What RemoveAt does.
LEMMA RemoveAtIs ==
  ASSUME NEW X, NEW s \in Seq(X), NEW p \in 1..Len(s)
  PROVE  RemoveAt(s, p) \in Seq(X) /\ Without(RemoveAt(s, p), s, p)
<1> DEFINE before == SubSeq(s, 1, p - 1)
           after == SubSeq(s, p + 1, Len(s))
           r == RemoveAt(s, p)
           At(i) == IF i < p THEN i ELSE i + 1
<1>1. Len(s) \in Nat /\ p \in Nat
  OBVIOUS
<1>2. /\ before \in Seq(X) /\ Len(before) = p - 1
      /\ \A i \in 1..(p - 1) : before[i] = s[i]
  BY <1>1, SubSeqProperties
<1>3. /\ after \in Seq(X) /\ Len(after) = Len(s) - p
      /\ \A i \in 1..(Len(s) - p) : after[i] = s[p + i]
  BY <1>1, SubSeqProperties
<1>4. r = before \o after
  BY DEF RemoveAt
<1> HIDE DEF before, after, r
<1>5. /\ before \o after \in Seq(X)
      /\ Len(before \o after) = Len(before) + Len(after)
      /\ \A i \in 1..(Len(before) + Len(after)) :
           (before \o after)[i] = IF i <= Len(before) THEN before[i] ELSE after[i - Len(before)]
  BY <1>2, <1>3, ConcatProperties
<1>6. Len(before) + Len(after) = Len(s) - 1
  BY <1>1, <1>2, <1>3
<1>7. ASSUME NEW i \in 1..(Len(s) - 1) PROVE r[i] = s[At(i)]
  <2>1. CASE i < p
    BY <1>1, <1>2, <1>4, <1>5, <1>6, <2>1
  <2>2. CASE ~(i < p)
    <3>1. /\ i - (p - 1) \in 1..(Len(s) - p) /\ p + (i - (p - 1)) = i + 1
          /\ ~(i <= Len(before))
      BY <1>1, <1>2, <2>2
    <3>2. (before \o after)[i] = after[i - (p - 1)]
      BY <1>2, <1>5, <1>6, <3>1
    <3>3. after[i - (p - 1)] = s[i + 1]
      BY <1>3, <3>1
    <3> QED BY <1>4, <2>2, <3>2, <3>3
  <2> QED BY <2>1, <2>2
<1>8. r \in Seq(X) /\ Len(r) = Len(s) - 1
  BY <1>4, <1>5, <1>6
<1>9. ASSUME NEW i \in 1..(Len(s) - 1) PROVE At(i) \in 1..Len(s)
  BY <1>1
<1>10. ASSUME NEW i \in 1..(Len(s) - 1), NEW j \in 1..(Len(s) - 1), At(i) = At(j) PROVE i = j
  BY <1>1, <1>10
<1> DEFINE f == [i \in 1..(Len(s) - 1) |-> At(i)]
<1>11. Picks(f, r, s)
  <2>1. f \in [1..(Len(s) - 1) -> 1..Len(s)] /\ \A i \in 1..(Len(s) - 1) : f[i] = At(i)
    BY <1>9
  <2> HIDE DEF f, At
  <2> QED BY <1>7, <1>8, <1>10, <2>1 DEF Picks
<1>12. ASSUME NEW j \in 1..Len(s), j # p PROVE s[j] \in ToSet(r)
  <2> DEFINE k == IF j < p THEN j ELSE j - 1
  <2>1. k \in 1..(Len(s) - 1) /\ At(k) = j
    BY <1>1, <1>12
  <2>2. r[k] = s[j] /\ k \in 1..Len(r)
    BY <1>7, <1>8, <2>1
  <2> QED BY <1>8, <2>2, Elements
<1>13. ASSUME NEW x \in ToSet(r) PROVE \E j \in 1..Len(s) : j # p /\ s[j] = x
  <2>1. PICK k \in 1..(Len(s) - 1) : r[k] = x
    BY <1>8, Elements
  <2>2. At(k) \in 1..Len(s) /\ x = s[At(k)] /\ At(k) # p
    BY <1>1, <1>7, <1>9, <2>1
  <2> HIDE DEF At
  <2> QED BY <2>2
<1>14. PartOf(r, s)
  <2> HIDE DEF f
  <2> QED BY <1>11 DEF PartOf
<1> QED BY <1>8, <1>12, <1>13, <1>14 DEF r, Without

\* What Append does.
LEMMA AppendIs ==
  ASSUME NEW X, NEW s \in Seq(X), NEW x \in X
  PROVE  /\ Append(s, x) \in Seq(X) /\ Len(Append(s, x)) = Len(s) + 1
         /\ \A i \in 1..Len(s) : Append(s, x)[i] = s[i]
         /\ Append(s, x)[Len(s) + 1] = x
         /\ ToSet(Append(s, x)) = ToSet(s) \union {x}
<1> DEFINE r == Append(s, x)
<1>1. /\ r \in Seq(X) /\ Len(r) = Len(s) + 1 /\ Len(s) \in Nat
      /\ \A i \in 1..Len(s) : r[i] = s[i]
      /\ r[Len(s) + 1] = x
  OBVIOUS
<1> HIDE DEF r
<1>2. ASSUME NEW y \in ToSet(r) PROVE y \in ToSet(s) \union {x}
  <2>1. PICK i \in 1..Len(r) : r[i] = y
    BY <1>1, Elements
  <2>2. CASE i = Len(s) + 1
    BY <1>1, <2>1, <2>2
  <2>3. CASE i \in 1..Len(s)
    <3>1. s[i] = y
      BY <1>1, <2>1, <2>3
    <3> QED BY <2>3, <3>1, Elements
  <2> QED BY <1>1, <2>2, <2>3
<1>3. ASSUME NEW y \in ToSet(s) PROVE y \in ToSet(r)
  <2>1. PICK i \in 1..Len(s) : s[i] = y
    BY Elements
  <2>2. i \in 1..Len(r) /\ r[i] = y
    BY <1>1, <2>1
  <2> QED BY <1>1, <2>2, Elements
<1>4. x \in ToSet(r)
  <2>1. Len(s) + 1 \in 1..Len(r)
    BY <1>1
  <2> QED BY <1>1, <2>1, Elements
<1> QED BY <1>1, <1>2, <1>3, <1>4 DEF r

\* r is s with x at p.
Replaces(r, s, p, x) ==
  /\ Len(r) = Len(s)
  /\ \A i \in 1..Len(s) : r[i] = IF i = p THEN x ELSE s[i]
  /\ x \in ToSet(r)
  /\ \A y \in ToSet(r) : y = x \/ \E i \in 1..Len(s) : i # p /\ s[i] = y
  /\ \A y \in ToSet(s) : y = s[p] \/ y \in ToSet(r)

\* What ReplaceAt does.
LEMMA ReplaceAtIs ==
  ASSUME NEW X, NEW s \in Seq(X), NEW p \in 1..Len(s), NEW x \in X
  PROVE  ReplaceAt(s, p, x) \in Seq(X) /\ Replaces(ReplaceAt(s, p, x), s, p, x)
<1> DEFINE r == ReplaceAt(s, p, x)
<1>1. /\ r \in Seq(X) /\ Len(r) = Len(s) /\ Len(s) \in Nat
      /\ \A i \in 1..Len(s) : r[i] = IF i = p THEN x ELSE s[i]
  BY DEF ReplaceAt
<1> HIDE DEF r
<1>2. x \in ToSet(r)
  BY <1>1, Elements
<1>3. ASSUME NEW y \in ToSet(r) PROVE y = x \/ \E i \in 1..Len(s) : i # p /\ s[i] = y
  <2>1. PICK i \in 1..Len(r) : r[i] = y
    BY <1>1, Elements
  <2> QED BY <1>1, <2>1
<1>4. ASSUME NEW y \in ToSet(s) PROVE y = s[p] \/ y \in ToSet(r)
  <2>1. PICK i \in 1..Len(s) : s[i] = y
    BY Elements
  <2>2. CASE i # p
    <3>1. i \in 1..Len(r) /\ r[i] = y
      BY <1>1, <2>1, <2>2
    <3> QED BY <1>1, <3>1, Elements
  <2> QED BY <2>1, <2>2
<1> QED BY <1>1, <1>2, <1>3, <1>4 DEF r, Replaces

-----------------------------------------------------------------------------
(* Indexes *)

\* The entries of index.json over digests D and tags T.
Descriptors(D, T) == [dig: D, tag: T \union {None}, subj: D \union {None}]

\* GetDesc takes the first entry with a tag: there is one.
OneTag(ms) ==
  \A i, j \in 1..Len(ms) : ms[i].tag = ms[j].tag /\ ms[i].tag # None => i = j
\* GetByAnnotation takes the first response of a subject: there is one.
OneResponse(ms) ==
  \A i, j \in 1..Len(ms) : ms[i].subj = ms[j].subj /\ ms[i].subj # None => i = j
\* An entry has a tag or answers for a subject, never both.
OneAnnotation(ms) ==
  \A i \in 1..Len(ms) : ms[i].tag = None \/ ms[i].subj = None
\* A digest with a bare entry has no other but responses: AddDesc reuses the bare entry
\* for a tag, and Untag and RmDesc leave a bare one only where there is no other.
PlainAlone(ms) ==
  \A i, j \in 1..Len(ms) :
    Plain(ms[i]) /\ ms[j].dig = ms[i].dig /\ ms[j].subj = None => i = j

\* What AddDesc and RmDesc keep true of the entries.
Sound(ms) == OneTag(ms) /\ OneResponse(ms) /\ OneAnnotation(ms) /\ PlainAlone(ms)

\* Removing entries keeps the rest sound.
LEMMA PartIsSound ==
  ASSUME NEW r, NEW s, PartOf(r, s), Sound(s)
  PROVE  Sound(r)
<1>1. PICK f : Picks(f, r, s)
  BY DEF PartOf
<1>2. /\ \A i \in 1..Len(r) : f[i] \in 1..Len(s) /\ r[i] = s[f[i]]
      /\ \A i, j \in 1..Len(r) : f[i] = f[j] => i = j
  BY <1>1 DEF Picks
<1>3. OneTag(r)
  <2>1. OneTag(s)
    BY DEF Sound
  <2> QED BY <1>2, <2>1 DEF OneTag
<1>4. OneResponse(r)
  <2>1. OneResponse(s)
    BY DEF Sound
  <2> QED BY <1>2, <2>1 DEF OneResponse
<1>5. OneAnnotation(r)
  <2>1. OneAnnotation(s)
    BY DEF Sound
  <2> QED BY <1>2, <2>1 DEF OneAnnotation
<1>6. PlainAlone(r)
  <2> SUFFICES ASSUME NEW i \in 1..Len(r), NEW j \in 1..Len(r),
                      Plain(r[i]), r[j].dig = r[i].dig, r[j].subj = None
               PROVE  i = j
    BY DEF PlainAlone
  <2>1. f[i] \in 1..Len(s) /\ f[j] \in 1..Len(s) /\ r[i] = s[f[i]] /\ r[j] = s[f[j]]
    BY <1>2
  <2>2. Plain(s[f[i]]) /\ s[f[j]].dig = s[f[i]].dig /\ s[f[j]].subj = None
    BY <2>1
  <2>3. f[i] = f[j]
    <3> HIDE DEF Plain
    <3> QED BY <2>1, <2>2 DEF Sound, PlainAlone
  <2> QED BY <1>2, <2>3
<1> QED BY <1>3, <1>4, <1>5, <1>6 DEF Sound

\* d is the digest of some entry with tag t, or None and there is none.
TagFirst(es, t, d) ==
  \/ d = None /\ \A e \in es : e.tag # t
  \/ \E e \in es : e.tag = t /\ d = e.dig

\* GetDesc of a tag.
LEMMA FirstTagged ==
  ASSUME NEW X, NEW li, li.manifests \in Seq(X), NEW t
  PROVE  TagFirst(ToSet(li.manifests), t, Resolve(li, t))
<1> DEFINE ms == li.manifests
           I == {i \in 1..Len(ms) : ms[i].tag = t}
           i0 == SelectInSeq(ms, LAMBDA e : e.tag = t)
<1>1. Len(ms) \in Nat
  OBVIOUS
<1>2. i0 = IF I # {} THEN Min(I) ELSE 0
  BY Zenon DEF SelectInSeq
<1>3. I # {} => Min(I) \in I
  BY <1>1, Bottom
<1>4. Resolve(li, t) = IF i0 = 0 THEN None ELSE ms[i0].dig
  BY Zenon DEF Resolve
<1> HIDE DEF i0
<1>5. CASE I = {}
  <2>1. Resolve(li, t) = None
    BY <1>2, <1>4, <1>5
  <2>2. \A e \in ToSet(ms) : \E i \in 1..Len(ms) : ms[i] = e
    BY Elements, Zenon
  <2>3. \A e \in ToSet(ms) : e.tag # t
    BY <1>5, <2>2
  <2> QED BY <2>1, <2>3 DEF TagFirst
<1>6. CASE I # {}
  <2>1. i0 \in 1..Len(ms) /\ ms[i0].tag = t /\ i0 # 0
    BY <1>2, <1>3, <1>6
  <2>2. ms[i0] \in ToSet(ms) /\ Resolve(li, t) = ms[i0].dig
    BY <1>4, <2>1, Elements
  <2> QED BY <2>1, <2>2 DEF TagFirst
<1> QED BY <1>5, <1>6

\* d is the digest of some response of subject s, or None and there is none.
ResponseFirst(es, s, d) ==
  \/ d = None /\ \A e \in es : e.subj # s
  \/ \E e \in es : e.subj = s /\ d = e.dig

\* GetByAnnotation of a subject.
LEMMA FirstResponse ==
  ASSUME NEW X, NEW li, li.manifests \in Seq(X), NEW s
  PROVE  ResponseFirst(ToSet(li.manifests), s, Response(li, s))
<1> DEFINE ms == li.manifests
           I == {i \in 1..Len(ms) : ms[i].subj = s}
           i0 == SelectInSeq(ms, LAMBDA e : e.subj = s)
<1>1. Len(ms) \in Nat
  OBVIOUS
<1>2. i0 = IF I # {} THEN Min(I) ELSE 0
  BY Zenon DEF SelectInSeq
<1>3. I # {} => Min(I) \in I
  BY <1>1, Bottom
<1>4. Response(li, s) = IF i0 = 0 THEN None ELSE ms[i0].dig
  BY Zenon DEF Response
<1> HIDE DEF i0
<1>5. CASE I = {}
  <2>1. Response(li, s) = None
    BY <1>2, <1>4, <1>5
  <2>2. \A e \in ToSet(ms) : \E i \in 1..Len(ms) : ms[i] = e
    BY Elements, Zenon
  <2>3. \A e \in ToSet(ms) : e.subj # s
    BY <1>5, <2>2
  <2> QED BY <2>1, <2>3 DEF ResponseFirst
<1>6. CASE I # {}
  <2>1. i0 \in 1..Len(ms) /\ ms[i0].subj = s /\ i0 # 0
    BY <1>2, <1>3, <1>6
  <2>2. ms[i0] \in ToSet(ms) /\ Response(li, s) = ms[i0].dig
    BY <1>4, <2>1, Elements
  <2> QED BY <2>1, <2>2 DEF ResponseFirst
<1> QED BY <1>5, <1>6

\* Tag t names digest d among the entries es; with d = None, it names none.
Names(es, t, d) ==
  IF d = None THEN \A e \in es : e.tag # t ELSE \E e \in es : e.tag = t /\ e.dig = d
\* Subject s has the response d among the entries es; with d = None, it has none.
Answered(es, s, d) ==
  IF d = None THEN \A e \in es : e.subj # s ELSE \E e \in es : e.subj = s /\ e.dig = d

\* In a sound index a tag resolves to the one digest it names, wherever the entry is.
LEMMA ResolveIs ==
  ASSUME NEW D, NEW T, None \notin D, None \notin T, NEW t \in T,
         NEW li, li.manifests \in Seq(Descriptors(D, T)), Sound(li.manifests)
  PROVE  /\ Resolve(li, t) \in D \union {None}
         /\ Names(ToSet(li.manifests), t, Resolve(li, t))
         /\ \A d : Names(ToSet(li.manifests), t, d) => Resolve(li, t) = d
<1> DEFINE ms == li.manifests
<1>1. TagFirst(ToSet(ms), t, Resolve(li, t))
  BY FirstTagged, Zenon
<1>2. \A e \in ToSet(ms) : e.dig \in D
  <2>1. ToSet(ms) \subseteq Descriptors(D, T)
    BY Elements, Zenon
  <2> QED BY <2>1 DEF Descriptors
<1>3. \A e, f \in ToSet(ms) : e.tag = t /\ f.tag = t => e = f
  BY Elements DEF Sound, OneTag
<1> HIDE DEF ms
<1>4. ASSUME NEW d, Names(ToSet(ms), t, d) PROVE Resolve(li, t) = d
  BY <1>1, <1>2, <1>3, <1>4 DEF TagFirst, Names
<1>5. Resolve(li, t) \in D \union {None} /\ Names(ToSet(ms), t, Resolve(li, t))
  BY <1>1, <1>2 DEF TagFirst, Names
<1> QED BY <1>4, <1>5 DEF ms

\* In a sound index a subject has the one response that is listed for it.
LEMMA ResponseIs ==
  ASSUME NEW D, NEW T, None \notin D, None \notin T, NEW s \in D,
         NEW li, li.manifests \in Seq(Descriptors(D, T)), Sound(li.manifests)
  PROVE  /\ Response(li, s) \in D \union {None}
         /\ Answered(ToSet(li.manifests), s, Response(li, s))
         /\ \A d : Answered(ToSet(li.manifests), s, d) => Response(li, s) = d
<1> DEFINE ms == li.manifests
<1>1. ResponseFirst(ToSet(ms), s, Response(li, s))
  BY FirstResponse, Zenon
<1>2. \A e \in ToSet(ms) : e.dig \in D
  <2>1. ToSet(ms) \subseteq Descriptors(D, T)
    BY Elements, Zenon
  <2> QED BY <2>1 DEF Descriptors
<1>3. \A e, f \in ToSet(ms) : e.subj = s /\ f.subj = s => e = f
  BY Elements DEF Sound, OneResponse
<1> HIDE DEF ms
<1>4. ASSUME NEW d, Answered(ToSet(ms), s, d) PROVE Response(li, s) = d
  BY <1>1, <1>2, <1>3, <1>4 DEF ResponseFirst, Answered
<1>5. Response(li, s) \in D \union {None} /\ Answered(ToSet(ms), s, Response(li, s))
  BY <1>1, <1>2 DEF ResponseFirst, Answered
<1> QED BY <1>4, <1>5 DEF ms

-----------------------------------------------------------------------------
(* The operations *)

\* The indexes over digests D and tags T.
Layouts(D, T) == [manifests: Seq(Descriptors(D, T)), children: Seq(D)]

\* r is li with some bare entries of the digests S moved to the child list, and only
\* responses left of a digest that moved.
Moved(r, li, S) ==
  /\ ToSet(r.manifests) \subseteq ToSet(li.manifests)
  /\ ToSet(li.children) \subseteq ToSet(r.children)
  /\ \A e \in ToSet(li.manifests) :
       e \in ToSet(r.manifests) \/ (Plain(e) /\ e.dig \in ToSet(r.children))
  /\ \A d \in ToSet(r.children) :
       \/ d \in ToSet(li.children)
       \/ /\ d \in S
          /\ \E e \in ToSet(li.manifests) : Plain(e) /\ e.dig = d
          /\ \A e \in ToSet(r.manifests) : e.dig = d => e.subj # None

\* A member of a pushed index moves: its bare entry, the only one but for responses.
LEMMA MoveOne ==
  ASSUME NEW D, NEW T, NEW li \in Layouts(D, T), Sound(li.manifests), NEW c \in D
  PROVE  /\ MoveChild(li, c) \in Layouts(D, T)
         /\ Sound(MoveChild(li, c).manifests)
         /\ Moved(MoveChild(li, c), li, {c})
<1> DEFINE ms == li.manifests
           X == Descriptors(D, T)
           I == {i \in 1..Len(ms) : ms[i].dig = c /\ Plain(ms[i])}
           i0 == SelectInSeq(ms, LAMBDA e : e.dig = c /\ Plain(e))
           r == MoveChild(li, c)
<1>1. ms \in Seq(X) /\ Len(ms) \in Nat /\ li.children \in Seq(D)
  BY DEF Layouts
<1>2. i0 = IF I # {} THEN Min(I) ELSE 0
  BY Zenon DEF SelectInSeq
<1>3. I # {} => Min(I) \in I
  BY <1>1, Bottom
<1>4. r = IF i0 = 0 THEN li
          ELSE [manifests |-> RemoveAt(ms, i0), children |-> Append(li.children, c)]
  BY Zenon DEF MoveChild
<1> HIDE DEF i0, r
<1>5. CASE I = {}
  <2>1. r = li
    BY <1>2, <1>4, <1>5
  <2> QED BY <2>1 DEF Moved, r
<1>6. CASE I # {}
  <2>1. i0 \in 1..Len(ms) /\ ms[i0].dig = c /\ Plain(ms[i0]) /\ i0 # 0
    BY <1>2, <1>3, <1>6
  <2> DEFINE rest == RemoveAt(ms, i0)
             kids == Append(li.children, c)
  <2>2. r = [manifests |-> rest, children |-> kids]
    BY <1>4, <2>1
  <2>12. rest \in Seq(X) /\ Without(rest, ms, i0)
    BY <1>1, <2>1, RemoveAtIs, Zenon
  <2>3. /\ rest \in Seq(X)
        /\ PartOf(rest, ms)
        /\ \A x \in ToSet(rest) : \E j \in 1..Len(ms) : j # i0 /\ ms[j] = x
        /\ \A j \in 1..Len(ms) : j # i0 => ms[j] \in ToSet(rest)
    BY <2>12 DEF Without
  <2>4. kids \in Seq(D) /\ ToSet(kids) = ToSet(li.children) \union {c}
    BY <1>1, AppendIs
  <2> HIDE DEF rest, kids
  <2>5. r \in Layouts(D, T) /\ r.manifests = rest /\ r.children = kids
    BY <2>2, <2>3, <2>4 DEF Layouts
  <2>6. Sound(rest)
    BY <2>3, PartIsSound
  <2>7. ToSet(rest) \subseteq ToSet(ms)
    BY <1>1, <2>3, Elements
  <2>8. ASSUME NEW e \in ToSet(ms), e \notin ToSet(rest) PROVE Plain(e) /\ e.dig = c
    <3>1. PICK j \in 1..Len(ms) : ms[j] = e
      BY <1>1, Elements
    <3>2. j = i0
      BY <2>3, <2>8, <3>1
    <3> QED BY <2>1, <3>1, <3>2
  <2>9. ASSUME NEW e \in ToSet(rest), e.dig = c PROVE e.subj # None
    <3>1. PICK j \in 1..Len(ms) : j # i0 /\ ms[j] = e
      BY <2>3
    <3>2. PlainAlone(ms)
      BY DEF Sound
    <3> QED BY <2>1, <2>9, <3>1, <3>2 DEF PlainAlone
  <2>10. ms[i0] \in ToSet(ms)
    BY <1>1, <2>1, Elements
  <2>11. Moved(r, li, {c})
    BY <2>1, <2>4, <2>5, <2>7, <2>8, <2>9, <2>10 DEF Moved
  <2> QED BY <2>5, <2>6, <2>11 DEF r
<1> QED BY <1>5, <1>6

\* Moving some and then others is moving them.
LEMMA MovedOn ==
  ASSUME NEW q, NEW r, NEW li, NEW S, NEW R, R \subseteq S, Moved(r, li, S), Moved(q, r, R)
  PROVE  Moved(q, li, S)
BY DEF Moved

\* All the members of a pushed index move.
LEMMA MovedAll ==
  ASSUME NEW D, NEW T, NEW li \in Layouts(D, T), Sound(li.manifests), NEW cs \in Seq(D)
  PROVE  /\ FoldLeft(MoveChild, li, cs) \in Layouts(D, T)
         /\ Sound(FoldLeft(MoveChild, li, cs).manifests)
         /\ Moved(FoldLeft(MoveChild, li, cs), li, ToSet(cs))
<1> DEFINE A == {a \in Layouts(D, T) : Sound(a.manifests)}
<1>0. Len(cs) \in Nat /\ \A k \in 1..Len(cs) : cs[k] \in D /\ cs[k] \in ToSet(cs)
  BY Elements
<1>1. \A a \in A, k \in 1..Len(cs) :
        MoveChild(a, cs[k]) \in A /\ Moved(MoveChild(a, cs[k]), a, {cs[k]})
  BY <1>0, MoveOne
<1>2. PICK p \in [0..Len(cs) -> A] : MoveSteps(p, li, cs)
  <2>1. li \in A
    OBVIOUS
  <2> HIDE DEF A
  <2> QED BY <1>1, <2>1, MoveTrace, Zenon
<1> HIDE DEF A
<1> DEFINE Good == {k \in Nat : k > Len(cs) \/ Moved(p[k], li, ToSet(cs))}
<1>3. 0 \in Good
  <2>1. Moved(li, li, ToSet(cs))
    BY DEF Moved
  <2> QED BY <1>2, <2>1 DEF MoveSteps
<1>4. ASSUME NEW k \in Nat, k \in Good PROVE k + 1 \in Good
  <2> SUFFICES ASSUME k + 1 <= Len(cs) PROVE Moved(p[k + 1], li, ToSet(cs))
    OBVIOUS
  <2>1. k \in 0..Len(cs) /\ k + 1 \in 1..Len(cs) /\ (k + 1) - 1 = k /\ p[k] \in A
    BY <1>0
  <2>2. p[k + 1] = MoveChild(p[k], cs[k + 1])
    BY <1>2, <2>1 DEF MoveSteps
  <2>3. Moved(p[k + 1], p[k], {cs[k + 1]}) /\ {cs[k + 1]} \subseteq ToSet(cs)
    BY <1>0, <1>1, <2>1, <2>2
  <2>4. Moved(p[k], li, ToSet(cs))
    BY <1>4, <2>1
  <2> QED BY <2>3, <2>4, MovedOn
<1>5. Nat \subseteq Good
  <2> HIDE DEF Good
  <2> QED BY <1>3, <1>4, Induction
<1>6. Moved(p[Len(cs)], li, ToSet(cs)) /\ p[Len(cs)] \in A
  BY <1>0, <1>5
<1>7. p[Len(cs)] = FoldLeft(MoveChild, li, cs)
  BY <1>2 DEF MoveSteps
<1> QED BY <1>6, <1>7 DEF A

\* The entry x keeps the tag of e on another digest.
Bad(x, e) == x.tag = e.tag /\ x.dig # e.dig

\* r is ms with some of the bad entries removed or bare, and every digest still there.
Untagged(r, ms, e) ==
  /\ \A x \in ToSet(r) :
       x \in ToSet(ms) \/ \E y \in ToSet(ms) : Bad(y, e) /\ x = Entry(y.dig, None, None)
  /\ \A x \in ToSet(ms) : Bad(x, e) \/ x \in ToSet(r)
  /\ \A x \in ToSet(ms) : \E y \in ToSet(r) : y.dig = x.dig

\* One entry is visited: if it is bad, the tag is gone from every other digest.
LEMMA UntagOne ==
  ASSUME NEW D, NEW T, NEW ms \in Seq(Descriptors(D, T)), Sound(ms),
         NEW i \in 1..Len(ms), NEW e, e.tag # None
  PROVE  /\ UntagAt(ms, i, e) \in Seq(Descriptors(D, T))
         /\ Len(UntagAt(ms, i, e)) >= Len(ms) - 1
         /\ Sound(UntagAt(ms, i, e))
         /\ Untagged(UntagAt(ms, i, e), ms, e)
         /\ \/ UntagAt(ms, i, e) = ms /\ ~Bad(ms[i], e)
            \/ \A x \in ToSet(UntagAt(ms, i, e)) : ~Bad(x, e)
<1> DEFINE X == Descriptors(D, T)
           r == UntagAt(ms, i, e)
           Other(j) == ms[j].dig = ms[i].dig /\ ms[j].tag # e.tag
<1>1. Len(ms) \in Nat /\ DOMAIN ms = 1..Len(ms) /\ ms[i] \in X /\ ms[i] \in ToSet(ms)
  BY Elements
<1>2. ASSUME NEW x \in ToSet(ms), Bad(x, e), Bad(ms[i], e) PROVE x = ms[i]
  <2>1. PICK j \in 1..Len(ms) : ms[j] = x
    BY Elements
  <2> QED BY <1>2, <2>1 DEF Sound, OneTag, Bad
<1>3. CASE ~Bad(ms[i], e)
  <2>1. r = ms
    BY <1>3 DEF UntagAt, Bad
  <2>2. Len(ms) >= Len(ms) - 1
    BY <1>1
  <2>3. Untagged(ms, ms, e)
    BY DEF Untagged
  <2> QED BY <1>3, <2>1, <2>2, <2>3
<1>4. CASE Bad(ms[i], e) /\ \E j \in 1..Len(ms) : Other(j)
  <2>1. r = RemoveAt(ms, i)
    BY <1>1, <1>4 DEF UntagAt, Bad
  <2>2. r \in Seq(X) /\ Without(r, ms, i)
    BY <2>1, RemoveAtIs
  <2> HIDE DEF r
  <2>3. /\ Len(r) = Len(ms) - 1 /\ PartOf(r, ms)
        /\ \A x \in ToSet(r) : \E j \in 1..Len(ms) : j # i /\ ms[j] = x
        /\ \A j \in 1..Len(ms) : j # i => ms[j] \in ToSet(r)
    BY <2>2 DEF Without
  <2>4. Sound(r)
    BY <2>3, PartIsSound
  <2>5. ASSUME NEW x \in ToSet(r) PROVE x \in ToSet(ms) /\ ~Bad(x, e)
    <3>1. PICK j \in 1..Len(ms) : j # i /\ ms[j] = x
      BY <2>3
    <3> QED BY <1>4, <3>1, Elements DEF Sound, OneTag, Bad
  <2>6. ASSUME NEW x \in ToSet(ms), x # ms[i] PROVE x \in ToSet(r)
    <3>1. PICK j \in 1..Len(ms) : ms[j] = x
      BY Elements
    <3> QED BY <2>3, <2>6, <3>1
  <2>7. \E y \in ToSet(r) : y.dig = ms[i].dig
    <3>1. PICK j \in 1..Len(ms) : Other(j)
      BY <1>4
    <3>2. j # i
      BY <1>4, <3>1 DEF Bad
    <3> QED BY <2>3, <3>1, <3>2
  <2>8. Untagged(r, ms, e)
    BY <1>4, <2>5, <2>6, <2>7 DEF Untagged
  <2>9. Len(r) >= Len(ms) - 1
    BY <1>1, <2>3
  <2> QED BY <2>2, <2>4, <2>5, <2>8, <2>9 DEF r
<1>5. CASE Bad(ms[i], e) /\ ~\E j \in 1..Len(ms) : Other(j)
  <2> DEFINE bare == Entry(ms[i].dig, None, None)
  <2>1. ms[i].subj = None /\ ms[i] \in [dig: D, tag: T \union {None}, subj: D \union {None}]
    BY <1>1, <1>5 DEF Sound, OneAnnotation, Bad, Descriptors
  <2>2. bare \in X /\ bare = [ms[i] EXCEPT !.tag = None]
    BY <2>1 DEF Entry, Descriptors
  <2>3. r = [ms EXCEPT ![i] = bare]
    BY <1>1, <1>5, <2>2 DEF UntagAt, Bad
  <2>4. r = ReplaceAt(ms, i, bare)
    BY <2>3 DEF ReplaceAt
  <2>5. bare.dig = ms[i].dig /\ bare.tag = None /\ bare.subj = None
    BY DEF Entry
  <2> HIDE DEF r, bare
  <2>6. /\ r \in Seq(X) /\ Len(r) = Len(ms)
        /\ \A j \in 1..Len(ms) : r[j] = IF j = i THEN bare ELSE ms[j]
        /\ bare \in ToSet(r)
        /\ \A y \in ToSet(r) : y = bare \/ \E j \in 1..Len(ms) : j # i /\ ms[j] = y
        /\ \A y \in ToSet(ms) : y = ms[i] \/ y \in ToSet(r)
    <3>1. r \in Seq(X) /\ Replaces(r, ms, i, bare)
      BY <2>2, <2>4, ReplaceAtIs
    <3> QED BY <3>1 DEF Replaces
  <2>7. OneTag(r)
    BY <2>5, <2>6 DEF Sound, OneTag
  <2>8. OneResponse(r)
    BY <2>5, <2>6 DEF Sound, OneResponse
  <2>9. OneAnnotation(r)
    BY <2>5, <2>6 DEF Sound, OneAnnotation
  <2>10. PlainAlone(r)
    <3> SUFFICES ASSUME NEW a \in 1..Len(ms), NEW b \in 1..Len(ms),
                        Plain(r[a]), r[b].dig = r[a].dig, r[b].subj = None
                 PROVE  a = b
      BY <2>6 DEF PlainAlone
    <3>1. CASE a = i /\ b # i
      <4>1. ms[b].dig = ms[i].dig /\ r[b] = ms[b]
        BY <2>5, <2>6, <3>1
      <4>2. ms[b].tag = e.tag
        BY <1>5, <4>1
      <4> QED BY <1>5, <3>1, <4>2 DEF Sound, OneTag, Bad
    <3>2. CASE a # i /\ b = i
      <4>1. ms[a].dig = ms[i].dig /\ ms[a].tag = None
        BY <2>5, <2>6, <3>2 DEF Plain
      <4> QED BY <1>5, <4>1
    <3>3. CASE a # i /\ b # i
      BY <2>6, <3>3 DEF Sound, PlainAlone
    <3> QED BY <3>1, <3>2, <3>3
  <2>11. ASSUME NEW x \in ToSet(r) PROVE (x = bare \/ x \in ToSet(ms)) /\ ~Bad(x, e)
    <3>1. CASE x = bare
      BY <2>5, <3>1 DEF Bad
    <3>2. CASE x # bare
      <4>1. PICK j \in 1..Len(ms) : j # i /\ ms[j] = x
        BY <2>6, <3>2
      <4> QED BY <1>5, <4>1, Elements DEF Sound, OneTag, Bad
    <3> QED BY <3>1, <3>2
  <2>12. Untagged(r, ms, e)
    <3>1. \A x \in ToSet(r) :
            x \in ToSet(ms) \/ \E y \in ToSet(ms) : Bad(y, e) /\ x = Entry(y.dig, None, None)
      BY <1>1, <1>5, <2>11 DEF bare
    <3>2. \A x \in ToSet(ms) : Bad(x, e) \/ x \in ToSet(r)
      BY <1>5, <2>6
    <3>3. \A x \in ToSet(ms) : \E y \in ToSet(r) : y.dig = x.dig
      BY <2>5, <2>6
    <3> QED BY <3>1, <3>2, <3>3 DEF Untagged
  <2>13. Len(r) >= Len(ms) - 1
    BY <1>1, <2>6
  <2>14. Sound(r)
    BY <2>7, <2>8, <2>9, <2>10 DEF Sound
  <2> QED BY <2>6, <2>11, <2>12, <2>13, <2>14 DEF r
<1> QED BY <1>3, <1>4, <1>5

\* Untagging some entries and then others is untagging them.
LEMMA UntaggedOn ==
  ASSUME NEW q, NEW r, NEW ms, NEW e, e.tag # None, Untagged(r, ms, e), Untagged(q, r, e)
  PROVE  Untagged(q, ms, e)
<1>1. \A y : ~Bad(Entry(y, None, None), e)
  BY DEF Bad, Entry
<1>2. \A x \in ToSet(q) :
        x \in ToSet(ms) \/ \E y \in ToSet(ms) : Bad(y, e) /\ x = Entry(y.dig, None, None)
  BY <1>1 DEF Untagged
<1>3. \A x \in ToSet(ms) : Bad(x, e) \/ x \in ToSet(q)
  BY DEF Untagged
<1>4. \A x \in ToSet(ms) : \E y \in ToSet(q) : y.dig = x.dig
  BY DEF Untagged
<1> QED BY <1>2, <1>3, <1>4 DEF Untagged

\* A visit keeps the types, and removes at most the entry it visits.
LEMMA UntagFits ==
  ASSUME NEW D, NEW T, NEW e
  PROVE  Untags(Descriptors(D, T), e)
<1> DEFINE X == Descriptors(D, T)
<1> SUFFICES ASSUME NEW s \in Seq(X), NEW i \in 1..Len(s)
             PROVE  UntagAt(s, i, e) \in Seq(X) /\ Len(UntagAt(s, i, e)) >= Len(s) - 1
  BY DEF Untags
<1> DEFINE bare == [s[i] EXCEPT !.tag = None]
<1>1. Len(s) \in Nat /\ s[i] \in X
  OBVIOUS
<1>2. bare \in X
  BY <1>1 DEF Descriptors
<1>3. RemoveAt(s, i) \in Seq(X) /\ Len(RemoveAt(s, i)) = Len(s) - 1
  <2>1. RemoveAt(s, i) \in Seq(X) /\ Without(RemoveAt(s, i), s, i)
    BY RemoveAtIs
  <2> QED BY <2>1 DEF Without
<1>4. [s EXCEPT ![i] = bare] \in Seq(X) /\ Len([s EXCEPT ![i] = bare]) = Len(s)
  BY <1>1, <1>2
<1>5. UntagAt(s, i, e) \in {s, RemoveAt(s, i), [s EXCEPT ![i] = bare]}
  BY DEF UntagAt
<1> HIDE DEF bare
<1> QED BY <1>1, <1>3, <1>4, <1>5

\* Untag takes the tag from every other digest, and loses no digest.
LEMMA UntagIs ==
  ASSUME NEW D, NEW T, NEW ms \in Seq(Descriptors(D, T)), Sound(ms), NEW e, e.tag # None
  PROVE  /\ Untag(ms, e) \in Seq(Descriptors(D, T))
         /\ Sound(Untag(ms, e))
         /\ Untagged(Untag(ms, e), ms, e)
         /\ \A x \in ToSet(Untag(ms, e)) : ~Bad(x, e)
<1> DEFINE X == Descriptors(D, T)
           n == Len(ms)
<1>0. n \in Nat
  OBVIOUS
<1>1. PICK p \in [0..n -> Seq(X)] : UntagSteps(p, ms, e)
  BY UntagFits, UntagTrace, Zenon
<1> DEFINE Done(k) == /\ Sound(p[k]) /\ Untagged(p[k], ms, e)
                      /\ \A j \in 1..Len(p[k]) : Bad(p[k][j], e) => j <= n - k
           Good == {k \in Nat : k > n \/ Done(k)}
<1>2. Done(0)
  <2>1. Untagged(ms, ms, e)
    BY DEF Untagged
  <2> QED BY <1>0, <1>1, <2>1 DEF UntagSteps
<1>3. ASSUME NEW k \in Nat, k \in Good PROVE k + 1 \in Good
  <2> SUFFICES ASSUME k + 1 <= n PROVE Done(k + 1)
    <3> HIDE DEF Done
    <3> QED BY <1>0
  <2>1. Done(k)
    <3> HIDE DEF Done, n
    <3> QED BY <1>0, <1>3
  <2> DEFINE s == p[k]
             i == n - k
             r == UntagAt(s, i, e)
  <2>2. /\ k \in 0..n /\ k + 1 \in 0..n /\ k + 1 \in 1..n /\ i \in Nat \ {0}
        /\ n + 1 - (k + 1) = i /\ (k + 1) - 1 = k
    BY <1>0
  <2>3. s \in Seq(X) /\ Len(s) \in Nat
    BY <2>2
  <2>4. Len(s) >= i /\ p[k + 1] = r
    BY <1>1, <2>2 DEF UntagSteps
  <2>5. i \in 1..Len(s)
    BY <1>0, <2>2, <2>3, <2>4
  <2>6. Sound(s) /\ Untagged(s, ms, e) /\ \A j \in 1..Len(s) : Bad(s[j], e) => j <= i
    BY <2>1
  <2> HIDE DEF s, i, r, Done
  <2>7. /\ r \in Seq(X) /\ Sound(r) /\ Untagged(r, s, e)
        /\ \/ r = s /\ ~Bad(s[i], e)
           \/ \A x \in ToSet(r) : ~Bad(x, e)
    BY <2>3, <2>5, <2>6, UntagOne DEF r
  <2>8. Untagged(r, ms, e)
    BY <2>6, <2>7, UntaggedOn
  <2>9. ASSUME NEW j \in 1..Len(r), Bad(r[j], e) PROVE j <= n - (k + 1)
    <3>1. r[j] \in ToSet(r)
      BY <2>7, Elements
    <3>2. r = s /\ j # i
      BY <2>7, <2>9, <3>1
    <3>3. j <= i /\ j \in Nat
      BY <2>3, <2>6, <2>9, <3>2
    <3> QED BY <1>0, <3>2, <3>3 DEF i
  <2> QED BY <2>4, <2>7, <2>8, <2>9 DEF Done
<1>4. Nat \subseteq Good
  <2>1. 0 \in Good
    <3> HIDE DEF Done
    <3> QED BY <1>2
  <2> HIDE DEF Good
  <2> QED BY <1>3, <2>1, Induction
<1>5. Done(n)
  <2> HIDE DEF Done, n
  <2> QED BY <1>0, <1>4
<1> DEFINE r == Untag(ms, e)
<1>6. r = p[n] /\ r \in Seq(X)
  BY <1>0, <1>1 DEF UntagSteps
<1> HIDE DEF r, n
<1>7. \A x \in ToSet(r) : ~Bad(x, e)
  <2> SUFFICES ASSUME NEW x \in ToSet(r), Bad(x, e) PROVE FALSE
    OBVIOUS
  <2>1. PICK j \in 1..Len(r) : r[j] = x
    BY <1>6, Elements
  <2>2. j <= n - n
    BY <1>5, <1>6, <2>1
  <2> QED BY <1>0, <1>6, <2>1, <2>2
<1> QED BY <1>5, <1>6, <1>7 DEF r

\* r has the digest of e, with its tag if it has one, and lacks at most the bare entry
\* that gained the tag.
Placed(r, ms, e) ==
  /\ ToSet(r) \subseteq ToSet(ms) \union {e}
  /\ \A x \in ToSet(ms) : x \in ToSet(r) \/ x = Entry(e.dig, None, None)
  /\ \E y \in ToSet(r) : y.dig = e.dig
  /\ e.tag # None => e \in ToSet(r)

\* Place adds an entry, or lets a bare one gain the tag, or finds it there.
LEMMA PlaceIs ==
  ASSUME NEW D, NEW T, NEW ms \in Seq(Descriptors(D, T)), Sound(ms),
         NEW e \in Descriptors(D, T), e.subj = None,
         e.tag # None => \A x \in ToSet(ms) : ~Bad(x, e)
  PROVE  /\ Place(ms, e) \in Seq(Descriptors(D, T))
         /\ Sound(Place(ms, e))
         /\ Placed(Place(ms, e), ms, e)
<1> DEFINE X == Descriptors(D, T)
           Fits(x) == x.dig = e.dig /\ (e.tag = None \/ Plain(x) \/ x.tag = e.tag)
           I == {i \in 1..Len(ms) : Fits(ms[i])}
           i0 == SelectInSeq(ms, LAMBDA cur :
                   cur.dig = e.dig /\ (e.tag = None \/ Plain(cur) \/ cur.tag = e.tag))
           r == Place(ms, e)
<1>1. Len(ms) \in Nat /\ \A j \in 1..Len(ms) : ms[j] \in ToSet(ms) /\ ms[j] \in X
  BY Elements
<1>2. i0 = IF I # {} THEN Min(I) ELSE 0
  BY Zenon DEF SelectInSeq
<1>3. I # {} => Min(I) \in I
  BY <1>1, Bottom
<1>4. r = IF i0 = 0 THEN Append(ms, e)
          ELSE IF e.tag # None /\ Plain(ms[i0]) THEN ReplaceAt(ms, i0, e)
          ELSE ms
  BY Zenon DEF Place
<1>5. e = Entry(e.dig, e.tag, None) /\ \A x \in X : x = Entry(x.dig, x.tag, x.subj)
  BY DEF Entry, Descriptors
<1>6. e.tag # None => \A j \in 1..Len(ms) : ms[j].tag = e.tag => ms[j].dig = e.dig /\ ms[j].subj = None
  BY <1>1 DEF Bad, Sound, OneAnnotation
<1> HIDE DEF i0, r
<1>7. CASE I = {}
  <2>1. r = Append(ms, e)
    BY <1>2, <1>4, <1>7
  <2>2. /\ r \in Seq(X) /\ Len(r) = Len(ms) + 1
        /\ \A j \in 1..Len(ms) : r[j] = ms[j]
        /\ r[Len(ms) + 1] = e
        /\ ToSet(r) = ToSet(ms) \union {e}
    BY <2>1, AppendIs
  <2>3. \A j \in 1..Len(r) : j \in 1..Len(ms) \/ j = Len(ms) + 1
    BY <1>1, <2>2
  <2>4. \A j \in 1..Len(ms) : ~Fits(ms[j])
    BY <1>7
  <2>5. OneTag(r)
    BY <1>6, <2>2, <2>3, <2>4 DEF Sound, OneTag
  <2>6. OneResponse(r)
    BY <2>2, <2>3 DEF Sound, OneResponse
  <2>7. OneAnnotation(r)
    BY <2>2, <2>3 DEF Sound, OneAnnotation
  <2>8. PlainAlone(r)
    BY <2>2, <2>3, <2>4 DEF Sound, PlainAlone, Plain
  <2>9. Placed(r, ms, e)
    BY <2>2 DEF Placed
  <2> QED BY <2>2, <2>5, <2>6, <2>7, <2>8, <2>9 DEF Sound, r
<1>8. CASE I # {} /\ e.tag # None /\ Plain(ms[i0])
  <2>1. i0 \in 1..Len(ms) /\ ms[i0].dig = e.dig /\ i0 # 0
    BY <1>2, <1>3, <1>8
  <2>2. r = ReplaceAt(ms, i0, e)
    BY <1>4, <1>8, <2>1
  <2>3. r \in Seq(X) /\ Replaces(r, ms, i0, e)
    BY <2>1, <2>2, ReplaceAtIs
  <2>4. /\ Len(r) = Len(ms)
        /\ \A j \in 1..Len(ms) : r[j] = IF j = i0 THEN e ELSE ms[j]
        /\ e \in ToSet(r)
        /\ \A y \in ToSet(r) : y = e \/ \E j \in 1..Len(ms) : j # i0 /\ ms[j] = y
        /\ \A y \in ToSet(ms) : y = ms[i0] \/ y \in ToSet(r)
    BY <2>3 DEF Replaces
  <2>5. \A j \in 1..Len(ms) : ms[j].dig = e.dig /\ ms[j].subj = None => j = i0
    BY <1>8, <2>1 DEF Sound, PlainAlone
  <2>6. OneTag(r)
    BY <1>6, <2>4, <2>5 DEF Sound, OneTag
  <2>7. OneResponse(r)
    BY <2>4 DEF Sound, OneResponse
  <2>8. OneAnnotation(r)
    BY <2>4 DEF Sound, OneAnnotation
  <2>9. PlainAlone(r)
    BY <1>8, <2>4, <2>5 DEF Sound, PlainAlone, Plain
  <2>10. ms[i0] = Entry(e.dig, None, None)
    BY <1>1, <1>5, <1>8, <2>1 DEF Plain
  <2>11. Placed(r, ms, e)
    BY <1>1, <2>4, <2>10 DEF Placed
  <2> QED BY <2>3, <2>6, <2>7, <2>8, <2>9, <2>11 DEF Sound, r
<1>9. CASE I # {} /\ ~(e.tag # None /\ Plain(ms[i0]))
  <2>1. i0 \in 1..Len(ms) /\ Fits(ms[i0]) /\ i0 # 0
    BY <1>2, <1>3, <1>9
  <2>2. r = ms
    BY <1>4, <1>9, <2>1
  <2>3. e.tag # None => ms[i0] = e
    BY <1>1, <1>5, <1>6, <1>9, <2>1
  <2>4. Placed(r, ms, e)
    BY <1>1, <2>1, <2>2, <2>3 DEF Placed
  <2> QED BY <2>2, <2>4 DEF r
<1> QED BY <1>7, <1>8, <1>9

\* r has e in place of what answered for its subject.
Responded(r, ms, e) ==
  /\ ToSet(r) \subseteq ToSet(ms) \union {e}
  /\ e \in ToSet(r)
  /\ \A x \in ToSet(ms) : x \in ToSet(r) \/ x.subj = e.subj
  /\ \A x \in ToSet(r) : x.subj = e.subj => x = e

\* SetResponse replaces the response of a subject.
LEMMA SetResponseIs ==
  ASSUME NEW D, NEW T, NEW ms \in Seq(Descriptors(D, T)), Sound(ms),
         NEW e \in Descriptors(D, T), e.subj # None, e.tag = None
  PROVE  /\ SetResponse(ms, e) \in Seq(Descriptors(D, T))
         /\ Sound(SetResponse(ms, e))
         /\ Responded(SetResponse(ms, e), ms, e)
<1> DEFINE X == Descriptors(D, T)
           I == {i \in 1..Len(ms) : ms[i].subj = e.subj}
           i0 == SelectInSeq(ms, LAMBDA cur : cur.subj = e.subj)
           r == SetResponse(ms, e)
<1>1. Len(ms) \in Nat /\ \A j \in 1..Len(ms) : ms[j] \in ToSet(ms) /\ ms[j] \in X
  BY Elements
<1>2. i0 = IF I # {} THEN Min(I) ELSE 0
  BY Zenon DEF SelectInSeq
<1>3. I # {} => Min(I) \in I
  BY <1>1, Bottom
<1>4. r = IF i0 = 0 THEN Append(ms, e) ELSE ReplaceAt(ms, i0, e)
  BY Zenon DEF SetResponse
<1> HIDE DEF i0, r
<1>5. CASE I = {}
  <2>1. r = Append(ms, e)
    BY <1>2, <1>4, <1>5
  <2>2. /\ r \in Seq(X) /\ Len(r) = Len(ms) + 1
        /\ \A j \in 1..Len(ms) : r[j] = ms[j]
        /\ r[Len(ms) + 1] = e
        /\ ToSet(r) = ToSet(ms) \union {e}
    BY <2>1, AppendIs
  <2>3. \A j \in 1..Len(r) : j \in 1..Len(ms) \/ j = Len(ms) + 1
    BY <1>1, <2>2
  <2>4. \A j \in 1..Len(ms) : ms[j].subj # e.subj
    BY <1>5
  <2>5. OneTag(r)
    BY <2>2, <2>3 DEF Sound, OneTag
  <2>6. OneResponse(r)
    BY <2>2, <2>3, <2>4 DEF Sound, OneResponse
  <2>7. OneAnnotation(r)
    BY <2>2, <2>3 DEF Sound, OneAnnotation
  <2>8. PlainAlone(r)
    BY <2>2, <2>3 DEF Sound, PlainAlone, Plain
  <2>9. \A x \in ToSet(ms) : x.subj # e.subj
    <3>1. \A x \in ToSet(ms) : \E j \in 1..Len(ms) : ms[j] = x
      BY Elements, Zenon
    <3> QED BY <2>4, <3>1
  <2>10. Responded(r, ms, e)
    BY <2>2, <2>9 DEF Responded
  <2> QED BY <2>2, <2>5, <2>6, <2>7, <2>8, <2>10 DEF Sound, r
<1>6. CASE I # {}
  <2>1. i0 \in 1..Len(ms) /\ ms[i0].subj = e.subj /\ i0 # 0
    BY <1>2, <1>3, <1>6
  <2>2. r = ReplaceAt(ms, i0, e)
    BY <1>4, <2>1
  <2>3. r \in Seq(X) /\ Replaces(r, ms, i0, e)
    BY <2>1, <2>2, ReplaceAtIs
  <2>4. /\ Len(r) = Len(ms)
        /\ \A j \in 1..Len(ms) : r[j] = IF j = i0 THEN e ELSE ms[j]
        /\ e \in ToSet(r)
        /\ \A y \in ToSet(r) : y = e \/ \E j \in 1..Len(ms) : j # i0 /\ ms[j] = y
        /\ \A y \in ToSet(ms) : y = ms[i0] \/ y \in ToSet(r)
    BY <2>3 DEF Replaces
  <2>5. \A j \in 1..Len(ms) : ms[j].subj = e.subj => j = i0
    BY <2>1 DEF Sound, OneResponse
  <2>6. OneTag(r)
    BY <2>4 DEF Sound, OneTag
  <2>7. OneResponse(r)
    BY <2>4, <2>5 DEF Sound, OneResponse
  <2>8. OneAnnotation(r)
    BY <2>4 DEF Sound, OneAnnotation
  <2>9. PlainAlone(r)
    BY <2>4 DEF Sound, PlainAlone, Plain
  <2>10. Responded(r, ms, e)
    BY <1>1, <2>1, <2>4, <2>5 DEF Responded
  <2> QED BY <2>3, <2>6, <2>7, <2>8, <2>9, <2>10 DEF Sound, r
<1> QED BY <1>5, <1>6

-----------------------------------------------------------------------------
(* AddDesc and RmDesc *)

\* The digests of entries.
Digs(es) == {x.dig : x \in es}
\* The digests GetDesc finds.
Knows(li) == Digs(ToSet(li.manifests)) \union ToSet(li.children)
\* No digest is both an entry and a child.
Apart(li) == Digs(ToSet(li.manifests)) \intersect ToSet(li.children) = {}

\* GetDesc finds exactly these.
LEMMA FoundIs ==
  ASSUME NEW D, NEW T, NEW li \in Layouts(D, T), NEW d
  PROVE  Found(li, d) <=> d \in Knows(li)
<1>1. li.manifests \in Seq(Descriptors(D, T)) /\ li.children \in Seq(D)
  BY DEF Layouts
<1>2. \A x \in ToSet(li.manifests) : \E i \in DOMAIN li.manifests : li.manifests[i] = x
  BY DEF ToSet
<1>3. \A i \in DOMAIN li.manifests : li.manifests[i] \in ToSet(li.manifests)
  BY DEF ToSet
<1>4. d \in ToSet(li.children) <=> \E i \in DOMAIN li.children : li.children[i] = d
  BY DEF ToSet
<1> QED BY <1>2, <1>3, <1>4 DEF Found, Knows, Digs

\* A digest leaves the child list, all others stay.
LEMMA OtherChildrenIs ==
  ASSUME NEW D, NEW children \in Seq(D), NEW d
  PROVE  /\ OtherChildren(children, d) \in Seq(D)
         /\ ToSet(OtherChildren(children, d)) = ToSet(children) \ {d}
<1> DEFINE S == ToSet(children) \ {d}
<1>1. Only(children, S) \in Seq(D) /\ ToSet(Only(children, S)) = ToSet(children) \intersect S
  <2> HIDE DEF S
  <2> QED BY OnlyIs
<1> QED BY <1>1 DEF OtherChildren


\* Every tag but t0 names what it named.
TagsStay(ns, es, t0) ==
  \A t, d : t # None /\ t # t0 /\ Names(es, t, d) => Names(ns, t, d)
\* Every subject but s0 has the response it had.
ResponsesStay(ns, es, s0) ==
  \A s, d : s # None /\ s # s0 /\ Answered(es, s, d) => Answered(ns, s, d)

\* None of the digests S is listed as a response.
NotResponses(li, S) == \A x \in ToSet(li.manifests) : x.dig \in S => x.subj = None

\* Moving children changes no tag, no response and no known digest, and keeps entries and
\* children apart if no child is a response.
LEMMA MoveKeeps ==
  ASSUME NEW r, NEW li, NEW S, Moved(r, li, S)
  PROVE  /\ TagsStay(ToSet(r.manifests), ToSet(li.manifests), None)
         /\ ResponsesStay(ToSet(r.manifests), ToSet(li.manifests), None)
         /\ Knows(r) = Knows(li)
         /\ Apart(li) /\ NotResponses(li, S) => Apart(r)
<1>1. TagsStay(ToSet(r.manifests), ToSet(li.manifests), None)
  BY DEF Moved, TagsStay, Names, Plain
<1>2. ResponsesStay(ToSet(r.manifests), ToSet(li.manifests), None)
  BY DEF Moved, ResponsesStay, Answered, Plain
<1>3. Knows(r) = Knows(li)
  BY DEF Moved, Knows, Digs
<1>4. ASSUME Apart(li), NotResponses(li, S) PROVE Apart(r)
  BY <1>4 DEF Moved, Apart, NotResponses, Digs
<1> QED BY <1>1, <1>2, <1>3, <1>4

\* What AddDesc promises: the tag or the subject of e now has its digest, all others have
\* what they had, and a digest is lost only when it was the response that e replaced.
Added(r, li, e) ==
  LET ns == ToSet(r.manifests)
      es == ToSet(li.manifests)
  IN  /\ TagsStay(ns, es, e.tag) /\ ResponsesStay(ns, es, e.subj)
      /\ e.tag # None => Names(ns, e.tag, e.dig)
      /\ e.subj # None => Answered(ns, e.subj, e.dig)
      /\ e.dig \in Knows(r) /\ Knows(r) \subseteq Knows(li) \union {e.dig}
      /\ \A d \in Knows(li) : d \in Knows(r) \/ (e.subj # None /\ Answered(es, e.subj, d))

\* AddDesc keeps the index sound and does what Added says.
LEMMA AddDescIs ==
  ASSUME NEW D, NEW T, None \notin D, None \notin T,
         NEW li \in Layouts(D, T), Sound(li.manifests), NEW members \in Seq(D),
         NEW e \in Descriptors(D, T), e.tag = None \/ e.subj = None
  PROVE  /\ AddDesc(li, e, members) \in Layouts(D, T)
         /\ Sound(AddDesc(li, e, members).manifests)
         /\ Added(AddDesc(li, e, members), li, e)
         /\ Apart(li) /\ NotResponses(li, ToSet(members)) => Apart(AddDesc(li, e, members))
<1> DEFINE X == Descriptors(D, T)
           m == FoldLeft(MoveChild, li, members)
           kids == OtherChildren(m.children, e.dig)
           ns == IF e.subj # None THEN SetResponse(m.manifests, e)
                 ELSE IF e.tag # None THEN Place(Untag(m.manifests, e), e)
                 ELSE Place(m.manifests, e)
           r == AddDesc(li, e, members)
           M == ToSet(m.manifests)
           N == ToSet(ns)
<1>1. r = [children |-> kids, manifests |-> ns]
  BY DEF AddDesc
<1>2. m \in Layouts(D, T) /\ Sound(m.manifests) /\ Moved(m, li, ToSet(members))
  BY MovedAll
<1>3. /\ TagsStay(M, ToSet(li.manifests), None)
      /\ ResponsesStay(M, ToSet(li.manifests), None)
      /\ Knows(m) = Knows(li)
      /\ Apart(li) /\ NotResponses(li, ToSet(members)) => Apart(m)
  BY <1>2, MoveKeeps
<1> HIDE DEF m, r
<1>4. m.manifests \in Seq(X) /\ m.children \in Seq(D) /\ e.dig \in D
  BY <1>2 DEF Layouts, Descriptors
<1>5. kids \in Seq(D) /\ ToSet(kids) = ToSet(m.children) \ {e.dig}
  BY <1>4, OtherChildrenIs
<1> HIDE DEF kids
<1>6. \A x \in M : x \in X /\ (x.tag = None \/ x.subj = None)
  <2>1. M \subseteq X /\ \A x \in M : \E i \in 1..Len(m.manifests) : m.manifests[i] = x
    BY <1>4, Elements, Zenon
  <2> QED BY <1>2, <2>1 DEF Sound, OneAnnotation
<1>7. /\ ns \in Seq(X) /\ Sound(ns)
      /\ TagsStay(N, M, e.tag) /\ ResponsesStay(N, M, e.subj)
      /\ e.tag # None => Names(N, e.tag, e.dig)
      /\ e.subj # None => Answered(N, e.subj, e.dig)
      /\ e.dig \in Digs(N) /\ Digs(N) \subseteq Digs(M) \union {e.dig}
      /\ \A d \in Digs(M) : d \in Digs(N) \/ (e.subj # None /\ Answered(M, e.subj, d))
  <2>1. CASE e.subj # None
    <3>1. ns = SetResponse(m.manifests, e)
      BY <2>1
    <3> HIDE DEF ns, M
    <3>2. ns \in Seq(X) /\ Sound(ns) /\ Responded(ns, m.manifests, e)
      BY <1>2, <1>4, <2>1, <3>1, SetResponseIs
    <3>3. /\ N \subseteq M \union {e} /\ e \in N
          /\ \A x \in M : x \in N \/ x.subj = e.subj
      BY <3>2 DEF Responded, M
    <3>4. TagsStay(N, M, e.tag)
      BY <1>6, <2>1, <3>3 DEF TagsStay, Names
    <3>5. ResponsesStay(N, M, e.subj)
      BY <3>3 DEF ResponsesStay, Answered
    <3>6. Answered(N, e.subj, e.dig)
      BY <1>4, <3>3 DEF Answered
    <3>7. e.dig \in Digs(N) /\ Digs(N) \subseteq Digs(M) \union {e.dig}
      BY <3>3 DEF Digs
    <3>8. ASSUME NEW d \in Digs(M) PROVE d \in Digs(N) \/ Answered(M, e.subj, d)
      <4>1. PICK x \in M : x.dig = d
        BY DEF Digs
      <4>2. d # None
        BY <1>6, <4>1 DEF Descriptors
      <4> QED BY <3>3, <4>1, <4>2 DEF Digs, Answered
    <3> QED BY <2>1, <3>2, <3>4, <3>5, <3>6, <3>7, <3>8
  <2>2. CASE e.subj = None /\ e.tag # None
    <3> DEFINE us == Untag(m.manifests, e)
               U == ToSet(us)
    <3>1. ns = Place(us, e)
      BY <2>2
    <3>2. us \in Seq(X) /\ Sound(us) /\ Untagged(us, m.manifests, e) /\ \A x \in U : ~Bad(x, e)
      BY <1>2, <1>4, <2>2, UntagIs
    <3> HIDE DEF ns, us, M
    <3>3. ns \in Seq(X) /\ Sound(ns) /\ Placed(ns, us, e)
      BY <2>2, <3>1, <3>2, PlaceIs
    <3>4. /\ \A x \in U : x \in M \/ \E y \in M : Bad(y, e) /\ x = Entry(y.dig, None, None)
          /\ \A x \in M : Bad(x, e) \/ x \in U
          /\ \A x \in M : \E y \in U : y.dig = x.dig
      BY <3>2 DEF Untagged, M
    <3>5. /\ N \subseteq U \union {e} /\ e \in N
          /\ \A x \in U : x \in N \/ x = Entry(e.dig, None, None)
      BY <2>2, <3>3 DEF Placed
    <3>6. TagsStay(N, M, e.tag)
      <4> SUFFICES ASSUME NEW t, NEW d, t # None, t # e.tag, Names(M, t, d) PROVE Names(N, t, d)
        BY DEF TagsStay
      <4>1. CASE d = None
        <5> SUFFICES ASSUME NEW x \in N, x.tag = t PROVE FALSE
          BY <4>1 DEF Names
        <5>1. x \in U
          BY <3>5
        <5> QED BY <3>4, <4>1, <5>1 DEF Names, Entry
      <4>2. CASE d # None
        <5>1. PICK x \in M : x.tag = t /\ x.dig = d
          BY <4>2 DEF Names
        <5>2. x \in U
          BY <3>4, <5>1 DEF Bad
        <5>3. x \in N
          BY <3>5, <5>1, <5>2 DEF Entry
        <5> QED BY <4>2, <5>1, <5>3 DEF Names
      <4> QED BY <4>1, <4>2
    <3>7. ResponsesStay(N, M, e.subj)
      <4> SUFFICES ASSUME NEW s, NEW d, s # None, Answered(M, s, d) PROVE Answered(N, s, d)
        BY DEF ResponsesStay
      <4>1. CASE d = None
        <5> SUFFICES ASSUME NEW x \in N, x.subj = s PROVE FALSE
          BY <4>1 DEF Answered
        <5>1. x \in U
          BY <2>2, <3>5
        <5> QED BY <3>4, <4>1, <5>1 DEF Answered, Entry
      <4>2. CASE d # None
        <5>1. PICK x \in M : x.subj = s /\ x.dig = d
          BY <4>2 DEF Answered
        <5>2. x \in U
          BY <1>6, <2>2, <3>4, <5>1 DEF Bad, M
        <5>3. x \in N
          BY <3>5, <5>1, <5>2 DEF Entry
        <5> QED BY <4>2, <5>1, <5>3 DEF Answered
      <4> QED BY <4>1, <4>2
    <3>8. Names(N, e.tag, e.dig)
      BY <1>4, <3>5 DEF Names
    <3>9. e.dig \in Digs(N) /\ Digs(N) \subseteq Digs(M) \union {e.dig}
      <4>1. \A x \in U : \E y \in M : y.dig = x.dig
        BY <3>4 DEF Entry
      <4> QED BY <3>5, <4>1 DEF Digs
    <3>10. \A d \in Digs(M) : d \in Digs(N)
      <4>1. \A x \in U : x \in N \/ x.dig = e.dig
        BY <3>5 DEF Entry
      <4> QED BY <3>4, <3>5, <4>1 DEF Digs
    <3> QED BY <2>2, <3>3, <3>6, <3>7, <3>8, <3>9, <3>10
  <2>3. CASE e.subj = None /\ e.tag = None
    <3>1. ns = Place(m.manifests, e)
      BY <2>3
    <3> HIDE DEF ns, M
    <3>2. ns \in Seq(X) /\ Sound(ns) /\ Placed(ns, m.manifests, e)
      BY <1>2, <1>4, <2>3, <3>1, PlaceIs
    <3>3. /\ N \subseteq M \union {e}
          /\ \A x \in M : x \in N \/ x = Entry(e.dig, None, None)
          /\ \E y \in N : y.dig = e.dig
      BY <3>2 DEF Placed, M
    <3>4. TagsStay(N, M, e.tag)
      BY <2>3, <3>3 DEF TagsStay, Names, Entry
    <3>5. ResponsesStay(N, M, e.subj)
      BY <2>3, <3>3 DEF ResponsesStay, Answered, Entry
    <3>6. e.dig \in Digs(N) /\ Digs(N) \subseteq Digs(M) \union {e.dig}
      BY <3>3 DEF Digs
    <3>7. \A d \in Digs(M) : d \in Digs(N)
      <4>1. \A x \in M : x \in N \/ x.dig = e.dig
        BY <3>3 DEF Entry
      <4> QED BY <3>3, <4>1 DEF Digs
    <3> QED BY <2>3, <3>2, <3>4, <3>5, <3>6, <3>7
  <2> QED BY <2>1, <2>2, <2>3
<1> HIDE DEF ns
<1>8. r \in Layouts(D, T) /\ r.manifests = ns /\ r.children = kids
  BY <1>1, <1>5, <1>7 DEF Layouts
<1>9. TagsStay(N, ToSet(li.manifests), e.tag)
  BY <1>3, <1>7 DEF TagsStay
<1>10. ResponsesStay(N, ToSet(li.manifests), e.subj)
  BY <1>3, <1>7 DEF ResponsesStay
<1>11. e.dig \in Knows(r) /\ Knows(r) \subseteq Knows(m) \union {e.dig}
  BY <1>5, <1>7, <1>8 DEF Knows
<1>12. ASSUME NEW d \in Knows(m)
       PROVE  d \in Knows(r) \/ (e.subj # None /\ Answered(M, e.subj, d))
  BY <1>5, <1>7, <1>8 DEF Knows
<1>13. ASSUME NEW d, d # None, Answered(M, e.subj, d)
       PROVE  Answered(ToSet(li.manifests), e.subj, d)
  BY <1>2, <1>13 DEF Moved, Answered
<1>14. \A d \in Knows(m) : d # None
  <2>1. ToSet(m.children) \subseteq D
    BY <1>4, Elements
  <2> QED BY <1>6, <2>1 DEF Knows, Digs, Descriptors
<1>15. Added(r, li, e)
  <2> HIDE DEF M, N
  <2>1. \A d \in Knows(li) : d \in Knows(r) \/ (e.subj # None /\ Answered(ToSet(li.manifests), e.subj, d))
    BY <1>3, <1>12, <1>13, <1>14
  <2> QED BY <1>3, <1>7, <1>8, <1>9, <1>10, <1>11, <2>1 DEF Added, N
<1>16. Apart(m) => Apart(r)
  BY <1>5, <1>7, <1>8 DEF Apart
<1> QED BY <1>3, <1>7, <1>8, <1>15, <1>16 DEF r

\* What x becomes when the digest d is removed.
AfterRemoval(x, d) == IF x = d THEN None ELSE x

\* What removing a tag promises: the tag goes if it was on that digest, nothing else
\* changes, and the digest stays known.
TagRemoved(r, li, e) ==
  LET ns == ToSet(r.manifests)
      es == ToSet(li.manifests)
  IN  /\ TagsStay(ns, es, e.tag) /\ ResponsesStay(ns, es, None)
      /\ \A d : Names(es, e.tag, d) => Names(ns, e.tag, AfterRemoval(d, e.dig))
      /\ Knows(r) = Knows(li)

\* RmDesc of a tagged descriptor keeps the index sound and does what TagRemoved says.
LEMMA RmTagIs ==
  ASSUME NEW D, NEW T, None \notin D, None \notin T,
         NEW li \in Layouts(D, T), Sound(li.manifests), NEW e, e.tag # None, e.dig \in D
  PROVE  /\ RmTag(li, e) \in Layouts(D, T)
         /\ Sound(RmTag(li, e).manifests)
         /\ TagRemoved(RmTag(li, e), li, e)
         /\ Apart(li) => Apart(RmTag(li, e))
<1> DEFINE X == Descriptors(D, T)
           ms == li.manifests
           r == RmTag(li, e)
           ns == r.manifests
           M == ToSet(ms)
           N == ToSet(ns)
           At(x) == x.dig = e.dig /\ x.tag = e.tag
           rest == {x \in M : ~At(x)}
           I == {i \in 1..Len(ms) : ms[i].dig = e.dig /\ ms[i].tag = e.tag}
           i0 == SelectInSeq(ms, LAMBDA cur : cur.dig = e.dig /\ cur.tag = e.tag)
           Shared == \E j \in DOMAIN ms : ms[j].dig = e.dig /\ ms[j].tag # e.tag
<1>1. ms \in Seq(X) /\ Len(ms) \in Nat /\ DOMAIN ms = 1..Len(ms) /\ li.children \in Seq(D)
  BY DEF Layouts
<1>2. i0 = IF I # {} THEN Min(I) ELSE 0
  BY Zenon DEF SelectInSeq
<1>3. I # {} => Min(I) \in I
  BY <1>1, Bottom
<1>4. r = IF Shared THEN [li EXCEPT !.manifests = Only(ms, rest)]
          ELSE IF i0 = 0 THEN li
          ELSE [li EXCEPT !.manifests[i0].tag = None]
  BY Zenon DEF RmTag
<1>5. \A x, y \in M : x.tag = y.tag /\ x.tag # None => x = y
  BY <1>1, Elements DEF Sound, OneTag
<1>6. \A x \in M : x \in X /\ (x.tag = None \/ x.subj = None)
  <2>1. M \subseteq X /\ \A x \in M : \E i \in 1..Len(ms) : ms[i] = x
    BY <1>1, Elements, Zenon
  <2> QED BY <2>1 DEF Sound, OneAnnotation
<1>7. \A i \in 1..Len(ms) : ms[i] \in M
  BY <1>1, Elements
<1> HIDE DEF i0, r
<1>8. SUFFICES /\ ns \in Seq(X) /\ Sound(ns) /\ r = [manifests |-> ns, children |-> li.children]
               /\ \A x \in N : x \in M \/ (x.dig = e.dig /\ x.tag = None /\ x.subj = None)
               /\ \A x \in M : x \in N \/ At(x)
               /\ \A x \in N : ~At(x)
               /\ Digs(N) = Digs(M)
  <2> HIDE DEF ns, M, N
  <2>1. r \in Layouts(D, T) /\ r.manifests = ns /\ r.children = li.children
    BY <1>1, <1>8 DEF Layouts
  <2>2. TagsStay(N, M, e.tag)
    BY <1>8 DEF TagsStay, Names
  <2>3. ResponsesStay(N, M, None)
    BY <1>6, <1>8 DEF ResponsesStay, Answered
  <2>4. ASSUME NEW d, Names(M, e.tag, d) PROVE Names(N, e.tag, AfterRemoval(d, e.dig))
    <3>1. CASE d = None
      BY <1>8, <2>4, <3>1 DEF Names, AfterRemoval
    <3>2. CASE d = e.dig
      <4>1. \A x \in M : x.tag = e.tag => x.dig = d
        BY <1>5, <2>4, <3>2 DEF Names
      <4> QED BY <1>8, <3>2, <4>1 DEF Names, AfterRemoval
    <3>3. CASE d # None /\ d # e.dig
      BY <1>8, <2>4, <3>3 DEF Names, AfterRemoval
    <3> QED BY <3>1, <3>2, <3>3
  <2>5. Knows(r) = Knows(li)
    BY <1>8, <2>1 DEF Knows, M, N, ms
  <2>6. TagRemoved(r, li, e)
    BY <2>2, <2>3, <2>4, <2>5 DEF TagRemoved, M, N, ns, ms
  <2>7. Apart(li) => Apart(r)
    BY <1>8, <2>1 DEF Apart, M, N, ms
  <2> QED BY <1>8, <2>1, <2>6, <2>7 DEF r, ns
<1>9. CASE Shared
  <2> DEFINE q == Only(ms, rest)
  <2>1. q \in Seq(X) /\ PartOf(q, ms) /\ ToSet(q) = M \intersect rest
    <3> HIDE DEF rest
    <3> QED BY <1>1, OnlyIs
  <2>2. r = [li EXCEPT !.manifests = q]
    BY <1>4, <1>9
  <2> HIDE DEF q
  <2>3. r = [manifests |-> q, children |-> li.children] /\ ns = q
    BY <2>2 DEF Layouts
  <2>4. Sound(ns)
    BY <2>1, <2>3, PartIsSound
  <2>5. N = {x \in M : ~At(x)}
    BY <2>1, <2>3
  <2>6. PICK j \in 1..Len(ms) : ms[j].dig = e.dig /\ ms[j].tag # e.tag
    BY <1>1, <1>9
  <2>7. ms[j] \in N
    BY <1>7, <2>5, <2>6
  <2>8. Digs(N) = Digs(M)
    BY <2>5, <2>6, <2>7 DEF Digs
  <2> QED BY <2>1, <2>3, <2>4, <2>5, <2>8
<1>10. CASE ~Shared /\ I = {}
  <2>1. r = li
    BY <1>2, <1>4, <1>10
  <2>2. r = [manifests |-> ns, children |-> li.children]
    BY <2>1 DEF Layouts
  <2>3. \A x \in M : \E i \in 1..Len(ms) : ms[i] = x
    BY <1>1, Elements, Zenon
  <2>4. \A x \in M : ~At(x)
    BY <1>10, <2>3
  <2> QED BY <1>1, <2>1, <2>2, <2>4
<1>11. CASE ~Shared /\ I # {}
  <2>1. i0 \in 1..Len(ms) /\ At(ms[i0]) /\ i0 # 0
    BY <1>2, <1>3, <1>11
  <2> DEFINE bare == Entry(e.dig, None, None)
             q == ReplaceAt(ms, i0, bare)
  <2>2. ms[i0] \in [dig: D, tag: T \union {None}, subj: D \union {None}] /\ ms[i0].subj = None
    BY <1>6, <1>7, <2>1 DEF Descriptors
  <2>3. bare \in X /\ bare = [ms[i0] EXCEPT !.tag = None]
    BY <2>1, <2>2 DEF Entry, Descriptors
  <2>4. r = [li EXCEPT !.manifests[i0].tag = None]
    BY <1>4, <1>11, <2>1
  <2>5. r = [li EXCEPT !.manifests = [ms EXCEPT ![i0] = bare]]
    BY <2>3, <2>4
  <2>6. bare.dig = e.dig /\ bare.tag = None /\ bare.subj = None
    BY DEF Entry
  <2> HIDE DEF bare
  <2>7. q \in Seq(X) /\ Replaces(q, ms, i0, bare)
    BY <1>1, <2>1, <2>3, ReplaceAtIs
  <2>8. r = [manifests |-> q, children |-> li.children]
    BY <2>5 DEF Layouts, ReplaceAt
  <2> HIDE DEF q
  <2>9. ns = q
    BY <2>8
  <2>10. /\ Len(q) = Len(ms)
         /\ \A j \in 1..Len(ms) : q[j] = IF j = i0 THEN bare ELSE ms[j]
         /\ bare \in ToSet(q)
         /\ \A y \in ToSet(q) : y = bare \/ \E j \in 1..Len(ms) : j # i0 /\ ms[j] = y
         /\ \A y \in M : y = ms[i0] \/ y \in ToSet(q)
    BY <2>7 DEF Replaces
  <2>11. \A j \in 1..Len(ms) : ms[j].dig = e.dig => j = i0
    BY <1>1, <1>11, <2>1 DEF Sound, OneTag
  <2>12. OneTag(q)
    BY <2>6, <2>10 DEF Sound, OneTag
  <2>13. OneResponse(q)
    BY <2>6, <2>10 DEF Sound, OneResponse
  <2>14. OneAnnotation(q)
    BY <2>6, <2>10 DEF Sound, OneAnnotation
  <2>15. PlainAlone(q)
    BY <2>6, <2>10, <2>11 DEF Sound, PlainAlone, Plain
  <2>16. Sound(q)
    BY <2>12, <2>13, <2>14, <2>15 DEF Sound
  <2>17. \A x \in ToSet(q) : (x \in M \/ x = bare) /\ ~At(x)
    BY <1>7, <2>6, <2>10, <2>11
  <2>18. Digs(ToSet(q)) = Digs(M)
    <3>1. ms[i0] \in M
      BY <1>7, <2>1
    <3> QED BY <2>1, <2>6, <2>10, <2>17, <3>1 DEF Digs
  <2> QED BY <2>1, <2>6, <2>7, <2>8, <2>9, <2>10, <2>16, <2>17, <2>18
<1> QED BY <1>9, <1>10, <1>11

\* What removing a digest promises: it goes, with its tags and its responses.
DigestRemoved(r, li, d) ==
  LET ns == ToSet(r.manifests)
      es == ToSet(li.manifests)
  IN  /\ \A t, x : t # None /\ Names(es, t, x) => Names(ns, t, AfterRemoval(x, d))
      /\ \A s, x : s # None /\ Answered(es, s, x) => Answered(ns, s, AfterRemoval(x, d))
      /\ Knows(r) = Knows(li) \ {d}

\* RmDesc of a bare descriptor keeps the index sound and does what DigestRemoved says.
LEMMA RmDigestIs ==
  ASSUME NEW D, NEW T, None \notin D, None \notin T,
         NEW li \in Layouts(D, T), Sound(li.manifests), NEW d \in D
  PROVE  /\ RmDigest(li, d) \in Layouts(D, T)
         /\ Sound(RmDigest(li, d).manifests)
         /\ DigestRemoved(RmDigest(li, d), li, d)
         /\ Apart(li) => Apart(RmDigest(li, d))
<1> DEFINE X == Descriptors(D, T)
           ms == li.manifests
           M == ToSet(ms)
           rest == {x \in M : x.dig # d}
           ns == Only(ms, rest)
           N == ToSet(ns)
           kids == OtherChildren(li.children, d)
           r == RmDigest(li, d)
<1>1. ms \in Seq(X) /\ li.children \in Seq(D)
  BY DEF Layouts
<1>2. r = [manifests |-> ns, children |-> kids]
  BY DEF RmDigest
<1>3. kids \in Seq(D) /\ ToSet(kids) = ToSet(li.children) \ {d}
  BY <1>1, OtherChildrenIs
<1>4. ns \in Seq(X) /\ PartOf(ns, ms) /\ N = M \intersect rest
  <2> HIDE DEF rest
  <2> QED BY <1>1, OnlyIs
<1>5. \A x, y \in M : x.tag = y.tag /\ x.tag # None => x = y
  BY <1>1, Elements DEF Sound, OneTag
<1>6. \A x, y \in M : x.subj = y.subj /\ x.subj # None => x = y
  BY <1>1, Elements DEF Sound, OneResponse
<1> HIDE DEF r, ns, kids
<1>7. r \in Layouts(D, T) /\ r.manifests = ns /\ r.children = kids
  BY <1>2, <1>3, <1>4 DEF Layouts
<1>8. Sound(ns)
  BY <1>4, PartIsSound
<1>9. N = {x \in M : x.dig # d}
  BY <1>4
<1> HIDE DEF M, N
<1>10. ASSUME NEW t, NEW x, t # None, Names(M, t, x) PROVE Names(N, t, AfterRemoval(x, d))
  <2>1. CASE x = None
    BY <1>9, <1>10, <2>1 DEF Names, AfterRemoval
  <2>2. CASE x # None
    <3>1. \A y \in M : y.tag = t => y.dig = x
      BY <1>5, <1>10, <2>2 DEF Names
    <3> QED BY <1>9, <1>10, <2>2, <3>1 DEF Names, AfterRemoval
  <2> QED BY <2>1, <2>2
<1>11. ASSUME NEW s, NEW x, s # None, Answered(M, s, x) PROVE Answered(N, s, AfterRemoval(x, d))
  <2>1. CASE x = None
    BY <1>9, <1>11, <2>1 DEF Answered, AfterRemoval
  <2>2. CASE x # None
    <3>1. \A y \in M : y.subj = s => y.dig = x
      BY <1>6, <1>11, <2>2 DEF Answered
    <3> QED BY <1>9, <1>11, <2>2, <3>1 DEF Answered, AfterRemoval
  <2> QED BY <2>1, <2>2
<1>12. Knows(r) = Knows(li) \ {d}
  BY <1>3, <1>7, <1>9 DEF Knows, Digs, M, N
<1>13. DigestRemoved(r, li, d)
  BY <1>7, <1>10, <1>11, <1>12 DEF DigestRemoved, M, N
<1>14. Apart(li) => Apart(r)
  BY <1>3, <1>7, <1>9 DEF Apart, Digs, M, N
<1> QED BY <1>7, <1>8, <1>13, <1>14 DEF r

\* h records deletions, and of exactly the tags that removing e takes away.
Forgets(h, es, e) ==
  /\ \A i \in 1..Len(h) : h[i].deleted
  /\ \A t : (\E i \in 1..Len(h) : h[i].tag = t)
              <=> \E x \in es : x.tag = t /\ t # None /\ x.dig = e.dig /\ e.tag \in {None, t}

\* The history records every tag a removal takes away, and no other.
LEMMA RmHistoryIs ==
  ASSUME NEW D, NEW T, NEW li \in Layouts(D, T), NEW e
  PROVE  Len(RmHistory(li, e)) \in Nat /\ Forgets(RmHistory(li, e), ToSet(li.manifests), e)
<1> DEFINE M == ToSet(li.manifests)
           named == {x \in M : x.tag # None /\ x.dig = e.dig /\ e.tag \in {None, x.tag}}
           gone == Only(li.manifests, named)
           h == RmHistory(li, e)
<1>1. gone \in Seq(Descriptors(D, T)) /\ ToSet(gone) = M \intersect named
  <2> HIDE DEF named
  <2>1. li.manifests \in Seq(Descriptors(D, T))
    BY DEF Layouts
  <2> QED BY <2>1, OnlyIs
<1>2. h = [i \in DOMAIN gone |-> [tag |-> gone[i].tag, dig |-> gone[i].dig, deleted |-> TRUE]]
  BY DEF RmHistory
<1> HIDE DEF gone, h
<1>3. DOMAIN gone = 1..Len(gone) /\ Len(gone) \in Nat
  BY <1>1
<1>4. Len(h) = Len(gone) /\ \A i \in 1..Len(gone) : h[i].tag = gone[i].tag /\ h[i].deleted
  BY <1>2, <1>3
<1>5. /\ \A i \in 1..Len(gone) : gone[i] \in named
      /\ \A x \in named : \E i \in 1..Len(gone) : gone[i] = x
  <2>1. ToSet(gone) = named
    BY <1>1
  <2> HIDE DEF named
  <2> QED BY <1>1, <2>1, Elements
<1>6. \A t : (\E i \in 1..Len(h) : h[i].tag = t)
              <=> \E x \in M : x.tag = t /\ t # None /\ x.dig = e.dig /\ e.tag \in {None, t}
  BY <1>4, <1>5
<1> QED BY <1>3, <1>4, <1>6 DEF Forgets, h

-----------------------------------------------------------------------------
(* Where the entries of a changed index come from *)

\* Only keeps all of what is all to be kept.
LEMMA OnlyAll ==
  ASSUME NEW X, NEW s \in Seq(X), NEW S, ToSet(s) \subseteq S
  PROVE  Only(s, S) = s
<1>0. Len(s) \in Nat /\ \A k \in 1..Len(s) : s[k] \in X /\ s[k] \in S
  BY Elements
<1>1. PICK p \in [0..Len(s) -> Seq(X)] : OnlySteps(p, s, S)
  <2>1. <<>> \in Seq(X) /\ \A a \in Seq(X), k \in 1..Len(s) : Append(a, s[k]) \in Seq(X)
    BY <1>0
  <2> QED BY <2>1, OnlyTrace, Zenon
<1> DEFINE Same(k) == Len(p[k]) = k /\ \A i \in 1..k : p[k][i] = s[i]
           Good == {k \in Nat : k > Len(s) \/ Same(k)}
<1>2. 0 \in Good
  BY <1>1 DEF OnlySteps
<1>3. ASSUME NEW k \in Nat, k \in Good PROVE k + 1 \in Good
  <2> SUFFICES ASSUME k + 1 <= Len(s) PROVE Same(k + 1)
    <3> HIDE DEF Same
    <3> QED BY <1>0
  <2>1. Same(k) /\ p[k] \in Seq(X) /\ k + 1 \in 1..Len(s) /\ (k + 1) - 1 = k
    BY <1>0, <1>3
  <2>2. p[k + 1] = Append(p[k], s[k + 1])
    BY <1>0, <1>1, <2>1 DEF OnlySteps
  <2>3. s[k + 1] \in X
    BY <1>0, <2>1
  <2> DEFINE q == p[k]
             r == Append(q, s[k + 1])
  <2>4. q \in Seq(X) /\ Len(q) = k /\ \A i \in 1..k : q[i] = s[i]
    BY <2>1
  <2> HIDE DEF q, Same
  <2>5. Len(r) = k + 1 /\ r[k + 1] = s[k + 1] /\ \A i \in 1..k : r[i] = q[i]
    BY <2>3, <2>4
  <2>6. \A i \in 1..(k + 1) : r[i] = s[i]
    <3> HIDE DEF r
    <3> QED BY <2>4, <2>5
  <2> QED BY <2>2, <2>5, <2>6 DEF Same, q
<1>4. Nat \subseteq Good
  <2> HIDE DEF Good
  <2> QED BY <1>2, <1>3, Induction
<1>5. Same(Len(s)) /\ p[Len(s)] \in Seq(X) /\ p[Len(s)] = Only(s, S)
  BY <1>0, <1>1, <1>4 DEF OnlySteps
<1> QED BY <1>5, SeqEqual

\* The digests that an index lists as themselves, not as a response.
Own(li) == Digs({x \in ToSet(li.manifests) : x.subj = None}) \union ToSet(li.children)

\* What the entries of r come from: only e has a tag or a subject that it did not have,
\* and only the digest of e is listed as itself that was not.
Descends(r, li, e) ==
  /\ \A x \in ToSet(r.manifests) : x \in ToSet(li.manifests) \/ x = e \/ Plain(x)
  /\ Own(r) \subseteq Own(li) \union (IF e.subj = None THEN {e.dig} ELSE {})

\* The entries that AddDesc leaves.
LEMMA AddDescDescends ==
  ASSUME NEW D, NEW T, None \notin D, None \notin T,
         NEW li \in Layouts(D, T), Sound(li.manifests), NEW members \in Seq(D),
         NEW e \in Descriptors(D, T), e.tag = None \/ e.subj = None
  PROVE  Descends(AddDesc(li, e, members), li, e)
<1> DEFINE m == FoldLeft(MoveChild, li, members)
           kids == OtherChildren(m.children, e.dig)
           ns == IF e.subj # None THEN SetResponse(m.manifests, e)
                 ELSE IF e.tag # None THEN Place(Untag(m.manifests, e), e)
                 ELSE Place(m.manifests, e)
           r == AddDesc(li, e, members)
           M == ToSet(m.manifests)
           N == ToSet(ns)
<1>1. r.children = kids /\ r.manifests = ns
  BY DEF AddDesc
<1>2. m \in Layouts(D, T) /\ Sound(m.manifests) /\ Moved(m, li, ToSet(members))
  BY MovedAll
<1>3. m.manifests \in Seq(Descriptors(D, T)) /\ m.children \in Seq(D)
  BY <1>2 DEF Layouts
<1>4. ToSet(kids) = ToSet(m.children) \ {e.dig}
  BY <1>3, OtherChildrenIs
<1> HIDE DEF m, kids, r, M
<1>5. /\ \A x \in N : x \in M \/ x = e \/ Plain(x)
      /\ \A x \in N : x.subj = None =>
           x = e \/ \E y \in M : y.subj = None /\ y.dig = x.dig
  <2>1. CASE e.subj # None
    <3>1. Responded(ns, m.manifests, e)
      BY <1>2, <1>3, <2>1, SetResponseIs
    <3> QED BY <3>1 DEF Responded, M
  <2>2. CASE e.subj = None /\ e.tag # None
    <3> DEFINE us == Untag(m.manifests, e)
               U == ToSet(us)
    <3>1. us \in Seq(Descriptors(D, T)) /\ Sound(us) /\ Untagged(us, m.manifests, e) /\ \A x \in U : ~Bad(x, e)
      BY <1>2, <1>3, <2>2, UntagIs
    <3>2. ns = Place(us, e)
      BY <2>2
    <3> HIDE DEF us, ns
    <3>3. Placed(ns, us, e)
      BY <2>2, <3>1, <3>2, PlaceIs
    <3>4. N \subseteq U \union {e}
      BY <3>3 DEF Placed
    <3>5. \A x \in U : x \in M \/ \E y \in M : Bad(y, e) /\ x = Entry(y.dig, None, None)
      BY <3>1 DEF Untagged, M
    <3>6. \A y \in M : Bad(y, e) => y.subj = None
      <4>1. \A y \in M : \E i \in 1..Len(m.manifests) : m.manifests[i] = y
        BY <1>3, Elements, Zenon DEF M
      <4> QED BY <1>2, <2>2, <4>1 DEF Bad, Sound, OneAnnotation
    <3>7. ASSUME NEW x \in N, x \notin M, x # e
          PROVE  Plain(x) /\ \E y \in M : y.subj = None /\ y.dig = x.dig
      <4>1. PICK y \in M : Bad(y, e) /\ x = Entry(y.dig, None, None)
        BY <3>4, <3>5, <3>7
      <4> QED BY <3>6, <4>1 DEF Entry, Plain
    <3> QED BY <3>7
  <2>3. CASE e.subj = None /\ e.tag = None
    <3>1. Placed(ns, m.manifests, e)
      BY <1>2, <1>3, <2>3, PlaceIs
    <3> QED BY <3>1 DEF Placed, M
  <2> QED BY <2>1, <2>2, <2>3
<1> HIDE DEF ns, N
<1>6. /\ M \subseteq ToSet(li.manifests)
      /\ \A d \in ToSet(m.children) : d \in Own(li)
  BY <1>2 DEF Moved, M, Own, Digs, Plain
<1>7. Own(r) \subseteq Own(li) \union (IF e.subj = None THEN {e.dig} ELSE {})
  <2> SUFFICES ASSUME NEW d \in Own(r), d \notin Own(li) PROVE e.subj = None /\ d = e.dig
    OBVIOUS
  <2>1. d \notin ToSet(kids)
    BY <1>4, <1>6
  <2>2. PICK x \in N : x.subj = None /\ x.dig = d
    BY <1>1, <2>1 DEF Own, Digs, N
  <2>3. ~\E y \in M : y.subj = None /\ y.dig = d
    BY <1>6 DEF Own, Digs
  <2> QED BY <1>5, <2>2, <2>3
<1> QED BY <1>1, <1>5, <1>6, <1>7 DEF Descends, r, N

\* Nothing is in r that is not in li, but for entries that lost their tag.
Remains(r, li) ==
  /\ \A x \in ToSet(r.manifests) : x \in ToSet(li.manifests) \/ Plain(x)
  /\ Own(r) \subseteq Own(li)

\* The entries that RmDesc leaves.
LEMMA RmDescRemains ==
  ASSUME NEW D, NEW T, None \notin D, None \notin T,
         NEW li \in Layouts(D, T), Sound(li.manifests), NEW e, e.subj = None, e.dig \in D
  PROVE  Remains(RmDesc(li, e), li)
<1> DEFINE ms == li.manifests
           r == RmDesc(li, e)
<1> SUFFICES Remains(r, li)
  OBVIOUS
<1>1. ms \in Seq(Descriptors(D, T)) /\ li.children \in Seq(D) /\ Len(ms) \in Nat /\ DOMAIN ms = 1..Len(ms)
  BY DEF Layouts
<1>2. CASE e.tag = None
  <2> DEFINE rest == {x \in ToSet(ms) : x.dig # e.dig}
  <2>1. r.manifests = Only(ms, rest) /\ r.children = OtherChildren(li.children, e.dig)
    BY <1>2 DEF RmDesc, RmDigest
  <2>2. ToSet(Only(ms, rest)) = ToSet(ms) \intersect rest
    <3> HIDE DEF rest
    <3> QED BY <1>1, OnlyIs
  <2>3. ToSet(r.manifests) \subseteq ToSet(ms) /\ ToSet(r.children) \subseteq ToSet(li.children)
    BY <1>1, <2>1, <2>2, OtherChildrenIs
  <2> QED BY <2>3 DEF Remains, Own, Digs
<1>3. CASE e.tag # None
  <2> DEFINE At(x) == x.dig = e.dig /\ x.tag = e.tag
             rest == {x \in ToSet(ms) : ~At(x)}
             I == {i \in 1..Len(ms) : ms[i].dig = e.dig /\ ms[i].tag = e.tag}
             i0 == SelectInSeq(ms, LAMBDA x : x.dig = e.dig /\ x.tag = e.tag)
  <2>1. i0 = IF I # {} THEN Min(I) ELSE 0
    BY Zenon DEF SelectInSeq
  <2>2. I # {} => Min(I) \in I
    BY <1>1, Bottom
  <2>3. \/ r.manifests = Only(ms, rest) /\ r.children = li.children
        \/ r = li
        \/ i0 # 0 /\ r = [li EXCEPT !.manifests[i0].tag = None]
    <3>1. RmDesc(li, e) = RmTag(li, e)
      BY <1>3 DEF RmDesc
    <3>2. RmTag(li, e) = IF \E j \in DOMAIN ms : ms[j].dig = e.dig /\ ms[j].tag # e.tag
                         THEN [li EXCEPT !.manifests = Only(ms, rest)]
                         ELSE IF i0 = 0 THEN li
                         ELSE [li EXCEPT !.manifests[i0].tag = None]
      BY Zenon DEF RmTag
    <3> HIDE DEF rest, i0
    <3> QED BY <3>1, <3>2 DEF Layouts
  <2>4. ToSet(Only(ms, rest)) = ToSet(ms) \intersect rest
    <3> HIDE DEF rest
    <3> QED BY <1>1, OnlyIs
  <2> HIDE DEF i0, r, At
  <2>5. CASE r.manifests = Only(ms, rest) /\ r.children = li.children
    BY <2>4, <2>5 DEF Remains, Own, Digs
  <2>6. CASE r = li
    BY <2>6 DEF Remains
  <2>7. CASE i0 # 0 /\ r = [li EXCEPT !.manifests[i0].tag = None]
    <3> DEFINE b == [ms[i0] EXCEPT !.tag = None]
               q == ReplaceAt(ms, i0, b)
    <3>1. i0 \in 1..Len(ms) /\ ms[i0].tag # None
      BY <1>3, <2>1, <2>2, <2>7
    <3>2. ms[i0] \in [dig: D, tag: T \union {None}, subj: D \union {None}] /\ ms[i0].subj = None
      <4>1. ms[i0] \in Descriptors(D, T)
        <5> HIDE DEF ms
        <5> QED BY <1>1, <3>1
      <4>2. ms[i0].subj = None
        BY <3>1 DEF Sound, OneAnnotation
      <4> QED BY <4>1, <4>2 DEF Descriptors
    <3>3. b \in Descriptors(D, T) /\ b.dig = ms[i0].dig /\ Plain(b)
      BY <3>2 DEF Descriptors, Plain
    <3>4. r = [li EXCEPT !.manifests = [ms EXCEPT ![i0] = b]]
      BY <2>7
    <3> HIDE DEF b
    <3>5. q \in Seq(Descriptors(D, T)) /\ Replaces(q, ms, i0, b)
      BY <1>1, <3>1, <3>3, ReplaceAtIs
    <3>6. r.manifests = q /\ r.children = li.children
      BY <3>4 DEF Layouts, ReplaceAt
    <3>7. \A y \in ToSet(q) : y = b \/ y \in ToSet(ms)
      <4>1. \A y \in ToSet(q) : y = b \/ \E j \in 1..Len(ms) : j # i0 /\ ms[j] = y
        BY <3>5 DEF Replaces
      <4> QED BY <1>1, <4>1, Elements
    <3>8. ms[i0] \in ToSet(ms)
      BY <1>1, <3>1, Elements
    <3> HIDE DEF q
    <3> QED BY <3>2, <3>3, <3>6, <3>7, <3>8 DEF Remains, Own, Digs
  <2> QED BY <2>3, <2>5, <2>6, <2>7
<1> QED BY <1>2, <1>3 DEF r
=============================================================================
