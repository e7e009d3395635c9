-------------------------- MODULE RepositoryProofs --------------------------
(***************************************************************************)
(* A repository and its collector: what a collection takes (Registry, with *)
(* Collector and LayoutIndex), what a client that pages through the        *)
(* referrers gets (ReferrerPages), when a collection comes (GCTicker), and *)
(* what is on disk meanwhile (DirRepo), each for any values of its         *)
(* constants: any manifests, clients, tags, policy, page limit, and any    *)
(* number of handlers.                                                     *)
(*                                                                         *)
(* Registry has three inductive invariants, each used by the next. IInv    *)
(* holds of every server: the index is one that the server writes. PInv:   *)
(* what the index names is in the store, but for what clients delete from  *)
(* it. RInv: the response entries are in step with the manifests, while    *)
(* the policy keeps them and requests come one at a time. ReferrerPages    *)
(* adds LInv, about its cache and its client, which needs the first two: a *)
(* response is a list of referrers, and its blob is there while the index  *)
(* names it. DirRepo has DirIInv, if the directory is found well and its   *)
(* saves succeed: memory and index.json agree when they are believed to,   *)
(* and what a tag needs is on disk at any step.                            *)
(*                                                                         *)
(* The collector's walk is a search in as many rounds as there are blobs;  *)
(* it is proved to be the least set that is closed under what the          *)
(* collector follows. Lists and pages are folds, unrolled into the         *)
(* sequence of states that their loop goes through.                        *)
(***************************************************************************)
EXTENDS ReferrerPages, GCTicker, DirRepo, LayoutIndexProofs, FiniteSetTheorems

-----------------------------------------------------------------------------
(* The walk of the collector: what is reached, and nothing else *)

\* What a set closed under a step from each element to some others of the finite set B
\* has in it.
ClosedUnder(S, step, B) == \A d \in S : step[d] \intersect B \subseteq S

\* R is the least set that holds base and is closed.
Least(R, base, step, B) ==
  /\ base \subseteq R /\ R \subseteq B
  /\ ClosedUnder(R, step, B)
  /\ \A S : base \subseteq S /\ ClosedUnder(S, step, B) => R \subseteq S

\* reach[n] is what a search from base finds in n rounds, N at the most.
Searches(reach, N, base, step, B) ==
  reach = [n \in 0..N |-> IF n = 0 THEN base
                         ELSE reach[n - 1] \union (B \intersect UNION {step[d] : d \in reach[n - 1]})]

\* A search of a finite set in as many rounds as it has elements finds all there is to find.
LEMMA SearchIs ==
  ASSUME NEW B, IsFiniteSet(B), NEW base \in SUBSET B, NEW step,
         NEW reach, Searches(reach, Cardinality(B), base, step, B)
  PROVE  Least(reach[Cardinality(B)], base, step, B)
<1> DEFINE N == Cardinality(B)
           On(S) == S \union (B \intersect UNION {step[d] : d \in S})
           Good(n) == /\ base \subseteq reach[n] /\ reach[n] \subseteq B
                      /\ ClosedUnder(reach[n], step, B) \/ Cardinality(reach[n]) >= n
                      /\ \A S : base \subseteq S /\ ClosedUnder(S, step, B) => reach[n] \subseteq S
           All == {n \in Nat : n > N \/ Good(n)}
<1>1. N \in Nat
  BY FS_CardinalityType
<1> HIDE DEF N
<1>2. reach[0] = base /\ \A n \in 1..N : n - 1 \in 0..N /\ reach[n] = On(reach[n - 1])
  BY <1>1 DEF N, Searches
<1>3. Good(0)
  <2>1. IsFiniteSet(base) /\ Cardinality(base) \in Nat
    BY FS_Subset, FS_CardinalityType
  <2> QED BY <1>2, <2>1
<1>4. ASSUME NEW n \in Nat, n \in All PROVE n + 1 \in All
  <2> SUFFICES ASSUME n + 1 <= N PROVE Good(n + 1)
    <3> HIDE DEF Good
    <3> QED BY <1>1
  <2>1. Good(n)
    <3> HIDE DEF Good
    <3> QED BY <1>1, <1>4
  <2> DEFINE S == reach[n]
             R == On(S)
  <2>2. n + 1 \in 1..N /\ (n + 1) - 1 = n
    BY <1>1
  <2>3. reach[n + 1] = R
    <3> HIDE DEF On
    <3> QED BY <1>2, <2>2
  <2>4. IsFiniteSet(S) /\ Cardinality(S) \in Nat /\ S \subseteq R /\ R \subseteq B /\ base \subseteq R
    BY <2>1, FS_Subset, FS_CardinalityType
  <2>5. IsFiniteSet(R) /\ Cardinality(R) \in Nat
    <3> HIDE DEF S, R
    <3> QED BY <2>4, FS_Subset, FS_CardinalityType
  <2>6. CASE ClosedUnder(S, step, B)
    <3>1. R = S
      BY <2>6 DEF ClosedUnder
    <3> QED BY <2>1, <2>3, <2>6, <3>1
  <2>7. CASE ~ClosedUnder(S, step, B)
    <3>1. PICK x \in R : x \notin S
      BY <2>7 DEF ClosedUnder
    <3> HIDE DEF S, R
    <3>2. IsFiniteSet(S \union {x}) /\ Cardinality(S \union {x}) = Cardinality(S) + 1
      BY <2>4, <3>1, FS_AddElement
    <3>3. S \union {x} \in SUBSET R
      BY <2>4, <3>1
    <3>4. Cardinality(S \union {x}) <= Cardinality(R)
      BY <2>5, <3>3, FS_Subset
    <3>5. Cardinality(S) >= n
      BY <2>1, <2>7 DEF S
    <3>6. Cardinality(R) >= n + 1
      BY <2>4, <2>5, <3>2, <3>4, <3>5
    <3>7. ASSUME NEW Q, base \subseteq Q, ClosedUnder(Q, step, B) PROVE R \subseteq Q
      <4>1. S \subseteq Q
        BY <2>1, <3>7 DEF S
      <4> QED BY <3>7, <4>1 DEF R, ClosedUnder
    <3> QED BY <2>3, <2>4, <3>6, <3>7
  <2> QED BY <2>6, <2>7
<1>5. Nat \subseteq All
  <2>1. 0 \in All
    <3> HIDE DEF Good
    <3> QED BY <1>3
  <2> HIDE DEF All
  <2> QED BY <1>4, <2>1, Induction
<1>6. Good(N)
  <2> HIDE DEF Good
  <2> QED BY <1>1, <1>5
<1>7. ASSUME Cardinality(reach[N]) >= N PROVE reach[N] = B
  <2>1. reach[N] \in SUBSET B /\ Cardinality(reach[N]) \in Nat
    BY <1>6, FS_Subset, FS_CardinalityType
  <2>2. Cardinality(reach[N]) <= N
    BY <2>1, FS_Subset DEF N
  <2>3. Cardinality(B) = Cardinality(reach[N])
    BY <1>1, <1>7, <2>1, <2>2 DEF N
  <2> QED BY <2>1, <2>3, FS_Subset
<1>8. ClosedUnder(reach[N], step, B)
  <2>1. ClosedUnder(B, step, B)
    BY DEF ClosedUnder
  <2> QED BY <1>6, <1>7, <2>1
<1> QED BY <1>6, <1>8 DEF Least, N

\* The search can be made: the CHOOSE in the definition of a recursive function has
\* something to choose.
LEMMA SearchExists ==
  ASSUME NEW N \in Nat, NEW B, NEW base \in SUBSET B, NEW step
  PROVE  \E reach : Searches(reach, N, base, step, B)
<1> DEFINE On(S) == S \union (B \intersect UNION {step[d] : d \in S})
           Is(f, m) == f = [n \in 0..m |-> IF n = 0 THEN base ELSE On(f[n - 1])]
           All == {m \in Nat : \E f : Is(f, m)}
<1>1. 0 \in All
  <2>1. Is([n \in 0..0 |-> base], 0)
    OBVIOUS
  <2> HIDE DEF Is
  <2> QED BY <2>1
<1>2. ASSUME NEW m \in Nat, m \in All PROVE m + 1 \in All
  <2>1. PICK f : Is(f, m)
    BY <1>2
  <2> DEFINE g == [n \in 0..(m + 1) |-> IF n = m + 1 THEN On(f[m]) ELSE f[n]]
  <2> HIDE DEF On
  <2>2. \A n \in 0..(m + 1) : g[n] = IF n = 0 THEN base ELSE On(g[n - 1])
    <3> SUFFICES ASSUME NEW n \in 0..(m + 1)
                 PROVE  g[n] = IF n = 0 THEN base ELSE On(g[n - 1])
      OBVIOUS
    <3>1. CASE n = m + 1
      <4>1. g[n] = On(f[m]) /\ n - 1 = m /\ g[m] = f[m]
        BY <3>1
      <4> QED BY <3>1, <4>1
    <3>2. CASE n = 0
      BY <2>1, <3>2
    <3>3. CASE n # 0 /\ n # m + 1
      <4>1. n \in 0..m /\ n - 1 \in 0..m /\ n - 1 # m + 1 /\ n - 1 \in 0..(m + 1)
        BY <3>3
      <4>2. g[n] = f[n] /\ g[n - 1] = f[n - 1]
        BY <3>3, <4>1
      <4>3. f[n] = On(f[n - 1])
        BY <2>1, <3>3, <4>1
      <4> QED BY <3>3, <4>2, <4>3
    <3> QED BY <3>1, <3>2, <3>3
  <2>3. DOMAIN g = 0..(m + 1) /\ g = [n \in 0..(m + 1) |-> g[n]]
    OBVIOUS
  <2>4. Is(g, m + 1)
    <3> HIDE DEF g
    <3> QED BY <2>2, <2>3
  <2> HIDE DEF Is, g
  <2> QED BY <2>4
<1>3. N \in All
  <2> HIDE DEF All
  <2> QED BY <1>1, <1>2, Induction
<1> HIDE DEF On
<1>4. PICK f : Is(f, N)
  BY <1>3
<1> QED BY <1>4 DEF On, Searches

\* The kept entries that are there.
Roots == {e.dig : e \in {f \in Entries : Kept(f)}} \intersect blobs

\* What the walk finds: the least set with the kept entries, closed under Successors.
LEMMA WalkIs ==
  ASSUME IsFiniteSet(blobs)
  PROVE  /\ Roots \subseteq Walked /\ Walked \subseteq blobs
         /\ \A d \in Walked : Successors(d) \intersect blobs \subseteq Walked
         /\ \A S \in SUBSET blobs :
              Roots \subseteq S /\ (\A d \in S : Successors(d) \intersect blobs \subseteq S)
                => Walked \subseteq S
<1> DEFINE N == Cardinality(blobs)
           step == [d \in blobs |-> Successors(d)]
           On(S) == S \union (blobs \intersect UNION {Successors(d) : d \in S})
           Is(f) == f = [n \in 0..N |-> IF n = 0 THEN Roots ELSE On(f[n - 1])]
           reach == CHOOSE f : Is(f)
<1>1. Walked = reach[N]
  BY Zenon DEF Walked, Roots
<1>2. N \in Nat /\ Roots \in SUBSET blobs
  BY FS_CardinalityType DEF Roots
<1> HIDE DEF N
<1>3. \A S \in SUBSET blobs : On(S) = S \union (blobs \intersect UNION {step[d] : d \in S})
  OBVIOUS
<1>4. PICK f : Searches(f, N, Roots, step, blobs)
  <2> HIDE DEF step
  <2> QED BY <1>2, SearchExists
<1>5. ASSUME NEW g, Is(g) \/ Searches(g, N, Roots, step, blobs)
      PROVE  \A n \in 0..N : g[n] \in SUBSET blobs
  <2> DEFINE Good == {n \in Nat : n > N \/ g[n] \in SUBSET blobs}
  <2>1. g[0] = Roots /\ \A n \in 1..N : g[n] \subseteq g[n - 1] \union blobs
    <3> DEFINE G(S) == S \union (blobs \intersect UNION {step[d] : d \in S})
    <3>1. \A S : On(S) \subseteq S \union blobs /\ G(S) \subseteq S \union blobs
      OBVIOUS
    <3>2. CASE Is(g)
      <4> HIDE DEF On
      <4> QED BY <1>2, <3>1, <3>2
    <3>3. CASE Searches(g, N, Roots, step, blobs)
      <4>1. \A n \in 0..N : g[n] = IF n = 0 THEN Roots ELSE G(g[n - 1])
        <5> HIDE DEF step
        <5> QED BY <3>3 DEF Searches
      <4> HIDE DEF G
      <4> QED BY <1>2, <3>1, <4>1
    <3> QED BY <1>5, <3>2, <3>3
  <2>2. 0 \in Good
    BY <1>2, <2>1
  <2>3. ASSUME NEW n \in Nat, n \in Good PROVE n + 1 \in Good
    <3> SUFFICES ASSUME n + 1 <= N PROVE g[n + 1] \in SUBSET blobs
      BY <1>2
    <3>1. g[n] \in SUBSET blobs /\ n + 1 \in 1..N /\ (n + 1) - 1 = n
      BY <1>2, <2>3
    <3> QED BY <2>1, <3>1
  <2> HIDE DEF Good
  <2>4. Nat \subseteq Good
    BY <2>2, <2>3, Induction
  <2> QED BY <1>2, <2>4 DEF Good
<1>6. ASSUME NEW g, \A n \in 0..N : g[n] \in SUBSET blobs
      PROVE  Is(g) <=> Searches(g, N, Roots, step, blobs)
  <2> DEFINE G(S) == S \union (blobs \intersect UNION {step[d] : d \in S})
  <2>1. \A n \in 0..N : n # 0 => On(g[n - 1]) = G(g[n - 1])
    <3> HIDE DEF On, G
    <3> QED BY <1>2, <1>3, <1>6 DEF G
  <2> HIDE DEF On, step, G
  <2>2. [n \in 0..N |-> IF n = 0 THEN Roots ELSE On(g[n - 1])]
          = [n \in 0..N |-> IF n = 0 THEN Roots ELSE G(g[n - 1])]
    BY <2>1
  <2> QED BY <2>2 DEF Searches, G
<1>7. Searches(reach, N, Roots, step, blobs)
  <2> HIDE DEF Is
  <2>1. Is(f)
    BY <1>4, <1>5, <1>6
  <2>2. Is(reach)
    BY <2>1
  <2> QED BY <1>5, <1>6, <2>2
<1> HIDE DEF reach
<1>8. Least(Walked, Roots, step, blobs)
  <2> HIDE DEF step
  <2> QED BY <1>1, <1>2, <1>7, SearchIs DEF N
<1> QED BY <1>8 DEF Least, ClosedUnder

-----------------------------------------------------------------------------
(* The inductive invariants *)

\* The digests that an index lists.
Listable == Manifests \union Seq(Referrers)

\* An index the server writes: no digest that is listed as itself is a response, and an
\* entry with a subject is one.
Written(li) ==
  /\ li \in Layouts(Listable, Tags) /\ Sound(li.manifests)
  /\ Own(li) \subseteq Manifests
  /\ \A e \in ToSet(li.manifests) :
       e.subj # None => e.dig \in Seq(Referrers) /\ e.subj \in Manifests

Request == [op: {"none", "put", "delete"},
            entry: [dig: Manifests \union {None}, tag: Tags \union {None}, subj: {None}],
            tags: Seq(Tags \union {None}), resp: Seq(Referrers)]
Labels  == {"idle", "store", "insert", "respRead", "respStore", "respInsert", "remove"}

ServerOK == \E s \in Servers : conf = s.conf /\ clients = s.clients
StoreOK  == blobs \subseteq Digests /\ IsFiniteSet(blobs) /\ fresh \subseteq blobs
PlacesOK == pc \in [Handlers -> Labels] /\ req \in [Handlers -> Request]

\* What a handler holds at each of its calls.
Working ==
  \A h \in Handlers :
    /\ pc[h] = "idle" => req[h] = Idle
    /\ pc[h] # "idle" => req[h].op \in {"put", "delete"} /\ req[h].entry.dig \in Manifests
    /\ pc[h] \in {"store", "insert"} => req[h].op = "put" /\ req[h].tags # <<>>
    /\ pc[h] \in {"respRead", "respStore", "respInsert"} => req[h].entry.dig \in Referrers
    /\ pc[h] = "remove" => req[h].op = "delete"

HandlersOK == PlacesOK /\ Working

IInv == ServerOK /\ StoreOK /\ Written(index) /\ HandlersOK

-----------------------------------------------------------------------------
Storing(h)    == pc[h] \in {"store", "insert"}
Responding(h) == pc[h] \in {"respRead", "respStore", "respInsert"}
PutOf(m)      == \E h \in Handlers : req[h].op = "put" /\ req[h].entry.dig = m

\* What the index lists has its blob, and so has what a handler is about to insert, but
\* for what clients delete.
Held ==
  /\ Knows(index) \subseteq blobs \union clients.deleteBlobs
  /\ \A h \in Handlers :
       /\ pc[h] = "insert" => req[h].entry.dig \in blobs \union clients.deleteBlobs
       /\ pc[h] = "respInsert" => req[h].resp \in blobs \union clients.deleteBlobs

\* The same where clients delete no blobs.
Stored ==
  /\ Knows(index) \subseteq blobs
  /\ \A h \in Handlers :
       /\ pc[h] = "insert" => req[h].entry.dig \in blobs
       /\ pc[h] = "respInsert" => req[h].resp \in blobs

\* What is tagged, or is about to be, has its config and layers, or its members; and a
\* manifest in the store is listed, or the request that pushed it is still under way.
Whole ==
  /\ \A e \in Entries : e.tag # None => Refs(e.dig) \subseteq blobs
  /\ \A h \in Handlers : Storing(h) => Refs(req[h].entry.dig) \subseteq blobs
  /\ \A h \in Handlers : req[h].op = "delete" => req[h].entry.tag # None
  /\ \A h \in Handlers : req[h].op = "put" /\ Responding(h) => req[h].entry.dig \in Knows(index)
  /\ \A m \in blobs \intersect Manifests : m \in Knows(index) \/ PutOf(m)

Keeping  == clients.deleteBlobs = {}
Complete == clients.deleteManifests = {} /\ clients.deleteBlobs = {} /\ ~conf.sparse

PInv == Held /\ (Complete => Whole)

-----------------------------------------------------------------------------
Alone == \A g, h \in Handlers : pc[g] # "idle" /\ pc[h] # "idle" => g = h

NoDup(ls) == \A i, j \in 1..Len(ls) : ls[i] = ls[j] => i = j
\* ls is a response for s of manifests in the index.
Answers(ls, s) ==
  /\ NoDup(ls)
  /\ \A m \in ToSet(ls) : Content[m].subj = s /\ m \in Knows(index)
ListedIn(m, es) == \E e \in es : e.subj = Content[m].subj /\ m \in Refs(e.dig)

\* The handler at work whose manifest may not be in step.
Between(h, m) ==
  /\ req[h].entry.dig = m
  /\ \/ req[h].op = "put" /\ pc[h] \in {"insert", "respRead", "respStore", "respInsert"}
     \/ req[h].op = "delete" /\ pc[h] = "remove"

ResponsesOK == \A e \in Entries : e.subj # None => Answers(e.dig, e.subj)
DeletableOK == \A e \in Entries : e.tag \in clients.deleteTags => e.dig \notin Referrers
ListedOK    ==
  \A m \in Knows(index) \intersect Referrers :
    ListedIn(m, Entries) \/ \E h \in Handlers : Between(h, m)
RequestOK(h) ==
  LET d == req[h].entry.dig
      s == Content[d].subj
      r == req[h].resp
  IN  /\ Storing(h) /\ d \in Referrers => ToSet(req[h].tags) \intersect clients.deleteTags = {}
      /\ req[h].op = "put" /\ Responding(h) => d \in Knows(index)
      /\ req[h].op = "delete" /\ d \in Referrers => req[h].entry.tag = None
      /\ pc[h] = "remove" => \A e \in Entries : e.subj # None => d \notin Refs(e.dig)
      /\ pc[h] \in {"respStore", "respInsert"} =>
           /\ Answers(r, s)
           /\ (d \in ToSet(r)) <=> (req[h].op = "put")
           /\ \A e \in Entries : e.subj = s => Refs(e.dig) \ {d} \subseteq ToSet(r)

InStep ==
  /\ Alone /\ ResponsesOK /\ DeletableOK /\ ListedOK
  /\ \A h \in Handlers : RequestOK(h)

RInv == KeepsResponses => InStep

-----------------------------------------------------------------------------
(* Digests, entries and requests *)

\* The three kinds of digests differ.
LEMMA DigestKinds ==
  /\ None \notin Listable /\ None \notin Tags /\ None \notin Digests
  /\ \A m \in Manifests : m \notin Seq(Referrers) /\ m \notin Blobs
  /\ \A b \in Blobs : b \notin Seq(Referrers)
  /\ Listable \subseteq Digests /\ Referrers \subseteq Manifests
BY DigestsDiffer, ContentType DEF Listable, Digests, Referrers

\* What is in the bytes of each kind.
LEMMA ParsedIs ==
  /\ \A m \in Manifests :
       /\ Parsed(m) = Content[m]
       /\ \/ Parsed(m).kind = "image" /\ Parsed(m).refs \in Seq(Blobs) /\ Refs(m) \subseteq Blobs
          \/ Parsed(m).kind = "index" /\ Parsed(m).refs \in Seq(Manifests) /\ Refs(m) \subseteq Manifests
  /\ \A b \in Blobs : Parsed(b).kind = "blob" /\ Refs(b) = {}
  /\ \A l \in Seq(Referrers) :
       Parsed(l).kind = "index" /\ Parsed(l).refs = l /\ Refs(l) = ToSet(l) /\ Refs(l) \subseteq Referrers
<1>1. ASSUME NEW m \in Manifests
      PROVE  /\ Parsed(m) = Content[m]
             /\ \/ Parsed(m).kind = "image" /\ Parsed(m).refs \in Seq(Blobs) /\ Refs(m) \subseteq Blobs
                \/ Parsed(m).kind = "index" /\ Parsed(m).refs \in Seq(Manifests) /\ Refs(m) \subseteq Manifests
  <2>1. Parsed(m) = Content[m]
    BY DEF Parsed
  <2>2. CASE Content[m].kind = "image"
    <3>1. Content[m].refs \in Seq(Blobs)
      BY <2>2, ContentType
    <3>2. ToSet(Content[m].refs) \subseteq Blobs
      BY <3>1, Elements, Zenon
    <3> QED BY <2>1, <2>2, <3>1, <3>2 DEF Refs
  <2>3. CASE Content[m].kind = "index"
    <3>1. Content[m].refs \in Seq(Manifests)
      BY <2>3, ContentType
    <3>2. ToSet(Content[m].refs) \subseteq Manifests
      BY <3>1, Elements, Zenon
    <3> QED BY <2>1, <2>3, <3>1, <3>2 DEF Refs
  <2> QED BY <2>1, <2>2, <2>3, ContentType
<1>2. ASSUME NEW b \in Blobs PROVE Parsed(b).kind = "blob" /\ Refs(b) = {}
  BY DigestKinds DEF Parsed, Refs, ToSet
<1>3. ASSUME NEW l \in Seq(Referrers)
      PROVE  /\ Parsed(l).kind = "index" /\ Parsed(l).refs = l
             /\ Refs(l) = ToSet(l) /\ Refs(l) \subseteq Referrers
  <2>1. l \notin Manifests /\ l \notin Blobs
    BY DigestKinds
  <2>2. Parsed(l) = [kind |-> "index", refs |-> l, subj |-> None]
    BY <2>1 DEF Parsed
  <2>3. ToSet(l) \subseteq Referrers
    BY Elements, Zenon
  <2> QED BY <2>2, <2>3 DEF Refs
<1> QED BY <1>1, <1>2, <1>3

\* The entry of a manifest, and that of a response.
IsManifest(e) == e \in Descriptors(Listable, Tags) /\ e.subj = None /\ e.dig \in Manifests
IsResponse(e) ==
  e \in Descriptors(Listable, Tags) /\ e.tag = None /\ e.subj \in Manifests /\ e.dig \in Seq(Referrers)

\* An entry of a written index is one or the other, and a tagged one is a manifest.
LEMMA WrittenEntries ==
  ASSUME NEW li, Written(li), NEW e \in ToSet(li.manifests)
  PROVE  /\ e \in Descriptors(Listable, Tags)
         /\ e.subj = None => e.dig \in Manifests
         /\ e.subj # None => e.tag = None /\ e.dig \in Seq(Referrers) /\ e.subj \in Manifests
         /\ e.tag # None => e.subj = None
<1>1. li.manifests \in Seq(Descriptors(Listable, Tags)) /\ OneAnnotation(li.manifests)
  BY DEF Written, Layouts, Sound
<1>2. PICK i \in 1..Len(li.manifests) : li.manifests[i] = e
  BY <1>1, Elements
<1>3. e \in Descriptors(Listable, Tags) /\ (e.tag = None \/ e.subj = None)
  BY <1>1, <1>2 DEF OneAnnotation
<1>4. e.subj = None => e.dig \in Own(li)
  BY DEF Own, Digs
<1> QED BY <1>3, <1>4 DEF Written

\* AddDesc of a manifest or of a response.
LEMMA InsertIs ==
  ASSUME NEW li, Written(li), NEW e, IsManifest(e) \/ IsResponse(e), NEW members \in Seq(Listable)
  PROVE  /\ Written(AddDesc(li, e, members))
         /\ Added(AddDesc(li, e, members), li, e)
         /\ Descends(AddDesc(li, e, members), li, e)
<1> DEFINE r == AddDesc(li, e, members)
<1>1. /\ li \in Layouts(Listable, Tags) /\ Sound(li.manifests)
      /\ e \in Descriptors(Listable, Tags) /\ (e.tag = None \/ e.subj = None)
  BY DEF Written, IsManifest, IsResponse
<1>2. None \notin Listable /\ None \notin Tags
  BY DigestKinds
<1>3. r \in Layouts(Listable, Tags) /\ Sound(r.manifests) /\ Added(r, li, e)
  BY <1>1, <1>2, AddDescIs
<1>4. Descends(r, li, e)
  BY <1>1, <1>2, AddDescDescends
<1> HIDE DEF r
<1>5. Own(r) \subseteq Manifests
  <2>1. Own(r) \subseteq Own(li) \union (IF e.subj = None THEN {e.dig} ELSE {})
    BY <1>4 DEF Descends
  <2>2. e.subj = None => e.dig \in Manifests
    BY DigestKinds DEF IsManifest, IsResponse, Listable
  <2>3. Own(li) \subseteq Manifests
    BY DEF Written
  <2> QED BY <2>1, <2>2, <2>3
<1>6. \A x \in ToSet(r.manifests) : x.subj # None => x.dig \in Seq(Referrers) /\ x.subj \in Manifests
  <2>1. \A x \in ToSet(r.manifests) : x.subj # None => x \in ToSet(li.manifests) \/ x = e
    BY <1>4 DEF Descends, Plain
  <2>2. e.subj # None => e.dig \in Seq(Referrers) /\ e.subj \in Manifests
    BY DEF IsManifest, IsResponse
  <2> QED BY <2>1, <2>2 DEF Written
<1> QED BY <1>3, <1>4, <1>5, <1>6 DEF Written, r

\* RmDesc of a manifest.
LEMMA RemoveIs ==
  ASSUME NEW li, Written(li), NEW e, e.subj = None, e.dig \in Manifests
  PROVE  /\ Written(RmDesc(li, e))
         /\ Remains(RmDesc(li, e), li)
         /\ e.tag = None => DigestRemoved(RmDesc(li, e), li, e.dig)
         /\ e.tag # None => TagRemoved(RmDesc(li, e), li, e)
<1> DEFINE r == RmDesc(li, e)
<1>1. li \in Layouts(Listable, Tags) /\ Sound(li.manifests) /\ e.dig \in Listable
  BY DEF Written, Listable
<1>2. None \notin Listable /\ None \notin Tags
  BY DigestKinds
<1>3. /\ r \in Layouts(Listable, Tags) /\ Sound(r.manifests)
      /\ e.tag = None => DigestRemoved(r, li, e.dig)
      /\ e.tag # None => TagRemoved(r, li, e)
  <2>1. CASE e.tag = None
    <3>1. r = RmDigest(li, e.dig)
      BY <2>1 DEF RmDesc
    <3> QED BY <1>1, <1>2, <2>1, <3>1, RmDigestIs
  <2>2. CASE e.tag # None
    <3>1. r = RmTag(li, e)
      BY <2>2 DEF RmDesc
    <3> QED BY <1>1, <1>2, <2>2, <3>1, RmTagIs
  <2> QED BY <2>1, <2>2
<1>4. Remains(r, li)
  BY <1>1, <1>2, RmDescRemains
<1> HIDE DEF r
<1>5. Own(r) \subseteq Manifests
  BY <1>4 DEF Remains, Written
<1>6. \A x \in ToSet(r.manifests) : x.subj # None => x.dig \in Seq(Referrers) /\ x.subj \in Manifests
  BY <1>4 DEF Remains, Plain, Written
<1> QED BY <1>3, <1>4, <1>5, <1>6 DEF Written, r

\* What RmDesc of all that goes leaves.
LEMMA RmDigestsIs ==
  ASSUME NEW li, Written(li), NEW gone
  PROVE  LET r == RmDigests(li, gone)
         IN  /\ Written(r)
             /\ ToSet(r.manifests) = {e \in ToSet(li.manifests) : e.dig \notin gone}
             /\ ToSet(r.children) = ToSet(li.children) \ gone
             /\ Knows(r) = Knows(li) \ gone
<1> DEFINE ms == li.manifests
           cs == li.children
           rest == {e \in ToSet(ms) : e.dig \notin gone}
           kids == ToSet(cs) \ gone
           r == RmDigests(li, gone)
<1>1. ms \in Seq(Descriptors(Listable, Tags)) /\ cs \in Seq(Listable) /\ Sound(ms)
  BY DEF Written, Layouts
<1>2. r = [manifests |-> Only(ms, rest), children |-> Only(cs, kids)]
  BY DEF RmDigests
<1> HIDE DEF rest, kids, r
<1>3. /\ r.manifests \in Seq(Descriptors(Listable, Tags))
      /\ PartOf(r.manifests, ms)
      /\ ToSet(r.manifests) = ToSet(ms) \intersect rest
  BY <1>1, <1>2, OnlyIs
<1>4. r.children \in Seq(Listable) /\ ToSet(r.children) = ToSet(cs) \intersect kids
  BY <1>1, <1>2, OnlyIs
<1>5. r \in Layouts(Listable, Tags)
  BY <1>2, <1>3, <1>4 DEF Layouts
<1>6. Sound(r.manifests)
  BY <1>1, <1>3, PartIsSound
<1>7. /\ ToSet(r.manifests) = {e \in ToSet(ms) : e.dig \notin gone}
      /\ ToSet(r.children) = ToSet(cs) \ gone
  BY <1>3, <1>4 DEF rest, kids
<1> HIDE DEF ms, cs
<1>8. Own(r) \subseteq Manifests
  BY <1>7 DEF Own, Digs, Written, ms, cs
<1>9. \A e \in ToSet(r.manifests) : e.subj # None => e.dig \in Seq(Referrers) /\ e.subj \in Manifests
  BY <1>7 DEF Written, ms
<1>10. Knows(r) = Knows(li) \ gone
  BY <1>7 DEF Knows, Digs, ms, cs
<1> QED BY <1>5, <1>6, <1>7, <1>8, <1>9, <1>10 DEF Written, r, ms, cs

-----------------------------------------------------------------------------
(* Every server: the first invariant, step by step *)

\* The response of a subject is the only entry for it.
LEMMA ResponseOf ==
  ASSUME NEW li, Written(li), NEW s \in Manifests
  PROVE  \/ Response(li, s) = None /\ \A e \in ToSet(li.manifests) : e.subj # s
         \/ /\ Response(li, s) \in Seq(Referrers)
            /\ \E e \in ToSet(li.manifests) : e.subj = s
            /\ \A e \in ToSet(li.manifests) : e.subj = s => e.dig = Response(li, s)
<1>1. li.manifests \in Seq(Descriptors(Listable, Tags)) /\ OneResponse(li.manifests)
  BY DEF Written, Layouts, Sound
<1>2. s # None
  BY DigestKinds DEF Listable
<1>3. ResponseFirst(ToSet(li.manifests), s, Response(li, s))
  BY <1>1, FirstResponse, Zenon
<1>4. \A e, f \in ToSet(li.manifests) : e.subj = s /\ f.subj = s => e = f
  <2>1. \A e \in ToSet(li.manifests) : \E i \in 1..Len(li.manifests) : li.manifests[i] = e
    BY <1>1, Elements, Zenon
  <2> QED BY <1>1, <1>2, <2>1 DEF OneResponse
<1>5. \A e \in ToSet(li.manifests) : e.subj = s => e.dig \in Seq(Referrers)
  BY <1>2, WrittenEntries
<1> QED BY <1>3, <1>4, <1>5 DEF ResponseFirst

\* The subject of a referrer.
LEMMA SubjectIs ==
  ASSUME NEW h, req[h].entry.dig \in Referrers
  PROVE  Subject(h) = Content[req[h].entry.dig].subj /\ Subject(h) \in Manifests
BY ContentType DEF Subject, Parsed, Referrers

\* What a handler reads as the old response.
LEMMA ReadableIs ==
  ASSUME Written(index), NEW s \in Manifests
  PROVE  Readable(s) = None \/ Readable(s) \in Seq(Referrers)
BY ResponseOf DEF Readable

\* A list with a referrer added, and without it.
LEMMA ListIs ==
  ASSUME NEW ls \in Seq(Referrers), NEW d \in Referrers
  PROVE  /\ Listed(ls, d) \in Seq(Referrers) /\ ToSet(Listed(ls, d)) = ToSet(ls) \union {d}
         /\ Only(ls, ToSet(ls) \ {d}) \in Seq(Referrers)
         /\ ToSet(Only(ls, ToSet(ls) \ {d})) = ToSet(ls) \ {d}
<1>1. Listed(ls, d) \in Seq(Referrers) /\ ToSet(Listed(ls, d)) = ToSet(ls) \union {d}
  BY AppendIs DEF Listed
<1> DEFINE S == ToSet(ls) \ {d}
<1>2. Only(ls, S) \in Seq(Referrers) /\ ToSet(Only(ls, S)) = ToSet(ls) \intersect S
  <2> HIDE DEF S
  <2> QED BY OnlyIs
<1> QED BY <1>1, <1>2

\* The store stays finite, with a digest added or some gone.
LEMMA StoreTypes ==
  ASSUME StoreOK,
         \/ \E d \in Digests : blobs' = blobs \union {d} /\ fresh' \in {fresh, fresh \union {d}}
         \/ \E gone : blobs' = blobs \ gone /\ fresh' = fresh \ gone
  PROVE  StoreOK'
<1>1. blobs \subseteq Digests /\ IsFiniteSet(blobs) /\ fresh \subseteq blobs
  BY DEF StoreOK
<1>2. blobs' \subseteq Digests /\ fresh' \subseteq blobs'
  BY <1>1
<1>3. IsFiniteSet(blobs')
  <2>1. ASSUME NEW d, blobs' = blobs \union {d} PROVE IsFiniteSet(blobs')
    BY <1>1, <2>1, FS_AddElement, Zenon
  <2>2. ASSUME NEW gone, blobs' = blobs \ gone PROVE IsFiniteSet(blobs')
    BY <1>1, <2>2, FS_Difference, Zenon
  <2> QED BY <2>1, <2>2
<1> QED BY <1>2, <1>3 DEF StoreOK, Digests

\* A tag resolves to a manifest, by an entry of it.
LEMMA ResolvesTo ==
  ASSUME NEW li, Written(li), NEW t \in Tags, Resolve(li, t) # None
  PROVE  /\ Resolve(li, t) \in Manifests
         /\ \E e \in ToSet(li.manifests) : e.tag = t /\ e.dig = Resolve(li, t)
<1>1. li.manifests \in Seq(Descriptors(Listable, Tags))
  BY DEF Written, Layouts
<1>2. TagFirst(ToSet(li.manifests), t, Resolve(li, t))
  BY <1>1, FirstTagged, Zenon
<1>3. PICK e \in ToSet(li.manifests) : e.tag = t /\ e.dig = Resolve(li, t)
  BY <1>2 DEF TagFirst
<1>4. e.tag # None
  BY <1>3, DigestKinds
<1>5. e.dig \in Manifests
  BY <1>4, WrittenEntries
<1> QED BY <1>3, <1>5

\* An empty repository, and no request.
LEMMA InitIInv == Init => IInv
<1> SUFFICES ASSUME Init PROVE IInv
  OBVIOUS
<1>1. Written(EmptyIndex)
  <2>1. <<>> \in Seq(Descriptors(Listable, Tags)) /\ <<>> \in Seq(Listable) /\ ToSet(<<>>) = {}
    BY DEF ToSet
  <2>2. EmptyIndex \in Layouts(Listable, Tags)
    BY <2>1 DEF EmptyIndex, Layouts
  <2>3. Sound(EmptyIndex.manifests)
    BY DEF EmptyIndex, Sound, OneTag, OneResponse, OneAnnotation, PlainAlone
  <2>4. ToSet(EmptyIndex.manifests) = {} /\ Own(EmptyIndex) = {}
    BY <2>1 DEF EmptyIndex, Own, Digs
  <2> QED BY <2>2, <2>3, <2>4 DEF Written
<1>2. Idle \in Request
  BY DEF Idle, Entry, Request
<1>3. IsFiniteSet({})
  BY FS_EmptySet
<1> QED
  BY <1>1, <1>2, <1>3
  DEF Init, IInv, ServerOK, StoreOK, HandlersOK, PlacesOK, Working, Labels

\* What the clients may send.
LEMMA ClientTypes ==
  ASSUME ServerOK
  PROVE  /\ clients.upload \subseteq Blobs
         /\ clients.push \subseteq Manifests \X Seq(Tags)
         /\ clients.deleteTags \subseteq Tags
         /\ clients.deleteManifests \subseteq Manifests
         /\ clients.deleteBlobs \subseteq Blobs \union Manifests
BY ServersType DEF ServerOK

\* A handler goes on with its request, or returns.
LEMMA HandlerTypes ==
  ASSUME IInv, NEW h \in Handlers, NEW r \in Request, NEW label \in Labels \ {"idle"},
         req' = [req EXCEPT ![h] = r], pc' = [pc EXCEPT ![h] = label],
         r.op \in {"put", "delete"} /\ r.entry.dig \in Manifests,
         label \in {"store", "insert"} => r.op = "put" /\ r.tags # <<>>,
         label \in {"respRead", "respStore", "respInsert"} => r.entry.dig \in Referrers,
         label = "remove" => r.op = "delete"
  PROVE  HandlersOK'
BY DEF IInv, HandlersOK, PlacesOK, Working, Labels

\* The same when its request stays as it is.
LEMMA GoTypes ==
  ASSUME IInv, NEW h \in Handlers, NEW label \in Labels \ {"idle"}, pc[h] # "idle",
         req' = req, Go(h, label),
         label \in {"store", "insert"} => req[h].op = "put" /\ req[h].tags # <<>>,
         label \in {"respRead", "respStore", "respInsert"} => req[h].entry.dig \in Referrers,
         label = "remove" => req[h].op = "delete"
  PROVE  HandlersOK'
BY DEF IInv, HandlersOK, PlacesOK, Working, Labels, Go

\* A request that has been answered holds nothing.
LEMMA ReturnTypes ==
  ASSUME IInv, NEW h \in Handlers, Return(h)
  PROVE  HandlersOK'
<1>1. Idle \in Request
  BY DEF Idle, Entry, Request
<1> QED BY <1>1 DEF IInv, HandlersOK, PlacesOK, Working, Labels, Return, Go

\* An insertion of the handler's manifest, with one of its tags.
LEMMA InsertTypes ==
  ASSUME IInv, NEW h \in Handlers, pc[h] = "insert"
  PROVE  LET r == req[h]
             d == r.entry.dig
             members == IF Parsed(d).kind = "index" THEN Parsed(d).refs ELSE <<>>
         IN  /\ d \in Manifests /\ r.tags \in Seq(Tags \union {None}) /\ r.tags # <<>>
             /\ Head(r.tags) \in Tags \union {None}
             /\ Len(r.tags) > 1 => Tail(r.tags) \in Seq(Tags \union {None}) /\ Tail(r.tags) # <<>>
             /\ IsManifest(Entry(d, Head(r.tags), None)) /\ members \in Seq(Listable)
             /\ ToSet(members) = {} \/ members = Parsed(d).refs
<1> DEFINE r == req[h]
           d == r.entry.dig
           members == IF Parsed(d).kind = "index" THEN Parsed(d).refs ELSE <<>>
<1>1. r \in Request /\ d \in Manifests /\ r.tags # <<>>
  BY DEF IInv, HandlersOK, PlacesOK, Working
<1>2. r.tags \in Seq(Tags \union {None})
  BY <1>1 DEF Request
<1>3. Head(r.tags) \in Tags \union {None}
  BY <1>1, <1>2
<1>4. Len(r.tags) > 1 => Tail(r.tags) \in Seq(Tags \union {None}) /\ Tail(r.tags) # <<>>
  <2>1. Len(r.tags) > 1 => Tail(r.tags) \in Seq(Tags \union {None}) /\ Len(Tail(r.tags)) > 0
    BY <1>1, <1>2
  <2>2. Len(<<>>) = 0
    OBVIOUS
  <2> DEFINE rest == Tail(r.tags)
  <2> HIDE DEF rest
  <2>3. Len(rest) > 0 => rest # <<>>
    BY <2>2
  <2> QED BY <2>1, <2>3 DEF rest
<1>5. members \in Seq(Listable)
  <2>1. Parsed(d).kind = "index" => Parsed(d).refs \in Seq(Manifests)
    BY <1>1, ParsedIs
  <2>2. Seq(Manifests) \subseteq Seq(Listable)
    BY DEF Listable
  <2>3. <<>> \in Seq(Listable)
    OBVIOUS
  <2>4. CASE Parsed(d).kind = "index"
    <3> HIDE DEF d
    <3> QED BY <2>1, <2>2, <2>4
  <2>5. CASE Parsed(d).kind # "index"
    <3> HIDE DEF d
    <3> QED BY <2>3, <2>5
  <2> QED BY <2>4, <2>5
<1>6. IsManifest(Entry(d, Head(r.tags), None))
  BY <1>1, <1>3 DEF IsManifest, Entry, Descriptors, Listable
<1>7. ToSet(members) = {} \/ members = Parsed(d).refs
  BY DEF ToSet
<1> QED BY <1>1, <1>2, <1>3, <1>4, <1>5, <1>6, <1>7

\* An insertion of a response.
LEMMA ResponseTypes ==
  ASSUME IInv, NEW h \in Handlers, pc[h] \in {"respRead", "respStore", "respInsert"}
  PROVE  /\ req[h].entry.dig \in Referrers /\ req[h].resp \in Seq(Referrers)
         /\ Subject(h) \in Manifests
         /\ IsResponse(Entry(req[h].resp, None, Subject(h)))
         /\ req[h].resp \in Seq(Listable)
<1>1. req[h].entry.dig \in Referrers /\ req[h].resp \in Seq(Referrers)
  BY DEF IInv, HandlersOK, PlacesOK, Working, Request
<1>2. Subject(h) \in Manifests
  BY <1>1, SubjectIs
<1>3. IsResponse(Entry(req[h].resp, None, Subject(h)))
  BY <1>1, <1>2 DEF IsResponse, Entry, Descriptors, Listable
<1>4. req[h].resp \in Seq(Listable)
  <2>1. Seq(Referrers) \subseteq Seq(Listable)
    BY DEF Listable, Referrers
  <2> QED BY <1>1, <2>1
<1> QED BY <1>1, <1>2, <1>3, <1>4

\* The request that a handler begins.
LEMMA RequestIs ==
  ASSUME NEW e, NEW tags
  PROVE  /\ [Idle EXCEPT !.op = "put", !.entry = e, !.tags = tags]
              = [op |-> "put", entry |-> e, tags |-> tags, resp |-> <<>>]
         /\ [Idle EXCEPT !.op = "delete", !.entry = e]
              = [op |-> "delete", entry |-> e, tags |-> <<>>, resp |-> <<>>]
<1> DEFINE r == [Idle EXCEPT !.op = "put", !.entry = e, !.tags = tags]
           q == [Idle EXCEPT !.op = "delete", !.entry = e]
<1>1. r \in [op: {"put"}, entry: {e}, tags: {tags}, resp: {<<>>}]
  BY DEF Idle
<1>2. q \in [op: {"delete"}, entry: {e}, tags: {<<>>}, resp: {<<>>}]
  BY DEF Idle
<1> HIDE DEF r, q
<1>3. r = [op |-> "put", entry |-> e, tags |-> tags, resp |-> <<>>]
  BY <1>1
<1>4. q = [op |-> "delete", entry |-> e, tags |-> <<>>, resp |-> <<>>]
  BY <1>2
<1> QED BY <1>3, <1>4 DEF r, q

\* Every step keeps the types, and the index written.
LEMMA TypesStep ==
  ASSUME IInv, [Next /\ UNCHANGED setup]_vars
  PROVE  IInv'
<1>0. /\ StoreOK /\ Written(index) /\ ServerOK
      /\ pc \in [Handlers -> Labels] /\ req \in [Handlers -> Request] /\ Working
  BY DEF IInv, HandlersOK, PlacesOK
<1>1. ASSUME UNCHANGED store PROVE StoreOK'
  BY <1>0, <1>1 DEF store, StoreOK, Digests
<1>2. ASSUME UNCHANGED index PROVE Written(index')
  BY <1>0, <1>2
<1>3. ASSUME UNCHANGED <<pc, req>> PROVE HandlersOK'
  BY <1>0, <1>3 DEF HandlersOK, PlacesOK, Working, Labels, Request
<1>4. ASSUME UNCHANGED setup, StoreOK', Written(index'), HandlersOK' PROVE IInv'
  <2>1. Written(index)'
    BY <1>4 DEF Written, Listable
  <2>2. ServerOK'
    BY <1>0, <1>4 DEF ServerOK, setup
  <2> QED BY <1>4, <2>1, <2>2 DEF IInv
<1>5. CASE UNCHANGED vars
  BY <1>1, <1>2, <1>3, <1>4, <1>5 DEF vars, setup, store
<1> SUFFICES ASSUME Next, UNCHANGED setup PROVE IInv'
  BY <1>5
<1>6. ASSUME UNCHANGED <<index, pc, req>>, StoreOK' PROVE IInv'
  BY <1>2, <1>3, <1>4, <1>6
<1>7. ASSUME NEW d \in Digests, CreateBlob(d) PROVE StoreOK'
  BY <1>0, <1>7, StoreTypes DEF CreateBlob
<1>9. ASSUME NEW b \in clients.upload, BlobUpload(b) PROVE IInv'
  <2>1. b \in Digests
    BY <1>0, <1>9, ClientTypes DEF Digests
  <2>2. StoreOK'
    BY <1>0, <1>9, <2>1, StoreTypes DEF BlobUpload
  <2> QED BY <1>6, <1>9, <2>2 DEF BlobUpload
<1>10. ASSUME NEW d \in clients.deleteBlobs, BlobDelete(d) PROVE IInv'
  <2>1. StoreOK'
    BY <1>0, <1>10, StoreTypes DEF BlobDelete
  <2> QED BY <1>6, <1>10, <2>1 DEF BlobDelete
<1>11. ASSUME NEW d \in fresh, Age(d) PROVE IInv'
  <2>1. StoreOK'
    BY <1>0, <1>11 DEF Age, StoreOK, Digests
  <2> QED BY <1>6, <1>11, <2>1 DEF Age
<1>12. ASSUME NEW h \in Handlers, NEW p \in clients.push, PutBegin(h, p[1], p[2]) PROVE IInv'
  <2>1. p[1] \in Manifests /\ p[2] \in Seq(Tags)
    BY <1>0, ClientTypes
  <2> DEFINE tags == IF p[2] = <<>> THEN <<None>> ELSE p[2]
             r == [op |-> "put", entry |-> Entry(p[1], None, None), tags |-> tags, resp |-> <<>>]
  <2>2. tags \in Seq(Tags \union {None}) /\ tags # <<>>
    <3>1. p[2] \in Seq(Tags \union {None}) /\ <<None>> \in Seq(Tags \union {None})
      BY <2>1
    <3>2. <<None>> # <<>>
      OBVIOUS
    <3> QED BY <3>1, <3>2
  <2>3. req' = [req EXCEPT ![h] = r] /\ pc' = [pc EXCEPT ![h] = "store"]
    BY <1>12, RequestIs, Zenon DEF PutBegin, Go
  <2> HIDE DEF tags
  <2>4. r \in Request /\ r.op = "put" /\ r.tags # <<>> /\ r.entry.dig = p[1]
    BY <2>1, <2>2 DEF Request, Entry
  <2> HIDE DEF r
  <2>5. HandlersOK'
    BY <2>1, <2>3, <2>4, HandlerTypes DEF Labels
  <2> QED BY <1>4, <1>1, <1>2, <1>12, <2>5 DEF PutBegin
<1>13. ASSUME NEW h \in Handlers, PutStore(h) PROVE IInv'
  <2>1. req[h].op = "put" /\ req[h].tags # <<>> /\ req[h].entry.dig \in Digests
    BY <1>0, <1>13 DEF PutStore, Working, Digests
  <2>2. HandlersOK'
    BY <1>13, <2>1, GoTypes DEF PutStore, Labels
  <2> QED BY <1>4, <1>2, <1>7, <1>13, <2>1, <2>2 DEF PutStore
<1>14. ASSUME NEW h \in Handlers, PutInsert(h) PROVE IInv'
  <2> DEFINE r == req[h]
             d == r.entry.dig
             members == IF Parsed(d).kind = "index" THEN Parsed(d).refs ELSE <<>>
             rest == [r EXCEPT !.tags = Tail(r.tags)]
  <2>1. /\ pc[h] = "insert" /\ UNCHANGED store
        /\ index' = AddDesc(index, Entry(d, Head(r.tags), None), members)
    BY <1>14 DEF PutInsert
  <2>2. /\ d \in Manifests
        /\ Len(r.tags) > 1 => Tail(r.tags) \in Seq(Tags \union {None}) /\ Tail(r.tags) # <<>>
        /\ IsManifest(Entry(d, Head(r.tags), None)) /\ members \in Seq(Listable)
    BY <2>1, InsertTypes
  <2>3. r \in Request /\ r.op = "put"
    BY <1>0, <2>1 DEF Working
  <2>4. \/ Len(r.tags) > 1 /\ req' = [req EXCEPT ![h] = rest] /\ UNCHANGED pc
        \/ d \in Referrers /\ Go(h, "respRead") /\ UNCHANGED req
        \/ Return(h)
    BY <1>14 DEF PutInsert
  <2> HIDE DEF r, d, members
  <2>5. Written(index')
    BY <1>0, <2>1, <2>2, InsertIs
  <2>6. CASE Len(r.tags) > 1 /\ req' = [req EXCEPT ![h] = rest] /\ UNCHANGED pc
    <3>1. rest \in Request /\ rest.tags # <<>> /\ rest.op = "put" /\ rest.entry.dig = d
      BY <2>2, <2>3, <2>6 DEF Request, d
    <3>2. pc' = [pc EXCEPT ![h] = "insert"]
      BY <1>0, <2>1, <2>6
    <3> HIDE DEF rest
    <3>3. HandlersOK'
      BY <2>2, <2>6, <3>1, <3>2, HandlerTypes DEF Labels
    <3> QED BY <1>4, <1>1, <2>1, <2>5, <3>3
  <2>7. CASE d \in Referrers /\ Go(h, "respRead") /\ UNCHANGED req
    <3>1. HandlersOK'
      BY <2>1, <2>7, GoTypes DEF Labels, d, r
    <3> QED BY <1>4, <1>1, <2>1, <2>5, <3>1
  <2>8. CASE Return(h)
    <3>1. HandlersOK'
      BY <2>8, ReturnTypes
    <3> QED BY <1>4, <1>1, <2>1, <2>5, <3>1
  <2> QED BY <2>4, <2>6, <2>7, <2>8
<1>15. ASSUME NEW h \in Handlers, AddReadResponse(h) \/ DeleteReadResponse(h) PROVE IInv'
  <2> DEFINE d == req[h].entry.dig
             old == Readable(Subject(h))
             from == IF old = None THEN <<>> ELSE old
             Set(ls) == [req[h] EXCEPT !.resp = ls]
  <2>1. pc[h] = "respRead" /\ UNCHANGED <<store, index>>
    BY <1>15 DEF AddReadResponse, DeleteReadResponse
  <2>2. d \in Referrers /\ Subject(h) \in Manifests
    BY <2>1, ResponseTypes
  <2>3. old = None \/ old \in Seq(Referrers)
    BY <1>0, <2>2, ReadableIs
  <2>4. req[h] \in Request /\ req[h].op \in {"put", "delete"} /\ d \in Manifests
    BY <1>0, <2>1 DEF Working
  <2> HIDE DEF d
  <2>5. ASSUME NEW ls \in Seq(Referrers), req' = [req EXCEPT ![h].resp = ls], Go(h, "respStore")
        PROVE  HandlersOK'
    <3>1. Set(ls) \in Request /\ Set(ls).op = req[h].op /\ Set(ls).entry.dig = d
      BY <2>4 DEF Request, d
    <3>2. req' = [req EXCEPT ![h] = Set(ls)] /\ pc' = [pc EXCEPT ![h] = "respStore"]
      BY <2>5 DEF Go
    <3> HIDE DEF Set
    <3> QED BY <2>2, <2>4, <3>1, <3>2, HandlerTypes DEF Labels
  <2>6. CASE AddReadResponse(h)
    <3>1. from \in Seq(Referrers)
      BY <2>3
    <3>2. req' = [req EXCEPT ![h].resp = Listed(from, d)] /\ Go(h, "respStore")
      BY <2>6 DEF AddReadResponse, d
    <3> HIDE DEF from
    <3>3. Listed(from, d) \in Seq(Referrers)
      BY <2>2, <3>1, ListIs
    <3>4. HandlersOK'
      BY <2>5, <3>2, <3>3
    <3> QED BY <1>4, <1>1, <1>2, <2>1, <3>4
  <2>7. CASE DeleteReadResponse(h) /\ old = None
    <3>1. req[h].op = "delete" /\ Go(h, "remove") /\ UNCHANGED req
      BY <2>7 DEF DeleteReadResponse
    <3>2. HandlersOK'
      BY <2>1, <3>1, GoTypes DEF Labels
    <3> QED BY <1>4, <1>1, <1>2, <2>1, <3>2
  <2>8. CASE DeleteReadResponse(h) /\ old # None
    <3>1. req' = [req EXCEPT ![h].resp = Only(old, ToSet(old) \ {d})] /\ Go(h, "respStore")
      BY <2>8 DEF DeleteReadResponse, d
    <3> HIDE DEF old
    <3>2. Only(old, ToSet(old) \ {d}) \in Seq(Referrers)
      BY <2>2, <2>3, <2>8, ListIs
    <3>3. HandlersOK'
      BY <2>5, <3>1, <3>2
    <3> QED BY <1>4, <1>1, <1>2, <2>1, <3>3
  <2> QED BY <1>15, <2>6, <2>7, <2>8
<1>16. ASSUME NEW h \in Handlers, StoreResponse(h) PROVE IInv'
  <2>1. req[h].entry.dig \in Referrers /\ req[h].resp \in Digests
    BY <1>16, ResponseTypes DEF StoreResponse, Digests
  <2>2. HandlersOK'
    BY <1>16, <2>1, GoTypes DEF StoreResponse, Labels
  <2> QED BY <1>4, <1>2, <1>7, <1>16, <2>1, <2>2 DEF StoreResponse
<1>17. ASSUME NEW h \in Handlers, InsertResponse(h) PROVE IInv'
  <2> DEFINE new == req[h].resp
             e == Entry(new, None, Subject(h))
  <2>1. pc[h] = "respInsert" /\ index' = AddDesc(index, e, new) /\ UNCHANGED store
    BY <1>17 DEF InsertResponse
  <2>2. IsResponse(e) /\ new \in Seq(Listable)
    BY <2>1, ResponseTypes
  <2>3. req[h].op \in {"put", "delete"}
    BY <1>0, <2>1 DEF Working
  <2> HIDE DEF new, e
  <2>4. Written(index')
    BY <1>0, <2>1, <2>2, InsertIs
  <2>5. HandlersOK'
    <3>1. CASE req[h].op = "put"
      BY <1>17, <3>1, ReturnTypes DEF InsertResponse
    <3>2. CASE req[h].op # "put"
      BY <1>17, <2>1, <2>3, <3>2, GoTypes DEF InsertResponse, Labels
    <3> QED BY <3>1, <3>2
  <2> QED BY <1>4, <1>1, <2>1, <2>4, <2>5
<1>18. ASSUME NEW h \in Handlers, NEW d \in Manifests, NEW t \in Tags \union {None},
              DeleteBegin(h, Entry(d, t, None))
       PROVE  IInv'
  <2> DEFINE e == Entry(d, t, None)
             r == [op |-> "delete", entry |-> e, tags |-> <<>>, resp |-> <<>>]
             label == IF e.dig \in blobs \cap Referrers THEN "respRead" ELSE "remove"
  <2>1. req' = [req EXCEPT ![h] = r] /\ pc' = [pc EXCEPT ![h] = label] /\ UNCHANGED <<store, index>>
    BY <1>18, RequestIs, Zenon DEF DeleteBegin, Go
  <2>2. r \in Request /\ r.op = "delete" /\ r.entry.dig = d
    BY DEF Request, Entry
  <2>3. label \in {"respRead", "remove"} /\ (label = "respRead" => d \in Referrers)
    BY DEF Entry
  <2> HIDE DEF r, label
  <2>4. HandlersOK'
    BY <2>1, <2>2, <2>3, HandlerTypes DEF Labels
  <2> QED BY <1>4, <1>1, <1>2, <2>1, <2>4
<1>19. ASSUME NEW h \in Handlers, NEW t \in clients.deleteTags, DeleteTag(h, t) PROVE IInv'
  <2>1. t \in Tags
    BY <1>0, ClientTypes
  <2>2. Resolve(index, t) \in Manifests
    BY <1>0, <1>19, <2>1, ResolvesTo DEF DeleteTag
  <2> QED BY <1>18, <1>19, <2>1, <2>2 DEF DeleteTag
<1>20. ASSUME NEW h \in Handlers, NEW d \in clients.deleteManifests, DeleteDigest(h, d) PROVE IInv'
  <2>1. d \in Manifests
    BY <1>0, ClientTypes
  <2> QED BY <1>18, <1>20, <2>1 DEF DeleteDigest
<1>21. ASSUME NEW h \in Handlers, DeleteRemove(h) PROVE IInv'
  <2>1. req[h].entry.subj = None /\ req[h].entry.dig \in Manifests
    BY <1>0, <1>21 DEF DeleteRemove, Working, Request
  <2>2. Written(index')
    BY <1>0, <1>21, <2>1, RemoveIs DEF DeleteRemove
  <2>3. HandlersOK'
    BY <1>21, ReturnTypes DEF DeleteRemove
  <2> QED BY <1>4, <1>1, <1>21, <2>2, <2>3 DEF DeleteRemove
<1>22. ASSUME GC PROVE IInv'
  <2>1. StoreOK'
    BY <1>0, <1>22, StoreTypes DEF GC
  <2>2. Written(index')
    BY <1>0, <1>22, RmDigestsIs DEF GC, Collected
  <2> QED BY <1>4, <1>3, <1>22, <2>1, <2>2 DEF GC
<1> QED
  BY <1>9, <1>10, <1>11, <1>12, <1>13, <1>14, <1>15, <1>16, <1>17, <1>19, <1>20, <1>21, <1>22
  DEF Next

\* The inductive invariant of every server: the store is finite, the index is one the
\* server writes, and each handler holds what its next call needs.
THEOREM RegistryInvariance == Spec => []IInv
<1>1. IInv /\ [Next /\ UNCHANGED setup]_vars => IInv'
  BY TypesStep
<1> QED BY InitIInv, <1>1, PTL DEF Spec

\* The types of what a handler, the store and the index hold (Registry.TypeOK).
THEOREM RegistryTypes == Spec => []TypeOK
<1>1. IInv => TypeOK
  <2> SUFFICES ASSUME IInv PROVE TypeOK
    OBVIOUS
  <2>1. index.manifests \in Seq(Descriptors(Listable, Tags)) /\ index.children \in Seq(Listable)
    BY DEF IInv, Written, Layouts
  <2>2. \A e \in ToSet(index.manifests) :
          e \in [dig: Digests, tag: Tags \union {None}, subj: Manifests \union {None}]
    <3> SUFFICES ASSUME NEW e \in ToSet(index.manifests)
                 PROVE  e \in [dig: Digests, tag: Tags \union {None}, subj: Manifests \union {None}]
      OBVIOUS
    <3>1. e \in Descriptors(Listable, Tags) /\ e.subj \in Manifests \union {None}
      BY WrittenEntries DEF IInv
    <3>2. e.dig \in Digests
      BY <3>1, DigestKinds DEF Descriptors
    <3> QED BY <3>1, <3>2 DEF Descriptors
  <2>3. /\ index.manifests \in
            Seq([dig: Digests, tag: Tags \union {None}, subj: Manifests \union {None}])
        /\ index.children \in Seq(Digests)
    <3> DEFINE ms == index.manifests
               X  == [dig: Digests, tag: Tags \union {None}, subj: Manifests \union {None}]
    <3>1. \A i \in 1..Len(ms) : ms[i] \in ToSet(ms)
      BY <2>1, Elements, Zenon
    <3>2. \A i \in 1..Len(ms) : ms[i] \in X
      BY <2>2, <3>1
    <3> HIDE DEF X
    <3>3. ms \in Seq(X)
      BY <2>1, <3>2
    <3>4. index.children \in Seq(Digests)
      BY <2>1, DigestKinds
    <3> QED BY <3>3, <3>4 DEF X
  <2> QED BY <2>3 DEF IInv, StoreOK, HandlersOK, PlacesOK, Labels, TypeOK
<1> QED BY RegistryInvariance, <1>1, PTL

-----------------------------------------------------------------------------
\* The one handler that takes a step.
Others(h) == \A g \in Handlers : g # h => pc'[g] = pc[g] /\ req'[g] = req[g]
Goes(h, label, r) == Others(h) /\ pc'[h] = label /\ req'[h] = r

\* The assignments of a handler's step.
LEMMA GoesTo ==
  ASSUME HandlersOK, NEW h \in Handlers, NEW label, pc' = [pc EXCEPT ![h] = label]
  PROVE  /\ \A r : req' = [req EXCEPT ![h] = r] => Goes(h, label, r)
         /\ req' = req => Goes(h, label, req[h])
BY DEF HandlersOK, PlacesOK, Goes, Others

\* The tags that a PUT inserts its manifest with.
Pushed(tags) == IF tags = <<>> THEN <<None>> ELSE tags

\* PutBegin, and DeleteBegin.
LEMMA BeginSteps ==
  ASSUME HandlersOK, NEW h \in Handlers
  PROVE  /\ \A d, tags : PutBegin(h, d, tags) =>
              /\ pc[h] = "idle" /\ req[h] = Idle /\ Arrive(h) /\ Verified(d)
              /\ UNCHANGED <<store, index>>
              /\ \E r : /\ Goes(h, "store", r) /\ r.op = "put" /\ r.entry = Entry(d, None, None)
                        /\ r.tags = Pushed(tags)
         /\ \A e : DeleteBegin(h, e) =>
              /\ pc[h] = "idle" /\ req[h] = Idle /\ Arrive(h) /\ UNCHANGED <<store, index>>
              /\ \E r : /\ Goes(h, IF e.dig \in blobs \cap Referrers THEN "respRead" ELSE "remove", r)
                        /\ r.op = "delete" /\ r.entry = e
<1>0. pc[h] = "idle" => req[h] = Idle
  BY DEF HandlersOK, Working
<1>1. ASSUME NEW d, NEW tags, PutBegin(h, d, tags)
      PROVE  /\ pc[h] = "idle" /\ Verified(d) /\ UNCHANGED <<store, index>>
             /\ \E r : /\ Goes(h, "store", r) /\ r.op = "put" /\ r.entry = Entry(d, None, None)
                       /\ r.tags = Pushed(tags)
  <2> DEFINE ts == Pushed(tags)
             e == Entry(d, None, None)
             r == [op |-> "put", entry |-> e, tags |-> ts, resp |-> <<>>]
  <2>1. req' = [req EXCEPT ![h] = r]
    BY <1>1, RequestIs, Zenon DEF PutBegin, Pushed
  <2>2. pc' = [pc EXCEPT ![h] = "store"]
    BY <1>1 DEF PutBegin, Go
  <2> HIDE DEF e, ts
  <2>3. r.op = "put" /\ r.entry = e /\ r.tags = ts
    OBVIOUS
  <2> HIDE DEF r
  <2>4. Goes(h, "store", r)
    BY <2>1, <2>2, GoesTo
  <2>5. \E q : Goes(h, "store", q) /\ q.op = "put" /\ q.entry = e /\ q.tags = ts
    BY <2>3, <2>4, Zenon
  <2>6. \E q : /\ Goes(h, "store", q) /\ q.op = "put" /\ q.entry = Entry(d, None, None)
               /\ q.tags = Pushed(tags)
    BY <2>5 DEF e, ts
  <2> QED BY <1>1, <2>6 DEF PutBegin, Arrive
<1>2. ASSUME NEW e, DeleteBegin(h, e)
      PROVE  /\ pc[h] = "idle" /\ UNCHANGED <<store, index>>
             /\ \E r : /\ Goes(h, IF e.dig \in blobs \cap Referrers THEN "respRead" ELSE "remove", r)
                       /\ r.op = "delete" /\ r.entry = e
  <2> DEFINE label == IF e.dig \in blobs \cap Referrers THEN "respRead" ELSE "remove"
             r == [op |-> "delete", entry |-> e, tags |-> <<>>, resp |-> <<>>]
  <2>1. req' = [req EXCEPT ![h] = r]
    BY <1>2, RequestIs, Zenon DEF DeleteBegin
  <2>2. pc' = [pc EXCEPT ![h] = label]
    BY <1>2 DEF DeleteBegin, Go
  <2>3. r.op = "delete" /\ r.entry = e
    OBVIOUS
  <2> HIDE DEF r, label
  <2>4. Goes(h, label, r)
    BY <2>1, <2>2, GoesTo
  <2>5. \E q : Goes(h, label, q) /\ q.op = "delete" /\ q.entry = e
    BY <2>3, <2>4, Zenon
  <2> QED BY <1>2, <2>5 DEF DeleteBegin, Arrive, label
<1>3. /\ \A d, tags : PutBegin(h, d, tags) => Arrive(h)
      /\ \A e : DeleteBegin(h, e) => Arrive(h)
  BY DEF PutBegin, DeleteBegin
<1> QED BY <1>0, <1>1, <1>2, <1>3

\* The other steps of a PUT.
LEMMA PutSteps ==
  ASSUME HandlersOK, NEW h \in Handlers
  PROVE  /\ PutStore(h) => pc[h] = "store" /\ Goes(h, "insert", req[h])
         /\ PutInsert(h) =>
              /\ pc[h] = "insert"
              /\ \/ \E r : /\ Goes(h, "insert", r) /\ r.op = req[h].op /\ r.entry = req[h].entry
                           /\ r.tags = Tail(req[h].tags) /\ Len(req[h].tags) > 1
                 \/ req[h].entry.dig \in Referrers /\ Goes(h, "respRead", req[h])
                 \/ req[h].entry.dig \notin Referrers /\ Goes(h, "idle", Idle)
<1>0. req[h] \in Request \/ req[h] = Idle
  BY DEF HandlersOK, PlacesOK
<1>1. ASSUME PutStore(h) PROVE pc[h] = "store" /\ Goes(h, "insert", req[h])
  BY <1>1, GoesTo DEF PutStore, Go
<1>2. ASSUME PutInsert(h)
      PROVE  \/ \E r : /\ Goes(h, "insert", r) /\ r.op = req[h].op /\ r.entry = req[h].entry
                       /\ r.tags = Tail(req[h].tags) /\ Len(req[h].tags) > 1
             \/ req[h].entry.dig \in Referrers /\ Goes(h, "respRead", req[h])
             \/ req[h].entry.dig \notin Referrers /\ Goes(h, "idle", Idle)
  <2> DEFINE r == [req[h] EXCEPT !.tags = Tail(req[h].tags)]
  <2>1. pc[h] = "insert" /\ req[h] \in Request
    BY <1>2 DEF PutInsert, HandlersOK, PlacesOK
  <2>2. \/ Len(req[h].tags) > 1 /\ req' = [req EXCEPT ![h] = r] /\ pc' = pc
        \/ req[h].entry.dig \in Referrers /\ pc' = [pc EXCEPT ![h] = "respRead"] /\ req' = req
        \/ /\ req[h].entry.dig \notin Referrers
           /\ pc' = [pc EXCEPT ![h] = "idle"] /\ req' = [req EXCEPT ![h] = Idle]
    BY <1>2 DEF PutInsert, Go, Return
  <2>3. r.op = req[h].op /\ r.entry = req[h].entry /\ r.tags = Tail(req[h].tags)
    BY <2>1 DEF Request
  <2> HIDE DEF r
  <2>4. CASE Len(req[h].tags) > 1 /\ req' = [req EXCEPT ![h] = r] /\ pc' = pc
    <3>1. pc' = [pc EXCEPT ![h] = "insert"]
      BY <2>1, <2>4 DEF HandlersOK, PlacesOK
    <3>2. Goes(h, "insert", r)
      BY <2>4, <3>1, GoesTo
    <3> QED BY <2>3, <2>4, <3>2
  <2>5. CASE req[h].entry.dig \in Referrers /\ pc' = [pc EXCEPT ![h] = "respRead"] /\ req' = req
    BY <2>5, GoesTo
  <2>6. CASE /\ req[h].entry.dig \notin Referrers
             /\ pc' = [pc EXCEPT ![h] = "idle"] /\ req' = [req EXCEPT ![h] = Idle]
    BY <2>6, GoesTo
  <2> QED BY <2>2, <2>4, <2>5, <2>6
<1>3. PutInsert(h) => pc[h] = "insert"
  BY DEF PutInsert
<1> QED BY <1>1, <1>2, <1>3

\* The steps on a response, and the removal.
LEMMA ResponseSteps ==
  ASSUME HandlersOK, NEW h \in Handlers
  PROVE  LET d   == req[h].entry.dig
             old == Readable(Subject(h))
             Has(r, ls) == r.op = req[h].op /\ r.entry = req[h].entry /\ r.resp = ls
         IN  /\ AddReadResponse(h) =>
                  /\ pc[h] = "respRead" /\ req[h].op = "put" /\ UNCHANGED <<store, index>>
                  /\ \E r : /\ Goes(h, "respStore", r)
                            /\ Has(r, Listed(IF old = None THEN <<>> ELSE old, d))
             /\ DeleteReadResponse(h) =>
                  /\ pc[h] = "respRead" /\ req[h].op = "delete" /\ UNCHANGED <<store, index>>
                  /\ \/ old = None /\ Goes(h, "remove", req[h])
                     \/ /\ old # None
                        /\ \E r : Goes(h, "respStore", r) /\ Has(r, Only(old, ToSet(old) \ {d}))
             /\ StoreResponse(h) => pc[h] = "respStore" /\ Goes(h, "respInsert", req[h])
             /\ InsertResponse(h) =>
                  /\ pc[h] = "respInsert"
                  /\ \/ req[h].op = "put" /\ Goes(h, "idle", Idle)
                     \/ req[h].op # "put" /\ Goes(h, "remove", req[h])
             /\ DeleteRemove(h) => pc[h] = "remove" /\ Goes(h, "idle", Idle)
<1> DEFINE d   == req[h].entry.dig
           old == Readable(Subject(h))
           Has(r, ls) == r.op = req[h].op /\ r.entry = req[h].entry /\ r.resp = ls
           from == IF old = None THEN <<>> ELSE old
<1>0. req[h] \in Request
  BY DEF HandlersOK, PlacesOK
<1>1. ASSUME NEW ls, req' = [req EXCEPT ![h].resp = ls], Go(h, "respStore")
      PROVE  \E r : Goes(h, "respStore", r) /\ Has(r, ls)
  <2> DEFINE r == [req[h] EXCEPT !.resp = ls]
  <2>1. req' = [req EXCEPT ![h] = r] /\ pc' = [pc EXCEPT ![h] = "respStore"]
    BY <1>1 DEF Go
  <2>2. Has(r, ls)
    BY <1>0 DEF Request
  <2> HIDE DEF r
  <2>3. Goes(h, "respStore", r)
    BY <2>1, GoesTo
  <2> QED BY <2>2, <2>3
<1> HIDE DEF Has
<1>2. ASSUME AddReadResponse(h)
      PROVE  /\ pc[h] = "respRead" /\ req[h].op = "put" /\ UNCHANGED <<store, index>>
             /\ \E r : Goes(h, "respStore", r) /\ Has(r, Listed(from, d))
  <2>1. req' = [req EXCEPT ![h].resp = Listed(from, d)] /\ Go(h, "respStore")
    BY <1>2 DEF AddReadResponse
  <2>2. \E r : Goes(h, "respStore", r) /\ Has(r, Listed(from, d))
    BY <1>1, <2>1, Zenon
  <2> QED BY <1>2, <2>2 DEF AddReadResponse
<1>3. ASSUME DeleteReadResponse(h)
      PROVE  /\ pc[h] = "respRead" /\ req[h].op = "delete" /\ UNCHANGED <<store, index>>
             /\ \/ old = None /\ Goes(h, "remove", req[h])
                \/ /\ old # None
                   /\ \E r : Goes(h, "respStore", r) /\ Has(r, Only(old, ToSet(old) \ {d}))
  <2>1. CASE old = None
    <3>1. pc' = [pc EXCEPT ![h] = "remove"] /\ req' = req
      BY <1>3, <2>1 DEF DeleteReadResponse, Go
    <3>2. Goes(h, "remove", req[h])
      BY <3>1, GoesTo
    <3> QED BY <1>3, <2>1, <3>2 DEF DeleteReadResponse
  <2>2. CASE old # None
    <3>1. req' = [req EXCEPT ![h].resp = Only(old, ToSet(old) \ {d})] /\ Go(h, "respStore")
      BY <1>3, <2>2, Zenon DEF DeleteReadResponse
    <3>2. \E r : Goes(h, "respStore", r) /\ Has(r, Only(old, ToSet(old) \ {d}))
      BY <1>1, <3>1, Zenon
    <3> QED BY <1>3, <2>2, <3>2 DEF DeleteReadResponse
  <2> QED BY <2>1, <2>2
<1>4. ASSUME StoreResponse(h) PROVE pc[h] = "respStore" /\ Goes(h, "respInsert", req[h])
  BY <1>4, GoesTo DEF StoreResponse, Go
<1>5. ASSUME InsertResponse(h)
      PROVE  /\ pc[h] = "respInsert"
             /\ \/ req[h].op = "put" /\ Goes(h, "idle", Idle)
                \/ req[h].op # "put" /\ Goes(h, "remove", req[h])
  BY <1>5, GoesTo DEF InsertResponse, Return, Go
<1>6. ASSUME DeleteRemove(h) PROVE pc[h] = "remove" /\ Goes(h, "idle", Idle)
  BY <1>6, GoesTo DEF DeleteRemove, Return, Go
<1> QED BY <1>2, <1>3, <1>4, <1>5, <1>6, Zenon DEF Has

-----------------------------------------------------------------------------
(* What the index names is in the store *)

\* What the three steps that change the index do to it.
LEMMA IndexSteps ==
  ASSUME IInv, NEW h \in Handlers
  PROVE  LET d == req[h].entry.dig
         IN  /\ PutInsert(h) =>
                  /\ d \in Manifests /\ UNCHANGED store
                  /\ \E e : /\ e.dig = d /\ e.tag = Head(req[h].tags) /\ e.subj = None
                            /\ req[h].tags # <<>> /\ req[h].tags \in Seq(Tags \union {None})
                            /\ Written(index') /\ Added(index', index, e) /\ Descends(index', index, e)
             /\ InsertResponse(h) =>
                  /\ d \in Referrers /\ Content[d].subj \in Manifests
                  /\ req[h].resp \in Seq(Referrers) /\ UNCHANGED store
                  /\ \E e : /\ e.dig = req[h].resp /\ e.tag = None /\ e.subj = Content[d].subj
                            /\ Written(index') /\ Added(index', index, e) /\ Descends(index', index, e)
             /\ DeleteRemove(h) =>
                  /\ d \in Manifests /\ req[h].entry.subj = None /\ UNCHANGED store
                  /\ Written(index') /\ Remains(index', index)
                  /\ req[h].entry.tag = None => DigestRemoved(index', index, d)
                  /\ req[h].entry.tag # None => TagRemoved(index', index, req[h].entry)
<1> DEFINE d == req[h].entry.dig
<1>0. Written(index) /\ req[h] \in Request /\ Working
  BY DEF IInv, HandlersOK, PlacesOK
<1>1. ASSUME PutInsert(h)
      PROVE  /\ d \in Manifests /\ UNCHANGED store
             /\ \E e : /\ e.dig = d /\ e.tag = Head(req[h].tags) /\ e.subj = None
                       /\ req[h].tags # <<>> /\ req[h].tags \in Seq(Tags \union {None})
                       /\ Written(index') /\ Added(index', index, e) /\ Descends(index', index, e)
  <2> DEFINE members == IF Parsed(d).kind = "index" THEN Parsed(d).refs ELSE <<>>
             e == Entry(d, Head(req[h].tags), None)
  <2>1. pc[h] = "insert" /\ UNCHANGED store /\ index' = AddDesc(index, e, members)
    BY <1>1 DEF PutInsert
  <2>2. /\ d \in Manifests /\ IsManifest(e) /\ members \in Seq(Listable)
        /\ req[h].tags # <<>> /\ req[h].tags \in Seq(Tags \union {None})
    BY <2>1, InsertTypes
  <2>3. e.dig = d /\ e.tag = Head(req[h].tags) /\ e.subj = None
    BY DEF Entry
  <2> HIDE DEF e, members, d
  <2>4. Written(index') /\ Added(index', index, e) /\ Descends(index', index, e)
    BY <1>0, <2>1, <2>2, InsertIs
  <2> QED BY <2>1, <2>2, <2>3, <2>4, Zenon
<1>2. ASSUME InsertResponse(h)
      PROVE  /\ d \in Referrers /\ Content[d].subj \in Manifests
             /\ req[h].resp \in Seq(Referrers) /\ UNCHANGED store
             /\ \E e : /\ e.dig = req[h].resp /\ e.tag = None /\ e.subj = Content[d].subj
                       /\ Written(index') /\ Added(index', index, e) /\ Descends(index', index, e)
  <2> DEFINE e == Entry(req[h].resp, None, Subject(h))
  <2>1. pc[h] = "respInsert" /\ UNCHANGED store /\ index' = AddDesc(index, e, req[h].resp)
    BY <1>2 DEF InsertResponse
  <2>2. /\ d \in Referrers /\ req[h].resp \in Seq(Referrers) /\ IsResponse(e)
        /\ req[h].resp \in Seq(Listable)
    BY <2>1, ResponseTypes
  <2>3. Subject(h) = Content[d].subj /\ Content[d].subj \in Manifests
    BY <2>2, SubjectIs
  <2>4. e.dig = req[h].resp /\ e.tag = None /\ e.subj = Content[d].subj
    BY <2>3 DEF Entry
  <2> HIDE DEF e, d
  <2>5. Written(index') /\ Added(index', index, e) /\ Descends(index', index, e)
    BY <1>0, <2>1, <2>2, InsertIs
  <2> QED BY <2>1, <2>2, <2>3, <2>4, <2>5, Zenon
<1>3. ASSUME DeleteRemove(h)
      PROVE  /\ d \in Manifests /\ req[h].entry.subj = None /\ UNCHANGED store
             /\ Written(index') /\ Remains(index', index)
             /\ req[h].entry.tag = None => DigestRemoved(index', index, d)
             /\ req[h].entry.tag # None => TagRemoved(index', index, req[h].entry)
  <2>1. pc[h] = "remove" /\ UNCHANGED store /\ index' = RmDesc(index, req[h].entry)
    BY <1>3 DEF DeleteRemove
  <2>2. req[h].entry.subj = None /\ d \in Manifests
    BY <1>0, <2>1 DEF Working, Request
  <2> QED BY <1>0, <2>1, <2>2, RemoveIs
<1> QED BY <1>1, <1>2, <1>3, Zenon

\* Nothing but the response that a new one replaces leaves an index on an insertion.
LEMMA AddedKeeps ==
  ASSUME NEW r, NEW li, Written(li), NEW e, Added(r, li, e)
  PROVE  /\ Knows(r) \subseteq Knows(li) \union {e.dig} /\ e.dig \in Knows(r)
         /\ \A m \in Manifests : m \in Knows(li) => m \in Knows(r)
         /\ e.subj = None => Knows(li) \subseteq Knows(r)
<1>1. ASSUME NEW m \in Manifests, e.subj # None, Answered(ToSet(li.manifests), e.subj, m) PROVE FALSE
  <2>1. m # None
    BY DigestKinds DEF Listable
  <2>2. PICK x \in ToSet(li.manifests) : x.subj = e.subj /\ x.dig = m
    BY <1>1, <2>1 DEF Answered
  <2>3. m \in Seq(Referrers)
    BY <1>1, <2>2, WrittenEntries
  <2> QED BY <2>3, DigestKinds
<1> QED BY <1>1 DEF Added

-----------------------------------------------------------------------------
\* A step of one handler that loses no blob.
LEMMA HeldOn ==
  ASSUME Held, UNCHANGED clients, NEW h \in Handlers, Others(h), blobs \subseteq blobs',
         Knows(index') \subseteq blobs' \union clients.deleteBlobs,
         pc'[h] = "insert" => req'[h].entry.dig \in blobs' \union clients.deleteBlobs,
         pc'[h] = "respInsert" => req'[h].resp \in blobs' \union clients.deleteBlobs
  PROVE  Held'
BY DEF Held, Others

\* A collection leaves the blob of all that it leaves in the index.
LEMMA HeldByGC ==
  ASSUME IInv, Held, GC, UNCHANGED clients
  PROVE  Held'
<1>1. \A h \in Handlers : pc'[h] = "idle"
  BY DEF GC
<1>2. Knows(index') = Knows(index) \ (Garbage \union (InIndex \ blobs))
  <2> DEFINE gone == Garbage \union (InIndex \ blobs)
  <2>1. index' = RmDigests(index, gone)
    BY DEF GC, Collected
  <2> HIDE DEF gone
  <2>2. Knows(index') = Knows(index) \ gone
    BY <2>1, RmDigestsIs DEF IInv
  <2> QED BY <2>2 DEF gone
<1>3. blobs' = blobs \ Garbage
  BY DEF GC
<1> HIDE DEF GC
<1> QED BY <1>1, <1>2, <1>3 DEF Held

\* What the index lists loses its blob only where clients delete it.
LEMMA HeldStep ==
  ASSUME IInv, Held, Next, UNCHANGED setup
  PROVE  Held'
<1>0. HandlersOK /\ Working /\ UNCHANGED clients
  BY DEF IInv, HandlersOK, setup
<1>1. CASE \E b \in clients.upload : BlobUpload(b)
  BY <1>0, <1>1 DEF BlobUpload, Held
<1>2. CASE \E d \in fresh : Age(d)
  BY <1>0, <1>2 DEF Age, Held
<1>3. ASSUME NEW h \in Handlers, NEW d, NEW tags, PutBegin(h, d, tags) PROVE Held'
  BY <1>0, <1>3, BeginSteps, HeldOn DEF Goes, store, Held
<1>4. ASSUME NEW h \in Handlers, NEW e, DeleteBegin(h, e) PROVE Held'
  <2>1. UNCHANGED <<store, index>> /\ Others(h) /\ pc'[h] \in {"respRead", "remove"}
    BY <1>0, <1>4, BeginSteps DEF Goes
  <2> QED BY <2>1, <1>0, HeldOn DEF store, Held
<1>5. ASSUME NEW h \in Handlers, PutStore(h) PROVE Held'
  <2>1. Others(h) /\ pc'[h] = "insert" /\ req'[h] = req[h]
    BY <1>0, <1>5, PutSteps DEF Goes
  <2> QED BY <1>5, <2>1, <1>0, HeldOn DEF PutStore, CreateBlob, Held
<1>6. ASSUME NEW h \in Handlers, PutInsert(h) PROVE Held'
  <2> DEFINE d == req[h].entry.dig
  <2>1. pc[h] = "insert" /\ Others(h) /\ UNCHANGED store
    BY <1>0, <1>6, PutSteps, IndexSteps DEF Goes
  <2>2. /\ pc'[h] = "insert" => req'[h].entry.dig = d
        /\ pc'[h] # "respInsert"
    BY <1>0, <1>6, PutSteps DEF Goes
  <2>3. Knows(index') \subseteq Knows(index) \union {d}
    BY <1>6, IndexSteps, AddedKeeps DEF IInv
  <2> QED BY <2>1, <2>2, <2>3, <1>0, HeldOn DEF store, Held
<1>7. ASSUME NEW h \in Handlers, AddReadResponse(h) \/ DeleteReadResponse(h) PROVE Held'
  <2>1. UNCHANGED <<store, index>> /\ Others(h) /\ pc'[h] \in {"respStore", "remove"}
    BY <1>0, <1>7, ResponseSteps DEF Goes
  <2> QED BY <2>1, <1>0, HeldOn DEF store, Held
<1>8. ASSUME NEW h \in Handlers, StoreResponse(h) PROVE Held'
  <2>1. Others(h) /\ pc'[h] = "respInsert" /\ req'[h] = req[h]
    BY <1>0, <1>8, ResponseSteps DEF Goes
  <2> QED BY <1>8, <2>1, <1>0, HeldOn DEF StoreResponse, CreateBlob, Held
<1>9. ASSUME NEW h \in Handlers, InsertResponse(h) PROVE Held'
  <2>1. pc[h] = "respInsert" /\ Others(h) /\ UNCHANGED store /\ pc'[h] \in {"idle", "remove"}
    BY <1>0, <1>9, ResponseSteps, IndexSteps DEF Goes
  <2>2. Knows(index') \subseteq Knows(index) \union {req[h].resp}
    BY <1>9, IndexSteps, AddedKeeps DEF IInv
  <2> QED BY <2>1, <2>2, <1>0, HeldOn DEF store, Held
<1>10. ASSUME NEW h \in Handlers, DeleteRemove(h) PROVE Held'
  <2>1. Others(h) /\ UNCHANGED store /\ pc'[h] = "idle"
    BY <1>0, <1>10, ResponseSteps, IndexSteps DEF Goes
  <2>2. Knows(index') \subseteq Knows(index)
    BY <1>10, IndexSteps DEF DigestRemoved, TagRemoved
  <2> QED BY <2>1, <2>2, <1>0, HeldOn DEF store, Held
<1>11. CASE GC
  BY <1>0, <1>11, HeldByGC
<1>12. ASSUME NEW d \in clients.deleteBlobs, BlobDelete(d) PROVE Held'
  BY <1>0, <1>12 DEF BlobDelete, Held
<1> QED
  BY <1>1, <1>2, <1>3, <1>4, <1>5, <1>6, <1>7, <1>8, <1>9, <1>10, <1>11, <1>12
  DEF Next, DeleteTag, DeleteDigest

\* While no client deletes a blob, what the index lists has its blob.
LEMMA HeldIs == Keeping /\ Held => Stored
BY DEF Keeping, Held, Stored

\* A handler that is idle holds nothing.
LEMMA IdleIs == Idle.op = "none" /\ Idle.entry.dig = None /\ Idle.entry.tag = None
BY DEF Idle, Entry

\* What a collection spares: the kept entries, what the walk goes on to from them, and
\* what is in them.
LEMMA WalkSpares ==
  ASSUME IInv
  PROVE  /\ Walked \subseteq blobs /\ Walked \subseteq Seen
         /\ \A e \in Entries : Kept(e) /\ e.dig \in blobs => e.dig \in Walked
         /\ \A d \in Walked : Parsed(d).kind = "index" => Refs(d) \intersect blobs \subseteq Walked
         /\ \A d \in Walked : Refs(d) \intersect blobs \subseteq Seen
<1>1. IsFiniteSet(blobs) /\ blobs \subseteq Digests
  BY DEF IInv, StoreOK
<1>2. /\ Walked \subseteq blobs /\ Roots \subseteq Walked
      /\ \A d \in Walked : Successors(d) \intersect blobs \subseteq Walked
  BY <1>1, WalkIs
<1>3. \A d \in Walked : Parsed(d).kind = "index" => Refs(d) \intersect blobs \subseteq Walked
  BY <1>2 DEF Successors
<1>4. \A d \in Walked : Parsed(d).kind = "image" => Refs(d) \subseteq Seen
  BY DEF Seen
<1>5. Walked \subseteq Seen
  BY DEF Seen
<1>6. \A d \in Walked : Parsed(d).kind = "image" \/ Parsed(d).kind = "index" \/ Refs(d) = {}
  BY <1>1, <1>2, ParsedIs DEF Digests
<1>7. \A e \in Entries : Kept(e) /\ e.dig \in blobs => e.dig \in Walked
  BY <1>2 DEF Roots
<1> QED BY <1>2, <1>3, <1>4, <1>5, <1>6, <1>7

\* What a collection leaves of the store and of the index.
LEMMA CollectionIs ==
  ASSUME IInv, GC
  PROVE  /\ \A h \in Handlers : pc[h] = "idle" /\ req[h] = Idle
         /\ UNCHANGED <<pc, req>>
         /\ blobs' = blobs \intersect (Seen \union (fresh \ InIndex))
         /\ fresh' = fresh \ Garbage
         /\ Written(index')
         /\ Entries' = {e \in Entries : e.dig \in blobs'}
         /\ Knows(index') \subseteq Knows(index)
         /\ \A d \in Knows(index) : d \in blobs' => d \in Knows(index')
<1> DEFINE gone == Garbage \union (InIndex \ blobs)
<1>1. \A h \in Handlers : pc[h] = "idle" /\ req[h] = Idle
  BY DEF GC, IInv, HandlersOK, Working
<1>2. blobs' = blobs \ Garbage /\ fresh' = fresh \ Garbage /\ index' = RmDigests(index, gone)
  BY DEF GC, Collected
<1>3. blobs \ Garbage = blobs \intersect (Seen \union (fresh \ InIndex))
  BY DEF Garbage
<1>4. \A e \in Entries : e.dig \in InIndex
  BY DEF InIndex
<1>5. \A d : d \in gone => d \notin blobs'
  BY <1>2
<1>6. \A e \in Entries : e.dig \notin gone => e.dig \in blobs'
  BY <1>2, <1>4
<1> HIDE DEF gone
<1>7. /\ Written(index')
      /\ ToSet(index'.manifests) = {e \in ToSet(index.manifests) : e.dig \notin gone}
      /\ Knows(index') = Knows(index) \ gone
  BY <1>2, RmDigestsIs DEF IInv
<1>8. Entries' = {e \in Entries : e.dig \in blobs'}
  BY <1>5, <1>6, <1>7 DEF Entries
<1> QED BY <1>1, <1>2, <1>3, <1>5, <1>7, <1>8 DEF GC

\* A step of one handler that loses no blob and no manifest of the index.
LEMMA WholeOn ==
  ASSUME IInv, Whole, NEW h \in Handlers, Others(h), blobs \subseteq blobs',
         \A m \in Manifests : m \in Knows(index) => m \in Knows(index'),
         \A m \in Manifests : m \in blobs' =>
           m \in blobs \/ (req[h].op = "put" /\ m = req[h].entry.dig),
         \A e \in Entries' : e.tag # None => e \in Entries \/ Refs(e.dig) \subseteq blobs,
         Storing(h)' => Refs(req'[h].entry.dig) \subseteq blobs,
         req'[h].op = "delete" => req'[h].entry.tag # None,
         req'[h].op = "put" /\ Responding(h)' => req'[h].entry.dig \in Knows(index'),
         req[h].op = "put" =>
           \/ req'[h].op = "put" /\ req'[h].entry.dig = req[h].entry.dig
           \/ req[h].entry.dig \in Knows(index')
  PROVE  Whole'
<1>1. \A e \in Entries' : e.tag # None => Refs(e.dig) \subseteq blobs'
  BY DEF Whole
<1>2. \A g \in Handlers : Storing(g)' => Refs(req'[g].entry.dig) \subseteq blobs'
  BY DEF Whole, Storing, Others
<1>3. \A g \in Handlers : req'[g].op = "delete" => req'[g].entry.tag # None
  BY DEF Whole, Others
<1>4. \A g \in Handlers :
        req'[g].op = "put" /\ Responding(g)' => req'[g].entry.dig \in Knows(index')
  <2>1. \A g \in Handlers : Responding(g) => req[g].entry.dig \in Manifests
    BY DEF IInv, HandlersOK, Working, Responding, Referrers
  <2> QED BY <2>1 DEF Whole, Responding, Others
<1>5. ASSUME NEW m \in Manifests, m \in blobs' PROVE m \in Knows(index') \/ PutOf(m)'
  <2>1. m \in Knows(index) \/ PutOf(m)
    <3>1. CASE m \in blobs
      BY <3>1 DEF Whole
    <3>2. CASE req[h].op = "put" /\ m = req[h].entry.dig
      BY <3>2 DEF PutOf
    <3> QED BY <1>5, <3>1, <3>2
  <2>2. CASE PutOf(m)
    <3>1. PICK g \in Handlers : req[g].op = "put" /\ req[g].entry.dig = m
      BY <2>2 DEF PutOf
    <3>2. CASE g = h
      BY <3>1, <3>2 DEF PutOf
    <3>3. CASE g # h
      BY <3>1, <3>3 DEF PutOf, Others
    <3> QED BY <3>2, <3>3
  <2> QED BY <1>5, <2>1, <2>2
<1> QED BY <1>1, <1>2, <1>3, <1>4, <1>5 DEF Whole

\* A collection leaves the config and the layers, or the members, of each tagged manifest.
LEMMA WholeByGC ==
  ASSUME IInv, Stored, Whole, GC
  PROVE  Whole'
<1>1. \A h \in Handlers : pc'[h] = "idle" /\ req'[h].op = "none" /\ req[h].op = "none"
  BY CollectionIs, IdleIs
<1>2. ASSUME NEW e \in Entries', e.tag # None PROVE Refs(e.dig) \subseteq blobs'
  <2>1. e \in Entries /\ e.dig \in blobs /\ Refs(e.dig) \subseteq blobs
    BY <1>2, CollectionIs DEF Whole, GC
  <2>2. e.subj = None
    BY <1>2, <2>1, WrittenEntries DEF IInv, Entries
  <2>3. e.dig \in Walked
    BY <1>2, <2>1, <2>2, WalkSpares DEF Kept, KeptAsIs
  <2> QED BY <2>1, <2>3, WalkSpares, CollectionIs
<1>3. \A m \in blobs' \intersect Manifests : m \in Knows(index')
  <2>1. \A m \in blobs \intersect Manifests : m \in Knows(index)
    BY <1>1 DEF Whole, PutOf
  <2> QED BY <2>1, CollectionIs
<1> QED BY <1>1, <1>2, <1>3 DEF Whole, Storing, Responding

\* While clients delete by tag alone and push nothing sparse, what is tagged is whole.
LEMMA WholeStep ==
  ASSUME IInv, Complete, Stored, Whole, Next, UNCHANGED setup
  PROVE  Whole'
<1>0. HandlersOK /\ Working /\ Written(index) /\ ServerOK
  BY DEF IInv, HandlersOK
<1>1. ASSUME NEW b \in clients.upload, BlobUpload(b) PROVE Whole'
  <2>1. b \notin Manifests
    BY <1>0, <1>1, ClientTypes, ContentType
  <2> QED BY <1>1, <2>1 DEF BlobUpload, Whole, Storing, Responding, PutOf, Entries
<1>2. CASE \E d \in fresh : Age(d)
  BY <1>2 DEF Age, Whole, Storing, Responding, PutOf, Entries
<1>3. ASSUME NEW h \in Handlers, NEW d, NEW tags, PutBegin(h, d, tags) PROVE Whole'
  <2>1. /\ UNCHANGED <<store, index>> /\ Others(h) /\ pc'[h] = "store"
        /\ req'[h].op = "put" /\ req'[h].entry.dig = d /\ req[h] = Idle /\ Verified(d)
    <3>1. Entry(d, None, None).dig = d
      BY DEF Entry
    <3> QED BY <1>0, <1>3, <3>1, BeginSteps DEF Goes
  <2>2. Refs(d) \subseteq blobs /\ req[h].op = "none"
    BY <2>1 DEF Verified, Complete, Idle
  <2> QED BY <2>1, <2>2, WholeOn DEF store, Storing, Responding, Entries
<1>4. ASSUME NEW h \in Handlers, NEW t \in clients.deleteTags, DeleteTag(h, t) PROVE Whole'
  <2> DEFINE e == Entry(Resolve(index, t), t, None)
  <2>1. /\ UNCHANGED <<store, index>> /\ Others(h) /\ pc'[h] \in {"respRead", "remove"}
        /\ req'[h].op = "delete" /\ req'[h].entry = e /\ req[h] = Idle
    <3>1. DeleteBegin(h, e)
      BY <1>4 DEF DeleteTag
    <3> HIDE DEF e
    <3> QED BY <1>0, <3>1, BeginSteps DEF Goes
  <2>2. e.tag # None /\ req[h].op = "none"
    BY <1>0, <2>1, ClientTypes, DigestKinds DEF Entry, Idle
  <2> QED BY <2>1, <2>2, WholeOn DEF store, Storing, Responding, Entries
<1>5. ASSUME NEW h \in Handlers, PutStore(h) PROVE Whole'
  <2>1. Others(h) /\ pc[h] = "store" /\ pc'[h] = "insert" /\ req'[h] = req[h]
    BY <1>0, <1>5, PutSteps DEF Goes
  <2>2. blobs' = blobs \union {req[h].entry.dig} /\ UNCHANGED index
    BY <1>5 DEF PutStore, CreateBlob
  <2>3. req[h].op = "put" /\ Refs(req[h].entry.dig) \subseteq blobs
    BY <1>0, <2>1 DEF Working, Whole, Storing
  <2> QED BY <2>1, <2>2, <2>3, WholeOn DEF Storing, Responding, Entries
<1>6. ASSUME NEW h \in Handlers, PutInsert(h) PROVE Whole'
  <2> DEFINE d == req[h].entry.dig
  <2>1. pc[h] = "insert" /\ Others(h) /\ UNCHANGED store
    BY <1>0, <1>6, PutSteps, IndexSteps DEF Goes
  <2>2. req[h].op = "put" /\ Refs(d) \subseteq blobs
    BY <1>0, <2>1 DEF Working, Whole, Storing
  <2>3. \/ pc'[h] \in {"insert", "respRead"} /\ req'[h].op = "put" /\ req'[h].entry.dig = d
        \/ pc'[h] = "idle" /\ req'[h].op = "none"
    BY <1>0, <1>6, <2>2, PutSteps, IdleIs DEF Goes
  <2>4. PICK e : e.dig = d /\ e.subj = None /\ Added(index', index, e) /\ Descends(index', index, e)
    BY <1>6, IndexSteps
  <2>5. d \in Knows(index') /\ \A m \in Manifests : m \in Knows(index) => m \in Knows(index')
    BY <1>0, <2>4, AddedKeeps
  <2>6. \A x \in Entries' : x.tag # None => x \in Entries \/ Refs(x.dig) \subseteq blobs
    BY <2>2, <2>4 DEF Descends, Plain, Entries
  <2> HIDE DEF d
  <2> QED BY <2>1, <2>2, <2>3, <2>5, <2>6, WholeOn DEF store, Storing, Responding, d
<1>7. ASSUME NEW h \in Handlers, AddReadResponse(h) \/ DeleteReadResponse(h) PROVE Whole'
  <2>1. /\ UNCHANGED <<store, index>> /\ Others(h) /\ pc[h] = "respRead"
        /\ pc'[h] = "respStore" \/ (pc'[h] = "remove" /\ req[h].op = "delete")
        /\ req'[h].op = req[h].op /\ req'[h].entry = req[h].entry
    BY <1>0, <1>7, ResponseSteps DEF Goes
  <2> QED BY <2>1, WholeOn DEF store, Storing, Responding, Entries, Whole
<1>8. ASSUME NEW h \in Handlers, StoreResponse(h) PROVE Whole'
  <2>1. Others(h) /\ pc[h] = "respStore" /\ pc'[h] = "respInsert" /\ req'[h] = req[h]
    BY <1>0, <1>8, ResponseSteps DEF Goes
  <2>2. blobs' = blobs \union {req[h].resp} /\ UNCHANGED index
    BY <1>8 DEF StoreResponse, CreateBlob
  <2>3. req[h].resp \notin Manifests
    BY <2>1, ResponseTypes, DigestKinds
  <2> QED BY <2>1, <2>2, <2>3, WholeOn DEF Storing, Responding, Entries, Whole
<1>9. ASSUME NEW h \in Handlers, InsertResponse(h) PROVE Whole'
  <2> DEFINE d == req[h].entry.dig
  <2>1. pc[h] = "respInsert" /\ Others(h) /\ UNCHANGED store /\ d \in Manifests
    BY <1>0, <1>9, ResponseSteps, IndexSteps, DigestKinds DEF Goes
  <2>2. \/ req[h].op = "put" /\ pc'[h] = "idle" /\ req'[h].op = "none"
        \/ req[h].op # "put" /\ pc'[h] = "remove" /\ req'[h] = req[h]
    BY <1>0, <1>9, ResponseSteps, IdleIs DEF Goes
  <2>3. PICK e : e.tag = None /\ Added(index', index, e) /\ Descends(index', index, e)
    BY <1>9, IndexSteps
  <2>4. \A m \in Manifests : m \in Knows(index) => m \in Knows(index')
    BY <1>0, <2>3, AddedKeeps
  <2>5. \A x \in Entries' : x.tag # None => x \in Entries
    BY <2>3 DEF Descends, Plain, Entries
  <2>6. req[h].op = "put" => d \in Knows(index)
    BY <2>1 DEF Whole, Responding
  <2> HIDE DEF d
  <2> QED BY <2>1, <2>2, <2>4, <2>5, <2>6, WholeOn DEF store, Storing, Responding, Whole, d
<1>10. ASSUME NEW h \in Handlers, DeleteRemove(h) PROVE Whole'
  <2>1. Others(h) /\ UNCHANGED store /\ pc'[h] = "idle" /\ req'[h].op = "none" /\ req[h].op = "delete"
    BY <1>0, <1>10, ResponseSteps, IndexSteps, IdleIs DEF Goes, Working
  <2>2. Knows(index') = Knows(index)
    BY <1>10, <2>1, IndexSteps DEF Whole, TagRemoved
  <2>3. \A x \in Entries' : x.tag # None => x \in Entries
    BY <1>10, IndexSteps DEF Remains, Plain, Entries
  <2> QED BY <2>1, <2>2, <2>3, WholeOn DEF store, Storing, Responding
<1>11. CASE GC
  BY <1>11, WholeByGC
<1> QED
  BY <1>1, <1>2, <1>3, <1>4, <1>5, <1>6, <1>7, <1>8, <1>9, <1>10, <1>11
  DEF Next, Complete

\* The index names no blob that is gone, unless clients delete it, and unless they delete or
\* push sparse manifests what is tagged is whole.
THEOREM ContentInvariance == Spec => []PInv
<1>1. Init => PInv
  <2> SUFFICES ASSUME Init PROVE Held /\ Whole
    BY DEF PInv
  <2>1. Entries = {} /\ Knows(index) = {}
    BY DEF Init, Entries, EmptyIndex, Knows, Digs, ToSet
  <2> QED BY <2>1 DEF Init, Held, Whole, Storing, Responding, Idle
<1>2. IInv /\ PInv /\ [Next /\ UNCHANGED setup]_vars => PInv'
  <2> SUFFICES ASSUME IInv, PInv, [Next /\ UNCHANGED setup]_vars PROVE PInv'
    OBVIOUS
  <2>1. CASE UNCHANGED vars
    BY <2>1 DEF vars, PInv, Held, Whole, Complete, Storing, Responding, PutOf, Entries
  <2>2. CASE Next /\ UNCHANGED setup
    <3>1. Complete' <=> Complete
      BY <2>2 DEF setup, Complete
    <3>2. Held'
      BY <2>2, HeldStep DEF PInv
    <3>3. Complete => Whole'
      BY <2>2, HeldIs, WholeStep DEF PInv, Keeping, Complete
    <3> QED BY <3>1, <3>2, <3>3 DEF PInv
  <2> QED BY <2>1, <2>2
<1> QED BY RegistryInvariance, <1>1, <1>2, PTL DEF Spec

\* Unless clients delete by digest or push sparse manifests, what the index names can be
\* pulled: every entry and child has its blob, a tagged image its config and layers, and a
\* tagged index its members (Registry.Pullable).
THEOREM PullableAlways == Spec => []Pullable
<1>1. IInv /\ PInv => Pullable
  <2> SUFFICES ASSUME IInv, Stored, Whole, Complete PROVE Pullable
    BY HeldIs DEF Pullable, PInv, Keeping, Complete
  <2>1. (\A e \in Entries : e.dig \in blobs) /\ ToSet(index.children) \subseteq blobs
    BY DEF Stored, Knows, Digs, Entries
  <2>2. \A e \in Entries : e.tag # None => Refs(e.dig) \subseteq blobs
    BY DEF Whole
  <2>3. ASSUME NEW e \in Entries, e.tag # None, Parsed(e.dig).kind = "index", NEW d \in Refs(e.dig)
        PROVE  Found(index, d) \/ \E h \in Handlers : req[h].op = "put" /\ req[h].entry.dig = d
    <3>1. e.dig \in Manifests
      BY <2>3, WrittenEntries DEF IInv, Entries
    <3>2. d \in Manifests /\ d \in blobs
      BY <2>2, <2>3, <3>1, ParsedIs
    <3>3. d \in Knows(index) \/ PutOf(d)
      BY <3>2 DEF Whole
    <3>4. d \in Knows(index) => Found(index, d)
      BY FoundIs DEF IInv, Written
    <3> QED BY <3>3, <3>4 DEF PutOf
  <2> QED BY <2>1, <2>2, <2>3 DEF Pullable
<1> QED BY RegistryInvariance, ContentInvariance, <1>1, PTL

-----------------------------------------------------------------------------
(* What a collection spares *)

\* Of a digest's three kinds, only a config or layer is in an image, and only manifests and
\* responses are listed.
LEMMA SeenIs ==
  ASSUME IInv
  PROVE  /\ Seen \subseteq Walked \union Blobs
         /\ \A e \in Entries : e.dig \in Manifests \union Seq(Referrers)
         /\ \A e \in Entries : e.dig \notin Blobs
         /\ \A d \in InIndex \intersect blobs : d \in Walked \/ \E e \in Entries : e.dig = d
<1>1. IsFiniteSet(blobs) /\ blobs \subseteq Digests
  BY DEF IInv, StoreOK
<1>2. Walked \subseteq blobs /\ \A d \in Walked : Successors(d) \intersect blobs \subseteq Walked
  BY <1>1, WalkIs
<1>3. ASSUME NEW d \in Walked, Parsed(d).kind = "image" PROVE Refs(d) \subseteq Blobs
  <2>1. d \in Digests
    BY <1>1, <1>2
  <2> QED BY <1>3, <2>1, ParsedIs DEF Digests
<1>4. Seen \subseteq Walked \union Blobs
  BY <1>3 DEF Seen
<1>5. ASSUME NEW e \in Entries PROVE e.dig \in Manifests \union Seq(Referrers) /\ e.dig \notin Blobs
  <2>1. e.dig \in Manifests \/ e.dig \in Seq(Referrers)
    BY WrittenEntries DEF IInv, Entries
  <2> QED BY <2>1, DigestKinds
<1>6. \A d \in InIndex \intersect blobs : d \in Walked \/ \E e \in Entries : e.dig = d
  BY <1>2 DEF InIndex
<1> QED BY <1>4, <1>5, <1>6

\* Nothing young goes but responses: a young blob that nothing lists stays, and a young
\* manifest is a kept entry (Registry.GCKeepsFresh).
THEOREM FreshStays == Spec => GCKeepsFresh
<1>1. ASSUME IInv, GC PROVE fresh \intersect (Blobs \union Manifests) \subseteq blobs'
  <2> SUFFICES ASSUME NEW d \in fresh, d \in Blobs \union Manifests PROVE d \in blobs'
    OBVIOUS
  <2>1. d \in blobs
    BY <1>1 DEF IInv, StoreOK
  <2>2. CASE d \notin InIndex
    BY <1>1, <2>1, <2>2, CollectionIs
  <2>3. CASE d \in Walked
    BY <1>1, <2>1, <2>3, CollectionIs, WalkSpares
  <2>4. ASSUME NEW e \in Entries, e.dig = d PROVE d \in blobs'
    <3>1. e.subj = None
      <4>1. e.subj # None => d \in Seq(Referrers)
        BY <1>1, <2>4, WrittenEntries DEF IInv, Entries
      <4> QED BY <4>1, DigestKinds
    <3>2. d \in Walked
      BY <1>1, <2>1, <2>4, <3>1, WalkSpares DEF Kept, KeptAsIs
    <3> QED BY <2>3, <3>2
  <2> QED BY <1>1, <2>1, <2>2, <2>3, <2>4, SeenIs
<1>2. IInv /\ [Next /\ UNCHANGED setup]_vars =>
        [GC => fresh \intersect (Blobs \union Manifests) \subseteq blobs']_vars
  BY <1>1
<1> QED BY RegistryInvariance, <1>2, PTL DEF Spec, GCKeepsFresh

-----------------------------------------------------------------------------
\* Digests that a collection is to spare: what is there of them is seen, and walked if it
\* may lead on.
Spared(S) ==
  /\ S \intersect blobs \subseteq Seen
  /\ \A d \in S \intersect blobs : d \in Walked \/ d \in Blobs

\* What a client pulls from spared digests, and the responses it asks for, are spared.
LEMMA SparedOn ==
  ASSUME IInv, NEW S, Spared(S)
  PROVE  Spared(S \union ({Response(index, d) : d \in S \intersect blobs} \ {None})
                  \union UNION {Refs(d) : d \in S \intersect blobs})
<1>0. Written(index) /\ blobs \subseteq Digests /\ IsFiniteSet(blobs)
  BY DEF IInv, StoreOK
<1>1. ASSUME NEW d \in S \intersect blobs, Response(index, d) # None, Response(index, d) \in blobs
      PROVE  Response(index, d) \in Walked
  <2>1. index.manifests \in Seq(Descriptors(Listable, Tags)) /\ d # None
    BY <1>0, DigestKinds DEF Written, Layouts
  <2>2. ResponseFirst(ToSet(index.manifests), d, Response(index, d))
    BY <2>1, FirstResponse, Zenon
  <2>3. PICK e \in Entries : e.subj = d /\ e.dig = Response(index, d)
    BY <1>1, <2>2 DEF ResponseFirst, Entries
  <2>4. d \in Walked
    <3>1. d \in Manifests
      BY <1>0, <2>1, <2>3, WrittenEntries DEF Entries
    <3> QED BY <1>1, <3>1, DigestKinds DEF Spared
  <2>5. CASE Conditional(e)
    <3>1. e.dig \in Successors(d)
      BY <2>3, <2>5 DEF Successors
    <3> QED BY <1>0, <1>1, <2>3, <2>4, <3>1, WalkIs
  <2>6. CASE ~Conditional(e)
    <3>1. Kept(e)
      BY <1>1, <2>1, <2>3, <2>6 DEF Kept
    <3> QED BY <1>1, <2>3, <3>1, WalkSpares
  <2> QED BY <2>5, <2>6
<1>2. ASSUME NEW d \in S \intersect blobs, NEW x \in Refs(d) \intersect blobs
      PROVE  x \in Seen /\ (x \in Walked \/ x \in Blobs)
  <2>1. Refs(d) = {} \/ d \in Walked
    BY ParsedIs DEF Spared
  <2>2. x \in Seen
    BY <2>1, WalkSpares
  <2> QED BY <2>2, SeenIs
<1> QED BY <1>1, <1>2, WalkSpares DEF Spared

\* A collection takes nothing that a client reaches from a tag, and moves no tag
\* (Registry.GCKeepsTagged).
THEOREM TaggedStays == Spec => GCKeepsTagged
<1>1. ASSUME IInv, GC
      PROVE  /\ Reached \intersect blobs \subseteq blobs'
             /\ \A d \in Reached \intersect blobs : Found(index, d) => Found(index', d)
             /\ \A t \in Tags : Resolve(index, t) \in blobs => Resolve(index', t) = Resolve(index, t)
  <2> DEFINE Step(S) == S \union ({Response(index, d) : d \in S \intersect blobs} \ {None})
                          \union UNION {Refs(d) : d \in S \intersect blobs}
             S0 == {e.dig : e \in {f \in Entries : f.tag # None}}
  <2>1. Reached = Step(Step(Step(Step(S0))))
    BY Zenon DEF Reached
  <2>2. \A S : Spared(S) => Spared(Step(S))
    BY <1>1, SparedOn
  <2>3. S0 \intersect blobs \subseteq Walked
    <3> SUFFICES ASSUME NEW e \in Entries, e.tag # None, e.dig \in blobs PROVE e.dig \in Walked
      OBVIOUS
    <3>1. e.subj = None
      BY <1>1, WrittenEntries DEF IInv, Entries
    <3> QED BY <1>1, <3>1, WalkSpares DEF Kept, KeptAsIs
  <2>4. Spared(S0)
    BY <1>1, <2>3, WalkSpares DEF Spared
  <2> HIDE DEF Step, S0
  <2>5. Spared(Reached)
    BY <2>1, <2>2, <2>4
  <2>6. Reached \intersect blobs \subseteq blobs'
    BY <1>1, <2>5, CollectionIs DEF Spared
  <2>7. /\ index \in Layouts(Listable, Tags) /\ index' \in Layouts(Listable, Tags)
        /\ index'.manifests \in Seq(Descriptors(Listable, Tags)) /\ Sound(index'.manifests)
    BY <1>1, CollectionIs DEF IInv, Written, Layouts
  <2>8. ASSUME NEW d \in Reached \intersect blobs, Found(index, d) PROVE Found(index', d)
    <3>1. d \in Knows(index)
      BY <2>7, <2>8, FoundIs
    <3>2. d \in Knows(index')
      BY <1>1, <2>6, <3>1, CollectionIs
    <3> QED BY <2>7, <3>2, FoundIs
  <2>9. ASSUME NEW t \in Tags, Resolve(index, t) \in blobs
        PROVE  Resolve(index', t) = Resolve(index, t)
    <3> DEFINE d == Resolve(index, t)
    <3>1. d # None /\ t # None /\ None \notin Listable /\ None \notin Tags
      BY <1>1, <2>9, DigestKinds DEF IInv, StoreOK
    <3>2. PICK e \in Entries : e.tag = t /\ e.dig = d
      BY <1>1, <3>1, ResolvesTo DEF IInv, Entries
    <3>3. d \in Walked
      BY <2>3, <2>9, <3>1, <3>2 DEF S0
    <3>4. e \in Entries'
      BY <1>1, <2>9, <3>2, <3>3, WalkSpares, CollectionIs
    <3>5. Names(ToSet(index'.manifests), t, d)
      BY <3>1, <3>2, <3>4 DEF Names, Entries
    <3> QED BY <2>7, <3>1, <3>5, ResolveIs
  <2> QED BY <2>6, <2>8, <2>9
<1>2. IInv /\ [Next /\ UNCHANGED setup]_vars =>
        [GC => /\ Reached \intersect blobs \subseteq blobs'
               /\ \A d \in Reached \intersect blobs : Found(index, d) => Found(index', d)
               /\ \A t \in Tags : Resolve(index, t) \in blobs => Resolve(index', t) = Resolve(index, t)]_vars
  BY <1>1
<1> QED BY RegistryInvariance, <1>2, PTL DEF Spec, GCKeepsTagged

-----------------------------------------------------------------------------
\* The walk, and the one after the next step.
LEMMA WalkHolds ==
  IsFiniteSet(blobs) =>
    /\ Roots \subseteq Walked /\ Walked \subseteq blobs
    /\ \A d \in Walked : Successors(d) \intersect blobs \subseteq Walked
    /\ \A S \in SUBSET blobs :
         Roots \subseteq S /\ (\A d \in S : Successors(d) \intersect blobs \subseteq S)
           => Walked \subseteq S
BY WalkIs

\* The same of the walk in the next state.
LEMMA NextWalkHolds ==
  (IsFiniteSet(blobs) =>
    /\ Roots \subseteq Walked /\ Walked \subseteq blobs
    /\ \A d \in Walked : Successors(d) \intersect blobs \subseteq Walked
    /\ \A S \in SUBSET blobs :
         Roots \subseteq S /\ (\A d \in S : Successors(d) \intersect blobs \subseteq S)
           => Walked \subseteq S)'
BY WalkHolds, PTL

-----------------------------------------------------------------------------
(* A second collection *)

\* What a collection leaves is what it walked, what is in it, and what is young and not
\* listed; of the entries, those it walked to.
LEMMA Leaves ==
  ASSUME IInv, GC
  PROVE  /\ Entries' = {e \in Entries : e.dig \in Walked}
         /\ Walked \subseteq blobs' /\ blobs' \subseteq blobs
         /\ \A d \in blobs' : (d \in fresh') <=> (d \in fresh)
         /\ \A d \in ToSet(index'.children) : d \in blobs' \/ (d \notin blobs /\ d \notin InIndex)
<1>1. /\ blobs' = blobs \intersect (Seen \union (fresh \ InIndex))
      /\ fresh' = fresh \ Garbage /\ Entries' = {e \in Entries : e.dig \in blobs'}
  BY CollectionIs
<1>2. blobs' = blobs \ Garbage /\ index' = RmDigests(index, Garbage \union (InIndex \ blobs))
  BY DEF GC, Collected
<1>3. \A e \in Entries : e.dig \in InIndex /\ (e.dig \in Seen => e.dig \in Walked)
  BY SeenIs DEF InIndex
<1>4. Walked \subseteq blobs'
  BY <1>1, WalkSpares
<1>5. Entries' = {e \in Entries : e.dig \in Walked}
  BY <1>1, <1>3, <1>4
<1>6. ToSet(index'.children) = ToSet(index.children) \ (Garbage \union (InIndex \ blobs))
  <2> DEFINE gone == Garbage \union (InIndex \ blobs)
  <2>1. index' = RmDigests(index, gone)
    BY <1>2
  <2> HIDE DEF gone
  <2>2. ToSet(index'.children) = ToSet(index.children) \ gone
    BY <2>1, RmDigestsIs DEF IInv
  <2> QED BY <2>2 DEF gone
<1>7. \A d \in blobs' : (d \in fresh') <=> (d \in fresh)
  BY <1>1, <1>2
<1>8. \A d \in ToSet(index'.children) : d \in blobs' \/ (d \notin blobs /\ d \notin InIndex)
  BY <1>2, <1>6
<1> QED BY <1>1, <1>4, <1>5, <1>7, <1>8

\* The second collection walks to all that the first one walked to, and to nothing else.
LEMMA WalksAgain ==
  ASSUME IInv, IInv', GC, UNCHANGED setup
  PROVE  Walked' = Walked
<1>0. /\ Entries' = {e \in Entries : e.dig \in Walked}
      /\ Walked \subseteq blobs' /\ blobs' \subseteq blobs
      /\ \A d \in blobs' : (d \in fresh') <=> (d \in fresh)
      /\ conf' = conf
  BY Leaves DEF setup
<1>1. /\ Roots \subseteq Walked /\ Walked \subseteq blobs
      /\ \A d \in Walked : Successors(d) \intersect blobs \subseteq Walked
      /\ \A S \in SUBSET blobs :
           Roots \subseteq S /\ (\A d \in S : Successors(d) \intersect blobs \subseteq S)
             => Walked \subseteq S
  BY WalkHolds DEF IInv, StoreOK
<1>2. /\ Roots' \subseteq Walked' /\ Walked' \subseteq blobs'
      /\ \A d \in Walked' : (Successors(d))' \intersect blobs' \subseteq Walked'
      /\ \A S \in SUBSET blobs' :
           Roots' \subseteq S /\ (\A d \in S : (Successors(d))' \intersect blobs' \subseteq S)
             => Walked' \subseteq S
  BY NextWalkHolds DEF IInv, StoreOK
<1>3. ASSUME NEW e \in Entries', Kept(e) PROVE Kept(e)'
  BY <1>0, <1>3 DEF Kept, KeptAsIs, Conditional
<1>4. ASSUME NEW e \in Entries', Conditional(e), e.subj \in Walked PROVE Conditional(e)'
  BY <1>0, <1>4 DEF Conditional
<1>5. Walked \subseteq Walked'
  <2> DEFINE S == Walked \intersect Walked'
  <2>1. Roots \subseteq S
    <3> SUFFICES ASSUME NEW e \in Entries, Kept(e), e.dig \in blobs PROVE e.dig \in S
      BY DEF Roots
    <3>1. e.dig \in Walked
      BY <1>1 DEF Roots
    <3>2. e \in Entries' /\ e.dig \in blobs'
      BY <1>0, <3>1
    <3>3. e.dig \in Roots'
      BY <1>3, <3>2 DEF Roots
    <3> QED BY <1>2, <3>1, <3>3
  <2>2. ASSUME NEW d \in S, NEW x \in Successors(d) \intersect blobs PROVE x \in S
    <3>1. x \in Walked /\ x \in blobs'
      BY <1>0, <1>1, <2>2
    <3>2. x \in (Successors(d))'
      <4>1. CASE Parsed(d).kind = "index" /\ x \in Refs(d)
        BY <4>1 DEF Successors
      <4>2. ASSUME NEW e \in Entries, Conditional(e), e.subj = d, e.dig = x
            PROVE  x \in (Successors(d))'
        <5>1. e \in Entries' /\ Conditional(e)'
          BY <1>0, <1>4, <3>1, <4>2
        <5> QED BY <4>2, <5>1 DEF Successors
      <4> QED BY <2>2, <4>1, <4>2 DEF Successors
    <3> QED BY <1>2, <2>2, <3>1, <3>2
  <2> HIDE DEF S
  <2>3. S \in SUBSET blobs
    BY <1>1 DEF S
  <2>4. Walked \subseteq S
    BY <1>1, <2>1, <2>2, <2>3
  <2> QED BY <2>4 DEF S
<1>6. Walked' \subseteq Walked
  <2>1. Roots' \subseteq Walked
    BY <1>0 DEF Roots
  <2>2. ASSUME NEW d \in Walked, NEW x \in (Successors(d))' \intersect blobs' PROVE x \in Walked
    <3>1. CASE Parsed(d).kind = "index" /\ x \in Refs(d)
      BY <1>0, <1>1, <2>2, <3>1 DEF Successors
    <3>2. ASSUME NEW e \in Entries', e.dig = x PROVE x \in Walked
      BY <1>0, <3>2
    <3> QED BY <2>2, <3>1, <3>2 DEF Successors
  <2> QED BY <1>0, <1>2, <2>1, <2>2
<1> QED BY <1>5, <1>6

\* One collection suffices: a second finds nothing (Registry.GCIdempotent).
THEOREM CollectsOnce == Spec => GCIdempotent
<1>1. ASSUME IInv, IInv', GC, UNCHANGED setup PROVE Garbage' = {} /\ Collected' = index'
  <2>0. /\ Entries' = {e \in Entries : e.dig \in Walked}
        /\ Walked \subseteq blobs' /\ blobs' \subseteq blobs
        /\ \A d \in blobs' : (d \in fresh') <=> (d \in fresh)
        /\ \A d \in ToSet(index'.children) : d \in blobs' \/ (d \notin blobs /\ d \notin InIndex)
    BY <1>1, Leaves
  <2>1. Walked' = Walked
    BY <1>1, WalksAgain
  <2>2. /\ Walked \subseteq blobs'
        /\ \A d \in Walked : (Successors(d))' \intersect blobs' \subseteq Walked
    BY <1>1, <2>1, NextWalkHolds DEF IInv, StoreOK
  <2>3. Seen' = Seen
    <3>1. \A d \in Walked : d \in blobs /\ d \in blobs'
      BY <2>0
    <3> QED BY <2>1, <3>1 DEF Seen
  <2>4. ASSUME NEW d \in InIndex' PROVE d \in InIndex
    <3>1. \A e \in Entries' : e \in Entries
      BY <2>0
    <3>2. \A x \in Walked : (Successors(x))' \subseteq Successors(x) \union {e.dig : e \in Entries}
      BY <3>1 DEF Successors
    <3> QED BY <2>1, <2>4, <3>1, <3>2 DEF InIndex
  <2>5. blobs' = blobs \intersect (Seen \union (fresh \ InIndex))
    BY <1>1, CollectionIs
  <2>6. Garbage' = {}
    BY <2>0, <2>3, <2>4, <2>5 DEF Garbage
  <2>7. Collected' = index'
    <3> DEFINE gone == InIndex' \ blobs'
               es == {e \in ToSet(index'.manifests) : e.dig \notin gone}
               kids == ToSet(index'.children) \ gone
    <3>1. /\ index' \in Layouts(Listable, Tags)
          /\ index'.manifests \in Seq(Descriptors(Listable, Tags)) /\ index'.children \in Seq(Listable)
      BY <1>1 DEF IInv, Written, Layouts
    <3>2. Collected' = [manifests |-> Only(index'.manifests, es), children |-> Only(index'.children, kids)]
      BY <2>6 DEF Collected, RmDigests
    <3>3. ToSet(index'.manifests) \subseteq es
      BY <2>0 DEF Entries
    <3>4. ToSet(index'.children) \subseteq kids
      BY <2>0, <2>4
    <3> HIDE DEF es, kids
    <3>5. Only(index'.manifests, es) = index'.manifests /\ Only(index'.children, kids) = index'.children
      BY <3>1, <3>3, <3>4, OnlyAll
    <3> QED BY <3>1, <3>2, <3>5 DEF Layouts
  <2> QED BY <2>6, <2>7
<1>2. IInv /\ IInv' /\ [Next /\ UNCHANGED setup]_vars =>
        [GC => Garbage' = {} /\ Collected' = index']_vars
  BY <1>1
<1> QED BY RegistryInvariance, <1>2, PTL DEF Spec, GCIdempotent

-----------------------------------------------------------------------------
(* The responses, while requests come one at a time *)

\* A list of referrers stays without duplicates when one is added, and without one.
LEMMA NoDupStays ==
  ASSUME NEW ls \in Seq(Referrers), NoDup(ls), NEW d \in Referrers
  PROVE  /\ NoDup(Listed(ls, d))
         /\ \A S : NoDup(Only(ls, S))
<1>1. NoDup(Listed(ls, d))
  <2>1. CASE d \in ToSet(ls)
    BY <2>1 DEF Listed
  <2>2. CASE d \notin ToSet(ls)
    <3> DEFINE r == Append(ls, d)
    <3>1. /\ Len(r) = Len(ls) + 1 /\ Len(ls) \in Nat
          /\ \A i \in 1..Len(ls) : r[i] = ls[i] /\ ls[i] \in ToSet(ls)
          /\ r[Len(ls) + 1] = d
      BY AppendIs, Elements
    <3>2. Listed(ls, d) = r
      BY <2>2 DEF Listed
    <3> HIDE DEF r
    <3>3. NoDup(r)
      <4> SUFFICES ASSUME NEW i \in 1..Len(r), NEW j \in 1..Len(r), r[i] = r[j] PROVE i = j
        BY DEF NoDup
      <4>1. \A k \in 1..Len(r) : k \in 1..Len(ls) \/ k = Len(ls) + 1
        BY <3>1
      <4>2. \A k \in 1..Len(ls) : r[k] # d
        BY <2>2, <3>1
      <4>3. CASE i \in 1..Len(ls) /\ j \in 1..Len(ls)
        BY <3>1, <4>3 DEF NoDup
      <4> QED BY <3>1, <4>1, <4>2, <4>3
    <3> QED BY <3>2, <3>3
  <2> QED BY <2>1, <2>2
<1>2. ASSUME NEW S PROVE NoDup(Only(ls, S))
  <2> DEFINE r == Only(ls, S)
  <2>1. PartOf(r, ls)
    BY OnlyIs, Zenon
  <2> HIDE DEF r
  <2>2. PICK f : Picks(f, r, ls)
    BY <2>1 DEF PartOf
  <2>3. ASSUME NEW i \in 1..Len(r), NEW j \in 1..Len(r), r[i] = r[j] PROVE i = j
    <3>1. f[i] \in 1..Len(ls) /\ f[j] \in 1..Len(ls) /\ ls[f[i]] = ls[f[j]]
      BY <2>2, <2>3 DEF Picks
    <3>2. f[i] = f[j]
      BY <3>1 DEF NoDup
    <3> QED BY <2>2, <3>2 DEF Picks
  <2>4. NoDup(r)
    BY <2>3 DEF NoDup
  <2> QED BY <2>4 DEF r
<1> QED BY <1>1, <1>2

\* A list without duplicates is as long as its set is large.
LEMMA NoDupCounts ==
  ASSUME NEW ls \in Seq(Referrers), NoDup(ls)
  PROVE  Len(ls) = Cardinality(ToSet(ls))
<1> DEFINE f == [i \in 1..Len(ls) |-> ls[i]]
<1>1. Len(ls) \in Nat /\ \A i \in 1..Len(ls) : ls[i] \in ToSet(ls)
  BY Elements
<1>2. \A x \in ToSet(ls) : \E i \in 1..Len(ls) : ls[i] = x
  BY Elements
<1>3. f \in Bijection(1..Len(ls), ToSet(ls))
  <2>1. f \in [1..Len(ls) -> ToSet(ls)]
    BY <1>1
  <2>2. \A i, j \in 1..Len(ls) : f[i] = f[j] => i = j
    BY DEF NoDup
  <2>3. \A x \in ToSet(ls) : \E i \in 1..Len(ls) : f[i] = x
    BY <1>2
  <2> HIDE DEF f
  <2> QED BY <2>1, <2>2, <2>3 DEF Bijection, Injection, Surjection, IsInjective
<1>4. ExistsBijection(1..Len(ls), ToSet(ls))
  BY <1>3 DEF ExistsBijection
<1> QED BY <1>1, <1>4, FS_CountingElements

-----------------------------------------------------------------------------
\* Of the handlers only h is at work, before and after its step.
LEMMA Turn ==
  ASSUME HandlersOK, Alone, NEW h \in Handlers, Others(h),
         pc[h] # "idle" \/ \A g \in Handlers : pc[g] = "idle"
  PROVE  /\ Alone'
         /\ \A g \in Handlers : g # h => /\ pc[g] = "idle" /\ req[g] = Idle
                                         /\ pc'[g] = "idle" /\ req'[g] = Idle
                                         /\ RequestOK(g)'
<1>1. \A g \in Handlers : g # h => pc[g] = "idle" /\ req[g] = Idle /\ pc'[g] = "idle" /\ req'[g] = Idle
  BY DEF HandlersOK, Working, Alone, Others
<1>2. Alone'
  BY <1>1 DEF Alone
<1>3. ASSUME NEW g \in Handlers, g # h PROVE RequestOK(g)'
  <2>1. pc'[g] = "idle" /\ req'[g].op = "none"
    BY <1>1, <1>3, IdleIs
  <2> QED BY <2>1 DEF RequestOK, Storing, Responding
<1> QED BY <1>1, <1>2, <1>3

\* A step of one handler.
LEMMA InStepOn ==
  ASSUME HandlersOK, InStep, NEW h \in Handlers, Others(h),
         pc[h] # "idle" \/ \A g \in Handlers : pc[g] = "idle",
         ResponsesOK', DeletableOK', ListedOK', RequestOK(h)'
  PROVE  InStep'
<1>1. \A g \in Handlers : RequestOK(g)'
  BY Turn DEF InStep
<1> QED BY <1>1, Turn DEF InStep

\* Who accounts for a referrer that the response does not list yet.
LEMMA BetweenIs ==
  ASSUME HandlersOK, InStep, NEW h \in Handlers, Others(h),
         pc[h] # "idle" \/ \A g \in Handlers : pc[g] = "idle",
         NEW m \in Knows(index) \intersect Referrers
  PROVE  ListedIn(m, Entries) \/ Between(h, m)
<1>1. \A g \in Handlers : g # h => pc[g] = "idle"
  BY Turn DEF InStep
<1>2. \A g \in Handlers : g # h => ~Between(g, m)
  BY <1>1 DEF Between
<1> QED BY <1>2 DEF InStep, ListedOK

\* The same, when the step leaves the index as it is.
LEMMA SameIndex ==
  ASSUME HandlersOK, InStep, NEW h \in Handlers, Others(h),
         pc[h] # "idle" \/ \A g \in Handlers : pc[g] = "idle",
         UNCHANGED index, UNCHANGED clients, RequestOK(h)',
         \A m : Between(h, m) => Between(h, m)'
  PROVE  InStep'
<1>1. ResponsesOK' /\ DeletableOK'
  BY DEF InStep, ResponsesOK, DeletableOK, Entries, Answers
<1>2. ListedOK'
  <2> SUFFICES ASSUME NEW m \in Knows(index) \intersect Referrers
               PROVE  ListedIn(m, Entries) \/ Between(h, m)'
    BY DEF ListedOK, Entries
  <2> QED BY BetweenIs
<1> QED BY <1>1, <1>2, InStepOn

\* What a handler reads as the response of s: all that the index lists for s.
LEMMA OldIs ==
  ASSUME IInv, Stored, ResponsesOK, NEW s \in Manifests
  PROVE  LET old == Readable(s)
         IN  \/ old = None /\ \A e \in Entries : e.subj # s
             \/ /\ old # None /\ old \in Seq(Referrers) /\ Answers(old, s)
                /\ \A e \in Entries : e.subj = s => e.dig = old
<1>1. s # None
  BY DigestKinds DEF Listable
<1>2. \/ Response(index, s) = None /\ \A e \in Entries : e.subj # s
      \/ /\ Response(index, s) \in Seq(Referrers)
         /\ \E e \in Entries : e.subj = s
         /\ \A e \in Entries : e.subj = s => e.dig = Response(index, s)
  BY ResponseOf DEF IInv, Entries
<1>3. CASE Response(index, s) = None /\ \A e \in Entries : e.subj # s
  BY <1>3 DEF Readable
<1>4. CASE /\ Response(index, s) \in Seq(Referrers)
           /\ \E e \in Entries : e.subj = s
           /\ \A e \in Entries : e.subj = s => e.dig = Response(index, s)
  <2>1. PICK e \in Entries : e.subj = s /\ e.dig = Response(index, s)
    BY <1>4
  <2>2. e.dig \in blobs
    BY DEF Stored, Knows, Digs, Entries
  <2>3. Readable(s) = Response(index, s)
    BY <2>1, <2>2 DEF Readable
  <2>4. Readable(s) # None
    BY <1>4, <2>3, DigestKinds DEF Digests
  <2>5. Answers(Readable(s), s)
    BY <1>1, <2>1, <2>3 DEF ResponsesOK
  <2> QED BY <1>4, <2>3, <2>4, <2>5
<1> QED BY <1>2, <1>3, <1>4

\* What a list of referrers has in it.
LEMMA AnswersIs ==
  ASSUME NEW ls \in Seq(Referrers)
  PROVE  Refs(ls) = ToSet(ls) /\ ToSet(ls) \subseteq Referrers /\ Referrers \subseteq Manifests
BY ParsedIs, DigestKinds

\* The response entries, of an index that keeps them.
LEMMA ListedStays ==
  ASSUME NEW m, m # None, ListedIn(m, Entries), Content[m].subj # None, NEW s0, Content[m].subj # s0,
         ResponsesStay(ToSet(index'.manifests), ToSet(index.manifests), s0), IInv
  PROVE  ListedIn(m, Entries')
<1>1. PICK x \in Entries : x.subj = Content[m].subj /\ m \in Refs(x.dig)
  BY DEF ListedIn
<1>2. x.dig # None
  <2>1. x.dig \in Seq(Referrers)
    BY <1>1, WrittenEntries DEF IInv, Entries
  <2> QED BY <2>1, DigestKinds DEF Digests
<1>3. Answered(ToSet(index.manifests), x.subj, x.dig)
  BY <1>1, <1>2 DEF Answered, Entries
<1>4. Answered(ToSet(index'.manifests), x.subj, x.dig)
  BY <1>1, <1>3 DEF ResponsesStay
<1> QED BY <1>1, <1>2, <1>4 DEF Answered, ListedIn, Entries

\* A PUT or a DELETE begins while nothing else is under way.
LEMMA BeginInStep ==
  ASSUME IInv, Stored, KeepsResponses, InStep, UNCHANGED setup, NEW h \in Handlers
  PROVE  /\ \A p \in clients.push : PutBegin(h, p[1], p[2]) => InStep'
         /\ \A t \in clients.deleteTags : DeleteTag(h, t) => InStep'
         /\ \A d \in clients.deleteManifests : DeleteDigest(h, d) => InStep'
<1>0. HandlersOK /\ Written(index) /\ clients' = clients /\ ServerOK
  BY DEF IInv, setup
<1>1. Arrive(h) => \A g \in Handlers : pc[g] = "idle"
  BY DEF Arrive, KeepsResponses
<1>2. pc[h] = "idle" => \A m : ~Between(h, m)
  BY DEF Between
<1>3. ASSUME NEW p \in clients.push, PutBegin(h, p[1], p[2]) PROVE InStep'
  <2> DEFINE d == p[1]
  <2>1. PICK r : /\ Arrive(h) /\ UNCHANGED index /\ Goes(h, "store", r)
                 /\ r.op = "put" /\ r.entry = Entry(d, None, None) /\ r.tags = Pushed(p[2])
    BY <1>0, <1>3, BeginSteps
  <2>2. r.entry.dig = d
    BY <2>1 DEF Entry
  <2>3. d \in Referrers => ToSet(r.tags) \intersect clients.deleteTags = {}
    <3> SUFFICES ASSUME d \in Referrers PROVE ToSet(r.tags) \intersect clients.deleteTags = {}
      OBVIOUS
    <3>1. ToSet(p[2]) \intersect clients.deleteTags = {}
      BY <1>3 DEF KeepsResponses
    <3>2. None \notin clients.deleteTags
      BY <1>0, ClientTypes, DigestKinds
    <3>3. ToSet(<<None>>) = {None}
      BY DEF ToSet
    <3>4. r.tags = p[2] \/ r.tags = <<None>>
      BY <2>1 DEF Pushed
    <3> QED BY <3>1, <3>2, <3>3, <3>4
  <2> HIDE DEF d
  <2>4. RequestOK(h)'
    BY <1>0, <2>1, <2>2, <2>3 DEF Goes, RequestOK, Storing, Responding
  <2> QED BY <1>0, <1>1, <1>2, <2>1, <2>4, SameIndex DEF Goes, Arrive
<1>4. ASSUME NEW e, e.dig \in Manifests, DeleteBegin(h, e),
             e.dig \in Referrers => e.tag = None /\ e.dig \in blobs
      PROVE  InStep'
  <2>1. PICK r : /\ Arrive(h) /\ UNCHANGED index
                 /\ Goes(h, IF e.dig \in blobs \cap Referrers THEN "respRead" ELSE "remove", r)
                 /\ r.op = "delete" /\ r.entry = e
    BY <1>0, <1>4, BeginSteps
  <2>2. \/ pc'[h] = "respRead"
        \/ pc'[h] = "remove" /\ e.dig \notin Referrers
    BY <1>4, <2>1 DEF Goes
  <2>3. \A x \in Entries : x.subj # None => Refs(x.dig) \subseteq Referrers
    BY <1>0, WrittenEntries, AnswersIs DEF Entries
  <2>4. RequestOK(h)'
    BY <1>0, <1>4, <2>1, <2>2, <2>3 DEF Goes, RequestOK, Storing, Responding, Entries
  <2> QED BY <1>0, <1>1, <1>2, <2>1, <2>4, SameIndex DEF Goes, Arrive
<1>5. ASSUME NEW t \in clients.deleteTags, DeleteTag(h, t) PROVE InStep'
  <2> DEFINE d == Resolve(index, t)
             e == Entry(d, t, None)
  <2>1. t \in Tags /\ d # None
    BY <1>0, <1>5, ClientTypes DEF DeleteTag
  <2>2. d \in Manifests /\ \E x \in Entries : x.tag = t /\ x.dig = d
    BY <1>0, <2>1, ResolvesTo DEF Entries
  <2>3. d \notin Referrers
    BY <1>5, <2>2 DEF InStep, DeletableOK
  <2>4. DeleteBegin(h, e)
    BY <1>5 DEF DeleteTag
  <2>5. e.dig = d
    BY DEF Entry
  <2> HIDE DEF d, e
  <2> QED BY <1>4, <2>2, <2>3, <2>4, <2>5
<1>6. ASSUME NEW d \in clients.deleteManifests, DeleteDigest(h, d) PROVE InStep'
  <2> DEFINE e == Entry(d, None, None)
  <2>1. d \in Manifests
    BY <1>0, ClientTypes
  <2>2. d \in blobs
    <3>1. d \in Knows(index)
      BY <1>0, <1>6, FoundIs DEF DeleteDigest, Written
    <3> QED BY <3>1 DEF Stored
  <2>3. DeleteBegin(h, e)
    BY <1>6 DEF DeleteDigest
  <2>4. e.dig = d /\ e.tag = None
    BY DEF Entry
  <2> HIDE DEF e
  <2> QED BY <1>4, <2>1, <2>2, <2>3, <2>4
<1> QED BY <1>3, <1>5, <1>6

\* The insertion of a manifest.
LEMMA InsertInStep ==
  ASSUME IInv, InStep, UNCHANGED setup, NEW h \in Handlers
  PROVE  /\ PutStore(h) => InStep'
         /\ PutInsert(h) => InStep'
<1>0. HandlersOK /\ Working /\ Written(index) /\ clients' = clients /\ ServerOK
  BY DEF IInv, setup, HandlersOK
<1>1. ASSUME PutStore(h) PROVE InStep'
  <2>1. pc[h] = "store" /\ Goes(h, "insert", req[h]) /\ UNCHANGED index
    BY <1>0, <1>1, PutSteps DEF PutStore
  <2>2. RequestOK(h)'
    BY <1>0, <2>1 DEF InStep, Goes, RequestOK, Storing, Responding
  <2>3. \A m : ~Between(h, m)
    BY <1>0, <2>1 DEF Between, Working
  <2> QED BY <1>0, <2>1, <2>2, <2>3, SameIndex DEF Goes
<1>2. ASSUME PutInsert(h) PROVE InStep'
  <2> DEFINE d == req[h].entry.dig
             tags == req[h].tags
  <2>1. pc[h] = "insert" /\ req[h].op = "put"
    BY <1>0, <1>2, PutSteps DEF Working
  <2>2. /\ Others(h)
        /\ \/ /\ pc'[h] = "insert" /\ req'[h].op = "put" /\ req'[h].entry.dig = d
              /\ req'[h].tags = Tail(tags) /\ Len(tags) > 1
           \/ d \in Referrers /\ pc'[h] = "respRead" /\ req'[h] = req[h]
           \/ d \notin Referrers /\ pc'[h] = "idle" /\ req'[h] = Idle
    BY <1>0, <1>2, <2>1, PutSteps DEF Goes
  <2>3. d \in Manifests /\ tags # <<>> /\ tags \in Seq(Tags \union {None})
    BY <1>2, IndexSteps
  <2>4. PICK e : /\ e.dig = d /\ e.tag = Head(tags) /\ e.subj = None
                 /\ Added(index', index, e) /\ Descends(index', index, e)
    BY <1>2, IndexSteps
  <2>5. d \in Referrers => Head(tags) \notin clients.deleteTags
    <3>1. Head(tags) = tags[1] /\ 1 \in 1..Len(tags)
      BY <2>3
    <3>2. Head(tags) \in ToSet(tags)
      BY <2>3, <3>1, Elements
    <3> QED BY <2>1, <3>2 DEF InStep, RequestOK, Storing
  <2>6. Len(tags) > 1 => ToSet(Tail(tags)) \subseteq ToSet(tags)
    <3> SUFFICES ASSUME Len(tags) > 1, NEW t \in ToSet(Tail(tags)) PROVE t \in ToSet(tags)
      OBVIOUS
    <3>1. Tail(tags) \in Seq(Tags \union {None}) /\ Len(Tail(tags)) = Len(tags) - 1 /\ Len(tags) \in Nat
      BY <2>3
    <3>2. PICK i \in 1..Len(Tail(tags)) : Tail(tags)[i] = t
      BY <3>1, Elements
    <3>3. i + 1 \in 1..Len(tags) /\ tags[i + 1] = t
      BY <2>3, <3>1, <3>2
    <3> QED BY <2>3, <3>3, Elements
  <2>7. /\ d \in Knows(index') /\ Knows(index) \subseteq Knows(index')
        /\ Knows(index') \subseteq Knows(index) \union {d}
    BY <1>0, <2>4, AddedKeeps
  <2>8. ResponsesOK'
    <3>1. \A x \in Entries' : x.subj # None => x \in Entries
      BY <2>4 DEF Descends, Plain, Entries
    <3> QED BY <2>7, <3>1 DEF InStep, ResponsesOK, Answers
  <2>9. DeletableOK'
    <3>1. None \notin clients.deleteTags
      BY <1>0, ClientTypes, DigestKinds
    <3>2. \A x \in Entries' : x \in Entries \/ x = e \/ x.tag = None
      BY <2>4 DEF Descends, Plain, Entries
    <3> QED BY <1>0, <2>4, <2>5, <3>1, <3>2 DEF InStep, DeletableOK
  <2>10. ListedOK'
    <3> SUFFICES ASSUME NEW m \in Knows(index') \intersect Referrers
                 PROVE  ListedIn(m, Entries') \/ Between(h, m)'
      BY DEF ListedOK
    <3>1. CASE m = d
      BY <2>1, <2>2, <3>1 DEF Between
    <3>2. CASE m # d
      <4>1. ListedIn(m, Entries) \/ Between(h, m)
        BY <1>0, <2>1, <2>2, <2>7, <3>2, BetweenIs
      <4>2. ListedIn(m, Entries)
        BY <3>2, <4>1 DEF Between
      <4>3. m # None /\ Content[m].subj # None
        BY DigestKinds DEF Referrers, Listable
      <4>4. ResponsesStay(ToSet(index'.manifests), ToSet(index.manifests), None)
        BY <2>4 DEF Added
      <4> QED BY <4>2, <4>3, <4>4, ListedStays
    <3> QED BY <3>1, <3>2
  <2>11. RequestOK(h)'
    <3>1. CASE pc'[h] = "insert" /\ req'[h].op = "put" /\ req'[h].entry.dig = d
               /\ req'[h].tags = Tail(tags) /\ Len(tags) > 1
      <4>1. d \in Referrers => ToSet(tags) \intersect clients.deleteTags = {}
        BY <2>1 DEF InStep, RequestOK, Storing
      <4> HIDE DEF d, tags
      <4> QED BY <1>0, <2>6, <3>1, <4>1 DEF RequestOK, Storing, Responding
    <3>2. CASE pc'[h] = "respRead" /\ req'[h] = req[h]
      BY <2>1, <2>7, <3>2 DEF RequestOK, Storing, Responding
    <3>3. CASE pc'[h] = "idle" /\ req'[h] = Idle
      BY <3>3, IdleIs DEF RequestOK, Storing, Responding
    <3> QED BY <2>2, <3>1, <3>2, <3>3
  <2> QED BY <1>0, <2>1, <2>2, <2>8, <2>9, <2>10, <2>11, InStepOn
<1> QED BY <1>1, <1>2

\* The new response lists all that the old one did, with the pushed manifest or without
\* the deleted one.
LEMMA ReadInStep ==
  ASSUME IInv, Stored, InStep, UNCHANGED setup, NEW h \in Handlers
  PROVE  AddReadResponse(h) \/ DeleteReadResponse(h) => InStep'
<1> DEFINE d == req[h].entry.dig
           s == Content[d].subj
           old == Readable(Subject(h))
<1>0. HandlersOK /\ Working /\ Written(index) /\ clients' = clients
  BY DEF IInv, setup, HandlersOK
<1> SUFFICES ASSUME AddReadResponse(h) \/ DeleteReadResponse(h) PROVE InStep'
  OBVIOUS
<1>1. pc[h] = "respRead" /\ UNCHANGED index /\ d \in Referrers /\ d \in Manifests
  BY <1>0, ResponseTypes, DigestKinds DEF AddReadResponse, DeleteReadResponse
<1>2. Subject(h) = s /\ s \in Manifests /\ s # None
  BY <1>1, SubjectIs, DigestKinds DEF Listable
<1>3. \/ old = None /\ \A e \in Entries : e.subj # s
      \/ /\ old # None /\ old \in Seq(Referrers) /\ Answers(old, s)
         /\ \A e \in Entries : e.subj = s => e.dig = old
  BY <1>2, OldIs DEF InStep
<1>4. ASSUME NEW ls \in Seq(Referrers), NEW r, Goes(h, "respStore", r), r.op = req[h].op,
             r.entry = req[h].entry, r.resp = ls, Answers(ls, s),
             (d \in ToSet(ls)) <=> (req[h].op = "put"),
             \A e \in Entries : e.subj = s => Refs(e.dig) \ {d} \subseteq ToSet(ls)
      PROVE  InStep'
  <2>1. req[h].op = "put" => d \in Knows(index)
    BY <1>1 DEF InStep, RequestOK, Responding
  <2>2. req[h].op = "delete" => req[h].entry.tag = None
    BY <1>1 DEF InStep, RequestOK
  <2>3. /\ pc'[h] = "respStore" /\ req'[h].op = req[h].op /\ req'[h].entry = req[h].entry
        /\ req'[h].resp = ls /\ Others(h)
    BY <1>4 DEF Goes
  <2>4. Answers(ls, s)'
    BY <1>1, <1>4, <2>3 DEF Answers
  <2>5. RequestOK(h)'
    BY <1>0, <1>1, <1>4, <2>1, <2>2, <2>3, <2>4 DEF RequestOK, Storing, Responding, Entries
  <2>6. \A m : Between(h, m) => Between(h, m)'
    BY <1>1, <2>3 DEF Between
  <2> QED BY <1>0, <1>1, <2>3, <2>5, <2>6, SameIndex
<1>5. CASE AddReadResponse(h)
  <2> DEFINE from == IF old = None THEN <<>> ELSE old
             ls == Listed(from, d)
  <2>1. /\ req[h].op = "put"
        /\ \E r : /\ Goes(h, "respStore", r)
                  /\ r.op = req[h].op /\ r.entry = req[h].entry /\ r.resp = ls
    BY <1>0, <1>5, ResponseSteps
  <2>2. from \in Seq(Referrers) /\ Answers(from, s)
        /\ \A e \in Entries : e.subj = s => Refs(e.dig) = ToSet(from)
    <3>1. CASE old = None
      <4>1. ToSet(<<>>) = {} /\ <<>> \in Seq(Referrers) /\ NoDup(<<>>)
        BY DEF ToSet, NoDup
      <4> QED BY <1>3, <3>1, <4>1 DEF Answers
    <3>2. CASE old # None
      <4> HIDE DEF old, s
      <4> QED BY <1>3, <3>2, AnswersIs
    <3> QED BY <3>1, <3>2
  <2> HIDE DEF from
  <2>3. ls \in Seq(Referrers) /\ ToSet(ls) = ToSet(from) \union {d} /\ NoDup(ls)
    BY <1>1, <2>2, ListIs, NoDupStays DEF Answers
  <2>4. d \in Knows(index)
    BY <1>1, <2>1 DEF InStep, RequestOK, Responding
  <2> HIDE DEF ls
  <2>5. Answers(ls, s)
    BY <2>2, <2>3, <2>4 DEF Answers
  <2>6. \A e \in Entries : e.subj = s => Refs(e.dig) \ {d} \subseteq ToSet(ls)
    BY <2>2, <2>3
  <2>7. (d \in ToSet(ls)) <=> (req[h].op = "put")
    BY <2>1, <2>3
  <2> HIDE DEF d, s
  <2> QED BY <1>4, <2>1, <2>3, <2>5, <2>6, <2>7
<1>6. CASE DeleteReadResponse(h)
  <2> DEFINE ls == Only(old, ToSet(old) \ {d})
  <2>1. /\ req[h].op = "delete"
        /\ \/ old = None /\ Goes(h, "remove", req[h])
           \/ /\ old # None
              /\ \E r : /\ Goes(h, "respStore", r)
                        /\ r.op = req[h].op /\ r.entry = req[h].entry /\ r.resp = ls
    BY <1>0, <1>6, ResponseSteps
  <2>2. CASE old = None /\ Goes(h, "remove", req[h])
    <3>1. \A e \in Entries : e.subj # None => d \notin Refs(e.dig)
      <4> SUFFICES ASSUME NEW e \in Entries, e.subj # None, d \in Refs(e.dig) PROVE FALSE
        OBVIOUS
      <4>1. e.dig \in Seq(Referrers)
        BY <1>0, WrittenEntries DEF Entries
      <4>2. e.subj = s
        BY <4>1, AnswersIs DEF InStep, ResponsesOK, Answers
      <4> QED BY <1>3, <2>2, <4>2
    <3>2. RequestOK(h)'
      BY <1>0, <1>1, <2>1, <2>2, <3>1 DEF InStep, Goes, RequestOK, Storing, Responding, Entries
    <3>3. \A m : Between(h, m) => Between(h, m)'
      BY <1>1, <2>1, <2>2 DEF Between, Goes
    <3> QED BY <1>0, <1>1, <2>2, <3>2, <3>3, SameIndex DEF Goes
  <2>3. CASE /\ old # None
             /\ \E r : /\ Goes(h, "respStore", r)
                       /\ r.op = req[h].op /\ r.entry = req[h].entry /\ r.resp = ls
    <3>1. old \in Seq(Referrers) /\ Answers(old, s) /\ \A e \in Entries : e.subj = s => e.dig = old
      BY <1>3, <2>3
    <3> HIDE DEF old
    <3>2. ls \in Seq(Referrers) /\ ToSet(ls) = ToSet(old) \ {d} /\ NoDup(ls)
      BY <1>1, <3>1, ListIs, NoDupStays DEF Answers
    <3> HIDE DEF ls
    <3>3. Answers(ls, s)
      BY <3>1, <3>2 DEF Answers
    <3>4. \A e \in Entries : e.subj = s => Refs(e.dig) \ {d} \subseteq ToSet(ls)
      BY <3>1, <3>2, AnswersIs
    <3>5. (d \in ToSet(ls)) <=> (req[h].op = "put")
      BY <2>1, <3>2
    <3> HIDE DEF d, s
    <3> QED BY <1>4, <2>3, <3>2, <3>3, <3>4, <3>5
  <2> QED BY <2>1, <2>2, <2>3
<1> QED BY <1>5, <1>6

\* The new response takes the old one's place.
LEMMA RespondInStep ==
  ASSUME IInv, InStep, UNCHANGED setup, NEW h \in Handlers
  PROVE  /\ StoreResponse(h) => InStep'
         /\ InsertResponse(h) => InStep'
<1> DEFINE d == req[h].entry.dig
           s == Content[d].subj
           ls == req[h].resp
<1>0. HandlersOK /\ Working /\ Written(index) /\ clients' = clients /\ ServerOK
  BY DEF IInv, setup, HandlersOK
<1>1. ASSUME StoreResponse(h) PROVE InStep'
  <2>1. pc[h] = "respStore" /\ Goes(h, "respInsert", req[h]) /\ UNCHANGED index
    BY <1>0, <1>1, ResponseSteps DEF StoreResponse
  <2>2. Answers(ls, s)'
    BY <2>1 DEF InStep, RequestOK, Answers, Goes
  <2>3. RequestOK(h)'
    BY <1>0, <2>1, <2>2 DEF InStep, Goes, RequestOK, Storing, Responding, Entries
  <2>4. \A m : Between(h, m) => Between(h, m)'
    BY <2>1 DEF Between, Goes
  <2> QED BY <1>0, <2>1, <2>3, <2>4, SameIndex DEF Goes
<1>2. ASSUME InsertResponse(h) PROVE InStep'
  <2>1. /\ pc[h] = "respInsert" /\ Others(h)
        /\ \/ req[h].op = "put" /\ pc'[h] = "idle" /\ req'[h] = Idle
           \/ req[h].op # "put" /\ pc'[h] = "remove" /\ req'[h] = req[h]
    BY <1>0, <1>2, ResponseSteps DEF Goes
  <2>2. /\ d \in Referrers /\ d \in Manifests /\ s \in Manifests /\ s # None
        /\ ls \in Seq(Referrers) /\ ls # None
    BY <1>2, IndexSteps, DigestKinds DEF Listable, Digests
  <2>3. PICK e : /\ e.dig = ls /\ e.tag = None /\ e.subj = s /\ Written(index')
                 /\ Added(index', index, e) /\ Descends(index', index, e)
    BY <1>2, IndexSteps
  <2>4. /\ Answers(ls, s)
        /\ (d \in ToSet(ls)) <=> (req[h].op = "put")
        /\ \A x \in Entries : x.subj = s => Refs(x.dig) \ {d} \subseteq ToSet(ls)
    BY <2>1 DEF InStep, RequestOK
  <2>5. /\ Knows(index') \subseteq Knows(index) \union {ls}
        /\ \A m \in Manifests : m \in Knows(index) => m \in Knows(index')
    BY <1>0, <2>3, AddedKeeps
  <2>6. /\ \A x \in Entries' : x \in Entries \/ x = e \/ (x.tag = None /\ x.subj = None)
        /\ \E x \in Entries' : x.subj = s /\ x.dig = ls
    BY <2>2, <2>3 DEF Descends, Plain, Entries, Added, Answered
  <2>7. \A x \in Entries' : x.subj = s => x.dig = ls
    <3>1. \A x \in Entries' : x.subj = s => x.dig = Response(index', s)
      BY <2>2, <2>3, <2>6, ResponseOf DEF Entries
    <3> QED BY <2>6, <3>1
  <2> HIDE DEF d, s, ls
  <2>8. ASSUME NEW x \in Entries', x.subj # None
        PROVE  /\ Answers(x.dig, x.subj) /\ x.dig \in Seq(Referrers)
               /\ \A m \in Refs(x.dig) : Content[m].subj = x.subj
    <3>1. Answers(x.dig, x.subj)
      BY <2>3, <2>4, <2>6, <2>8 DEF InStep, ResponsesOK
    <3>2. x.dig \in Seq(Referrers)
      BY <2>3, <2>8, WrittenEntries DEF Entries
    <3> QED BY <3>1, <3>2, AnswersIs DEF Answers
  <2>9. ResponsesOK'
    <3> SUFFICES ASSUME NEW x \in Entries', x.subj # None PROVE Answers(x.dig, x.subj)'
      BY DEF ResponsesOK
    <3>1. Answers(x.dig, x.subj) /\ ToSet(x.dig) \subseteq Manifests
      BY <2>8, AnswersIs
    <3> QED BY <2>5, <3>1 DEF Answers
  <2>10. DeletableOK'
    <3>1. None \notin clients.deleteTags
      BY <1>0, ClientTypes, DigestKinds
    <3> QED BY <1>0, <2>3, <2>6, <3>1 DEF InStep, DeletableOK
  <2>11. ListedOK'
    <3> SUFFICES ASSUME NEW m \in Knows(index') \intersect Referrers
                 PROVE  ListedIn(m, Entries') \/ Between(h, m)'
      BY DEF ListedOK
    <3>1. m \in Knows(index) /\ m # None /\ Content[m].subj # None
      BY <2>2, <2>5, DigestKinds DEF Referrers, Listable
    <3>2. ListedIn(m, Entries) \/ m = d
      BY <1>0, <2>1, <3>1, BetweenIs DEF Between, d
    <3>3. CASE m \in ToSet(ls)
      <4>1. Content[m].subj = s
        BY <2>4, <3>3 DEF Answers
      <4>2. m \in Refs(ls)
        BY <2>2, <3>3, AnswersIs
      <4> QED BY <2>6, <4>1, <4>2 DEF ListedIn
    <3>4. CASE m = d /\ m \notin ToSet(ls)
      <4>1. req[h].op # "put" /\ pc'[h] = "remove" /\ req'[h] = req[h]
        BY <2>1, <2>4, <3>4
      <4>2. req[h].op = "delete"
        BY <1>0, <2>1, <4>1 DEF Working
      <4> QED BY <3>4, <4>1, <4>2 DEF Between, d
    <3>5. CASE m # d /\ m \notin ToSet(ls)
      <4>1. ListedIn(m, Entries)
        BY <3>2, <3>5
      <4>2. Content[m].subj # s
        BY <2>4, <3>5, <4>1 DEF ListedIn
      <4>3. ResponsesStay(ToSet(index'.manifests), ToSet(index.manifests), s)
        BY <2>3 DEF Added
      <4> QED BY <3>1, <4>1, <4>2, <4>3, ListedStays
    <3> QED BY <3>3, <3>4, <3>5
  <2>12. RequestOK(h)'
    <3>1. CASE pc'[h] = "idle" /\ req'[h] = Idle
      BY <3>1, IdleIs DEF RequestOK, Storing, Responding
    <3>2. CASE req[h].op # "put" /\ pc'[h] = "remove" /\ req'[h] = req[h]
      <4>1. \A x \in Entries' : x.subj # None => d \notin Refs(x.dig)
        <5> SUFFICES ASSUME NEW x \in Entries', x.subj # None, d \in Refs(x.dig) PROVE FALSE
          OBVIOUS
        <5>1. x.subj = s
          BY <2>8 DEF s
        <5>2. x.dig = ls /\ d \in ToSet(ls)
          BY <2>2, <2>7, <5>1, AnswersIs
        <5> QED BY <2>4, <3>2, <5>2
      <4>2. req[h].op = "delete" => req[h].entry.tag = None
        BY <2>2 DEF InStep, RequestOK, d
      <4> QED BY <3>2, <4>1, <4>2 DEF RequestOK, Storing, Responding, d
    <3> QED BY <2>1, <3>1, <3>2
  <2> QED BY <1>0, <2>1, <2>9, <2>10, <2>11, <2>12, InStepOn
<1> QED BY <1>1, <1>2

\* The deleted manifest leaves the index when no response lists it any more.
LEMMA RemoveInStep ==
  ASSUME IInv, InStep, UNCHANGED setup, NEW h \in Handlers, DeleteRemove(h)
  PROVE  InStep'
<1> DEFINE d == req[h].entry.dig
<1>0. HandlersOK /\ Working /\ Written(index) /\ clients' = clients /\ ServerOK
  BY DEF IInv, setup, HandlersOK
<1>1. /\ pc[h] = "remove" /\ Others(h) /\ pc'[h] = "idle" /\ req'[h] = Idle
      /\ req[h].op = "delete"
  BY <1>0, ResponseSteps DEF Goes, Working
<1>2. /\ d \in Manifests /\ Written(index') /\ Remains(index', index)
      /\ req[h].entry.tag = None => DigestRemoved(index', index, d)
      /\ req[h].entry.tag # None => TagRemoved(index', index, req[h].entry)
  BY IndexSteps
<1>3. \A e \in Entries : e.subj # None => d \notin Refs(e.dig)
  BY <1>1 DEF InStep, RequestOK
<1>4. d \in Referrers => req[h].entry.tag = None
  BY <1>1 DEF InStep, RequestOK
<1>5. /\ Knows(index) \ {d} \subseteq Knows(index') /\ Knows(index') \subseteq Knows(index)
      /\ req[h].entry.tag = None => d \notin Knows(index')
  BY <1>2 DEF DigestRemoved, TagRemoved
<1>6. \A x \in Entries' : x \in Entries \/ (x.tag = None /\ x.subj = None)
  BY <1>2 DEF Remains, Plain, Entries
<1>7. ResponsesOK'
  <2> SUFFICES ASSUME NEW x \in Entries', x.subj # None PROVE Answers(x.dig, x.subj)'
    BY DEF ResponsesOK
  <2>1. x \in Entries /\ Answers(x.dig, x.subj) /\ x.dig \in Seq(Referrers)
    BY <1>0, <1>6, WrittenEntries DEF InStep, ResponsesOK, Entries
  <2>2. d \notin ToSet(x.dig)
    BY <1>3, <2>1, AnswersIs
  <2> QED BY <1>5, <2>1, <2>2 DEF Answers
<1>8. DeletableOK'
  <2>1. None \notin clients.deleteTags
    BY <1>0, ClientTypes, DigestKinds
  <2> QED BY <1>0, <1>6, <2>1 DEF InStep, DeletableOK
<1>9. ListedOK'
  <2> SUFFICES ASSUME NEW m \in Knows(index') \intersect Referrers PROVE ListedIn(m, Entries')
    BY DEF ListedOK
  <2>1. m # d /\ m \in Knows(index) /\ m # None /\ Content[m].subj # None
    BY <1>4, <1>5, DigestKinds DEF Referrers, Listable
  <2>2. ListedIn(m, Entries)
    BY <1>0, <1>1, <2>1, BetweenIs DEF Between
  <2>3. PICK x \in Entries : x.subj = Content[m].subj /\ m \in Refs(x.dig)
    BY <2>2 DEF ListedIn
  <2>4. x.dig # None /\ x.dig # d
    <3>1. x.dig \in Seq(Referrers)
      BY <1>0, <2>1, <2>3, WrittenEntries DEF Entries
    <3> QED BY <1>2, <3>1, DigestKinds DEF Digests
  <2>5. Answered(ToSet(index.manifests), x.subj, x.dig)
    BY <2>3, <2>4 DEF Answered, Entries
  <2>6. AfterRemoval(x.dig, d) = x.dig
    BY <2>4 DEF AfterRemoval
  <2>7. Answered(ToSet(index'.manifests), x.subj, x.dig)
    BY <1>2, <2>1, <2>3, <2>5, <2>6 DEF DigestRemoved, TagRemoved, ResponsesStay
  <2> QED BY <2>3, <2>4, <2>7 DEF Answered, ListedIn, Entries
<1>10. RequestOK(h)'
  BY <1>1, IdleIs DEF RequestOK, Storing, Responding
<1> QED BY <1>0, <1>1, <1>7, <1>8, <1>9, <1>10, InStepOn

\* A collection keeps every response, and what it lists.
LEMMA CollectInStep ==
  ASSUME IInv, Stored, KeepsResponses, InStep, UNCHANGED setup, GC
  PROVE  InStep'
<1>0. Written(index) /\ clients' = clients
  BY DEF IInv, setup
<1>1. /\ \A h \in Handlers : pc'[h] = "idle" /\ pc[h] = "idle" /\ req'[h].op = "none"
      /\ Entries' = {e \in Entries : e.dig \in blobs'}
      /\ Knows(index') \subseteq Knows(index)
      /\ \A d \in Knows(index) : d \in blobs' => d \in Knows(index')
      /\ blobs' = blobs \intersect (Seen \union (fresh \ InIndex))
  BY CollectionIs, IdleIs
<1>2. ASSUME NEW e \in Entries, e.subj # None PROVE e.dig \in Walked
  <2>1. e.dig \in blobs
    BY DEF Stored, Knows, Digs, Entries
  <2>2. Kept(e)
    BY <1>2 DEF Kept, Conditional, KeepsResponses
  <2> QED BY <2>1, <2>2, WalkSpares
<1>3. ResponsesOK'
  <2> SUFFICES ASSUME NEW e \in Entries', e.subj # None PROVE Answers(e.dig, e.subj)'
    BY DEF ResponsesOK
  <2>1. e \in Entries /\ Answers(e.dig, e.subj) /\ e.dig \in Seq(Referrers)
    BY <1>0, <1>1, WrittenEntries DEF InStep, ResponsesOK, Entries
  <2>2. Refs(e.dig) \intersect blobs \subseteq Seen
    BY <1>2, <2>1, WalkSpares
  <2>3. \A m \in ToSet(e.dig) : m \in Knows(index')
    <3>1. \A m \in ToSet(e.dig) : m \in Knows(index) /\ m \in blobs
      BY <2>1 DEF Answers, Stored
    <3> QED BY <1>1, <2>1, <2>2, <3>1, AnswersIs
  <2> QED BY <2>1, <2>3 DEF Answers
<1>4. DeletableOK'
  BY <1>0, <1>1 DEF InStep, DeletableOK
<1>5. ListedOK'
  <2> SUFFICES ASSUME NEW m \in Knows(index') \intersect Referrers PROVE ListedIn(m, Entries')
    BY DEF ListedOK
  <2>1. ListedIn(m, Entries)
    BY <1>1 DEF InStep, ListedOK, Between
  <2>2. PICK e \in Entries : e.subj = Content[m].subj /\ m \in Refs(e.dig)
    BY <2>1 DEF ListedIn
  <2>3. e.dig \in blobs'
    BY <1>1, <1>2, <2>2, WalkSpares DEF Referrers
  <2> QED BY <1>1, <2>2, <2>3 DEF ListedIn
<1>6. Alone' /\ \A h \in Handlers : RequestOK(h)'
  BY <1>1 DEF Alone, RequestOK, Storing, Responding
<1> QED BY <1>3, <1>4, <1>5, <1>6 DEF InStep

\* What is in step stays so while neither the index nor a request changes.
LEMMA SameRequests ==
  ASSUME InStep, UNCHANGED <<index, pc, req, clients>>
  PROVE  InStep'
<1>1. ResponsesOK' /\ DeletableOK' /\ Alone'
  BY DEF InStep, ResponsesOK, DeletableOK, Alone, Entries, Answers
<1>2. ListedOK'
  BY DEF InStep, ListedOK, Entries, Between
<1>3. \A h \in Handlers : RequestOK(h)'
  BY DEF InStep, RequestOK, Storing, Responding, Entries, Answers
<1> QED BY <1>1, <1>2, <1>3 DEF InStep

\* Every step keeps the responses in step with the index.
LEMMA InStepStep ==
  ASSUME IInv, Stored, KeepsResponses, InStep, Next, UNCHANGED setup
  PROVE  InStep'
<1>1. UNCHANGED clients
  BY DEF setup
<1>2. CASE \/ \E b \in clients.upload : BlobUpload(b)
           \/ \E d \in clients.deleteBlobs : BlobDelete(d)
           \/ \E d \in fresh : Age(d)
  BY <1>1, <1>2, SameRequests DEF BlobUpload, BlobDelete, Age
<1>3. ASSUME NEW h \in Handlers,
             \/ \E p \in clients.push : PutBegin(h, p[1], p[2])
             \/ \E t \in clients.deleteTags : DeleteTag(h, t)
             \/ \E d \in clients.deleteManifests : DeleteDigest(h, d)
      PROVE  InStep'
  BY <1>3, BeginInStep
<1>4. ASSUME NEW h \in Handlers,
             \/ PutStore(h) \/ PutInsert(h) \/ AddReadResponse(h) \/ DeleteReadResponse(h)
             \/ DeleteRemove(h) \/ StoreResponse(h) \/ InsertResponse(h)
      PROVE  InStep'
  BY <1>4, InsertInStep, ReadInStep, RespondInStep, RemoveInStep
<1>5. CASE GC
  BY <1>5, CollectInStep
<1> QED BY <1>2, <1>3, <1>4, <1>5 DEF Next

\* Between requests the response of a subject lists the manifests of it that the index can
\* find, each once, and nothing else.
LEMMA ResponsesExact ==
  ASSUME IInv, Stored, InStep, \A h \in Handlers : pc[h] = "idle"
  PROVE  /\ \A m \in Referrers : Found(index, m) =>
              LET r == Response(index, Content[m].subj)
              IN  r # None /\ m \in Refs(r)
         /\ \A e \in {f \in Entries : f.subj # None} :
              /\ \A m \in Refs(e.dig) : Content[m].subj = e.subj /\ Found(index, m) /\ m \in blobs
              /\ Len(e.dig) = Cardinality(Refs(e.dig))
<1>1. \A d : Found(index, d) <=> d \in Knows(index)
  BY FoundIs DEF IInv, Written
<1>2. ASSUME NEW m \in Referrers, Found(index, m)
      PROVE  LET r == Response(index, Content[m].subj)
             IN  r # None /\ m \in Refs(r)
  <2>1. ListedIn(m, Entries)
    BY <1>1, <1>2 DEF InStep, ListedOK, Between
  <2>2. PICK e \in Entries : e.subj = Content[m].subj /\ m \in Refs(e.dig)
    BY <2>1 DEF ListedIn
  <2>3. e.subj \in Manifests /\ e.dig \in Seq(Referrers)
    BY <2>2, WrittenEntries DEF IInv, Entries, Referrers
  <2>4. e.dig = Response(index, Content[m].subj)
    BY <2>2, <2>3, ResponseOf DEF IInv, Entries
  <2>5. e.dig # None
    BY <2>3, DigestKinds DEF Digests
  <2> QED BY <2>2, <2>4, <2>5
<1>3. ASSUME NEW e \in Entries, e.subj # None
      PROVE  /\ \A m \in Refs(e.dig) : Content[m].subj = e.subj /\ Found(index, m) /\ m \in blobs
             /\ Len(e.dig) = Cardinality(Refs(e.dig))
  <2>1. e.dig \in Seq(Referrers) /\ Answers(e.dig, e.subj)
    BY <1>3, WrittenEntries DEF IInv, Entries, InStep, ResponsesOK
  <2>2. Refs(e.dig) = ToSet(e.dig)
    BY <2>1, AnswersIs
  <2>3. Len(e.dig) = Cardinality(ToSet(e.dig))
    BY <2>1, NoDupCounts DEF Answers
  <2> QED BY <1>1, <2>1, <2>2, <2>3 DEF Answers, Stored
<1> QED BY <1>2, <1>3

\* While the policy keeps responses and requests come one at a time, the responses are in
\* step with the index, except for the request under way.
THEOREM ResponsesInvariance == Spec => []RInv
<1>1. Init => RInv
  <2> SUFFICES ASSUME Init PROVE InStep
    BY DEF RInv
  <2>1. Entries = {} /\ Knows(index) = {}
    BY DEF Init, Entries, EmptyIndex, Knows, Digs, ToSet
  <2>2. Alone /\ \A h \in Handlers : RequestOK(h)
    BY DEF Init, Alone, RequestOK, Storing, Responding, Idle
  <2> QED BY <2>1, <2>2 DEF InStep, ResponsesOK, DeletableOK, ListedOK
<1>2. IInv /\ PInv /\ RInv /\ [Next /\ UNCHANGED setup]_vars => RInv'
  <2> SUFFICES ASSUME IInv, PInv, RInv, [Next /\ UNCHANGED setup]_vars, KeepsResponses'
               PROVE  InStep'
    BY DEF RInv
  <2>1. UNCHANGED setup
    BY DEF vars, setup
  <2>2. KeepsResponses /\ InStep /\ Stored
    BY <2>1, HeldIs DEF setup, KeepsResponses, RInv, PInv, Keeping
  <2>3. CASE UNCHANGED vars
    BY <2>2, <2>3, SameRequests DEF vars
  <2>4. CASE Next
    BY <2>1, <2>2, <2>4, InStepStep
  <2> QED BY <2>3, <2>4
<1> QED BY RegistryInvariance, ContentInvariance, <1>1, <1>2, PTL DEF Spec

\* While the policy keeps responses, requests come one at a time and neither blobs nor the
\* tags of referrers are deleted, the referrers API answers with the manifests of the
\* subject that the index can find, with nothing else and nothing twice
\* (Registry.ReferrersAgree).
THEOREM ResponsesAgree == Spec => []ReferrersAgree
<1>1. IInv /\ PInv /\ RInv => ReferrersAgree
  <2> SUFFICES ASSUME IInv, PInv, RInv, KeepsResponses, \A h \in Handlers : pc[h] = "idle"
               PROVE  ReferrersAgree
    BY DEF ReferrersAgree
  <2>1. InStep /\ Stored
    BY HeldIs DEF RInv, PInv, Keeping, KeepsResponses
  <2> QED BY <2>1, ResponsesExact DEF ReferrersAgree
<1> QED BY RegistryInvariance, ContentInvariance, ResponsesInvariance, <1>1, PTL

-----------------------------------------------------------------------------
(* The pages of a response *)

\* b lists the sum of the sizes after each descriptor.
ByteSteps(b, list) ==
  /\ b[0] = 0 /\ b[Len(list)] = Bytes(list)
  /\ \A k \in 1..Len(list) : b[k] = b[k - 1] + Size[list[k]]

\* The length of a list is such a sum.
LEMMA ByteTrace ==
  ASSUME NEW list \in Seq(Referrers)
  PROVE  \E b \in [0..Len(list) -> Nat] : ByteSteps(b, list)
<1> DEFINE Rest(H, t) == H[t \ {Max(t)}] + Size[list[Max(t)]]
           Is(H) == H = [t \in SUBSET DOMAIN list |-> IF t = {} THEN 0 ELSE Rest(H, t)]
           Chosen == CHOOSE H : Is(H)
           G == [x \in (1..Len(list)) \X Nat |-> x[2] + Size[list[x[1]]]]
<1>0. Len(list) \in Nat /\ DOMAIN list = 1..Len(list) /\ 0 \in Nat
  OBVIOUS
<1>1. \A k \in 1..Len(list), a \in Nat : G[<<k, a>>] = a + Size[list[k]]
  OBVIOUS
<1>2. G \in [(1..Len(list)) \X Nat -> Nat]
  BY <1>1, PagesType
<1>3. \A t \in SUBSET (1..Len(list)) : t # {} => Max(t) \in 1..Len(list)
  BY <1>0, Top
<1> HIDE DEF G
<1>4. \E H : Is(H)
  <2>1. PICK F \in [SUBSET (1..Len(list)) -> Nat] : Iterates(F, Len(list), 0, G)
    BY <1>0, <1>2, IterationExists, Zenon
  <2>2. ASSUME NEW t \in SUBSET (1..Len(list)), t # {} PROVE F[t] = Rest(F, t)
    <3>1. F[t \ {Max(t)}] \in Nat
      OBVIOUS
    <3>2. F[t] = G[<<Max(t), F[t \ {Max(t)}]>>]
      BY <2>1, <2>2 DEF Iterates
    <3> QED BY <1>1, <1>3, <2>2, <3>1, <3>2
  <2>3. F[{}] = 0
    BY <2>1 DEF Iterates
  <2>4. F = [t \in SUBSET (1..Len(list)) |-> F[t]]
    OBVIOUS
  <2>5. Is(F)
    BY <1>0, <2>2, <2>3, <2>4
  <2> QED BY <2>5
<1>5. Is(Chosen)
  <2> HIDE DEF Is
  <2> QED BY <1>4
<1>6. Bytes(list) = Chosen[DOMAIN list]
  BY Zenon DEF Bytes, FoldLeft, MapThenFoldSet
<1> HIDE DEF Chosen
<1>7. IteratesIn(Chosen, Len(list), Nat, 0, G)
  <2>1. Chosen[{}] = 0
    BY <1>5
  <2>2. ASSUME NEW t \in SUBSET (1..Len(list)), t # {}, Chosen[t \ {Max(t)}] \in Nat
        PROVE  Chosen[t] = G[<<Max(t), Chosen[t \ {Max(t)}]>>]
    <3>1. Chosen[t] = Rest(Chosen, t)
      BY <1>0, <1>5, <2>2
    <3> QED BY <1>1, <1>3, <2>2, <3>1
  <2> QED BY <2>1, <2>2 DEF IteratesIn
<1>8. PICK b \in [0..Len(list) -> Nat] : Traces(b, Len(list), Chosen, 0, G)
  BY <1>0, <1>2, <1>7, IterationTrace, Zenon
<1>9. ASSUME NEW k \in 1..Len(list) PROVE b[k] = b[k - 1] + Size[list[k]]
  <2>1. b[k - 1] \in Nat
    OBVIOUS
  <2>2. b[k] = G[<<k, b[k - 1]>>]
    BY <1>8 DEF Traces
  <2> QED BY <1>1, <2>1, <2>2
<1>10. b[0] = 0 /\ b[Len(list)] = Bytes(list)
  BY <1>0, <1>6, <1>8 DEF Traces
<1> QED BY <1>9, <1>10 DEF ByteSteps

\* acc lists what referrerSplit has after each descriptor.
FillSteps(acc, list, limit) ==
  LET start == [pages |-> <<>>, page |-> <<>>]
  IN  /\ acc[0] = start /\ acc[Len(list)] = FoldLeft(LAMBDA a, m : Fill(a, m, limit), start, list)
      /\ \A k \in 1..Len(list) : acc[k] = Fill(acc[k - 1], list[k], limit)

Filling == [pages: Seq(Seq(Referrers)), page: Seq(Referrers)]

\* Filling pages is such a loop.
LEMMA FillTrace ==
  ASSUME NEW list \in Seq(Referrers), NEW limit
  PROVE  \E acc \in [0..Len(list) -> Filling] : FillSteps(acc, list, limit)
<1> DEFINE start == [pages |-> <<>>, page |-> <<>>]
           Rest(H, t) == Fill(H[t \ {Max(t)}], list[Max(t)], limit)
           Is(H) == H = [t \in SUBSET DOMAIN list |-> IF t = {} THEN start ELSE Rest(H, t)]
           Chosen == CHOOSE H : Is(H)
           G == [x \in (1..Len(list)) \X Filling |-> Fill(x[2], list[x[1]], limit)]
<1>0. Len(list) \in Nat /\ DOMAIN list = 1..Len(list) /\ start \in Filling
  BY DEF Filling
<1>1. \A k \in 1..Len(list), a \in Filling : G[<<k, a>>] = Fill(a, list[k], limit)
  OBVIOUS
<1>2. G \in [(1..Len(list)) \X Filling -> Filling]
  <2>1. ASSUME NEW a \in Filling, NEW m \in Referrers PROVE Fill(a, m, limit) \in Filling
    <3>1. /\ Append(a.page, m) \in Seq(Referrers) /\ <<m>> \in Seq(Referrers)
          /\ Append(a.pages, a.page) \in Seq(Seq(Referrers))
      BY DEF Filling
    <3>2. /\ a.page \in Seq(Referrers) /\ a.pages \in Seq(Seq(Referrers))
          /\ a = [pages |-> a.pages, page |-> a.page]
      BY DEF Filling
    <3> DEFINE more == Append(a.page, m)
               full == IF a.page = <<>> THEN a.pages ELSE Append(a.pages, a.page)
               next == IF Fits(<<m>>, limit) THEN <<m>> ELSE <<>>
    <3>3. Fill(a, m, limit) = [pages |-> a.pages, page |-> more] \/ Fill(a, m, limit) = [pages |-> full, page |-> next]
      BY <3>2 DEF Fill
    <3>4. more \in Seq(Referrers) /\ full \in Seq(Seq(Referrers)) /\ next \in Seq(Referrers)
      BY <3>1, <3>2
    <3> HIDE DEF more, full, next
    <3> QED BY <3>2, <3>3, <3>4 DEF Filling
  <2>2. \A k \in 1..Len(list) : list[k] \in Referrers
    OBVIOUS
  <2>3. \A x \in (1..Len(list)) \X Filling : G[x] \in Filling
    BY <2>1, <2>2
  <2> QED BY <2>3
<1>3. \A t \in SUBSET (1..Len(list)) : t # {} => Max(t) \in 1..Len(list)
  BY <1>0, Top
<1> HIDE DEF G, start
<1>4. \E H : Is(H)
  <2>1. PICK F \in [SUBSET (1..Len(list)) -> Filling] : Iterates(F, Len(list), start, G)
    BY <1>0, <1>2, IterationExists, Zenon
  <2>2. ASSUME NEW t \in SUBSET (1..Len(list)), t # {} PROVE F[t] = Rest(F, t)
    <3>1. F[t \ {Max(t)}] \in Filling
      OBVIOUS
    <3>2. F[t] = G[<<Max(t), F[t \ {Max(t)}]>>]
      BY <2>1, <2>2 DEF Iterates
    <3> QED BY <1>1, <1>3, <2>2, <3>1, <3>2
  <2>3. F[{}] = start
    BY <2>1 DEF Iterates
  <2>4. F = [t \in SUBSET (1..Len(list)) |-> F[t]]
    OBVIOUS
  <2>5. Is(F)
    BY <1>0, <2>2, <2>3, <2>4
  <2> QED BY <2>5
<1>5. Is(Chosen)
  <2> HIDE DEF Is
  <2> QED BY <1>4
<1>6. FoldLeft(LAMBDA a, m : Fill(a, m, limit), start, list) = Chosen[DOMAIN list]
  BY Zenon DEF FoldLeft, MapThenFoldSet
<1> HIDE DEF Chosen
<1>7. IteratesIn(Chosen, Len(list), Filling, start, G)
  <2>1. Chosen[{}] = start
    BY <1>5
  <2>2. ASSUME NEW t \in SUBSET (1..Len(list)), t # {}, Chosen[t \ {Max(t)}] \in Filling
        PROVE  Chosen[t] = G[<<Max(t), Chosen[t \ {Max(t)}]>>]
    <3>1. Chosen[t] = Rest(Chosen, t)
      BY <1>0, <1>5, <2>2
    <3> QED BY <1>1, <1>3, <2>2, <3>1
  <2> QED BY <2>1, <2>2 DEF IteratesIn
<1>8. PICK acc \in [0..Len(list) -> Filling] : Traces(acc, Len(list), Chosen, start, G)
  BY <1>0, <1>2, <1>7, IterationTrace, Zenon
<1>9. ASSUME NEW k \in 1..Len(list) PROVE acc[k] = Fill(acc[k - 1], list[k], limit)
  <2>1. acc[k - 1] \in Filling
    OBVIOUS
  <2>2. acc[k] = G[<<k, acc[k - 1]>>]
    BY <1>8 DEF Traces
  <2> QED BY <1>1, <2>1, <2>2
<1>10. acc[0] = start /\ acc[Len(list)] = FoldLeft(LAMBDA a, m : Fill(a, m, limit), start, list)
  BY <1>0, <1>6, <1>8 DEF Traces
<1> QED BY <1>9, <1>10 DEF FillSteps, start
\* A descriptor more adds its size.
LEMMA BytesIs ==
  /\ Bytes(<<>>) = 0
  /\ \A list \in Seq(Referrers) :
       /\ Bytes(list) \in Nat
       /\ \A m \in Referrers : Bytes(Append(list, m)) = Bytes(list) + Size[m]
       /\ \A j \in 1..Len(list) : Size[list[j]] <= Bytes(list)
<1>1. Bytes(<<>>) = 0
  <2>1. <<>> \in Seq(Referrers) /\ Len(<<>>) = 0
    OBVIOUS
  <2> QED BY <2>1, ByteTrace DEF ByteSteps
<1>2. ASSUME NEW list \in Seq(Referrers)
      PROVE  /\ Bytes(list) \in Nat
             /\ \A m \in Referrers : Bytes(Append(list, m)) = Bytes(list) + Size[m]
             /\ \A j \in 1..Len(list) : Size[list[j]] <= Bytes(list)
  <2> DEFINE n == Len(list)
  <2>0. n \in Nat /\ \A k \in 1..n : list[k] \in Referrers /\ Size[list[k]] \in Nat
    BY PagesType
  <2>1. PICK b \in [0..n -> Nat] : ByteSteps(b, list)
    BY ByteTrace
  <2>2. /\ b[0] = 0 /\ b[n] = Bytes(list) /\ Bytes(list) \in Nat
        /\ \A k \in 1..n : b[k] = b[k - 1] + Size[list[k]]
    BY <2>0, <2>1 DEF ByteSteps
  <2>3. ASSUME NEW m \in Referrers PROVE Bytes(Append(list, m)) = Bytes(list) + Size[m]
    <3> DEFINE more == Append(list, m)
    <3>1. /\ more \in Seq(Referrers) /\ Len(more) = n + 1 /\ more[n + 1] = m
          /\ \A k \in 1..n : more[k] = list[k]
      OBVIOUS
    <3>2. PICK c \in [0..(n + 1) -> Nat] : ByteSteps(c, more)
      BY <3>1, ByteTrace
    <3> HIDE DEF more
    <3>3. /\ c[0] = 0 /\ c[n + 1] = Bytes(more)
          /\ \A k \in 1..(n + 1) : c[k] = c[k - 1] + Size[more[k]]
      BY <3>1, <3>2 DEF ByteSteps
    <3> DEFINE Good == {k \in Nat : k > n \/ c[k] = b[k]}
    <3>4. 0 \in Good
      BY <2>2, <3>3
    <3>5. ASSUME NEW k \in Nat, k \in Good PROVE k + 1 \in Good
      <4> SUFFICES ASSUME k + 1 <= n PROVE c[k + 1] = b[k + 1]
        BY <2>0
      <4>1. k + 1 \in 1..n /\ k + 1 \in 1..(n + 1) /\ (k + 1) - 1 = k
        BY <2>0
      <4>2. c[k] = b[k] /\ more[k + 1] = list[k + 1]
        BY <2>0, <3>1, <3>5, <4>1
      <4> QED BY <2>2, <3>3, <4>1, <4>2
    <3>6. Nat \subseteq Good
      <4> HIDE DEF Good
      <4> QED BY <3>4, <3>5, Induction
    <3>7. c[n] = b[n]
      BY <2>0, <3>6
    <3>8. n + 1 \in 1..(n + 1) /\ (n + 1) - 1 = n
      BY <2>0
    <3> QED BY <2>2, <3>1, <3>3, <3>7, <3>8 DEF more
  <2>4. \A j \in 1..n : Size[list[j]] <= Bytes(list)
    <3> DEFINE Good == {k \in Nat : k > n \/ \A j \in 1..k : Size[list[j]] <= b[k]}
    <3>1. 0 \in Good
      OBVIOUS
    <3>2. ASSUME NEW k \in Nat, k \in Good PROVE k + 1 \in Good
      <4> SUFFICES ASSUME k + 1 <= n, NEW j \in 1..(k + 1) PROVE Size[list[j]] <= b[k + 1]
        BY <2>0
      <4>1. k + 1 \in 1..n /\ (k + 1) - 1 = k /\ k \in 0..n
        BY <2>0
      <4>2. b[k + 1] = b[k] + Size[list[k + 1]] /\ b[k] \in Nat /\ Size[list[k + 1]] \in Nat
        BY <2>0, <2>2, <4>1
      <4>3. j \in 1..k => Size[list[j]] \in Nat /\ Size[list[j]] <= b[k]
        BY <2>0, <3>2
      <4>4. j \in 1..k \/ j = k + 1
        OBVIOUS
      <4> QED BY <4>2, <4>3, <4>4
    <3>3. Nat \subseteq Good
      <4> HIDE DEF Good
      <4> QED BY <3>1, <3>2, Induction
    <3> QED BY <2>0, <2>2, <3>3
  <2> QED BY <2>2, <2>3, <2>4
<1> QED BY <1>1, <1>2

\* Only of no list.
LEMMA OnlyNone ==
  ASSUME NEW S
  PROVE  Only(<<>>, S) = <<>>
<1>1. <<>> \in Seq({}) /\ Len(<<>>) = 0
  OBVIOUS
<1>2. \A k \in 1..Len(<<>>) : <<>>[k] \in {}
  BY <1>1
<1>3. \A a \in Seq({}), y \in {} : Append(a, y) \in Seq({})
  OBVIOUS
<1>4. \E r : OnlySteps(r, <<>>, S)
  <2>1. \E r \in [0..Len(<<>>) -> Seq({})] : OnlySteps(r, <<>>, S)
    BY <1>1, <1>2, <1>3, OnlyTrace
  <2> QED BY <2>1
<1> QED BY <1>1, <1>4 DEF OnlySteps

\* Only of a list with one element more.
LEMMA OnlyAppend ==
  ASSUME NEW X, NEW s \in Seq(X), NEW x \in X, NEW S
  PROVE  Only(Append(s, x), S) = IF x \in S THEN Append(Only(s, S), x) ELSE Only(s, S)
<1> DEFINE n == Len(s)
           more == Append(s, x)
<1>0. n \in Nat
  OBVIOUS
<1>1. <<>> \in Seq(X) /\ \A a \in Seq(X), y \in X : Append(a, y) \in Seq(X)
  OBVIOUS
<1>2. more \in Seq(X) /\ Len(more) = n + 1 /\ more[n + 1] = x /\ \A k \in 1..n : more[k] = s[k]
  OBVIOUS
<1>3. PICK p : OnlySteps(p, s, S)
  <2>1. \A k \in 1..Len(s) : s[k] \in X
    OBVIOUS
  <2> QED BY <1>1, <2>1, OnlyTrace
<1>4. PICK q : OnlySteps(q, more, S)
  <2> HIDE DEF more
  <2>1. \A k \in 1..Len(more) : more[k] \in X
    BY <1>2
  <2> QED BY <1>1, <1>2, <2>1, OnlyTrace
<1> HIDE DEF more
<1>6. /\ p[0] = <<>> /\ p[n] = Only(s, S)
      /\ \A k \in 1..n : p[k] = IF s[k] \in S THEN Append(p[k - 1], s[k]) ELSE p[k - 1]
      /\ q[0] = <<>> /\ q[n + 1] = Only(more, S)
      /\ \A k \in 1..(n + 1) : q[k] = IF more[k] \in S THEN Append(q[k - 1], more[k]) ELSE q[k - 1]
  BY <1>2, <1>3, <1>4 DEF OnlySteps
<1> DEFINE Good == {k \in Nat : k > n \/ q[k] = p[k]}
<1>7. 0 \in Good
  BY <1>6
<1>8. ASSUME NEW k \in Nat, k \in Good PROVE k + 1 \in Good
  <2> SUFFICES ASSUME k + 1 <= n PROVE q[k + 1] = p[k + 1]
    BY <1>0
  <2>1. k + 1 \in 1..n /\ k + 1 \in 1..(n + 1) /\ (k + 1) - 1 = k
    BY <1>0
  <2>2. q[k] = p[k] /\ more[k + 1] = s[k + 1]
    BY <1>0, <1>2, <1>8, <2>1
  <2> QED BY <1>6, <2>1, <2>2
<1>9. Nat \subseteq Good
  <2> HIDE DEF Good
  <2> QED BY <1>7, <1>8, Induction
<1>10. q[n] = p[n]
  BY <1>0, <1>9
<1>11. n + 1 \in 1..(n + 1) /\ (n + 1) - 1 = n
  BY <1>0
<1> QED BY <1>2, <1>6, <1>10, <1>11 DEF more

\* To take what is in two sets is to take what is in one, and of that what is in the other.
LEMMA OnlyTwice ==
  ASSUME NEW X, NEW s \in Seq(X), NEW S, NEW T
  PROVE  Only(Only(s, S), T) = Only(s, S \intersect T)
<1> DEFINE n == Len(s)
           U == S \intersect T
<1>0. n \in Nat
  OBVIOUS
<1>1. <<>> \in Seq(X) /\ \A a \in Seq(X), y \in X : Append(a, y) \in Seq(X)
  OBVIOUS
<1>2. \A k \in 1..Len(s) : s[k] \in X
  OBVIOUS
<1>3. PICK p \in [0..n -> Seq(X)] : OnlySteps(p, s, S)
  BY <1>1, <1>2, OnlyTrace
<1>4. PICK q \in [0..n -> Seq(X)] : OnlySteps(q, s, U)
  <2> HIDE DEF U
  <2> QED BY <1>1, <1>2, OnlyTrace
<1> DEFINE Good == {k \in Nat : k > n \/ Only(p[k], T) = q[k]}
<1>a. Only(<<>>, T) = <<>>
  BY OnlyNone, Zenon
<1>b. ASSUME NEW a \in Seq(X), NEW x \in X
      PROVE  Only(Append(a, x), T) = IF x \in T THEN Append(Only(a, T), x) ELSE Only(a, T)
  BY OnlyAppend, Zenon
<1>5. 0 \in Good
  <2>1. p[0] = <<>> /\ q[0] = <<>>
    BY <1>3, <1>4 DEF OnlySteps
  <2> QED BY <1>a, <2>1
<1>6. ASSUME NEW k \in Nat, k \in Good PROVE k + 1 \in Good
  <2> SUFFICES ASSUME k + 1 <= n PROVE Only(p[k + 1], T) = q[k + 1]
    BY <1>0
  <2>1. k + 1 \in 1..n /\ k \in 0..n /\ (k + 1) - 1 = k
    BY <1>0
  <2>2. /\ p[k + 1] = IF s[k + 1] \in S THEN Append(p[k], s[k + 1]) ELSE p[k]
        /\ q[k + 1] = IF s[k + 1] \in U THEN Append(q[k], s[k + 1]) ELSE q[k]
    BY <1>3, <1>4, <2>1 DEF OnlySteps
  <2>3. p[k] \in Seq(X) /\ s[k + 1] \in X /\ Only(p[k], T) = q[k]
    BY <1>2, <1>6, <2>1
  <2>4. Only(Append(p[k], s[k + 1]), T) =
          IF s[k + 1] \in T THEN Append(q[k], s[k + 1]) ELSE q[k]
    BY <1>b, <2>3
  <2> QED BY <2>2, <2>3, <2>4
<1>7. Nat \subseteq Good
  <2> HIDE DEF Good
  <2> QED BY <1>5, <1>6, Induction
<1>8. Only(p[n], T) = q[n]
  BY <1>0, <1>7
<1> QED BY <1>3, <1>4, <1>8 DEF OnlySteps

\* j lists what a client has after each page.
Joins(j, pages) ==
  /\ j \in [0..Len(pages) -> Seq(Referrers)]
  /\ j[0] = <<>> /\ \A k \in 1..Len(pages) : j[k] = j[k - 1] \o pages[k]

\* The pages, one after the other, are the list.
JoinTo(pages, list) ==
  pages \in Seq(Seq(Referrers)) /\ \E j : Joins(j, pages) /\ j[Len(pages)] = list

\* It is a list of referrers.
LEMMA JoinType ==
  ASSUME NEW pages \in Seq(Seq(Referrers)), NEW j, Joins(j, pages)
  PROVE  j[Len(pages)] \in Seq(Referrers)
<1>1. Len(pages) \in 0..Len(pages)
  OBVIOUS
<1> QED BY <1>1 DEF Joins

\* One page more.
LEMMA JoinOn ==
  ASSUME NEW pages \in Seq(Seq(Referrers)), NEW j, Joins(j, pages), NEW page \in Seq(Referrers)
  PROVE  JoinTo(Append(pages, page), j[Len(pages)] \o page)
<1> DEFINE n == Len(pages)
           more == Append(pages, page)
           list == j[n] \o page
           i == [k \in 0..(n + 1) |-> IF k = n + 1 THEN list ELSE j[k]]
<1>0. n \in Nat /\ j \in [0..n -> Seq(Referrers)] /\ j[n] \in Seq(Referrers)
  <2>1. j \in [0..n -> Seq(Referrers)]
    BY Zenon DEF Joins
  <2>2. n \in Nat
    OBVIOUS
  <2>3. j[n] \in Seq(Referrers)
    BY JoinType, Zenon
  <2> QED BY <2>1, <2>2, <2>3
<1>1. /\ more \in Seq(Seq(Referrers)) /\ Len(more) = n + 1 /\ more[n + 1] = page
      /\ \A k \in 1..n : more[k] = pages[k]
  OBVIOUS
<1>2. list \in Seq(Referrers)
  BY <1>0
<1> HIDE DEF more, n, list
<1>3. i \in [0..(n + 1) -> Seq(Referrers)]
  BY <1>0, <1>2
<1>4. i[0] = <<>> /\ i[n + 1] = list
  BY <1>0 DEF Joins
<1>5. ASSUME NEW k \in 1..(n + 1) PROVE i[k] = i[k - 1] \o more[k]
  <2>1. CASE k = n + 1
    <3>1. k - 1 = n /\ n \in 0..(n + 1) /\ n # n + 1
      BY <1>0, <2>1
    <3>2. i[k - 1] = j[n] /\ i[k] = list
      BY <2>1, <3>1
    <3> QED BY <1>1, <2>1, <3>2 DEF list
  <2>2. CASE k # n + 1
    <3>1. k \in 1..n /\ k - 1 \in 0..n /\ k - 1 # n + 1 /\ k - 1 \in 0..(n + 1) /\ k \in 0..(n + 1)
      BY <1>0, <2>2
    <3>2. i[k] = j[k] /\ i[k - 1] = j[k - 1]
      BY <2>2, <3>1
    <3>3. j[k] = j[k - 1] \o pages[k]
      BY <3>1 DEF Joins, n
    <3> QED BY <1>1, <3>1, <3>2, <3>3
  <2> QED BY <2>1, <2>2
<1> HIDE DEF i
<1>6. Joins(i, more)
  BY <1>1, <1>3, <1>4, <1>5 DEF Joins
<1>7. JoinTo(more, list)
  BY <1>1, <1>4, <1>6 DEF JoinTo
<1> QED BY <1>7 DEF more, list, n

\* An element appended to two lists is appended to the second.
LEMMA ConcatAppend ==
  ASSUME NEW X, NEW q \in Seq(X), NEW r \in Seq(X), NEW x \in X
  PROVE  q \o Append(r, x) = Append(q \o r, x)
<1>1. <<x>> \in Seq(X) /\ q \o r \in Seq(X)
  OBVIOUS
<1>2. (q \o r) \o <<x>> = q \o (r \o <<x>>)
  BY <1>1, ConcatAssociative
<1>3. Append(r, x) = r \o <<x>> /\ Append(q \o r, x) = (q \o r) \o <<x>>
  BY <1>1, AppendIsConcat, Zenon
<1> QED BY <1>2, <1>3

Small(limit) == {m \in Referrers : Size[m] <= limit}

\* One step of referrerSplit.
LEMMA FillOne ==
  ASSUME NEW a \in Filling, NEW m \in Referrers, NEW limit \in Nat
  PROVE  \/ m \in Small(limit) /\ Fill(a, m, limit) = [pages |-> a.pages, page |-> Append(a.page, m)]
         \/ /\ Fill(a, m, limit).pages = IF a.page = <<>> THEN a.pages ELSE Append(a.pages, a.page)
            /\ Fill(a, m, limit).page = IF m \in Small(limit) THEN <<m>> ELSE <<>>
<1>1. /\ a.page \in Seq(Referrers) /\ a.pages \in Seq(Seq(Referrers))
      /\ a = [pages |-> a.pages, page |-> a.page]
  BY DEF Filling
<1>2. Size[m] \in Nat /\ Bytes(a.page) \in Nat /\ Bytes(<<>>) = 0 /\ <<>> \in Seq(Referrers)
  BY <1>1, BytesIs, PagesType
<1>3. Bytes(Append(a.page, m)) = Bytes(a.page) + Size[m]
  BY <1>1, BytesIs
<1>4. Bytes(<<m>>) = Size[m]
  <2>1. Bytes(Append(<<>>, m)) = Bytes(<<>>) + Size[m]
    BY <1>2, BytesIs, Zenon
  <2>2. Append(<<>>, m) = <<m>>
    OBVIOUS
  <2> QED BY <1>2, <2>1, <2>2
<1>5. CASE Fits(Append(a.page, m), limit)
  <2>1. m \in Small(limit)
    BY <1>2, <1>3, <1>5 DEF Fits, Small
  <2>2. Fill(a, m, limit) = [a EXCEPT !.page = Append(a.page, m)]
    BY <1>5 DEF Fill
  <2> QED BY <1>1, <2>1, <2>2
<1>6. CASE ~Fits(Append(a.page, m), limit)
  <2>1. Fits(<<m>>, limit) <=> m \in Small(limit)
    BY <1>4 DEF Fits, Small
  <2> QED BY <1>6, <2>1 DEF Fill
<1> QED BY <1>5, <1>6

\* The pages that referrerSplit makes have all descriptors that fit on one, in order.
LEMMA SplitIs ==
  ASSUME NEW list \in Seq(Referrers), NEW limit \in Nat
  PROVE  JoinTo(Split(list, limit), Only(list, Small(limit)))
<1> DEFINE n == Len(list)
<1>0. n \in Nat /\ \A k \in 1..n : list[k] \in Referrers
  OBVIOUS
<1>1. PICK acc \in [0..n -> Filling] : FillSteps(acc, list, limit)
  BY FillTrace
<1>2. PICK o \in [0..n -> Seq(Referrers)] : OnlySteps(o, list, Small(limit))
  <2>1. <<>> \in Seq(Referrers) /\ \A a \in Seq(Referrers), k \in 1..n : Append(a, list[k]) \in Seq(Referrers)
    BY <1>0
  <2> QED BY <2>1, OnlyTrace
<1>3. /\ acc[0].pages = <<>> /\ acc[0].page = <<>>
      /\ acc[n] = FoldLeft(LAMBDA a, m : Fill(a, m, limit), [pages |-> <<>>, page |-> <<>>], list)
      /\ \A k \in 1..n : acc[k] = Fill(acc[k - 1], list[k], limit)
  <2>1. acc[0] = [pages |-> <<>>, page |-> <<>>]
    BY <1>1, Zenon DEF FillSteps
  <2>2. acc[n] = FoldLeft(LAMBDA a, m : Fill(a, m, limit), [pages |-> <<>>, page |-> <<>>], list)
    BY <1>1, Zenon DEF FillSteps
  <2>3. \A k \in 1..n : acc[k] = Fill(acc[k - 1], list[k], limit)
    BY <1>1, Zenon DEF FillSteps
  <2>4. acc[0].pages = <<>> /\ acc[0].page = <<>>
    BY <2>1
  <2> HIDE DEF n
  <2> QED BY <2>2, <2>3, <2>4, Zenon
<1>4. /\ o[0] = <<>> /\ o[n] = Only(list, Small(limit))
      /\ \A k \in 1..n : o[k] = IF list[k] \in Small(limit) THEN Append(o[k - 1], list[k]) ELSE o[k - 1]
  BY <1>2 DEF OnlySteps
<1> DEFINE At(a, ls) == \E j : Joins(j, a.pages) /\ j[Len(a.pages)] \o a.page = ls
<1>5. At(acc[0], o[0])
  <2> DEFINE j == [k \in 0..0 |-> <<>>]
  <2>1. j \in [0..0 -> Seq(Referrers)] /\ j[0] = <<>> /\ Len(<<>>) = 0
    OBVIOUS
  <2> HIDE DEF j
  <2>2. Joins(j, <<>>)
    BY <2>1 DEF Joins
  <2>3. j[0] \o <<>> = <<>>
    BY <2>1
  <2> QED BY <1>3, <1>4, <2>1, <2>2, <2>3
<1>6. ASSUME NEW k \in Nat, k + 1 <= n, At(acc[k], o[k]) PROVE At(acc[k + 1], o[k + 1])
  <2> DEFINE a == acc[k]
             m == list[k + 1]
             b == acc[k + 1]
  <2>1. k + 1 \in 1..n /\ k \in 0..n /\ k + 1 \in 0..n /\ (k + 1) - 1 = k
    BY <1>0, <1>6
  <2>2. /\ a \in Filling /\ m \in Referrers /\ b \in Filling /\ b = Fill(a, m, limit) /\ o[k] \in Seq(Referrers)
        /\ o[k + 1] = IF m \in Small(limit) THEN Append(o[k], m) ELSE o[k]
    BY <1>0, <1>3, <1>4, <2>1
  <2>3. PICK j : Joins(j, a.pages) /\ j[Len(a.pages)] \o a.page = o[k]
    BY <1>6
  <2> HIDE DEF a, b, m
  <2>4. a.pages \in Seq(Seq(Referrers)) /\ a.page \in Seq(Referrers) /\ j[Len(a.pages)] \in Seq(Referrers)
    <3>1. a.pages \in Seq(Seq(Referrers)) /\ a.page \in Seq(Referrers)
      BY <2>2 DEF Filling
    <3> QED BY <2>3, <3>1, JoinType
  <2>5. CASE m \in Small(limit) /\ b = [pages |-> a.pages, page |-> Append(a.page, m)]
    <3>1. j[Len(a.pages)] \o Append(a.page, m) = Append(o[k], m)
      <4>1. ASSUME NEW q \in Seq(Referrers), NEW r \in Seq(Referrers), NEW x \in Referrers
            PROVE  q \o Append(r, x) = Append(q \o r, x)
        BY ConcatAppend
      <4>2. m \in Referrers
        BY <2>2
      <4>3. j[Len(a.pages)] \o Append(a.page, m) = Append(j[Len(a.pages)] \o a.page, m)
        BY <2>4, <4>1, <4>2, Zenon
      <4> QED BY <2>3, <4>3
    <3>2. b.pages = a.pages /\ b.page = Append(a.page, m)
      BY <2>5
    <3> QED BY <2>2, <2>3, <2>5, <3>1, <3>2 DEF b
  <2>6. CASE /\ b.pages = IF a.page = <<>> THEN a.pages ELSE Append(a.pages, a.page)
             /\ b.page = IF m \in Small(limit) THEN <<m>> ELSE <<>>
    <3>1. PICK i : Joins(i, b.pages) /\ i[Len(b.pages)] = o[k]
      <4>1. CASE a.page = <<>>
        <5>1. j[Len(a.pages)] = o[k]
          BY <2>3, <2>4, <4>1
        <5> QED BY <2>3, <2>6, <4>1, <5>1
      <4>2. CASE a.page # <<>>
        <5>1. JoinTo(Append(a.pages, a.page), j[Len(a.pages)] \o a.page)
          BY <2>3, <2>4, JoinOn
        <5> QED BY <2>3, <2>6, <4>2, <5>1 DEF JoinTo
      <4> QED BY <4>1, <4>2
    <3>2. o[k] \o b.page = o[k + 1]
      <4>1. CASE m \in Small(limit)
        <5>1. o[k] \o <<m>> = Append(o[k], m)
          BY <2>2
        <5> QED BY <2>2, <2>6, <4>1, <5>1
      <4>2. CASE m \notin Small(limit)
        <5>1. o[k] \o <<>> = o[k]
          BY <2>2
        <5> QED BY <2>2, <2>6, <4>2, <5>1
      <4> QED BY <4>1, <4>2
    <3> QED BY <3>1, <3>2 DEF b
  <2> QED BY <2>2, <2>5, <2>6, FillOne
<1>7. At(acc[n], o[n])
  <2> DEFINE Good == {k \in Nat : k > n \/ At(acc[k], o[k])}
  <2> HIDE DEF At
  <2>1. 0 \in Good
    BY <1>5
  <2>2. ASSUME NEW k \in Nat, k \in Good PROVE k + 1 \in Good
    BY <1>0, <1>6, <2>2
  <2>3. Nat \subseteq Good
    <3> HIDE DEF Good
    <3> QED BY <2>1, <2>2, Induction
  <2> QED BY <1>0, <2>3
<1> DEFINE a == acc[n]
<1>8. PICK j : Joins(j, a.pages) /\ j[Len(a.pages)] \o a.page = Only(list, Small(limit))
  BY <1>4, <1>7
<1>9. a \in Filling
  BY <1>0
<1>10. Split(list, limit) = IF a.page = <<>> THEN a.pages ELSE Append(a.pages, a.page)
  BY <1>3 DEF Split
<1> HIDE DEF a
<1>11. a.pages \in Seq(Seq(Referrers)) /\ a.page \in Seq(Referrers) /\ j[Len(a.pages)] \in Seq(Referrers)
  <2>1. a.pages \in Seq(Seq(Referrers)) /\ a.page \in Seq(Referrers)
    BY <1>9 DEF Filling
  <2> QED BY <1>8, <2>1, JoinType
<1>12. CASE a.page = <<>>
  BY <1>8, <1>10, <1>11, <1>12 DEF JoinTo
<1>13. CASE a.page # <<>>
  BY <1>8, <1>10, <1>11, <1>13, JoinOn
<1> QED BY <1>12, <1>13

\* referrerGet's pages of a response, and what a client that asks for type t is to get of it.
Paged(d, t, limit) ==
  IF Fits(Filtered(d, t), limit) THEN <<Filtered(d, t)>> ELSE Split(Filtered(d, t), limit)
Owed(d, t, limit) ==
  Only(d, {m \in Referrers : t \in {None, ArtifactType[m]} /\ Size[m] <= limit})

\* Every descriptor of the type that fits on a page is on one, in order.
LEMMA PagesAre ==
  ASSUME NEW d \in Seq(Referrers), NEW t, NEW limit \in Nat
  PROVE  JoinTo(Paged(d, t, limit), Owed(d, t, limit))
<1> DEFINE wanted == Filtered(d, t)
           typed == {m \in Referrers : ArtifactType[m] = t}
<1>2. wanted \in Seq(Referrers)
  BY OnlyIs DEF Filtered
<1>3. Owed(d, t, limit) = Only(wanted, Small(limit))
  <2>1. CASE t = None
    <3>1. Small(limit) = {m \in Referrers : t \in {None, ArtifactType[m]} /\ Size[m] <= limit}
      BY <2>1 DEF Small
    <3> QED BY <2>1, <3>1 DEF Filtered, Owed
  <2>2. CASE t # None
    <3>1. typed \intersect Small(limit) =
            {m \in Referrers : t \in {None, ArtifactType[m]} /\ Size[m] <= limit}
      BY <2>2 DEF Small
    <3>2. Only(Only(d, typed), Small(limit)) = Only(d, typed \intersect Small(limit))
      <4> HIDE DEF typed
      <4> QED BY OnlyTwice
    <3> QED BY <2>2, <3>1, <3>2 DEF Filtered, Owed
  <2> QED BY <2>1, <2>2
<1>4. Paged(d, t, limit) = IF Fits(wanted, limit) THEN <<wanted>> ELSE Split(wanted, limit)
  BY DEF Paged
<1> HIDE DEF wanted
<1>5. CASE Fits(wanted, limit)
  <2>1. ToSet(wanted) \subseteq Small(limit)
    <3> SUFFICES ASSUME NEW m \in ToSet(wanted) PROVE m \in Small(limit)
      OBVIOUS
    <3>1. PICK j \in 1..Len(wanted) : wanted[j] = m
      BY <1>2, Elements
    <3>2. m \in Referrers /\ Size[m] \in Nat /\ Bytes(wanted) \in Nat /\ Size[m] <= Bytes(wanted)
      BY <1>2, <3>1, BytesIs, PagesType
    <3> QED BY <1>5, <3>2 DEF Fits, Small
  <2>2. Only(wanted, Small(limit)) = wanted
    BY <1>2, <2>1, OnlyAll
  <2> DEFINE j == [k \in 0..0 |-> <<>>]
  <2>3. /\ <<>> \in Seq(Seq(Referrers)) /\ Len(<<>>) = 0 /\ Append(<<>>, wanted) = <<wanted>>
        /\ j \in [0..0 -> Seq(Referrers)] /\ j[0] = <<>> /\ <<>> \o wanted = wanted
    BY <1>2
  <2> HIDE DEF j
  <2>4. Joins(j, <<>>)
    BY <2>3 DEF Joins
  <2>5. JoinTo(Append(<<>>, wanted), j[Len(<<>>)] \o wanted)
    BY <1>2, <2>3, <2>4, JoinOn
  <2> QED BY <1>3, <1>4, <1>5, <2>2, <2>3, <2>5
<1>6. CASE ~Fits(wanted, limit)
  BY <1>2, <1>3, <1>4, <1>6, SplitIs
<1> QED BY <1>5, <1>6

-----------------------------------------------------------------------------
(* The cache and a client that follows the links *)

Filters == {ArtifactType[m] : m \in Referrers} \union {None}

\* What the cache has under a digest and a filter are the pages of that response under it.
CacheOK ==
  \A k \in DOMAIN pageCache :
    \E d \in Seq(Referrers), t \in Filters :
      /\ k = <<d, t>> /\ Paged(d, t, conf.pageLimit) # <<>>
      /\ pageCache[k] = Paged(d, t, conf.pageLimit)

\* What the client r has got are the pages before the one that its link names.
Follows(r, pages, list) ==
  \E j : /\ Joins(j, pages) /\ j[Len(pages)] = list
         /\ IF r.page = 0 THEN r.seen = list
            ELSE r.dig = r.from /\ r.page < Len(pages) /\ r.seen = j[r.page]

Readers ==
  [subj: Manifests \union {None}, filter: Filters, dig: Seq(Referrers) \union {None}, page: Nat,
   seen: Seq(Referrers), from: Seq(Referrers) \union {None}, broken: BOOLEAN]

ReaderOK ==
  /\ reader \in Readers
  /\ reader.page > 0 => reader.subj # None
  /\ reader.from # None /\ ~reader.broken =>
       Follows(reader, Paged(reader.from, reader.filter, conf.pageLimit),
               Owed(reader.from, reader.filter, conf.pageLimit))

LInv == CacheOK /\ ReaderOK

\* The pages that Get and CacheAfter speak of.
LEMMA PagesIs ==
  ASSUME ServerOK, NEW d \in Seq(Referrers), NEW t
  PROVE  /\ Pages(d, t) = Paged(d, t, conf.pageLimit) /\ conf.pageLimit \in Nat
         /\ JoinTo(Paged(d, t, conf.pageLimit), Owed(d, t, conf.pageLimit))
         /\ Paged(d, t, conf.pageLimit) \in Seq(Seq(Referrers))
<1>1. conf.pageLimit \in Nat
  BY PagesType DEF ServerOK
<1>2. Pages(d, t) = Paged(d, t, conf.pageLimit)
  <2>1. Parsed(d).refs = d
    BY ParsedIs
  <2> QED BY <2>1 DEF Pages, Paged
<1>3. JoinTo(Paged(d, t, conf.pageLimit), Owed(d, t, conf.pageLimit))
  BY <1>1, PagesAre
<1> QED BY <1>1, <1>2, <1>3 DEF JoinTo

\* A response is a list of referrers, and its blob is there: no client deletes it.
LEMMA ResponseStays ==
  ASSUME IInv, Held, NEW s \in Manifests, Response(index, s) # None
  PROVE  Response(index, s) \in Seq(Referrers) /\ Response(index, s) \in blobs
<1> DEFINE d == Response(index, s)
<1>1. d \in Seq(Referrers) /\ \E e \in Entries : e.dig = d
  BY ResponseOf DEF IInv, Entries
<1>2. d \in Knows(index)
  BY <1>1 DEF Knows, Digs, Entries
<1>3. clients.deleteBlobs \subseteq Blobs \union Manifests
  BY ClientTypes DEF IInv
<1> QED BY <1>1, <1>2, <1>3, DigestKinds DEF Held

\* The reply: nothing, or a page of a response. The first request gets the first page; a
\* link gets the page that it names, of the response that it names, if its pages are in the
\* cache or it is still the response.
LEMMA GetIs ==
  ASSUME IInv, Held, CacheOK, NEW s \in Manifests, NEW t \in Filters, NEW dig, NEW p \in Nat
  PROVE  /\ \/ Get(s, t, dig, p) = Nothing
            \/ \E d \in Seq(Referrers), q \in Nat :
                 /\ q < Len(Paged(d, t, conf.pageLimit)) /\ (p = 0 => q = 0)
                 /\ Get(s, t, dig, p) = Reply(d, Paged(d, t, conf.pageLimit), q)
         /\ /\ p > 0 /\ dig \in Seq(Referrers) /\ p < Len(Paged(dig, t, conf.pageLimit))
            /\ Cached(dig, t) \/ Response(index, s) = dig
            => Get(s, t, dig, p) = Reply(dig, Paged(dig, t, conf.pageLimit), p)
<1> DEFINE d == Response(index, s)
           P(x) == Paged(x, t, conf.pageLimit)
           pages == IF Cached(d, t) THEN pageCache[Key(d, t)] ELSE Pages(d, t)
           skips == Cached(d, t) \/ dig = d
           link == FromLink(s, t, dig, p)
           none == d = None \/ (~Cached(d, t) /\ (d \notin blobs \/ Pages(d, t) = <<>>))
           q == IF skips /\ p < Len(pages) THEN p ELSE 0
<1>1. Get(s, t, dig, p) = IF link THEN Reply(dig, pageCache[Key(dig, t)], p)
                          ELSE IF none THEN Nothing ELSE Reply(d, pages, q)
  BY Zenon DEF Get
<1>2. ASSUME NEW x, Cached(x, t)
      PROVE  x \in Seq(Referrers) /\ pageCache[Key(x, t)] = P(x) /\ P(x) # <<>>
  <2>1. PICK y \in Seq(Referrers), u \in Filters :
          <<x, t>> = <<y, u>> /\ Paged(y, u, conf.pageLimit) # <<>>
          /\ pageCache[<<x, t>>] = Paged(y, u, conf.pageLimit)
    BY <1>2 DEF CacheOK, Cached, Key
  <2>2. x = y /\ t = u
    BY <2>1
  <2> QED BY <2>1, <2>2 DEF Key
<1>3. ASSUME NEW x \in Seq(Referrers)
      PROVE  P(x) \in Seq(Seq(Referrers)) /\ Pages(x, t) = P(x)
  BY PagesIs DEF IInv
<1>4. d # None => d \in Seq(Referrers) /\ d \in blobs
  BY ResponseStays
<1>5. ~none => d \in Seq(Referrers) /\ pages = P(d) /\ P(d) # <<>> /\ P(d) \in Seq(Seq(Referrers))
  BY <1>2, <1>3, <1>4
<1>6. link => /\ p > 0 /\ dig \in Seq(Referrers) /\ pageCache[Key(dig, t)] = P(dig)
              /\ p < Len(P(dig))
  BY <1>2 DEF FromLink
<1>7. ASSUME NEW x \in Seq(Seq(Referrers)), x # <<>> PROVE Len(x) > 0
  BY <1>7
<1> HIDE DEF d, P, pages, link, none
<1>8. CASE link
  BY <1>1, <1>6, <1>8, Zenon DEF P
<1>9. CASE ~link /\ none
  <2>1. Get(s, t, dig, p) = Nothing
    BY <1>1, <1>9
  <2>2. ~(/\ p > 0 /\ dig \in Seq(Referrers) /\ p < Len(P(dig))
          /\ Cached(dig, t) \/ d = dig)
    <3> SUFFICES ASSUME p > 0, dig \in Seq(Referrers), p < Len(P(dig)), Cached(dig, t) \/ d = dig
                 PROVE  FALSE
      OBVIOUS
    <3>1. CASE Cached(dig, t)
      <4>1. p < Len(pageCache[Key(dig, t)])
        BY <1>2, <3>1
      <4> QED BY <1>9, <3>1, <4>1 DEF link, FromLink
    <3>2. CASE ~Cached(dig, t) /\ d = dig
      <4>1. d # None /\ d \in blobs
        BY <1>4, <3>2, DigestKinds DEF Listable
      <4>2. P(d) = <<>>
        BY <1>3, <1>9, <3>2, <4>1 DEF none
      <4>3. Len(P(d)) = 0
        BY <4>2
      <4> QED BY <3>2, <4>3
    <3> QED BY <3>1, <3>2
  <2> QED BY <2>1, <2>2, Zenon DEF P, d
<1>10. CASE ~link /\ ~none
  <2>1. Get(s, t, dig, p) = Reply(d, P(d), q)
    BY <1>1, <1>5, <1>10
  <2>2. q \in Nat /\ q < Len(P(d)) /\ (p = 0 => q = 0)
    BY <1>5, <1>7, <1>10
  <2>3. ASSUME p > 0, dig \in Seq(Referrers), p < Len(P(dig)), Cached(dig, t) \/ d = dig
        PROVE  d = dig /\ q = p
    <3>1. ~Cached(dig, t)
      <4> SUFFICES ASSUME Cached(dig, t) PROVE FALSE
        OBVIOUS
      <4>1. p < Len(pageCache[Key(dig, t)])
        BY <1>2, <2>3
      <4> QED BY <1>10, <2>3, <4>1 DEF link, FromLink
    <3> QED BY <1>5, <1>10, <2>3, <3>1
  <2> QED BY <1>5, <1>10, <2>1, <2>2, <2>3 DEF P, d
<1> QED BY <1>8, <1>9, <1>10

\* A request adds the pages of the response, or nothing; a pruned entry goes.
LEMMA CacheStep ==
  ASSUME IInv, Held, CacheOK, conf' = conf,
         \/ \E s \in Manifests, t \in Filters, dig \in Seq(Referrers) \union {None}, p \in Nat :
              pageCache' = CacheAfter(s, t, dig, p)
         \/ \E k : pageCache' = [l \in DOMAIN pageCache \ {k} |-> pageCache[l]]
         \/ pageCache' = pageCache
  PROVE  CacheOK'
<1>1. ASSUME NEW s \in Manifests, NEW t \in Filters, NEW dig, NEW p,
             pageCache' = CacheAfter(s, t, dig, p)
      PROVE  CacheOK'
  <2> DEFINE d == Response(index, s)
             pages == Paged(d, t, conf.pageLimit)
             grown == [k \in DOMAIN pageCache \union {Key(d, t)} |->
                         IF k = Key(d, t) THEN Pages(d, t) ELSE pageCache[k]]
  <2>1. CASE pageCache' = pageCache
    BY <2>1 DEF CacheOK
  <2>2. CASE d # None /\ Pages(d, t) # <<>> /\ pageCache' = grown
    <3>1. d \in Seq(Referrers)
      BY <2>2, ResponseStays
    <3>2. Pages(d, t) = pages
      BY <3>1, PagesIs DEF IInv
    <3>3. /\ DOMAIN pageCache' = {<<d, t>>} \union DOMAIN pageCache
          /\ pageCache'[<<d, t>>] = pages
          /\ \A k \in DOMAIN pageCache : k # <<d, t>> => pageCache'[k] = pageCache[k]
      BY <2>2, <3>2 DEF Key
    <3>4. pages # <<>>
      BY <2>2, <3>2
    <3> HIDE DEF d, pages
    <3> SUFFICES ASSUME NEW k \in DOMAIN pageCache'
                 PROVE  \E x \in Seq(Referrers), u \in Filters :
                          /\ k = <<x, u>> /\ Paged(x, u, conf.pageLimit) # <<>>
                          /\ pageCache'[k] = Paged(x, u, conf.pageLimit)
      BY DEF CacheOK
    <3>5. CASE k = <<d, t>>
      BY <3>1, <3>3, <3>4, <3>5 DEF pages
    <3>6. CASE k # <<d, t>> /\ k \in DOMAIN pageCache
      BY <3>3, <3>6 DEF CacheOK
    <3> QED BY <3>3, <3>5, <3>6
  <2>3. \/ pageCache' = pageCache
        \/ d # None /\ Pages(d, t) # <<>> /\ pageCache' = grown
    <3>1. CacheAfter(s, t, dig, p) =
            IF FromLink(s, t, dig, p) \/ d = None \/ Cached(d, t) \/ d \notin blobs \/ Pages(d, t) = <<>>
            THEN pageCache ELSE grown
      BY Zenon DEF CacheAfter
    <3> HIDE DEF d, grown
    <3> QED BY <1>1, <3>1
  <2> QED BY <2>1, <2>2, <2>3
<1>2. ASSUME NEW k, pageCache' = [l \in DOMAIN pageCache \ {k} |-> pageCache[l]]
      PROVE  CacheOK'
  BY <1>2 DEF CacheOK
<1>3. CASE pageCache' = pageCache
  BY <1>3 DEF CacheOK
<1> QED BY <1>1, <1>2, <1>3

\* The next page of a client that follows the links.
LEMMA NextPage ==
  ASSUME NEW before \in Readers, NEW after, NEW pages \in Seq(Seq(Referrers)), NEW list,
         NEW j, Joins(j, pages), j[Len(pages)] = list,
         NEW q \in Nat, q < Len(pages), NEW d \in Seq(Referrers), before.seen = j[q],
         before.from = d,
         after = [before EXCEPT !.seen = @ \o pages[q + 1], !.dig = d,
                                !.page = IF q + 1 = Len(pages) THEN 0 ELSE q + 1]
  PROVE  Follows(after, pages, list)
<1>1. q + 1 \in 1..Len(pages) /\ (q + 1) - 1 = q /\ Len(pages) \in Nat
  OBVIOUS
<1>2. j[q + 1] = j[q] \o pages[q + 1]
  BY <1>1 DEF Joins
<1>3. /\ after.seen = j[q + 1] /\ after.dig = d /\ after.from = d
      /\ after.page = IF q + 1 = Len(pages) THEN 0 ELSE q + 1
  BY <1>2 DEF Readers
<1>4. CASE q + 1 = Len(pages)
  BY <1>3, <1>4 DEF Follows
<1>5. CASE q + 1 # Len(pages)
  <2>1. after.page = q + 1 /\ q + 1 < Len(pages) /\ q + 1 # 0
    BY <1>1, <1>3, <1>5
  <2> QED BY <1>3, <2>1 DEF Follows
<1> QED BY <1>4, <1>5

\* A reply, and a client's record after it.
Replies(r) ==
  \/ r = Nothing
  \/ \E d \in Seq(Referrers), pages \in Seq(Seq(Referrers)), q \in Nat :
       q < Len(pages) /\ r = Reply(d, pages, q)
Taken(before, r) ==
  [before EXCEPT
     !.seen = @ \o r.entries, !.dig = r.dig, !.page = IF r.last THEN 0 ELSE r.page + 1]

\* The record keeps its type, and what the client asks for.
LEMMA TakeTypes ==
  ASSUME NEW before \in Readers, before.subj # None, NEW r, Replies(r)
  PROVE  /\ Taken(before, r) \in Readers
         /\ Taken(before, r).subj = before.subj /\ Taken(before, r).filter = before.filter
         /\ Taken(before, r).from = before.from /\ Taken(before, r).broken = before.broken
         /\ r.dig \in Seq(Referrers) \union {None}
<1> DEFINE after == Taken(before, r)
<1>1. r.entries \in Seq(Referrers) /\ r.dig \in Seq(Referrers) \union {None} /\ r.page \in Nat
  <2>1. CASE r = Nothing
    BY <2>1 DEF Nothing
  <2>2. ASSUME NEW d \in Seq(Referrers), NEW pages \in Seq(Seq(Referrers)), NEW q \in Nat,
               q < Len(pages), r = Reply(d, pages, q)
        PROVE  r.entries \in Seq(Referrers) /\ r.dig \in Seq(Referrers) /\ r.page \in Nat
    <3>1. q + 1 \in 1..Len(pages)
      BY <2>2
    <3>2. pages[q + 1] \in Seq(Referrers)
      BY <3>1
    <3> QED BY <2>2, <3>2 DEF Reply
  <2> QED BY <2>1, <2>2 DEF Replies
<1>2. before.seen \o r.entries \in Seq(Referrers)
  BY <1>1 DEF Readers
<1> DEFINE seen == before.seen \o r.entries
           page == IF r.last THEN 0 ELSE r.page + 1
           dig == r.dig
<1>3. seen \in Seq(Referrers) /\ page \in Nat /\ dig \in Seq(Referrers) \union {None}
  BY <1>1, <1>2
<1>4. after = [before EXCEPT !.seen = seen, !.dig = dig, !.page = page]
  BY DEF Readers, Taken
<1> HIDE DEF seen, page, dig
<1> QED BY <1>1, <1>3, <1>4 DEF Readers

\* A client without a link follows what it is told: nothing yet, or the first page.
LEMMA FirstStep ==
  ASSUME IInv, Held, LInv, NEW s \in Manifests, NEW t \in Filters, ReadFirst(s, t)
  PROVE  LInv'
<1> DEFINE r == Get(s, t, None, 0)
           before == [NoReader EXCEPT !.subj = s, !.filter = t, !.from = r.dig]
           P(d) == Paged(d, t, conf.pageLimit)
           after == Taken(before, r)
<1>0. /\ reader' = after /\ pageCache' = CacheAfter(s, t, None, 0) /\ conf' = conf
      /\ None \in Seq(Referrers) \union {None} /\ 0 \in Nat
  BY Zenon DEF ReadFirst, Take, Taken, vars
<1>1. CacheOK'
  BY <1>0, CacheStep DEF LInv
<1>2. \/ r = Nothing
      \/ \E d \in Seq(Referrers), q \in Nat : q < Len(P(d)) /\ q = 0 /\ r = Reply(d, P(d), q)
  BY GetIs DEF LInv
<1>3. ASSUME NEW d \in Seq(Referrers) PROVE P(d) \in Seq(Seq(Referrers))
  BY PagesIs DEF IInv
<1> HIDE DEF r, P
<1>4. Replies(r)
  BY <1>2, <1>3 DEF Replies
<1>5. r.dig \in Seq(Referrers) \union {None}
  BY <1>4 DEF Replies, Nothing, Reply
<1>6. /\ before \in Readers /\ before.subj # None /\ before.subj = s /\ before.filter = t
      /\ before.from = r.dig /\ before.seen = <<>>
  <2>1. NoReader \in Readers /\ NoReader.seen = <<>>
    BY DEF Readers, NoReader, Filters
  <2>2. s # None
    BY DigestKinds DEF Listable
  <2> QED BY <1>5, <2>1, <2>2 DEF Readers
<1> HIDE DEF before, after
<1>7. /\ after \in Readers /\ after.subj = s /\ after.filter = t /\ after.from = r.dig
  BY <1>4, <1>6, TakeTypes DEF after
<1>8. CASE r = Nothing
  <2>1. after.from = None
    BY <1>7, <1>8 DEF Nothing
  <2> QED BY <1>0, <1>1, <1>6, <1>7, <2>1, DigestKinds DEF LInv, ReaderOK, Listable
<1>9. ASSUME NEW d \in Seq(Referrers), 0 < Len(P(d)), r = Reply(d, P(d), 0)
      PROVE  LInv'
  <2> DEFINE list == Owed(d, t, conf.pageLimit)
  <2>1. P(d) \in Seq(Seq(Referrers)) /\ JoinTo(P(d), list)
    BY PagesIs DEF IInv, P
  <2>2. PICK j : Joins(j, P(d)) /\ j[Len(P(d))] = list
    BY <2>1 DEF JoinTo
  <2>3. j[0] = <<>>
    BY <2>2 DEF Joins
  <2>4. after = [before EXCEPT !.seen = @ \o P(d)[0 + 1], !.dig = d,
                               !.page = IF 0 + 1 = Len(P(d)) THEN 0 ELSE 0 + 1]
    BY <1>6, <1>9 DEF Reply, Readers, after, Taken
  <2>5. before.seen = j[0] /\ before.from = d
    BY <1>6, <1>9, <2>3 DEF Reply
  <2> HIDE DEF list
  <2>6. Follows(after, P(d), list)
    BY <1>6, <1>9, <2>1, <2>2, <2>4, <2>5, NextPage
  <2>7. after.from = d
    BY <1>7, <1>9 DEF Reply
  <2>8. Follows(reader', Paged(reader'.from, reader'.filter, conf'.pageLimit),
                Owed(reader'.from, reader'.filter, conf'.pageLimit))
    BY <1>0, <1>7, <2>6, <2>7 DEF P, list
  <2> QED BY <1>0, <1>1, <1>6, <1>7, <2>8, DigestKinds DEF LInv, ReaderOK, Listable
<1> QED BY <1>2, <1>8, <1>9

\* A client with a link gets the next page, or is told to begin again.
LEMMA LinkStep ==
  ASSUME IInv, Held, LInv, ReadNext
  PROVE  LInv'
<1> DEFINE s == reader.subj
           t == reader.filter
           r == Get(s, t, reader.dig, reader.page)
           lost == ~Cached(reader.from, t) /\ Response(index, s) # reader.from
           before == [reader EXCEPT !.broken = @ \/ lost]
           P(d) == Paged(d, t, conf.pageLimit)
           after == Taken(before, r)
<1>0. /\ reader.page > 0 /\ reader' = after /\ conf' = conf
      /\ pageCache' = CacheAfter(s, t, reader.dig, reader.page)
  BY Zenon DEF ReadNext, Take, Taken, vars
<1>1. /\ reader \in Readers /\ s \in Manifests /\ t \in Filters /\ reader.page \in Nat
      /\ reader.dig \in Seq(Referrers) \union {None} /\ s # None
      /\ CacheOK
  BY <1>0, DigestKinds DEF LInv, ReaderOK, Readers, Listable
<1>2. CacheOK'
  BY <1>0, <1>1, CacheStep, Zenon
<1>3. \/ r = Nothing
      \/ \E d \in Seq(Referrers), q \in Nat : q < Len(P(d)) /\ r = Reply(d, P(d), q)
  BY <1>1, GetIs
<1>4. ASSUME NEW d \in Seq(Referrers) PROVE P(d) \in Seq(Seq(Referrers))
  BY PagesIs DEF IInv
<1>5. /\ reader.dig \in Seq(Referrers) /\ reader.page < Len(P(reader.dig))
      /\ Cached(reader.dig, t) \/ Response(index, s) = reader.dig
      => r = Reply(reader.dig, P(reader.dig), reader.page)
  BY <1>0, <1>1, GetIs
<1> HIDE DEF r, P, lost
<1>6. Replies(r)
  BY <1>3, <1>4 DEF Replies
<1>7. /\ before \in Readers /\ before.subj = s /\ before.filter = t /\ before.from = reader.from
      /\ before.seen = reader.seen /\ before.broken = (reader.broken \/ lost)
  BY <1>1 DEF Readers
<1> HIDE DEF before, after
<1>8. /\ after \in Readers /\ after.subj = s /\ after.filter = t /\ after.from = reader.from
      /\ after.broken = (reader.broken \/ lost)
  <2>1. before.subj # None
    BY <1>1, <1>7
  <2> QED BY <1>6, <1>7, <2>1, TakeTypes DEF after
<1>9. ASSUME reader.from # None, ~reader.broken, ~lost
      PROVE  Follows(after, P(reader.from), Owed(reader.from, t, conf.pageLimit))
  <2> DEFINE d == reader.from
             list == Owed(d, t, conf.pageLimit)
  <2>1. d \in Seq(Referrers) /\ P(d) \in Seq(Seq(Referrers))
    BY <1>1, <1>4, <1>9 DEF Readers
  <2>2. Follows(reader, P(d), list)
    BY <1>9 DEF LInv, ReaderOK, P
  <2>3. PICK j : /\ Joins(j, P(d)) /\ j[Len(P(d))] = list
                 /\ reader.dig = d /\ reader.page < Len(P(d)) /\ reader.seen = j[reader.page]
    BY <1>0, <2>2 DEF Follows
  <2>4. r = Reply(d, P(d), reader.page)
    BY <1>5, <1>9, <2>1, <2>3 DEF lost
  <2>5. after = [before EXCEPT !.seen = @ \o P(d)[reader.page + 1], !.dig = d,
                   !.page = IF reader.page + 1 = Len(P(d)) THEN 0 ELSE reader.page + 1]
    BY <1>7, <2>4 DEF Reply, Readers, after, Taken
  <2> HIDE DEF list, d
  <2>6. before.seen = j[reader.page] /\ before.from = d
    BY <1>7, <2>3 DEF d
  <2>7. Follows(after, P(d), list)
    BY <1>1, <1>7, <2>1, <2>3, <2>5, <2>6, NextPage
  <2> QED BY <2>7 DEF d, list
<1>10. /\ reader' \in Readers /\ reader'.subj # None
       /\ reader'.from # None /\ ~reader'.broken =>
            Follows(reader', Paged(reader'.from, reader'.filter, conf'.pageLimit),
                    Owed(reader'.from, reader'.filter, conf'.pageLimit))
  BY <1>0, <1>1, <1>8, <1>9 DEF P
<1> QED BY <1>2, <1>10 DEF LInv, ReaderOK

\* The cache and the client stay as they are, or another client fills or empties the cache.
LEMMA LinkStays ==
  ASSUME LInv, CacheOK', reader' = reader, conf' = conf
  PROVE  LInv'
BY DEF LInv, ReaderOK

\* Every step: of the repository, of the client, of other clients and of the cache.
LEMMA PagesStep == IInv /\ Held /\ LInv /\ [PagesNext]_<<vars, pageVars>> => LInv'
<1> SUFFICES ASSUME IInv, Held, LInv, [PagesNext]_<<vars, pageVars>> PROVE LInv'
  OBVIOUS
<1> DEFINE Subjects == {Content[m].subj : m \in Referrers}
<1>0. CacheOK /\ Subjects \subseteq Manifests /\ clients.filters \subseteq Filters
  <2>1. clients.filters \subseteq Filters
    BY PagesType DEF IInv, ServerOK, Filters
  <2> QED BY <2>1, ContentType DEF LInv, Referrers
<1>1. CASE UNCHANGED <<vars, pageVars>>
  <2>1. pageCache' = pageCache /\ reader' = reader /\ conf' = conf
    BY <1>1 DEF vars, pageVars
  <2>2. CacheOK'
    BY <1>0, <2>1, CacheStep
  <2> QED BY <2>1, <2>2, LinkStays
<1>2. CASE Next /\ UNCHANGED <<setup, pageVars>>
  <2>1. pageCache' = pageCache /\ reader' = reader /\ conf' = conf
    BY <1>2 DEF setup, pageVars
  <2>2. CacheOK'
    BY <1>0, <2>1, CacheStep
  <2> QED BY <2>1, <2>2, LinkStays
<1>3. ASSUME NEW s \in Subjects, NEW t \in clients.filters, ReadFirst(s, t)
      PROVE  LInv'
  <2>1. s \in Manifests /\ t \in Filters
    BY <1>0
  <2> QED BY <1>3, <2>1, FirstStep
<1>4. ASSUME NEW s \in Subjects, NEW t \in clients.filters, OtherRead(s, t)
      PROVE  LInv'
  <2>1. s \in Manifests /\ t \in Filters
    BY <1>0
  <2>2. pageCache' = CacheAfter(s, t, None, 0) /\ reader' = reader /\ conf' = conf
    BY <1>4 DEF OtherRead, vars
  <2>3. None \in Seq(Referrers) \union {None} /\ 0 \in Nat
    OBVIOUS
  <2>4. CacheOK'
    BY <1>0, <2>1, <2>2, <2>3, CacheStep
  <2> QED BY <2>2, <2>4, LinkStays
<1>5. CASE ReadNext
  BY <1>5, LinkStep
<1>6. ASSUME NEW k \in DOMAIN pageCache, Prune(k)
      PROVE  LInv'
  <2>1. /\ pageCache' = [l \in DOMAIN pageCache \ {k} |-> pageCache[l]]
        /\ reader' = reader /\ conf' = conf
    BY <1>6 DEF Prune, vars
  <2>2. CacheOK'
    BY <1>0, <2>1, CacheStep
  <2> QED BY <2>1, <2>2, LinkStays
<1> QED BY <1>1, <1>2, <1>3, <1>4, <1>5, <1>6 DEF PagesNext

\* What the repository does under paged reads is what it does without them.
THEOREM PagesRefine == PagesSpec => Spec
<1>1. PagesInit => Init
  BY DEF PagesInit
<1>2. [PagesNext]_<<vars, pageVars>> => [Next /\ UNCHANGED setup]_vars
  BY DEF PagesNext, ReadFirst, ReadNext, OtherRead, Prune, Take, setup, pageVars, vars
<1> QED BY <1>1, <1>2, PTL DEF PagesSpec, Spec

\* What the page cache has under a response's digest and a filter are the pages of that
\* response under it, and what a client has got are the first of them.
THEOREM PagesInvariance == PagesSpec => []LInv
<1>1. PagesInit => LInv
  <2> SUFFICES ASSUME PagesInit PROVE LInv
    OBVIOUS
  <2>1. pageCache = <<>> /\ reader = NoReader
    BY DEF PagesInit
  <2>2. NoReader \in Readers /\ NoReader.page = 0 /\ NoReader.from = None
    BY DEF Readers, NoReader, Filters
  <2> QED BY <2>1, <2>2 DEF LInv, CacheOK, ReaderOK
<1>2. IInv /\ PInv /\ LInv /\ [PagesNext]_<<vars, pageVars>> => LInv'
  BY PagesStep DEF PInv
<1> QED BY <1>1, <1>2, PagesRefine, RegistryInvariance, ContentInvariance, PTL DEF PagesSpec

\* A client that follows the links to the end and was not told to begin again has got each
\* referrer of its type once, of the response it began with (ReferrerPages.PagesComplete).
THEOREM PagesWhole == PagesSpec => []PagesComplete
<1>1. LInv => PagesComplete
  <2> SUFFICES ASSUME LInv, reader.page = 0, reader.from # None, ~reader.broken
               PROVE  PagesComplete
    BY DEF PagesComplete
  <2>1. reader.seen = Owed(reader.from, reader.filter, conf.pageLimit)
    BY DEF LInv, ReaderOK, Follows
  <2>2. Parsed(reader.from).refs = reader.from
    BY ParsedIs DEF LInv, ReaderOK, Readers
  <2> QED BY <2>1, <2>2 DEF PagesComplete, Owed
<1> QED BY <1>1, PagesInvariance, PTL

-----------------------------------------------------------------------------
(* When a collection comes: GCTicker *)

TickerItem == [state : {"absent", "unused", "used"}, mod : Nat, since : Nat]

TickerTypes ==
  /\ kind \in Kinds
  /\ now \in Nat
  /\ item \in [Repos -> TickerItem] /\ fileMod \in [Repos -> Nat] /\ timeMod \in [Repos -> Nat]
  /\ {open, marks, todo, missed} \subseteq SUBSET Repos
  /\ tick \in Nat /\ prev \in Nat /\ cur \in Nat

\* The ticks are in order, and so are an item's times; no new file has the time zero.
TickerOrder ==
  /\ prev <= cur /\ cur <= tick /\ tick <= now /\ Skew < now
  /\ \A r \in Repos : item[r].mod <= item[r].since /\ item[r].since <= now

\* What is garbage has a mark, at timeMod or to come before time goes on, unless the
\* first pass has yet to look.
Marked ==
  /\ \A r \in marks : item[r].state = "unused" => item[r].since = now
  /\ \A r \in open \ missed : Behind(r, timeMod[r]) => Awaited(r) \/ r \in marks

\* Garbage that no pass up to the one of time t needs to have removed.
Young(r, t) ==
  item[r].state = "unused" => item[r].mod + Grace >= t \/ item[r].since >= t

\* The current pass has done its work where it was, and the previous one everywhere.
Passed ==
  \A r \in open \ missed : Young(r, prev) /\ (r \notin todo => Young(r, cur))

\* The inductive invariant: what timeMod says of a repository's garbage, and what
\* the two last passes have left, between any two assignments of timeMod.
TickerIInv == TickerTypes /\ TickerOrder /\ Marked /\ Passed

-----------------------------------------------------------------------------
\* An open repository that a pass skips has nothing for it: its mark is older than the
\* previous tick by more than the grace period, so its garbage was old enough for
\* the previous pass.
LEMMA SkipsYoung ==
  ASSUME TickerIInv, NEW r \in open \ missed, Skip(r)
  PROVE  Young(r, cur)
<1> SUFFICES ASSUME item[r].state = "unused"
             PROVE  item[r].since >= cur
  BY DEF Young
<1> USE TickerConstants DEF TickerIInv, TickerTypes, TickerItem
<1> r \in Repos /\ r \in todo /\ Outside(r)
  BY DEF Skip
<1>1. CASE r \in marks
  BY <1>1 DEF Marked, TickerOrder
<1>2. CASE r \notin marks
  <2>1. ~Behind(r, timeMod[r])
    BY <1>2 DEF Marked, Awaited, Outside
  <2>2. item[r].since <= timeMod[r] + Lag /\ timeMod[r] < Start
    BY <2>1 DEF Behind, Outside, Lag
  <2>3. timeMod[r] + Lag + Grace < prev
    BY <2>2 DEF Start, Minus, Lag
  <2>4. item[r].mod <= item[r].since
    BY DEF TickerOrder
  <2>5. item[r].mod + Grace >= prev \/ item[r].since >= prev
    BY DEF Passed, Young
  <2> QED  BY <2>2, <2>3, <2>4, <2>5 DEF Lag
<1> QED  BY <1>1, <1>2

\* NewMem, NewDir: nothing has ticked, whatever the directory holds.
LEMMA TickerInitial == TickerInit => TickerIInv
<1> SUFFICES ASSUME TickerInit
             PROVE  TickerIInv
  OBVIOUS
<1> USE TickerConstants DEF TickerInit
<1>1. PICK found \in [Repos -> Leftovers \union {<<Absent, 0>>}] :
        /\ item = [r \in Repos |-> found[r][1]]
        /\ fileMod = [r \in Repos |-> found[r][2]]
  BY DEF Leftovers
<1>2. \A x \in Leftovers \union {<<Absent, 0>>} :
        /\ x[1] \in TickerItem /\ x[2] \in Nat
        /\ x[1].mod <= x[1].since /\ x[1].since <= 1
  BY DEF Leftovers, Absent, TickerItem
<1>3. TickerTypes
  BY <1>1, <1>2 DEF TickerTypes
<1>4. TickerOrder
  BY <1>1, <1>2, <1>3 DEF TickerOrder, TickerTypes, TickerItem
<1> QED  BY <1>3, <1>4 DEF TickerIInv, Marked, Passed

\* A new file is not of the time zero, and its time stands for a change of now.
LEMMA FileTimesAre ==
  ASSUME TickerIInv, NEW t \in FileTimes
  PROVE  t \in Nat /\ t # 0 /\ t <= now /\ (kind = "dir" => now <= t + Lag)
BY TickerConstants DEF FileTimes, Minus, Lag, TickerIInv, TickerTypes, TickerOrder

\* A change that timeMod stands for at once keeps the invariant: what is garbage then
\* has become so now.
LEMMA ChangeMarked ==
  ASSUME TickerIInv, NEW q \in open, NEW t \in Nat, NEW i \in TickerItem,
         item' = [item EXCEPT ![q] = i], SetTime(q, t), Noticed(q),
         i.state = "unused" => i.since = now /\ i.mod <= now /\ t # 0 /\ now <= t + Lag,
         i.mod <= i.since, i.since <= now,
         fileMod' \in [Repos -> Nat], UNCHANGED <<clockVars, open, marks, passVars>>
  PROVE  TickerIInv'
<1> USE TickerConstants
    DEF TickerIInv, TickerTypes, clockVars, passVars, SetTime, Noticed
<1>1. TickerTypes'
  OBVIOUS
<1>2. TickerOrder'
  BY DEF TickerOrder
<1>3. Marked'
  BY DEF Marked, Behind, Awaited, Lag, TickerItem
<1>4. Passed'
  BY DEF Passed, Young, TickerOrder, TickerItem
<1> QED  BY <1>1, <1>2, <1>3, <1>4

\* Every step keeps the invariant.
LEMMA TickerStep == TickerIInv /\ [TickerNext]_tickerVars => TickerIInv'
<1> SUFFICES ASSUME TickerIInv, [TickerNext]_tickerVars
             PROVE  TickerIInv'
  OBVIOUS
<1> USE TickerConstants
    DEF TickerIInv, TickerTypes, TickerItem, clockVars, diskVars, objectVars, passVars
<1>1. ASSUME NEW q \in Repos, Open(q)
      PROVE  TickerIInv'
  <2> USE <1>1 DEF Open, SetTime
  <2>1. TickerTypes' /\ TickerOrder'
    BY DEF TickerOrder
  <2>2. Marked'
    BY DEF Marked, Behind, Awaited, Lag
  <2>3. Passed'
    BY DEF Passed, Young, Behind, Awaited, TickerOrder
  <2> QED  BY <2>1, <2>2, <2>3
<1>2. ASSUME NEW q \in Repos, PruneRepo(q)
      PROVE  TickerIInv'
  <2>1. PICK t \in 0..now : Collect(q, t)
    BY <1>2 DEF PruneRepo
  <2>2. /\ item' \in [Repos -> TickerItem] /\ fileMod' \in [Repos -> Nat]
        /\ \A r \in Repos \ {q} : item'[r] = item[r]
        /\ item'[q] \in {item[q], Absent}
    BY <1>2, <2>1, FileTimesAre DEF PruneRepo, Collect, Absent
  <2>3. /\ open' = open \ {q} /\ SetTime(q, 0) /\ marks' = marks \ {q} /\ Noticed(q)
        /\ UNCHANGED <<clockVars, passVars>>
    BY <1>2 DEF PruneRepo
  <2>4. TickerTypes' /\ TickerOrder'
    BY <2>2, <2>3 DEF TickerOrder, SetTime, Noticed, Absent
  <2>5. Marked'
    BY <2>2, <2>3 DEF Marked, Behind, Awaited, Lag, SetTime, Noticed
  <2>6. Passed'
    BY <2>2, <2>3 DEF Passed, Young, Noticed
  <2> QED  BY <2>4, <2>5, <2>6
<1>3. ASSUME NEW q \in Repos, Index(q),
             \/ item[q].state = "unused" /\ Change(q, "used", item[q].mod)
             \/ item[q].state = "used" /\ Change(q, "unused", item[q].mod)
      PROVE  TickerIInv'
  <2>1. item[q].mod <= now
    BY DEF TickerOrder
  <2>2. PICK i \in TickerItem :
          /\ item' = [item EXCEPT ![q] = i]
          /\ i.since = now /\ i.mod <= now
    BY <1>3, <2>1 DEF Change
  <2>3. PICK t \in Nat : SetTime(q, t) /\ t # 0 /\ now <= t + Lag /\ fileMod' \in [Repos -> Nat]
    <3>1. CASE kind = "mem"
      BY <1>3, <3>1 DEF Index, Mark, Lag, TickerOrder
    <3>2. CASE kind # "mem"
      BY <1>3, <3>2, FileTimesAre DEF Index, Save
    <3> QED  BY <3>1, <3>2
  <2>4. q \in open /\ Noticed(q) /\ UNCHANGED <<clockVars, open, marks, passVars>>
    BY <1>3 DEF Index
  <2>5. i.mod <= i.since /\ i.since <= now
    BY <2>2
  <2> HIDE DEF TickerIInv, TickerTypes, TickerItem, clockVars, diskVars, objectVars, passVars
  <2> QED  BY <2>2, <2>3, <2>4, <2>5, ChangeMarked
<1>4. ASSUME NEW q \in Repos, Begin(q)
      PROVE  TickerIInv'
  <2> USE <1>4 DEF Begin, Mark, SetTime
  <2>1. TickerTypes' /\ TickerOrder'
    BY FileTimesAre DEF TickerOrder
  <2>2. Marked'
    BY DEF Marked, Behind, Awaited, Lag, TickerOrder
  <2>3. Passed'
    BY DEF Passed, Young
  <2> QED  BY <2>1, <2>2, <2>3
<1>5. ASSUME NEW q \in Repos, Close(q)
      PROVE  TickerIInv'
  <2>1. CASE kind = "mem"
    <3>1. PICK i \in TickerItem :
            /\ item' = [item EXCEPT ![q] = i]
            /\ i.since = now /\ i.mod = now
      BY <1>5, <2>1 DEF Close, Change
    <3>2. SetTime(q, now) /\ now # 0 /\ now <= now + Lag
      BY <1>5, <2>1 DEF Close, Mark, Lag, TickerOrder
    <3>3. i.mod <= i.since /\ i.since <= now /\ i.mod <= now /\ now \in Nat
      BY <3>1
    <3>4. q \in open /\ Noticed(q) /\ fileMod' \in [Repos -> Nat] /\ UNCHANGED <<clockVars, open, marks, passVars>>
      BY <1>5, <2>1 DEF Close
    <3> HIDE DEF TickerIInv, TickerTypes, TickerItem, clockVars, diskVars, objectVars, passVars
    <3> QED  BY <3>1, <3>2, <3>3, <3>4, ChangeMarked
  <2>2. CASE kind # "mem"
    <3>1. PICK t \in Minus(now, Grace)..now : Change(q, "unused", t)
      BY <1>5, <2>2 DEF Close
    <3>2. t \in Nat /\ t <= now
      BY <3>1 DEF Minus
    <3>3. marks' = marks \union {q} /\ UNCHANGED <<timeMod, missed, clockVars, fileMod, open, passVars>>
      BY <1>5, <2>2 DEF Close
    <3>4. /\ item' \in [Repos -> TickerItem]
          /\ item'[q].mod = t /\ item'[q].since = now
          /\ \A r \in Repos \ {q} : item'[r] = item[r]
      BY <3>1, <3>2 DEF Change
    <3>5. TickerTypes' /\ TickerOrder'
      BY <3>2, <3>3, <3>4 DEF TickerOrder
    <3>6. Marked'
      BY <3>3, <3>4 DEF Marked, Behind, Awaited, Lag
    <3>7. Passed'
      BY <3>3, <3>4 DEF Passed, Young, TickerOrder
    <3> QED  BY <3>5, <3>6, <3>7
  <2> QED  BY <2>1, <2>2
<1>6. ASSUME NEW q \in Repos, MarkLater(q)
      PROVE  TickerIInv'
  <2> USE <1>6 DEF MarkLater, Mark, SetTime, Noticed
  <2>1. TickerTypes' /\ TickerOrder'
    BY DEF TickerOrder
  <2>2. Marked'
    BY DEF Marked, Behind, Awaited, Lag, TickerOrder
  <2>3. Passed'
    BY DEF Passed, Young, Marked, TickerOrder
  <2> QED  BY <2>1, <2>2, <2>3
<1>7. ASSUME NEW q \in Repos, Delete(q)
      PROVE  TickerIInv'
  <2>1. q \in open /\ Noticed(q) /\ UNCHANGED <<clockVars, fileMod, open, marks, passVars>>
    BY <1>7 DEF Delete
  <2>2. item' = [item EXCEPT ![q] = Absent]
    BY <1>7 DEF Delete
  <2>3. PICK t \in Nat : SetTime(q, t)
    <3>1. CASE kind = "mem"
      BY <1>7, <3>1 DEF Delete, Mark
    <3>2. CASE kind # "mem"
      BY <1>7, <3>2 DEF Delete, SetTime
    <3> QED  BY <3>1, <3>2
  <2>4. Absent \in TickerItem /\ Absent.state # "unused" /\ Absent.mod = 0 /\ Absent.since = 0
    BY DEF Absent
  <2>5. fileMod' \in [Repos -> Nat] /\ Absent.mod <= Absent.since /\ Absent.since <= now
    BY <2>1, <2>4
  <2> HIDE DEF TickerIInv, TickerTypes, TickerItem, clockVars, diskVars, objectVars, passVars
  <2> QED  BY <2>1, <2>2, <2>3, <2>4, <2>5, ChangeMarked
<1>8. ASSUME NEW q \in Repos, Load(q)
      PROVE  TickerIInv'
  <2>1. PICK t \in {fileMod[q]} \union FileTimes :
          /\ SetTime(q, t) /\ fileMod' = [fileMod EXCEPT ![q] = t]
          /\ missed' = IF Behind(q, t) /\ ~Awaited(q) THEN missed \union {q} ELSE missed
    BY <1>8 DEF Load
  <2>2. t \in Nat
    BY <2>1, FileTimesAre
  <2>3. UNCHANGED <<clockVars, item, open, marks, passVars>>
    BY <1>8 DEF Load
  <2>4. TickerTypes' /\ TickerOrder'
    BY <2>1, <2>2, <2>3 DEF TickerOrder, SetTime
  <2>5. Marked'
    BY <2>1, <2>2, <2>3 DEF Marked, Behind, Awaited, Lag, SetTime
  <2>6. Passed'
    BY <2>1, <2>3 DEF Passed, Young
  <2> QED  BY <2>4, <2>5, <2>6
<1>9. ASSUME NEW q \in Repos, Skip(q)
      PROVE  TickerIInv'
  <2>1. q \in open \ missed => Young(q, cur)
    BY <1>9, SkipsYoung
  <2>2. q \in open => ~Awaited(q)
    BY <1>9 DEF Skip, Outside, Awaited
  <2> USE <1>9 DEF Skip
  <2>3. TickerTypes' /\ TickerOrder'
    BY DEF TickerOrder
  <2>4. Marked'
    BY <2>2 DEF Marked, Behind, Awaited, Lag
  <2>5. Passed'
    BY <2>1 DEF Passed, Young
  <2> QED  BY <2>3, <2>4, <2>5
<1>10. ASSUME NEW q \in Repos, Visit(q)
      PROVE  TickerIInv'
  <2>1. PICK t \in 0..now :
          /\ Collect(q, t) /\ SetTime(q, t)
          /\ missed' = IF ~Collectable(q) /\ Behind(q, t) THEN missed \union {q} ELSE missed \ {q}
    BY <1>10 DEF Visit
  <2>2. /\ item' \in [Repos -> TickerItem] /\ fileMod' \in [Repos -> Nat]
        /\ \A r \in Repos \ {q} : item'[r] = item[r]
        /\ item'[q] = IF Collectable(q) THEN Absent ELSE item[q]
    BY <2>1, FileTimesAre DEF Collect, Absent
  <2>3. /\ q \in todo /\ todo' = todo \ {q}
        /\ UNCHANGED <<clockVars, open, marks, tick, prev, cur>>
    BY <1>10 DEF Visit, Due
  <2>4. /\ missed' \in SUBSET Repos /\ timeMod' \in [Repos -> Nat]
        /\ \A r \in Repos \ {q} : (r \in missed' <=> r \in missed) /\ timeMod'[r] = timeMod[r]
    BY <2>1 DEF SetTime
  <2>5. TickerTypes'
    BY <2>2, <2>3, <2>4
  <2>6. TickerOrder'
    BY <2>2, <2>3 DEF TickerOrder, Absent
  <2>7. q \in open \ missed' => ~Behind(q, timeMod[q])'
    <3>1. CASE Collectable(q)
      BY <2>2, <3>1 DEF Behind, Absent
    <3>2. CASE ~Collectable(q)
      <4>1. q \notin missed' => ~Behind(q, t)
        BY <2>1, <3>2
      <4>2. timeMod'[q] = t /\ item'[q] = item[q] /\ kind' = kind
        BY <2>1, <2>2, <2>3, <3>2 DEF SetTime
      <4> QED  BY <4>1, <4>2 DEF Behind, Lag
    <3> QED  BY <3>1, <3>2
  <2>8. Marked'
    <3>1. \A r \in marks' : (item[r].state = "unused" => item[r].since = now)'
      BY <2>2, <2>3 DEF Marked, Absent
    <3>2. ASSUME NEW r \in (open \ missed)', Behind(r, timeMod[r])'
          PROVE  Awaited(r)' \/ r \in marks'
      <4>1. r # q /\ r \in open \ missed /\ Behind(r, timeMod[r])
        BY <2>2, <2>3, <2>4, <2>7, <3>2 DEF Behind, Lag
      <4> QED  BY <4>1, <2>3 DEF Marked, Awaited
    <3> QED  BY <3>1, <3>2 DEF Marked
  <2>9. Passed'
    BY <2>1, <2>2, <2>3 DEF Passed, Young, Collectable, TickerOrder, Absent
  <2> QED  BY <2>5, <2>6, <2>8, <2>9
<1>11. CASE Fail
  BY <1>11 DEF Fail, TickerOrder, Marked, Passed, Young, Behind, Awaited, Lag
<1>12. CASE Tick
  BY <1>12 DEF Tick, TickerOrder, Marked, Passed, Young, Behind, Awaited, Lag
<1>13. CASE BeginPass
  BY <1>13 DEF BeginPass, TickerOrder, Marked, Passed, Young, Behind, Awaited, Lag
<1>14. CASE Restart
  BY <1>14 DEF Restart, TickerOrder, Marked, Passed
<1>15. CASE Advance
  BY <1>15 DEF Advance, TickerOrder, Marked, Passed, Young, Behind, Awaited, Lag
<1>16. CASE Finished \/ UNCHANGED tickerVars
  BY <1>16 DEF Finished, tickerVars, TickerOrder, Marked, Passed, Young, Behind, Awaited, Lag
<1> QED
  BY <1>1, <1>2, <1>3, <1>4, <1>5, <1>6, <1>7, <1>8, <1>9, <1>10, <1>11, <1>12, <1>13, <1>14, <1>15, <1>16
  DEF TickerNext, Use, Unuse

\* Every reachable state satisfies the invariant.
THEOREM TickerInvariance == TickerSpec => []TickerIInv
BY TickerInitial, TickerStep, PTL DEF TickerSpec

-----------------------------------------------------------------------------
\* What a pass that has ended leaves is younger than its tick, except in what was
\* missed: the windows of consecutive passes of mem.go and dir.go leave no gap,
\* however long a pass takes and whatever happens to timeMod meanwhile.
THEOREM GarbageGoes == TickerSpec => []OldGarbageGone
<1>1. TickerIInv => OldGarbageGone
  BY DEF TickerIInv, TickerTypes, Passed, Young, OldGarbageGone
<1> QED  BY <1>1, TickerInvariance, PTL
-----------------------------------------------------------------------------
(* A directory: the invariant *)

\* What an entry with a tag needs is there.
Needed(ms) ==
  \A e \in ToSet(ms) :
    e.tag # None => e.dig \in blobs /\ (~IsIndex(e.dig) => Refs(e.dig) \subseteq blobs)

\* Every fallback list is one that indexIngest can handle without a new response: it
\* becomes one as it is, or there is none of the referrers that it lists.
Settled(ms) ==
  \A e \in ToSet(ms) :
    e.tag \in FallbackTags /\ IsIndex(e.dig) =>
      \/ Convertible([manifests |-> ms, children |-> <<>>], e)
      \/ SubjectsOf(e.dig) = {}

\* An index that can be saved.
Savable(li, d) ==
  /\ li \in Layouts(DirDigests, Tags) /\ Sound(li.manifests)
  /\ Needed(li.manifests)
  /\ d.annot # "converted" => \A e \in ToSet(li.manifests) : e.tag \notin FallbackTags

\* An index.json that can be loaded.
Loadable(f) ==
  /\ f \in IndexFiles /\ Sound(f.manifests)
  /\ Needed(f.manifests)
  /\ ~f.converted => Settled(f.manifests)

\* The entries ms have the tags that clients left.
HasTags(ms, left) == \A t \in Tags \ FallbackTags : Names(ToSet(ms), t, left[t])

DrTypes(d) ==
  d \in [annot: {"blank", "plain", "converted"}, exists: BOOLEAN, current: BOOLEAN, recent: BOOLEAN]

\* The index li in memory, the dirRepo d and index.json f agree. Where a load may fail,
\* index.json and the index in memory may differ while timeMod does.
Agree(li, d, f, left) ==
  /\ DrTypes(d) /\ Savable(li, d)
  /\ d.annot = "blank" => li = EmptyIndex /\ ~d.current /\ ~d.recent
  /\ IF f = None
     THEN li.manifests = <<>> /\ (~LoadFails => HasTags(<<>>, left))
     ELSE /\ Loadable(f)
          /\ ~LoadFails => HasTags(f.manifests, left)
          /\ d.current \/ (~LoadFails /\ d.annot # "blank") =>
               li.manifests = f.manifests /\ (f.converted <=> d.annot = "converted")

\* A request that found what it is about.
RequestFits(q) ==
  /\ q.op \in {"put", "delete"}
  /\ q.entry \in Descriptors(DirDigests, Tags \ FallbackTags) /\ q.entry.subj = None
  /\ q.entry.tag # None \/ q.entry.dig \in Manifests
  /\ q.op = "put" =>
       q.entry.dig \in Manifests /\ q.entry.dig \in blobs /\ Refs(q.entry.dig) \subseteq blobs

\* A collection under way: between the walk and the save, nothing it removes is needed
\* by a tag, and every entry that it keeps has its blob.
Phases ==
  /\ gcPhase \in {"idle", "walk", "delete", "prune", "pruneLayout"}
  /\ gcPhase # "idle" => requests = {}
  /\ gcPhase \in {"walk", "delete"} => dr.current /\ file # None
  /\ gcPhase = "prune" => dr.annot # "blank"
  /\ gcPhase = "pruneLayout" => file = None
  /\ gcPhase = "delete" =>
       /\ gcIndex \in Layouts(DirDigests, Tags) /\ Sound(gcIndex.manifests)
       /\ ToSet(gcIndex.manifests) \subseteq Entries
       /\ \A e \in ToSet(gcIndex.manifests) : e.dig \in blobs \ gcDel
       /\ \A e \in Entries :
            e.tag # None =>
              /\ e \in ToSet(gcIndex.manifests)
              /\ ~IsIndex(e.dig) => Refs(e.dig) \intersect gcDel = {}

DirIInv ==
  /\ blobs \subseteq DirDigests /\ IsFiniteSet(blobs) /\ sessions \subseteq Blobs
  /\ Agree(index, dr, file, acked)
  /\ \A q \in requests : RequestFits(q)
  /\ Phases

\* The directory that the first process finds: index.json is sound, its tags have what
\* they need, and its fallback tags can be converted.
FoundWell == file # None => Loadable(file)
-----------------------------------------------------------------------------
(* Digests and lists *)

\* What the digests of a directory are, and what is in them.
LEMMA DirParsedIs ==
  /\ None \notin DirDigests /\ None \notin Tags /\ Blobs \union Manifests \subseteq DirDigests
  /\ \A d \in DirDigests :
       /\ Parsed(d).refs \in Seq(Blobs \union Manifests)
       /\ Refs(d) \subseteq Blobs \union Manifests
       /\ IsIndex(d) => Refs(d) \subseteq Manifests
       /\ ~IsIndex(d) /\ Refs(d) # {} => Parsed(d).kind = "image"
  /\ \A d \in Blobs : Parsed(d).subj = None
  /\ \A d \in Manifests : Parsed(d) = Content[d] /\ Parsed(d).subj \in Manifests \union {None}
<1>1. None \notin DirDigests /\ None \notin Tags /\ Blobs \union Manifests \subseteq DirDigests
  BY DigestsDiffer DEF DirDigests
<1>2. ASSUME NEW d \in Manifests
      PROVE  /\ Parsed(d).refs \in Seq(Blobs \union Manifests)
             /\ Refs(d) \subseteq Blobs \union Manifests
             /\ IsIndex(d) => Refs(d) \subseteq Manifests
             /\ ~IsIndex(d) => Parsed(d).kind = "image"
             /\ Parsed(d) = Content[d] /\ Parsed(d).subj \in Manifests \union {None}
  <2>1. Parsed(d) = Content[d]
    BY DEF Parsed
  <2>2. /\ Parsed(d).kind \in {"image", "index"} /\ Parsed(d).subj \in Manifests \union {None}
        /\ Parsed(d).refs \in Seq(IF Parsed(d).kind = "image" THEN Blobs ELSE Manifests)
    BY <2>1, ContentType
  <2>3. ToSet(Parsed(d).refs) \subseteq (IF Parsed(d).kind = "image" THEN Blobs ELSE Manifests)
    BY <2>2, Elements, Zenon
  <2>4. Parsed(d).refs \in Seq(Blobs \union Manifests)
    BY <2>2
  <2> QED BY <2>1, <2>2, <2>3, <2>4 DEF Refs, IsIndex
<1>3. ASSUME NEW d \in Blobs
      PROVE  Parsed(d).refs = <<>> /\ Refs(d) = {} /\ Parsed(d).subj = None
  BY ContentType DEF Parsed, Refs, ToSet
<1>4. ASSUME NEW d \in Seq(Manifests), d \notin Manifests, d \notin Blobs
      PROVE  /\ Parsed(d).refs \in Seq(Blobs \union Manifests) /\ Refs(d) \subseteq Manifests
             /\ IsIndex(d)
  <2>1. Parsed(d).refs = d /\ Parsed(d).kind = "index"
    BY <1>4 DEF Parsed
  <2>2. ToSet(d) \subseteq Manifests
    BY Elements, Zenon
  <2> QED BY <2>1, <2>2 DEF Refs, IsIndex
<1>5. <<>> \in Seq(Blobs \union Manifests)
  OBVIOUS
<1>6. \A d \in DirDigests : d \in Manifests \/ d \in Blobs \/ d \in Seq(Manifests)
  BY DEF DirDigests
<1> QED BY <1>1, <1>2, <1>3, <1>4, <1>5, <1>6

\* A list has finitely many elements, and a finite set can be listed.
LEMMA FiniteLists ==
  ASSUME NEW X
  PROVE  /\ \A s \in Seq(X) : IsFiniteSet(ToSet(s))
         /\ IsFiniteSet(X) => SetToSeq(X) \in Seq(X)
<1>1. ASSUME NEW s \in Seq(X) PROVE IsFiniteSet(ToSet(s))
  <2>1. Len(s) \in Nat /\ s \in [1..Len(s) -> ToSet(s)]
    BY DEF ToSet
  <2>2. s \in Surjection(1..Len(s), ToSet(s))
    BY <2>1 DEF Surjection, ToSet
  <2>3. IsFiniteSet(1..Len(s))
    BY <2>1, FS_Interval
  <2> QED BY <2>2, <2>3, FS_Surjection
<1>2. ASSUME IsFiniteSet(X) PROVE SetToSeq(X) \in Seq(X)
  <2> DEFINE n == Cardinality(X)
  <2>1. n \in Nat /\ ExistsBijection(1..n, X)
    BY <1>2, FS_CardinalityType
  <2>2. \E f \in [1..n -> X] : IsInjective(f)
    BY <2>1 DEF ExistsBijection, Bijection, Injection
  <2>3. SetToSeq(X) \in [1..n -> X]
    BY <2>2, Zenon DEF SetToSeq
  <2> HIDE DEF n
  <2> QED BY <2>1, <2>3
<1> QED BY <1>1, <1>2

\* f[n] is what n rounds of G make of base, a subset of B each.
Rounds(f, N, B, base, G) ==
  /\ f = [n \in 0..N |-> IF n = 0 THEN base ELSE G[f[n - 1]]]
  /\ \A n \in 0..N : f[n] \in SUBSET B

\* There is such a function, if G stays within B.
LEMMA RoundsExist ==
  ASSUME NEW N \in Nat, NEW B, NEW base \in SUBSET B, NEW G \in [SUBSET B -> SUBSET B]
  PROVE  \E f : Rounds(f, N, B, base, G)
<1> DEFINE Is(f, m) == /\ f = [n \in 0..m |-> IF n = 0 THEN base ELSE G[f[n - 1]]]
                       /\ \A n \in 0..m : f[n] \in SUBSET B
           All == {m \in Nat : \E f : Is(f, m)}
<1>1. 0 \in All
  <2>1. Is([n \in 0..0 |-> base], 0)
    OBVIOUS
  <2> HIDE DEF Is
  <2> QED BY <2>1
<1>2. ASSUME NEW m \in Nat, m \in All PROVE m + 1 \in All
  <2>1. PICK f : Is(f, m)
    BY <1>2
  <2> DEFINE g == [n \in 0..(m + 1) |-> IF n = m + 1 THEN G[f[m]] ELSE f[n]]
  <2>2. ASSUME NEW n \in 0..(m + 1)
        PROVE  g[n] = (IF n = 0 THEN base ELSE G[g[n - 1]]) /\ g[n] \in SUBSET B
    <3>1. CASE n = m + 1
      <4>1. g[n] = G[f[m]] /\ n - 1 = m /\ g[m] = f[m] /\ f[m] \in SUBSET B
        BY <2>1, <3>1
      <4> QED BY <3>1, <4>1
    <3>2. CASE n = 0
      BY <2>1, <3>2
    <3>3. CASE n # 0 /\ n # m + 1
      <4>1. n \in 0..m /\ n - 1 \in 0..m /\ n - 1 # m + 1 /\ n - 1 \in 0..(m + 1)
        BY <3>3
      <4>2. g[n] = f[n] /\ g[n - 1] = f[n - 1]
        BY <3>3, <4>1
      <4>3. f[n] = G[f[n - 1]] /\ f[n] \in SUBSET B
        BY <2>1, <3>3, <4>1
      <4> QED BY <3>3, <4>2, <4>3
    <3> QED BY <3>1, <3>2, <3>3
  <2>3. g = [n \in 0..(m + 1) |-> g[n]]
    OBVIOUS
  <2>4. Is(g, m + 1)
    <3> HIDE DEF g
    <3> QED BY <2>2, <2>3
  <2> HIDE DEF Is, g
  <2> QED BY <2>4
<1>3. N \in All
  <2> HIDE DEF All
  <2> QED BY <1>1, <1>2, Induction
<1> QED BY <1>3 DEF Rounds

\* The children that indexIngest finds are digests, and can be listed.
LEMMA ChildrenAre ==
  ASSUME blobs \subseteq DirDigests, IsFiniteSet(blobs),
         NEW ms \in Seq(Descriptors(DirDigests, Tags))
  PROVE  SetToSeq(Children(ms)) \in Seq(DirDigests)
<1> DEFINE top == {ms[i].dig : i \in DOMAIN ms}
           Members(S) == UNION {Refs(d) : d \in {e \in S \intersect blobs : IsIndex(e)}}
           N == Cardinality(blobs)
           Is(f) == f = [n \in 0..N |-> IF n = 0 THEN top ELSE f[n - 1] \union Members(f[n - 1])]
           reach == CHOOSE f : Is(f)
           B == top \union UNION {Refs(d) : d \in blobs}
           G == [S \in SUBSET B |-> S \union Members(S)]
<1>1. Children(ms) = reach[N] \ top
  BY Zenon DEF Children
<1>2. IsFiniteSet(B) /\ B \subseteq DirDigests
  <2>1. IsFiniteSet(top) /\ top \subseteq DirDigests
    <3> DEFINE digs == [i \in 1..Len(ms) |-> ms[i].dig]
    <3>1. Len(ms) \in Nat /\ DOMAIN ms = 1..Len(ms) /\ \A i \in 1..Len(ms) : ms[i].dig \in DirDigests
      <4>1. ms[1] = ms[1] /\ \A i \in 1..Len(ms) : ms[i] \in Descriptors(DirDigests, Tags)
        OBVIOUS
      <4> QED BY <4>1 DEF Descriptors
    <3>2. digs \in Seq(DirDigests) /\ ToSet(digs) = top
      BY <3>1 DEF ToSet
    <3> HIDE DEF digs, top
    <3> QED BY <3>2, FiniteLists, Elements
  <2> DEFINE sets == {Refs(d) : d \in blobs}
             F == [d \in blobs |-> Refs(d)]
  <2>2. IsFiniteSet(sets)
    <3>1. F \in Surjection(blobs, sets)
      BY DEF Surjection
    <3> QED BY <3>1, FS_Surjection
  <2>3. \A T \in sets : IsFiniteSet(T) /\ T \subseteq DirDigests
    BY DirParsedIs, FiniteLists DEF Refs
  <2>4. IsFiniteSet(UNION sets)
    BY <2>2, <2>3, FS_UNION
  <2>5. UNION sets \subseteq DirDigests
    BY <2>3
  <2> HIDE DEF sets, top
  <2> QED BY <2>1, <2>4, <2>5, FS_Union DEF sets
<1>3. N \in Nat
  BY FS_CardinalityType
<1>11. top \in SUBSET B /\ \A S : Members(S) \in SUBSET B
  OBVIOUS
<1>12. top \in SUBSET B
  OBVIOUS
<1>4. G \in [SUBSET B -> SUBSET B]
  BY <1>11
<1> HIDE DEF N, B
<1>5. \E f : Is(f)
  <2>1. PICK f : /\ f = [n \in 0..N |-> IF n = 0 THEN top ELSE G[f[n - 1]]]
                 /\ \A n \in 0..N : f[n] \in SUBSET B
    <3> HIDE DEF G, top, Is, reach, Members
    <3>1. PICK f : Rounds(f, N, B, top, G)
      BY <1>3, <1>4, <1>12, RoundsExist
    <3> QED BY <3>1 DEF Rounds
  <2> HIDE DEF reach, Is
  <2>2. \A n \in 0..N : n # 0 => f[n - 1] \in SUBSET B
    <3>1. \A n \in 0..N : n # 0 => n - 1 \in 0..N
      BY <1>3
    <3> HIDE DEF G, Members, top
    <3> QED BY <2>1, <3>1
  <2>3. \A n \in 0..N : n # 0 => G[f[n - 1]] = f[n - 1] \union Members(f[n - 1])
    BY <2>2
  <2> HIDE DEF G, Members, top
  <2> USE DEF Is
  <2>4. [n \in 0..N |-> IF n = 0 THEN top ELSE G[f[n - 1]]]
          = [n \in 0..N |-> IF n = 0 THEN top ELSE f[n - 1] \union Members(f[n - 1])]
    BY <2>3
  <2> QED BY <2>1, <2>4
<1>6. Is(reach)
  <2> HIDE DEF Is
  <2> QED BY <1>5
<1> HIDE DEF reach, G
<1>7. reach[N] \subseteq B
  <2> DEFINE Good == {n \in Nat : n > N \/ reach[n] \subseteq B}
  <2>1. reach[0] = top /\ \A n \in 1..N : reach[n] = reach[n - 1] \union Members(reach[n - 1])
    <3> HIDE DEF Members, top
    <3>1. reach = [n \in 0..N |-> IF n = 0 THEN top ELSE reach[n - 1] \union Members(reach[n - 1])]
      BY <1>6
    <3> HIDE DEF Is
    <3>2. 0 \in 0..N /\ \A n \in 1..N : n \in 0..N /\ n # 0
      BY <1>3
    <3> QED BY <3>1, <3>2
  <2> HIDE DEF Members
  <2>2. 0 \in Good
    BY <1>3, <1>12, <2>1
  <2>3. ASSUME NEW n \in Nat, n \in Good PROVE n + 1 \in Good
    <3> SUFFICES ASSUME n + 1 <= N PROVE reach[n + 1] \subseteq B
      BY <1>3
    <3>1. reach[n] \subseteq B /\ n + 1 \in 1..N /\ (n + 1) - 1 = n
      BY <1>3, <2>3
    <3> QED BY <1>3, <1>11, <2>1, <3>1
  <2> HIDE DEF Good
  <2>4. Nat \subseteq Good
    BY <2>2, <2>3, Induction
  <2> QED BY <1>3, <2>4 DEF Good
<1>8. Children(ms) \in SUBSET B
  BY <1>1, <1>7
<1>9. IsFiniteSet(Children(ms)) /\ Children(ms) \subseteq DirDigests
  BY <1>2, <1>8, FS_Subset
<1>10. SetToSeq(Children(ms)) \in Seq(Children(ms))
  BY <1>9, FiniteLists
<1> HIDE DEF top
<1> QED BY <1>9, <1>10
-----------------------------------------------------------------------------
(* indexIngest, indexLoad, indexSave and repoInit *)

\* p goes through the indexes that converting the entries cs, one after the other, makes of li.
ConvertSteps(p, li, cs) ==
  /\ p[0] = li /\ p[Len(cs)] = FoldLeft(ConvertOne, li, cs)
  /\ \A k \in 1..Len(cs) : p[k] = ConvertOne(p[k - 1], cs[k])

\* They stay in a set that each conversion stays in.
LEMMA ConvertTrace ==
  ASSUME NEW A, NEW X, NEW cs \in Seq(X), NEW li \in A,
         \A a \in A, k \in 1..Len(cs) : ConvertOne(a, cs[k]) \in A
  PROVE  \E p \in [0..Len(cs) -> A] : ConvertSteps(p, li, cs)
<1> DEFINE Rest(H, t) == ConvertOne(H[t \ {Max(t)}], cs[Max(t)])
           Is(H) == H = [t \in SUBSET DOMAIN cs |-> IF t = {} THEN li ELSE Rest(H, t)]
           Chosen == CHOOSE H : Is(H)
           G == [x \in (1..Len(cs)) \X A |-> ConvertOne(x[2], cs[x[1]])]
<1>0. Len(cs) \in Nat /\ DOMAIN cs = 1..Len(cs)
  OBVIOUS
<1>1. \A k \in 1..Len(cs), a \in A : G[<<k, a>>] = ConvertOne(a, cs[k])
  OBVIOUS
<1>2. G \in [(1..Len(cs)) \X A -> A]
  BY <1>1
<1>3. \A t \in SUBSET (1..Len(cs)) : t # {} => Max(t) \in 1..Len(cs)
  BY <1>0, Top
<1> HIDE DEF G
<1>4. \E H : Is(H)
  <2>1. PICK F \in [SUBSET (1..Len(cs)) -> A] : Iterates(F, Len(cs), li, G)
    BY <1>0, <1>2, IterationExists, Zenon
  <2>2. ASSUME NEW t \in SUBSET (1..Len(cs)), t # {} PROVE F[t] = Rest(F, t)
    <3>1. F[t \ {Max(t)}] \in A
      OBVIOUS
    <3>2. F[t] = G[<<Max(t), F[t \ {Max(t)}]>>]
      BY <2>1, <2>2 DEF Iterates
    <3> QED BY <1>1, <1>3, <2>2, <3>1, <3>2
  <2>3. F[{}] = li
    BY <2>1 DEF Iterates
  <2>4. F = [t \in SUBSET (1..Len(cs)) |-> F[t]]
    OBVIOUS
  <2>5. Is(F)
    BY <1>0, <2>2, <2>3, <2>4
  <2> QED BY <2>5
<1>5. Is(Chosen)
  <2> HIDE DEF Is
  <2> QED BY <1>4
<1>6. FoldLeft(ConvertOne, li, cs) = Chosen[DOMAIN cs]
  BY Zenon DEF FoldLeft, MapThenFoldSet
<1> HIDE DEF Chosen
<1>7. IteratesIn(Chosen, Len(cs), A, li, G)
  <2>1. Chosen[{}] = li
    BY <1>5
  <2>2. ASSUME NEW t \in SUBSET (1..Len(cs)), t # {}, Chosen[t \ {Max(t)}] \in A
        PROVE  Chosen[t] = G[<<Max(t), Chosen[t \ {Max(t)}]>>]
    <3>1. Chosen[t] = Rest(Chosen, t)
      BY <1>0, <1>5, <2>2
    <3> QED BY <1>1, <1>3, <2>2, <3>1
  <2> QED BY <2>1, <2>2 DEF IteratesIn
<1>8. PICK p \in [0..Len(cs) -> A] : Traces(p, Len(cs), Chosen, li, G)
  BY <1>0, <1>2, <1>7, IterationTrace, Zenon
<1>9. p[0] = li /\ p[Len(cs)] = FoldLeft(ConvertOne, li, cs)
  BY <1>0, <1>6, <1>8 DEF Traces
<1>10. ASSUME NEW k \in 1..Len(cs) PROVE p[k] = ConvertOne(p[k - 1], cs[k])
  <2>1. k - 1 \in 0..Len(cs) /\ p[k - 1] \in A
    BY <1>0
  <2> QED BY <1>0, <1>1, <1>8, <2>1 DEF Traces
<1> QED BY <1>9, <1>10 DEF ConvertSteps

\* So does removing entries.
LEMMA RemoveStays ==
  ASSUME NEW A, NEW X, NEW cs \in Seq(X), NEW li \in A,
         \A a \in A, k \in 1..Len(cs) : RmDesc(a, cs[k]) \in A
  PROVE  FoldLeft(RmDesc, li, cs) \in A
<1> DEFINE Rest(H, t) == RmDesc(H[t \ {Max(t)}], cs[Max(t)])
           Is(H) == H = [t \in SUBSET DOMAIN cs |-> IF t = {} THEN li ELSE Rest(H, t)]
           Chosen == CHOOSE H : Is(H)
           G == [x \in (1..Len(cs)) \X A |-> RmDesc(x[2], cs[x[1]])]
<1>0. Len(cs) \in Nat /\ DOMAIN cs = 1..Len(cs)
  OBVIOUS
<1>1. \A k \in 1..Len(cs), a \in A : G[<<k, a>>] = RmDesc(a, cs[k])
  OBVIOUS
<1>2. G \in [(1..Len(cs)) \X A -> A]
  BY <1>1
<1>3. \A t \in SUBSET (1..Len(cs)) : t # {} => Max(t) \in 1..Len(cs)
  BY <1>0, Top
<1> HIDE DEF G
<1>4. \E H : Is(H)
  <2>1. PICK F \in [SUBSET (1..Len(cs)) -> A] : Iterates(F, Len(cs), li, G)
    BY <1>0, <1>2, IterationExists, Zenon
  <2>2. ASSUME NEW t \in SUBSET (1..Len(cs)), t # {} PROVE F[t] = Rest(F, t)
    <3>1. F[t \ {Max(t)}] \in A
      OBVIOUS
    <3>2. F[t] = G[<<Max(t), F[t \ {Max(t)}]>>]
      BY <2>1, <2>2 DEF Iterates
    <3> QED BY <1>1, <1>3, <2>2, <3>1, <3>2
  <2>3. F[{}] = li
    BY <2>1 DEF Iterates
  <2>4. F = [t \in SUBSET (1..Len(cs)) |-> F[t]]
    OBVIOUS
  <2>5. Is(F)
    BY <1>0, <2>2, <2>3, <2>4
  <2> QED BY <2>5
<1>5. Is(Chosen)
  <2> HIDE DEF Is
  <2> QED BY <1>4
<1>6. FoldLeft(RmDesc, li, cs) = Chosen[DOMAIN cs]
  BY Zenon DEF FoldLeft, MapThenFoldSet
<1> HIDE DEF Chosen
<1>7. IteratesIn(Chosen, Len(cs), A, li, G)
  <2>1. Chosen[{}] = li
    BY <1>5
  <2>2. ASSUME NEW t \in SUBSET (1..Len(cs)), t # {}, Chosen[t \ {Max(t)}] \in A
        PROVE  Chosen[t] = G[<<Max(t), Chosen[t \ {Max(t)}]>>]
    <3>1. Chosen[t] = Rest(Chosen, t)
      BY <1>0, <1>5, <2>2
    <3> QED BY <1>1, <1>3, <2>2, <3>1
  <2> QED BY <2>1, <2>2 DEF IteratesIn
<1>8. PICK p \in [0..Len(cs) -> A] : Traces(p, Len(cs), Chosen, li, G)
  BY <1>0, <1>2, <1>7, IterationTrace, Zenon
<1>9. p[Len(cs)] = FoldLeft(RmDesc, li, cs)
  BY <1>0, <1>6, <1>8 DEF Traces
<1> QED BY <1>0, <1>9
\* r has tags as ms, but for fallback tags, and no tagged entry that ms has not.
SameTags(r, ms) ==
  /\ \A x \in ToSet(r) : x.tag # None => x \in ToSet(ms)
  /\ \A t \in Tags \ FallbackTags : \A d :
       Names(ToSet(ms), t, d) => Names(ToSet(r), t, d)

\* The subject of a list that can be converted, if it lists anything.
LEMMA SubjectOfIs ==
  ASSUME blobs \subseteq DirDigests, NEW d \in DirDigests
  PROVE  /\ \A m \in ToSet(Referring(d)) : m \in Refs(d) \intersect blobs /\ Parsed(m).subj \in Manifests
         /\ ValidReferrer(d) =>
              \/ SubjectsOf(d) = {} /\ SubjectOf(d) = None
              \/ SubjectsOf(d) = {SubjectOf(d)} /\ SubjectOf(d) \in Manifests
<1> DEFINE S == {x \in Refs(d) \intersect blobs : Parsed(x).subj # None}
<1>1. /\ Parsed(d).refs \in Seq(Blobs \union Manifests)
      /\ Refs(d) \subseteq Blobs \union Manifests
  BY DirParsedIs
<1>2. Referring(d) \in Seq(Blobs \union Manifests) /\ ToSet(Referring(d)) = ToSet(Parsed(d).refs) \intersect S
  <2> HIDE DEF S
  <2> QED BY <1>1, OnlyIs DEF Referring, S
<1>3. \A m \in ToSet(Referring(d)) : m \in Refs(d) \intersect blobs /\ Parsed(m).subj \in Manifests
  BY <1>1, <1>2, DirParsedIs
<1>4. IsFiniteSet(SubjectsOf(d))
  <2> DEFINE F == [m \in ToSet(Referring(d)) |-> Parsed(m).subj]
  <2>1. F \in Surjection(ToSet(Referring(d)), SubjectsOf(d))
    BY DEF Surjection, SubjectsOf
  <2>2. IsFiniteSet(ToSet(Referring(d)))
    BY <1>2, FiniteLists
  <2> QED BY <2>1, <2>2, FS_Surjection
<1>5. ASSUME ValidReferrer(d), SubjectsOf(d) # {}
      PROVE  SubjectsOf(d) = {SubjectOf(d)} /\ SubjectOf(d) \in Manifests
  <2>1. Cardinality(SubjectsOf(d)) <= 1
    BY <1>5 DEF ValidReferrer
  <2>2. Cardinality(SubjectsOf(d)) \in Nat /\ Cardinality(SubjectsOf(d)) # 0
    BY <1>4, <1>5, FS_CardinalityType, FS_EmptySet
  <2>3. Cardinality(SubjectsOf(d)) = 1
    BY <2>1, <2>2
  <2>4. PICK s : SubjectsOf(d) = {s}
    BY <1>4, <2>3, FS_Singleton
  <2>5. SubjectOf(d) = s
    BY <2>4 DEF SubjectOf
  <2> QED BY <1>3, <2>4, <2>5 DEF SubjectsOf
<1>6. SubjectsOf(d) = {} => SubjectOf(d) = None
  BY DEF SubjectOf
<1> QED BY <1>3, <1>5, <1>6

\* Converting fallback tags, or removing them, changes no other tag.
LEMMA ConvertedIs ==
  ASSUME blobs \subseteq DirDigests,
         NEW ms \in Seq(Descriptors(DirDigests, Tags)), Sound(ms),
         NEW es \in Seq(ToSet(ms)), NEW rs \in Seq(ToSet(ms)),
         \A e \in ToSet(es) : Convertible([manifests |-> ms, children |-> <<>>], e),
         \A e \in ToSet(rs) : e.tag \in FallbackTags
  PROVE  LET li == FoldLeft(RmDesc, FoldLeft(ConvertOne, [manifests |-> ms, children |-> <<>>], es), rs)
         IN  li \in Layouts(DirDigests, Tags) /\ Sound(li.manifests) /\ SameTags(li.manifests, ms)
<1> DEFINE parsed == [manifests |-> ms, children |-> <<>>]
           A == {li \in Layouts(DirDigests, Tags) : Sound(li.manifests) /\ SameTags(li.manifests, ms)}
<1>1. None \notin DirDigests /\ None \notin Tags /\ FallbackTags \subseteq Tags
  BY DirParsedIs, DirRepoType
<1>2. ASSUME NEW x \in ToSet(ms)
      PROVE  x \in Descriptors(DirDigests, Tags) /\ (x.tag = None \/ x.subj = None)
  <2>1. PICK i \in 1..Len(ms) : ms[i] = x
    BY Elements
  <2> QED BY <2>1 DEF Sound, OneAnnotation
<1>3. parsed \in A
  BY DEF Layouts, SameTags
<1>4. ASSUME NEW a \in A, NEW k \in 1..Len(es) PROVE ConvertOne(a, es[k]) \in A
  <2> DEFINE e == es[k]
             s == SubjectOf(e.dig)
             n == Entry(e.dig, None, s)
             r == AddDesc(a, n, <<>>)
  <2>1. e \in ToSet(es) /\ e \in ToSet(ms) /\ e.dig \in DirDigests
    <3>1. e \in ToSet(es) /\ e \in ToSet(ms)
      BY Elements
    <3> QED BY <1>2, <3>1 DEF Descriptors
  <2>2. ValidReferrer(e.dig)
    BY <2>1 DEF Convertible
  <2>4. s \in Manifests \union {None} /\ Manifests \subseteq DirDigests
    BY <2>1, <2>2, SubjectOfIs, DirParsedIs
  <2>5. n \in Descriptors(DirDigests, Tags) /\ n.tag = None /\ n.dig = e.dig /\ n.subj = s
    BY <2>1, <2>4 DEF Descriptors, Entry
  <2>6. a \in Layouts(DirDigests, Tags) /\ Sound(a.manifests) /\ SameTags(a.manifests, ms)
    OBVIOUS
  <2>7. <<>> \in Seq(DirDigests)
    OBVIOUS
  <2>8. ConvertOne(a, e) = r
    BY DEF ConvertOne
  <2> HIDE DEF e, s, n
  <2>9. r \in Layouts(DirDigests, Tags) /\ Sound(r.manifests) /\ Added(r, a, n)
    BY <1>1, <2>5, <2>6, <2>7, AddDescIs
  <2>10. Descends(r, a, n)
    BY <1>1, <2>5, <2>6, <2>7, AddDescDescends
  <2> HIDE DEF r
  <2>11. \A x \in ToSet(r.manifests) : x.tag # None => x \in ToSet(ms)
    BY <2>5, <2>6, <2>10 DEF Descends, Plain, SameTags
  <2>12. \A t \in Tags \ FallbackTags : \A d : Names(ToSet(ms), t, d) => Names(ToSet(r.manifests), t, d)
    BY <1>1, <2>5, <2>6, <2>9 DEF Added, TagsStay, SameTags
  <2> QED BY <2>8, <2>9, <2>11, <2>12 DEF SameTags, e
<1>5. ASSUME NEW a \in A, NEW k \in 1..Len(rs) PROVE RmDesc(a, rs[k]) \in A
  <2> DEFINE e == rs[k]
             r == RmDesc(a, e)
  <2>1. e \in ToSet(rs) /\ e \in ToSet(ms)
    BY Elements
  <2>2. e.tag \in FallbackTags /\ e.tag # None /\ e.subj = None /\ e.dig \in DirDigests
    BY <1>1, <1>2, <2>1 DEF Descriptors
  <2>3. r = RmTag(a, e)
    BY <2>2 DEF RmDesc
  <2>4. a \in Layouts(DirDigests, Tags) /\ Sound(a.manifests) /\ SameTags(a.manifests, ms)
    OBVIOUS
  <2> HIDE DEF e
  <2>5. r \in Layouts(DirDigests, Tags) /\ Sound(r.manifests) /\ TagRemoved(r, a, e)
    BY <1>1, <2>2, <2>3, <2>4, RmTagIs
  <2>6. Remains(r, a)
    BY <1>1, <2>2, <2>4, RmDescRemains
  <2> HIDE DEF r
  <2>7. \A x \in ToSet(r.manifests) : x.tag # None => x \in ToSet(ms)
    BY <2>4, <2>6 DEF Remains, Plain, SameTags
  <2>8. \A t \in Tags \ FallbackTags : \A d : Names(ToSet(ms), t, d) => Names(ToSet(r.manifests), t, d)
    BY <1>1, <2>2, <2>4, <2>5 DEF TagRemoved, TagsStay, SameTags
  <2> QED BY <2>5, <2>7, <2>8 DEF SameTags, r, e
<1> HIDE DEF A, parsed
<1>6. FoldLeft(ConvertOne, parsed, es) \in A
  <2>1. PICK p \in [0..Len(es) -> A] : ConvertSteps(p, parsed, es)
    BY <1>3, <1>4, ConvertTrace, Zenon
  <2> QED BY <2>1 DEF ConvertSteps
<1>7. FoldLeft(RmDesc, FoldLeft(ConvertOne, parsed, es), rs) \in A
  BY <1>5, <1>6, RemoveStays, Zenon
<1> QED BY <1>7 DEF A, parsed

\* No two fallback lists are for one subject.
OneList(ms) ==
  LET Lists == {e \in ToSet(ms) : e.tag \in FallbackTags /\ IsIndex(e.dig)}
  IN  \A x, y \in Lists : SubjectsOf(x.dig) \intersect SubjectsOf(y.dig) # {} => x.dig = y.dig

\* Every list that is converted becomes the response of its subject, if no other is for
\* that subject too, and stays it when the others are removed.
LEMMA ResponsesMade ==
  ASSUME blobs \subseteq DirDigests,
         NEW ms \in Seq(Descriptors(DirDigests, Tags)), Sound(ms), OneList(ms),
         NEW es \in Seq(ToSet(ms)), NEW rs \in Seq(ToSet(ms)),
         \A e \in ToSet(es) : /\ Convertible([manifests |-> ms, children |-> <<>>], e)
                              /\ e.tag \in FallbackTags /\ IsIndex(e.dig),
         \A e \in ToSet(rs) : e.tag \in FallbackTags,
         NEW e0 \in ToSet(es), NEW s0, s0 \in SubjectsOf(e0.dig)
  PROVE  LET li == FoldLeft(RmDesc, FoldLeft(ConvertOne, [manifests |-> ms, children |-> <<>>], es), rs)
         IN  Answered(ToSet(li.manifests), s0, e0.dig)
<1> DEFINE parsed == [manifests |-> ms, children |-> <<>>]
           A == {li \in Layouts(DirDigests, Tags) : Sound(li.manifests)}
           B == {li \in A : Answered(ToSet(li.manifests), s0, e0.dig)}
           OneSubject(k, s) == \/ SubjectsOf(es[k].dig) = {} /\ s = None
                               \/ SubjectsOf(es[k].dig) = {s} /\ s \in Manifests
<1>1. None \notin DirDigests /\ None \notin Tags /\ FallbackTags \subseteq Tags /\ Manifests \subseteq DirDigests
  BY DirParsedIs, DirRepoType
<1>2. ASSUME NEW x \in ToSet(ms)
      PROVE  x \in Descriptors(DirDigests, Tags) /\ (x.tag = None \/ x.subj = None)
  <2>1. PICK i \in 1..Len(ms) : ms[i] = x
    BY Elements
  <2> QED BY <2>1 DEF Sound, OneAnnotation
<1>3. parsed \in A
  BY DEF Layouts
<1>4. ASSUME NEW a \in A, NEW k \in 1..Len(es)
      PROVE  /\ ConvertOne(a, es[k]) \in A
             /\ OneSubject(k, SubjectOf(es[k].dig))
             /\ Added(ConvertOne(a, es[k]), a, Entry(es[k].dig, None, SubjectOf(es[k].dig)))
  <2> DEFINE e == es[k]
             s == SubjectOf(e.dig)
             n == Entry(e.dig, None, s)
             r == AddDesc(a, n, <<>>)
  <2>1. e \in ToSet(es) /\ e.dig \in DirDigests
    <3>1. e \in ToSet(es) /\ e \in ToSet(ms)
      BY Elements
    <3> QED BY <1>2, <3>1 DEF Descriptors
  <2>2. OneSubject(k, s)
    <3>1. ValidReferrer(e.dig)
      BY <2>1 DEF Convertible
    <3> QED BY <2>1, <3>1, SubjectOfIs
  <2>3. n \in Descriptors(DirDigests, Tags) /\ n.tag = None
    BY <1>1, <2>1, <2>2 DEF Descriptors, Entry
  <2>4. a \in Layouts(DirDigests, Tags) /\ Sound(a.manifests) /\ <<>> \in Seq(DirDigests)
    OBVIOUS
  <2>5. ConvertOne(a, e) = r
    BY DEF ConvertOne
  <2> HIDE DEF e, s, n
  <2>6. r \in Layouts(DirDigests, Tags) /\ Sound(r.manifests) /\ Added(r, a, n)
    BY <1>1, <2>3, <2>4, AddDescIs
  <2> HIDE DEF r
  <2>7. ConvertOne(a, e) \in A /\ OneSubject(k, s) /\ Added(ConvertOne(a, e), a, n)
    <3> HIDE DEF OneSubject
    <3> QED BY <2>2, <2>5, <2>6
  <2> QED BY <2>7, Zenon DEF e, n, s
<1>5. PICK p \in [0..Len(es) -> A] : ConvertSteps(p, parsed, es)
  <2> HIDE DEF A, parsed
  <2> QED BY <1>3, <1>4, ConvertTrace, Zenon
<1>6. PICK j \in 1..Len(es) : es[j] = e0
  BY Elements
<1>7. Len(es) \in Nat /\ e0 \in ToSet(ms) /\ \A k \in 1..Len(es) : es[k] \in ToSet(es) /\ es[k] \in ToSet(ms)
  BY Elements
<1>8. ASSUME NEW k \in 1..Len(es), k = j \/ Answered(ToSet(p[k - 1].manifests), s0, e0.dig)
      PROVE  Answered(ToSet(p[k].manifests), s0, e0.dig)
  <2>1. k - 1 \in 0..Len(es) /\ p[k - 1] \in A /\ p[k] = ConvertOne(p[k - 1], es[k])
    BY <1>5, <1>7 DEF ConvertSteps
  <2> DEFINE s == SubjectOf(es[k].dig)
  <2>2. OneSubject(k, s) /\ Added(p[k], p[k - 1], Entry(es[k].dig, None, s))
    <3> DEFINE a == p[k - 1]
    <3>1. a \in A /\ p[k] = ConvertOne(a, es[k])
      BY <2>1
    <3> HIDE DEF a, A, OneSubject
    <3>2. OneSubject(k, s) /\ Added(ConvertOne(a, es[k]), a, Entry(es[k].dig, None, s))
      BY <1>4, <3>1
    <3> QED BY <3>1, <3>2 DEF a
  <2> HIDE DEF s
  <2>3. (s # None <=> SubjectsOf(es[k].dig) = {s}) /\ s0 \in Manifests /\ s0 # None
    <3>1. \A x \in ToSet(ms) : \A q \in SubjectsOf(x.dig) : q \in Manifests
      BY <1>2, SubjectOfIs DEF Descriptors, SubjectsOf
    <3>2. s0 \in Manifests /\ s0 # None
      BY <1>1, <1>7, <3>1
    <3>3. SubjectsOf(es[k].dig) = {} => SubjectsOf(es[k].dig) # {s}
      OBVIOUS
    <3>4. OneSubject(k, s)
      BY <2>2
    <3>5. None \notin Manifests
      BY <1>1
    <3>6. s # None <=> SubjectsOf(es[k].dig) = {s}
      BY <3>3, <3>4, <3>5
    <3> QED BY <3>2, <3>6
  <2>4. CASE s = s0
    <3>1. SubjectsOf(es[k].dig) \intersect SubjectsOf(e0.dig) # {}
      BY <2>3, <2>4
    <3>2. es[k].dig = e0.dig
      BY <1>7, <3>1 DEF OneList
    <3> QED BY <2>2, <2>3, <2>4, <3>2 DEF Added, Entry
  <2>5. CASE s # s0
    <3>1. k # j
      BY <1>6, <2>2, <2>5
    <3> QED BY <1>8, <2>2, <2>3, <2>5, <3>1 DEF Added, Entry, ResponsesStay
  <2> QED BY <2>4, <2>5
<1>9. Answered(ToSet(p[Len(es)].manifests), s0, e0.dig)
  <2> DEFINE Good == {k \in Nat : k < j \/ k > Len(es) \/ Answered(ToSet(p[k].manifests), s0, e0.dig)}
  <2>1. 0 \in Good
    BY <1>6
  <2>2. ASSUME NEW k \in Nat, k \in Good PROVE k + 1 \in Good
    <3>1. CASE k + 1 < j \/ k + 1 > Len(es)
      BY <3>1
    <3>2. CASE ~(k + 1 < j) /\ ~(k + 1 > Len(es))
      <4>1. k + 1 \in 1..Len(es) /\ (k + 1) - 1 = k /\ (k + 1 = j \/ ~(k < j)) /\ ~(k > Len(es))
        BY <1>6, <1>7, <3>2
      <4>2. k + 1 = j \/ Answered(ToSet(p[k].manifests), s0, e0.dig)
        BY <2>2, <4>1
      <4> QED BY <1>8, <4>1, <4>2
    <3> QED BY <3>1, <3>2
  <2> HIDE DEF Good
  <2>3. Nat \subseteq Good
    BY <2>1, <2>2, Induction
  <2>4. Len(es) \in Nat /\ ~(Len(es) < j) /\ ~(Len(es) > Len(es))
    BY <1>6, <1>7
  <2>5. Len(es) \in Good
    BY <2>3, <2>4
  <2> QED BY <2>4, <2>5 DEF Good
<1>10. FoldLeft(ConvertOne, parsed, es) \in B
  <2> DEFINE last == p[Len(es)]
  <2>1. last = FoldLeft(ConvertOne, parsed, es)
    <3> HIDE DEF A, parsed
    <3> QED BY <1>5, Zenon DEF ConvertSteps
  <2>2. last \in A /\ Answered(ToSet(last.manifests), s0, e0.dig)
    <3>1. Len(es) \in 0..Len(es)
      BY <1>7
    <3> HIDE DEF A, parsed
    <3> QED BY <1>5, <1>9, <3>1, Zenon
  <2> HIDE DEF last, A, parsed
  <2>3. last \in B
    BY <2>2
  <2> QED BY <2>1, <2>3, Zenon
<1>11. ASSUME NEW a \in B, NEW k \in 1..Len(rs) PROVE RmDesc(a, rs[k]) \in B
  <2> DEFINE e == rs[k]
             r == RmDesc(a, e)
  <2>1. e \in ToSet(rs) /\ e \in ToSet(ms)
    BY Elements
  <2>2. e.tag # None /\ e.dig \in DirDigests
    BY <1>1, <1>2, <2>1 DEF Descriptors
  <2>3. r = RmTag(a, e)
    BY <2>2 DEF RmDesc
  <2>4. a \in Layouts(DirDigests, Tags) /\ Sound(a.manifests)
    OBVIOUS
  <2> HIDE DEF e
  <2>5. r \in Layouts(DirDigests, Tags) /\ Sound(r.manifests) /\ TagRemoved(r, a, e)
    BY <1>1, <2>2, <2>3, <2>4, RmTagIs
  <2>6. s0 # None
    <3>1. e0.dig \in DirDigests
      BY <1>2, <1>7 DEF Descriptors
    <3>2. s0 \in Manifests
      BY <3>1, SubjectOfIs DEF SubjectsOf
    <3> QED BY <1>1, <3>2
  <2> HIDE DEF r
  <2>7. Answered(ToSet(r.manifests), s0, e0.dig)
    BY <2>5, <2>6 DEF TagRemoved, ResponsesStay
  <2> QED BY <2>5, <2>7 DEF r, e
<1> HIDE DEF A, B, parsed
<1>12. FoldLeft(RmDesc, FoldLeft(ConvertOne, parsed, es), rs) \in B
  BY <1>10, <1>11, RemoveStays, Zenon
<1> QED BY <1>12 DEF B, parsed

\* Each referrer that a fallback list of ms has, and that is there, is in the response
\* that ns has for its subject.
Converts(ms, ns) ==
  \A e \in ToSet(Fallbacks(ms)) : \A m \in ToSet(Referring(e.dig)) :
    \E d \in DirDigests \ Manifests :
      m \in Refs(d) /\ Answered(ToSet(ns), Parsed(m).subj, d)

\* Nothing of a fallback list can have a subject after it was handled but the response
\* that it became: what indexIngest makes of index.json can be saved.
LEMMA IngestIs ==
  ASSUME blobs \subseteq DirDigests, IsFiniteSet(blobs), file # None, Loadable(file), DrTypes(dr),
         NEW l \in Ingests
  PROVE  \E kids \in Seq(DirDigests) :
           LET loaded == [dr EXCEPT !.exists = TRUE, !.current = TRUE, !.recent = TRUE,
                                    !.annot = "converted"]
               ms     == file.manifests
           IN  \/ file.converted /\ l = Result([manifests |-> ms, children |-> kids], loaded, file)
               \/ /\ ~file.converted
                  /\ \E li \in Layouts(DirDigests, Tags) :
                       /\ Sound(li.manifests) /\ SameTags(li.manifests, ms)
                       /\ OneList(ms) => Converts(ms, li.manifests)
                       /\ l \in Saves(Result(li, loaded, file))
<1> DEFINE ms == file.manifests
           parsed == [manifests |-> ms, children |-> <<>>]
           kids == SetToSeq(Children(ms))
           plain == [dr EXCEPT !.exists = TRUE, !.current = TRUE, !.recent = TRUE,
                               !.annot = IF file.converted THEN "converted" ELSE "plain"]
           loaded == [dr EXCEPT !.exists = TRUE, !.current = TRUE, !.recent = TRUE,
                                !.annot = "converted"]
           all == Fallbacks(ms)
           valid == {e \in ToSet(all) : Convertible(parsed, e)}
           bad == Only(all, ToSet(all) \ valid)
           good == FoldLeft(ConvertOne, parsed, Only(all, valid))
           subjects == UNION {SubjectsOf(e.dig) : e \in ToSet(bad)}
           done == FoldLeft(RmDesc, good, bad)
           WithChildren(li) == [li EXCEPT !.children = kids]
<1>1. ms \in Seq(Descriptors(DirDigests, Tags)) /\ Sound(ms) /\ file.converted \in BOOLEAN
  BY DEF Loadable, IndexFiles, Descriptors
<1>2. kids \in Seq(DirDigests)
  BY <1>1, ChildrenAre
<1> HIDE DEF kids
<1>3. CASE file.converted
  <2>1. l = Result(WithChildren(parsed), plain, file)
    BY <1>3, Zenon DEF Ingests, kids
  <2>2. plain = loaded
    BY <1>3
  <2>3. WithChildren(parsed) = [manifests |-> ms, children |-> kids]
    OBVIOUS
  <2> HIDE DEF parsed, plain, loaded
  <2> QED BY <1>2, <1>3, <2>1, <2>2, <2>3 DEF loaded
<1>4. CASE ~file.converted
  <2> DEFINE F == {e \in ToSet(ms) : e.tag \in FallbackTags /\ IsIndex(e.dig) /\ e.dig \in blobs}
  <2>1. ms \in Seq(ToSet(ms))
    BY <1>1, Elements
  <2>2. all \in Seq(ToSet(ms)) /\ ToSet(all) = ToSet(ms) \intersect F
    <3> HIDE DEF ms, F
    <3> QED BY <2>1, OnlyIs DEF Fallbacks, F
  <2>3. bad \in Seq(ToSet(ms)) /\ ToSet(bad) = ToSet(all) \intersect (ToSet(all) \ valid)
    <3> HIDE DEF all, valid
    <3> QED BY <2>2, OnlyIs
  <2>4. Only(all, valid) \in Seq(ToSet(ms)) /\ ToSet(Only(all, valid)) = ToSet(all) \intersect valid
    <3> HIDE DEF all, valid
    <3> QED BY <2>2, OnlyIs
  <2>5. Settled(ms)
    BY <1>4 DEF Loadable
  <2>6. \A e \in ToSet(bad) : e.tag \in FallbackTags /\ SubjectsOf(e.dig) = {}
    <3> SUFFICES ASSUME NEW e \in ToSet(bad)
                 PROVE  e.tag \in FallbackTags /\ SubjectsOf(e.dig) = {}
      OBVIOUS
    <3>1. e \in ToSet(all) /\ ~Convertible(parsed, e)
      BY <2>3
    <3>2. e \in ToSet(ms) /\ e.tag \in FallbackTags /\ IsIndex(e.dig)
      BY <2>2, <3>1
    <3> HIDE DEF bad, parsed
    <3> QED BY <2>5, <3>1, <3>2 DEF Settled, parsed
  <2>7. subjects = {}
    <3> HIDE DEF bad
    <3> QED BY <2>6
  <2>8. done \in Layouts(DirDigests, Tags) /\ Sound(done.manifests) /\ SameTags(done.manifests, ms)
    <3>1. \A e \in ToSet(Only(all, valid)) : Convertible(parsed, e)
      BY <2>4
    <3> HIDE DEF all, valid, bad
    <3> QED BY <1>1, <2>3, <2>4, <2>6, <3>1, ConvertedIs
  <2>12. ASSUME OneList(ms) PROVE Converts(ms, done.manifests)
    <3> SUFFICES ASSUME NEW e \in ToSet(all), NEW m \in ToSet(Referring(e.dig))
                 PROVE  \E d \in DirDigests \ Manifests :
                          m \in Refs(d) /\ Answered(ToSet(done.manifests), Parsed(m).subj, d)
      BY DEF Converts
    <3>1. e.dig \in DirDigests /\ e.tag \in FallbackTags /\ IsIndex(e.dig)
      <4>1. e \in ToSet(ms) /\ e \in F
        BY <2>2
      <4>2. ToSet(ms) \subseteq Descriptors(DirDigests, Tags)
        BY <1>1, Elements, Zenon
      <4> QED BY <4>1, <4>2 DEF Descriptors
    <3>2. m \in Refs(e.dig) /\ Parsed(m).subj \in SubjectsOf(e.dig)
      BY <3>1, SubjectOfIs DEF SubjectsOf
    <3>3. e \notin ToSet(bad)
      <4> HIDE DEF bad
      <4> QED BY <2>6, <3>2
    <3>4. e \in ToSet(Only(all, valid)) /\ Convertible(parsed, e)
      <4> HIDE DEF all, bad
      <4> QED BY <2>3, <2>4, <3>3
    <3>5. \A x \in ToSet(Only(all, valid)) :
             Convertible(parsed, x) /\ x.tag \in FallbackTags /\ IsIndex(x.dig)
      <4> HIDE DEF all
      <4> QED BY <2>2, <2>4
    <3>6. \A x \in ToSet(bad) : x.tag \in FallbackTags
      <4> HIDE DEF bad
      <4> QED BY <2>6
    <3>7. e.dig \notin Manifests
      BY <3>4 DEF Convertible, ValidReferrer
    <3>8. Answered(ToSet(done.manifests), Parsed(m).subj, e.dig)
      <4> HIDE DEF all, valid, bad
      <4> QED BY <1>1, <2>3, <2>4, <2>12, <3>2, <3>4, <3>5, <3>6, ResponsesMade
    <3> QED BY <3>1, <3>2, <3>7, <3>8
  <2>9. l \in Saves(Result(WithChildren(done), [plain EXCEPT !.annot = "converted"], file))
    <3> HIDE DEF ms
    <3> QED BY <1>4, <2>7, Zenon DEF Ingests, kids, ms
  <2>10. [plain EXCEPT !.annot = "converted"] = loaded
    BY DEF DrTypes
  <2> HIDE DEF done, plain, loaded
  <2>11. /\ WithChildren(done) \in Layouts(DirDigests, Tags)
         /\ WithChildren(done).manifests = done.manifests
    BY <1>2, <2>8 DEF Layouts
  <2> HIDE DEF WithChildren
  <2> QED BY <1>2, <1>4, <2>8, <2>9, <2>10, <2>11, <2>12 DEF loaded
<1> QED BY <1>3, <1>4

\* What a call came to, that holds nothing for good.
IsOutcome(r) == DOMAIN r = {"index", "dr", "file", "err", "stuck"} /\ ~r.stuck

\* Its index can be saved with those tags.
CanSave(r, left) ==
  /\ IsOutcome(r)
  /\ DrTypes(r.dr) /\ Savable(r.index, r.dr)
  /\ ~LoadFails => HasTags(r.index.manifests, left)
\* s has the index li, saved.
Saved(s, li, left) ==
  /\ Agree(s.index, s.dr, s.file, left)
  /\ IsOutcome(s) /\ ~s.err /\ s.index = li
  /\ s.dr.annot # "blank" /\ s.dr.current /\ s.file # None
  /\ s.file.manifests = li.manifests

\* What is saved is loaded again as it is.
LEMMA SaveIs ==
  ASSUME ~SaveFails, NEW left, NEW r, CanSave(r, left), NEW s \in Saves(r)
  PROVE  Saved(s, r.index, left)
<1> DEFINE li == r.index
           d == r.dr
           nd == [d EXCEPT !.annot = IF @ = "blank" THEN "plain" ELSE @, !.current = TRUE]
           f == [manifests |-> li.manifests, converted |-> d.annot = "converted"]
<1>0. DrTypes(d) /\ Savable(li, d) /\ (~LoadFails => HasTags(li.manifests, left))
  BY DEF CanSave
<1>1. s = [r EXCEPT !.err = FALSE,
                    !.file = [manifests |-> r.index.manifests, converted |-> r.dr.annot = "converted"],
                    !.dr.annot = IF @ = "blank" THEN "plain" ELSE @, !.dr.current = TRUE]
  BY DEF Saves
<1>2. /\ s.index = li /\ s.dr = nd /\ s.file = f /\ ~s.err /\ IsOutcome(s)
  <2>1. DOMAIN r = {"index", "dr", "file", "err", "stuck"} /\ ~r.stuck
    BY DEF CanSave, IsOutcome
  <2>2. s = [r EXCEPT !.err = FALSE, !.file = f,
                      !.dr.annot = IF @ = "blank" THEN "plain" ELSE @, !.dr.current = TRUE]
    BY <1>1
  <2> HIDE DEF f
  <2>3. /\ s.index = li /\ s.file = f /\ s.err = FALSE /\ s.stuck = r.stuck
        /\ DOMAIN s = {"index", "dr", "file", "err", "stuck"}
    BY <2>1, <2>2
  <2>4. s.dr = nd
    BY <1>0, <2>1, <2>2 DEF DrTypes
  <2> QED BY <2>1, <2>3, <2>4 DEF IsOutcome
<1> HIDE DEF li, d
<1>3. /\ DrTypes(nd) /\ nd.annot # "blank" /\ nd.current
      /\ nd.annot = "converted" <=> d.annot = "converted"
  BY <1>0 DEF DrTypes
<1>4. f \in IndexFiles /\ f # None
  <2>1. f \in IndexFiles
    BY <1>0 DEF IndexFiles, Savable, Layouts, Descriptors
  <2> QED BY <2>1, NoneIsNoFile
<1>5. f.manifests = li.manifests /\ (f.converted <=> d.annot = "converted")
  OBVIOUS
<1> HIDE DEF nd, f
<1>6. Loadable(f)
  <2>1. ~f.converted => Settled(f.manifests)
    BY <1>0, <1>5 DEF Savable, Settled
  <2> QED BY <1>0, <1>4, <1>5, <2>1 DEF Loadable, Savable
<1>7. Savable(li, nd)
  BY <1>0, <1>3 DEF Savable
<1>9. Agree(li, nd, f, left)
  BY <1>0, <1>3, <1>4, <1>5, <1>6, <1>7 DEF Agree
<1> QED BY <1>2, <1>3, <1>4, <1>5, <1>9 DEF Saved, li
\* index.json is about to be read for the first time, with fallback tags.
FirstRead == dr.annot = "blank" /\ file # None /\ ~file.converted /\ OneList(file.manifests)

\* Whatever comes of a load, index.json and what is in memory agree.
LEMMA LoadIs ==
  ASSUME blobs \subseteq DirDigests, IsFiniteSet(blobs), ~SaveFails, Agree(index, dr, file, acked),
         NEW force \in BOOLEAN, NEW l \in Loads(force)
  PROVE  /\ Agree(l.index, l.dr, l.file, acked)
         /\ IsOutcome(l) /\ l.dr.annot # "blank"
         /\ force /\ ~l.err => l.dr.current /\ l.file # None
         /\ FirstRead /\ ~LoadFails => Converts(file.manifests, l.index.manifests)
<1> DEFINE same == Result(index, dr, file)
           nd == [dr EXCEPT !.annot = IF @ = "blank" THEN "converted" ELSE @]
           failed == [same EXCEPT !.err = TRUE, !.dr.annot = IF @ = "blank" THEN "converted" ELSE @]
           late == [nd EXCEPT !.recent = TRUE]
<1>1. DrTypes(dr) /\ Savable(index, dr) /\ (dr.annot = "blank" => ~dr.current /\ ~dr.recent)
  BY DEF Agree
<1>2. /\ same.index = index /\ same.dr = dr /\ same.file = file /\ ~same.err /\ IsOutcome(same)
      /\ failed.index = index /\ failed.dr = nd /\ failed.file = file /\ failed.err /\ IsOutcome(failed)
  BY DEF Result, IsOutcome
<1>3. /\ DrTypes(nd) /\ nd.annot # "blank" /\ nd.current = dr.current /\ nd.recent = dr.recent
      /\ dr.annot # "blank" => nd = dr
  BY <1>1 DEF DrTypes
<1>4. /\ DrTypes(late) /\ late.annot = nd.annot /\ late.current = nd.current
  BY <1>3 DEF DrTypes
<1>5. Savable(index, nd) /\ Savable(index, late)
  BY <1>1, <1>3, <1>4 DEF Savable, EmptyIndex, Agree, ToSet
<1>6. ASSUME file = None \/ LoadFails, NEW d \in {nd, late}
      PROVE  Agree(index, d, file, acked) /\ d.annot # "blank"
  <2> HIDE DEF nd, late
  <2>1. DrTypes(d) /\ Savable(index, d) /\ d.annot # "blank" /\ d.current = dr.current
    BY <1>3, <1>4, <1>5
  <2>2. d.current => d.annot = dr.annot
    BY <1>1, <1>3, <1>4
  <2> QED BY <1>6, <2>1, <2>2 DEF Agree
<1>7. CASE l = same /\ dr.recent /\ ~force
  BY <1>1, <1>2, <1>7 DEF FirstRead
<1>8. CASE l = failed /\ (file = None \/ LoadFails)
  <2> HIDE DEF failed, nd, late
  <2>1. l.index = index /\ l.dr = nd /\ l.file = file /\ l.err /\ IsOutcome(l)
    BY <1>2, <1>8
  <2> QED BY <1>6, <1>8, <2>1 DEF FirstRead
<1>9. CASE l = [failed EXCEPT !.dr.recent = TRUE] /\ LoadFails
  <2> DEFINE slow == [failed EXCEPT !.dr.recent = TRUE]
  <2>1. slow.index = index /\ slow.dr = late /\ slow.file = file /\ slow.err /\ IsOutcome(slow)
    BY DEF Result, IsOutcome
  <2> HIDE DEF failed, slow, nd, late
  <2>2. l = slow
    BY <1>9 DEF slow
  <2> QED BY <1>6, <1>9, <2>1, <2>2
<1>10. CASE l = [same EXCEPT !.dr.recent = TRUE] /\ dr.current /\ file # None
  <2> DEFINE nr == [dr EXCEPT !.recent = TRUE]
             read == [same EXCEPT !.dr.recent = TRUE]
  <2>1. /\ read.index = index /\ read.dr = nr /\ read.file = file /\ ~read.err /\ IsOutcome(read)
        /\ DrTypes(nr) /\ nr.annot = dr.annot /\ nr.current = dr.current
    BY <1>1 DEF Result, IsOutcome, DrTypes
  <2>2. l = read
    BY <1>10
  <2> HIDE DEF nr, read
  <2>3. Savable(index, nr) /\ dr.annot # "blank"
    BY <1>1, <1>10, <2>1 DEF Savable
  <2>4. Agree(index, nr, file, acked)
    BY <1>10, <2>1, <2>3 DEF Agree
  <2> QED BY <1>10, <2>1, <2>2, <2>3, <2>4 DEF FirstRead
<1>11. CASE l \in Ingests /\ file # None
  <2> DEFINE loaded == [dr EXCEPT !.exists = TRUE, !.current = TRUE, !.recent = TRUE,
                                  !.annot = "converted"]
             ms == file.manifests
  <2>1. DrTypes(loaded) /\ loaded.annot = "converted" /\ loaded.current
    BY <1>1 DEF DrTypes
  <2>2. Loadable(file) /\ (~LoadFails => HasTags(ms, acked))
    BY <1>11 DEF Agree
  <2>3. PICK kids \in Seq(DirDigests) :
          \/ file.converted /\ l = Result([manifests |-> ms, children |-> kids], loaded, file)
          \/ /\ ~file.converted
             /\ \E li \in Layouts(DirDigests, Tags) :
                  /\ Sound(li.manifests) /\ SameTags(li.manifests, ms)
                  /\ OneList(ms) => Converts(ms, li.manifests)
                  /\ l \in Saves(Result(li, loaded, file))
    BY <1>1, <1>11, <2>2, IngestIs, Zenon
  <2> HIDE DEF loaded
  <2>4. CASE file.converted /\ l = Result([manifests |-> ms, children |-> kids], loaded, file)
    <3> DEFINE li == [manifests |-> ms, children |-> kids]
    <3>1. l.index = li /\ l.dr = loaded /\ l.file = file /\ ~l.err /\ IsOutcome(l)
      BY <2>4 DEF Result, IsOutcome
    <3>2. Savable(li, loaded) /\ li.manifests = file.manifests
      BY <2>1, <2>2 DEF Savable, Loadable, Layouts, IndexFiles, Descriptors
    <3> HIDE DEF li
    <3>3. Agree(li, loaded, file, acked)
      BY <1>11, <2>1, <2>2, <2>4, <3>2 DEF Agree
    <3> QED BY <1>11, <2>1, <2>4, <3>1, <3>3 DEF FirstRead
  <2>5. ASSUME NEW li \in Layouts(DirDigests, Tags), Sound(li.manifests), SameTags(li.manifests, ms),
               OneList(ms) => Converts(ms, li.manifests),
               l \in Saves(Result(li, loaded, file))
        PROVE  /\ Agree(l.index, l.dr, l.file, acked)
               /\ OneList(ms) => Converts(ms, l.index.manifests)
               /\ IsOutcome(l) /\ l.dr.annot # "blank" /\ l.dr.current /\ l.file # None
    <3>1. Savable(li, loaded)
      BY <2>1, <2>2, <2>5 DEF Savable, Loadable, Needed, SameTags
    <3>2. ~LoadFails => HasTags(li.manifests, acked)
      BY <2>2, <2>5 DEF HasTags, SameTags
    <3> HIDE DEF ms
    <3>3. CanSave(Result(li, loaded, file), acked)
      BY <2>1, <3>1, <3>2 DEF CanSave, Result, IsOutcome
    <3>4. Saved(l, Result(li, loaded, file).index, acked) /\ Result(li, loaded, file).index = li
      BY <2>5, <3>3, SaveIs DEF Result
    <3> QED BY <2>5, <3>4 DEF Saved
  <2> QED BY <2>3, <2>4, <2>5 DEF FirstRead
<1>12. \/ l = same /\ dr.recent /\ ~force
       \/ l = failed /\ (file = None \/ LoadFails)
       \/ l = [failed EXCEPT !.dr.recent = TRUE] /\ LoadFails
       \/ l = [same EXCEPT !.dr.recent = TRUE] /\ dr.current /\ file # None
       \/ l \in Ingests /\ file # None
  BY Zenon DEF Loads
<1> QED BY <1>7, <1>8, <1>9, <1>10, <1>11, <1>12

\* An index without entries can be saved.
LEMMA EmptyIsSavable == \A d : EmptyIndex.manifests = <<>> /\ Savable(EmptyIndex, d)
<1>1. EmptyIndex.manifests = <<>> /\ EmptyIndex \in Layouts(DirDigests, Tags)
  BY DEF EmptyIndex, Layouts
<1>2. Sound(<<>>) /\ Needed(<<>>) /\ \A e \in ToSet(<<>>) : e.tag \notin FallbackTags
  BY DEF Sound, OneTag, OneResponse, OneAnnotation, PlainAlone, Needed, ToSet
<1> QED BY <1>1, <1>2 DEF Savable

\* To have index.json read again changes nothing else.
LEMMA UncurrentOn ==
  ASSUME NEW li, NEW d, NEW f, NEW left, Agree(li, d, f, left)
  PROVE  Agree(li, [d EXCEPT !.current = FALSE], f, left)
<1> DEFINE nd == [d EXCEPT !.current = FALSE]
<1>1. DrTypes(nd) /\ ~nd.current /\ nd.annot = d.annot /\ nd.recent = d.recent
  BY DEF Agree, DrTypes
<1> HIDE DEF nd
<1>2. Savable(li, nd)
  BY <1>1 DEF Agree, Savable
<1>3. Agree(li, nd, f, left)
  BY <1>1, <1>2 DEF Agree
<1> QED BY <1>3 DEF nd

\* So a call ends that has put a file into the directory.
LEMMA TouchedIs ==
  ASSUME NEW r, IsOutcome(r)
  PROVE  /\ Touched(r).index = r.index /\ Touched(r).file = r.file
         /\ Touched(r).dr = [r.dr EXCEPT !.current = FALSE]
BY DEF Touched, IsOutcome

\* Without a failure repoInit leaves an index.json that agrees, too.
LEMMA InitsAre ==
  ASSUME ~SaveFails, Agree(index, dr, file, acked), NEW i \in Inits
  PROVE  /\ Agree(i.res.index, i.res.dr, i.res.file, acked)
         /\ Agree(i.res.index, [i.res.dr EXCEPT !.current = FALSE], i.res.file, acked)
         /\ IsOutcome(i.res) /\ ~i.res.err
         /\ i.res.file = file \/ (file = None /\ i.res.dr.annot # "blank")
<1>2. ASSUME NEW r, Agree(r.index, r.dr, r.file, acked)
      PROVE  Agree(r.index, [r.dr EXCEPT !.exists = TRUE], r.file, acked)
  <2> DEFINE nd == [r.dr EXCEPT !.exists = TRUE]
  <2>1. /\ DrTypes(nd) /\ nd.current = r.dr.current
        /\ nd.annot = r.dr.annot /\ nd.recent = r.dr.recent
    BY <1>2 DEF Agree, DrTypes
  <2> HIDE DEF nd
  <2>2. Savable(r.index, nd)
    BY <1>2, <2>1 DEF Agree, Savable
  <2>3. Agree(r.index, nd, r.file, acked)
    BY <1>2, <2>1, <2>2 DEF Agree
  <2> QED BY <2>3 DEF nd
<1> DEFINE same == Result(index, dr, file)
<1>3. Agree(same.index, same.dr, same.file, acked) /\ IsOutcome(same) /\ ~same.err /\ same.file = file
  BY DEF Result, IsOutcome
<1>4. CASE dr.exists
  <2>1. i.res = same
    BY <1>4 DEF Inits
  <2> HIDE DEF same
  <2> QED BY <1>3, <2>1, UncurrentOn
<1>5. CASE ~dr.exists
  <2> DEFINE ready(r) == [r EXCEPT !.dr.exists = TRUE]
             from == IF file = None THEN Saves(same) ELSE {same}
  <2>0. Inits = {[layout |-> "valid", res |-> IF s.err THEN s ELSE ready(s)] : s \in from}
    BY <1>5, Zenon DEF Inits
  <2>1. PICK s : /\ IF file = None THEN s \in Saves(same) ELSE s = same
                 /\ i.res = IF s.err THEN s ELSE ready(s)
    <3> HIDE DEF same, ready
    <3> QED BY <2>0
  <2>2. /\ Agree(s.index, s.dr, s.file, acked) /\ IsOutcome(s) /\ ~s.err
        /\ s.file = file \/ (file = None /\ s.dr.annot # "blank")
    <3>1. CASE file = None
      <4>1. CanSave(same, acked)
        BY <3>1 DEF CanSave, Agree, Result, IsOutcome
      <4> HIDE DEF same
      <4>2. Saved(s, same.index, acked)
        BY <2>1, <3>1, <4>1, SaveIs
      <4> QED BY <3>1, <4>2 DEF Saved
    <3>2. CASE file # None
      <4>1. s = same
        BY <2>1, <3>2
      <4> QED BY <1>3, <4>1
    <3> QED BY <3>1, <3>2
  <2> DEFINE r == [s EXCEPT !.dr.exists = TRUE]
  <2>3. i.res = r
    BY <2>1, <2>2
  <2>4. /\ r.index = s.index /\ r.file = s.file /\ ~r.err /\ r.dr = [s.dr EXCEPT !.exists = TRUE]
        /\ IsOutcome(r) /\ r.dr.annot = s.dr.annot
    BY <2>2 DEF IsOutcome, Agree, DrTypes
  <2> HIDE DEF r
  <2>5. Agree(r.index, r.dr, r.file, acked)
    BY <1>2, <2>2, <2>4
  <2> QED BY <2>2, <2>3, <2>4, <2>5, UncurrentOn
<1> QED BY <1>4, <1>5

-----------------------------------------------------------------------------
(* IndexInsert and IndexRemove *)

\* A change leaves an index that can be saved, with the tags that the client is told.
LEMMA ChangedIs ==
  ASSUME NEW li, NEW d, Savable(li, d), NEW q, RequestFits(q)
  PROVE  /\ Savable(Changed(li, q), d)
         /\ HasTags(li.manifests, acked) => HasTags(Changed(li, q).manifests, Acknowledged(q))
         /\ \A s, x : s # None /\ x \in DirDigests \ Manifests /\ Answered(ToSet(li.manifests), s, x) =>
               Answered(ToSet(Changed(li, q).manifests), s, x)
<1> DEFINE e == q.entry
           r == Changed(li, q)
           members == IF IsIndex(e.dig) THEN Parsed(e.dig).refs ELSE <<>>
<1>1. /\ None \notin DirDigests /\ None \notin Tags
      /\ li \in Layouts(DirDigests, Tags) /\ Sound(li.manifests) /\ Needed(li.manifests)
  BY DirParsedIs DEF Savable
<1>2. /\ e \in Descriptors(DirDigests, Tags) /\ e.subj = None /\ e.dig \in DirDigests
      /\ e.tag \in (Tags \ FallbackTags) \union {None}
  BY DEF RequestFits, Descriptors
<1>3. \A x \in ToSet(li.manifests) :
        /\ x.tag # None => x.dig \in blobs /\ (~IsIndex(x.dig) => Refs(x.dig) \subseteq blobs)
        /\ d.annot # "converted" => x.tag \notin FallbackTags
  BY DEF Savable, Needed
<1>4. ASSUME r \in Layouts(DirDigests, Tags), Sound(r.manifests),
             \A x \in ToSet(r.manifests) : x \in ToSet(li.manifests) \/ x = e \/ Plain(x),
             q.op = "put" \/ \A x \in ToSet(r.manifests) : x \in ToSet(li.manifests) \/ Plain(x)
      PROVE  Savable(r, d)
  <2>1. None \notin FallbackTags /\ e.tag \notin FallbackTags
    BY <1>1, <1>2, DirRepoType
  <2>2. q.op = "put" => e.dig \in blobs /\ Refs(e.dig) \subseteq blobs
    BY DEF RequestFits
  <2> HIDE DEF r, e
  <2>3. Needed(r.manifests)
    BY <1>3, <1>4, <2>2 DEF Needed, Plain
  <2>4. d.annot # "converted" => \A x \in ToSet(r.manifests) : x.tag \notin FallbackTags
    BY <1>3, <1>4, <2>1 DEF Plain
  <2> QED BY <1>4, <2>3, <2>4 DEF Savable
<1>5. ASSUME HasTags(li.manifests, acked), NEW t \in Tags \ FallbackTags
      PROVE  t # None /\ Names(ToSet(li.manifests), t, acked[t])
  BY <1>1, <1>5 DEF HasTags
<1>6. CASE q.op = "put"
  <2>1. members \in Seq(DirDigests)
    <3>1. Parsed(e.dig).refs \in Seq(Blobs \union Manifests) /\ Blobs \union Manifests \subseteq DirDigests
      BY <1>2, DirParsedIs
    <3> HIDE DEF e
    <3> QED BY <3>1
  <2>2. r = AddDesc(li, e, members)
    BY <1>6 DEF Changed
  <2> HIDE DEF r, e, members
  <2>3. r \in Layouts(DirDigests, Tags) /\ Sound(r.manifests) /\ Added(r, li, e)
    BY <1>1, <1>2, <2>1, <2>2, AddDescIs
  <2>4. Descends(r, li, e)
    BY <1>1, <1>2, <2>1, <2>2, AddDescDescends
  <2>5. Savable(r, d)
    BY <1>4, <1>6, <2>3, <2>4 DEF Descends
  <2>6. ASSUME HasTags(li.manifests, acked) PROVE HasTags(r.manifests, Acknowledged(q))
    <3> SUFFICES ASSUME NEW t \in Tags \ FallbackTags
                 PROVE  Names(ToSet(r.manifests), t, Acknowledged(q)[t])
      BY DEF HasTags
    <3>1. Acknowledged(q)[t] = IF t = e.tag THEN e.dig ELSE acked[t]
      BY <1>6 DEF Acknowledged, e
    <3> QED BY <1>5, <2>3, <2>6, <3>1 DEF Added, TagsStay
  <2>7. \A s, x : s # None /\ Answered(ToSet(li.manifests), s, x) => Answered(ToSet(r.manifests), s, x)
    BY <1>2, <2>3 DEF Added, ResponsesStay
  <2> QED BY <2>5, <2>6, <2>7 DEF r
<1>7. CASE q.op = "delete" /\ e.tag # None
  <2>1. r = RmDesc(li, e) /\ RmDesc(li, e) = RmTag(li, e)
    BY <1>7 DEF Changed, RmDesc
  <2> HIDE DEF r, e
  <2>2. r \in Layouts(DirDigests, Tags) /\ Sound(r.manifests) /\ TagRemoved(r, li, e)
    BY <1>1, <1>2, <1>7, <2>1, RmTagIs
  <2>3. Remains(r, li)
    BY <1>1, <1>2, <2>1, RmDescRemains
  <2>4. Savable(r, d)
    BY <1>4, <2>2, <2>3 DEF Remains
  <2>5. ASSUME HasTags(li.manifests, acked) PROVE HasTags(r.manifests, Acknowledged(q))
    <3> SUFFICES ASSUME NEW t \in Tags \ FallbackTags
                 PROVE  Names(ToSet(r.manifests), t, Acknowledged(q)[t])
      BY DEF HasTags
    <3>1. Acknowledged(q)[t] = IF t = e.tag THEN AfterRemoval(acked[t], e.dig) ELSE acked[t]
      BY <1>7 DEF Acknowledged, AfterRemoval, e
    <3> QED BY <1>5, <2>2, <2>5, <3>1 DEF TagRemoved, TagsStay
  <2>6. \A s, x : s # None /\ Answered(ToSet(li.manifests), s, x) => Answered(ToSet(r.manifests), s, x)
    BY <2>2 DEF TagRemoved, ResponsesStay
  <2> QED BY <2>4, <2>5, <2>6 DEF r
<1>8. CASE q.op = "delete" /\ e.tag = None
  <2>1. r = RmDesc(li, e) /\ RmDesc(li, e) = RmDigest(li, e.dig)
    BY <1>8 DEF Changed, RmDesc
  <2> HIDE DEF r, e
  <2>2. r \in Layouts(DirDigests, Tags) /\ Sound(r.manifests) /\ DigestRemoved(r, li, e.dig)
    BY <1>1, <1>2, <2>1, RmDigestIs
  <2>3. Remains(r, li)
    BY <1>1, <1>2, <2>1, RmDescRemains
  <2>4. Savable(r, d)
    BY <1>4, <2>2, <2>3 DEF Remains
  <2>5. ASSUME HasTags(li.manifests, acked) PROVE HasTags(r.manifests, Acknowledged(q))
    <3> SUFFICES ASSUME NEW t \in Tags \ FallbackTags
                 PROVE  Names(ToSet(r.manifests), t, Acknowledged(q)[t])
      BY DEF HasTags
    <3>1. Acknowledged(q)[t] = AfterRemoval(acked[t], e.dig)
      BY <1>8 DEF Acknowledged, AfterRemoval, e
    <3> QED BY <1>5, <2>2, <2>5, <3>1 DEF DigestRemoved
  <2>6. \A s, x : s # None /\ x \in DirDigests \ Manifests /\ Answered(ToSet(li.manifests), s, x) =>
          Answered(ToSet(r.manifests), s, x)
    <3>1. e.dig \in Manifests
      BY <1>8 DEF RequestFits, e
    <3> QED BY <2>2, <3>1 DEF DigestRemoved, AfterRemoval
  <2> QED BY <2>4, <2>5, <2>6 DEF r
<1> QED BY <1>6, <1>7, <1>8 DEF RequestFits

-----------------------------------------------------------------------------
(* What a step leaves of the invariant *)

\* Nothing comes into the directory but what has no subject.
More ==
  \/ blobs' = blobs
  \/ \E b \in Blobs \union Manifests : Parsed(b).subj = None /\ blobs' = blobs \union {b}

LEMMA MoreIs ==
  ASSUME DirIInv, More
  PROVE  /\ blobs' \subseteq DirDigests /\ IsFiniteSet(blobs') /\ blobs \subseteq blobs'
         /\ \A d : Referring(d)' = Referring(d)
<1>1. /\ blobs \subseteq blobs' /\ blobs' \subseteq DirDigests
      /\ \A b \in blobs' : b \in blobs \/ Parsed(b).subj = None
  BY DirParsedIs DEF DirIInv, More
<1>2. IsFiniteSet(blobs')
  BY FS_AddElement DEF DirIInv, More
<1>3. ASSUME NEW d PROVE Referring(d)' = Referring(d)
  <2>1. {m \in Refs(d) \intersect blobs' : Parsed(m).subj # None}
          = {m \in Refs(d) \intersect blobs : Parsed(m).subj # None}
    BY <1>1
  <2> QED BY <2>1, Zenon DEF Referring
<1> QED BY <1>1, <1>2, <1>3

LEMMA AgreeOn ==
  ASSUME DirIInv, More, Agree(index', dr', file', acked')
  PROVE  Agree(index, dr, file, acked)'
<1>1. blobs \subseteq blobs' /\ \A d : Referring(d)' = Referring(d)
  BY MoreIs
<1>2. ASSUME NEW ms, Needed(ms) PROVE Needed(ms)'
  BY <1>1, <1>2 DEF Needed
<1>3. ASSUME NEW d PROVE SubjectsOf(d)' = SubjectsOf(d) /\ (ValidReferrer(d)' <=> ValidReferrer(d))
  BY <1>1, Zenon DEF SubjectsOf, ValidReferrer
<1>4. ASSUME NEW ms, Settled(ms) PROVE Settled(ms)'
  <2>1. ASSUME NEW li, NEW e PROVE Convertible(li, e) => Convertible(li, e)'
    BY <1>3 DEF Convertible
  <2> QED BY <1>3, <1>4, <2>1 DEF Settled
<1>5. ASSUME NEW li, NEW d, Savable(li, d) PROVE Savable(li, d)'
  BY <1>2, <1>5 DEF Savable
<1>6. ASSUME NEW f, Loadable(f) PROVE Loadable(f)'
  BY <1>2, <1>4, <1>6 DEF Loadable
<1> QED BY <1>5, <1>6 DEF Agree

\* A call that ends.
LEMMA CallOn ==
  ASSUME DirIInv, More, Agree(index', dr', file', acked'), sessions' \subseteq Blobs,
         \A q \in requests' : q \in requests \/ RequestFits(q)', gcPhase' = "idle"
  PROVE  DirIInv'
<1>1. Agree(index, dr, file, acked)'
  BY AgreeOn
<1>2. blobs' \subseteq DirDigests /\ IsFiniteSet(blobs') /\ blobs \subseteq blobs'
  BY MoreIs
<1>3. \A q \in requests' : RequestFits(q)'
  BY <1>2 DEF DirIInv, RequestFits
<1>4. Phases'
  BY DEF Phases
<1> QED BY <1>1, <1>2, <1>3, <1>4 DEF DirIInv

\* What happens in the middle of a collection.
LEMMA BesideOn ==
  ASSUME DirIInv, More, UNCHANGED <<index, file, requests, gc, acked>>,
         dr' \in {dr, [dr EXCEPT !.recent = FALSE]}, sessions' \subseteq Blobs
  PROVE  DirIInv'
<1>1. DrTypes(dr) /\ Savable(index, dr)
  BY DEF DirIInv, Agree
<1>2. /\ DrTypes(dr') /\ dr'.annot = dr.annot /\ dr'.current = dr.current
      /\ dr'.recent => dr.recent
  BY <1>1 DEF DrTypes
<1>3. Savable(index, dr')
  BY <1>1, <1>2 DEF Savable
<1>4. Agree(index', dr', file', acked')
  BY <1>2, <1>3 DEF DirIInv, Agree
<1>5. Agree(index, dr, file, acked)'
  BY <1>4, AgreeOn
<1>6. blobs' \subseteq DirDigests /\ IsFiniteSet(blobs') /\ blobs \subseteq blobs'
  BY MoreIs
<1>7. \A q \in requests' : RequestFits(q)'
  BY <1>6 DEF DirIInv, RequestFits
<1>8. Phases'
  BY <1>2, <1>6 DEF DirIInv, Phases, gc, Entries
<1> QED BY <1>5, <1>6, <1>7, <1>8 DEF DirIInv

-----------------------------------------------------------------------------
(* The steps *)

LEMMA InitDirIInv == DirInit /\ FoundWell => DirIInv
<1> SUFFICES ASSUME DirInit, FoundWell PROVE DirIInv
  OBVIOUS
<1>1. PICK s \in Directories : layout = s.layout /\ file = s.file /\ blobs = s.blobs
  BY DEF DirInit
<1>2. blobs \subseteq DirDigests /\ IsFiniteSet(blobs) /\ sessions \subseteq Blobs
  BY <1>1, DirRepoType DEF DirInit
<1>3. /\ DrTypes(dr) /\ dr.annot = "blank" /\ ~dr.current /\ ~dr.recent
      /\ index = EmptyIndex /\ requests = {} /\ gcPhase = "idle"
  BY DEF DirInit, Opened, DrTypes
<1>4. Savable(index, dr) /\ index.manifests = <<>>
  BY <1>3, EmptyIsSavable
<1>5. HasTags(IF file = None THEN <<>> ELSE file.manifests, acked)
  <2> SUFFICES ASSUME NEW t \in Tags \ FallbackTags
               PROVE  Names(ToSet(IF file = None THEN <<>> ELSE file.manifests), t, acked[t])
    BY DEF HasTags
  <2>1. CASE file = None
    <3>1. acked[t] = None
      BY <2>1 DEF DirInit
    <3> QED BY <2>1, <3>1 DEF Names, ToSet
  <2>2. CASE file # None
    <3> DEFINE li == [manifests |-> file.manifests, children |-> <<>>]
    <3>1. acked[t] = Resolve(li, t)
      BY <2>2 DEF DirInit
    <3>2. li.manifests = file.manifests /\ li.manifests \in Seq(Descriptors(DirDigests, Tags)) /\ Sound(li.manifests)
      BY <2>2 DEF FoundWell, Loadable, IndexFiles, Descriptors
    <3>3. t \in Tags /\ None \notin DirDigests /\ None \notin Tags
      BY DirParsedIs
    <3> HIDE DEF li
    <3>4. Names(ToSet(li.manifests), t, Resolve(li, t))
      BY <3>2, <3>3, ResolveIs
    <3> QED BY <2>2, <3>1, <3>2, <3>4
  <2> QED BY <2>1, <2>2
<1>6. Agree(index, dr, file, acked)
  BY <1>3, <1>4, <1>5 DEF Agree, FoundWell
<1>7. Phases /\ \A q \in requests : RequestFits(q)
  BY <1>3 DEF Phases
<1> QED BY <1>2, <1>6, <1>7 DEF DirIInv

\* Uploads, and what the world does, at any time.
LEMMA BesideStep ==
  ASSUME DirIInv,
         \/ \E b \in Blobs : UploadClose(b) \/ UploadCancel(b)
         \/ Elapse \/ \E d \in fresh : AgeFile(d)
  PROVE  DirIInv'
<1>1. ASSUME NEW b \in Blobs, UploadClose(b) PROVE DirIInv'
  <2>1. More
    BY <1>1, DirParsedIs DEF UploadClose, Store, More
  <2> QED BY <1>1, <2>1, BesideOn DEF UploadClose, DirIInv, dir
<1>2. ASSUME NEW b \in Blobs, UploadCancel(b) PROVE DirIInv'
  BY <1>2, BesideOn DEF UploadCancel, DirIInv, dir, More
<1>3. ASSUME Elapse PROVE DirIInv'
  BY <1>3, BesideOn DEF Elapse, DirIInv, dir, More
<1>4. ASSUME NEW d \in fresh, AgeFile(d) PROVE DirIInv'
  BY <1>4, BesideOn DEF AgeFile, DirIInv, dir, More
<1> QED BY <1>1, <1>2, <1>3, <1>4

\* The start and the end of an upload, and a PUT's manifest.
LEMMA StoreStep ==
  ASSUME DirIInv, ~SaveFails,
         \/ \E b \in Blobs : UploadStart(b)
         \/ UploadEnded
         \/ \E p \in Pushes : StoreManifest(p[1], p[2])
  PROVE  DirIInv'
<1>0. Agree(index, dr, file, acked) /\ sessions \subseteq Blobs
  BY DEF DirIInv
<1>1. ASSUME NEW b \in Blobs, UploadStart(b) PROVE DirIInv'
  <2>1. PICK i \in Inits :
          /\ layout' = i.layout
          /\ IF i.res.err THEN Apply(i.res) /\ UNCHANGED sessions
             ELSE Apply(Touched(i.res)) /\ sessions' = sessions \union {b}
    BY <1>1 DEF UploadStart
  <2>2. IsOutcome(i.res) /\ ~i.res.err
    BY <1>0, InitsAre
  <2>3. Agree(i.res.index, [i.res.dr EXCEPT !.current = FALSE], i.res.file, acked)
    BY <1>0, InitsAre
  <2>4. index' = i.res.index /\ dr' = [i.res.dr EXCEPT !.current = FALSE] /\ file' = i.res.file
    BY <2>1, <2>2, TouchedIs DEF Apply
  <2>5. UNCHANGED <<blobs, requests, gcPhase, acked>> /\ gcPhase = "idle" /\ sessions' \subseteq Blobs
    BY <1>0, <1>1, <2>1, <2>2 DEF UploadStart, gc, Free
  <2> QED BY <2>3, <2>4, <2>5, CallOn DEF More
<1>2. ASSUME UploadEnded PROVE DirIInv'
  <2>1. Agree(index, [dr EXCEPT !.current = FALSE], file, acked)
    BY <1>0, UncurrentOn
  <2> QED BY <1>0, <1>2, <2>1, CallOn DEF UploadEnded, dir, gc, Free, More
<1>3. ASSUME NEW p \in Pushes, StoreManifest(p[1], p[2]) PROVE DirIInv'
  <2> DEFINE m == p[1]
             t == p[2]
             put == [op |-> "put", entry |-> Entry(m, t, None)]
  <2>1. /\ m \in Manifests /\ Content[m].subj = None /\ Parsed(m) = Content[m] /\ m \in DirDigests
        /\ t \in (Tags \ FallbackTags) \union {None}
    <3>1. p \in {x \in Manifests : Content[x].subj = None} \X ((Tags \ FallbackTags) \union {None})
      BY DirRepoType
    <3> QED BY <3>1, DirParsedIs
  <2> HIDE DEF m, t
  <2>2. PICK i \in Inits :
          /\ layout' = i.layout
          /\ IF i.res.err
             THEN Apply(i.res) /\ UNCHANGED <<blobs, fresh, requests>>
             ELSE /\ requests' = requests \union {put}
                  /\ IF m \in blobs THEN Apply(i.res) /\ UNCHANGED <<blobs, fresh>>
                     ELSE Apply(Touched(i.res)) /\ Store(m)
    BY <1>3, Zenon DEF StoreManifest, m, t
  <2>3. IsOutcome(i.res) /\ ~i.res.err
    BY <1>0, InitsAre
  <2>4. /\ Agree(i.res.index, [i.res.dr EXCEPT !.current = FALSE], i.res.file, acked)
        /\ Agree(i.res.index, i.res.dr, i.res.file, acked)
    BY <1>0, InitsAre
  <2>5. /\ index' = i.res.index /\ file' = i.res.file
        /\ dr' = i.res.dr \/ dr' = [i.res.dr EXCEPT !.current = FALSE]
        /\ blobs' = blobs \union {m}
    BY <2>2, <2>3, TouchedIs DEF Apply, Store
  <2>6. UNCHANGED <<sessions, gcPhase, acked>> /\ gcPhase = "idle"
    BY <1>3 DEF StoreManifest, gc, Free
  <2>7. RequestFits(put)'
    <3>1. Refs(m) \subseteq blobs
      BY <1>3 DEF StoreManifest, Verifies, m
    <3>2. put.op = "put" /\ put.entry = Entry(m, t, None)
      OBVIOUS
    <3>3. put.entry.dig = m /\ put.entry.tag = t /\ put.entry.subj = None
      BY <3>2 DEF Entry
    <3>4. put.entry \in Descriptors(DirDigests, Tags \ FallbackTags)
      BY <2>1, <3>2 DEF Descriptors, Entry
    <3> HIDE DEF put
    <3> QED BY <2>1, <2>5, <3>1, <3>2, <3>3, <3>4 DEF RequestFits
  <2>8. \A q \in requests' : q \in requests \/ RequestFits(q)'
    <3>1. requests' = requests \union {put}
      BY <2>2, <2>3
    <3> HIDE DEF put
    <3> QED BY <2>7, <3>1
  <2>9. More
    BY <2>1, <2>5 DEF More
  <2> QED BY <1>0, <2>4, <2>5, <2>6, <2>8, <2>9, CallOn
<1> QED BY <1>1, <1>2, <1>3

\* Reads, and the calls that change the index.
LEMMA LoadStep ==
  ASSUME DirIInv, ~SaveFails,
         \/ IndexGet
         \/ \E t \in DeleteTags : DeleteFind(Entry(None, t, None))
         \/ \E d \in DeleteDigests : DeleteFind(Entry(d, None, None))
         \/ \E q \in requests : ChangeIndex(q)
  PROVE  DirIInv'
<1>0. Agree(index, dr, file, acked) /\ sessions \subseteq Blobs /\ blobs \subseteq DirDigests /\ IsFiniteSet(blobs)
  BY DEF DirIInv
<1>1. ASSUME NEW l \in Loads(FALSE)
      PROVE  Agree(l.index, l.dr, l.file, acked) /\ IsOutcome(l) /\ l.dr.annot # "blank"
  BY <1>0, LoadIs
<1>2. ASSUME IndexGet PROVE DirIInv'
  <2>1. PICK l \in Loads(FALSE) : Apply(l) /\ Unlock(l)
    BY <1>2 DEF IndexGet
  <2>2. Agree(index', dr', file', acked) /\ gcPhase' = "idle"
    BY <1>1, <2>1 DEF Apply, Unlock, IsOutcome
  <2> QED BY <1>0, <1>2, <2>2, CallOn DEF IndexGet, More
<1>3. ASSUME NEW e, DeleteFind(e),
             \/ e.tag = None /\ e.dig \in Manifests
             \/ e.tag \in Tags \ FallbackTags
      PROVE  DirIInv'
  <2> DEFINE Finds(l) == IF e.tag = None
                         THEN {Entry(d, None, None) : d \in {c \in {e.dig} : Found(l.index, c)}}
                         ELSE {Entry(d, e.tag, None) : d \in {Resolve(l.index, e.tag)} \ {None}}
  <2>1. PICK l \in Loads(FALSE) :
          /\ Apply(l) /\ Unlock(l)
          /\ requests' = IF l.stuck \/ (l.err /\ file # None) THEN requests
                         ELSE requests \union {[op |-> "delete", entry |-> f] : f \in Finds(l)}
    BY <1>3 DEF DeleteFind
  <2>2. Agree(index', dr', file', acked) /\ gcPhase' = "idle"
    BY <1>1, <2>1 DEF Apply, Unlock, IsOutcome
  <2>3. /\ None \notin DirDigests /\ None \notin Tags /\ Manifests \subseteq DirDigests
        /\ UNCHANGED <<blobs, sessions, acked>>
    BY <1>3, DirParsedIs DEF DeleteFind
  <2>4. ASSUME NEW f \in Finds(l)
        PROVE  /\ f \in Descriptors(DirDigests, Tags \ FallbackTags) /\ f.subj = None
               /\ f.tag # None \/ f.dig \in Manifests
    <3>1. CASE e.tag = None
      <4>1. f = Entry(e.dig, None, None)
        BY <2>4, <3>1
      <4>2. e.dig \in DirDigests /\ e.dig \in Manifests
        BY <1>3, <2>3, <3>1
      <4> QED BY <4>1, <4>2 DEF Entry, Descriptors
    <3>2. CASE e.tag # None
      <4>1. e.tag \in Tags \ FallbackTags
        BY <1>3, <3>2
      <4>2. f = Entry(Resolve(l.index, e.tag), e.tag, None) /\ Resolve(l.index, e.tag) # None
        BY <2>4, <3>2
      <4>3. l.index.manifests \in Seq(Descriptors(DirDigests, Tags)) /\ Sound(l.index.manifests)
        BY <1>1 DEF Agree, Savable, Layouts
      <4>4. Resolve(l.index, e.tag) \in DirDigests
        BY <2>3, <4>1, <4>2, <4>3, ResolveIs
      <4> QED BY <3>2, <4>1, <4>2, <4>4 DEF Entry, Descriptors
    <3> QED BY <3>1, <3>2
  <2> HIDE DEF Finds
  <2>5. \A q \in requests' : q \in requests \/ RequestFits(q)'
    <3>1. ASSUME NEW q, NEW f \in Finds(l), q = [op |-> "delete", entry |-> f]
          PROVE  RequestFits(q)'
      <4>1. q.op = "delete" /\ q.entry = f
        BY <3>1
      <4> QED BY <2>4, <4>1 DEF RequestFits
    <3> QED BY <2>1, <3>1
  <2> QED BY <1>0, <2>2, <2>3, <2>5, CallOn DEF More
<1>4. ASSUME NEW t \in DeleteTags, DeleteFind(Entry(None, t, None)) PROVE DirIInv'
  <2>1. Entry(None, t, None).tag \in Tags \ FallbackTags
    BY DirRepoType DEF Entry
  <2> QED BY <1>3, <1>4, <2>1
<1>5. ASSUME NEW d \in DeleteDigests, DeleteFind(Entry(d, None, None)) PROVE DirIInv'
  <2>1. Entry(d, None, None).tag = None /\ Entry(d, None, None).dig \in Manifests
    BY DirRepoType DEF Entry
  <2> QED BY <1>3, <1>5, <2>1
<1>6. ASSUME NEW q \in requests, ChangeIndex(q) PROVE DirIInv'
  <2>1. RequestFits(q)
    BY DEF DirIInv
  <2>2. PICK l \in Loads(FALSE) :
          IF l.stuck THEN Apply(l) /\ Unlock(l) /\ UNCHANGED acked
          ELSE \E s \in Saves([l EXCEPT !.index = Changed(l.index, q)]) :
                 /\ Apply(s) /\ Unlock(s)
                 /\ acked' = IF s.err THEN acked ELSE Acknowledged(q)
    BY <1>6 DEF ChangeIndex, LoadChangeSave
  <2>3. ~l.stuck
    BY <1>1 DEF IsOutcome
  <2> DEFINE r == [l EXCEPT !.index = Changed(l.index, q)]
  <2>4. PICK s \in Saves(r) :
          /\ Apply(s) /\ Unlock(s)
          /\ acked' = IF s.err THEN acked ELSE Acknowledged(q)
    BY <2>2, <2>3
  <2>5. CanSave(r, Acknowledged(q))
    <3>1. Savable(l.index, l.dr) /\ DrTypes(l.dr) /\ (~LoadFails => HasTags(l.index.manifests, acked))
      <4>1. Agree(l.index, l.dr, l.file, acked) /\ l.dr.annot # "blank"
        BY <1>1
      <4> QED BY <4>1 DEF Agree
    <3>2. /\ Savable(Changed(l.index, q), l.dr)
          /\ ~LoadFails => HasTags(Changed(l.index, q).manifests, Acknowledged(q))
      BY <2>1, <3>1, ChangedIs
    <3>3. r.index = Changed(l.index, q) /\ r.dr = l.dr /\ IsOutcome(r)
      BY <1>1 DEF IsOutcome
    <3> HIDE DEF r
    <3> QED BY <3>1, <3>2, <3>3 DEF CanSave
  <2> HIDE DEF r
  <2>6. Saved(s, r.index, Acknowledged(q))
    BY <2>5, SaveIs
  <2>7. Agree(index', dr', file', acked') /\ gcPhase' = "idle"
    BY <2>4, <2>6 DEF Saved, Apply, Unlock, IsOutcome
  <2>8. UNCHANGED <<blobs, sessions>> /\ requests' \subseteq requests
    BY <1>6 DEF ChangeIndex
  <2> QED BY <1>0, <2>7, <2>8, CallOn DEF More
<1> QED BY <1>2, <1>4, <1>5, <1>6

\* A new dirRepo.
LEMMA OpenStep ==
  ASSUME DirIInv, Reopen \/ Crash
  PROVE  DirIInv'
<1>1. PICK l : index' = EmptyIndex /\ dr' = Opened(l, file) /\ UNCHANGED <<blobs, file>>
  BY DEF Reopen, Crash, NewObject
<1>2. UNCHANGED acked /\ sessions' \subseteq Blobs /\ gcPhase' = "idle" /\ requests' \subseteq requests
  BY DEF Reopen, Crash, gc, Free, DirIInv
<1>3. DrTypes(dr') /\ dr'.annot = "blank" /\ ~dr'.current /\ ~dr'.recent
  BY <1>1 DEF Opened, DrTypes
<1>4. Savable(index', dr') /\ index'.manifests = <<>>
  BY <1>1, EmptyIsSavable
<1>5. Agree(index', dr', file', acked')
  BY <1>1, <1>2, <1>3, <1>4 DEF DirIInv, Agree
<1> QED BY <1>1, <1>2, <1>5, CallOn DEF More

\* What a collection walks to, and what is in it, is not garbage; its entries stay.
LEMMA WalkTakes ==
  ASSUME DirIInv
  PROVE  /\ Collected \in Layouts(DirDigests, Tags) /\ Sound(Collected.manifests)
         /\ ToSet(Collected.manifests) \subseteq Entries
         /\ \A e \in ToSet(Collected.manifests) : e.dig \in blobs \ Garbage
         /\ \A e \in Entries :
              e.tag # None =>
                /\ e \in ToSet(Collected.manifests)
                /\ ~IsIndex(e.dig) => Refs(e.dig) \intersect Garbage = {}
<1> DEFINE gone == Garbage \union (InIndex \ blobs)
           ms == index.manifests
           kept == {e \in ToSet(ms) : e.dig \notin gone}
<1>1. /\ index \in Layouts(DirDigests, Tags) /\ Sound(ms) /\ Needed(ms)
      /\ IsFiniteSet(blobs) /\ blobs \subseteq DirDigests
  BY DEF DirIInv, Agree, Savable
<1>2. ms \in Seq(Descriptors(DirDigests, Tags)) /\ index.children \in Seq(DirDigests)
  BY <1>1 DEF Layouts
<1>3. /\ Collected.manifests = Only(ms, kept)
      /\ Collected.children = Only(index.children, ToSet(index.children) \ gone)
      /\ Collected = [manifests |-> Collected.manifests, children |-> Collected.children]
  BY DEF Collected, RmDigests
<1> HIDE DEF gone
<1>4. Only(ms, kept) \in Seq(Descriptors(DirDigests, Tags)) /\ Sound(Only(ms, kept))
  <2> HIDE DEF ms, kept
  <2> QED BY <1>1, <1>2, OnlyIs, PartIsSound
<1>5. ToSet(Only(ms, kept)) = kept
  <2>1. ToSet(Only(ms, kept)) = ToSet(ms) \intersect kept
    <3> HIDE DEF ms, kept
    <3> QED BY <1>2, OnlyIs
  <2> QED BY <2>1
<1>6. Only(index.children, ToSet(index.children) \ gone) \in Seq(DirDigests)
  BY <1>2, OnlyIs
<1>7. Collected \in Layouts(DirDigests, Tags)
  BY <1>3, <1>4, <1>6 DEF Layouts
<1>8. \A e \in kept : e \in Entries /\ e.dig \in blobs \ Garbage
  BY DEF InIndex, Entries, gone
<1>9. /\ Walked \subseteq blobs /\ Walked \subseteq Seen
      /\ \A e \in Entries : Kept(e) /\ e.dig \in blobs => e.dig \in Walked
      /\ \A d \in Walked : Parsed(d).kind = "image" => Refs(d) \subseteq Seen
  <2>1. Walked \subseteq blobs /\ Roots \subseteq Walked
    BY <1>1, WalkIs
  <2> QED BY <2>1 DEF Seen, Roots
<1>10. ASSUME NEW e \in Entries, e.tag # None
       PROVE  e \in kept /\ (~IsIndex(e.dig) => Refs(e.dig) \intersect Garbage = {})
  <2>1. e \in ToSet(ms) /\ e.dig \in blobs
    BY <1>1, <1>10 DEF Entries, Needed
  <2>2. e.subj = None
    <3>1. PICK i \in 1..Len(ms) : ms[i] = e
      BY <1>2, <2>1, Elements
    <3> QED BY <1>1, <1>10, <3>1 DEF Sound, OneAnnotation
  <2>3. e.dig \in Walked
    BY <1>9, <1>10, <2>1, <2>2 DEF Kept, KeptAsIs
  <2>4. e.dig \notin Garbage
    BY <1>9, <2>3 DEF Garbage
  <2>5. ~IsIndex(e.dig) => Refs(e.dig) \subseteq Seen
    BY <1>1, <1>9, <2>1, <2>3, DirParsedIs
  <2> QED BY <2>1, <2>4, <2>5 DEF Garbage, gone
<1> HIDE DEF kept, ms
<1> QED BY <1>3, <1>4, <1>5, <1>7, <1>8, <1>10

\* The index without the garbage can be saved.
LEMMA GCIndexIs ==
  ASSUME DirIInv, gcPhase = "delete"
  PROVE  /\ Savable(gcIndex, dr)
         /\ ~LoadFails => HasTags(gcIndex.manifests, acked)
<1>1. /\ gcIndex \in Layouts(DirDigests, Tags) /\ Sound(gcIndex.manifests)
      /\ ToSet(gcIndex.manifests) \subseteq Entries
      /\ \A e \in Entries : e.tag # None => e \in ToSet(gcIndex.manifests)
      /\ dr.current /\ file # None
  BY DEF DirIInv, Phases
<1>2. /\ Savable(index, dr) /\ index.manifests = file.manifests
      /\ ~LoadFails => HasTags(index.manifests, acked)
  BY <1>1 DEF DirIInv, Agree
<1>3. Savable(gcIndex, dr)
  BY <1>1, <1>2 DEF Savable, Needed, Entries
<1>4. ASSUME HasTags(index.manifests, acked) PROVE HasTags(gcIndex.manifests, acked)
  <2>1. \A t \in Tags \ FallbackTags : t # None
    BY DirParsedIs
  <2> QED BY <1>1, <1>4, <2>1 DEF HasTags, Names, Entries
<1> QED BY <1>2, <1>3, <1>4

\* It is saved, unless nothing went.
LEMMA GCSaveIs ==
  ASSUME DirIInv, ~SaveFails, GCSave
  PROVE  /\ Agree(index', dr', file', acked') /\ dr'.annot # "blank"
         /\ file'.manifests = gcIndex.manifests
<1>1. PICK s \in Collects(gcIndex) : Apply(s)
  BY DEF GCSave
<1>2. gcPhase = "delete" /\ UNCHANGED acked
  BY DEF GCSave
<1>3. /\ Agree(index, dr, file, acked) /\ dr.annot # "blank" /\ index.manifests = file.manifests
  BY <1>2 DEF DirIInv, Phases, Agree
<1>4. CASE gcIndex = index
  <2>1. s = Result(index, dr, file)
    BY <1>1, <1>4 DEF Collects
  <2>2. index' = index /\ dr' = dr /\ file' = file
    BY <1>1, <2>1 DEF Apply, Result
  <2> QED BY <1>2, <1>3, <1>4, <2>2
<1>5. CASE gcIndex # index
  <2>1. s \in Saves(Result(gcIndex, dr, file))
    BY <1>1, <1>5 DEF Collects
  <2>2. CanSave(Result(gcIndex, dr, file), acked)
    <3>1. Savable(gcIndex, dr) /\ (~LoadFails => HasTags(gcIndex.manifests, acked)) /\ DrTypes(dr)
      BY <1>2, <1>3, GCIndexIs DEF Agree
    <3> QED BY <3>1 DEF CanSave, Result, IsOutcome
  <2>3. Saved(s, Result(gcIndex, dr, file).index, acked) /\ Result(gcIndex, dr, file).index = gcIndex
    BY <2>1, <2>2, SaveIs DEF Result
  <2> QED BY <1>1, <1>2, <2>3 DEF Saved, Apply
<1> QED BY <1>4, <1>5

\* The steps of a collection.
LEMMA CollectStep ==
  ASSUME DirIInv, ~SaveFails,
         \/ GCLoad \/ GCWalk \/ GCSave \/ GCKeep \/ GCPruneIndex \/ GCPruneLayout
         \/ \E d \in gcDel : GCDelete(d)
  PROVE  DirIInv'
<1>0. /\ Agree(index, dr, file, acked) /\ sessions \subseteq Blobs
      /\ blobs \subseteq DirDigests /\ IsFiniteSet(blobs)
      /\ \A q \in requests : RequestFits(q)
  BY DEF DirIInv
<1>1. ASSUME GCLoad PROVE DirIInv'
  <2>1. PICK l \in Loads(TRUE) :
          /\ Apply(l)
          /\ gcPhase' = IF l.stuck THEN "stuck" ELSE IF l.err THEN "prune" ELSE "walk"
    BY <1>1 DEF GCLoad
  <2>2. /\ Agree(l.index, l.dr, l.file, acked) /\ IsOutcome(l) /\ l.dr.annot # "blank"
        /\ ~l.err => l.dr.current /\ l.file # None
    BY <1>0, LoadIs
  <2>3. /\ requests' = {} /\ UNCHANGED <<blobs, sessions, acked>>
        /\ Agree(index', dr', file', acked') /\ dr'.annot # "blank"
        /\ \/ gcPhase' = "prune"
           \/ gcPhase' = "walk" /\ dr'.current /\ file' # None
    BY <1>1, <2>1, <2>2 DEF GCLoad, Apply, IsOutcome
  <2>4. Agree(index, dr, file, acked)'
    BY <2>3, AgreeOn DEF More
  <2>5. Phases'
    BY <2>3 DEF Phases
  <2> QED BY <1>0, <2>3, <2>4, <2>5 DEF DirIInv
<1>2. ASSUME GCWalk PROVE DirIInv'
  <2>1. UNCHANGED <<blobs, index, file, dr, requests, sessions, acked>>
    BY <1>2 DEF GCWalk, dir
  <2>2. Agree(index, dr, file, acked)' /\ \A q \in requests' : RequestFits(q)'
    BY <1>0, <2>1, AgreeOn DEF More, RequestFits
  <2>3. Phases'
    BY <1>2, <2>1, WalkTakes DEF GCWalk, DirIInv, Phases, Entries
  <2> QED BY <1>0, <2>1, <2>2, <2>3 DEF DirIInv
<1>3. ASSUME NEW d \in gcDel, GCDelete(d) PROVE DirIInv'
  <2>1. /\ gcPhase = "delete" /\ gcDel' = gcDel \ {d} /\ blobs' = blobs \ {d}
        /\ UNCHANGED <<index, file, dr, requests, sessions, gcPhase, gcIndex, acked>>
    BY <1>3 DEF GCDelete, dir
  <2>2. /\ requests = {} /\ dr.current /\ file # None
        /\ ToSet(gcIndex.manifests) \subseteq Entries
        /\ \A e \in ToSet(gcIndex.manifests) : e.dig \in blobs \ gcDel
        /\ \A e \in Entries :
             e.tag # None => /\ e \in ToSet(gcIndex.manifests)
                             /\ ~IsIndex(e.dig) => Refs(e.dig) \intersect gcDel = {}
    BY <2>1 DEF DirIInv, Phases
  <2>3. /\ Savable(index, dr) /\ Loadable(file) /\ index.manifests = file.manifests
        /\ file.converted <=> dr.annot = "converted"
    BY <1>0, <2>2 DEF Agree
  <2>4. Needed(index.manifests)'
    BY <2>1, <2>2, <2>3 DEF Savable, Needed, Entries
  <2>5. Savable(index, dr)'
    BY <2>1, <2>3, <2>4 DEF Savable
  <2>6. Loadable(file)'
    <3>1. ~file.converted => \A e \in ToSet(file.manifests) : e.tag \notin FallbackTags
      BY <2>3 DEF Savable
    <3>2. ~file'.converted => Settled(file.manifests)'
      BY <2>1, <3>1 DEF Settled
    <3> QED BY <2>1, <2>3, <2>4, <3>2 DEF Loadable
  <2>7. Agree(index, dr, file, acked)'
    BY <1>0, <2>1, <2>5, <2>6 DEF Agree
  <2>8. Phases'
    BY <2>1, <2>2 DEF DirIInv, Phases, Entries
  <2>9. blobs' \subseteq DirDigests /\ IsFiniteSet(blobs')
    BY <1>0, <2>1, FS_Subset
  <2> QED BY <1>0, <2>1, <2>2, <2>7, <2>8, <2>9 DEF DirIInv
<1>4. ASSUME GCSave PROVE DirIInv'
  <2>1. /\ gcPhase = "delete" /\ gcPhase' = "prune"
        /\ UNCHANGED <<blobs, requests, sessions, acked>>
    BY <1>4 DEF GCSave
  <2>2. requests = {} /\ dr.current /\ file # None
    BY <2>1 DEF DirIInv, Phases
  <2>3. Agree(index', dr', file', acked') /\ dr'.annot # "blank"
    BY <1>4, GCSaveIs
  <2>4. Agree(index, dr, file, acked)'
    BY <2>1, <2>3, AgreeOn DEF More
  <2>5. Phases'
    BY <2>1, <2>2, <2>3 DEF Phases
  <2> QED BY <1>0, <2>1, <2>2, <2>4, <2>5 DEF DirIInv
<1>5. ASSUME GCKeep PROVE DirIInv'
  BY <1>0, <1>5, CallOn DEF GCKeep, dir, More
<1>6. ASSUME GCPruneIndex PROVE DirIInv'
  <2>1. /\ gcPhase = "prune" /\ index.manifests = <<>> /\ file' = None /\ gcPhase' = "pruneLayout"
        /\ UNCHANGED <<blobs, index, dr, requests, sessions, acked>>
    BY <1>6 DEF GCPruneIndex, Empty
  <2>2. requests = {} /\ dr.annot # "blank"
    BY <2>1 DEF DirIInv, Phases
  <2>3. ~LoadFails => HasTags(<<>>, acked)
    BY <1>0, <2>1, <2>2 DEF Agree
  <2>4. Agree(index', dr', file', acked')
    BY <1>0, <2>1, <2>2, <2>3 DEF Agree
  <2>5. Agree(index, dr, file, acked)'
    BY <2>1, <2>4, AgreeOn DEF More
  <2>6. Phases'
    BY <2>1, <2>2 DEF Phases
  <2> QED BY <1>0, <2>1, <2>2, <2>5, <2>6 DEF DirIInv
<1>7. ASSUME GCPruneLayout PROVE DirIInv'
  <2>1. /\ gcPhase = "pruneLayout" /\ gcPhase' = "idle" /\ dr' \in {dr, [dr EXCEPT !.exists = FALSE]}
        /\ UNCHANGED <<blobs, index, file, requests, sessions, acked>>
    BY <1>7 DEF GCPruneLayout
  <2>2. /\ DrTypes(dr') /\ dr'.current = dr.current
        /\ dr'.annot = dr.annot /\ dr'.recent = dr.recent
    BY <1>0, <2>1 DEF Agree, DrTypes
  <2>3. Savable(index, dr')
    BY <1>0, <2>2 DEF Agree, Savable
  <2>4. Agree(index', dr', file', acked')
    BY <1>0, <2>1, <2>2, <2>3 DEF Agree
  <2> QED BY <1>0, <2>1, <2>4, CallOn DEF More
<1> QED BY <1>1, <1>2, <1>3, <1>4, <1>5, <1>6, <1>7

LEMMA DirStep ==
  ASSUME DirIInv, ~SaveFails, [DirNext /\ UNCHANGED conf]_dirVars
  PROVE  DirIInv'
<1>1. CASE DirNext
  <2> USE <1>1
  <2>1. CASE \/ \E b \in Blobs : UploadClose(b) \/ UploadCancel(b)
             \/ Elapse \/ \E d \in fresh : AgeFile(d)
    BY <2>1, BesideStep
  <2>2. CASE \/ \E b \in Blobs : UploadStart(b)
             \/ UploadEnded
             \/ \E p \in Pushes : StoreManifest(p[1], p[2])
    BY <2>2, StoreStep
  <2>3. CASE \/ IndexGet
             \/ \E t \in DeleteTags : DeleteFind(Entry(None, t, None))
             \/ \E d \in DeleteDigests : DeleteFind(Entry(d, None, None))
             \/ \E q \in requests : ChangeIndex(q)
    BY <2>3, LoadStep
  <2>4. CASE \/ GCLoad \/ GCWalk \/ GCSave \/ GCKeep \/ GCPruneIndex \/ GCPruneLayout
             \/ \E d \in gcDel : GCDelete(d)
    BY <2>4, CollectStep
  <2>5. CASE Reopen \/ Crash
    BY <2>5, OpenStep
  <2> QED BY <2>1, <2>2, <2>3, <2>4, <2>5, Zenon DEF DirNext
<1>2. CASE UNCHANGED dirVars
  <2>1. UNCHANGED <<blobs, index, file, dr, requests, sessions, gc, acked>>
    BY <1>2 DEF dirVars, gc
  <2> QED BY <2>1, BesideOn DEF DirIInv, More
<1> QED BY <1>1, <1>2

\* While index.json can be written, and if the directory that the first process finds is
\* in order: memory, index.json and the blobs agree, whatever fails to be read, is cut
\* off, or comes in the middle of a collection.
THEOREM DirInvariance ==
  ASSUME ~SaveFails
  PROVE  DirSpec /\ FoundWell => []DirIInv
<1>1. DirInit /\ FoundWell => DirIInv
  BY InitDirIInv
<1>2. DirIInv /\ [DirNext /\ UNCHANGED conf]_dirVars => DirIInv'
  BY DirStep
<1> QED BY <1>1, <1>2, PTL DEF DirSpec

\* The copy of the index in memory is index.json as long as timeMod says so.
THEOREM CopyIsCurrent ==
  ASSUME ~SaveFails
  PROVE  DirSpec /\ FoundWell => []CopyCurrent
<1>1. DirIInv => CopyCurrent
  BY DEF DirIInv, Agree, CopyCurrent
<1> QED BY <1>1, DirInvariance, PTL

\* At any instant what index.json tags has its blobs: a push writes them first, and a
\* collection takes only what no entry with a tag needs.
THEOREM TagsHaveBlobs ==
  ASSUME ~SaveFails
  PROVE  DirSpec /\ FoundWell => []TaggedOnDisk
<1>1. ASSUME DirIInv PROVE TaggedOnDisk
  <2>1. file # None => Needed(file.manifests)
    BY <1>1 DEF DirIInv, Agree, Loadable
  <2>2. ToSet(<<>>) = {}
    BY DEF ToSet
  <2> QED BY <2>1, <2>2 DEF TaggedOnDisk, OnDisk, Needed
<1> QED BY <1>1, DirInvariance, PTL

\* index.json has the tags that the clients' calls left, if it can be read too: a call
\* whose load fails saves an index without them.
THEOREM TagsDurable ==
  ASSUME ~SaveFails, ~LoadFails
  PROVE  DirSpec /\ FoundWell => []Durable
<1>1. ASSUME DirIInv PROVE Durable
  <2> DEFINE li == [manifests |-> OnDisk, children |-> <<>>]
  <2>1. /\ li.manifests = OnDisk /\ OnDisk \in Seq(Descriptors(DirDigests, Tags)) /\ Sound(OnDisk)
        /\ HasTags(OnDisk, acked)
    <3>1. CASE file = None
      <4>1. index.manifests = <<>> /\ HasTags(<<>>, acked)
        BY <1>1, <3>1 DEF DirIInv, Agree
      <4>2. <<>> \in Seq(Descriptors(DirDigests, Tags)) /\ Sound(<<>>)
        BY DEF Sound, OneTag, OneResponse, OneAnnotation, PlainAlone
      <4> QED BY <3>1, <4>1, <4>2 DEF OnDisk
    <3>2. CASE file # None
      <4>1. Loadable(file) /\ HasTags(file.manifests, acked)
        BY <1>1, <3>2 DEF DirIInv, Agree
      <4> QED BY <3>2, <4>1 DEF OnDisk, Loadable, IndexFiles, Descriptors
    <3> QED BY <3>1, <3>2
  <2> HIDE DEF li
  <2>2. ASSUME NEW t \in Tags \ FallbackTags PROVE Resolve(li, t) = acked[t]
    <3>1. None \notin DirDigests /\ None \notin Tags
      BY DirParsedIs
    <3>2. Names(ToSet(li.manifests), t, acked[t])
      BY <2>1 DEF HasTags
    <3> QED BY <2>1, <3>1, <3>2, ResolveIs
  <2> QED BY <2>2 DEF Durable, li
<1> QED BY <1>1, DirInvariance, PTL

\* A collection that ends leaves no entry in index.json without its blob.
THEOREM CollectionRepairs ==
  ASSUME ~SaveFails
  PROVE  DirSpec /\ FoundWell => GCRepairs
<1> DEFINE Repaired == \A e \in ToSet(file'.manifests) : e.dig \in blobs
<1>1. ASSUME DirIInv, GCSave PROVE Repaired
  <2>1. \A e \in ToSet(gcIndex.manifests) : e.dig \in blobs
    BY <1>1 DEF DirIInv, Phases, GCSave
  <2> QED BY <1>1, <2>1, GCSaveIs
<1>2. DirIInv /\ [DirNext /\ UNCHANGED conf]_dirVars => [GCSave /\ file' # None => Repaired]_dirVars
  BY <1>1
<1> QED BY <1>2, DirInvariance, PTL DEF DirSpec, GCRepairs
-----------------------------------------------------------------------------
(* Fallback tags are converted *)

\* While there may be fallback tags, no two of their lists are for one subject.
Unrivalled == file # None /\ ~file.converted => OneList(file.manifests)

\* Another index.json is written only by a process with an index, which it has from the
\* one before, unless there was none.
LEMMA FileWritten ==
  ASSUME DirIInv, ~SaveFails, DirNext, file' # file, file' # None
  PROVE  /\ dr'.annot # "blank"
         /\ dr.annot = "blank" /\ file # None =>
              \E force \in BOOLEAN : \E l \in Loads(force) :
                index' = l.index \/ \E q \in requests : index' = Changed(l.index, q)
<1> DEFINE Read == \E force \in BOOLEAN : \E l \in Loads(force) :
                     index' = l.index \/ \E q \in requests : index' = Changed(l.index, q)
           Goal == dr'.annot # "blank" /\ (dr.annot = "blank" /\ file # None => Read)
<1>0. Agree(index, dr, file, acked) /\ blobs \subseteq DirDigests /\ IsFiniteSet(blobs)
  BY DEF DirIInv
<1>1. ASSUME NEW force \in BOOLEAN, NEW l \in Loads(force)
      PROVE  /\ Agree(l.index, l.dr, l.file, acked) /\ IsOutcome(l) /\ l.dr.annot # "blank"
             /\ Apply(l) => Goal
  <2>1. Agree(l.index, l.dr, l.file, acked) /\ IsOutcome(l) /\ l.dr.annot # "blank"
    BY <1>0, LoadIs
  <2> QED BY <2>1 DEF Apply
<1>2. ASSUME NEW i \in Inits, Apply(i.res) \/ Apply(Touched(i.res)) PROVE Goal
  <2>1. /\ IsOutcome(i.res) /\ DrTypes(i.res.dr)
        /\ i.res.file = file \/ (file = None /\ i.res.dr.annot # "blank")
    BY <1>0, InitsAre DEF Agree
  <2>2. file' = i.res.file /\ dr'.annot = i.res.dr.annot
    <3> DEFINE d == i.res.dr
    <3>1. [d EXCEPT !.current = FALSE].annot = d.annot
      BY <2>1 DEF DrTypes
    <3> HIDE DEF d
    <3>2. file' = i.res.file /\ (dr' = d \/ dr' = [d EXCEPT !.current = FALSE])
      BY <1>2, <2>1, TouchedIs DEF Apply, d
    <3> QED BY <3>1, <3>2 DEF d
  <2> HIDE DEF Read
  <2> QED BY <2>1, <2>2
<1>3. ASSUME NEW b, UploadStart(b) PROVE Goal
  <2>1. PICK i \in Inits : Apply(i.res) \/ Apply(Touched(i.res))
    BY <1>3 DEF UploadStart
  <2> QED BY <1>2, <2>1
<1>4. ASSUME NEW m, NEW t, StoreManifest(m, t) PROVE Goal
  <2>1. PICK i \in Inits : Apply(i.res) \/ Apply(Touched(i.res))
    BY <1>4, Zenon DEF StoreManifest
  <2> QED BY <1>2, <2>1
<1>5. ASSUME IndexGet \/ GCLoad \/ \E e : DeleteFind(e) PROVE Goal
  <2>1. PICK force \in BOOLEAN : \E l \in Loads(force) : Apply(l)
    BY <1>5 DEF IndexGet, GCLoad, DeleteFind
  <2> QED BY <1>1, <2>1
<1>6. ASSUME NEW q \in requests, ChangeIndex(q) PROVE Goal
  <2>1. PICK l \in Loads(FALSE) :
          IF l.stuck THEN Apply(l)
          ELSE \E s \in Saves([l EXCEPT !.index = Changed(l.index, q)]) : Apply(s)
    BY <1>6 DEF ChangeIndex, LoadChangeSave
  <2>2. /\ IsOutcome(l) /\ l.dr.annot # "blank" /\ DrTypes(l.dr)
    BY <1>1 DEF Agree
  <2> DEFINE r == [l EXCEPT !.index = Changed(l.index, q)]
  <2>3. r.index = Changed(l.index, q) /\ r.dr = l.dr /\ IsOutcome(r)
    BY <2>2 DEF IsOutcome
  <2>4. PICK s \in Saves(r) : Apply(s)
    BY <2>1, <2>2 DEF IsOutcome
  <2> HIDE DEF r
  <2>5. s = [r EXCEPT !.err = FALSE,
                      !.file = [manifests |-> r.index.manifests, converted |-> r.dr.annot = "converted"],
                      !.dr.annot = IF @ = "blank" THEN "plain" ELSE @, !.dr.current = TRUE]
    BY <2>4 DEF Saves
  <2>6. s.index = r.index /\ s.dr.annot # "blank"
    BY <2>2, <2>3, <2>5 DEF IsOutcome, DrTypes
  <2>7. index' = Changed(l.index, q) /\ dr'.annot # "blank"
    BY <2>3, <2>4, <2>6 DEF Apply
  <2> QED BY <2>7
<1>7. ASSUME GCSave PROVE Goal
  <2>1. dr.annot # "blank"
    BY <1>7 DEF GCSave, DirIInv, Phases, Agree
  <2> QED BY <1>7, <2>1, GCSaveIs
<1>8. \/ \E b \in Blobs : UploadStart(b)
      \/ IndexGet \/ GCLoad \/ GCSave
      \/ \E p \in Pushes : StoreManifest(p[1], p[2])
      \/ \E e : DeleteFind(e)
      \/ \E q \in requests : ChangeIndex(q)
  <2>1. ~(\E b \in Blobs : UploadClose(b) \/ UploadCancel(b))
    BY DEF UploadClose, UploadCancel, dir
  <2>2. ~UploadEnded /\ ~Elapse /\ ~(\E d \in fresh : AgeFile(d))
    BY DEF UploadEnded, Elapse, AgeFile, dir
  <2>3. ~GCWalk /\ ~GCKeep /\ ~GCPruneIndex /\ ~GCPruneLayout /\ ~(\E d \in gcDel : GCDelete(d))
    BY DEF GCWalk, GCKeep, GCPruneIndex, GCPruneLayout, GCDelete, dir
  <2>4. ~Reopen /\ ~Crash
    BY DEF Reopen, Crash, NewObject
  <2> QED BY <2>1, <2>2, <2>3, <2>4, Zenon DEF DirNext
<1> HIDE DEF Goal
<1>9. Goal
  BY <1>3, <1>4, <1>5, <1>6, <1>7, <1>8
<1> QED BY <1>9 DEF Goal

\* Once index.json was read, and while loads succeed, it has fallback tags only if it
\* says that they were converted.
LEMMA NoFallbacks ==
  ASSUME ~LoadFails, Agree(index, dr, file, acked), dr.annot # "blank", file # None,
         ~file.converted
  PROVE  \A e \in ToSet(file.manifests) : e.tag \notin FallbackTags
BY DEF Agree, Savable

\* A step takes blobs away or adds one without a subject.
LEMMA BlobsOn ==
  ASSUME [DirNext /\ UNCHANGED conf]_dirVars
  PROVE  More \/ blobs' \subseteq blobs
<1>1. ASSUME NEW b \in Blobs, UploadClose(b) PROVE More
  BY <1>1, DirParsedIs DEF UploadClose, Store, More
<1>2. ASSUME NEW p \in Pushes, StoreManifest(p[1], p[2]) PROVE More
  <2>1. p[1] \in Manifests /\ Parsed(p[1]).subj = None
    <3>1. p \in {x \in Manifests : Content[x].subj = None} \X ((Tags \ FallbackTags) \union {None})
      BY DirRepoType
    <3> QED BY <3>1, DirParsedIs
  <2>2. blobs' = blobs \/ blobs' = blobs \union {p[1]}
    BY <1>2, Zenon DEF StoreManifest, Store
  <2> QED BY <2>1, <2>2 DEF More
<1>3. ASSUME NEW d, GCDelete(d) PROVE blobs' \subseteq blobs
  BY <1>3 DEF GCDelete
<1>4. CASE DirNext
  <2>1. \/ UNCHANGED blobs
        \/ \E b \in Blobs : UploadClose(b)
        \/ \E p \in Pushes : StoreManifest(p[1], p[2])
        \/ \E d \in gcDel : GCDelete(d)
    BY <1>4 DEF DirNext, UploadStart, UploadCancel, UploadEnded, IndexGet, DeleteFind, ChangeIndex,
                GCLoad, GCWalk, GCSave, GCKeep, GCPruneIndex, GCPruneLayout, Elapse, AgeFile,
                Reopen, Crash, NewObject
  <2> QED BY <1>1, <1>2, <1>3, <2>1 DEF More
<1> QED BY <1>4 DEF dirVars, More

LEMMA UnrivalledStays ==
  ASSUME ~SaveFails, ~LoadFails, DirIInv, DirIInv', Unrivalled,
         [DirNext /\ UNCHANGED conf]_dirVars
  PROVE  Unrivalled'
<1> SUFFICES ASSUME file' # None, ~file'.converted PROVE OneList(file.manifests)'
  BY DEF Unrivalled
<1>1. ASSUME NEW d \in DirDigests PROVE SubjectsOf(d)' \subseteq SubjectsOf(d)
  <2>1. More \/ blobs' \subseteq blobs
    BY BlobsOn
  <2>2. CASE More
    BY <2>2, MoreIs, Zenon DEF SubjectsOf
  <2>3. CASE blobs' \subseteq blobs
    <3> DEFINE S == {m \in Refs(d) \intersect blobs : Parsed(m).subj # None}
    <3>1. Parsed(d).refs \in Seq(Blobs \union Manifests) /\ S' \subseteq S
      BY <2>3, DirParsedIs
    <3> HIDE DEF S
    <3>2. ToSet(Only(Parsed(d).refs, S')) \subseteq ToSet(Only(Parsed(d).refs, S))
      BY <3>1, OnlyIs
    <3> QED BY <3>2 DEF SubjectsOf, Referring, S
  <2> QED BY <2>1, <2>2, <2>3
<1>2. CASE file' = file
  <2>1. OneList(file.manifests) /\ ToSet(file.manifests) \subseteq Descriptors(DirDigests, Tags)
    <3>1. file.manifests \in Seq(Descriptors(DirDigests, Tags))
      BY <1>2 DEF DirIInv, Agree, Loadable, IndexFiles, Descriptors
    <3> QED BY <1>2, <3>1, Elements, Zenon DEF Unrivalled
  <2>2. \A e \in ToSet(file.manifests) : e.dig \in DirDigests
    BY <2>1 DEF Descriptors
  <2> QED BY <1>1, <1>2, <2>1, <2>2 DEF OneList
<1>3. CASE file' # file
  <2>1. dr'.annot # "blank"
    BY <1>3, FileWritten DEF dirVars, dir
  <2>2. Agree(index, dr, file, acked)'
    BY DEF DirIInv
  <2>3. \A e \in ToSet(file'.manifests) : e.tag \notin FallbackTags
    BY <2>1, <2>2 DEF Agree, Savable
  <2> QED BY <2>3 DEF OneList
<1> QED BY <1>2, <1>3

\* A step that converts puts each referrer of a fallback list into a response.
LEMMA ConvertingStep ==
  ASSUME ~SaveFails, ~LoadFails, DirIInv, DirIInv', Unrivalled, DirNext,
         file # None, file' # None, ~file.converted, file'.converted,
         NEW e \in ToSet(Fallbacks(file.manifests)), NEW m \in ToSet(Referring(e.dig))
  PROVE  LET r == Response([manifests |-> file'.manifests, children |-> <<>>], Parsed(m).subj)
         IN  r # None /\ m \in Refs(r)
<1> DEFINE ms == file.manifests
           li == [manifests |-> file'.manifests, children |-> <<>>]
           s == Parsed(m).subj
<1>0. Agree(index, dr, file, acked) /\ blobs \subseteq DirDigests /\ IsFiniteSet(blobs)
  BY DEF DirIInv
<1>1. e \in ToSet(ms) /\ e.tag \in FallbackTags /\ e.dig \in DirDigests
  <2> DEFINE F == {x \in ToSet(ms) : x.tag \in FallbackTags /\ IsIndex(x.dig) /\ x.dig \in blobs}
  <2>1. ms \in Seq(Descriptors(DirDigests, Tags))
    BY <1>0 DEF Agree, Loadable, IndexFiles, Descriptors
  <2>2. ToSet(Fallbacks(ms)) = ToSet(ms) \intersect F
    <3> HIDE DEF F, ms
    <3> QED BY <2>1, OnlyIs DEF Fallbacks, F
  <2>3. e \in ToSet(ms) /\ e \in F
    BY <2>2
  <2>4. e \in Descriptors(DirDigests, Tags)
    BY <2>1, <2>3, Elements, Zenon
  <2> QED BY <2>3, <2>4 DEF Descriptors
<1>2. s \in Manifests /\ s \in DirDigests /\ s # None /\ None \notin DirDigests /\ None \notin Tags
  BY <1>0, <1>1, SubjectOfIs, DirParsedIs
<1>3. FirstRead
  BY <1>0, <1>1, NoFallbacks DEF FirstRead, Unrivalled
<1>4. dr'.annot # "blank"
      /\ \E force \in BOOLEAN : \E l \in Loads(force) :
           index' = l.index \/ \E q \in requests : index' = Changed(l.index, q)
  BY <1>3, FileWritten DEF FirstRead
<1>5. PICK force \in BOOLEAN : \E l \in Loads(force) :
        index' = l.index \/ \E q \in requests : index' = Changed(l.index, q)
  BY <1>4
<1>6. PICK l \in Loads(force) :
        index' = l.index \/ \E q \in requests : index' = Changed(l.index, q)
  BY <1>5
<1>7. Savable(l.index, l.dr) /\ Converts(ms, l.index.manifests)
  BY <1>0, <1>3, LoadIs DEF Agree
<1>8. PICK d \in DirDigests \ Manifests : m \in Refs(d) /\ Answered(ToSet(l.index.manifests), s, d)
  BY <1>7 DEF Converts
<1> HIDE DEF s, ms
<1>9. Answered(ToSet(index'.manifests), s, d)
  <2>1. ASSUME NEW q \in requests, index' = Changed(l.index, q) PROVE Answered(ToSet(index'.manifests), s, d)
    <3>1. RequestFits(q)
      BY DEF DirIInv
    <3> QED BY <1>2, <1>7, <1>8, <2>1, <3>1, ChangedIs
  <2> QED BY <1>6, <1>8, <2>1
<1>10. /\ file'.manifests = index'.manifests /\ Sound(file'.manifests)
      /\ file'.manifests \in Seq(Descriptors(DirDigests, Tags))
  <2>1. Agree(index, dr, file, acked)'
    BY DEF DirIInv
  <2> QED BY <1>4, <2>1 DEF Agree, Loadable, IndexFiles, Descriptors
<1>11. Response(li, s) = d
  <2>1. /\ li.manifests \in Seq(Descriptors(DirDigests, Tags)) /\ Sound(li.manifests)
        /\ Answered(ToSet(li.manifests), s, d)
    BY <1>9, <1>10
  <2> HIDE DEF li
  <2> QED BY <1>2, <2>1, ResponseIs
<1> QED BY <1>2, <1>8, <1>11 DEF s, li

\* The conversion of fallback tags loses no referrer, if no two lists are for one subject
\* and index.json can always be read: each referrer that is there is in the response of
\* its subject.
THEOREM FallbacksConverted ==
  ASSUME ~SaveFails, ~LoadFails
  PROVE  DirSpec /\ FoundWell /\ Unrivalled => ReferrersConverted
<1> DEFINE Converted ==
      file # None /\ file' # None /\ ~file.converted /\ file'.converted =>
        \A e \in ToSet(Fallbacks(file.manifests)) :
          \A m \in ToSet(Referring(e.dig)) :
            LET r == Response([manifests |-> file'.manifests, children |-> <<>>], Parsed(m).subj)
            IN  r # None /\ m \in Refs(r)
           Inv == DirIInv /\ Unrivalled
<1>1. DirInit /\ FoundWell /\ Unrivalled => Inv
  BY InitDirIInv
<1>2. Inv /\ [DirNext /\ UNCHANGED conf]_dirVars => Inv'
  BY DirStep, UnrivalledStays
<1>3. Inv /\ [DirNext /\ UNCHANGED conf]_dirVars => [Converted]_dirVars
  <2> SUFFICES ASSUME Inv, DirNext /\ UNCHANGED conf PROVE Converted
    OBVIOUS
  <2>1. DirIInv'
    BY DirStep
  <2> QED BY <2>1, ConvertingStep
<1> QED BY <1>1, <1>2, <1>3, PTL DEF DirSpec, ReferrersConverted
=============================================================================
