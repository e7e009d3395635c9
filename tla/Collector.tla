------------------------------ MODULE Collector -----------------------------
(***************************************************************************)
(* What the garbage collector, repoGarbageCollect in internal/store/store.go, *)
(* removes from a repository, given its blobs and its index. Both stores    *)
(* call it with no request at work on the repository.                      *)
(*                                                                         *)
(* Digests are abstract: a blob or manifest is its own digest, and a       *)
(* referrers response, which the server itself writes, is the sequence of  *)
(* the referrers it lists (equal lists have equal digests). Time is the    *)
(* set of blobs younger than the grace period.                             *)
(***************************************************************************)
EXTENDS Naturals, FiniteSets, LayoutIndex

CONSTANTS
  Blobs,               \* configs and layers
  Manifests,           \* images and indexes
  Content,             \* [kind, refs, subj] of each manifest
  Tags

\* No digest is used both as a manifest and as a config or layer: an image that
\* names another manifest as a layer would make the collector's walk depend on
\* its order.
ASSUME ContentType ==
  /\ Blobs \cap Manifests = {}
  /\ \A m \in Manifests :
       /\ Content[m].kind \in {"image", "index"}
       /\ Content[m].refs \in
            Seq(IF Content[m].kind = "image" THEN Blobs ELSE Manifests)
       /\ Content[m].subj \in Manifests \union {None}

Referrers == {m \in Manifests : Content[m].subj # None}

\* A response's digest is none of those that are pushed, and None is no digest and no tag.
ASSUME DigestsDiffer ==
  /\ None \notin Blobs \union Manifests
  /\ \A d \in Blobs \union Manifests \union {None} : d \notin Seq(Referrers)
  /\ None \notin Tags

VARIABLES
  blobs,    \* the digests in the blob store
  fresh,    \* those modified after the collector's cutoff
  index,    \* the LayoutIndex
  conf      \* the server's configuration, which stays: ConfigGC's untagged, withSubj
            \* and dangling, and what else the module that extends this one needs

\* What a digest's bytes parse to.
Parsed(d) ==
  IF d \in Manifests THEN Content[d]
  ELSE IF d \in Blobs THEN [kind |-> "blob", refs |-> <<>>, subj |-> None]
  ELSE [kind |-> "index", refs |-> d, subj |-> None]

Refs(d) == ToSet(Parsed(d).refs)

-----------------------------------------------------------------------------
Entries == ToSet(index.manifests)

\* Mutant: only tagged entries count, however young.
IgnoreGrace(e) == ~conf.untagged \/ e.tag # None
\* A tagged or young entry is kept, and every entry if untagged ones are.
KeptAsIs(e) == ~conf.untagged \/ e.tag # None \/ e.dig \in fresh

\* The entry is a response that stays only if its subject turns out to stay.
Conditional(e) ==
  /\ e.subj # None /\ e.subj \in blobs
  /\ \/ conf.withSubj
     \/ conf.dangling /\ e.dig \notin fresh

\* The entry is kept whatever else is kept.
Kept(e) ==
  IF e.subj = None THEN KeptAsIs(e)
  ELSE /\ ~Conditional(e)
       /\ \/ ~conf.dangling
          \/ e.subj \in blobs     \* and young: see Conditional
          \/ KeptAsIs(e)

\* Mutant: the walk does not go on to the responses of what it finds.
MembersOnly(d) == IF Parsed(d).kind = "index" THEN Refs(d) ELSE {}
\* Where the walk goes from d: the members of an index, and the response that
\* depends on d.
Successors(d) ==
  (IF Parsed(d).kind = "index" THEN Refs(d) ELSE {})
    \union {e.dig : e \in {f \in Entries : Conditional(f) /\ f.subj = d}}

\* What the walk reaches from the kept entries, of what is in the blob store;
\* reach[n] is what it reaches in n steps.
Walked ==
  LET reach[n \in 0..Cardinality(blobs)] ==
        IF n = 0 THEN {e.dig : e \in {f \in Entries : Kept(f)}} \intersect blobs
        ELSE LET before == reach[n - 1]
             IN  before \union (blobs \intersect UNION {Successors(d) : d \in before})
  IN  reach[Cardinality(blobs)]

\* Mutant: the layers of every image are marked, of those that go as well.
SeenOfAll == Walked \union UNION {Refs(d) : d \in {m \in blobs : Parsed(m).kind = "image"}}
\* seen: with the config and layers of each image on the way.
Seen ==
  LET walked == Walked
  IN  walked \union UNION {Refs(d) : d \in {m \in walked : Parsed(m).kind = "image"}}

\* inIndex: every entry, and every digest the walk tried.
InIndex ==
  LET walked == Walked
  IN  {e.dig : e \in Entries} \union walked \union UNION {Successors(d) : d \in walked}

\* A young blob that no entry or walk mentions is an upload still to be used.
Garbage ==
  LET kept == Seen \union (fresh \ InIndex)
  IN  blobs \ kept

\* Mutant: blobs go, their entries stay.
RmNothing(li, gone) == li
\* RmDesc of each digest that goes, in any order.
RmDigests(li, gone) ==
  [manifests |-> Only(li.manifests, {e \in ToSet(li.manifests) : e.dig \notin gone}),
   children  |-> Only(li.children, ToSet(li.children) \ gone)]

\* The index without what goes, and without entries whose blob was gone before.
Collected == RmDigests(index, Garbage \union (InIndex \ blobs))
=============================================================================
