----------------------------- MODULE LayoutIndex ----------------------------
(***************************************************************************)
(* The index.json of a repository, types/layout.go: pure operators on a    *)
(* record of two lists,                                                    *)
(*   manifests  the descriptors of index.json, in order                    *)
(*   children   childManifests: the digests known only as members of an    *)
(*              index or of a referrers response                           *)
(* A descriptor is an entry: a digest and the two annotations the code     *)
(* looks at, the tag (AnnotRefName) and the subject that a referrers       *)
(* response answers for (AnnotReferrerSubject); None where there is none.  *)
(***************************************************************************)
EXTENDS Sequences, SequencesExt

CONSTANT None

EmptyIndex == [manifests |-> <<>>, children |-> <<>>]

Entry(d, t, s) == [dig |-> d, tag |-> t, subj |-> s]
Plain(e) == e.tag = None /\ e.subj = None    \* annotationsEmpty

\* The elements of s that are in S, in their order: slices.DeleteFunc of the others.
\* (SelectSeq, as a fold that can be reasoned about.)
Only(s, S) ==
  FoldLeft(LAMBDA kept, x : IF x \in S THEN Append(kept, x) ELSE kept, <<>>, s)

-----------------------------------------------------------------------------
(* AddDesc *)

\* Mutant: the child list gets the whole entry.
MoveEntry(li, c) ==
  LET i == SelectInSeq(li.manifests, LAMBDA e : e.dig = c /\ Plain(e))
  IN  IF i = 0 THEN li
      ELSE [manifests |-> RemoveAt(li.manifests, i),
            children  |-> Append(li.children, li.manifests[i])]

\* LayoutWithChildren: the first bare entry of a member of the pushed index
\* moves to the child list.
MoveChild(li, c) ==
  LET i == SelectInSeq(li.manifests, LAMBDA e : e.dig = c /\ Plain(e))
  IN  IF i = 0 THEN li
      ELSE [manifests |-> RemoveAt(li.manifests, i),
            children  |-> Append(li.children, c)]

\* Mutant: a child that is pushed by itself stays in the child list.
AllChildren(children, d) == children

\* A digest that gets an entry of its own leaves the child list.
OtherChildren(children, d) == Only(children, ToSet(children) \ {d})

\* Mutant: a second response for the subject is appended.
AppendResponse(ms, e) == Append(ms, e)

\* There is one response per subject: a new one takes the old one's place.
SetResponse(ms, e) ==
  LET i == SelectInSeq(ms, LAMBDA cur : cur.subj = e.subj)
  IN  IF i = 0 THEN Append(ms, e) ELSE ReplaceAt(ms, i, e)

\* Mutant: a tag that moves stays on its old digest too.
KeepOldTag(ms, e) == ms

\* Mutant: an entry that loses its tag is removed, its digest's only one or not.
ForgetUntagged(ms, e) == SelectSeq(ms, LAMBDA cur : cur.tag # e.tag \/ cur.dig = e.dig)

\* An entry with the tag of e and another digest is removed when its digest has an
\* entry without the tag, and loses its tag when it has none.
UntagAt(ms, i, e) ==
  IF ms[i].dig = e.dig \/ ms[i].tag # e.tag THEN ms
  ELSE IF \E j \in DOMAIN ms : ms[j].dig = ms[i].dig /\ ms[j].tag # e.tag
  THEN RemoveAt(ms, i)
  ELSE [ms EXCEPT ![i].tag = None]

\* The tag of e leaves every other digest. The loop runs from the tail, so a
\* removal does not move the entries still to come.
Untag(ms, e) ==
  FoldLeft(LAMBDA cur, i : UntagAt(cur, i, e), ms, Reverse([i \in DOMAIN ms |-> i]))

\* A compatible entry for the digest is reused; it changes only to gain a tag.
Place(ms, e) ==
  LET i == SelectInSeq(ms, LAMBDA cur :
             cur.dig = e.dig /\ (e.tag = None \/ Plain(cur) \/ cur.tag = e.tag))
  IN  IF i = 0 THEN Append(ms, e)
      ELSE IF e.tag # None /\ Plain(ms[i]) THEN ReplaceAt(ms, i, e)
      ELSE ms

\* members: the digests of LayoutWithChildren, in order.
AddDesc(li, e, members) ==
  LET moved == FoldLeft(MoveChild, li, members)
  IN  [children  |-> OtherChildren(moved.children, e.dig),
       manifests |-> IF e.subj # None THEN SetResponse(moved.manifests, e)
                     ELSE IF e.tag # None THEN Place(Untag(moved.manifests, e), e)
                     ELSE Place(moved.manifests, e)]

-----------------------------------------------------------------------------
(* GetDesc and GetByAnnotation *)

Found(li, d) ==
  \/ \E i \in DOMAIN li.manifests : li.manifests[i].dig = d
  \/ \E i \in DOMAIN li.children : li.children[i] = d

\* The digest a tag resolves to: the first entry with the tag.
Resolve(li, t) ==
  LET i == SelectInSeq(li.manifests, LAMBDA e : e.tag = t)
  IN  IF i = 0 THEN None ELSE li.manifests[i].dig

\* The digest of the referrers response of subject s.
Response(li, s) ==
  LET i == SelectInSeq(li.manifests, LAMBDA e : e.subj = s)
  IN  IF i = 0 THEN None ELSE li.manifests[i].dig

-----------------------------------------------------------------------------
(* RmDesc *)

\* Removing a tagged descriptor keeps one entry for its digest.
RmTag(li, e) ==
  LET ms == li.manifests
      At(cur) == cur.dig = e.dig /\ cur.tag = e.tag
      i  == SelectInSeq(ms, At)
  IN  IF \E j \in DOMAIN ms : ms[j].dig = e.dig /\ ms[j].tag # e.tag
      THEN [li EXCEPT !.manifests = Only(ms, {cur \in ToSet(ms) : ~At(cur)})]
      ELSE IF i = 0 THEN li
      ELSE [li EXCEPT !.manifests[i].tag = None]

\* Removing a bare descriptor removes every entry of its digest.
RmDigest(li, d) ==
  [manifests |-> Only(li.manifests, {cur \in ToSet(li.manifests) : cur.dig # d}),
   children  |-> OtherChildren(li.children, d)]

RmDesc(li, e) == IF e.tag # None THEN RmTag(li, e) ELSE RmDigest(li, e.dig)

-----------------------------------------------------------------------------
(* History: what addHistory appends. *)

\* A pushed tag is recorded, also when the index did not change.
AddHistory(e) ==
  IF e.tag = None \/ e.subj # None THEN <<>>
  ELSE <<[tag |-> e.tag, dig |-> e.dig, deleted |-> FALSE]>>

\* Mutant: only the removal of a tag is recorded, not that of a tagged digest.
RmTagHistory(li, e) ==
  SelectSeq([i \in DOMAIN li.manifests |->
               [tag |-> li.manifests[i].tag, dig |-> li.manifests[i].dig, deleted |-> TRUE]],
            LAMBDA h : e.tag # None /\ h.dig = e.dig /\ h.tag = e.tag)

\* The tagged entries that RmDesc(li, e) removes or untags.
RmHistory(li, e) ==
  LET gone == Only(li.manifests, {cur \in ToSet(li.manifests) :
                cur.tag # None /\ cur.dig = e.dig /\ e.tag \in {None, cur.tag}})
  IN  [i \in DOMAIN gone |-> [tag |-> gone[i].tag, dig |-> gone[i].dig, deleted |-> TRUE]]
=============================================================================
