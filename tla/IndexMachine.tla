---------------------------- MODULE IndexMachine ----------------------------
(***************************************************************************)
(* The index of one repository under any sequence of the calls the server  *)
(* makes (IndexInsert, IndexRemove), with the history that index.json      *)
(* keeps of every tag. Calls come from concurrent requests, each of which  *)
(* chose its descriptor from a copy of the index (IndexGet) that may be    *)
(* stale by now: so the descriptor of a removal is any the index could     *)
(* ever have held.                                                         *)
(***************************************************************************)
EXTENDS Naturals, LayoutIndex

CONSTANTS
  Digests,      \* the manifests clients push and the responses the server makes
  Tags,
  Members,      \* the members of each digest, in order, if it is an index
  Answers       \* <<d, s>>: d is a possible referrers response of subject s

ASSUME NoneFresh == None \notin Digests /\ None \notin Tags
ASSUME MembersType == Members \in [Digests -> Seq(Digests)]
ASSUME AnswersType == Answers \subseteq Digests \X Digests

VARIABLES
  index,      \* the LayoutIndex
  history     \* what the last entry of LayoutIndex.History[t] says of tag t:
              \* the digest it was put on, or None if deleted or never put

vars == <<index, history>>

\* Types: AddDesc and RmDesc build descriptors and child lists of what they get.
TypeOK ==
  /\ index.manifests \in Seq([dig: Digests, tag: Tags \union {None}, subj: Digests \union {None}])
  /\ index.children \in Seq(Digests)
  /\ history \in [Tags -> Digests \union {None}]

Init ==
  /\ index = EmptyIndex
  /\ history = [t \in Tags |-> None]

\* The history after more entries were appended: for each tag, the last one counts.
Recorded(h, entries) ==
  [t \in Tags |->
     LET i == SelectLastInSeq(entries, LAMBDA new : new.tag = t)
     IN  IF i = 0 THEN h[t] ELSE IF entries[i].deleted THEN None ELSE entries[i].dig]

\* manifestPut, once per tag or once without (tag None).
Push(d, t) ==
  LET e == Entry(d, t, None)
  IN  /\ index' = AddDesc(index, e, Members[d])
      /\ history' = Recorded(history, AddHistory(e))

\* referrerAdd and referrerDelete: d is the new response for subject s.
Respond(d, s) ==
  LET e == Entry(d, None, s)
  IN  /\ index' = AddDesc(index, e, Members[d])
      /\ history' = Recorded(history, AddHistory(e))

\* manifestDelete of a tag; of a digest, and the collector, with t = None.
IndexRemove(d, t) ==
  LET e == Entry(d, t, None)
  IN  /\ index' = RmDesc(index, e)
      /\ history' = Recorded(history, RmHistory(index, e))

Next ==
  \/ \E d \in Digests, t \in Tags \union {None} : Push(d, t) \/ IndexRemove(d, t)
  \/ \E a \in Answers : Respond(a[1], a[2])

Spec == Init /\ [][Next]_vars

-----------------------------------------------------------------------------
(* Properties *)

\* A tag is on one entry only, and a subject has one referrers response: GetDesc and
\* GetByAnnotation take the first they find, and a second one would come back from the
\* dead when the first is deleted. A digest is listed at the top level or as a child,
\* never both: RmDesc and the collector treat the two differently. (As long as no client
\* pushes an index that has a referrers response as a member.)
WellFormed ==
  LET ms == index.manifests
  IN  /\ \A i, j \in DOMAIN ms :
           (ms[i].tag = ms[j].tag /\ ms[i].tag # None)
             \/ (ms[i].subj = ms[j].subj /\ ms[i].subj # None) => i = j
      /\ \A i \in DOMAIN ms, j \in DOMAIN index.children : ms[i].dig # index.children[j]

\* The history tells where every tag points: its last entry for the tag is the
\* digest the tag resolves to, or a deletion when it resolves to none.
HistoryTracksTags == \A t \in Tags : Resolve(index, t) = history[t]

\* Clients see a TagStore: whatever entries AddDesc moves, merges and reuses, a
\* call changes the tags, responses and digests it names and no others.
Abstract == INSTANCE TagStore WITH
  tags <- [t \in Tags |-> Resolve(index, t)],
  responses <- [s \in Digests |-> Response(index, s)],
  known <- {d \in Digests : Found(index, d)}
TagSpec == Abstract!Spec
=============================================================================
