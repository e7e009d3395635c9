------------------------- MODULE IndexMachineProofs -------------------------
(***************************************************************************)
(* The theorems of IndexMachine, for every set of digests and tags, every  *)
(* index among the digests, and every sequence of calls. The inductive     *)
(* invariant adds to what is claimed that the index is Sound               *)
(* (LayoutIndexProofs): without it GetDesc and GetByAnnotation would       *)
(* depend on which of several entries comes first.                         *)
(***************************************************************************)
EXTENDS IndexMachine, LayoutIndexProofs

\* What is listed as a response is one: a digest that the server made for that subject.
Recording ==
  \A s \in Digests : Response(index, s) # None => <<Response(index, s), s>> \in Answers

\* Types.
Types == index \in Layouts(Digests, Tags) /\ history \in [Tags -> Digests \union {None}]

\* The inductive invariant.
IInv ==
  /\ Types
  /\ Sound(index.manifests)
  /\ HistoryTracksTags
  /\ Recording

-----------------------------------------------------------------------------

\* The last of the appended history entries for a tag counts.
LEMMA LastRecorded ==
  ASSUME NEW h, NEW entries, Len(entries) \in Nat, NEW t \in Tags
  PROVE  LET I == {i \in 1..Len(entries) : entries[i].tag = t}
         IN  /\ I = {} => Recorded(h, entries)[t] = h[t]
             /\ I # {} => \E i \in I : Recorded(h, entries)[t] =
                                         IF entries[i].deleted THEN None ELSE entries[i].dig
<1> DEFINE I == {i \in 1..Len(entries) : entries[i].tag = t}
           i0 == SelectLastInSeq(entries, LAMBDA new : new.tag = t)
<1>1. i0 = IF I # {} THEN Max(I) ELSE 0
  BY Zenon DEF SelectLastInSeq
<1>2. I # {} => Max(I) \in I
  BY Top
<1>3. Recorded(h, entries)[t] =
        IF i0 = 0 THEN h[t] ELSE IF entries[i0].deleted THEN None ELSE entries[i0].dig
  BY Zenon DEF Recorded
<1> HIDE DEF i0
<1>4. CASE I = {}
  BY <1>1, <1>3, <1>4
<1>5. CASE I # {}
  <2>1. i0 \in I /\ i0 # 0
    BY <1>1, <1>2, <1>5
  <2> QED BY <1>3, <1>5, <2>1
<1> QED BY <1>4, <1>5

\* A push with a tag is recorded for this tag, and nothing else is recorded.
LEMMA RecordedPut ==
  ASSUME NEW h, NEW e, NEW t \in Tags
  PROVE  Recorded(h, AddHistory(e))[t] =
           IF e.subj = None /\ e.tag = t THEN e.dig ELSE h[t]
<1> DEFINE entries == AddHistory(e)
           I == {i \in 1..Len(entries) : entries[i].tag = t}
<1>1. Len(entries) \in Nat
  BY DEF AddHistory
<1>2. /\ I = {} => Recorded(h, entries)[t] = h[t]
      /\ I # {} => \E i \in I : Recorded(h, entries)[t] =
                                  IF entries[i].deleted THEN None ELSE entries[i].dig
  BY <1>1, LastRecorded
<1>3. CASE e.subj = None /\ e.tag = t
  <2>1. entries = <<[tag |-> e.tag, dig |-> e.dig, deleted |-> FALSE]>>
    BY <1>3, NoneFresh DEF AddHistory
  <2>2. /\ Len(entries) = 1 /\ entries[1].tag = t /\ entries[1].dig = e.dig
        /\ entries[1].deleted = FALSE
    BY <1>3, <2>1
  <2>3. I = {1}
    BY <2>2
  <2> QED BY <1>2, <1>3, <2>2, <2>3
<1>4. CASE ~(e.subj = None /\ e.tag = t)
  <2>1. I = {}
    <3>1. CASE e.tag = None \/ e.subj # None
      BY <3>1 DEF AddHistory
    <3>2. CASE ~(e.tag = None \/ e.subj # None)
      <4>1. entries = <<[tag |-> e.tag, dig |-> e.dig, deleted |-> FALSE]>>
        BY <3>2 DEF AddHistory
      <4>2. Len(entries) = 1 /\ entries[1].tag = e.tag
        BY <4>1
      <4> QED BY <1>4, <3>2, <4>2
    <3> QED BY <3>1, <3>2
  <2> QED BY <1>2, <1>4, <2>1
<1> QED BY <1>3, <1>4

\* A removal is recorded for every tag it takes away, and for no other.
LEMMA RecordedRemoval ==
  ASSUME NEW h, NEW li \in Layouts(Digests, Tags), NEW e, NEW t \in Tags
  PROVE  Recorded(h, RmHistory(li, e))[t] =
           IF \E x \in ToSet(li.manifests) : x.tag = t /\ x.dig = e.dig /\ e.tag \in {None, t}
           THEN None ELSE h[t]
<1> DEFINE entries == RmHistory(li, e)
           I == {i \in 1..Len(entries) : entries[i].tag = t}
<1>1. Len(entries) \in Nat /\ Forgets(entries, ToSet(li.manifests), e)
  BY RmHistoryIs
<1> HIDE DEF entries
<1>2. /\ I = {} => Recorded(h, entries)[t] = h[t]
      /\ I # {} => \E i \in I : Recorded(h, entries)[t] =
                                  IF entries[i].deleted THEN None ELSE entries[i].dig
  BY <1>1, LastRecorded
<1>3. /\ \A i \in 1..Len(entries) : entries[i].deleted
      /\ I # {} <=> \E x \in ToSet(li.manifests) :
                      x.tag = t /\ x.dig = e.dig /\ e.tag \in {None, t}
  BY <1>1, NoneFresh DEF Forgets
<1>4. CASE I = {}
  BY <1>2, <1>3, <1>4 DEF entries
<1>5. CASE I # {}
  BY <1>2, <1>3, <1>5 DEF entries
<1> QED BY <1>4, <1>5

-----------------------------------------------------------------------------

\* What clients can ask of a sound index, whatever the order of its entries.
LEMMA Views ==
  ASSUME NEW li \in Layouts(Digests, Tags), Sound(li.manifests)
  PROVE  /\ \A t \in Tags :
              /\ Resolve(li, t) \in Digests \union {None}
              /\ Names(ToSet(li.manifests), t, Resolve(li, t))
              /\ \A d : Names(ToSet(li.manifests), t, d) => Resolve(li, t) = d
         /\ \A s \in Digests :
              /\ Response(li, s) \in Digests \union {None}
              /\ Answered(ToSet(li.manifests), s, Response(li, s))
              /\ \A d : Answered(ToSet(li.manifests), s, d) => Response(li, s) = d
         /\ {d \in Digests : Found(li, d)} = Knows(li)
<1>1. li.manifests \in Seq(Descriptors(Digests, Tags)) /\ li.children \in Seq(Digests)
  BY DEF Layouts
<1>2. ASSUME NEW t \in Tags
      PROVE  /\ Resolve(li, t) \in Digests \union {None}
             /\ Names(ToSet(li.manifests), t, Resolve(li, t))
             /\ \A d : Names(ToSet(li.manifests), t, d) => Resolve(li, t) = d
  BY <1>1, NoneFresh, ResolveIs
<1>3. ASSUME NEW s \in Digests
      PROVE  /\ Response(li, s) \in Digests \union {None}
             /\ Answered(ToSet(li.manifests), s, Response(li, s))
             /\ \A d : Answered(ToSet(li.manifests), s, d) => Response(li, s) = d
  BY <1>1, NoneFresh, ResponseIs
<1>4. {d \in Digests : Found(li, d)} = Knows(li)
  <2>1. ToSet(li.manifests) \subseteq Descriptors(Digests, Tags) /\ ToSet(li.children) \subseteq Digests
    BY <1>1, Elements
  <2>2. Knows(li) \subseteq Digests
    BY <2>1 DEF Knows, Digs, Descriptors
  <2> QED BY <2>2, FoundIs
<1> QED BY <1>2, <1>3, <1>4


\* r is li after a push of d with tag t (None for none), as clients see it.
Puts(r, li, d, t) ==
  /\ \A u \in Tags : Resolve(r, u) = IF u = t THEN d ELSE Resolve(li, u)
  /\ \A s \in Digests : Response(r, s) = Response(li, s)
  /\ Knows(r) = Knows(li) \union {d}

\* r is li after d became the response of subject s.
Responds(r, li, d, s) ==
  /\ \A u \in Tags : Resolve(r, u) = Resolve(li, u)
  /\ \A u \in Digests : Response(r, u) = IF u = s THEN d ELSE Response(li, u)
  /\ d \in Knows(r) /\ Knows(r) \subseteq Knows(li) \union {d}
  /\ \A x \in Knows(li) : x \in Knows(r) \/ x = Response(li, s)

\* r is li after tag t was removed from d.
RemovesTag(r, li, d, t) ==
  /\ \A u \in Tags :
       Resolve(r, u) = IF u = t THEN AfterRemoval(Resolve(li, u), d) ELSE Resolve(li, u)
  /\ \A s \in Digests : Response(r, s) = Response(li, s)
  /\ Knows(r) = Knows(li)

\* r is li after digest d was removed.
Removes(r, li, d) ==
  /\ \A u \in Tags : Resolve(r, u) = AfterRemoval(Resolve(li, u), d)
  /\ \A s \in Digests : Response(r, s) = AfterRemoval(Response(li, s), d)
  /\ Knows(r) = Knows(li) \ {d}

\* An index the machine can hold.
IsIndex(li) == li \in Layouts(Digests, Tags) /\ Sound(li.manifests)

\* manifestPut does what Puts says.
LEMMA PutEffect ==
  ASSUME NEW li, IsIndex(li), NEW d \in Digests, NEW t \in Tags \union {None}
  PROVE  LET r == AddDesc(li, Entry(d, t, None), Members[d])
         IN  /\ IsIndex(r) /\ Puts(r, li, d, t)
             /\ Apart(li) /\ NotResponses(li, ToSet(Members[d])) => Apart(r)
<1> DEFINE e == Entry(d, t, None)
           r == AddDesc(li, e, Members[d])
           M == ToSet(li.manifests)
           N == ToSet(r.manifests)
<1>1. /\ e \in Descriptors(Digests, Tags) /\ e.tag = t /\ e.subj = None /\ e.dig = d
      /\ Members[d] \in Seq(Digests)
  BY MembersType DEF Entry, Descriptors
<1> HIDE DEF e
<1>2. /\ IsIndex(r) /\ Added(r, li, e)
      /\ Apart(li) /\ NotResponses(li, ToSet(Members[d])) => Apart(r)
  BY <1>1, NoneFresh, AddDescIs DEF IsIndex
<1> HIDE DEF r
<1>3. /\ TagsStay(N, M, t) /\ ResponsesStay(N, M, None)
      /\ t # None => Names(N, t, d)
      /\ Knows(r) = Knows(li) \union {d}
  BY <1>1, <1>2 DEF Added
<1>4. ASSUME NEW u \in Tags PROVE Resolve(r, u) = IF u = t THEN d ELSE Resolve(li, u)
  BY <1>2, <1>3, NoneFresh, Views DEF IsIndex, TagsStay
<1>5. ASSUME NEW s \in Digests PROVE Response(r, s) = Response(li, s)
  BY <1>2, <1>3, NoneFresh, Views DEF IsIndex, ResponsesStay
<1> QED BY <1>2, <1>3, <1>4, <1>5 DEF Puts, r, e

\* referrerAdd and referrerDelete do what Responds says.
LEMMA RespondEffect ==
  ASSUME NEW li, IsIndex(li), NEW d \in Digests, NEW s \in Digests
  PROVE  LET r == AddDesc(li, Entry(d, None, s), Members[d])
         IN  /\ IsIndex(r) /\ Responds(r, li, d, s)
             /\ Apart(li) /\ NotResponses(li, ToSet(Members[d])) => Apart(r)
<1> DEFINE e == Entry(d, None, s)
           r == AddDesc(li, e, Members[d])
           M == ToSet(li.manifests)
           N == ToSet(r.manifests)
<1>1. /\ e \in Descriptors(Digests, Tags) /\ e.tag = None /\ e.subj = s /\ e.dig = d
      /\ Members[d] \in Seq(Digests) /\ s # None
  BY NoneFresh, MembersType DEF Entry, Descriptors
<1> HIDE DEF e
<1>2. /\ IsIndex(r) /\ Added(r, li, e)
      /\ Apart(li) /\ NotResponses(li, ToSet(Members[d])) => Apart(r)
  BY <1>1, NoneFresh, AddDescIs DEF IsIndex
<1> HIDE DEF r
<1>3. /\ TagsStay(N, M, None) /\ ResponsesStay(N, M, s)
      /\ Answered(N, s, d)
      /\ d \in Knows(r) /\ Knows(r) \subseteq Knows(li) \union {d}
      /\ \A x \in Knows(li) : x \in Knows(r) \/ Answered(M, s, x)
  BY <1>1, <1>2 DEF Added
<1>4. ASSUME NEW u \in Tags PROVE Resolve(r, u) = Resolve(li, u)
  BY <1>2, <1>3, NoneFresh, Views DEF IsIndex, TagsStay
<1>5. ASSUME NEW u \in Digests PROVE Response(r, u) = IF u = s THEN d ELSE Response(li, u)
  BY <1>2, <1>3, NoneFresh, Views DEF IsIndex, ResponsesStay
<1>6. \A x \in Knows(li) : x \in Knows(r) \/ x = Response(li, s)
  BY <1>3, Views DEF IsIndex
<1> QED BY <1>2, <1>3, <1>4, <1>5, <1>6 DEF Responds, r, e

\* manifestDelete of a tag does what RemovesTag says.
LEMMA RemoveTagEffect ==
  ASSUME NEW li, IsIndex(li), NEW d \in Digests, NEW t \in Tags
  PROVE  LET r == RmDesc(li, Entry(d, t, None))
         IN  IsIndex(r) /\ RemovesTag(r, li, d, t) /\ (Apart(li) => Apart(r))
<1> DEFINE e == Entry(d, t, None)
           r == RmDesc(li, e)
           M == ToSet(li.manifests)
           N == ToSet(r.manifests)
<1>1. e.tag = t /\ e.dig = d /\ t # None
  BY NoneFresh DEF Entry
<1> HIDE DEF e
<1>2. r = RmTag(li, e)
  BY <1>1 DEF RmDesc
<1> HIDE DEF r
<1>3. IsIndex(r) /\ TagRemoved(r, li, e) /\ (Apart(li) => Apart(r))
  BY <1>1, <1>2, NoneFresh, RmTagIs DEF IsIndex
<1>4. /\ TagsStay(N, M, t) /\ ResponsesStay(N, M, None)
      /\ \A x : Names(M, t, x) => Names(N, t, AfterRemoval(x, d))
      /\ Knows(r) = Knows(li)
  BY <1>1, <1>3 DEF TagRemoved
<1>5. ASSUME NEW u \in Tags
      PROVE  Resolve(r, u) = IF u = t THEN AfterRemoval(Resolve(li, u), d) ELSE Resolve(li, u)
  BY <1>3, <1>4, NoneFresh, Views DEF IsIndex, TagsStay
<1>6. ASSUME NEW s \in Digests PROVE Response(r, s) = Response(li, s)
  BY <1>3, <1>4, NoneFresh, Views DEF IsIndex, ResponsesStay
<1> QED BY <1>3, <1>4, <1>5, <1>6 DEF RemovesTag, r, e

\* manifestDelete of a digest, and the collector, do what Removes says.
LEMMA RemoveEffect ==
  ASSUME NEW li, IsIndex(li), NEW d \in Digests
  PROVE  LET r == RmDesc(li, Entry(d, None, None))
         IN  IsIndex(r) /\ Removes(r, li, d) /\ (Apart(li) => Apart(r))
<1> DEFINE e == Entry(d, None, None)
           r == RmDesc(li, e)
           M == ToSet(li.manifests)
           N == ToSet(r.manifests)
<1>1. e.tag = None /\ e.dig = d
  BY DEF Entry
<1> HIDE DEF e
<1>2. r = RmDigest(li, d)
  BY <1>1 DEF RmDesc
<1> HIDE DEF r
<1>3. IsIndex(r) /\ DigestRemoved(r, li, d) /\ (Apart(li) => Apart(r))
  BY <1>2, NoneFresh, RmDigestIs DEF IsIndex
<1>4. /\ \A t, x : t # None /\ Names(M, t, x) => Names(N, t, AfterRemoval(x, d))
      /\ \A s, x : s # None /\ Answered(M, s, x) => Answered(N, s, AfterRemoval(x, d))
      /\ Knows(r) = Knows(li) \ {d}
  BY <1>3 DEF DigestRemoved
<1>5. ASSUME NEW u \in Tags PROVE Resolve(r, u) = AfterRemoval(Resolve(li, u), d)
  BY <1>3, <1>4, NoneFresh, Views DEF IsIndex
<1>6. ASSUME NEW s \in Digests PROVE Response(r, s) = AfterRemoval(Response(li, s), d)
  BY <1>3, <1>4, NoneFresh, Views DEF IsIndex
<1> QED BY <1>3, <1>4, <1>5, <1>6 DEF Removes, r, e

-----------------------------------------------------------------------------

\* IInv is inductive: under any sequence of inserts and removals, each with a descriptor
\* as stale as it may be, the index stays sound.
THEOREM Invariance == Spec => []IInv
<1>1. Init => IInv
  <2> SUFFICES ASSUME Init PROVE IInv
    OBVIOUS
  <2> USE DEF Init, EmptyIndex
  <2>1. index \in Layouts(Digests, Tags) /\ history \in [Tags -> Digests \union {None}]
    BY DEF Layouts
  <2>2. ToSet(index.manifests) = {} /\ Len(index.manifests) = 0
    BY DEF ToSet
  <2>3. Sound(index.manifests)
    BY <2>2 DEF Sound, OneTag, OneResponse, OneAnnotation, PlainAlone
  <2>4. \A t \in Tags : Resolve(index, t) = None
    BY <2>1, <2>2, <2>3, Views DEF Names
  <2>5. \A s \in Digests : Response(index, s) = None
    BY <2>1, <2>2, <2>3, Views DEF Answered
  <2> QED BY <2>1, <2>3, <2>4, <2>5 DEF IInv, Types, HistoryTracksTags, Recording
<1>2. IInv /\ [Next]_vars => IInv'
  <2> SUFFICES ASSUME IInv, [Next]_vars PROVE IInv'
    OBVIOUS
  <2>0. /\ IsIndex(index) /\ history \in [Tags -> Digests \union {None}]
        /\ \A t \in Tags : Resolve(index, t) = history[t]
        /\ Recording
    BY DEF IInv, Types, IsIndex, HistoryTracksTags
  <2>1. ASSUME IsIndex(index'), Recording',
               \A t \in Tags : history'[t] = Resolve(index', t),
               history' = [t \in Tags |-> history'[t]]
        PROVE  IInv'
    <3>1. \A t \in Tags : Resolve(index', t) \in Digests \union {None}
      BY <2>1, Views DEF IsIndex
    <3>2. history' \in [Tags -> Digests \union {None}]
      BY <2>1, <3>1
    <3> QED BY <2>1, <3>2 DEF IInv, Types, IsIndex, HistoryTracksTags
  <2>2. ASSUME NEW h, NEW entries
        PROVE  Recorded(h, entries) = [t \in Tags |-> Recorded(h, entries)[t]]
    BY Zenon DEF Recorded
  <2>3. ASSUME NEW d \in Digests, NEW t \in Tags \union {None}, Push(d, t) PROVE IInv'
    <3> DEFINE e == Entry(d, t, None)
    <3>1. index' = AddDesc(index, e, Members[d]) /\ history' = Recorded(history, AddHistory(e))
      BY <2>3 DEF Push
    <3>2. IsIndex(index') /\ Puts(index', index, d, t)
      BY <2>0, <3>1, PutEffect
    <3>3. \A u \in Tags : history'[u] = IF u = t THEN d ELSE history[u]
      BY <3>1, NoneFresh, RecordedPut DEF Entry
    <3>4. \A u \in Tags : history'[u] = Resolve(index', u)
      BY <2>0, <3>2, <3>3 DEF Puts
    <3>5. Recording'
      BY <2>0, <3>2 DEF Puts, Recording
    <3>6. history' = [u \in Tags |-> history'[u]]
      BY <2>2, <3>1
    <3> QED BY <2>1, <3>2, <3>4, <3>5, <3>6
  <2>4. ASSUME NEW d \in Digests, NEW s \in Digests, <<d, s>> \in Answers, Respond(d, s) PROVE IInv'
    <3> DEFINE e == Entry(d, None, s)
    <3>1. index' = AddDesc(index, e, Members[d]) /\ history' = Recorded(history, AddHistory(e))
      BY <2>4 DEF Respond
    <3>2. IsIndex(index') /\ Responds(index', index, d, s)
      BY <2>0, <3>1, RespondEffect
    <3>3. \A u \in Tags : history'[u] = history[u]
      BY <3>1, NoneFresh, RecordedPut DEF Entry
    <3>4. \A u \in Tags : history'[u] = Resolve(index', u)
      BY <2>0, <3>2, <3>3 DEF Responds
    <3>5. Recording'
      BY <2>0, <2>4, <3>2 DEF Responds, Recording
    <3>6. history' = [u \in Tags |-> history'[u]]
      BY <2>2, <3>1
    <3> QED BY <2>1, <3>2, <3>4, <3>5, <3>6
  <2>5. ASSUME NEW d \in Digests, NEW t \in Tags \union {None}, IndexRemove(d, t) PROVE IInv'
    <3> DEFINE e == Entry(d, t, None)
               es == ToSet(index.manifests)
    <3>1. index' = RmDesc(index, e) /\ history' = Recorded(history, RmHistory(index, e))
      BY <2>5 DEF IndexRemove
    <3>2. \A u \in Tags : history'[u] =
            IF \E x \in es : x.tag = u /\ x.dig = d /\ t \in {None, u} THEN None ELSE history[u]
      BY <2>0, <3>1, RecordedRemoval DEF Entry, IsIndex
    <3>3. ASSUME NEW u \in Tags
          PROVE  (\E x \in es : x.tag = u /\ x.dig = d) <=> Resolve(index, u) = d
      BY <2>0, NoneFresh, Views DEF IsIndex, Names
    <3>4. history' = [u \in Tags |-> history'[u]]
      BY <2>2, <3>1
    <3>5. CASE t = None
      <4>1. IsIndex(index') /\ Removes(index', index, d)
        BY <2>0, <3>1, <3>5, RemoveEffect
      <4>2. \A u \in Tags : history'[u] = Resolve(index', u)
        BY <2>0, <3>2, <3>3, <3>5, <4>1 DEF Removes, AfterRemoval
      <4>3. Recording'
        BY <2>0, <4>1 DEF Removes, AfterRemoval, Recording
      <4> QED BY <2>1, <3>4, <4>1, <4>2, <4>3
    <3>6. CASE t \in Tags
      <4>1. IsIndex(index') /\ RemovesTag(index', index, d, t)
        BY <2>0, <3>1, <3>6, RemoveTagEffect
      <4>2. \A u \in Tags : history'[u] = Resolve(index', u)
        BY <2>0, <3>2, <3>3, <3>6, <4>1, NoneFresh DEF RemovesTag, AfterRemoval
      <4>3. Recording'
        BY <2>0, <4>1 DEF RemovesTag, Recording
      <4> QED BY <2>1, <3>4, <4>1, <4>2, <4>3
    <3> QED BY <3>5, <3>6
  <2>6. CASE Next
    <3>1. CASE \E d \in Digests, t \in Tags \union {None} : Push(d, t) \/ IndexRemove(d, t)
      BY <2>3, <2>5, <3>1
    <3>2. CASE \E a \in Answers : Respond(a[1], a[2])
      <4>1. PICK a \in Answers : Respond(a[1], a[2])
        BY <3>2
      <4>2. a[1] \in Digests /\ a[2] \in Digests /\ a = <<a[1], a[2]>>
        BY AnswersType
      <4> QED BY <2>4, <4>1, <4>2
    <3> QED BY <2>6, <3>1, <3>2 DEF Next
  <2>7. CASE UNCHANGED vars
    BY <2>7 DEF vars, IInv, Types, HistoryTracksTags, Recording
  <2> QED BY <2>6, <2>7
<1> QED BY <1>1, <1>2, PTL DEF Spec

\* The index is made of descriptors and digests, the history of digests.
THEOREM TypeCorrect == Spec => []TypeOK
<1>1. IInv => TypeOK
  BY DEF IInv, Types, TypeOK, Layouts, Descriptors
<1> QED BY <1>1, Invariance, PTL

\* The history that index.json keeps tells where every tag points: no insert, retag or
\* removal changes a tag unrecorded, and no deletion is recorded of a tag that stays.
THEOREM HistoryTracks == Spec => []HistoryTracksTags
<1>1. IInv => HistoryTracksTags
  BY DEF IInv
<1> QED BY <1>1, Invariance, PTL

\* No client pushes an index with a referrers response of the server among its members.
ResponsesAreNoMembers ==
  \A d \in Digests, a \in Answers : a[1] \notin ToSet(Members[d])

\* One entry per tag, one response per subject (which IInv gives without the premise), and
\* no digest both listed and a child: that needs the premise, for AddDesc moves the bare
\* entry of a member to the child list and leaves the response that has the same digest.
THEOREM IndexWellFormed ==
  ASSUME ResponsesAreNoMembers
  PROVE  Spec => []WellFormed
<1>1. Init => Apart(index)
  BY DEF Init, EmptyIndex, Apart, Digs, ToSet
<1>2. ASSUME NEW d \in Digests, IInv PROVE NotResponses(index, ToSet(Members[d]))
  <2>1. /\ IsIndex(index) /\ Recording
        /\ index.manifests \in Seq(Descriptors(Digests, Tags))
    BY <1>2 DEF IInv, Types, IsIndex, Layouts
  <2> SUFFICES ASSUME NEW x \in ToSet(index.manifests), x.subj # None,
                      x.dig \in ToSet(Members[d])
               PROVE  FALSE
    BY DEF NotResponses
  <2>2. x \in Descriptors(Digests, Tags)
    BY <2>1, Elements
  <2>3. x.subj \in Digests /\ x.dig \in Digests
    BY <2>2 DEF Descriptors
  <2>4. Response(index, x.subj) = x.dig
    <3>1. Answered(ToSet(index.manifests), x.subj, x.dig)
      BY <2>3, NoneFresh DEF Answered
    <3> QED BY <2>1, <2>3, <3>1, Views DEF IsIndex
  <2>5. <<x.dig, x.subj>> \in Answers
    BY <2>1, <2>3, <2>4, NoneFresh DEF Recording
  <2> QED BY <2>5 DEF ResponsesAreNoMembers
<1>3. IInv /\ Apart(index) /\ [Next]_vars => Apart(index)'
  <2> SUFFICES ASSUME IInv, Apart(index), [Next]_vars PROVE Apart(index')
    OBVIOUS
  <2>0. IsIndex(index)
    BY DEF IInv, Types, IsIndex
  <2>1. ASSUME NEW d \in Digests, NEW t \in Tags \union {None}, Push(d, t) PROVE Apart(index')
    BY <1>2, <2>0, <2>1, PutEffect DEF Push
  <2>2. ASSUME NEW d \in Digests, NEW s \in Digests, Respond(d, s) PROVE Apart(index')
    BY <1>2, <2>0, <2>2, RespondEffect DEF Respond
  <2>3. ASSUME NEW d \in Digests, NEW t \in Tags \union {None}, IndexRemove(d, t)
        PROVE  Apart(index')
    BY <2>0, <2>3, RemoveTagEffect, RemoveEffect DEF IndexRemove
  <2>4. CASE Next
    <3>1. \A a \in Answers : a[1] \in Digests /\ a[2] \in Digests
      BY AnswersType
    <3> QED BY <2>1, <2>2, <2>3, <2>4, <3>1 DEF Next
  <2>5. CASE UNCHANGED vars
    BY <2>5 DEF vars
  <2> QED BY <2>4, <2>5
<1>4. IInv /\ Apart(index) => WellFormed
  <2> SUFFICES ASSUME IInv, Apart(index) PROVE WellFormed
    OBVIOUS
  <2> DEFINE ms == index.manifests
  <2>1. ms \in Seq(Descriptors(Digests, Tags)) /\ index.children \in Seq(Digests)
    BY DEF IInv, Types, Layouts
  <2>2. DOMAIN ms = 1..Len(ms) /\ DOMAIN index.children = 1..Len(index.children)
    BY <2>1
  <2>3. \A i, j \in DOMAIN ms :
          (ms[i].tag = ms[j].tag /\ ms[i].tag # None)
            \/ (ms[i].subj = ms[j].subj /\ ms[i].subj # None) => i = j
    BY <2>2 DEF IInv, Sound, OneTag, OneResponse
  <2>4. \A i \in DOMAIN ms, j \in DOMAIN index.children : ms[i].dig # index.children[j]
    <3>1. /\ \A i \in DOMAIN ms : ms[i] \in ToSet(ms)
          /\ \A j \in DOMAIN index.children : index.children[j] \in ToSet(index.children)
      BY DEF ToSet
    <3> QED BY <3>1 DEF Apart, Digs
  <2> QED BY <2>3, <2>4 DEF WellFormed
<1> QED BY <1>1, <1>3, <1>4, Invariance, PTL DEF Spec

\* Clients see a TagStore: the order, merging, moving and reuse of entries never shows.
THEOREM ImplementsTagStore == Spec => TagSpec
<1>1. Init /\ IInv => Abstract!Init
  <2> SUFFICES ASSUME Init, IInv PROVE Abstract!Init
    OBVIOUS
  <2>1. IsIndex(index)
    BY DEF IInv, Types, IsIndex
  <2>2. ToSet(index.manifests) = {} /\ Knows(index) = {}
    BY DEF Init, EmptyIndex, ToSet, Knows, Digs
  <2>3. \A t \in Tags : Resolve(index, t) = None
    BY <2>1, <2>2, Views DEF Names, IsIndex
  <2>4. \A s \in Digests : Response(index, s) = None
    BY <2>1, <2>2, Views DEF Answered, IsIndex
  <2>5. {d \in Digests : Found(index, d)} = {}
    BY <2>1, <2>2, Views DEF IsIndex
  <2> QED BY <2>3, <2>4, <2>5 DEF Abstract!Init
<1>2. IInv /\ IInv' /\ [Next]_vars => [Abstract!Next]_(Abstract!vars)
  <2> SUFFICES ASSUME IInv, IInv', [Next]_vars PROVE [Abstract!Next]_(Abstract!vars)
    OBVIOUS
  <2> DEFINE known == {x \in Digests : Found(index, x)}
             known2 == {x \in Digests : Found(index', x)}
             tags == [u \in Tags |-> Resolve(index, u)]
             tags2 == [u \in Tags |-> Resolve(index', u)]
             responses == [u \in Digests |-> Response(index, u)]
             responses2 == [u \in Digests |-> Response(index', u)]
  <2>0. /\ IsIndex(index) /\ IsIndex(index')
        /\ known = Knows(index) /\ known2 = Knows(index')
    BY Views DEF IInv, Types, IsIndex
  <2> HIDE DEF known, known2
  <2>1. ASSUME NEW d \in Digests, NEW t \in Tags \union {None}, Push(d, t) PROVE Abstract!Next
    <3>1. Puts(index', index, d, t)
      BY <2>0, <2>1, PutEffect DEF Push
    <3>2. responses2 = responses /\ known2 = known \union {d}
      BY <2>0, <3>1 DEF Puts
    <3>3. CASE t = None
      <4>1. tags2 = tags
        BY <3>1, <3>3, NoneFresh DEF Puts
      <4>2. Abstract!Put(d)
        BY <3>2, <4>1 DEF Abstract!Put, known, known2
      <4> QED BY <4>2 DEF Abstract!Next
    <3>4. CASE t \in Tags
      <4>1. tags2 = [tags EXCEPT ![t] = d]
        BY <3>1 DEF Puts
      <4>2. Abstract!PutTagged(d, t)
        BY <3>2, <4>1 DEF Abstract!PutTagged, known, known2
      <4> QED BY <3>4, <4>2 DEF Abstract!Next
    <3> QED BY <3>3, <3>4
  <2>2. ASSUME NEW d \in Digests, NEW s \in Digests, Respond(d, s) PROVE Abstract!Next
    <3>1. Responds(index', index, d, s)
      BY <2>0, <2>2, RespondEffect DEF Respond
    <3>2. tags2 = tags
      BY <3>1 DEF Responds
    <3>3. responses2 = [responses EXCEPT ![s] = d]
      BY <3>1 DEF Responds
    <3> DEFINE replaced == known \ known2
    <3>4. /\ replaced \in SUBSET ({responses[s]} \ {None, d})
          /\ known2 = (known \union {d}) \ replaced
      <4>1. d \in known2 /\ known2 \subseteq known \union {d}
        BY <2>0, <3>1 DEF Responds
      <4>2. \A x \in known : x \in known2 \/ x = responses[s]
        BY <2>0, <3>1 DEF Responds
      <4>3. None \notin known
        BY NoneFresh DEF known
      <4> QED BY <4>1, <4>2, <4>3
    <3> HIDE DEF replaced
    <3>5. Abstract!PutResponse(d, s)
      BY <3>2, <3>3, <3>4 DEF Abstract!PutResponse, known, known2
    <3> QED BY <3>5 DEF Abstract!Next
  <2>3. ASSUME NEW d \in Digests, NEW t \in Tags, IndexRemove(d, t) PROVE Abstract!Next
    <3>1. RemovesTag(index', index, d, t)
      BY <2>0, <2>3, RemoveTagEffect DEF IndexRemove
    <3>2. responses2 = responses /\ known2 = known
      BY <2>0, <3>1 DEF RemovesTag
    <3>3. tags2 = [tags EXCEPT ![t] = IF @ = d THEN None ELSE @]
      BY <3>1 DEF RemovesTag, AfterRemoval
    <3>4. Abstract!RemoveTag(d, t)
      BY <3>2, <3>3 DEF Abstract!RemoveTag, known, known2
    <3> QED BY <3>4 DEF Abstract!Next
  <2>4. ASSUME NEW d \in Digests, IndexRemove(d, None) PROVE Abstract!Next
    <3>1. Removes(index', index, d)
      BY <2>0, <2>4, RemoveEffect DEF IndexRemove
    <3>2. known2 = known \ {d}
      BY <2>0, <3>1 DEF Removes
    <3>3. /\ tags2 = [u \in Tags |-> IF tags[u] = d THEN None ELSE tags[u]]
          /\ responses2 = [u \in Digests |-> IF responses[u] = d THEN None ELSE responses[u]]
      BY <3>1 DEF Removes, AfterRemoval
    <3>4. Abstract!Remove(d)
      BY <3>2, <3>3 DEF Abstract!Remove, known, known2
    <3> QED BY <3>4 DEF Abstract!Next
  <2>5. CASE Next
    <3>1. \A a \in Answers : a[1] \in Digests /\ a[2] \in Digests
      BY AnswersType
    <3> QED BY <2>1, <2>2, <2>3, <2>4, <2>5, <3>1 DEF Next
  <2>6. CASE UNCHANGED vars
    <3>1. index' = index
      BY <2>6 DEF vars
    <3> QED BY <3>1 DEF Abstract!vars
  <2> QED BY <2>5, <2>6
<1> QED BY <1>1, <1>2, Invariance, PTL DEF Spec, TagSpec, Abstract!Spec
=============================================================================
