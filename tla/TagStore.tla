------------------------------ MODULE TagStore ------------------------------
(***************************************************************************)
(* What the index of a repository promises its clients, without entries,   *)
(* their order or their annotations: each tag names at most one digest,    *)
(* each subject has at most one referrers response, and a digest that was  *)
(* put stays known until it is removed by name (or was only a response     *)
(* that a newer response replaced), however its tags come and go.          *)
(***************************************************************************)
CONSTANTS Digests, Tags, None

VARIABLES
  tags,       \* what each tag names
  responses,  \* the referrers response of each subject
  known       \* the digests a client can get

vars == <<tags, responses, known>>

\* Types.
TypeOK ==
  /\ tags \in [Tags -> Digests \union {None}]
  /\ responses \in [Digests -> Digests \union {None}]
  /\ known \subseteq Digests

Init ==
  /\ tags = [t \in Tags |-> None]
  /\ responses = [s \in Digests |-> None]
  /\ known = {}

Put(d) ==
  /\ known' = known \union {d}
  /\ UNCHANGED <<tags, responses>>

PutTagged(d, t) ==
  /\ known' = known \union {d}
  /\ tags' = [tags EXCEPT ![t] = d]
  /\ UNCHANGED responses

PutResponse(d, s) ==
  /\ \E replaced \in SUBSET ({responses[s]} \ {None, d}) :
       known' = (known \union {d}) \ replaced
  /\ responses' = [responses EXCEPT ![s] = d]
  /\ UNCHANGED tags

\* A client removes the tag it saw on d; if the tag moved on, nothing happens.
RemoveTag(d, t) ==
  /\ tags' = [tags EXCEPT ![t] = IF @ = d THEN None ELSE @]
  /\ UNCHANGED <<responses, known>>

\* A digest goes, with every tag and every response that is this digest.
Remove(d) ==
  /\ known' = known \ {d}
  /\ tags' = [t \in Tags |-> IF tags[t] = d THEN None ELSE tags[t]]
  /\ responses' = [s \in Digests |-> IF responses[s] = d THEN None ELSE responses[s]]

Next ==
  \E d \in Digests :
    \/ Put(d) \/ Remove(d)
    \/ \E t \in Tags : PutTagged(d, t) \/ RemoveTag(d, t)
    \/ \E s \in Digests : PutResponse(d, s)

Spec == Init /\ [][Next]_vars
=============================================================================
