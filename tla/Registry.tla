------------------------------ MODULE Registry ------------------------------
(***************************************************************************)
(* The content of one repository: its blobs, its index, the requests that  *)
(* change them (manifest.go, referrer.go, blob.go) and collections, over   *)
(* the in-memory store.                                                    *)
(*                                                                         *)
(* Each call a handler makes on the repository holds the repository's      *)
(* mutex, so a call is a step and handlers interleave between calls. The   *)
(* collector runs while no request has the repository open: this is what   *)
(* MemStore establishes (KeeperExclusive), so here it is one step, enabled *)
(* when every handler is idle.                                             *)
(***************************************************************************)
EXTENDS Collector

CONSTANTS
  Handlers,
  Servers              \* [conf, clients]: configurations, and the clients of each

\* conf       grace: GracePeriod is not negative; sparse: manifests may be pushed
\*            without what they refer to (API.Manifest)
\* clients    upload: blobs, push: <<manifest, tags>> that they push; what they delete, nothing
\*            if the API does not allow it; atOnce: requests run concurrently
ASSUME ServersType ==
  \A s \in Servers :
    /\ {s.conf.untagged, s.conf.withSubj, s.conf.dangling, s.conf.grace, s.conf.sparse} \subseteq BOOLEAN
    /\ s.clients.upload \subseteq Blobs
    /\ s.clients.push \subseteq Manifests \X Seq(Tags)
    /\ s.clients.deleteTags \subseteq Tags
    /\ s.clients.deleteManifests \subseteq Manifests
    /\ s.clients.deleteBlobs \subseteq Blobs \union Manifests
    /\ s.clients.atOnce \in BOOLEAN

VARIABLES
  clients,  \* see Servers; it stays
  pc, req   \* each handler's next call, and its local variables

store == <<blobs, fresh>>
setup == <<conf, clients>>
vars  == <<blobs, fresh, index, pc, req, conf, clients>>

Idle == [op |-> "none", entry |-> Entry(None, None, None), tags |-> <<>>, resp |-> <<>>]

Init ==
  /\ \E s \in Servers : conf = s.conf /\ clients = s.clients
  /\ blobs = {} /\ fresh = {} /\ index = EmptyIndex
  /\ pc = [h \in Handlers |-> "idle"]
  /\ req = [h \in Handlers |-> Idle]

-----------------------------------------------------------------------------
(* The blob store *)

\* Mutant: the content is lost when the upload closes.
LoseBlob(d) == blobs' = blobs /\ fresh' = fresh \union {d}
\* BlobCreate, Write and Close of content the store may have already: then
\* BlobCreate returns ErrBlobExists and nothing is written.
CreateBlob(d) ==
  /\ blobs' = blobs \union {d}
  /\ fresh' = IF d \in blobs \/ ~conf.grace THEN fresh ELSE fresh \union {d}

\* A client completes an upload. Nothing looks for the blob now, so the content
\* is written again if it is there (memRepoUpload.Close). The session has left
\* the repository (repo.Done): this does not wait for the collector.
BlobUpload(b) ==
  /\ blobs' = blobs \union {b}
  /\ fresh' = IF conf.grace THEN fresh \union {b} ELSE fresh
  /\ UNCHANGED <<index, pc, req>>

BlobDelete(d) ==
  /\ d \in blobs
  /\ blobs' = blobs \ {d} /\ fresh' = fresh \ {d}
  /\ UNCHANGED <<index, pc, req>>

\* The grace period of a blob ends; of which one first is left open, which allows
\* every order of the times they were written.
Age(d) ==
  /\ d \in fresh
  /\ fresh' = fresh \ {d}
  /\ UNCHANGED <<blobs, index, pc, req>>

-----------------------------------------------------------------------------
(* PUT of a manifest *)

Go(h, label)    == pc' = [pc EXCEPT ![h] = label]
Return(h)       == Go(h, "idle") /\ req' = [req EXCEPT ![h] = Idle]

Arrive(h) ==
  /\ pc[h] = "idle"
  /\ clients.atOnce \/ \A g \in Handlers : pc[g] = "idle"

\* Mutant: the manifest is not validated.
NoVerify(d)     == TRUE
\* manifestVerifyImage and manifestVerifyIndex: every blob, or manifest, that the
\* manifest lists is in the blob store.
Verified(d)     == conf.sparse \/ Refs(d) \subseteq blobs

\* A manifest that does not verify is rejected, which changes nothing. The checks
\* of one manifest, a BlobGet for each digest, are taken together: only BlobDelete
\* removes a blob while a request is under way.
PutBegin(h, d, tags) ==
  /\ Arrive(h)
  /\ Verified(d)
  /\ req' = [req EXCEPT ![h] =
       [Idle EXCEPT !.op = "put", !.entry = Entry(d, None, None),
                    !.tags = IF tags = <<>> THEN <<None>> ELSE tags]]
  /\ Go(h, "store")
  /\ UNCHANGED <<store, index>>

\* BlobCreate, Write and Close: nothing sees the upload before its Close.
PutStore(h) ==
  /\ pc[h] = "store"
  /\ CreateBlob(req[h].entry.dig)
  /\ Go(h, "insert")
  /\ UNCHANGED <<index, req>>

\* IndexInsert, once per tag; then the referrers response, if there is a subject.
PutInsert(h) ==
  LET r == req[h]
      d == r.entry.dig
      members == IF Parsed(d).kind = "index" THEN Parsed(d).refs ELSE <<>>
  IN  /\ pc[h] = "insert"
      /\ index' = AddDesc(index, Entry(d, Head(r.tags), None), members)
      /\ IF Len(r.tags) > 1
         THEN /\ req' = [req EXCEPT ![h].tags = Tail(@)]
              /\ UNCHANGED pc
         ELSE IF d \in Referrers
         THEN Go(h, "respRead") /\ UNCHANGED req
         ELSE Return(h)
      /\ UNCHANGED store

-----------------------------------------------------------------------------
(* The referrers response: read by IndexGet and BlobGet, then written back *)

Subject(h) == Parsed(req[h].entry.dig).subj

\* Mutant: the old response is not read.
NoResponse(s) == None
\* The response the handler can read now.
Readable(s) == IF Response(index, s) \in blobs THEN Response(index, s) ELSE None

\* Mutant: the digest is appended, listed already or not.
AppendListed(list, d) == Append(list, d)
\* An entry for the digest is replaced in place, else appended.
Listed(list, d) == IF d \in ToSet(list) THEN list ELSE Append(list, d)

\* referrerAdd.
AddReadResponse(h) ==
  LET old == Readable(Subject(h))
  IN  /\ pc[h] = "respRead" /\ req[h].op = "put"
      /\ req' = [req EXCEPT ![h].resp =
                    Listed(IF old = None THEN <<>> ELSE old, req[h].entry.dig)]
      /\ Go(h, "respStore")
      /\ UNCHANGED <<store, index>>

\* referrerDelete: without a response that can be read there is nothing to do,
\* and the deletion goes on.
DeleteReadResponse(h) ==
  LET old == Readable(Subject(h))
  IN  /\ pc[h] = "respRead" /\ req[h].op = "delete"
      /\ IF old = None
         THEN Go(h, "remove") /\ UNCHANGED req
         ELSE /\ req' = [req EXCEPT ![h].resp =
                           Only(old, ToSet(old) \ {req[h].entry.dig})]
              /\ Go(h, "respStore")
      /\ UNCHANGED <<store, index>>

StoreResponse(h) ==
  /\ pc[h] = "respStore"
  /\ CreateBlob(req[h].resp)
  /\ Go(h, "respInsert")
  /\ UNCHANGED <<index, req>>

InsertResponse(h) ==
  LET new == req[h].resp
  IN  /\ pc[h] = "respInsert"
      /\ index' = AddDesc(index, Entry(new, None, Subject(h)), new)
      /\ IF req[h].op = "put"
         THEN Return(h)
         ELSE Go(h, "remove") /\ UNCHANGED req
      /\ UNCHANGED store

-----------------------------------------------------------------------------
(* DELETE of a manifest, by tag or by digest *)

\* IndexGet and GetDesc; the manifest is read to find its subject.
DeleteBegin(h, e) ==
  /\ Arrive(h)
  /\ req' = [req EXCEPT ![h] = [Idle EXCEPT !.op = "delete", !.entry = e]]
  /\ Go(h, IF e.dig \in blobs \cap Referrers THEN "respRead" ELSE "remove")
  /\ UNCHANGED <<store, index>>

DeleteTag(h, t) ==
  /\ Resolve(index, t) # None
  /\ DeleteBegin(h, Entry(Resolve(index, t), t, None))

DeleteDigest(h, d) ==
  /\ Found(index, d)
  /\ DeleteBegin(h, Entry(d, None, None))

DeleteRemove(h) ==
  /\ pc[h] = "remove"
  /\ index' = RmDesc(index, req[h].entry)
  /\ Return(h)
  /\ UNCHANGED store

-----------------------------------------------------------------------------
(* The collector *)

GC ==
  /\ \A h \in Handlers : pc[h] = "idle"
  /\ UNCHANGED <<pc, req>>
  /\ blobs' = blobs \ Garbage
  /\ fresh' = fresh \ Garbage
  /\ index' = Collected

-----------------------------------------------------------------------------
Next ==
  \/ \E b \in clients.upload : BlobUpload(b)
  \/ \E d \in clients.deleteBlobs : BlobDelete(d)
  \/ \E d \in fresh : Age(d)
  \/ \E h \in Handlers :
       \/ \E p \in clients.push : PutBegin(h, p[1], p[2])
       \/ PutStore(h) \/ PutInsert(h) \/ AddReadResponse(h)
       \/ \E t \in clients.deleteTags : DeleteTag(h, t)
       \/ \E d \in clients.deleteManifests : DeleteDigest(h, d)
       \/ DeleteReadResponse(h) \/ DeleteRemove(h)
       \/ StoreResponse(h) \/ InsertResponse(h)
  \/ GC

Spec == Init /\ [][Next /\ UNCHANGED setup]_vars

-----------------------------------------------------------------------------
(* Properties *)

Digests == Blobs \union Manifests \union Seq(Referrers)

\* Types; only a blob in the store has an age.
TypeOK ==
  /\ blobs \subseteq Digests /\ fresh \subseteq blobs
  /\ index.manifests \in Seq([dig: Digests, tag: Tags \union {None},
                              subj: Manifests \union {None}])
  /\ index.children \in Seq(Digests)
  /\ pc \in [Handlers -> {"idle", "store", "insert", "respRead", "respStore",
                          "respInsert", "remove"}]

\* Unless clients delete by digest or push sparse manifests, what the index names
\* can be pulled, between any two calls of any requests and across collections:
\* no entry, child or tag lacks its content; a tagged image has its config and
\* layers, and each member of a tagged index is a manifest that the index can find,
\* unless the PUT of that member is still to be answered.
Pullable ==
  clients.deleteManifests = {} /\ clients.deleteBlobs = {} /\ ~conf.sparse =>
    /\ \A e \in Entries : e.dig \in blobs
    /\ ToSet(index.children) \subseteq blobs
    /\ \A e \in {f \in Entries : f.tag # None} :
         /\ Refs(e.dig) \subseteq blobs
         /\ Parsed(e.dig).kind = "index" =>
              \A d \in Refs(e.dig) :
                Found(index, d) \/ \E h \in Handlers : req[h].op = "put" /\ req[h].entry.dig = d

\* What a client reaches from the tags, by pulling and by asking for the
\* referrers of what it pulled.
Reached ==
  LET Step(S) == S \union ({Response(index, d) : d \in S \intersect blobs} \ {None})
                   \union UNION {Refs(d) : d \in S \intersect blobs}
  IN  Step(Step(Step(Step({e.dig : e \in {f \in Entries : f.tag # None}}))))

\* A collection takes nothing that a client reaches from a tag, in the blob store
\* or in the index, and moves no tag, whatever the policy.
GCKeepsTagged ==
  [][GC => /\ Reached \intersect blobs \subseteq blobs'
           /\ \A d \in Reached \intersect blobs : Found(index, d) => Found(index', d)
           /\ \A t \in Tags : Resolve(index, t) \in blobs => Resolve(index', t) = Resolve(index, t)]_vars

\* Nothing young goes but responses, which the server can write again: not the
\* manifests nor the blobs of a push in progress (config.go:68 GracePeriod).
GCKeepsFresh ==
  [][GC => fresh \intersect (Blobs \union Manifests) \subseteq blobs']_vars

\* One collection suffices: a second one finds nothing that the first left, and
\* nothing that only the first made garbage. So every entry it leaves has its
\* blob again, also when blobs were deleted under the index.
GCIdempotent ==
  [][GC => Garbage' = {} /\ Collected' = index']_vars

\* The policy keeps responses without their subject, no two requests can read the same
\* old response, and clients delete neither blobs nor the tags of referrers: DELETE of a
\* tag takes the manifest from the response also where another tag keeps it.
KeepsResponses ==
  /\ ~conf.withSubj /\ ~conf.dangling /\ ~clients.atOnce
  /\ clients.deleteBlobs = {}
  /\ \A p \in clients.push : p[1] \in Referrers => ToSet(p[2]) \intersect clients.deleteTags = {}

\* The referrers API answers with every manifest of the subject that the index can
\* find, with nothing else, and with nothing twice: referrerAdd and referrerDelete
\* keep the response in step with the index while no request is under way.
ReferrersAgree ==
  KeepsResponses /\ (\A h \in Handlers : pc[h] = "idle") =>
    /\ \A m \in Referrers : Found(index, m) =>
         LET r == Response(index, Content[m].subj)
         IN  r # None /\ m \in Refs(r)
    /\ \A e \in {f \in Entries : f.subj # None} :
         /\ \A m \in Refs(e.dig) : Content[m].subj = e.subj /\ Found(index, m) /\ m \in blobs
         /\ Len(e.dig) = Cardinality(Refs(e.dig))

(* What comments promise and the code does not keep; no run checks these. *)

\* No referrer is missing from its subject's response while no request is under way
\* (referrer.go:283 "referrerAdd adds a new referrer entry to a given subject").
ReferrersListed ==
  (\A h \in Handlers : pc[h] = "idle") =>
    \A m \in Referrers : Found(index, m) =>
      LET r == Response(index, Content[m].subj)
      IN  r # None /\ m \in Refs(r)

\* The members of an index that is accepted can be found, or are still being pushed
\* (manifest.go:353 "validate manifests exist").
MembersFound ==
  [][\A h \in Handlers :
       pc[h] = "insert" /\ pc'[h] # "insert" =>
         \A m \in Refs(req[h].entry.dig) \ Blobs :
           Found(index', m) \/ \E g \in Handlers : req[g].op = "put" /\ req[g].entry.dig = m]_vars

\* What has been pushed is young (config.go:68 "time to preserve recently pushed
\* manifests and blobs").
PushedIsFresh ==
  [][\A h \in Handlers : pc[h] = "store" /\ pc'[h] = "insert" => req[h].entry.dig \in fresh']_vars
=============================================================================
