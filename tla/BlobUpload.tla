----------------------------- MODULE BlobUpload -----------------------------
(***************************************************************************)
(* The uploads of one repository as clients see them: the requests of      *)
(* blob.go, each of which makes several calls on an upload session, over   *)
(* the sessions and blobs of the in-memory store.                          *)
(*                                                                         *)
(* Content is a sequence of chunks, a digest the pair of an algorithm and  *)
(* the content it was computed of. A client wants to upload the chunks of  *)
(* Want, and names in each request the offset that it believes the session *)
(* to have. Requests come twice, late and out of order, and break off.     *)
(* Each call on a session holds the session's mutex and is a step.         *)
(***************************************************************************)
EXTENDS Naturals, Sequences, FiniteSets

CONSTANTS
  Handlers, Sessions,  \* requests; ids of upload sessions
  Want,                \* the content to upload
  Algorithms,
  Source,              \* digests that the repository to mount from has
  MaxSize, MaxBlobs,   \* bounds: chunks in a session, blobs at a time
  None

\* What Want consists of.
Chunks == {Want[i] : i \in DOMAIN Want}

ASSUME UploadConstants ==
  /\ Want \in Seq(Chunks) /\ Want # <<>>
  /\ Source \subseteq Algorithms \X {Want}
  /\ MaxSize \in Nat /\ MaxBlobs \in Nat
  /\ None \notin Sessions /\ \A d \in Algorithms \X {Want} : d # None

VARIABLES
  blobs,     \* mr.blobs: content by digest
  upload,    \* the memRepoUploads, by session: buffer, hashed (what the digest
             \* writer has seen), alg, expect, and told: whether a client knows its id
  uploads,   \* mr.uploads: the sessions that can still be found
  serial,    \* clients wait for a request to end before they use its session again;
             \* it stays
  pc, req    \* each request's next call, and its local variables

session == <<upload, uploads>>
vars    == <<blobs, upload, uploads, serial, pc, req>>

Wanted == Algorithms \X {Want}      \* the digests that clients name

Idle == [op |-> "none", s |-> None, at |-> 0, body |-> <<>>, dig |-> None]

Init ==
  /\ blobs = <<>> /\ upload = <<>> /\ uploads = {}
  /\ serial \in BOOLEAN
  /\ pc = [h \in Handlers |-> "idle"]
  /\ req = [h \in Handlers |-> Idle]

\* m[key] = value of a Go map.
With(m, key, value) == [k \in DOMAIN m \union {key} |-> IF k = key THEN value ELSE m[k]]

-----------------------------------------------------------------------------
(* The session *)

NewSession(alg, expect, told) ==
  [buffer |-> <<>>, hashed |-> <<>>, alg |-> alg, expect |-> expect, told |-> told]

Size(s)   == Len(upload[s].buffer)
Digest(u) == <<u.alg, u.hashed>>

Write(u, chunk) == [u EXCEPT !.buffer = Append(@, chunk), !.hashed = Append(@, chunk)]

ChangeAlgorithm(u, alg) ==
  IF alg = u.alg \/ u.buffer # <<>> THEN u ELSE [u EXCEPT !.alg = alg, !.hashed = <<>>]

\* Mutant: the new writer does not see what was written before.
RescanNothing(u, d) == IF d[1] = u.alg THEN u ELSE [u EXCEPT !.alg = d[1], !.hashed = <<>>]
\* Verify, if the digest is of another algorithm, changes to it for good.
Rescan(u, d) == IF d[1] = u.alg THEN u ELSE [u EXCEPT !.alg = d[1], !.hashed = u.buffer]

\* Mutant: any content will do.
AnyContent(u, d) == TRUE
Verified(u, d) == Digest(Rescan(u, d)) = d

-----------------------------------------------------------------------------
(* Requests *)

Go(h, label) == pc' = [pc EXCEPT ![h] = label]
Return(h)    == Go(h, "idle") /\ req' = [req EXCEPT ![h] = Idle]

Arrive(h, r, label) ==
  /\ pc[h] = "idle"
  /\ req' = [req EXCEPT ![h] = r]
  /\ Go(h, label)

\* Of the sessions in u, those are left that can be found or that a request has.
\* The others are gone, and their ids are used again.
Kept(u) == [s \in DOMAIN u \intersect (uploads' \union {req'[h].s : h \in Handlers}) |-> u[s]]
Forget  == upload' = Kept(upload)

\* BlobSession: what follows works on the session even if it is dropped meanwhile.
\* A request for a session that is not found is refused.
Found(s) ==
  /\ s \in uploads /\ upload[s].told
  /\ serial => \A h \in Handlers : req[h].s # s

\* BlobCreate of a digest that is there already: answered 201 at once.
Exists(d) == d \in DOMAIN blobs

Create(s, alg, expect, told) ==
  /\ s \notin DOMAIN upload
  /\ upload' = With(upload, s, NewSession(alg, expect, told))
  /\ uploads' = uploads \union {s}

\* POST, which answers with the session (its expect is d after a failed mount), or
\* with a body that is uploaded at once, complete or not.
PostSession(h, s, alg) ==
  /\ pc[h] = "idle"
  /\ Create(s, alg, None, TRUE)
  /\ UNCHANGED <<blobs, pc, req>>

PostMonolithic(h, s, d, body) ==
  /\ ~Exists(d)
  /\ Create(s, d[1], d, FALSE)
  /\ Arrive(h, [op |-> "post", s |-> s, at |-> 0, body |-> body, dig |-> d], "copy")
  /\ UNCHANGED blobs

\* POST with mount and from: the content comes from the other repository.
Mount(h, s, d) ==
  /\ ~Exists(d)
  /\ Create(s, d[1], d, FALSE)
  /\ Arrive(h, [op |-> "mount", s |-> s, at |-> 0, body |-> <<>>, dig |-> d], "source")
  /\ UNCHANGED blobs

MountOpen(h) ==
  /\ pc[h] = "source" /\ req[h].dig \in Source
  /\ req' = [req EXCEPT ![h].body = req[h].dig[2]]
  /\ Go(h, "copy")
  /\ UNCHANGED <<blobs, session>>

\* The blob is not there, or the copy fails: the session ends, and the POST goes on
\* without the mount, with a new session that expects the digest.
MountGiveUp(h) ==
  /\ \/ pc[h] = "source" /\ req[h].dig \notin Source
     \/ pc[h] = "copy" /\ req[h].op = "mount" /\ req[h].body # <<>>
  /\ uploads' = uploads \ {req[h].s}
  /\ req' = [req EXCEPT ![h].s = None, ![h].body = <<>>]
  /\ Go(h, "post")
  /\ Forget
  /\ UNCHANGED blobs

MountFallBack(h, s) ==
  /\ pc[h] = "post"
  /\ Return(h)
  /\ IF Exists(req[h].dig) THEN UNCHANGED session ELSE Create(s, req[h].dig[1], req[h].dig, TRUE)
  /\ UNCHANGED blobs

\* PATCH and PUT of the chunks that follow offset k.
Patch(h, s, k, body) ==
  /\ Found(s)
  /\ Arrive(h, [op |-> "patch", s |-> s, at |-> k, body |-> body, dig |-> None], "range")
  /\ UNCHANGED <<blobs, session>>

Put(h, s, k, body, d) ==
  /\ Found(s)
  /\ Arrive(h, [op |-> "put", s |-> s, at |-> k, body |-> body, dig |-> d], "range")
  /\ UNCHANGED <<blobs, session>>

\* Mutant: the state parameter is not compared.
AnyOffset(h) == TRUE
OffsetMatches(h) == req[h].at = Size(req[h].s)

\* A Content-Range header, if there is one, must begin at the session's size.
CheckRange(h) ==
  /\ pc[h] = "range"
  /\ \/ Go(h, IF req[h].op = "put" THEN "algorithm" ELSE "state") /\ UNCHANGED req
     \/ ~OffsetMatches(h) /\ Return(h)
  /\ UNCHANGED <<blobs, uploads>>
  /\ Forget

SetAlgorithm(h) ==
  /\ pc[h] = "algorithm"
  /\ upload' = [upload EXCEPT ![req[h].s] = ChangeAlgorithm(@, req[h].dig[1])]
  /\ Go(h, "state")
  /\ UNCHANGED <<blobs, uploads, req>>

CheckState(h) ==
  /\ pc[h] = "state"
  /\ IF OffsetMatches(h)
     THEN Go(h, "copy") /\ req' = [req EXCEPT ![h].at = 0]   \* not used again
     ELSE Return(h)
  /\ UNCHANGED <<blobs, uploads>>
  /\ Forget

\* io.Copy writes chunk by chunk; each Write looks for the session again.
CopyWrite(h) ==
  LET r == req[h]
  IN  /\ pc[h] = "copy" /\ r.body # <<>> /\ r.s \in uploads
      /\ Size(r.s) < MaxSize
      /\ upload' = [upload EXCEPT ![r.s] = Write(@, Head(r.body))]
      /\ req' = [req EXCEPT ![h].body = Tail(@)]
      /\ UNCHANGED <<blobs, uploads, pc>>

\* The client is gone, or the session: what was written stays.
CopyFail(h) ==
  /\ pc[h] = "copy" /\ req[h].op # "mount" /\ req[h].body # <<>>
  /\ Return(h)
  /\ UNCHANGED <<blobs, uploads>>
  /\ Forget

CopyEnd(h) ==
  /\ pc[h] = "copy" /\ req[h].body = <<>>
  /\ CASE req[h].op = "patch" -> Return(h)
       [] req[h].op = "mount" -> Go(h, "close") /\ UNCHANGED req
       [] OTHER               -> Go(h, "verify") /\ UNCHANGED req
  /\ UNCHANGED <<blobs, uploads>>
  /\ Forget

Verify(h) ==
  LET s == req[h].s
  IN  /\ pc[h] = "verify"
      /\ upload' = [upload EXCEPT ![s] = Rescan(@, req[h].dig)]
      /\ Go(h, IF Verified(upload[s], req[h].dig) THEN "close" ELSE "cancel")
      /\ UNCHANGED <<blobs, uploads, req>>

\* The content becomes the blob of its own digest, unless another was expected:
\* then the session stays. Nothing asks whether the session is still there.
Close(h) ==
  LET u == upload[req[h].s]
      d == Digest(u)
  IN  /\ pc[h] = "close"
      /\ IF u.expect \notin {None, d}
         THEN Return(h) /\ UNCHANGED <<blobs, uploads>>
         ELSE /\ d \in DOMAIN blobs \/ Cardinality(DOMAIN blobs) < MaxBlobs
              /\ blobs' = With(blobs, d, u.buffer)
              /\ uploads' = uploads \ {req[h].s}
              /\ Go(h, "created") /\ UNCHANGED req
      /\ Forget

Cancel(h) ==
  /\ pc[h] = "cancel"
  /\ uploads' = uploads \ {req[h].s}
  /\ Return(h)
  /\ Forget
  /\ UNCHANGED blobs

\* 201, with the location of the blob that the request named.
AnswerCreated(h) ==
  /\ pc[h] = "created"
  /\ Return(h)
  /\ UNCHANGED <<blobs, uploads>>
  /\ Forget

\* DELETE of the session.
Delete(h, s) ==
  /\ Found(s)
  /\ Arrive(h, [Idle EXCEPT !.op = "delete", !.s = s], "cancel")
  /\ UNCHANGED <<blobs, session>>

-----------------------------------------------------------------------------
\* The cache drops a session by age or by count.
Expire(s) ==
  /\ s \in uploads
  /\ uploads' = uploads \ {s}
  /\ UNCHANGED <<blobs, pc, req>>
  /\ Forget

\* The collector or a DELETE removes a blob.
Remove(d) ==
  /\ blobs' = [c \in DOMAIN blobs \ {d} |-> blobs[c]]
  /\ UNCHANGED <<session, pc, req>>

-----------------------------------------------------------------------------
\* The chunks after the first k, none to all.
After(k) == {SubSeq(Want, k + 1, n) : n \in k..Len(Want)}

Next ==
  \/ \E h \in Handlers :
       \/ \E s \in Sessions :
            \/ \E a \in Algorithms : PostSession(h, s, a)
            \/ \E d \in Wanted : Mount(h, s, d) \/ \E b \in After(0) : PostMonolithic(h, s, d, b)
            \/ MountFallBack(h, s)
            \/ \E k \in 0..Len(Want) : \E b \in After(k) :
                 Patch(h, s, k, b) \/ \E d \in Wanted : Put(h, s, k, b, d)
            \/ Delete(h, s)
       \/ MountOpen(h) \/ MountGiveUp(h) \/ CheckRange(h) \/ SetAlgorithm(h) \/ CheckState(h)
       \/ CopyWrite(h) \/ CopyFail(h) \/ CopyEnd(h)
       \/ Verify(h) \/ Close(h) \/ Cancel(h) \/ AnswerCreated(h)
  \/ \E s \in Sessions : Expire(s)
  \/ \E d \in DOMAIN blobs : Remove(d)

Spec == Init /\ [][Next /\ UNCHANGED serial]_vars

-----------------------------------------------------------------------------
(* Properties *)

\* Whatever requests share a session, change its algorithm, break off or come after
\* its end: the bytes of a blob are those its digest was computed of.
StoredIsNamed == \A d \in DOMAIN blobs : blobs[d] = d[2]

\* A client that retries, resumes after a broken request, or whose requests arrive
\* twice or in another order, does not corrupt its upload as long as it waits for
\* each request to end: a session holds a beginning of the content, no chunk twice
\* and none left out.
InOrder ==
  serial => \A s \in DOMAIN upload :
              upload[s].buffer = SubSeq(Want, 1, Size(s)) /\ upload[s].hashed = upload[s].buffer

\* 201 means that the blob it names was stored: for a POST and a mount always, for a
\* PUT if no other request uses the session between its Verify and its Close.
CreatedIsStored ==
  [][\A h \in Handlers :
       pc'[h] = "created" /\ pc[h] # "created" /\ (serial \/ req[h].op # "put")
         => req[h].dig \in DOMAIN blobs']_vars

-----------------------------------------------------------------------------
(* What a comment promises and the code does not keep; no run checks this. *)

\* CreatedIsStored for every PUT as well (blob.go:545 "verify the digest and close or cancel").
VerifiedIsStored ==
  [][\A h \in Handlers :
       pc'[h] = "created" /\ pc[h] # "created" => req[h].dig \in DOMAIN blobs']_vars
=============================================================================
