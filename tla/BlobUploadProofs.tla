-------------------------- MODULE BlobUploadProofs --------------------------
(***************************************************************************)
(* Proofs about BlobUpload, for any content, requests, sessions and bounds: *)
(* blobs are what their digests say, uploads keep the order of the content, *)
(* and what is answered as created was stored. MCBlobUpload checks IInv on *)
(* a small instance.                                                       *)
(***************************************************************************)
EXTENDS BlobUpload, SequenceTheorems, TLAPS

-----------------------------------------------------------------------------
(* The inductive invariant *)

Labels == {"idle", "source", "post", "range", "algorithm", "state", "copy", "verify",
           "close", "cancel", "created"}

Upload == [buffer : Seq(Chunks), hashed : Seq(Chunks), alg : Algorithms,
           expect : Wanted \union {None}, told : BOOLEAN]

Request == [op : {"none", "post", "mount", "patch", "put", "delete"},
            s : Sessions \union {None}, at : Nat, body : Seq(Chunks),
            dig : Wanted \union {None}]

Types ==
  /\ DOMAIN upload \subseteq Sessions /\ \A s \in DOMAIN upload : upload[s] \in Upload
  /\ uploads \subseteq DOMAIN upload
  /\ pc \in [Handlers -> Labels] /\ req \in [Handlers -> Request]

\* Where a request can be. One that comes before its session, or after it has given
\* it up, has none.
Placed(h) ==
  /\ IF pc[h] \in {"idle", "post"} THEN req[h].s = None ELSE req[h].s \in DOMAIN upload
  /\ pc[h] \in {"range", "state"} => req[h].op \in {"patch", "put"}
  /\ pc[h] = "source" => req[h].op = "mount"
  /\ pc[h] = "copy" => req[h].op \in {"post", "mount", "patch", "put"}
  /\ pc[h] = "algorithm" => req[h].op = "put"
  /\ pc[h] = "verify" => req[h].op \in {"post", "put"}
  /\ pc[h] = "close" => req[h].op \in {"post", "mount", "put"}
  /\ pc[h] = "post" \/ req[h].op \in {"post", "mount", "put"} => req[h].dig \in Wanted

\* A POST with content, or a mount, has a session that no client knows of and that
\* expects the digest of the request.
OwnSession(h) ==
  req[h].op \in {"post", "mount"} /\ req[h].s # None =>
    ~upload[req[h].s].told /\ upload[req[h].s].expect = req[h].dig

\* What a request has still to write follows what it has checked the session to hold.
Follows(body, k) == \E n \in k..Len(Want) : body = SubSeq(Want, k + 1, n)

Pending(h) ==
  /\ pc[h] = "source" => upload[req[h].s].buffer = <<>>
  /\ pc[h] \in {"range", "algorithm", "state"} => Follows(req[h].body, req[h].at)
  /\ pc[h] = "copy" /\ serial => Follows(req[h].body, Size(req[h].s))

\* A PUT closes what it has verified, if nobody comes between.
VerifiedStays(h) ==
  serial /\ pc[h] = "close" /\ req[h].op = "put" => Digest(upload[req[h].s]) = req[h].dig

Fits(h) == Placed(h) /\ OwnSession(h) /\ Pending(h) /\ VerifiedStays(h)

\* Clients that wait use a session by one request at a time, and so is one used that
\* no client knows.
Exclusive ==
  \A h, g \in Handlers :
    req[h].s # None /\ req[h].s = req[g].s /\ (serial \/ ~upload[req[h].s].told) => h = g

\* The digest is at any time that of the content, and for clients that wait the
\* content is a beginning of what they want to upload.
Holds(u) ==
  /\ u.hashed = u.buffer
  /\ serial => Len(u.buffer) <= Len(Want) /\ u.buffer = SubSeq(Want, 1, Len(u.buffer))

\* The inductive invariant: what the sessions hold, and what each request knows of
\* its session between two calls on it.
IInv ==
  /\ Types
  /\ \A h \in Handlers : Fits(h)
  /\ Exclusive
  /\ \A s \in DOMAIN upload : Holds(upload[s])
  /\ StoredIsNamed

-----------------------------------------------------------------------------
(* Sequences of chunks *)

\* Writing the next chunk of what follows keeps a beginning of the content one.
LEMMA NextChunk ==
  ASSUME NEW buffer \in Seq(Chunks), NEW body \in Seq(Chunks), body # <<>>,
         Len(buffer) <= Len(Want), buffer = SubSeq(Want, 1, Len(buffer)),
         Follows(body, Len(buffer))
  PROVE  LET k == Len(buffer) + 1
         IN  /\ Append(buffer, Head(body)) = SubSeq(Want, 1, k)
             /\ Len(Append(buffer, Head(body))) = k /\ k <= Len(Want)
             /\ Follows(Tail(body), k)
<1> USE UploadConstants
<1> DEFINE k == Len(buffer)
<1>1. PICK n \in k..Len(Want) : body = SubSeq(Want, k + 1, n)
  BY DEF Follows
<1>2. k \in Nat /\ n \in Nat /\ Len(Want) \in Nat
  OBVIOUS
<1>3. n > k
  BY <1>1, <1>2, SubSeqEmpty
<1>4. Head(body) = Want[k + 1]
  BY <1>1, <1>2, <1>3, HeadTailOfSubSeq
<1>5. Len(Append(buffer, Head(body))) = k + 1
  OBVIOUS
<1>6. Append(buffer, Head(body)) = SubSeq(Want, 1, k + 1)
  BY <1>2, <1>3, <1>4
<1>7. Tail(body) = SubSeq(Want, (k + 1) + 1, n)
  BY <1>1, <1>2, <1>3, HeadTailOfSubSeq
<1>8. Follows(Tail(body), k + 1)
  <2>1. n \in (k + 1)..Len(Want)
    BY <1>1, <1>2, <1>3
  <2> QED  BY <2>1, <1>7 DEF Follows
<1> QED  BY <1>2, <1>3, <1>5, <1>6, <1>8

\* What clients send.
LEMMA BodyFollows ==
  ASSUME NEW k \in 0..Len(Want), NEW body \in After(k)
  PROVE  body \in Seq(Chunks) /\ Follows(body, k)
<1>1. PICK n \in k..Len(Want) : body = SubSeq(Want, k + 1, n)
  BY DEF After
<1>2. k + 1 \in Int /\ n \in Int /\ \A i \in (k + 1)..n : Want[i] \in Chunks
  BY UploadConstants
<1>3. body \in Seq(Chunks)
  BY <1>1, <1>2, SubSeqProperties
<1> QED  BY <1>1, <1>3 DEF Follows

LEMMA WantFollows == Want \in Seq(Chunks) /\ Follows(Want, 0)
<1>1. Want = SubSeq(Want, 1, Len(Want))
  BY UploadConstants, SubSeqFull
<1>2. Len(Want) \in 0..Len(Want) /\ 0 + 1 = 1
  BY UploadConstants
<1> QED  BY <1>1, <1>2, UploadConstants DEF Follows

\* A request that has not begun to copy has an empty body.
LEMMA NothingFollows == <<>> \in Seq(Chunks) /\ Follows(<<>>, 0)
<1>1. <<>> = SubSeq(Want, 0 + 1, 0)
  BY SubSeqEmpty
<1> QED  BY <1>1, UploadConstants DEF Follows

-----------------------------------------------------------------------------
(* The shapes of a step *)

\* A request that does not move still fits if its session stays, or is one that
\* requests may share.
LEMMA StillFits ==
  ASSUME DOMAIN upload \subseteq Sessions, UNCHANGED serial,
         NEW g \in Handlers, Fits(g), UNCHANGED <<pc[g], req[g]>>,
         req[g].s \in DOMAIN upload =>
           /\ req[g].s \in DOMAIN upload'
           /\ \/ upload'[req[g].s] = upload[req[g].s]
              \/ ~serial /\ upload[req[g].s].told
  PROVE  Fits(g)'
<1>1. pc[g] \in {"source", "copy", "close"} => req[g].s \in DOMAIN upload
  BY DEF Fits, Placed
<1>2. req[g].s # None => req[g].s \in DOMAIN upload
  BY DEF Fits, Placed
<1>3. Placed(g)' /\ OwnSession(g)'
  BY <1>2 DEF Fits, Placed, OwnSession
<1>4. Pending(g)'
  <2>1. Follows(req[g].body, req[g].at)' <=> Follows(req[g].body, req[g].at)
    BY DEF Follows
  <2>2. CASE pc[g] = "source"
    BY <1>1, <2>2, UploadConstants DEF Fits, Placed, OwnSession, Pending
  <2>3. CASE pc[g] = "copy" /\ serial
    <3>1. Follows(req[g].body, Size(req[g].s))' <=> Follows(req[g].body, Size(req[g].s))
      BY <1>1, <2>3 DEF Follows, Size
    <3> QED  BY <2>3, <3>1 DEF Fits, Pending
  <2> QED  BY <2>1, <2>2, <2>3 DEF Fits, Pending
<1>5. VerifiedStays(g)'
  BY <1>1 DEF Fits, VerifiedStays, Digest
<1> QED  BY <1>3, <1>4, <1>5 DEF Fits

\* A request takes a step that leaves what sessions hold as it is. It stays at its
\* session or leaves it; some sessions may be dropped, and are then forgotten.
LEMMA Moves ==
  ASSUME IInv, UNCHANGED serial,
         NEW h \in Handlers, NEW label \in Labels, NEW r \in Request,
         pc' = [pc EXCEPT ![h] = label], req' = [req EXCEPT ![h] = r],
         r.s \in {req[h].s, None},
         uploads' \subseteq uploads, Forget,
         Fits(h)', StoredIsNamed'
  PROVE  IInv'
<1> USE DEF IInv
<1>1. req'[h] = r /\ \A g \in Handlers \ {h} : req'[g] = req[g] /\ pc'[g] = pc[g]
  BY DEF Types
<1>2. DOMAIN upload' \subseteq DOMAIN upload /\ \A s \in DOMAIN upload' : upload'[s] = upload[s]
  BY DEF Forget, Kept
<1>3. \A g \in Handlers : req'[g].s \in DOMAIN upload => req'[g].s \in DOMAIN upload'
  BY DEF Forget, Kept
<1>4. Types'
  <2>1. uploads' \subseteq DOMAIN upload'
    BY DEF Forget, Kept, Types
  <2>2. pc' \in [Handlers -> Labels] /\ req' \in [Handlers -> Request]
    BY DEF Types
  <2> QED  BY <1>2, <2>1, <2>2 DEF Types
<1>5. \A g \in Handlers \ {h} : Fits(g)'
  BY <1>1, <1>2, <1>3, StillFits DEF Types
<1>6. Exclusive'
  <2>1. \A g \in Handlers : req'[g].s \in {req[g].s, None}
    BY <1>1
  <2>2. \A g \in Handlers : req[g].s # None => req[g].s \in DOMAIN upload
    BY DEF Fits, Placed
  <2> QED  BY <1>2, <1>3, <2>1, <2>2 DEF Exclusive
<1>7. \A s \in DOMAIN upload' : Holds(upload[s])'
  BY <1>2 DEF Holds
<1> QED  BY <1>4, <1>5, <1>6, <1>7

\* A request changes what its session holds.
LEMMA Works ==
  ASSUME IInv, UNCHANGED <<serial, blobs, uploads>>,
         NEW h \in Handlers, NEW label \in Labels, NEW r \in Request,
         pc' = [pc EXCEPT ![h] = label], req' = [req EXCEPT ![h] = r],
         r.s = req[h].s, req[h].s \in DOMAIN upload,
         NEW u \in Upload, DOMAIN upload' = DOMAIN upload, upload'[req[h].s] = u,
         \A t \in DOMAIN upload \ {req[h].s} : upload'[t] = upload[t],
         u.told = upload[req[h].s].told, u.expect = upload[req[h].s].expect,
         Holds(u), Fits(h)'
  PROVE  IInv'
<1> USE DEF IInv
<1> DEFINE s == req[h].s
<1>1. req'[h] = r /\ \A g \in Handlers \ {h} : req'[g] = req[g] /\ pc'[g] = pc[g]
  BY DEF Types
<1>2. /\ DOMAIN upload' = DOMAIN upload
      /\ upload'[s] = u /\ \A t \in DOMAIN upload \ {s} : upload'[t] = upload[t]
  OBVIOUS
<1>3. Types'
  <2>1. pc' \in [Handlers -> Labels] /\ req' \in [Handlers -> Request]
    BY DEF Types
  <2> QED  BY <1>2, <2>1 DEF Types
<1>4. s # None
  BY UploadConstants DEF Types
<1>5. \A g \in Handlers \ {h} : Fits(g)'
  <2>1. \A g \in Handlers \ {h} : req[g].s = s => ~serial /\ upload[s].told
    BY <1>4 DEF Exclusive
  <2> QED  BY <1>1, <1>2, <2>1, StillFits DEF Types
<1>6. Exclusive'
  <2>1. \A g \in Handlers : req'[g].s = req[g].s
    BY <1>1
  <2>2. \A g \in Handlers : req[g].s # None => req[g].s \in DOMAIN upload
    BY DEF Fits, Placed
  <2>3. \A t \in DOMAIN upload : upload'[t].told = upload[t].told
    BY <1>2
  <2> QED  BY <2>1, <2>2, <2>3 DEF Exclusive
<1>7. \A t \in DOMAIN upload' : Holds(upload[t])'
  BY <1>2 DEF Holds
<1>8. StoredIsNamed'
  BY DEF StoredIsNamed
<1> QED  BY <1>3, <1>5, <1>6, <1>7, <1>8

\* BlobCreate: a new session, which the request takes, or which only clients learn of.
LEMMA Begins ==
  ASSUME IInv, UNCHANGED <<serial, blobs>>,
         NEW h \in Handlers, NEW label \in Labels, NEW r \in Request,
         pc' = [pc EXCEPT ![h] = label], req' = [req EXCEPT ![h] = r],
         NEW s \in Sessions, r.s \in {s, None},
         NEW alg \in Algorithms, NEW expect \in Wanted \union {None}, NEW told \in BOOLEAN,
         Create(s, alg, expect, told), Fits(h)'
  PROVE  IInv'
<1> USE DEF IInv
<1> DEFINE u == NewSession(alg, expect, told)
<1>1. req'[h] = r /\ \A g \in Handlers \ {h} : req'[g] = req[g] /\ pc'[g] = pc[g]
  BY DEF Types
<1>2. /\ s \notin DOMAIN upload /\ DOMAIN upload' = DOMAIN upload \union {s}
      /\ upload'[s] = u /\ \A t \in DOMAIN upload : upload'[t] = upload[t]
  BY DEF Create, With
<1>3. u \in Upload /\ Holds(u)'
  <2>1. SubSeq(Want, 1, 0) = <<>>
    BY SubSeqEmpty
  <2> QED  BY <2>1, NothingFollows, UploadConstants DEF NewSession, Upload, Holds
<1>4. Types'
  <2>1. pc' \in [Handlers -> Labels] /\ req' \in [Handlers -> Request]
    BY DEF Types
  <2> QED  BY <1>2, <1>3, <2>1 DEF Types, Create
<1>5. \A g \in Handlers \ {h} : Fits(g)'
  BY <1>1, <1>2, StillFits DEF Types
<1>6. Exclusive'
  <2>1. \A g \in Handlers : req[g].s # None => req[g].s \in DOMAIN upload
    BY DEF Fits, Placed
  <2> QED  BY <1>1, <1>2, <2>1 DEF Exclusive
<1>7. \A t \in DOMAIN upload' : Holds(upload[t])'
  BY <1>2, <1>3 DEF Holds
<1>8. StoredIsNamed'
  BY DEF StoredIsNamed
<1> QED  BY <1>4, <1>5, <1>6, <1>7, <1>8

\* BlobSession: a request takes a session that clients know of.
LEMMA Finds ==
  ASSUME IInv, UNCHANGED <<serial, blobs, session>>,
         NEW h \in Handlers, NEW label \in Labels, NEW r \in Request,
         pc' = [pc EXCEPT ![h] = label], req' = [req EXCEPT ![h] = r],
         Found(r.s), Fits(h)'
  PROVE  IInv'
<1> USE DEF IInv, session
<1>1. req'[h] = r /\ \A g \in Handlers \ {h} : req'[g] = req[g] /\ pc'[g] = pc[g]
  BY DEF Types
<1>2. Types'
  <2>1. pc' \in [Handlers -> Labels] /\ req' \in [Handlers -> Request]
    BY DEF Types
  <2> QED  BY <2>1 DEF Types
<1>3. \A g \in Handlers \ {h} : Fits(g)'
  BY <1>1, StillFits DEF Types
<1>4. Exclusive'
  BY <1>1 DEF Exclusive, Found
<1>5. \A s \in DOMAIN upload' : Holds(upload[s])'
  BY DEF Holds
<1>6. StoredIsNamed'
  BY DEF StoredIsNamed
<1> QED  BY <1>2, <1>3, <1>4, <1>5, <1>6

-----------------------------------------------------------------------------
(* The steps *)

\* A request that has returned.
LEMMA Returned ==
  ASSUME IInv, NEW h \in Handlers, Return(h)
  PROVE  Idle \in Request /\ Fits(h)'
<1>1. Idle \in Request
  BY NothingFollows DEF Idle, Request
<1>2. pc'[h] = "idle" /\ req'[h] = Idle
  BY DEF Return, Go, IInv, Types
<1>3. Idle.op = "none" /\ Idle.s = None
  BY DEF Idle
<1> QED
  BY <1>1, <1>2, <1>3 DEF Fits, Placed, OwnSession, Pending, VerifiedStays

\* What a request that is not in the middle of a POST or a mount knows of its session.
LEMMA Session ==
  ASSUME IInv, NEW h \in Handlers, pc[h] \notin {"idle", "post"}
  PROVE  /\ req[h].s \in DOMAIN upload /\ req[h].s # None /\ req[h].s \in Sessions
         /\ upload[req[h].s] \in Upload /\ Holds(upload[req[h].s])
         /\ req[h] \in Request
BY UploadConstants DEF IInv, Fits, Placed, Types

\* What Forget leaves of a session that a request has.
LEMMA Remembers ==
  ASSUME NEW h \in Handlers, Forget, req'[h].s \in DOMAIN upload
  PROVE  req'[h].s \in DOMAIN upload' /\ upload'[req'[h].s] = upload[req'[h].s]
BY DEF Forget, Kept

\* Requests without a body, and the begin of those with one.
LEMMA BeginStep ==
  ASSUME IInv, UNCHANGED serial, NEW h \in Handlers, NEW s \in Sessions,
         \/ \E a \in Algorithms : PostSession(h, s, a)
         \/ \E d \in Wanted : Mount(h, s, d) \/ \E b \in After(0) : PostMonolithic(h, s, d, b)
         \/ MountFallBack(h, s)
         \/ \E k \in 0..Len(Want) : \E b \in After(k) :
              Patch(h, s, k, b) \/ \E d \in Wanted : Put(h, s, k, b, d)
         \/ Delete(h, s)
  PROVE  IInv'
<1> USE UploadConstants
<1>0. /\ pc \in [Handlers -> Labels] /\ req \in [Handlers -> Request]
      /\ DOMAIN upload \subseteq Sessions
  BY DEF IInv, Types
<1>1. ASSUME NEW a \in Algorithms, PostSession(h, s, a)
      PROVE  IInv'
  <2>1. pc' = [pc EXCEPT ![h] = "idle"] /\ req' = [req EXCEPT ![h] = req[h]]
    BY <1>0, <1>1 DEF PostSession
  <2>2. pc[h] = "idle" /\ Fits(h) /\ req[h] \in Request
    BY <1>0, <1>1 DEF PostSession, IInv
  <2>3. req[h].s = None
    BY <2>2 DEF Fits, Placed
  <2>4. Fits(h)'
    BY <1>0, <1>1, <2>2, <2>3
    DEF PostSession, Fits, Placed, OwnSession, Pending, VerifiedStays
  <2> QED  BY <1>1, <2>1, <2>2, <2>3, <2>4, Begins DEF PostSession, Labels
<1>2. ASSUME NEW d \in Wanted, Mount(h, s, d)
      PROVE  IInv'
  <2> DEFINE r == [op |-> "mount", s |-> s, at |-> 0, body |-> <<>>, dig |-> d]
  <2>1. r \in Request /\ d[1] \in Algorithms
    BY NothingFollows DEF Request, Wanted
  <2>2. pc' = [pc EXCEPT ![h] = "source"] /\ req' = [req EXCEPT ![h] = r]
    BY <1>2 DEF Mount, Arrive, Go
  <2>3. pc'[h] = "source" /\ req'[h] = r
    BY <1>0, <2>2
  <2>4. Create(s, d[1], d, FALSE) /\ UNCHANGED blobs
    BY <1>2 DEF Mount
  <2>5. s \in DOMAIN upload' /\ upload'[s] = NewSession(d[1], d, FALSE)
    BY <2>4 DEF Create, With
  <2>6. Fits(h)'
    BY <2>3, <2>5 DEF Fits, Placed, OwnSession, Pending, VerifiedStays, NewSession
  <2> QED  BY <2>1, <2>2, <2>4, <2>6, Begins DEF Labels
<1>3. ASSUME NEW d \in Wanted, NEW b \in After(0), PostMonolithic(h, s, d, b)
      PROVE  IInv'
  <2> DEFINE r == [op |-> "post", s |-> s, at |-> 0, body |-> b, dig |-> d]
  <2>1. r \in Request /\ d[1] \in Algorithms /\ Follows(b, 0)
    BY BodyFollows DEF Request, Wanted
  <2>2. pc' = [pc EXCEPT ![h] = "copy"] /\ req' = [req EXCEPT ![h] = r]
    BY <1>3 DEF PostMonolithic, Arrive, Go
  <2>3. pc'[h] = "copy" /\ req'[h] = r
    BY <1>0, <2>2
  <2>4. Create(s, d[1], d, FALSE) /\ UNCHANGED blobs
    BY <1>3 DEF PostMonolithic
  <2>5. s \in DOMAIN upload' /\ upload'[s] = NewSession(d[1], d, FALSE)
    BY <2>4 DEF Create, With
  <2>6. Placed(h)' /\ OwnSession(h)' /\ VerifiedStays(h)'
    BY <2>3, <2>5 DEF Placed, OwnSession, VerifiedStays, NewSession
  <2>7. Size(s)' = 0
    BY <2>5 DEF Size, NewSession
  <2>8. Pending(h)'
    BY <2>1, <2>3, <2>7 DEF Pending, Follows
  <2> QED  BY <2>1, <2>2, <2>4, <2>6, <2>8, Begins DEF Labels, Fits
<1>4. CASE MountFallBack(h, s)
  <2>1. pc' = [pc EXCEPT ![h] = "idle"] /\ req' = [req EXCEPT ![h] = Idle] /\ UNCHANGED blobs
    BY <1>4 DEF MountFallBack, Return, Go
  <2>2. Idle \in Request /\ Fits(h)' /\ Idle.s = None
    BY <1>4, Returned DEF MountFallBack, Idle
  <2>3. CASE Create(s, req[h].dig[1], req[h].dig, TRUE)
    <3>1. req[h].dig \in Wanted
      BY <1>4 DEF MountFallBack, IInv, Fits, Placed
    <3>2. req[h].dig[1] \in Algorithms
      BY <3>1 DEF Wanted
    <3> QED  BY <2>1, <2>2, <2>3, <3>1, <3>2, Begins DEF Labels
  <2>4. CASE UNCHANGED session
    <3>1. DOMAIN upload' = DOMAIN upload /\ \A t \in DOMAIN upload : upload'[t] = upload[t]
      BY <2>4 DEF session
    <3>2. \A g \in Handlers \ {h} : pc'[g] = pc[g] /\ req'[g] = req[g]
      BY <1>0, <2>1
    <3>3. \A g \in Handlers \ {h} : Fits(g)'
      BY <1>0, <3>1, <3>2, StillFits DEF IInv
    <3>4. Exclusive'
      BY <1>0, <2>1, <2>2, <2>4, <3>2 DEF IInv, Exclusive, session
    <3>5. Types'
      BY <1>0, <2>1, <2>2, <2>4 DEF IInv, Types, session, Labels
    <3>6. StoredIsNamed' /\ \A t \in DOMAIN upload' : Holds(upload[t])'
      BY <2>1, <3>1 DEF IInv, Holds, StoredIsNamed
    <3> QED  BY <2>2, <3>3, <3>4, <3>5, <3>6 DEF IInv
  <2> QED  BY <1>4, <2>3, <2>4 DEF MountFallBack
<1>5. ASSUME NEW k \in 0..Len(Want), NEW b \in After(k), Patch(h, s, k, b)
      PROVE  IInv'
  <2> DEFINE r == [op |-> "patch", s |-> s, at |-> k, body |-> b, dig |-> None]
  <2>1. r \in Request /\ Follows(b, k)
    BY BodyFollows DEF Request
  <2>2. pc' = [pc EXCEPT ![h] = "range"] /\ req' = [req EXCEPT ![h] = r]
    BY <1>5 DEF Patch, Arrive, Go
  <2>3. pc'[h] = "range" /\ req'[h] = r
    BY <1>0, <2>2
  <2>4. s \in DOMAIN upload' /\ Found(s) /\ UNCHANGED <<blobs, session>>
    BY <1>5 DEF Patch, Found, IInv, Types, session
  <2>5. Follows(req[h].body, req[h].at)'
    <3>1. req'[h].body = b /\ req'[h].at = k
      BY <2>3
    <3> QED  BY <2>1, <3>1 DEF Follows
  <2>6. Fits(h)'
    BY <2>3, <2>4, <2>5 DEF Fits, Placed, OwnSession, Pending, VerifiedStays
  <2> QED  BY <2>1, <2>2, <2>4, <2>6, Finds DEF Labels
<1>6. ASSUME NEW k \in 0..Len(Want), NEW b \in After(k), NEW d \in Wanted, Put(h, s, k, b, d)
      PROVE  IInv'
  <2> DEFINE r == [op |-> "put", s |-> s, at |-> k, body |-> b, dig |-> d]
  <2>1. r \in Request /\ Follows(b, k)
    BY BodyFollows DEF Request
  <2>2. pc' = [pc EXCEPT ![h] = "range"] /\ req' = [req EXCEPT ![h] = r]
    BY <1>6 DEF Put, Arrive, Go
  <2>3. pc'[h] = "range" /\ req'[h] = r
    BY <1>0, <2>2
  <2>4. s \in DOMAIN upload' /\ Found(s) /\ UNCHANGED <<blobs, session>>
    BY <1>6 DEF Put, Found, IInv, Types, session
  <2>5. Follows(req[h].body, req[h].at)'
    <3>1. req'[h].body = b /\ req'[h].at = k
      BY <2>3
    <3> QED  BY <2>1, <3>1 DEF Follows
  <2>6. Fits(h)'
    BY <2>3, <2>4, <2>5 DEF Fits, Placed, OwnSession, Pending, VerifiedStays
  <2> QED  BY <2>1, <2>2, <2>4, <2>6, Finds DEF Labels
<1>7. CASE Delete(h, s)
  <2> DEFINE r == [Idle EXCEPT !.op = "delete", !.s = s]
  <2>1. r \in Request /\ r.s = s /\ r.op = "delete"
    BY NothingFollows DEF Request, Idle
  <2>2. pc' = [pc EXCEPT ![h] = "cancel"] /\ req' = [req EXCEPT ![h] = r]
    BY <1>7 DEF Delete, Arrive, Go
  <2>3. pc'[h] = "cancel" /\ req'[h] = r
    BY <1>0, <2>1, <2>2
  <2>4. s \in DOMAIN upload' /\ Found(s) /\ UNCHANGED <<blobs, session>>
    BY <1>7 DEF Delete, Found, IInv, Types, session
  <2>5. Fits(h)'
    BY <2>1, <2>3, <2>4 DEF Fits, Placed, OwnSession, Pending, VerifiedStays
  <2> QED  BY <2>1, <2>2, <2>4, <2>5, Finds DEF Labels
<1> QED  BY <1>1, <1>2, <1>3, <1>4, <1>5, <1>6, <1>7

\* The mount, and the checks before a request copies its body.
LEMMA CheckStep ==
  ASSUME IInv, UNCHANGED serial, NEW h \in Handlers,
         MountOpen(h) \/ MountGiveUp(h) \/ CheckRange(h) \/ SetAlgorithm(h) \/ CheckState(h)
  PROVE  IInv'
<1> USE UploadConstants
<1>0. pc \in [Handlers -> Labels] /\ req \in [Handlers -> Request] /\ Fits(h)
  BY DEF IInv, Types
<1> DEFINE r == req[h]
           s == req[h].s
<1>1. /\ s \in DOMAIN upload /\ s # None /\ r \in Request
      /\ upload[s] \in Upload /\ Holds(upload[s])
  <2>1. pc[h] # "idle" /\ pc[h] # "post"
    BY DEF MountOpen, MountGiveUp, CheckRange, SetAlgorithm, CheckState
  <2> QED  BY <2>1, Session
<1>2. CASE MountOpen(h)
  <2> DEFINE q == [r EXCEPT !.body = r.dig[2]]
  <2>1. r.dig[2] = Want
    BY <1>2 DEF MountOpen
  <2>2. q \in Request /\ q.s = s /\ q.op = r.op /\ q.dig = r.dig /\ q.body = Want
    BY <1>1, <2>1, WantFollows DEF Request
  <2>3. pc' = [pc EXCEPT ![h] = "copy"] /\ req' = [req EXCEPT ![h] = q]
    BY <1>2 DEF MountOpen, Go
  <2>4. pc'[h] = "copy" /\ req'[h] = q
    BY <1>0, <2>3
  <2>5. UNCHANGED <<blobs, upload, uploads>>
    BY <1>2 DEF MountOpen, session
  <2>6. pc[h] = "source"
    BY <1>2 DEF MountOpen
  <2>7. Follows(req[h].body, Size(req[h].s))'
    <3>1. req'[h].body = Want /\ Size(s)' = 0 /\ req'[h].s = s
      BY <1>0, <2>2, <2>4, <2>5, <2>6 DEF Fits, Pending, Size
    <3>2. Size(req[h].s)' = 0
      BY <3>1 DEF Size
    <3> QED  BY <3>1, <3>2, WantFollows DEF Follows
  <2>8. Fits(h)'
    BY <1>0, <1>1, <2>2, <2>4, <2>5, <2>6, <2>7
    DEF Fits, Placed, OwnSession, Pending, VerifiedStays
  <2> QED  BY <1>1, <2>2, <2>3, <2>5, <2>8, Works DEF Labels
<1>3. CASE MountGiveUp(h)
  <2> DEFINE q == [r EXCEPT !.s = None, !.body = <<>>]
  <2>0. <<>> \in Seq(Chunks)
    BY NothingFollows
  <2>1. q \in Request /\ q.s = None /\ q.op = r.op /\ q.dig = r.dig
    BY <1>1, <2>0 DEF Request
  <2>2. pc' = [pc EXCEPT ![h] = "post"] /\ req' = [req EXCEPT ![h] = q]
    BY <1>3 DEF MountGiveUp, Go
  <2>3. pc'[h] = "post" /\ req'[h] = q
    BY <1>0, <2>2
  <2>4. Fits(h)'
    BY <1>0, <1>3, <2>1, <2>3
    DEF MountGiveUp, Fits, Placed, OwnSession, Pending, VerifiedStays
  <2> QED
    BY <1>3, <2>1, <2>2, <2>4, Moves DEF MountGiveUp, Labels, StoredIsNamed, IInv
<1>4. CASE CheckRange(h)
  <2>1. uploads' \subseteq uploads /\ Forget /\ StoredIsNamed'
    BY <1>4 DEF CheckRange, StoredIsNamed, IInv
  <2>2. CASE Return(h)
    <3>1. Idle.s = None
      BY DEF Idle
    <3> QED  BY <2>1, <2>2, <3>1, Returned, Moves DEF Return, Go, Labels
  <2>3. ASSUME NEW label \in {"algorithm", "state"}, Go(h, label), UNCHANGED req,
               r.op = "put" <=> label = "algorithm"
        PROVE  IInv'
    <3>1. pc' = [pc EXCEPT ![h] = label] /\ req' = [req EXCEPT ![h] = r]
      BY <1>0, <2>3 DEF Go
    <3>2. pc'[h] = label /\ req'[h] = r
      BY <1>0, <3>1
    <3>3. s \in DOMAIN upload' /\ upload'[s] = upload[s]
      BY <1>1, <2>1, <3>2, Remembers
    <3>4. pc[h] = "range"
      BY <1>4 DEF CheckRange
    <3>5. Follows(req[h].body, req[h].at)'
      BY <1>0, <3>2, <3>4 DEF Fits, Pending, Follows
    <3>6. Placed(h)' /\ OwnSession(h)'
      BY <1>0, <1>1, <2>3, <3>2, <3>3, <3>4 DEF Fits, Placed, OwnSession
    <3>7. Fits(h)'
      BY <2>3, <3>2, <3>5, <3>6 DEF Fits, Pending, VerifiedStays
    <3> QED  BY <1>1, <2>1, <3>1, <3>7, Moves DEF Labels
  <2> QED  BY <1>4, <2>2, <2>3 DEF CheckRange
<1>5. CASE SetAlgorithm(h)
  <2> DEFINE u == ChangeAlgorithm(upload[s], r.dig[1])
  <2>1. pc[h] = "algorithm" /\ r.op = "put" /\ r.dig \in Wanted
    BY <1>0, <1>5 DEF SetAlgorithm, Fits, Placed
  <2>2. r.dig[1] \in Algorithms
    BY <2>1 DEF Wanted
  <2>3. /\ u \in Upload /\ u.told = upload[s].told /\ u.expect = upload[s].expect
        /\ u.buffer = upload[s].buffer /\ u.hashed = u.buffer
    BY <1>1, <2>2, NothingFollows DEF ChangeAlgorithm, Upload, Holds
  <2>4. /\ pc' = [pc EXCEPT ![h] = "state"] /\ req' = [req EXCEPT ![h] = r]
        /\ upload' = [upload EXCEPT ![s] = u] /\ UNCHANGED <<blobs, uploads>>
    BY <1>0, <1>5 DEF SetAlgorithm, Go
  <2>5. /\ pc'[h] = "state" /\ req'[h] = r /\ DOMAIN upload' = DOMAIN upload /\ upload'[s] = u
        /\ \A t \in DOMAIN upload \ {s} : upload'[t] = upload[t]
    BY <1>0, <1>1, <2>4
  <2>6. Follows(req[h].body, req[h].at)'
    BY <1>0, <2>1, <2>5 DEF Fits, Pending, Follows
  <2>7. Placed(h)' /\ OwnSession(h)'
    BY <1>0, <1>1, <2>1, <2>3, <2>5 DEF Fits, Placed, OwnSession
  <2>8. Fits(h)'
    BY <2>5, <2>6, <2>7 DEF Fits, Pending, VerifiedStays
  <2>9. Holds(u)
    BY <1>1, <2>3 DEF Holds
  <2> QED  BY <1>1, <2>3, <2>4, <2>5, <2>8, <2>9, Works DEF Labels
<1>6. CASE CheckState(h)
  <2>1. uploads' \subseteq uploads /\ Forget /\ StoredIsNamed'
    BY <1>6 DEF CheckState, StoredIsNamed, IInv
  <2>2. CASE Return(h)
    <3>1. Idle.s = None
      BY DEF Idle
    <3> QED  BY <2>1, <2>2, <3>1, Returned, Moves DEF Return, Go, Labels
  <2>3. CASE OffsetMatches(h) /\ Go(h, "copy") /\ req' = [req EXCEPT ![h].at = 0]
    <3> DEFINE q == [r EXCEPT !.at = 0]
    <3>1. /\ q \in Request /\ q.s = s /\ q.op = r.op /\ q.dig = r.dig /\ q.body = r.body
      BY <1>1 DEF Request
    <3>2. pc' = [pc EXCEPT ![h] = "copy"] /\ req' = [req EXCEPT ![h] = q]
      BY <1>0, <2>3 DEF Go
    <3>3. pc'[h] = "copy" /\ req'[h] = q
      BY <1>0, <3>2
    <3>4. s \in DOMAIN upload' /\ upload'[s] = upload[s]
      BY <1>1, <2>1, <3>1, <3>3, Remembers
    <3>5. pc[h] = "state" /\ r.at = Size(s)
      BY <1>6, <2>3 DEF CheckState, OffsetMatches
    <3>6. Follows(req[h].body, Size(req[h].s))'
      <4>1. req'[h].body = r.body /\ Size(req[h].s)' = r.at
        BY <3>1, <3>3, <3>4, <3>5 DEF Size
      <4> QED  BY <1>0, <3>5, <4>1 DEF Fits, Pending, Follows
    <3>7. Placed(h)' /\ OwnSession(h)'
      BY <1>0, <1>1, <3>1, <3>3, <3>4, <3>5 DEF Fits, Placed, OwnSession
    <3>8. Fits(h)'
      BY <3>3, <3>6, <3>7 DEF Fits, Pending, VerifiedStays
    <3> QED  BY <2>1, <3>1, <3>2, <3>8, Moves DEF Labels
  <2> QED  BY <1>6, <2>2, <2>3 DEF CheckState
<1> QED  BY <1>2, <1>3, <1>4, <1>5, <1>6

\* Copying, and the end of requests.
LEMMA CopyStep ==
  ASSUME IInv, UNCHANGED serial, NEW h \in Handlers,
         \/ CopyWrite(h) \/ CopyFail(h) \/ CopyEnd(h)
         \/ Verify(h) \/ Close(h) \/ Cancel(h) \/ AnswerCreated(h)
  PROVE  IInv'
<1> USE UploadConstants
<1>0. pc \in [Handlers -> Labels] /\ req \in [Handlers -> Request] /\ Fits(h)
  BY DEF IInv, Types
<1> DEFINE r == req[h]
           s == req[h].s
<1>1. /\ s \in DOMAIN upload /\ s # None /\ r \in Request
      /\ upload[s] \in Upload /\ Holds(upload[s])
  <2>1. pc[h] # "idle" /\ pc[h] # "post"
    BY DEF CopyWrite, CopyFail, CopyEnd, Verify, Close, Cancel, AnswerCreated
  <2> QED  BY <2>1, Session
<1>2. ASSUME Return(h), uploads' \subseteq uploads, Forget, UNCHANGED blobs
      PROVE  IInv'
  <2>1. Idle.s = None
    BY DEF Idle
  <2>2. StoredIsNamed'
    BY <1>2 DEF StoredIsNamed, IInv
  <2> QED  BY <1>2, <2>1, <2>2, Returned, Moves DEF Return, Go, Labels
<1>3. ASSUME NEW label \in {"close", "verify", "created"}, Go(h, label), UNCHANGED req,
             uploads' \subseteq uploads, Forget, StoredIsNamed', pc[h] # "source",
             label = "close" => r.op = "mount",
             label = "verify" => r.op \in {"post", "put"}
      PROVE  IInv'
  <2>1. pc' = [pc EXCEPT ![h] = label] /\ req' = [req EXCEPT ![h] = r]
    BY <1>0, <1>3 DEF Go
  <2>2. pc'[h] = label /\ req'[h] = r
    BY <1>0, <2>1
  <2>3. s \in DOMAIN upload' /\ upload'[s] = upload[s]
    BY <1>1, <1>3, <2>2, Remembers
  <2>4. Placed(h)' /\ OwnSession(h)'
    BY <1>0, <1>1, <1>3, <2>2, <2>3 DEF Fits, Placed, OwnSession
  <2>5. Fits(h)'
    BY <1>3, <2>2, <2>4 DEF Fits, Pending, VerifiedStays
  <2> QED  BY <1>1, <1>3, <2>1, <2>5, Moves DEF Labels
<1>4. CASE CopyWrite(h)
  <2> DEFINE q == [r EXCEPT !.body = Tail(@)]
             u == Write(upload[s], Head(r.body))
  <2>1. pc[h] = "copy" /\ r.body # <<>> /\ r.body \in Seq(Chunks)
    BY <1>1, <1>4 DEF CopyWrite, Request
  <2>2. Head(r.body) \in Chunks /\ Tail(r.body) \in Seq(Chunks)
    BY <2>1, HeadTailProperties
  <2>3. /\ q \in Request /\ q.s = s /\ q.op = r.op /\ q.dig = r.dig /\ q.body = Tail(r.body)
    BY <1>1, <2>2 DEF Request
  <2>4. /\ u \in Upload /\ u.told = upload[s].told /\ u.expect = upload[s].expect
        /\ u.buffer = Append(upload[s].buffer, Head(r.body)) /\ u.hashed = u.buffer
    BY <1>1, <2>2, AppendProperties DEF Write, Upload, Holds
  <2>5. /\ pc' = [pc EXCEPT ![h] = "copy"] /\ req' = [req EXCEPT ![h] = q]
        /\ upload' = [upload EXCEPT ![s] = u] /\ UNCHANGED <<blobs, uploads>>
    BY <1>0, <1>4, <2>1 DEF CopyWrite
  <2>6. /\ pc'[h] = "copy" /\ req'[h] = q /\ DOMAIN upload' = DOMAIN upload /\ upload'[s] = u
        /\ \A t \in DOMAIN upload \ {s} : upload'[t] = upload[t]
    BY <1>0, <1>1, <2>5
  <2>7. serial => /\ Len(u.buffer) <= Len(Want) /\ u.buffer = SubSeq(Want, 1, Len(u.buffer))
                  /\ Follows(q.body, Len(u.buffer))
    <3> SUFFICES ASSUME serial
                 PROVE  /\ Len(u.buffer) <= Len(Want)
                        /\ u.buffer = SubSeq(Want, 1, Len(u.buffer))
                        /\ Follows(q.body, Len(u.buffer))
      OBVIOUS
    <3>1. Follows(r.body, Len(upload[s].buffer))
      BY <1>0, <2>1 DEF Fits, Pending, Size
    <3>2. /\ upload[s].buffer \in Seq(Chunks) /\ Len(upload[s].buffer) <= Len(Want)
          /\ upload[s].buffer = SubSeq(Want, 1, Len(upload[s].buffer))
      BY <1>1 DEF Upload, Holds
    <3> HIDE DEF q, u
    <3> QED  BY <2>1, <2>3, <2>4, <3>1, <3>2, NextChunk
  <2>8. Holds(u)
    BY <2>4, <2>7 DEF Holds
  <2>9. serial => Follows(req[h].body, Size(req[h].s))'
    <3>1. req'[h].body = q.body /\ Size(req[h].s)' = Len(u.buffer)
      BY <2>3, <2>6 DEF Size
    <3> QED  BY <2>7, <3>1 DEF Follows
  <2>10. Placed(h)' /\ OwnSession(h)'
    BY <1>0, <1>1, <2>1, <2>3, <2>4, <2>6 DEF Fits, Placed, OwnSession
  <2>11. Fits(h)'
    BY <2>6, <2>9, <2>10 DEF Fits, Pending, VerifiedStays
  <2> QED  BY <1>1, <2>3, <2>4, <2>5, <2>6, <2>8, <2>11, Works DEF Labels
<1>5. CASE CopyFail(h)
  BY <1>2, <1>5 DEF CopyFail
<1>6. CASE CopyEnd(h)
  <2>1. pc[h] = "copy" /\ uploads' = uploads /\ Forget /\ UNCHANGED blobs
    BY <1>6 DEF CopyEnd
  <2>2. StoredIsNamed'
    BY <2>1 DEF StoredIsNamed, IInv
  <2>3. r.op \in {"post", "mount", "patch", "put"}
    BY <1>0, <2>1 DEF Fits, Placed
  <2>4. CASE r.op = "patch"
    BY <1>2, <1>6, <2>1, <2>4 DEF CopyEnd
  <2>5. CASE r.op = "mount"
    BY <1>3, <1>6, <2>1, <2>2, <2>5 DEF CopyEnd
  <2>6. CASE r.op \in {"post", "put"}
    BY <1>3, <1>6, <2>1, <2>2, <2>6 DEF CopyEnd
  <2> QED  BY <2>3, <2>4, <2>5, <2>6
<1>7. CASE Verify(h)
  <2> DEFINE u == Rescan(upload[s], r.dig)
             label == IF Verified(upload[s], r.dig) THEN "close" ELSE "cancel"
  <2>1. pc[h] = "verify" /\ r.op \in {"post", "put"} /\ r.dig \in Wanted
    BY <1>0, <1>7 DEF Verify, Fits, Placed
  <2>2. r.dig[1] \in Algorithms
    BY <2>1 DEF Wanted
  <2>3. /\ u \in Upload /\ u.told = upload[s].told /\ u.expect = upload[s].expect
        /\ u.buffer = upload[s].buffer /\ u.hashed = u.buffer
    BY <1>1, <2>2 DEF Rescan, Upload, Holds
  <2>4. /\ pc' = [pc EXCEPT ![h] = label] /\ req' = [req EXCEPT ![h] = r]
        /\ upload' = [upload EXCEPT ![s] = u] /\ UNCHANGED <<blobs, uploads>>
    BY <1>0, <1>7 DEF Verify, Go
  <2>5. /\ pc'[h] = label /\ req'[h] = r /\ DOMAIN upload' = DOMAIN upload /\ upload'[s] = u
        /\ \A t \in DOMAIN upload \ {s} : upload'[t] = upload[t]
    BY <1>0, <1>1, <2>4
  <2>6. label = "close" => Digest(u) = r.dig
    BY DEF Verified
  <2>7. label \in {"close", "cancel"}
    OBVIOUS
  <2> HIDE DEF u, label
  <2>8. Placed(h)' /\ OwnSession(h)'
    BY <1>0, <1>1, <2>1, <2>3, <2>5, <2>7 DEF Fits, Placed, OwnSession
  <2>9. Pending(h)'
    BY <2>5, <2>7 DEF Pending
  <2>10. VerifiedStays(h)'
    BY <2>5, <2>6 DEF VerifiedStays, Digest
  <2>11. Holds(u)
    BY <1>1, <2>3 DEF Holds
  <2> QED
    BY <1>1, <2>3, <2>4, <2>5, <2>7, <2>8, <2>9, <2>10, <2>11, Works DEF Labels, Fits
<1>8. CASE Close(h)
  <2> DEFINE u == upload[s]
             d == Digest(u)
  <2>1. pc[h] = "close" /\ Forget
    BY <1>8 DEF Close
  <2>2. CASE u.expect \notin {None, d}
    BY <1>2, <1>8, <2>1, <2>2 DEF Close
  <2>3. CASE u.expect \in {None, d}
    <3>1. /\ blobs' = With(blobs, d, u.buffer) /\ uploads' = uploads \ {s}
          /\ Go(h, "created") /\ UNCHANGED req
      BY <1>8, <2>3 DEF Close
    <3>2. d[2] = u.buffer
      BY <1>1 DEF Digest, Holds
    <3>3. StoredIsNamed'
      BY <3>1, <3>2 DEF StoredIsNamed, With, IInv
    <3> QED  BY <1>3, <2>1, <3>1, <3>3
  <2> QED  BY <2>2, <2>3
<1>9. CASE Cancel(h)
  BY <1>2, <1>9 DEF Cancel
<1>10. CASE AnswerCreated(h)
  BY <1>2, <1>10 DEF AnswerCreated
<1> QED  BY <1>4, <1>5, <1>6, <1>7, <1>8, <1>9, <1>10

\* The cache drops a session; a blob is removed.
LEMMA OtherStep ==
  ASSUME IInv, UNCHANGED serial,
         (\E s \in Sessions : Expire(s)) \/ \E d \in DOMAIN blobs : Remove(d)
  PROVE  IInv'
<1>1. UNCHANGED <<pc, req>> /\ uploads' \subseteq uploads
  BY DEF Expire, Remove, session
<1>2. DOMAIN upload' \subseteq DOMAIN upload /\ \A s \in DOMAIN upload' : upload'[s] = upload[s]
  BY DEF Expire, Remove, session, Forget, Kept
<1>3. \A g \in Handlers : req[g].s \in DOMAIN upload => req[g].s \in DOMAIN upload'
  BY DEF Expire, Remove, session, Forget, Kept
<1>4. uploads' \subseteq DOMAIN upload'
  BY DEF Expire, Remove, session, Forget, Kept, IInv, Types
<1>5. Types'
  BY <1>1, <1>2, <1>4 DEF IInv, Types
<1>6. \A g \in Handlers : Fits(g)'
  BY <1>1, <1>2, <1>3, StillFits DEF IInv, Types
<1>7. Exclusive'
  <2>1. \A g \in Handlers : req[g].s # None => req[g].s \in DOMAIN upload
    BY DEF IInv, Fits, Placed
  <2> QED  BY <1>1, <1>2, <1>3, <2>1 DEF IInv, Exclusive
<1>8. \A s \in DOMAIN upload' : Holds(upload[s])'
  BY <1>2 DEF IInv, Holds
<1>9. StoredIsNamed'
  BY DEF Expire, Remove, session, IInv, StoredIsNamed
<1> QED  BY <1>5, <1>6, <1>7, <1>8, <1>9 DEF IInv

\* New, with nothing uploaded.
LEMMA InitInvariant == Init => IInv
<1> SUFFICES ASSUME Init
             PROVE  IInv
  OBVIOUS
<1>1. Idle \in Request /\ Idle.s = None /\ Idle.op = "none"
  BY NothingFollows DEF Idle, Request
<1>2. DOMAIN upload = {} /\ DOMAIN blobs = {} /\ uploads = {}
  BY DEF Init
<1>3. Types
  BY <1>1, <1>2 DEF Init, Types, Labels
<1>4. \A h \in Handlers : Fits(h)
  BY <1>1 DEF Init, Fits, Placed, OwnSession, Pending, VerifiedStays
<1>5. Exclusive
  BY <1>1 DEF Init, Exclusive
<1> QED  BY <1>2, <1>3, <1>4, <1>5 DEF IInv, StoredIsNamed

\* Every step keeps the invariant.
LEMMA StepInvariant == IInv /\ [Next /\ UNCHANGED serial]_vars => IInv'
<1> SUFFICES ASSUME IInv, [Next /\ UNCHANGED serial]_vars
             PROVE  IInv'
  OBVIOUS
<1>1. CASE Next /\ UNCHANGED serial
  BY <1>1, BeginStep, CheckStep, CopyStep, OtherStep DEF Next
<1>2. CASE UNCHANGED vars
  <2>1. UNCHANGED <<blobs, upload, uploads, serial, pc, req>>
    BY <1>2 DEF vars, session
  <2>2. \A g \in Handlers : Fits(g)'
    BY <2>1, StillFits DEF IInv, Types
  <2> QED
    BY <2>1, <2>2 DEF IInv, Types, Exclusive, Holds, StoredIsNamed
<1> QED  BY <1>1, <1>2

\* Every reachable state satisfies the invariant.
THEOREM Invariance == Spec => []IInv
BY InitInvariant, StepInvariant, PTL DEF Spec

-----------------------------------------------------------------------------
\* The bytes of a blob are those its digest was computed of, for any requests.
THEOREM BlobsAreNamed == Spec => []StoredIsNamed
<1>1. IInv => StoredIsNamed
  BY DEF IInv
<1> QED  BY <1>1, Invariance, PTL

\* A session holds a beginning of the content if its client waits for each request,
\* whatever it repeats, resumes or sends twice.
THEOREM UploadsKeepOrder == Spec => []InOrder
<1>1. IInv => InOrder
  BY DEF IInv, InOrder, Holds, Size
<1> QED  BY <1>1, Invariance, PTL

\* What is answered 201 was stored under the digest that the request named: a PUT
\* closes what it has verified, a POST and a mount what BlobCreate expects.
THEOREM CreatedStored == Spec => CreatedIsStored
<1>1. ASSUME IInv, [Next /\ UNCHANGED serial]_vars,
             NEW h \in Handlers, pc'[h] = "created", pc[h] # "created",
             serial \/ req[h].op # "put"
      PROVE  req[h].dig \in DOMAIN blobs'
  <2>1. Close(h)
    <3>0. pc \in [Handlers -> Labels] /\ Next
      BY <1>1 DEF IInv, Types, vars
    <3>1. ASSUME NEW g \in Handlers, NEW label \in Labels \ {"created"}, Go(g, label)
          PROVE  FALSE
      BY <1>1, <3>0, <3>1 DEF Go
    <3>2. pc' # pc
      BY <1>1
    <3>3. PICK g \in Handlers :
             \/ \E s \in Sessions : 
                  \/ \E d \in Wanted :
                       Mount(g, s, d) \/ \E b \in After(0) : PostMonolithic(g, s, d, b)
                  \/ MountFallBack(g, s)
                  \/ \E k \in 0..Len(Want) : \E b \in After(k) :
                       Patch(g, s, k, b) \/ \E d \in Wanted : Put(g, s, k, b, d)
                  \/ Delete(g, s)
             \/ MountOpen(g) \/ MountGiveUp(g) \/ CheckRange(g) \/ SetAlgorithm(g)
             \/ CheckState(g) \/ CopyFail(g) \/ CopyEnd(g)
             \/ Verify(g) \/ Close(g) \/ Cancel(g) \/ AnswerCreated(g)
      BY <3>0, <3>2 DEF Next, PostSession, CopyWrite, Expire, Remove
    <3> USE <3>1 DEF Return, Arrive, Labels
    <3>4. CASE \E s \in Sessions :
                 \/ \E d \in Wanted :
                      Mount(g, s, d) \/ \E b \in After(0) : PostMonolithic(g, s, d, b)
                 \/ MountFallBack(g, s)
      BY <3>4 DEF Mount, PostMonolithic, MountFallBack
    <3>5. CASE \E s \in Sessions :
                 \/ \E k \in 0..Len(Want) : \E b \in After(k) :
                      Patch(g, s, k, b) \/ \E d \in Wanted : Put(g, s, k, b, d)
                 \/ Delete(g, s)
      BY <3>5 DEF Patch, Put, Delete
    <3>6. CASE MountOpen(g) \/ MountGiveUp(g) \/ SetAlgorithm(g) \/ CopyFail(g) \/ Cancel(g)
                 \/ AnswerCreated(g)
      BY <3>6 DEF MountOpen, MountGiveUp, SetAlgorithm, CopyFail, Cancel, AnswerCreated
    <3>7. CASE CheckRange(g)
      BY <3>7 DEF CheckRange
    <3>8. CASE CheckState(g)
      BY <3>8 DEF CheckState
    <3>9. CASE CopyEnd(g)
      BY <3>9 DEF CopyEnd
    <3>10. CASE Verify(g)
      BY <3>10 DEF Verify
    <3>11. CASE Close(g)
      <4>1. g = h
        BY <1>1, <3>0, <3>11 DEF Close, Go
      <4> QED  BY <3>11, <4>1
    <3> QED  BY <3>3, <3>4, <3>5, <3>6, <3>7, <3>8, <3>9, <3>10, <3>11
  <2> DEFINE u == upload[req[h].s]
  <2>2. pc[h] = "close" /\ u.expect \in {None, Digest(u)} /\ Digest(u) \in DOMAIN blobs'
    BY <1>1, <2>1 DEF Close, Return, Go, With, IInv, Types
  <2>3. req[h].s # None /\ Fits(h)
    BY <1>1, <2>2, Session DEF IInv
  <2>4. CASE req[h].op = "put"
    BY <1>1, <2>2, <2>3, <2>4 DEF Fits, VerifiedStays
  <2>5. CASE req[h].op # "put"
    <3>1. req[h].op \in {"post", "mount"} /\ req[h].dig \in Wanted
      BY <2>2, <2>3, <2>5 DEF Fits, Placed
    <3>2. u.expect = req[h].dig /\ req[h].dig # None
      BY <2>3, <3>1, UploadConstants DEF Fits, OwnSession, Wanted
    <3> QED  BY <2>2, <3>2
  <2> QED  BY <2>4, <2>5
<1>2. IInv /\ [Next /\ UNCHANGED serial]_vars =>
        [\A h \in Handlers :
           pc'[h] = "created" /\ pc[h] # "created" /\ (serial \/ req[h].op # "put")
             => req[h].dig \in DOMAIN blobs']_vars
  BY <1>1
<1> QED  BY <1>2, Invariance, PTL DEF Spec, CreatedIsStored
=============================================================================
