--------------------------- MODULE ReferrerPages ----------------------------
(***************************************************************************)
(* The paged GET of referrers, referrerGet in referrer.go, over a Registry *)
(* whose responses change. A long response is split into pages, which stay *)
(* in a cache under the digest of the response and the filter; the link to *)
(* the next page names that digest, so that the pages a client collects    *)
(* are of one response even if it was replaced meanwhile.                  *)
(*                                                                         *)
(* One GET is one step: it makes an IndexGet and a BlobGet, and only a     *)
(* deletion of the response's blob could be seen in between.               *)
(***************************************************************************)
EXTENDS Registry

CONSTANTS
  ArtifactType,        \* of each referrer
  Size,                \* of each referrer's descriptor
  MaxCached            \* bound: entries of the page cache

ASSUME PagesType ==
  /\ Size \in [Referrers -> Nat] /\ MaxCached \in Nat \ {0}
  /\ None \notin {ArtifactType[m] : m \in Referrers}
  /\ \A s \in Servers :
       /\ s.conf.pageLimit \in Nat        \* API.Referrer.Limit
       /\ s.clients.filters \subseteq {ArtifactType[m] : m \in Referrers} \union {None}

VARIABLES
  pageCache,  \* s.referrerCache: pages by <<digest, filter>>
  reader      \* a client: idle, or with a link in hand; see NoReader

pageVars == <<pageCache, reader>>

\*   subj, filter   what it asks for
\*   dig, page      the cache and page of the link it has; page 0 if there is none
\*   seen           the referrers of the pages it has got, one page after the other
\*   from           history: the response it got its first page of
\*   broken         history: a page it asked for was neither in the cache nor of a
\*                  response that is still the one it began with
NoReader ==
  [subj |-> None, filter |-> None, dig |-> None, page |-> 0, seen |-> <<>>,
   from |-> None, broken |-> FALSE]

PagesInit == Init /\ pageCache = <<>> /\ reader = NoReader

-----------------------------------------------------------------------------
\* referrerFilter.
Filtered(list, t) ==
  IF t = None THEN list ELSE Only(list, {m \in Referrers : ArtifactType[m] = t})

Bytes(list) == FoldLeft(LAMBDA sum, m : sum + Size[m], 0, list)
Fits(list, limit) == Bytes(list) <= limit

\* referrerSplit's loop: a full page is set aside; a descriptor that is longer than
\* a page by itself is left out.
Fill(acc, m, limit) ==
  IF Fits(Append(acc.page, m), limit) THEN [acc EXCEPT !.page = Append(@, m)]
  ELSE [pages |-> IF acc.page = <<>> THEN acc.pages ELSE Append(acc.pages, acc.page),
        page  |-> IF Fits(<<m>>, limit) THEN <<m>> ELSE <<>>]

Split(list, limit) ==
  LET filled == FoldLeft(LAMBDA acc, m : Fill(acc, m, limit), [pages |-> <<>>, page |-> <<>>], list)
  IN  IF filled.page = <<>> THEN filled.pages ELSE Append(filled.pages, filled.page)

\* The pages of response d under filter t; none, if no descriptor fits.
Pages(d, t) ==
  LET wanted == Filtered(Parsed(d).refs, t)
      limit  == conf.pageLimit
  IN  IF Fits(wanted, limit) THEN <<wanted>> ELSE Split(wanted, limit)

\* Mutant: all filters share the pages of a response.
KeyWithoutFilter(d, t) == d
Key(d, t) == <<d, t>>

Cached(d, t) == Key(d, t) \in DOMAIN pageCache

-----------------------------------------------------------------------------
(* referrerGet *)

\* Pages are counted from 0.
Reply(d, pages, p) ==
  [dig |-> d, entries |-> pages[p + 1], page |-> p, last |-> p + 1 = Len(pages)]
Nothing == [dig |-> None, entries |-> <<>>, page |-> 0, last |-> TRUE]

\* The link's own pages are still in the cache.
FromLink(s, t, dig, p) == p > 0 /\ Cached(dig, t) /\ p < Len(pageCache[Key(dig, t)])

\* The reply to a request for page p of the response dig that its link names.
\* Pages in the cache under the digest of the present response are used with the
\* page number as it is, whether or not the link named that digest.
Get(s, t, dig, p) ==
  LET d     == Response(index, s)
      pages == IF Cached(d, t) THEN pageCache[Key(d, t)] ELSE Pages(d, t)
      skips == Cached(d, t) \/ dig = d
  IN  IF FromLink(s, t, dig, p) THEN Reply(dig, pageCache[Key(dig, t)], p)
      ELSE IF d = None \/ (~Cached(d, t) /\ (d \notin blobs \/ Pages(d, t) = <<>>))
      THEN Nothing
      ELSE Reply(d, pages, IF skips /\ p < Len(pages) THEN p ELSE 0)

\* What the request puts into the cache.
CacheAfter(s, t, dig, p) ==
  LET d == Response(index, s)
  IN  IF FromLink(s, t, dig, p) \/ d = None \/ Cached(d, t) \/ d \notin blobs \/ Pages(d, t) = <<>>
      THEN pageCache
      ELSE [k \in DOMAIN pageCache \union {Key(d, t)} |->
              IF k = Key(d, t) THEN Pages(d, t) ELSE pageCache[k]]

\* The client's page and the link to the next one, if there is one.
Take(s, t, dig, p, before) ==
  LET r == Get(s, t, dig, p)
  IN  /\ pageCache' = CacheAfter(s, t, dig, p)
      /\ Cardinality(DOMAIN pageCache') <= MaxCached
      /\ reader' = [before EXCEPT
           !.seen = @ \o r.entries, !.dig = r.dig, !.page = IF r.last THEN 0 ELSE r.page + 1]
      /\ UNCHANGED vars

ReadFirst(s, t) ==
  /\ reader.page = 0
  /\ Take(s, t, None, 0, [NoReader EXCEPT !.subj = s, !.filter = t, !.from = Get(s, t, None, 0).dig])

ReadNext ==
  /\ reader.page > 0
  /\ Take(reader.subj, reader.filter, reader.dig, reader.page,
          [reader EXCEPT !.broken = @ \/ (/\ ~Cached(reader.from, reader.filter)
                                         /\ Response(index, reader.subj) # reader.from)])

\* Another client's first request.
OtherRead(s, t) ==
  /\ pageCache' = CacheAfter(s, t, None, 0)
  /\ Cardinality(DOMAIN pageCache') <= MaxCached
  /\ UNCHANGED <<vars, reader>>

\* pruneAge or pruneCount (PageCacheExpire, PageCacheLimit), at any time.
Prune(k) ==
  /\ pageCache' = [l \in DOMAIN pageCache \ {k} |-> pageCache[l]]
  /\ UNCHANGED <<vars, reader>>

PagesNext ==
  \/ Next /\ UNCHANGED <<setup, pageVars>>
  \/ \E s \in {Content[m].subj : m \in Referrers}, t \in clients.filters :
       ReadFirst(s, t) \/ OtherRead(s, t)
  \/ ReadNext
  \/ \E k \in DOMAIN pageCache : Prune(k)

PagesSpec == PagesInit /\ [][PagesNext]_<<vars, pageVars>>

-----------------------------------------------------------------------------
(* Properties *)

\* A client that follows the links to the end, and was not told to begin again, has
\* got the referrers of the type it asked for in the response it began with: each
\* of them once, whatever was pushed, deleted, collected, asked for by others and
\* pruned meanwhile.
PagesComplete ==
  reader.page = 0 /\ reader.from # None /\ ~reader.broken =>
    reader.seen = Only(Parsed(reader.from).refs,
                       {m \in Referrers : /\ reader.filter \in {None, ArtifactType[m]}
                                         /\ Size[m] <= conf.pageLimit})
=============================================================================
