----------------------------- MODULE MCRegistry -----------------------------
(* Registry with two images (one a member of an index) and two signatures, and *)
(* its paging client.                                                        *)
EXTENDS ReferrerPages, TLC

CONSTANTS layer1, layer2, image1, image2, list, sig1, sig2, sign, t1, h1, h2

Image(refs, subj) == [kind |-> "image", refs |-> refs, subj |-> subj]
AllContent ==
  [m \in {image1, image2, list, sig1, sig2} |->
     CASE m = image1 -> Image(<<layer1>>, None)
       [] m = image2 -> Image(<<layer1, layer2>>, None)
       [] m = list   -> [kind |-> "index", refs |-> <<image1>>, subj |-> None]
       [] m = sig1   -> Image(<<layer2>>, image1)
       [] OTHER      -> Image(<<layer2>>, image1)]

Strictest == [untagged |-> TRUE, withSubj |-> TRUE, dangling |-> TRUE,
              grace |-> TRUE, sparse |-> FALSE, pageLimit |-> 2]

\* Concurrent pushes and removals of tags: a plain image and an index use one tag.
Racing ==
  [conf |-> Strictest,
   clients |-> [upload |-> {layer1, layer2},
                push |-> {<<image1, <<>>>>, <<image2, <<t1>>>>, <<list, <<t1>>>>},
                deleteTags |-> {t1}, deleteManifests |-> {}, deleteBlobs |-> {},
                atOnce |-> TRUE, filters |-> {}]]

\* A signature of a member of an index, with deletions of all kinds.
Deleting ==
  [conf |-> Strictest,
   clients |-> [upload |-> {layer1, layer2},
                push |-> {<<image1, <<>>>>, <<list, <<t1>>>>, <<sig1, <<>>>>},
                deleteTags |-> {t1}, deleteManifests |-> {image1}, deleteBlobs |-> {image1},
                atOnce |-> FALSE, filters |-> {}]]

\* The same manifests, pushed in any order and before their content.
Sparse ==
  [conf |-> [Strictest EXCEPT !.sparse = TRUE],
   clients |-> [Deleting.clients EXCEPT !.deleteManifests = {}, !.deleteBlobs = {}]]

\* Two signatures of one image: one digest may be pushed again, or deleted.
Signing ==
  [conf |-> [Strictest EXCEPT !.withSubj = FALSE, !.dangling = FALSE, !.grace = FALSE],
   clients |-> [upload |-> {layer1, layer2},
                push |-> {<<image1, <<t1>>>>, <<sig1, <<>>>>, <<sig2, <<>>>>, <<sig2, <<t1>>>>},
                deleteTags |-> {}, deleteManifests |-> {image1, sig1, sig2}, deleteBlobs |-> {},
                atOnce |-> FALSE, filters |-> {}]]

\* Signatures come and go while a client reads the pages; a page holds one of them.
Paging ==
  [conf |-> [Signing.conf EXCEPT !.sparse = TRUE],
   clients |-> [Signing.clients EXCEPT
                  !.upload = {}, !.push = {<<sig1, <<>>>>, <<sig2, <<>>>>},
                  !.deleteManifests = {sig1}, !.filters = {None, sign}]]

\* One signature is too long for a page.
PagingShort == [Paging EXCEPT !.conf.pageLimit = 1]

MCArtifactType == [m \in {sig1, sig2} |-> IF m = sig1 THEN sign ELSE m]
MCSize         == [m \in {sig1, sig2} |-> IF m = sig1 THEN 1 ELSE 2]

AllServers == {Racing, Deleting, Sparse, Signing, Paging, PagingShort}
Symmetry   == Permutations({h1, h2})
=============================================================================
