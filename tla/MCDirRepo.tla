----------------------------- MODULE MCDirRepo ------------------------------
(* DirRepo with an image in an index, and a signature of the image.          *)
EXTENDS DirRepo

CONSTANTS layer1, image1, list, sig1, sig2, sigList, t1, f1, f2, f3

Image(refs, subj) == [kind |-> "image", refs |-> refs, subj |-> subj]
AllContent ==
  [m \in Manifests |->
     CASE m = image1  -> Image(<<layer1>>, None)
       [] m = list    -> [kind |-> "index", refs |-> <<image1>>, subj |-> None]
       [] m = sigList -> [kind |-> "index", refs |-> <<sig1>>, subj |-> None]
       [] OTHER       -> Image(<<layer1>>, image1)]

Strictest == [untagged |-> TRUE, withSubj |-> TRUE, dangling |-> TRUE]

AllPushes == {<<image1, None>>, <<image1, t1>>, <<list, t1>>}

NoDirectory == [layout |-> "none", file |-> None, blobs |-> {}]

Directory(entries, bs) ==
  [layout |-> "valid", file |-> [manifests |-> entries, converted |-> FALSE], blobs |-> bs]

\* A tagged index whose member was signed by a client of a registry without the
\* referrers API; a fallback tag that names nothing that is still there; and one for an
\* image whose referrers have all been removed.
WithFallback ==
  Directory(<<Entry(list, t1, None), Entry(<<sig1>>, f1, None), Entry(<<sig2>>, f2, None),
              Entry(<<>>, f3, None)>>,
            {layer1, image1, list, sig1, <<sig1>>, <<sig2>>, <<>>})

\* The fallback lists the signature, but not as the server would.
WithOddFallback ==
  Directory(<<Entry(list, t1, None), Entry(sigList, f1, None)>>,
            {layer1, image1, list, sig1, sigList})

NewOnly     == {NoDirectory}
NewOrOthers == {NoDirectory, WithFallback}
OddOnly     == {WithOddFallback}
=============================================================================
