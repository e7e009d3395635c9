----------------------------- MODULE MCUploads ------------------------------
(* Uploads with two requests; symmetric in requests and sessions. *)
EXTENDS UploadsProofs, TLC

CONSTANTS h1, h2, s1, s2, s3

Symmetry == Permutations({h1, h2}) \union Permutations({s1, s2, s3})
=============================================================================
