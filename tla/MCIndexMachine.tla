--------------------------- MODULE MCIndexMachine ---------------------------
(* IndexMachine with an image, a signature that refers to it, and the two    *)
(* responses for that subject: before and after the signature is listed. The *)
(* first is an index with a member and clients may push it as well; the      *)
(* second is the empty list, which both digests share as a response.         *)
EXTENDS IndexMachineProofs, TLC

CONSTANTS image, signature, listed, empty

MCDigests == {image, signature, listed, empty}
MCMembers == [d \in MCDigests |-> IF d = listed THEN <<signature>> ELSE <<>>]
MCAnswers == {<<listed, image>>, <<empty, image>>, <<empty, signature>>}

\* Sound: the properties are about single states and steps, and name no tag.
Symmetry == Permutations(Tags)
=============================================================================
