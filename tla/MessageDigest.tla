---------------------------- MODULE MessageDigest ----------------------------
(***************************************************************************)
(* A digest of cryptology, and what is said of it: the run of MCAlgorithms *)
(* checks it of short messages, OtaDownload_proofs shows it of every       *)
(* message.                                                                *)
(***************************************************************************)
EXTENDS Integers

CONSTANTS BlockSize, LengthSize, Word, Pieces, MaxLength    \* of Digest

ASSUME DigestAssumption ==
    /\ {BlockSize, LengthSize, Word, MaxLength} \subseteq Nat \ {0}
    /\ LengthSize < BlockSize
    /\ Word % (8 * BlockSize) = 0
    /\ Pieces \subseteq 0..(Word - 1)

VARIABLES ctx, length, finished

Digest == INSTANCE Digest

digestVars == <<ctx, length, finished>>

\* A message that is digested in pieces has the digest of the standards, and so have one
\* that is digested at once and one with a key.
DigestOfWhole == Digest!OfWhole
===============================================================================
