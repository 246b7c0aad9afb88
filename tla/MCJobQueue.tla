----------------------------- MODULE MCJobQueue -----------------------------
(***************************************************************************)
(* Instances of the job queue for TLC.                                     *)
(***************************************************************************)
EXTENDS JobQueueSafety, TLC

WorkerSymmetry == Permutations(Workers)

\* Every job gets a lease for its submission and for each resumption.
ASSUME MaxClaims >= Cardinality(Jobs) * (MaxResumes + 1)
=============================================================================
