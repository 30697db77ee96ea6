---------------------------- MODULE MCRtspServer ----------------------------
(***************************************************************************)
(* Clients are interchangeable: nothing compares them and no property      *)
(* names one.  Used by the runs that check safety only.                    *)
(***************************************************************************)
EXTENDS RtspServer, TLC

ClientSymmetry == Permutations(Client)

=============================================================================
