----------------------- MODULE MCGenerationAuthority -----------------------
(***************************************************************************)
(* A small instance of GenerationAuthority: three voters, voter sets of    *)
(* two of them, successive recoveries and two routine replacements.        *)
(***************************************************************************)
EXTENDS GenerationAuthority, TLC

CONSTANTS v1, v2, v3

MCVoters     == {v1, v2, v3}
MCMemberSets == {{v1, v2}, {v2, v3}}

=============================================================================
