----------------------------- MODULE MCRebuild -----------------------------
(* Instances of Rebuild for TLC. *)
EXTENDS RebuildInv, TLC

CONSTANTS r1, r2, s1, s2, s3, p1, p2, k1, k2

(* normalizeDockerPath sends s1 and s2 to the same path. *)
MCNormPath == (s1 :> p1) @@ (s2 :> p1) @@ (s3 :> p2)

MCCall(srcLists, fallbacks, overrides, policies) ==
  [srcs: srcLists, key: {k1}, fallback: fallbacks,
   override: overrides, policy: policies]

(* One call: every option, up to two sources. *)
SoloCalls ==
  MCCall({<<>>, <<s1>>, <<s1, s3>>, <<s1, s1>>},
         {k2, NoKey}, BOOLEAN, MissingPathPolicy)

(***************************************************************************)
(* Two calls that share some of their objects, or all of them, or none;    *)
(* s2 and s1 normalise to the same path.                                   *)
(***************************************************************************)
PairCalls ==
  MCCall({<<s1>>}, {NoKey}, BOOLEAN, {"strict", "skipRequirePresent"})
    \cup MCCall({<<s3, s2>>}, {NoKey}, {FALSE}, {"strict"})

(* Sources with objects of their own, saved without override. *)
NoOverrideCalls ==
  MCCall({<<s1, s3>>, <<s3, s1>>}, {NoKey}, {FALSE}, {"strict"})

RunSymmetry == Permutations(Run)
=============================================================================
