----------------------------- MODULE MCRestore -----------------------------
(* Instances of Restore for TLC. *)
EXTENDS RestoreInv, TLC

CONSTANTS d1, d2, d3, o1, o2, o3, x1

(* o1 to o3 belong to the key, x1 to a longer key with the same prefix. *)
MCListing  == <<o1, o2, o3, x1>>
MCTarget   == (o1 :> d1) @@ (o2 :> d2) @@ (o3 :> NoDir) @@ (x1 :> d1)
MCRemoteOf == (d1 :> o1) @@ (d2 :> o2) @@ (d3 :> o3)

MCCall(dsts, fail, strict, listable) ==
  [dsts: dsts, failIfKeyNotPresent: fail, strict: strict, listable: listable]

(* Configured destinations, one of them twice, and the listing. *)
MCCalls ==
  MCCall({<<d1>>, <<d1, d2, d3>>, <<d1, d1>>}, {FALSE}, {TRUE}, {TRUE})
    \cup MCCall({<<>>}, BOOLEAN, BOOLEAN, BOOLEAN)

ListedCalls == MCCall({<<>>}, BOOLEAN, BOOLEAN, {TRUE})
=============================================================================
