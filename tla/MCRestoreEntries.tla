-------------------------- MODULE MCRestoreEntries --------------------------
(* A small instance of RestoreEntries. *)
EXTENDS RestoreEntries

MCBegins == {<<"k1", "k">>, <<"x1", "x">>}
MCEnds   == {<<"ak", "k">>}
MCWithin == MCBegins \cup MCEnds

Keys == {<<"k">>, <<"f", "x">>}

(* A separator that the prefix has already is not put there by List. *)
MCReceivers ==
  {r \in [key: Keys, account: {<<>>, <<"acc">>, <<"ak">>},
          separator: BOOLEAN, strict: BOOLEAN, delimits: BOOLEAN] :
     ~ (r.separator /\ r.delimits)}

Paths == {<<>>, <<"p">>, <<".c">>, <<"k", "p">>, <<"ak">>, <<"x1">>, <<"k">>, <<"x", "p">>}

OtherKeys == {<<"k1">>, <<"k", "f">>, <<"f">>, <<"f", "x1">>, <<"k1", "k">>}

Own    == [key: Keys, path: Paths]
Others == [key: OtherKeys, path: Paths]

(* Bound: at most two sources are in the storage, one of them of a key of *)
(* the receivers'.                                                        *)
MCStorages == {{}} \cup {{a, b} : a \in Own, b \in Own \cup Others} \cup {{a} : a \in Others}
=============================================================================
