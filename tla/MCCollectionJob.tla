-------------------------- MODULE MCCollectionJob --------------------------
(***************************************************************************)
(* An instance of CollectionJob: three documents in the collection of the  *)
(* job (two pages), one below the first and one below the second of them,  *)
(* and one two levels down, so that a missing document may stand between   *)
(* existing ones.                                                          *)
(***************************************************************************)
EXTENDS CollectionJob

MCDocs == 1..6
MCParents == [items1 |-> 1, items2 |-> 2, notes4 |-> 4]
MCCollections == {"orders"} \cup DOMAIN MCParents
MCCollOf == <<"orders", "orders", "orders", "items1", "items2", "notes4">>
MCSize == <<1, 1, 3, 1, 1, 1>>
MCSources == {1..6, {1, 2, 3, 6}, {1, 3, 4, 5}}
MCTargets == {{}, {1, 4}, {2}}
MCFiles == {<<1, 2, 1>>, <<2, 2, 3, 1>>, <<1, 1, 2, 1, 4>>, <<1, 2, Bad>>}
=============================================================================
