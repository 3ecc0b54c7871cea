--------------------------- MODULE IdentityCatalog ---------------------------
(***************************************************************************)
(* What the identity tables of the database (datasets, prompt templates,   *)
(* model versions) promise to the runs recorded against them: a name, once *)
(* given, keeps what it was given to, and a run only refers to names that  *)
(* have been given.  Names appear together, as a transaction brings them.  *)
(*                                                                         *)
(* Datasets.tla implements this; DatasetsProofs.tla proves it.             *)
(***************************************************************************)
VARIABLES
    catalog,   \* entries [name, content]
    recorded   \* of every run the entries it refers to

OneEach(entries) == \A g, h \in entries : g.name = h.name => g = h

Init == catalog = {} /\ recorded = {}

Register ==
    /\ catalog \subseteq catalog'
    /\ OneEach(catalog')
    /\ UNCHANGED recorded

Record ==
    /\ recorded \subseteq recorded'
    /\ \A r \in recorded' : r \subseteq catalog
    /\ UNCHANGED catalog

Next == Register \/ Record

Spec == Init /\ [][Next]_<<catalog, recorded>>
=============================================================================
