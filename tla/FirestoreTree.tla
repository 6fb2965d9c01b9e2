--------------------------- MODULE FirestoreTree ---------------------------
(***************************************************************************)
(* The part of Firestore a collection job reads: documents in collections, *)
(* collections under documents, and the three queries of the runner.       *)
(* Document ids are numbers in the order of FieldPath.documentId(), and a  *)
(* document is numbered after those it is nested under.  A collection may  *)
(* hang under a document that does not exist (a missing document).         *)
(***************************************************************************)
EXTENDS Naturals, FiniteSets

CONSTANTS
  Docs,          \* the document paths
  Collections,   \* the collection paths
  Root,          \* the collection of the request
  CollOf,        \* the collection of each document path
  ParentOf,      \* the document path a collection other than Root is under
  PageSize       \* PAGE_SIZE

ASSUME TreeAssumption ==
  /\ Docs \subseteq Nat \ {0}
  /\ IsFiniteSet(Docs)
  /\ Root \in Collections
  /\ CollOf \in [Docs -> Collections]
  /\ ParentOf \in [Collections \ {Root} -> Docs]
  /\ \A d \in Docs : CollOf[d] # Root => ParentOf[CollOf[d]] < d
  /\ PageSize \in Nat \ {0}

\* The document paths d is nested under.
Ancestors[d \in Docs] ==
  IF CollOf[d] = Root THEN {}
  ELSE {ParentOf[CollOf[d]]} \cup Ancestors[ParentOf[CollOf[d]]]

Direct(db, c) == {d \in db : CollOf[d] = c}

\* orderBy(documentId()).startAfter(cursor).limit(PAGE_SIZE): existing
\* documents only.
Page(db, c, cursor) ==
  LET later == {d \in Direct(db, c) : d > cursor}
  IN {d \in later : Cardinality({e \in later : e < d}) < PageSize}

\* The document of a page that the loop reads next.
First(page) == CHOOSE d \in page : \A e \in page : d <= e

\* listCollections(): the collections under d that hold a document at any
\* depth, be it under missing documents.
Subcollections(db, d) ==
  {c \in Collections \ {Root} :
     /\ ParentOf[c] = d
     /\ \E e \in db : \E a \in {e} \cup Ancestors[e] : CollOf[a] = c}
=============================================================================
