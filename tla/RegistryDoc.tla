---------------------------- MODULE RegistryDoc ----------------------------
(***************************************************************************)
(* The session list kept in ~/.xwave/registry.json, as a value: a sequence *)
(* of records in file order.  A record has an id field; its other fields   *)
(* (server_pid, fsdb fingerprint) are chosen by the module that uses this  *)
(* one.  The operators are the list edits of SessionRegistry.              *)
(***************************************************************************)
EXTENDS Selections

\* The session ids that have a record.
IdsOf(doc) == {doc[i].id : i \in DOMAIN doc}

\* The index of the first record of id: readers scan from the front.
FirstOf(doc, id) ==
  CHOOSE i \in DOMAIN doc :
    doc[i].id = id /\ \A j \in DOMAIN doc : doc[j].id = id => i <= j

Find(doc, id) == doc[FirstOf(doc, id)]

\* upsert replaces the first record of the id, or pushes a new one.
Upserted(doc, rec) ==
  IF rec.id \in IdsOf(doc)
  THEN [doc EXCEPT ![FirstOf(doc, rec.id)] = rec]
  ELSE Append(doc, rec)

\* The records whose id is not in ids.
Kept(doc, ids) == {i \in DOMAIN doc : doc[i].id \notin ids}
Without(doc, ids) == Picked(doc, Kept(doc, ids))
=============================================================================
