--------------------------- MODULE MCObjectArchive ---------------------------
(* The instance of ObjectArchive in which an archived object is lost. *)
EXTENDS ObjectArchive

(* Two backups with the same content. *)
MCDigestOf == [b \in Backups |-> 1]
==============================================================================
