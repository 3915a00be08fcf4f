-------------------------------- MODULE Contents -------------------------------
(***************************************************************************)
(* What a record says of its model, in full: its dates and its footprint.  *)
(* One record is created and then updated any number of times.             *)
(*                                                                         *)
(* Requests come one after the other.  For footprints that is no           *)
(* restriction: no check looks at the one that is stored, and the tileset  *)
(* never changes.  Updates of dates that interleave are a matter of module *)
(* Gateway, where dates are numbers.                                       *)
(***************************************************************************)
EXTENDS SourceDates, Footprints

vars == <<dates, tileset, footprint>>

Init == InitDates /\ InitFootprint

(* createModel, accepted, and its ingestion.                               *)
Ingest(s, e, f) == IngestDates(s, e) /\ IngestFootprint(f)

(* updateMetadata, accepted.                                               *)
Update(s, e, f) == UpdateDates(s, e) /\ UpdateFootprint(f)

(* A client reads the record and sends back what it has read.              *)
SendBack == Exists /\ Update(start, end, footprint)

Next ==
  \/ \E s, e \in Written, f \in Footprints : Ingest(s, e, f)
  \/ \E s, e \in Written \cup {Undefined}, f \in Footprints \cup {NoFootprint} : Update(s, e, f)
  \/ SendBack

Spec == Init /\ [][Next]_vars
================================================================================
