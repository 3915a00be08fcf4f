--------------------------- MODULE GatewayRefinement ---------------------------
(***************************************************************************)
(* The gateway implements its contract.  The mapping forgets the steps of  *)
(* the handlers: a request is pending as long as a handler serves it, and  *)
(* it is excused when a mark has overtaken it.                             *)
(***************************************************************************)
EXTENDS GatewayProperties

phase ==
  [ r \in Requests |->
      IF pc[r] = "idle" THEN "idle" ELSE IF Ended(r) THEN "ended" ELSE "pending" ]

Contract == INSTANCE GatewayContract WITH excused <- overtaken

(* Whatever interleaves and whatever fails, the services see only steps    *)
(* the contract allows: one job and one change of a record per request,    *)
(* none of them contradicted by the answer; a record that is being deleted *)
(* changed only by requests that its mark has overtaken; a deletion that   *)
(* marks only what its job removes, and never the best terrain.            *)
ImplementsContract == Contract!Spec
================================================================================
