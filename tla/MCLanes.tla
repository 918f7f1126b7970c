------------------------------- MODULE MCLanes -------------------------------
(***************************************************************************)
(* A client of two bulk connections, options with a fraction and options   *)
(* below one, and a default of one permit.                                 *)
(***************************************************************************)
EXTENDS Lanes

SmallOptions ==
  {[bulkConnections |-> Halves(5), maxInflightRequests |-> Halves(3),
    requestQueueDepth |-> Unset, maxFrameLen |-> NotFinite],
   [bulkConnections |-> Halves(-2), maxInflightRequests |-> Halves(1),
    requestQueueDepth |-> Halves(0), maxFrameLen |-> Halves(-3)]}
=============================================================================
