---------------------------- MODULE MCOutlierModels ----------------------------
(* OutlierModels on small integers: batches of at most two values. *)
EXTENDS OutlierModels

MCBatches ==
  {<<>>, <<Whole(0)>>, <<Whole(0), Whole(1)>>, <<Whole(1), Whole(1)>>,
   <<Whole(1), Whole(4)>>}
=============================================================================
