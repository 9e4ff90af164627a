--------------------------- MODULE MCCompoundMix ---------------------------
(* Instances of CompoundMix for TLC.                                       *)
EXTENDS CompoundMix, TLC

CONSTANTS acm, vscm, ann, ben, camera, win1, win2, encoder

MCDrivers == {acm, vscm}
MCCodecs == {ann, ben}
MCSample == acm :> 1 @@ vscm :> 2 @@ ann :> -3 @@ ben :> 3
MCCameras == {camera}
MCRenders == {win1, win2}
MCEncoders == {encoder}
=============================================================================
