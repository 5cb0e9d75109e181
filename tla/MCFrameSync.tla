----------------------------- MODULE MCFrameSync -----------------------------
(* FrameSync for TLC.  NSync = 3 is what check_srf_caps asks for.          *)
EXTENDS FrameSyncInv

NoCalls  == {}
AllCalls == Calls

=============================================================================
