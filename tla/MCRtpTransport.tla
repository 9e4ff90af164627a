--------------------------- MODULE MCRtpTransport ---------------------------
(* Instances of RtpTransport for TLC.                                      *)
EXTENDS RtpTransport
=============================================================================
