----------------------------- MODULE MCCopyRelay ----------------------------
(* CopyRelay on small buffers and short streams.                              *)
EXTENDS CopyRelay
=============================================================================
