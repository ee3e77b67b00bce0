---------------------------- MODULE MCSaveWorker ----------------------------
(* Three callers, as many save threads as they can create.                  *)
EXTENDS SaveWorker
=============================================================================
