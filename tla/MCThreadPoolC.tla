--------------------------- MODULE MCThreadPoolC ---------------------------
(***************************************************************************)
(* ThreadPoolC on a small instance.  Two workers are enough for one of     *)
(* them to hold the mutex, run a task or be asleep while another one goes  *)
(* through threadFunc; the third lets a signal choose among two sleepers.  *)
(***************************************************************************)
EXTENDS ThreadPoolC
=============================================================================
