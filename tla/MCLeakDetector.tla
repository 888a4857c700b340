---------------------------- MODULE MCLeakDetector ----------------------------
(* LeakDetector with three blocks: enough for one to be lost from the list.     *)
EXTENDS LeakDetector
===============================================================================
