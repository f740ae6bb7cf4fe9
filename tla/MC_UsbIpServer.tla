--------------------------- MODULE MC_UsbIpServer ---------------------------
(* Instantiation of UsbIpServer for TLC: the sets of tasks and bus ids are *)
(* model values given in the .cfg files.                                   *)
EXTENDS UsbIpServer, TLC

(* Sessions are interchangeable: they start idle and run the same code.   *)
SessionSymmetry == Permutations(Sessions)

=============================================================================
