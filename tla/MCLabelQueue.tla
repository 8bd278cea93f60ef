---------------------------- MODULE MCLabelQueue ----------------------------
(* Instances of LabelQueue: a few jobs and one or two workers. *)
EXTENDS LabelQueue

CONSTANTS j1, j2, j3, w1, w2
=============================================================================
