------------------------------ MODULE MCCourse -----------------------------
(* Small instances of Course for TLC.                                      *)
EXTENDS Course

CONSTANTS north

(* A route whose reversal differs from it in every point.                  *)
OneRoute == [h \in Hrefs |-> <<1, 2>>]
=============================================================================
