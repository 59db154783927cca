--------------------------- MODULE MCCentralProbe ---------------------------
(* Small instances of CentralProbe.                                          *)
EXTENDS CentralProbe

CONSTANTS a, b, c1, c2, absent, x, y

\* Pods come into the selection and leave it by their label.
OneSelector == {{x}}
=============================================================================
