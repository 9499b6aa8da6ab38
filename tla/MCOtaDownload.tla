---------------------------- MODULE MCOtaDownload ----------------------------
(* OtaDownload on small instances: see MCOta*.cfg. *)
EXTENDS OtaDownload

CONSTANTS f1, f2

Sizes == [f \in {f1, f2} |-> IF f = f1 THEN 3 ELSE 2]
===============================================================================
