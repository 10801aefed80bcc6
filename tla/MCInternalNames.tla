--------------------------- MODULE MCInternalNames ---------------------------
(* A lockfile entry installed under one key and looked up as another name: *)
(* publish-age judges the key by the internal-name rule and sends the      *)
(* vouched name, which the configuration declares internal.                *)
EXTENDS MCOnlineScan

InternalScans ==
  {[Base EXCEPT !.locks = {L("a", "in", "1", "public"), L("b", "b", "2", "public")},
                !.budget = b] : b \in {1, 3}}
=============================================================================
