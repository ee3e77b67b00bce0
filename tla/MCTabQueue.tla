----------------------------- MODULE MCTabQueue -----------------------------
(* Three calls, two tabs, one key of each kind.  A position or a target id  *)
(* names one tab, everything else fits both; the lines of addresses, sites  *)
(* and groups work alike, so their keys may be swapped.                     *)
EXTENDS TabQueue, TLC

CONSTANTS any, url, domain, group, index, raw, s1, s2

MCSelects ==
  [k \in {any, url, domain, group, index, raw} |->
    IF k = raw THEN {s1} ELSE IF k = index THEN {s2} ELSE {s1, s2}]

Symmetry == Permutations(Tasks) \cup Permutations({url, domain, group})
=============================================================================
