--------------------------- MODULE MCWorkerCycle ---------------------------
(***************************************************************************)
(* Two records of one DATEX situation, the second one also the subject of  *)
(* a situation of the earlier release.                                     *)
(***************************************************************************)
EXTENDS WorkerCycle

CONSTANTS r1, r2, k1, o2

MCRecords == {r1, r2}
MCKeys == {k1}
MCOld == {o2}
MCKeyOf == [r \in MCRecords |-> k1]
MCOrders == {[r \in MCRecords |-> IF r = first THEN 1 ELSE 2] : first \in MCRecords}
MCOldEvent == [o \in MCOld |-> r2]

\* Both promotable; only the first one; the first one ended and the second one
\* demoted.
MCSnapshots ==
  {[r \in MCRecords |-> "major"],
   [r \in MCRecords |-> IF r = r1 THEN "major" ELSE "absent"],
   [r \in MCRecords |-> IF r = r1 THEN "ended" ELSE "minor"]}
=============================================================================
