----------------------------- MODULE MCExamples -----------------------------
(* The EXAMPLES of zone.py and pool.py, with the region and the agent that *)
(* they name in place.  No call fails and nobody else is at work.          *)
EXTENDS MCTasks

MCInitial ==
    << Thing("region", r1, NoFields, <<>>, <<>>),
       Thing("agent", a1, Typed("Kaktus"), <<>>, <<>>) >>

MCRequests ==
    { Present("zone", z1, NoFields, <<>>, <<r1>>),
      Absent("zone", z1, <<>>, <<r1>>),
      Present("pool", p1, NoFields, <<{a1}>>, <<r1>>),
      Without({"pool", "agents"}, Absent("pool", p1, <<{}>>, <<r1>>)) }
=============================================================================
