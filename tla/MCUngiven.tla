----------------------------- MODULE MCUngiven ------------------------------
(* A task describes an instance that has an adapter and names none: the    *)
(* arguments of the first of the EXAMPLES of instance.py, and a            *)
(* description.                                                            *)
EXTENDS MCTasks

MCInitial ==
    << Thing("project", p1, NoFields, << <<>>, <<>> >>, <<>>),
       Thing("zone", z1, NoFields, <<>>, <<>>),
       Thing("adapter", a1, NoFields, <<>>, <<>>),
       Thing("instance", i1, Described("x"), << <<3>>, <<>> >>, <<1, 2>>) >>

MCRequests ==
    { Present("instance", i1, Described("y"), <<{}, {}>>, <<p1, z1>>),
      Present("instance", i1, NoFields, <<{a1}, {}>>, <<p1, z1>>) }
=============================================================================
