-------------------------- MODULE MCPerformanceSuite --------------------------
(***************************************************************************)
(* PerformanceSuite for TLC: two kinds of points, one point outside of the *)
(* expected population, and profiles that a careless operator might write. *)
(***************************************************************************)
EXTENDS PerformanceSuite

MCPoints == {"b0", "b1", "a0"}
MCKind == [p \in MCPoints |-> IF p = "a0" THEN "analog" ELSE "binary"]

OneBinary == [k \in {"analog", "binary"} |-> IF k = "binary" THEN 1 ELSE 0]
OneOfEach == [k \in {"analog", "binary"} |-> 1]

Plain(id, expected) ==
    [id |-> id, captures |-> FALSE, mode |-> "static_set", ranges |-> {}, expected |-> expected, timeout |-> 1,
     warmups |-> 0, iterations |-> 1, baseline |-> NoBaseline]
Captured(id, expected, ranges, baseline) ==
    [Plain(id, expected) EXCEPT !.captures = TRUE, !.ranges = ranges, !.baseline = baseline,
                                !.warmups = 1]

Candidates ==
    {<<Plain("p", OneBinary)>>,
     <<Captured("c", OneOfEach, {"b0", "a0"}, NoBaseline)>>,
     <<Captured("c", OneOfEach, {"b0"}, NoBaseline)>>,
     <<Captured("c", OneBinary, {"b0"}, "p"), Plain("p", OneBinary)>>,
     <<[Captured("c", OneBinary, {}, NoBaseline) EXCEPT !.mode = "observation"]>>,
     <<[Captured("c", OneBinary, {}, "p") EXCEPT !.mode = "event_sequence"],
       Plain("p", OneBinary)>>,
     <<Plain("p", OneOfEach), Captured("c", OneBinary, {"b1"}, "p")>>,
     <<Plain("p", OneBinary), Plain("q", OneOfEach)>>,
     <<[Plain("p", OneBinary) EXCEPT !.iterations = 3]>>}

MCProfiles == [scenarios : Candidates, watchdog : {2, 3, 6, 7}]
=============================================================================
