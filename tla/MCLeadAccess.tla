---------------------------- MODULE MCLeadAccess ----------------------------
(* Bounded instances of LeadAccess for TLC: a viewer v, a manager m and an   *)
(* assignee a; v's role varies, the others see what is assigned to them.    *)
EXTENDS LeadAccess, TLC

CONSTANTS v, m, a, j1, j2, s1, s2, s3, d1, i1, i2

MCJourneyOf == (s1 :> j1) @@ (s2 :> j1) @@ (s3 :> j2)
MCDepartmentOf == (v :> d1) @@ (m :> NoDepartment) @@ (a :> d1)

(* a below m below v, and the loop that two updates at the same time can    *)
(* close, with a outside.                                                   *)
MCCharts ==
  { (v :> NoUser) @@ (m :> v) @@ (a :> m),
    (v :> m) @@ (m :> v) @@ (a :> NoUser) }

Plain == [scope |-> "SELF", journeys |-> Journey, bypass |-> FALSE, live |-> TRUE]

MCRoles ==
  { [u \in User |-> IF u = v THEN r ELSE Plain] :
      r \in [scope : {"TEAM", "DEPARTMENT", "ORGANIZATION"}, journeys : {Journey},
             bypass : {FALSE}, live : {TRUE}]
            \cup { [Plain EXCEPT !.journeys = {j1}],
                   [Plain EXCEPT !.scope = "ORGANIZATION", !.journeys = {j1}],
                   [Plain EXCEPT !.scope = "TEAM", !.bypass = TRUE],
                   [Plain EXCEPT !.live = FALSE] } }

(* Each view with nothing named, a journey, a status, an owner, or types.   *)
Asked == [mode |-> "all", journey |-> NoJourney, status |-> NoStatus, owner |-> NoUser, types |-> {}]
MCQuery ==
  UNION { { [q EXCEPT !.mode = mode] : mode \in {"mine", "shared_with_me", "all"} } :
            q \in { Asked, [Asked EXCEPT !.journey = j2], [Asked EXCEPT !.status = s1],
                    [Asked EXCEPT !.owner = a], [Asked EXCEPT !.types = Type, !.journey = j1] } }

MCSymmetry == Permutations(Instance)
=============================================================================
