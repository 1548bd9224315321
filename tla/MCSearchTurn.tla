---------------------------- MODULE MCSearchTurn ----------------------------
(* A small instance of SearchTurn: two areas, one of whose names contains  *)
(* the other, and a job in neither; one job is still to be approved.       *)
EXTENDS SearchTurn

CONSTANTS j1, j2, j3, j4, r1, me, other, mine, theirs

MCJobs     == {j1, j2, j3, j4}
MCNewest   == <<j2, j1, j3, j4>>
MCCategory == [j \in MCJobs |-> CASE j = j3 -> "sales support" [] j = j4 -> Null [] OTHER -> "sales"]
MCKind     == [j \in MCJobs |-> CASE j = j2 -> "INTERNSHIP" [] j = j4 -> "FREELANCE" [] OTHER -> "FULL_TIME"]
MCPlace    == [j \in MCJobs |-> IF j = j2 THEN "town" ELSE "village"]
MCTitle    == [j \in MCJobs |-> CASE j = j3 -> {"agent"} [] j = j4 -> {"driver"} [] OTHER -> {"clerk"}]
MCSlug     == [j \in MCJobs |-> CASE j = j3 -> "agent" [] j = j4 -> "driver" [] OTHER -> "clerk"]
MCSkills   == [j \in MCJobs |-> IF j = j2 THEN {"agent"} ELSE {}]

MCCategoryWords ==
  [c \in {"sales", "sales support", Null} |->
     CASE c = "sales" -> {"sales"} [] c = "sales support" -> {"sales", "support"} [] OTHER -> {}]

MCPhrases == {"sales", "sales support", "Other"}
MCNames   ==
  [p \in MCPhrases |-> CASE p = "sales"         -> <<"sales", "sales support">>
                        [] p = "sales support" -> <<"sales support", "sales">>
                        [] OTHER               -> <<"Other">>]
MCLike    ==
  [p \in MCPhrases |-> CASE p = "sales"         -> {"sales", "sales support"}
                        [] p = "sales support" -> {"sales support"}
                        [] OTHER               -> {}]

MCApplications == {mine, theirs}
MCApplicant    == [a \in MCApplications |-> IF a = mine THEN me ELSE other]

MCPays    == {10, 20}
MCOpening == [j \in MCJobs |-> IF j = j2 THEN 20 ELSE 0]
MCFirstStatus == [j \in MCJobs |-> IF j = j1 THEN "PENDING" ELSE "LIVE"]

MCFixed    == {"buttons", "categories"}
MCGlossary == {"buttons"}

Latin == [NoMessage EXCEPT !.script = "latin"]
Tamil == [NoMessage EXCEPT !.script = "tamil"]
MCMessages ==
  { [Tamil EXCEPT !.phrase = "sales"],
    [Tamil EXCEPT !.tap = "menu_search"],
    [Latin EXCEPT !.tap = "category", !.phrase = "sales support"],
    [Tamil EXCEPT !.label = TRUE, !.menu = "menu_recommend"],
    [Latin EXCEPT !.menu = "menu_status", !.order = TRUE],
    [Latin EXCEPT !.words = {"clerk", "support"}, !.phrased = {j2}],
    [Latin EXCEPT !.typed = {20}, !.followup = TRUE, !.apply = TRUE],
    [NoMessage EXCEPT !.tap = "view", !.ref = "clerk"] }

MCCalls ==
  { [Step("search_jobs") EXCEPT !.phrase = "sales"],
    [Step("search_jobs") EXCEPT !.phrase = "sales", !.facets.kind = "full_time", !.facets.least = 20],
    [Step("search_jobs") EXCEPT !.facets.kind = "freelance", !.limit = 1],
    Step("list_jobs_overview"),
    [Step("submit_application") EXCEPT !.ref = "clerk"],
    [Step("get_application_status") EXCEPT !.ref = theirs],
    Step("get_application_status"),
    Step("search_docs"), Step("other") }

(* Where turns overlap: fewer jobs, less to ask for, and no claims. *)
OverlapJobs   == {j2, j3}
OverlapNewest == <<j2, j3>>

OverlapMessages ==
  { [Tamil EXCEPT !.phrase = "sales"],
    [Tamil EXCEPT !.tap = "menu_search"],
    [Latin EXCEPT !.followup = TRUE, !.apply = TRUE],
    [NoMessage EXCEPT !.tap = "view", !.ref = "clerk"] }

OverlapClaims == {NoClaim}

MCClaims ==
  { NoClaim, Claim("salary", 10, TRUE), Claim("salary", 20, TRUE), Claim("count", 4, TRUE),
    Claim("salary", 10, FALSE) }
=============================================================================
