----------------------------- MODULE Grounding -----------------------------
(***************************************************************************)
(* What a reply may be made of: the results of a turn's tools, the replies *)
(* that are formatted from them without the model, and the claims of a     *)
(* model's draft that they support. Operators only.                        *)
(***************************************************************************)
EXTENDS JobSearch

CONSTANTS
  ListAbove,   (* searches with more hits than this are listed: 5          *)
  DocLimit     (* a search of the documents returns at most this many: 3   *)

ASSUME ResultsAssumption == {ListAbove, DocLimit} \subseteq Nat

Tools == {"search_jobs", "list_jobs_overview", "submit_application",
          "get_application_status", "search_docs", "other"}

(* A step of a plan: a tool and its arguments. *)
Step(tool) ==
  [tool |-> tool, phrase |-> Unasked, facets |-> NoFacets, limit |-> 5, ref |-> Unasked]

(* An entry of tool_results: the step, and rows of a search, counts of the *)
(* overview or of documents, the job a link is for, applications; whether  *)
(* dispatch returned an error. A hand-over and a follow-up return only an  *)
(* answer.                                                                 *)
NoResult(call) ==
  [call |-> call, failed |-> FALSE, rows |-> <<>>, counts |-> {}, link |-> {}, apps |-> {}]

FailedResult(call) == [NoResult(call) EXCEPT !.failed = TRUE]

(* The places of a tool's results, and the first of some places, as a set. *)
Of(results, tool) == {n \in DOMAIN results : results[n].call.tool = tool}

First(places) == {m \in places : \A n \in places : m <= n}

(* The first result of a tool, if there is one. *)
FirstOf(results, tool) == {results[n] : n \in First(Of(results, tool))}

(* The first search that did not fail. *)
Listed(results) ==
  {results[n] : n \in First({m \in Of(results, "search_jobs") : ~results[m].failed})}

JobsOf(rows) == {rows[i].job : i \in DOMAIN rows}

(* The searches that found something. *)
Finds(results) == {n \in Of(results, "search_jobs") : results[n].rows # <<>>}

-----------------------------------------------------------------------------
(* Replies that need no model *)

(* _application_status_reply. An error holds no applications, and neither  *)
(* does a reference that is not the sender's: both read as having none.    *)
StatusReply(results) ==
  {IF r.apps = {} THEN "none" ELSE "status" : r \in FirstOf(results, "get_application_status")}

(* _apply_link_reply: the job of the first submission, if it has a link. *)
LinkReply(results) == UNION {r.link : r \in FirstOf(results, "submit_application")}

(* _job_listing_reply: the search that is listed, if it is long. *)
ListingReply(results) == {r.rows : r \in {x \in Listed(results) : Len(x.rows) > ListAbove}}

-----------------------------------------------------------------------------
(* Drafts of the model *)

(* A figure in a draft, and whether the expressions of the validator see   *)
(* it: an amount after a rupee sign, Rs or INR, as the number it stands    *)
(* for; a count before "jobs", "open roles" and the like, or in brackets.  *)
(* "25 lakh" and "69 sales jobs" are not seen. A draft makes one claim:    *)
(* each is judged alone. References are not claims: the validator knows    *)
(* those that look like JOB-AB1001, and a job_ref of a tool is a slug.     *)
Claim(what, of, seen) == [what |-> what, of |-> of, seen |-> seen]
NoClaim == Claim("none", None, FALSE)

(* _grounding_rows, _allowed_prices: the salaries of the searched jobs. *)
Salaries(results) ==
  (UNION {{results[n].rows[i].pay : i \in DOMAIN results[n].rows} : n \in Of(results, "search_jobs")}) \ {None}

(* _allowed_job_counts: the counts of the overview, and the length of      *)
(* every list, be it of jobs or of documents.                              *)
AllowedCounts(results) ==
  (UNION {results[n].counts : n \in DOMAIN results})
    \cup {Len(results[n].rows) : n \in {m \in Of(results, "search_jobs") : ~results[m].failed}}

(* HallucinationValidator.validate: what it sees must be what the results  *)
(* or the candidate's own numbers support. The pin supports nothing:       *)
(* _cached_grounding looks for amounts after a rupee sign, and its text    *)
(* states the salary in INR.                                               *)
Valid(claim, results, typed) ==
  \/ ~claim.seen
  \/ claim.what = "salary" /\ claim.of \in Salaries(results) \cup typed
  \/ claim.what = "count"  /\ claim.of \in AllowedCounts(results) \cup typed
=============================================================================
