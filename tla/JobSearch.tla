----------------------------- MODULE JobSearch -----------------------------
(***************************************************************************)
(* What the tools of the agent and the menus read: the live job board, the *)
(* categories a phrase names, the vector index, the applications of the    *)
(* sender. Operators only: `board` is the table private_jobs at the moment *)
(* of the read. Job data that no step changes is constant.                 *)
(***************************************************************************)
EXTENDS Integers, Sequences, FiniteSets, SequencesExt

CONSTANTS
  Jobs,
  Newest,         (* the jobs, newest createdAt first                      *)
  Category,       (* job -> its category, or Null                          *)
  Kind,           (* job -> its PrivateJobType                             *)
  Place,          (* job -> its locationDetails                            *)
  Title,          (* job -> the words of its title                         *)
  Skills,         (* job -> the words of its skills                        *)
  Slug,           (* job -> its reference, made of its title               *)
  CategoryWords,  (* category -> the words of its name; Null has none      *)
  Phrases,        (* texts that are meant to name a category               *)
  Names,          (* phrase -> the labels it matches, best score first     *)
  Like,           (* phrase or label -> the categories containing it       *)
  CategoryLimit,  (* _CATEGORY_LIST_LIMIT                                  *)
  TopK,           (* settings.vector_top_k                                 *)
  Applications,
  Applicant       (* application -> the job seeker who made it             *)

Unasked  == "any"
None     == 0    (* a salary that is not stated, a bound that is not given *)

Null     == "NULL"

Categories == {Category[j] : j \in Jobs} \ {Null}

(* category_summary calls the jobs without a category "Other".             *)
Label(category) == IF category = Null THEN "Other" ELSE category
Labels == Categories \cup {"Other"}

(* PENDING is open to _availability, and not to any query. *)
Statuses == {"LIVE", "PENDING", "CLOSED"}

(* PrivateJobType *)
Kinds == {"FULL_TIME", "PART_TIME", "CONTRACT", "INTERNSHIP", "FREELANCE"}

ASSUME OrderAssumption ==
  Newest \in Seq(Jobs) /\ ToSet(Newest) = Jobs /\ Len(Newest) = Cardinality(Jobs)
ASSUME NamesAssumption ==
  /\ Labels \subseteq Phrases /\ Unasked \notin Phrases
  /\ \A p \in Phrases : Names[p] \in Seq(Labels)
  /\ \A c \in Categories : c \in Like[c]
ASSUME JobsAssumption ==
  /\ \A j \in Jobs : Kind[j] \in Kinds /\ IsFiniteSet(Title[j]) /\ IsFiniteSet(Skills[j])
  /\ \A c \in Categories \cup {Null} : IsFiniteSet(CategoryWords[c])
ASSUME LimitsAssumption == {CategoryLimit, TopK} \subseteq Nat

-----------------------------------------------------------------------------
(* Queries of private_jobs *)

(* Mutant: PENDING rows too. *)
OpenPending(board) == {j \in Jobs : board[j].status \in {"LIVE", "PENDING"}}

(* JobRepository._LIVE; APPROVED is LIVE, and a soft-deleted row is CLOSED. *)
Open(board) == {j \in Jobs : board[j].status = "LIVE"}

(* What a tool returns of a row. *)
Row(board, j) == [job |-> j, pay |-> board[j].pay]

Rows(board, s) == [i \in DOMAIN s |-> Row(board, s[i])]

Top(s, n) == SubSeq(s, 1, IF n < Len(s) THEN n ELSE Len(s))

(* What comes before what in a sequence, and a set as a sequence in the    *)
(* order of a relation: each member after as many as precede it.           *)
OrderOf(s) ==
  {p \in ToSet(s) \X ToSet(s) : \E m, n \in DOMAIN s : m < n /\ p = <<s[m], s[n]>>}

InOrder(S, before) ==
  [n \in 1..Cardinality(S) |-> CHOOSE x \in S : Cardinality({y \in S : <<y, x>> \in before}) = n - 1]

(* ORDER BY a score, then the newest. *)
HigherFirst(S, score) ==
  {p \in S \X S : \/ score[p[1]] > score[p[2]]
                  \/ score[p[1]] = score[p[2]] /\ p \in OrderOf(Newest)}

ByScore(S, score) == InOrder(S, HigherFirst(S, score))

(* Facets of a search: place and employment type as the planner wrote      *)
(* them, and bounds on the salary.                                         *)
NoFacets == [place |-> Unasked, kind |-> Unasked, least |-> None, most |-> None]

(* A band that is not stated satisfies every bound. *)
PayFits(pay, f) ==
  \/ pay = None
  \/ (f.least = None \/ pay >= f.least) /\ (f.most = None \/ pay <= f.most)

PlaceFits(j, f) == f.place \in {Unasked, Place[j]}

(* _EMPLOYMENT_MAP. "full_time", which the tool's schema asks for, is not  *)
(* in it, and a type that is not in it filters nothing.                    *)
EmploymentTypes(kind) ==
  CASE kind \in {"full time", "fulltime", "full-time", "permanent"} -> {"FULL_TIME"}
    [] kind \in {"part time", "parttime", "part-time"}              -> {"PART_TIME"}
    [] kind \in {"contract", "contractor"}                          -> {"CONTRACT"}
    [] kind \in {"freelance", "freelancer"}                         -> {"FREELANCE"}
    [] kind \in {"intern", "internship"}                            -> {"INTERNSHIP"}
    [] OTHER                                                        -> Kinds

(* JobRepository.search: the newest first. A category is given by a text   *)
(* that its name contains; a job without one has no name.                  *)
Search(board, category, f, limit) ==
  LET fitting == {j \in Open(board) : /\ category = Unasked \/ Category[j] \in Like[category] \ {Null}
                                      /\ PlaceFits(j, f) /\ PayFits(board[j].pay, f)
                                      /\ Kind[j] \in EmploymentTypes(f.kind)}
  IN Rows(board, Top(InOrder(fitting, OrderOf(Newest)), limit))

(* _matches_facets: the employment type must be the row's, once blanks and *)
(* dashes are underscores: "intern" is no INTERNSHIP.                      *)
SameKind(kind, j) ==
  CASE kind = Unasked                                    -> TRUE
    [] kind \in {"full time", "full-time", "full_time"} -> Kind[j] = "FULL_TIME"
    [] kind \in {"part time", "part-time", "part_time"} -> Kind[j] = "PART_TIME"
    [] kind = "contract"                                -> Kind[j] = "CONTRACT"
    [] kind = "internship"                              -> Kind[j] = "INTERNSHIP"
    [] kind = "freelance"                               -> Kind[j] = "FREELANCE"
    [] OTHER                                            -> FALSE

MatchesFacets(row, f) == PlaceFits(row.job, f) /\ SameKind(f.kind, row.job) /\ PayFits(row.pay, f)

(* get_by_ref: nothing makes a slug unique, and any of its rows is first.  *)
GetByRef(board, ref) == {j \in Open(board) : Slug[j] = ref}

(* get_by_ids: the hits that are open. *)
GetByIds(board, hits) == ToSet(hits) \cap Open(board)

(* The second half of search_jobs_core without a category: what fits, in   *)
(* the order of the hits.                                                  *)
Hydrate(board, hits, f, limit) ==
  LET fitting == {j \in GetByIds(board, hits) : MatchesFacets(Row(board, j), f)}
  IN Rows(board, Top(InOrder(fitting, OrderOf(hits)), limit))

(* VectorStore.query: up to top_k hits by similarity, of whatever was once *)
(* embedded; EmbeddingQueue models how stale that may be.                  *)
Hits == {s \in SeqOf(Jobs, TopK) : IsInjective(s)}

(* search_by_title: of the open jobs that share a word with the query, in  *)
(* title, skills or category, those that share the most. First those whose *)
(* title has the whole phrase (and so all its words), then those with most *)
(* words in the title, then the newest.                                    *)
SearchByTitle(board, words, phrased, limit) ==
  LET Shared(j) == Cardinality(words \cap (Title[j] \cup Skills[j] \cup CategoryWords[Category[j]]))
      found == {j \in Open(board) : Shared(j) > 0}
      best  == {j \in found : \A k \in found : Shared(k) <= Shared(j)}
      score == [j \in Jobs |-> Cardinality(words \cap Title[j]) + (IF j \in phrased THEN 1 ELSE 0)]
  IN Rows(board, Top(ByScore(best, score), limit))

(* recommend_by_skills: the open jobs that need the most of them. *)
RecommendBySkills(board, skills, limit) ==
  LET found == {j \in Open(board) : skills \cap Skills[j] # {}}
  IN Rows(board, Top(ByScore(found, [j \in Jobs |-> Cardinality(skills \cap Skills[j])]), limit))

(* category_summary: how many open jobs each category has, in all, and how *)
(* many categories. It groups by the category, so NULL is one.             *)
Counts(board) ==
  {Cardinality(Open(board)), Cardinality({Category[j] : j \in Open(board)})}
    \cup {Cardinality({j \in Open(board) : Category[j] = c}) : c \in {Category[j] : j \in Open(board)}}

-----------------------------------------------------------------------------
(* Categories *)

(* match_category, of the labels of the open jobs: the best. *)
MatchCategory(board, phrase) ==
  LET found == {n \in DOMAIN Names[phrase] : \E j \in Open(board) : Label(Category[j]) = Names[phrase][n]}
  IN IF found = {} THEN Unasked ELSE Names[phrase][Min(found)]

(* The first half of search_jobs_core with a category: a phrase that names *)
(* none is looked for as it is.                                            *)
ResolveCategory(board, phrase) ==
  LET c == MatchCategory(board, phrase) IN IF c = Unasked THEN phrase ELSE c

-----------------------------------------------------------------------------
(* Applications *)

(* get_application_status_core: of the applications there are, the         *)
(* sender's own, or the one that is asked for if it is theirs. The number  *)
(* is injected, and found whether or not it is stored with a country code. *)
ApplicationStatus(applied, sender, ref) ==
  {a \in applied : Applicant[a] = sender /\ ref \in {a, Unasked}}

(* submit_application_core: no application, only the link of an open job;  *)
(* the links it may be of.                                                 *)
SubmitApplication(board, ref) ==
  IF GetByRef(board, ref) = {} THEN {{}} ELSE {{j} : j \in GetByRef(board, ref)}
=============================================================================
