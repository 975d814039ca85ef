------------------------------ MODULE Sources ------------------------------
(***************************************************************************)
(* What the followed sites show and what reaches the user: the providers   *)
(* of src/providers, the identifiers and dates src/notifier.py makes of    *)
(* their entries, and src/tools/rattrapage_flux.py, which pages through a  *)
(* listing that goes on growing.                                           *)
(*                                                                         *)
(* A provider shows a window of a site: the newest objects, cut by the     *)
(* site before anything is left out, and for threads the newest replies of *)
(* the newest threads.  PollFeed models the cycle in detail; here a poll   *)
(* is one step, with its reference and its watermark.                      *)
(***************************************************************************)
EXTENDS Integers, Sequences, FiniteSets, FiniteSetsExt

CONSTANTS Kinds,    \* the providers to look at
          Width,    \* per_page, first, last, maxResults
          Replies,  \* replies shown of a thread
          Grace,    \* BACKFILL_GRACE_SECONDS
          PageSize, \* PAGE of the tool
          MaxPages, \* --pages-max
          MaxTime,  \* bound: posts and pushes
          MaxFaults \* bound: refused requests, and objects that disappear

ASSUME SourcesAssumption ==
  /\ Kinds \subseteq {"rss", "github_issues", "github_comments", "github_forks",
                      "github_discussion", "github_sponsors", "youtube_comments"}
  /\ {Width, Replies, PageSize, MaxPages} \subseteq Nat \ {0}
  /\ {Grace, MaxTime, MaxFaults} \subseteq Nat

-----------------------------------------------------------------------------
(* The providers: the classes of objects a site lists, those that are left out of its
   answer, how many replies an answer shows of a thread, what names an entry, whether each
   one is dated, and the answers that raise instead of looking like a source without entries. *)

Rss == [classes |-> {"item"}, left_out |-> {}, replies |-> 0, id |-> "own", dated |-> {TRUE, FALSE},
        raises |-> {"http", "unreadable"}]

(* /issues lists the pull requests too: they count in the page. *)
GithubIssues == [classes |-> {"issue", "pull_request"}, left_out |-> {"pull_request"}, replies |-> 0,
                 id |-> "own", dated |-> {TRUE}, raises |-> {"http"}]

GithubComments == [classes |-> {"comment", "owner_or_bot"}, left_out |-> {"owner_or_bot"}, replies |-> 0,
                   id |-> "own", dated |-> {TRUE}, raises |-> {"http"}]

(* The date is that of the last push, and part of the name. *)
GithubForks == [classes |-> {"fork"}, left_out |-> {}, replies |-> 0, id |-> "push", dated |-> {TRUE},
                raises |-> {"http"}]

(* databaseId may be null: such comments are of class "old". *)
GithubDiscussion == [classes |-> {"comment", "old"}, left_out |-> {}, replies |-> Replies,
                     id |-> "database_or_node", dated |-> {TRUE},
                     raises |-> {"http", "source", "token", "errors", "not_found"}]

GithubSponsors == [classes |-> {"sponsorship"}, left_out |-> {}, replies |-> 0, id |-> "own", dated |-> {TRUE},
                   raises |-> {"http", "source", "token", "errors", "not_found"}]

YoutubeComments == [classes |-> {"comment"}, left_out |-> {}, replies |-> Replies, id |-> "own",
                    dated |-> {TRUE}, raises |-> {"http", "source", "token"}]

Provider(kind) == CASE kind = "rss"               -> Rss
                    [] kind = "github_issues"     -> GithubIssues
                    [] kind = "github_comments"   -> GithubComments
                    [] kind = "github_forks"      -> GithubForks
                    [] kind = "github_discussion" -> GithubDiscussion
                    [] kind = "github_sponsors"   -> GithubSponsors
                    [] kind = "youtube_comments"  -> YoutubeComments

VARIABLES
  kind,      \* the provider of the source
  posts,     \* the objects of the site, in the order of their creation
  now,       \* its clock
  primed,    \* the state file exists
  seen,      \* seen_ids
  newest,    \* newest_timestamp, 0 when there is none
  tool,      \* the run of rattrapage_flux.py
  first,     \* (for the properties) the versions a poll could see when the source was primed
  fresh,     \* (for the properties) the versions made since the last poll
  announced, \* (for the properties) the versions toasted
  faults

site   == <<kind, posts, now>>
memory == <<primed, seen, newest, first, fresh, announced>>
vars   == <<site, memory, tool, faults>>

Here == Provider(kind)

(* Version(i): object i as it is now; only a push makes a new version of a fork. *)
Version(i) == <<i, posts[i].date>>

Standing == {i \in DOMAIN posts : ~posts[i].gone}

(* Slip: the oldest objects of the site. *)
Oldest(S, n) == {i \in S : Cardinality({j \in S : j < i}) < n}

(* A page: the newest n of S, in whatever order the site lists them. *)
Newest(S, n) == {i \in S : Cardinality({j \in S : j > i}) < n}

Window ==
  LET top == Newest({i \in Standing : posts[i].thread = 0}, Width)
  IN top \cup UNION {Newest({i \in Standing : posts[i].thread = t}, Here.replies) : t \in top}

(* fetch_entries: what is left of the window. *)
Entries == {i \in Window : posts[i].class \notin Here.left_out}

(* entry.id, or the link or a digest of an item without guid. *)
Id(i) == IF Here.id = "push" THEN Version(i)
         ELSE IF Here.id = "database_or_node" /\ posts[i].class = "old" THEN <<i, "node">> ELSE <<i, "id">>

Dates(S) == {posts[i].date : i \in S} \ {0}

Latest(ts) == IF ts = {} THEN 0 ELSE Max(ts)

Off == [step |-> "off", since |-> 0, cursor |-> 0, read |-> {}, pages |-> 0, warned |-> FALSE,
        start |-> {}, judged |-> {}, unjudged |-> {}]

Init ==
  /\ kind \in Kinds /\ posts = <<>> /\ now = 0
  /\ primed = FALSE /\ seen = {} /\ newest = 0 /\ tool = Off
  /\ first = {} /\ fresh = {} /\ announced = {} /\ faults = 0

-----------------------------------------------------------------------------
(* The site *)

Tick == now < MaxTime /\ now' = now + 1

Fault == faults < MaxFaults /\ faults' = faults + 1

(* A new object, or a reply to a thread.  A fork is born with the date of an earlier push. *)
Post ==
  /\ Tick
  /\ \E class \in Here.classes, dated \in Here.dated,
        thread \in {0} \cup {i \in Standing : Here.replies > 0 /\ posts[i].thread = 0},
        date \in (IF Here.id = "push" THEN 1..now' ELSE {now'}) :
       posts' = Append(posts, [class |-> class, thread |-> thread, date |-> IF dated THEN date ELSE 0,
                               gone |-> FALSE])
  /\ fresh' = fresh \cup {<<Len(posts'), posts'[Len(posts')].date>>}
  /\ UNCHANGED <<kind, primed, seen, newest, tool, first, announced, faults>>

Push(i) ==
  /\ Here.id = "push" /\ ~posts[i].gone /\ Tick
  /\ posts' = [posts EXCEPT ![i].date = now']
  /\ fresh' = (fresh \ {Version(i)}) \cup {<<i, now'>>}
  /\ UNCHANGED <<kind, primed, seen, newest, tool, first, announced, faults>>

(* Deleted, closed, withdrawn: older objects come back into the window. *)
Disappear(i) ==
  /\ ~posts[i].gone /\ Fault
  /\ posts' = [posts EXCEPT ![i].gone = TRUE]
  /\ UNCHANGED <<kind, now, memory, tool>>

-----------------------------------------------------------------------------
(* A poll *)

Absorbed(i) == posts[i].date # 0 /\ newest # 0 /\ posts[i].date < newest - Grace

(* The first answer is the reference, the later ones are sorted. *)
Poll ==
  /\ seen' = seen \cup {Id(i) : i \in Entries}
  /\ newest' = Latest({newest} \cup Dates(Entries))
  /\ IF primed
     THEN /\ announced' = announced \cup
                            {Version(i) : i \in {j \in Entries : Id(j) \notin seen /\ ~Absorbed(j)}}
          /\ UNCHANGED <<primed, first>>
     ELSE /\ primed' = TRUE /\ first' = {Version(i) : i \in Entries}
          /\ UNCHANGED announced
  /\ fresh' = {}
  /\ UNCHANGED <<site, tool, faults>>

(* Slip: a refused request is a source without entries. *)
EmptyAnswer(why) ==
  /\ why \in Here.raises /\ Fault
  /\ primed' = TRUE /\ first' = IF primed THEN first ELSE {Version(i) : i \in Entries}
  /\ fresh' = {}
  /\ UNCHANGED <<site, seen, newest, announced, tool>>

(* The provider raises: nothing is primed and nothing is known. *)
PollRaises(why) ==
  /\ why \in Here.raises /\ Fault
  /\ UNCHANGED <<site, memory, tool>>

-----------------------------------------------------------------------------
(* The catch-up tool: page after page, from the newest item to those before the period *)

ToolStarts ==
  /\ kind = "rss" /\ tool.step = "off"
  /\ \E since \in 1..now : tool' = [Off EXCEPT !.step = "read", !.since = since, !.start = Standing]
  /\ UNCHANGED <<site, memory, faults>>

(* after=<fullname> *)
Page == Newest({i \in Standing : tool.cursor # 0 => i < tool.cursor}, PageSize)

(* An item without a date tells nothing of the period. *)
PeriodCovered(new) == Dates(new) # {} /\ Min(Dates(new)) < tool.since

ReadPage ==
  /\ tool.step = "read"
  /\ LET new  == Page \ tool.read
         last == tool.pages + 1 = MaxPages
     IN tool' = IF new = {} THEN [tool EXCEPT !.step = "judge"]
                ELSE [tool EXCEPT !.read = @ \cup new, !.pages = @ + 1, !.cursor = Min(new),
                                  !.step = IF PeriodCovered(new) \/ last THEN "judge" ELSE "read",
                                  !.warned = ~PeriodCovered(new) /\ last]
  /\ UNCHANGED <<site, memory, faults>>

(* Slip: a refused page looks like the end of the listing. *)
PageSkipped ==
  /\ tool.step = "read" /\ Fault
  /\ tool' = [tool EXCEPT !.step = "judge"]
  /\ UNCHANGED <<site, memory>>

(* A refused first page ends the tool; a later one costs the rest, and is told. *)
PageRefused ==
  /\ tool.step = "read" /\ Fault
  /\ tool' = IF tool.pages = 0 THEN Off ELSE [tool EXCEPT !.step = "judge", !.warned = TRUE]
  /\ UNCHANGED <<site, memory>>

(* dans_la_periode: an item without a date is kept. *)
Period == {i \in tool.read : posts[i].date = 0 \/ posts[i].date >= tool.since}

Answers == {"yes", "no", "no_key", "http", "no_answer", "refusal", "cut", "no_json", "no_field"}

(* juger, lire_verdict: a verdict is a JSON object with a boolean, all the rest is an outage. *)
IsVerdict(answer) == answer \in {"yes", "no"}

(* One more item is judged; at the first outage the others are not. *)
Judge ==
  /\ tool.step = "judge"
  /\ LET rest == Period \ tool.judged
     IN IF rest = {} THEN tool' = [tool EXCEPT !.step = "written"]
        ELSE \E answer \in Answers :
               tool' = IF IsVerdict(answer) THEN [tool EXCEPT !.judged = @ \cup {Max(rest)}]
                       ELSE [tool EXCEPT !.unjudged = rest, !.step = "written"]
  /\ UNCHANGED <<site, memory, faults>>

(* An answer that is cut short raises what juger does not catch: there is no report. *)
JudgeBreaks ==
  /\ tool.step = "judge" /\ Period \ tool.judged # {} /\ Fault
  /\ tool' = Off
  /\ UNCHANGED <<site, memory>>

-----------------------------------------------------------------------------
Next == \/ Post \/ Poll \/ ToolStarts \/ ReadPage \/ PageRefused \/ Judge \/ JudgeBreaks
        \/ \E i \in DOMAIN posts : Push(i) \/ Disappear(i)
        \/ \E why \in Here.raises : PollRaises(why)

Spec == Init /\ [][Next]_vars

-----------------------------------------------------------------------------
(* Every variable keeps its type. *)
TypeOK ==
  /\ \A i \in DOMAIN posts : posts[i].class \in Here.classes /\ posts[i].date \in 0..now
  /\ newest \in 0..now /\ {primed, tool.warned} \subseteq BOOLEAN
  /\ tool.read \cup tool.judged \cup tool.unjudged \subseteq DOMAIN posts

(* "Prise pour un flux vide, elle amorcait une source nouvelle sans rien voir, puis tout son
   contenu etait notifie au cycle suivant" (rss.py): what a source showed when it was first
   read is never toasted, and what was older than that neither, when it comes into the
   window because something newer disappeared. *)
NoBurst ==
  /\ announced \cap first = {}
  /\ \A v \in announced, w \in first :
       v[2] # 0 /\ w[2] # 0 /\ v[1] < w[1] /\ Here.id # "push" => v[2] >= w[2] - Grace

SourceInvariant == TypeOK /\ NoBurst

(* No more than a page of newer objects, and for a reply no more than a page of newer
   threads and replies. *)
InReach(i) ==
  LET thread == posts[i].thread
      Newer(k, t) == Cardinality({j \in Standing : j >= k /\ posts[j].thread = t})
  IN IF thread = 0 THEN Newer(i, 0) <= Width
     ELSE ~posts[thread].gone /\ Newer(thread, 0) <= Width /\ Newer(i, thread) <= Here.replies

(* What a poll must report: each version made since the last poll and still standing,
   in the reach of a page. *)
Due == {v \in fresh : LET i == v[1] IN ~posts[i].gone /\ posts[i].class \notin Here.left_out /\ InReach(i)}

Polled == primed /\ fresh # {} /\ fresh' = {}

(* Nothing slips between two polls: an object made since the last one, as long as no more
   than a page of others followed, is toasted by the next one, whatever its identifier,
   unless it is dated before the watermark. *)
NewPostsAreAnnounced == [][Polled => \A v \in Due : v \in announced' \/ Absorbed(v[1])]_vars

(* "Reports a new fork, and new commits pushed to any fork" (README.md). *)
NewForksAreReported == [][kind = "github_forks" /\ Polled => Due \subseteq announced']_vars

(* The report of the tool holds every item of the period that was there when it started and
   still stands, judged or not, unless it said that it stopped early. *)
CatchUpIsComplete ==
  tool.step = "written" /\ ~tool.warned =>
    \A i \in tool.start : posts[i].date >= tool.since /\ ~posts[i].gone => i \in tool.judged \cup tool.unjudged
=============================================================================
