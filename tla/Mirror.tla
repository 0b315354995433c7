------------------------------- MODULE Mirror -------------------------------
(***************************************************************************)
(* The writer's database and its hosted mirror.  A refresh job restores    *)
(* the database from a cache, checks it against the mirror                 *)
(* (pull-remote.ts), changes it, mirrors the changes row by row            *)
(* (push-remote.ts) and saves it to the cache (refresh.yml).  Requests to  *)
(* the mirror fail, with or without having been carried out, and the       *)
(* runner may be lost at any step.                                         *)
(*                                                                         *)
(* Posting rows have a unique key and a value; every source row belongs to *)
(* a posting.  A database also keeps what it sent of every row, so that    *)
(* only changes are sent.                                                  *)
(***************************************************************************)
EXTENDS Naturals, FiniteSets

CONSTANTS
    Keys,           \* the keys postings can have
    Values,         \* what else a posting holds
    MaxId,          \* bounds: rows,
    MaxChanges,     \* changes to the database,
    MaxJobs,
    MaxFailures,    \* requests that fail,
    MaxLost         \* and runners, and caches, lost

Ids == 1..MaxId
None == "none"
NoPost == [key |-> None, value |-> None]
NoRows == [posts |-> [id \in Ids |-> NoPost], src |-> [id \in Ids |-> 0], gen |-> 0]
NoDb == [rows |-> NoRows, sent |-> NoRows, last |-> 0, there |-> FALSE]

VARIABLES
    db,             \* the database of the job under way
    cache,          \* the database the last job saved
    hosted,         \* the rows of the mirror
    job,            \* the step of the job
    gone,           \* history: the postings merged away
    refused,        \* history: why a request was refused
    bounds

vars == <<db, cache, hosted, job, gone, refused, bounds>>

Init ==
    /\ db = NoDb
    /\ cache = [NoDb EXCEPT !.there = TRUE]
    /\ hosted = NoRows
    /\ job = "idle"
    /\ gone = {}
    /\ refused = {}
    /\ bounds = [changes |-> 0, jobs |-> 0, failures |-> 0,
                  runners |-> 0, caches |-> 0]

In(rows) == {id \in Ids : rows.posts[id] # NoPost}
Least(S) == CHOOSE x \in S : \A y \in S : x <= y
Last(S) == IF S = {} THEN 0 ELSE CHOOSE x \in S : \A y \in S : y <= x
Sources(rows) == {s \in Ids : rows.src[s] # 0}

-----------------------------------------------------------------------------
\* Mutant of IsCurrent: a cache that is there is used.
IsCurrentAlways == cache.there

\* A cache is used unless the mirror has a row or a run it has not.
IsCurrent ==
    /\ cache.there
    /\ Last(In(hosted)) <= Last(In(cache.rows))
    /\ Last(Sources(hosted)) <= Last(Sources(cache.rows))
    /\ hosted.gen <= cache.rows.gen

Pulled ==   \* a database built from the mirror knows nothing of what was sent
    [rows |-> hosted, sent |-> NoRows, there |-> TRUE,
     last |-> Last(In(hosted) \cup Sources(hosted))]

Begin ==
    /\ job = "idle" /\ bounds.jobs < MaxJobs
    /\ db' = IF IsCurrent THEN cache ELSE Pulled
    /\ job' = "cycle"
    /\ bounds' = [bounds EXCEPT !.jobs = @ + 1]
    /\ UNCHANGED <<cache, hosted, gone, refused>>

-----------------------------------------------------------------------------
\* What a cycle does to its database, as PostingPipeline has it: postings
\* come with a source, take a key nobody has at that time, change; sources
\* move.  A connector's run is recorded with what it found.
Changes(rows) ==
    /\ job = "cycle" /\ bounds.changes < MaxChanges
    /\ db' = [db EXCEPT !.rows = [rows EXCEPT !.gen = bounds.jobs]]
    /\ bounds' = [bounds EXCEPT !.changes = @ + 1]
    /\ UNCHANGED <<cache, hosted, job, gone, refused>>

Free(k) == \A id \in In(db.rows) : db.rows.posts[id].key # k

Insert(k, v) ==
    /\ job = "cycle" /\ bounds.changes < MaxChanges
    /\ db.last < MaxId /\ Free(k)
    /\ LET id == db.last + 1
       IN db' = [db EXCEPT !.last = id,
                           !.rows = [@ EXCEPT !.posts[id] = [key |-> k, value |-> v],
                                              !.src[id] = id, !.gen = bounds.jobs]]
    /\ bounds' = [bounds EXCEPT !.changes = @ + 1]
    /\ UNCHANGED <<cache, hosted, job, gone, refused>>

Rekey(id, k) ==
    /\ id \in In(db.rows) /\ Free(k)
    /\ Changes([db.rows EXCEPT !.posts[id].key = k])

Alter(id, v) ==
    /\ id \in In(db.rows) /\ db.rows.posts[id].value # v
    /\ Changes([db.rows EXCEPT !.posts[id].value = v])

MoveSource(s, id) ==
    /\ s \in Sources(db.rows) /\ id \in In(db.rows) /\ db.rows.src[s] # id
    /\ Changes([db.rows EXCEPT !.src[s] = id])

\* Duplicates are merged by hand, between two jobs.
Merge(id, kept) ==
    /\ job = "idle" /\ cache.there /\ {id, kept} \subseteq In(cache.rows) /\ id # kept
    /\ bounds.changes < MaxChanges
    /\ LET src == cache.rows.src
       IN cache' = [cache EXCEPT !.rows.posts[id] = NoPost,
            !.rows.src = [s \in Ids |-> IF src[s] = id THEN kept ELSE src[s]]]
    /\ gone' = gone \cup {id}
    /\ bounds' = [bounds EXCEPT !.changes = @ + 1]
    /\ UNCHANGED <<db, hosted, job, refused>>

Cycled ==
    /\ job = "cycle" /\ job' = "stray sources"
    /\ UNCHANGED <<db, cache, hosted, gone, refused, bounds>>

-----------------------------------------------------------------------------
\* Each request to the mirror is carried out and answered, or fails: the push
\* then stops, and the next one finds out what to send from what was answered.
Request(after, next, known) ==
    \/ /\ hosted' = after /\ db' = known /\ job' = next
       /\ UNCHANGED <<cache, gone, refused, bounds>>
    \/ /\ bounds.failures < MaxFailures
       /\ hosted' \in {hosted, after} /\ job' = "save"
       /\ bounds' = [bounds EXCEPT !.failures = @ + 1]
       /\ UNCHANGED <<db, cache, gone, refused>>

Refuse(why) ==
    /\ refused' = refused \cup {why} /\ job' = "save"
    /\ UNCHANGED <<db, cache, hosted, gone, bounds>>

StraySources ==
    /\ job = "stray sources"
    /\ Request([hosted EXCEPT !.src = [s \in Ids |-> IF s \in Sources(db.rows) THEN @[s] ELSE 0]],
               "stray posts", db)

StrayPosts ==       \* a posting's sources go with it
    /\ job = "stray posts"
    /\ LET keep == In(db.rows)
       IN Request([hosted EXCEPT !.posts = [id \in Ids |-> IF id \in keep THEN @[id] ELSE NoPost],
                                 !.src = [s \in Ids |-> IF @[s] \in keep THEN @[s] ELSE 0]],
                  "posts", db)

ChangedPosts == {id \in In(db.rows) : db.rows.posts[id] # db.sent.posts[id]}
ChangedSources == {s \in Sources(db.rows) : db.rows.src[s] # db.sent.src[s]}

\* Mutant of SendPost: what was sent is noted before the mirror has it.
SendPostNoted ==
    /\ job = "posts" /\ ChangedPosts # {}
    /\ LET id == Least(ChangedPosts)
           post == db.rows.posts[id]
           noted == [db EXCEPT !.sent.posts[id] = post]
       IN IF \E other \in Ids \ {id} : hosted.posts[other].key = post.key
          THEN Refuse("key")
          ELSE \/ Request([hosted EXCEPT !.posts[id] = post], "posts", noted)
               \/ /\ bounds.failures < MaxFailures
                  /\ db' = noted /\ job' = "save"
                  /\ bounds' = [bounds EXCEPT !.failures = @ + 1]
                  /\ UNCHANGED <<cache, hosted, gone, refused>>

SendPost ==
    /\ job = "posts" /\ ChangedPosts # {}
    /\ LET id == Least(ChangedPosts)
           post == db.rows.posts[id]
       IN IF \E other \in Ids \ {id} : hosted.posts[other].key = post.key
          THEN Refuse("key")
          ELSE Request([hosted EXCEPT !.posts[id] = post], "posts",
                       [db EXCEPT !.sent.posts[id] = post])

PostsSent ==        \* and what was sent of rows that are no more is forgotten
    /\ job = "posts" /\ ChangedPosts = {} /\ job' = "sources"
    /\ db' = [db EXCEPT !.sent.posts = [id \in Ids |-> IF id \in In(db.rows) THEN @[id] ELSE NoPost]]
    /\ UNCHANGED <<cache, hosted, gone, refused, bounds>>

SendSource ==
    /\ job = "sources" /\ ChangedSources # {}
    /\ LET s == Least(ChangedSources)
           id == db.rows.src[s]
       IN IF hosted.posts[id] = NoPost
          THEN Refuse("parent")
          ELSE Request([hosted EXCEPT !.src[s] = id], "sources", [db EXCEPT !.sent.src[s] = id])

SourcesSent ==
    /\ job = "sources" /\ ChangedSources = {} /\ job' = "runs"
    /\ db' = [db EXCEPT !.sent.src = [s \in Ids |-> IF s \in Sources(db.rows) THEN @[s] ELSE 0]]
    /\ UNCHANGED <<cache, hosted, gone, refused, bounds>>

SendRuns ==
    /\ job = "runs"
    /\ Request([hosted EXCEPT !.gen = db.rows.gen], "mirrored",
               [db EXCEPT !.sent.gen = db.rows.gen])

Save ==             \* whatever came of the cycle and of the push
    /\ job \in {"save", "mirrored"}
    /\ cache' = db /\ db' = NoDb /\ job' = "idle"
    /\ UNCHANGED <<hosted, gone, refused, bounds>>

LoseRunner ==
    /\ job # "idle" /\ bounds.runners < MaxLost
    /\ db' = NoDb /\ job' = "idle"
    /\ bounds' = [bounds EXCEPT !.runners = @ + 1]
    /\ UNCHANGED <<cache, hosted, gone, refused>>

LoseCache ==
    /\ job = "idle" /\ cache.there /\ bounds.caches < MaxLost
    /\ cache' = NoDb
    /\ bounds' = [bounds EXCEPT !.caches = @ + 1]
    /\ UNCHANGED <<db, hosted, job, gone, refused>>

-----------------------------------------------------------------------------
Cycle ==
    \/ \E k \in Keys, v \in Values : Insert(k, v)
    \/ \E id \in Ids, k \in Keys : Rekey(id, k)
    \/ \E id \in Ids, v \in Values : Alter(id, v)
    \/ \E s, id \in Ids : MoveSource(s, id)
    \/ \E id, kept \in Ids : Merge(id, kept)

Push ==
    \/ StraySources \/ StrayPosts
    \/ SendPost \/ PostsSent
    \/ SendSource \/ SourcesSent
    \/ SendRuns

Next == Begin \/ Cycle \/ Cycled \/ Push \/ Save \/ LoseRunner \/ LoseCache

Spec == Init /\ [][Next]_vars

-----------------------------------------------------------------------------
\* What proofs ask of the constants.
MirrorAssumption == None \notin Keys /\ MaxId \in Nat /\ MaxJobs \in Nat

Posts == [key : Keys, value : Values] \cup {NoPost}
Rows == [posts : [Ids -> Posts], src : [Ids -> Ids \cup {0}], gen : Nat]
Databases == [rows : Rows, sent : Rows, last : Nat, there : BOOLEAN]

\* No two rows have one key.
Keyed(rows) == \A i, j \in In(rows) : rows.posts[i].key = rows.posts[j].key => i = j

\* Every variable keeps its type; no two rows of one database have one key.
TypeOK ==
    /\ db \in Databases /\ cache \in Databases /\ hosted \in Rows
    /\ Keyed(db.rows) /\ Keyed(cache.rows) /\ Keyed(hosted)
    /\ refused \subseteq {"key", "parent"} /\ gone \subseteq Ids
    /\ bounds \in [changes : Nat, jobs : 0..MaxJobs, failures : Nat, runners : Nat, caches : Nat]

\* The mirror loses no posting but those merged away, whatever cache a job
\* started from.
HostedIsKept ==
    \A id \in In(hosted) : id \in In(hosted') \cup gone

\* No source is without its posting.
Parented(rows) == \A s \in Sources(rows) : rows.src[s] \in In(rows)

\* Every request was answered, and no runner was lost.
Undisturbed == bounds.failures = 0 /\ bounds.runners = 0

\* A source is never sent before its posting and never left without it, and a
\* push that ended well leaves the mirror with every posting of the database,
\* and with nothing else; with every row as it is here, when no answer was lost.
MirrorIsComplete ==
    /\ "parent" \notin refused
    /\ Parented(hosted)
    /\ job = "mirrored" =>
          /\ In(hosted) = In(db.rows) /\ Sources(hosted) \subseteq Sources(db.rows)
          /\ Undisturbed => hosted = db.rows

\* A write that failed is sent again: a push that ended well leaves the mirror
\* with every source (push-remote.ts).
NoneIsSkipped == job = "mirrored" => Sources(hosted) = Sources(db.rows)

\* A push is not refused: rows are sent so that a key is free when it is
\* claimed.
MirrorLands == refused = {}

-----------------------------------------------------------------------------
(* What MirrorIsComplete rests on. *)

\* Of each database: ids are given once, and what it sent and still has is there.
Accounted(d) ==
    /\ Parented(d.rows)
    /\ In(d.rows) \cup In(d.sent) \subseteq 1..d.last
    /\ In(d.rows) \cap In(d.sent) \subseteq In(hosted)

\* Between jobs there is no database; a job's has every posting the cache sent
\* and still has; and how far the push has come.
Pushed ==
    /\ job = "idle" => db = NoDb
    /\ job # "idle" => In(cache.rows) \cap In(cache.sent) \subseteq In(db.rows)
    /\ job \in {"stray posts", "posts", "sources", "runs", "mirrored"} =>
          Sources(hosted) \subseteq Sources(db.rows)
    /\ job \in {"posts", "sources", "runs", "mirrored"} => In(hosted) \subseteq In(db.rows)
    /\ job \in {"sources", "runs", "mirrored"} => In(db.rows) \subseteq In(hosted)

\* What a database knows as sent of a row it still has is so in the mirror,
\* unless the posting went there, and its source with it.
Answered(d, h) ==
    /\ Sources(d.rows) \cup Sources(d.sent) \subseteq 1..d.last
    /\ \A s \in Ids : d.sent.src[s] <= d.last
    /\ \A id \in In(d.rows) \cap In(d.sent) : h.posts[id] = d.sent.posts[id]
    /\ \A s \in Sources(d.rows) \cap Sources(d.sent) :
          \/ h.src[s] = d.sent.src[s]
          \/ h.src[s] = 0 /\ d.sent.src[s] \notin In(d.rows)

\* While no answer is lost, a database knows what it sent, and what the push
\* has come past is as it is here.
AsSent ==
    Undisturbed =>
        /\ IF job = "idle" THEN Answered(cache, hosted) ELSE Answered(db, hosted)
        /\ job \in {"sources", "runs", "mirrored"} => hosted.posts = db.rows.posts
        /\ job \in {"runs", "mirrored"} => hosted.src = db.rows.src
        /\ job = "mirrored" => hosted.gen = db.rows.gen

MirrorInv ==
    TypeOK /\ Accounted(db) /\ Accounted(cache) /\ Pushed /\ Parented(hosted)
    /\ "parent" \notin refused
=============================================================================
