------------------------------ MODULE MCPostings ------------------------------
(***************************************************************************)
(* The parts of the refresh cycle and the script that keeps the registry   *)
(* of company boards, each on a small instance.  They run one after the    *)
(* other and share only the database and files between them, so a          *)
(* behaviour of this module is a behaviour of one part: "stage" names it,  *)
(* and y1, y2, ... are its variables in the order it declares them.        *)
(***************************************************************************)
EXTENDS Components_proofs, Integers

VARIABLE stage
postingVars == <<stage, y1, y2, y3, y4, y5, y6, y7, y8, y9, y10, y11, y12>>

Idle == "idle"

Pipeline == INSTANCE PostingPipeline WITH
    Jobs <- {1, 2}, Labels <- {"a", "b"}, First <- "a",
    MaxPostings <- 3, MaxChanges <- 3, MaxRuns <- 3, MaxMerges <- 1,
    label <- y1, listed <- y2, posting <- y3, row <- y4, run <- y5, check <- y6,
    condemned <- y7, missed <- y8, bounds <- y9

Hosted == [keys |-> {"k1", "k2"}, values |-> {"u", "v"}, ids |-> 2, changes |-> 3,
           jobs |-> 3, failures |-> 1, lost |-> 1]

Offsets == [jobs |-> 1..5, category |-> {1, 3}, page |-> 2, cap |-> 2, changes |-> 3,
            scans |-> 2, failures |-> 1]

Catalog == [companies |-> {1, 2}, perPage |-> 1, categories |-> {1, 2}, levels |-> {1, 2},
            limit |-> 2, budget |-> 2, runs |-> 12, failures |-> 1]

Fetches == [callers |-> {"c", "d"}, hosts |-> {1, 2}, public |-> {1}, gap |-> 1, delay |-> 2,
            ttl |-> 2, retries |-> 1, hops |-> 1, clock |-> 2]

Registered == [companies |-> {1, 2}, voice |-> <<1>>, studios |-> <<2>>, extra |-> <<>>,
               listed |-> {1}, corporate |-> {}, excluded |-> {}, early |-> {1},
               runs |-> 2, moves |-> 1, faults |-> 1]

-----------------------------------------------------------------------------
PostingsInit ==
    /\ \/ stage = "pipeline" /\ Pipeline!Init
       \/ stage = "mirror" /\ Copy(Hosted)!Init /\ y8 = Idle /\ y9 = Idle
       \/ stage = "offsets" /\ Paged(Offsets)!Init /\ y8 = Idle /\ y9 = Idle
       \/ stage = "catalog" /\ Muse(Catalog)!Init /\ y7 = Idle /\ y8 = Idle /\ y9 = Idle
       \/ stage = "fetches" /\ Net(Fetches)!Init /\ y7 = Idle /\ y8 = Idle /\ y9 = Idle
       \/ stage = "registry" /\ Roster(Registered)!Init /\ y7 = Idle /\ y8 = Idle /\ y9 = Idle
    /\ y10 = Idle /\ y11 = Idle /\ y12 = Idle

PostingsNext ==
    /\ \/ stage = "pipeline" /\ Pipeline!Next
       \/ stage = "mirror" /\ Copy(Hosted)!Next /\ UNCHANGED <<y8, y9>>
       \/ stage = "offsets" /\ Paged(Offsets)!Next /\ UNCHANGED <<y8, y9>>
       \/ stage = "catalog" /\ Muse(Catalog)!Next /\ UNCHANGED <<y7, y8, y9>>
       \/ stage = "fetches" /\ Net(Fetches)!Next /\ UNCHANGED <<y7, y8, y9>>
       \/ stage = "registry" /\ Roster(Registered)!Next /\ UNCHANGED <<y7, y8, y9>>
    /\ UNCHANGED <<stage, y10, y11, y12>>

PostingsSpec == PostingsInit /\ [][PostingsNext]_postingVars

-----------------------------------------------------------------------------
\* Every variable of every part keeps its type.
PostingsTypeOK ==
    /\ stage = "pipeline" => Pipeline!TypeOK
    /\ stage = "mirror" => Copy(Hosted)!TypeOK
    /\ stage = "offsets" => Paged(Offsets)!TypeOK
    /\ stage = "catalog" => Muse(Catalog)!TypeOK
    /\ stage = "fetches" => Net(Fetches)!TypeOK
    /\ stage = "registry" => Roster(Registered)!TypeOK

\* PostingPipeline: two requisitions one answer lists are two postings, what
\* is on the board has a source, and a dead page stays hidden.
BoardIsSound ==
    stage = "pipeline" =>
        Pipeline!RequisitionsApart /\ Pipeline!BoardFollowsSources /\ Pipeline!CheckStands

\* PostingPipeline and Mirror: a posting keeps its requisition, leaves the board
\* as a ghost only when every source left it out of two whole answers in a row,
\* and is lost from the hosted database only when it was merged away.
PostingsAreKept ==
    [][/\ stage = "pipeline" => Pipeline!RequisitionKept /\ Pipeline!GhostsAreQuiet
       /\ stage = "mirror" => Copy(Hosted)!HostedIsKept]_postingVars

\* Mirror: a push that ended well left the mirror with every row.
MirrorIsComplete == stage = "mirror" => Copy(Hosted)!MirrorIsComplete

\* OffsetScan, CatalogScan, PoliteFetch and Registry: an answer over a steady
\* board that ended well was whole; the saved cursor never passes rows that were
\* not committed; every request that the harness sends was allowed by the host it
\* is sent to and in a slot apart from the others (not what fetch follows by
\* itself, when the caller is not guarded); the registry records no board it did
\* not confirm and loses none it had.
FetchesAreSound ==
    /\ stage = "offsets" => Paged(Offsets)!WholeIfSteady
    /\ stage = "catalog" => Muse(Catalog)!CursorBehindRows
    /\ stage = "fetches" => Net(Fetches)!Polite
    /\ stage = "registry" => Roster(Registered)!RegistryIsSound
=============================================================================
