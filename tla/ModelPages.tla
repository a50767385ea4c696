------------------------------- MODULE ModelPages -------------------------------
(***************************************************************************)
(* A client walks through GET /v1/models page by page.  Nothing is cached: *)
(* every page is cut from a list made for that request (_list_models), so  *)
(* the upstream's catalog may change between two pages, and the cursor the *)
(* client holds is an id of an older list.                                 *)
(***************************************************************************)
EXTENDS ModelRouting

CONSTANTS Catalogs,    \* the catalogs the upstream may have
          Limits,      \* the page limits clients ask for
          MaxRebuilds  \* bound: how often the catalog changes

\* The models two catalogs have in common are in the same order in both.
SameOrder(old, new) ==
    LET o == FirstOfEach(old)
        n == FirstOfEach(new)
    IN  \A i, j \in DOMAIN o, k, l \in DOMAIN n :
            o[i] = n[k] /\ o[j] = n[l] => (i < j <=> k < l)

\* The upstream adds and removes models; it never reorders them.
ASSUME PagesAssumption ==
    /\ Catalogs \subseteq Seq(Model)
    /\ \A old, new \in Catalogs : SameOrder(old, new)
    /\ Limits \subseteq 1..1000

VARIABLES
    deployment,  \* the settings of the process that answers
    catalog,     \* what the upstream lists at the moment
    rebuilds,    \* times the catalog changed, up to MaxRebuilds
    way,         \* "after" or "before": the direction of the walk
    walk,        \* "idle", "walking", "finished" or "rejected"
    cursor,      \* the id the next page is asked from, or Null
    seen,        \* the aliases of the pages, in list order
    steady       \* history: the aliases due in every list since the walk began

walkVars  == <<way, walk, cursor, seen, steady>>
pagesVars == <<deployment, catalog, rebuilds, walkVars>>

\* The list pages are cut from; an empty static list without automatic
\* discovery would be relayed to the upstream.
Published ==
    IF deployment.discovery = "auto" THEN ModelList(deployment, catalog) ELSE deployment.static

PagesInit(deployments) ==
    /\ deployment \in deployments
    /\ catalog \in Catalogs /\ rebuilds = 0
    /\ way = "after" /\ walk = "idle" /\ cursor = Null /\ seen = <<>> /\ steady = {}

\* Forward from the first page, or backward from an alias the client knows.
StartWalk ==
    /\ walk = "idle" /\ Published # <<>>
    /\ walk' = "walking" /\ seen' = <<>>
    /\ \/ /\ way' = "after" /\ cursor' = Null
          /\ steady' = Range(Published)
       \/ /\ way' = "before" /\ cursor' \in Range(Published)
          /\ steady' = Range(SubSeq(Published, 1, IndexOf(Published, cursor') - 1))
    /\ UNCHANGED <<deployment, catalog, rebuilds>>

\* GET /v1/models with the cursor and a limit.
PageAt(limit) ==
    IF way = "after" THEN PageAfter(Published, cursor, limit)
    ELSE PageBefore(Published, cursor, limit)

ReadPage(limit) ==
    /\ walk = "walking" /\ PageAt(limit) # Null
    /\ LET page == PageAt(limit)
       IN  /\ seen' = IF way = "after" THEN seen \o page.data ELSE page.data \o seen
           /\ walk' = IF page.hasMore THEN "walking" ELSE "finished"
           /\ cursor' = IF page.data = <<>> THEN cursor
                        ELSE IF way = "after" THEN Last(page.data) ELSE Head(page.data)
    /\ UNCHANGED <<deployment, catalog, rebuilds, way, steady>>

\* HTTP 400: the cursor is not in the list any more.
CursorRejected ==
    /\ walk = "walking" /\ \A limit \in Limits : PageAt(limit) = Null
    /\ walk' = "rejected"
    /\ UNCHANGED <<deployment, catalog, rebuilds, way, cursor, seen, steady>>

\* External: the upstream's catalog changes.
Rebuild ==
    /\ walk = "walking" /\ rebuilds < MaxRebuilds
    /\ catalog' \in Catalogs \ {catalog}
    /\ rebuilds' = rebuilds + 1
    /\ steady' = steady \cap
                 Range(IF deployment.discovery = "auto" THEN ModelList(deployment, catalog')
                       ELSE deployment.static)
    /\ UNCHANGED <<deployment, way, walk, cursor, seen>>

PagesNext ==
    StartWalk \/ (\E limit \in Limits : ReadPage(limit)) \/ CursorRejected \/ Rebuild

-----------------------------------------------------------------------------
(* Properties.                                                             *)

\* README: "limit, after_id, and before_id cursor pagination are supported".  A
\* walk that was not rejected has seen every alias that was listed all the while
\* exactly once, whatever came and went around it.
NoModelSkipped ==
    walk = "finished" =>
        \A alias \in steady : Cardinality({i \in DOMAIN seen : seen[i] = alias}) = 1
=================================================================================
