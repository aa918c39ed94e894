----------------------------- MODULE Catalogue ------------------------------
(***************************************************************************)
(* The service catalogue of one business and the process-wide cache of it  *)
(* (services/cache, ServiceRepository, the service tools of tool_executor).*)
(*                                                                         *)
(* A listing takes what is cached, else queries and then fills the cache.  *)
(* A tool chooses its service from a listing, reads it again by its id and *)
(* flushes the change: the flush takes the database's write lock and drops *)
(* the cache; the commit comes with the end of the request.                *)
(***************************************************************************)
EXTENDS Naturals

CONSTANTS
    ServiceIds, Titles, Prices,
    Desks,      \* chat turns and web requests, each with a session
    Missing,    \* no row, no entry in the cache, nothing written
    MaxEdits    \* bound: changes begun

ASSUME CatalogueAssumption ==
    /\ MaxEdits \in Nat
    /\ Missing \notin ServiceIds \cup [name : Titles, price : Prices]
                        \cup [ServiceIds -> [name : Titles, price : Prices] \cup {Missing}]

VARIABLES
    catalogue,  \* services table, as committed
    cached,     \* the cache's entry for the business
    desk,       \* what each session is doing
    lapsed,     \* history: the cache was filled beside a change it could not see
    edits       \* changes begun so far

catalogueVars == <<catalogue, cached, desk, lapsed, edits>>

-----------------------------------------------------------------------------
ServiceRow == [name : Titles, price : Prices]
Listing == [ServiceIds -> ServiceRow \cup {Missing}]

\* A session: the catalogue with its uncommitted change, the listing it read and
\* whether the rows are loaded (a cached listing is not), the service it chose,
\* and whether a commit came between its query and now.
DeskRecord == [at : {"idle", "queried", "listed", "found"}, view : Listing \cup {Missing},
               list : Listing, loaded : BOOLEAN,
               target : ServiceIds \cup {Missing}, overtaken : BOOLEAN]

NothingListed == [v \in ServiceIds |-> Missing]
NoDesk == [at |-> "idle", view |-> Missing, list |-> NothingListed, loaded |-> FALSE,
           target |-> Missing, overtaken |-> FALSE]

Writing(s) == desk[s].view # Missing
LockFree == \A s \in Desks : ~Writing(s)
Seen(s) == IF Writing(s) THEN desk[s].view ELSE catalogue
Offered(list) == {v \in ServiceIds : list[v] # Missing}
Titled(list, title) == {v \in Offered(list) : list[v].name = title}

CatalogueInit ==
    /\ catalogue = NothingListed
    /\ cached = Missing
    /\ desk = [s \in Desks |-> NoDesk]
    /\ lapsed = FALSE /\ edits = 0

-----------------------------------------------------------------------------
(* Listing: get_all_for_business, for a prompt, a list or a tool *)

ListCached(s) ==
    /\ desk[s].at = "idle" /\ cached # Missing
    /\ desk' = [desk EXCEPT ![s].at = "listed", ![s].list = cached, ![s].loaded = FALSE]
    /\ UNCHANGED <<catalogue, cached, lapsed, edits>>

ListQuery(s) ==
    /\ desk[s].at = "idle" /\ cached = Missing
    /\ desk' = [desk EXCEPT ![s].at = "queried", ![s].list = Seen(s),
                            ![s].loaded = TRUE, ![s].overtaken = FALSE]
    /\ UNCHANGED <<catalogue, cached, lapsed, edits>>

ListFill(s) ==
    /\ desk[s].at = "queried"
    /\ cached' = desk[s].list
    /\ lapsed' = (desk[s].overtaken \/ ~LockFree)
    /\ desk' = [desk EXCEPT ![s].at = "listed"]
    /\ UNCHANGED <<catalogue, edits>>

\* The request goes on without changing the catalogue.
ListDone(s) ==
    /\ desk[s].at = "listed"
    /\ desk' = [desk EXCEPT ![s].at = "idle"]
    /\ UNCHANGED <<catalogue, cached, lapsed, edits>>

-----------------------------------------------------------------------------
(* Changing the catalogue *)

\* Mutant of Invalidated: the entry outlives the flush.
KeepsEntry(entry) == entry

\* The mapper events after an insert, an update and a delete drop the entry.
Invalidated(entry) == Missing

\* A flush of new, which must wait for the lock.
FlushChange(s, new) ==
    /\ edits < MaxEdits /\ edits' = edits + 1
    /\ \A t \in Desks \ {s} : ~Writing(t)
    /\ cached' = Invalidated(cached)
    /\ lapsed' = FALSE
    /\ desk' = [desk EXCEPT ![s] = [NoDesk EXCEPT !.view = new]]
    /\ UNCHANGED catalogue

\* EditServiceTool and DeleteServiceTool choose by the exact name, else by a part of it.
ChosenFrom(list, title) ==
    IF Titled(list, title) # {} THEN Titled(list, title) ELSE Offered(list)

\* The row the session holds: a loaded one is not read again.
Held(s, v) == IF desk[s].loaded THEN desk[s].list[v] ELSE Seen(s)[v]

EditService(s, v, title, new) ==
    /\ desk[s].at = "listed"
    /\ v \in ChosenFrom(desk[s].list, title)
    /\ Seen(s)[v] # Missing
    /\ FlushChange(s, [Seen(s) EXCEPT ![v] =
          [f \in DOMAIN new |-> IF new[f] = Held(s, v)[f] THEN @[f] ELSE new[f]]])

DeleteService(s, v, title) ==
    /\ desk[s].at = "listed"
    /\ v \in ChosenFrom(desk[s].list, title)
    /\ Seen(s)[v] # Missing
    /\ FlushChange(s, [Seen(s) EXCEPT ![v] = Missing])

\* AddServiceTool looks the name up (two services of one name are an error) ...
AddServiceLookup(s, title) ==
    /\ desk[s].at = "idle"
    /\ \A v, w \in Titled(Seen(s), title) : v = w
    /\ desk' = [desk EXCEPT ![s].at = "found",
                  ![s].target = IF Titled(Seen(s), title) = {} THEN Missing
                                ELSE CHOOSE v \in Titled(Seen(s), title) : TRUE]
    /\ UNCHANGED <<catalogue, cached, lapsed, edits>>

InsertService(s, row) ==
    \E v \in ServiceIds \ Offered(Seen(s)) : FlushChange(s, [Seen(s) EXCEPT ![v] = row])

\* ... and updates the price or inserts; an update of a deleted row fails.
AddServiceFlush(s, title, price) ==
    LET v == desk[s].target IN
    /\ desk[s].at = "found"
    /\ \/ v = Missing /\ InsertService(s, [name |-> title, price |-> price])
       \/ /\ v # Missing /\ Seen(s)[v] # Missing
          /\ FlushChange(s, [Seen(s) EXCEPT ![v].price = price])

\* POST /services.
PwaCreateService(s, row) == desk[s].at = "idle" /\ InsertService(s, row)

CommitCatalogue(s) ==
    /\ Writing(s) /\ desk[s].at = "idle"
    /\ catalogue' = desk[s].view
    /\ desk' = [t \in Desks |-> IF t = s THEN NoDesk ELSE [desk[t] EXCEPT !.overtaken = TRUE]]
    /\ UNCHANGED <<cached, lapsed, edits>>

\* An error, or a restart as far as the database goes.
RollbackCatalogue(s) ==
    /\ desk[s] # NoDesk
    /\ desk' = [desk EXCEPT ![s] = NoDesk]
    /\ UNCHANGED <<catalogue, cached, lapsed, edits>>

CatalogueNext ==
    \E s \in Desks :
      \/ ListCached(s) \/ ListQuery(s) \/ ListFill(s) \/ ListDone(s)
      \/ CommitCatalogue(s) \/ RollbackCatalogue(s)
      \/ \E title \in Titles :
           \/ AddServiceLookup(s, title)
           \/ \E price \in Prices : AddServiceFlush(s, title, price)
           \/ \E v \in ServiceIds : \/ DeleteService(s, v, title)
                                    \/ \E new \in ServiceRow : EditService(s, v, title, new)
      \/ \E row \in ServiceRow : PwaCreateService(s, row)

CatalogueSpec == CatalogueInit /\ [][CatalogueNext]_catalogueVars

-----------------------------------------------------------------------------
(* Properties *)

\* Rows, listings and counters have the columns the code declares.
CatalogueTypeOK ==
    /\ catalogue \in Listing
    /\ cached \in Listing \cup {Missing}
    /\ desk \in [Desks -> DeskRecord]
    /\ lapsed \in BOOLEAN /\ edits \in 0..MaxEdits

\* A cached catalogue is the committed one, whatever is changed, committed or
\* rolled back, unless it was filled while a change was flushed and not yet
\* committed, or from a query that a commit has overtaken.
CacheIsCurrent == (cached # Missing /\ ~lapsed) => cached = catalogue

=============================================================================
