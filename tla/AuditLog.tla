------------------------------ MODULE AuditLog ------------------------------
(***************************************************************************)
(* The audit log (internal/platform/audit.go): Record inserts an event and *)
(* prunes the oldest in one transaction, List returns a page of the newest *)
(* events before a cursor.  An administrator walks through the pages with  *)
(* one request each (auditLog in internal/web/app.go) while other requests *)
(* go on recording.  An event is its id.                                   *)
(***************************************************************************)
EXTENDS Naturals, FiniteSetsExt

CONSTANTS MaxAuditEvents,  \* 100000
          PageSize,        \* auditPageSize, 50
          MaxRecorded      \* bound on the events ever recorded

ASSUME AuditAssumption ==
  /\ MaxAuditEvents \in Nat \ {0}
  /\ PageSize \in Nat \ {0}
  /\ MaxRecorded \in Nat

VARIABLES
  events,  \* the table audit_events
  lastID,  \* its AUTOINCREMENT sequence
  walk     \* the administrator's walk; newest, seen and twice are history

auditVars == <<events, lastID, walk>>

Ids == 1 .. MaxRecorded

AuditTypeOK ==
  /\ events \subseteq Ids
  /\ lastID \in 0 .. MaxRecorded
  /\ walk \in [at : {"idle", "paging", "done"}, before : 0 .. MaxRecorded,
               newest : 0 .. MaxRecorded, seen : SUBSET Ids, twice : BOOLEAN]

AuditInit ==
  /\ events = {}
  /\ lastID = 0
  /\ walk = [at |-> "idle", before |-> 0, newest |-> 0, seen |-> {}, twice |-> FALSE]

\* Committed; a transaction that fails leaves table and sequence as they were.
Record ==
  /\ lastID < MaxRecorded
  /\ lastID' = lastID + 1
  /\ events' = {e \in events \cup {lastID + 1} : e + MaxAuditEvents > lastID + 1}
  /\ UNCHANGED walk

\* ORDER BY id DESC LIMIT k
Newest(s, k) == {e \in s : Cardinality({f \in s : f > e}) < k}

\* Mutant of List: the cursor is the row that shows there is more.
ListPastPage(before) ==
  LET rows == Newest({e \in events : before = 0 \/ e < before}, PageSize + 1)
      page == Newest(rows, PageSize)
  IN  [page |-> page, next |-> IF rows # page THEN Min(rows) ELSE 0]

\* One row more than the page is read, to know whether there is another one.
List(before) ==
  LET rows == Newest({e \in events : before = 0 \/ e < before}, PageSize + 1)
      page == Newest(rows, PageSize)
  IN  [page |-> page, next |-> IF rows # page THEN Min(page) ELSE 0]

ReadPage(before, newest, seen, twice) ==
  LET list == List(before) IN
  walk' = [at |-> IF list.next = 0 THEN "done" ELSE "paging", before |-> list.next,
           newest |-> newest, seen |-> seen \cup list.page,
           twice |-> twice \/ seen \cap list.page # {}]

FirstPage ==
  /\ ReadPage(0, lastID, {}, FALSE)
  /\ UNCHANGED <<events, lastID>>

NextPage ==
  /\ walk.at = "paging"
  /\ ReadPage(walk.before, walk.newest, walk.seen, walk.twice)
  /\ UNCHANGED <<events, lastID>>

AuditNext == Record \/ FirstPage \/ NextPage

AuditSpec == AuditInit /\ [][AuditNext]_auditVars

----------------------------------------------------------------------------
(* A walk that reached the last page showed no event twice and every event *)
(* that existed when it began and is still kept, however many were         *)
(* recorded and pruned between two pages; and the log holds exactly the    *)
(* newest events (audit.go:101, 125).                                      *)
AuditWalkComplete ==
  /\ walk.at = "done" => \A e \in events : e <= walk.newest => e \in walk.seen
  /\ ~walk.twice
  /\ events = {e \in 1 .. lastID : e + MaxAuditEvents > lastID}
=============================================================================
