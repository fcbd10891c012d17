----------------------------- MODULE AuditTrail -----------------------------
(* What the audit log tells whoever reads it: mutations leave rows (see    *)
(* RequestPipeline for when they do), and a console walks GET /admin/audit *)
(* page by page, filtered and sorted in SQL, while more rows come in.      *)
EXTENDS AdminRoutes, Integers, FiniteSets

CONSTANTS
  Admins,    \* numbered in the order of their names
  Granted,   \* [Admins -> permissions in their tokens]
  Existing,  \* the names for which there is a row where a handler looks
  Limit,     \* rows per page
  MaxMutations \* bound: mutations

VARIABLES
  pending,  \* rows whose INSERT is under way
  log,      \* audit_logs
  clock,    \* the next created_at
  walk      \* the console's walk, or None before it

vars == <<pending, log, clock, walk>>

MutatingRoutes == {r \in ToSet(Routes) : r.method # "GET"}

\* An operation of an admin: a mutating route and the identity in its path.
Operations ==
  UNION {[route: {r}, name: IF ToSet(r.path) \cap Parameters = {} THEN {None} ELSE Names] :
         r \in MutatingRoutes}

\* The row of an operation: `op` is what was done (history), the rest is stored.
Row(admin, op, path) ==
  LET target == DeriveTarget(Handler(op.route.method, path), path)
  IN [actor |-> admin, action |-> target.action, targetType |-> target.targetType,
      targetId |-> target.targetId, at |-> clock, op |-> op]

Done == walk # None /\ walk.pc = "done"
-----------------------------------------------------------------------------
Init == pending = {} /\ log = {} /\ clock = 0 /\ walk = None

\* An admin's mutation succeeds: both guards let it pass, a handler that looks
\* its row up finds it, and the INSERT of the audit row begins.  Public routes
\* have no user and leave no row; the row of the export is in RequestPipeline.
Mutate(admin) ==
  /\ clock < MaxMutations /\ ~Done
  /\ \E op \in Operations :
       LET path == Filled(op.route, op.name)
           handler == Handler(op.route.method, path)
       IN /\ ~handler.public
          /\ Authorized(Granted[admin], handler)
          /\ handler.finds => op.name \in Existing
          /\ pending' = pending \cup {Row(admin, op, path)}
  /\ clock' = clock + 1
  /\ UNCHANGED <<log, walk>>

\* INSERTs commit in any order ...
Stored(row) ==
  /\ row \in pending /\ ~Done
  /\ pending' = pending \ {row}
  /\ log' = log \cup {row}
  /\ UNCHANGED <<clock, walk>>

\* ... or fail unnoticed.
Lost(row) ==
  /\ row \in pending /\ ~Done
  /\ pending' = pending \ {row}
  /\ UNCHANGED <<log, clock, walk>>
-----------------------------------------------------------------------------
(* AuditService.list.                                                      *)

\* The WHERE clause: ILIKE looks into the action, the actor's name, which holds
\* none of these names, and the target.
Selected(query) ==
  {row \in log :
    /\ query.targetType \in {row.targetType, None}
    /\ query.q \in {row.action[1], row.action[2], row.targetId, None}}

\* ORDER BY created_at.
Before(query, a, b) == IF query.desc THEN a.at > b.at ELSE a.at < b.at

\* A row's place: one after those that come before it.
Place(query, row) == Cardinality({r \in Selected(query) : Before(query, r, row)}) + 1

Sorted(query) ==
  [p \in 1..Cardinality(Selected(query)) |->
     CHOOSE row \in Selected(query) : Place(query, row) = p]

\* What was done that the query asks for: with a name, whatever was done to the
\* object of that name.  A flag's key with a colon does not get into its rows.
Wanted(op, query) ==
  /\ query.targetType \in {Singular[op.route.path[1]], None}
  /\ \/ query.q = None
     \/ query.q = op.name /\ ~(":key" \in ToSet(op.route.path) /\ op.name \in Colons)

\* GET /admin/audit for a type, a name or both that occur, in either direction
\* of createdAt.  Sorted by another column, rows that tie could change places
\* from page to page.
Asked ==
  {query \in [targetType: {row.targetType : row \in log} \cup {None},
              q: {row.op.name : row \in log} \cup {None}, desc: BOOLEAN] :
    {query.targetType, query.q} # {None}}

StartWalk ==
  /\ walk = None
  /\ \E query \in Asked :
       walk' = [query |-> query, pc |-> "rows", page |-> 1, got |-> <<>>,
                due |-> {row \in log : Wanted(row.op, query)}]
  /\ UNCHANGED <<pending, log, clock>>

\* The rows of a page: skip and take ...
FetchRows ==
  /\ walk # None /\ walk.pc = "rows"
  /\ LET skip == (walk.page - 1) * Limit
         rows == Sorted(walk.query)
     IN walk' = [walk EXCEPT !.pc = "total",
                  !.got = @ \o SubSeq(rows, skip + 1, Min({skip + Limit, Len(rows)}))]
  /\ UNCHANGED <<pending, log, clock>>

\* ... and, in a query of its own, their number.  The console asks for the
\* next page until it has seen as many.
FetchTotal ==
  /\ walk # None /\ walk.pc = "total"
  /\ walk' = IF walk.page * Limit < Cardinality(Selected(walk.query))
             THEN [walk EXCEPT !.pc = "rows", !.page = @ + 1]
             ELSE [walk EXCEPT !.pc = "done"]
  /\ UNCHANGED <<pending, log, clock>>

Next ==
  \/ \E admin \in Admins : Mutate(admin)
  \/ \E row \in pending : Stored(row) \/ Lost(row)
  \/ StartWalk
  \/ FetchRows
  \/ FetchTotal

Spec == Init /\ [][Next]_vars
-----------------------------------------------------------------------------
\* Whoever asks for everything that was done to an object, newest or oldest
\* first, is shown each row that was stored when the walk began, whatever is
\* written meanwhile; and two rows with the same action and target tell of the
\* same operation (audit.interceptor.ts:50-64, audit.service.ts:41-65).
ObjectHistoryIsTold ==
  Done =>
    /\ walk.due \subseteq ToSet(walk.got)
    /\ \A a, b \in ToSet(walk.got) :
         a.action = b.action /\ a.targetId = b.targetId => a.op.route = b.op.route

\* A row tells of somebody who may do more than look, and, where the handler
\* looks its object up, of an object there is (permissions.guard.ts:16-32 and
\* the @RequirePermissions of every controller).
RowsAreEarned ==
  \A row \in log :
    /\ ~(Granted[row.actor] \subseteq ReadPermissions)
    /\ row.op.route.finds => row.op.name \in Existing
=============================================================================
