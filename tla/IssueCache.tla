----------------------------- MODULE IssueCache -----------------------------
(***************************************************************************)
(* The client's cache of a workspace's issues: one query that holds a      *)
(* bucket per status of the board (issues/queries.ts), the mutations that  *)
(* change it before the server answers (issues/mutations.ts), the events   *)
(* that arrive on the WebSocket (issues/ws-updaters.ts), and the refetch   *)
(* after a reconnection (realtime/use-realtime-sync.ts).  The handlers of   *)
(* the server (server/internal/handler/issue.go) change an issue in one    *)
(* statement and publish its event some queries later, so events may be    *)
(* out of the order of the changes.                                        *)
(*                                                                         *)
(* Of an issue the model keeps its status.  A bucket is a bag of issues:   *)
(* how often each is in it.  Pages beyond the first are left out.          *)
(***************************************************************************)
EXTENDS Naturals, Sequences, FiniteSets, SequencesExt

CONSTANTS
    Issues,
    Board,      \* PAGINATED_STATUSES, in their order
    Hidden,     \* the statuses that the board does not show
    Muts,       \* mutations that may be in flight at once
    MaxChanges, \* bound on what the server carries out in all
    NoData,     \* the query has never been answered
    NoFetch,
    Unread,     \* a page that the server has yet to read
    NoMut

Shown == ToSet(Board)
Status == Shown \cup Hidden

ASSUME IssueAssumption ==
    /\ IsFiniteSet(Issues)
    /\ Hidden \cap Shown = {}
    /\ Board \in Seq(Shown) \ {<<>>} /\ IsInjective(Board)
    /\ MaxChanges \in Nat

VARIABLES
    srv,        \* the server: the status of an issue, "unborn" or "gone"
    changes,    \* how many there have been, which no code counts
    unsent,     \* the events that the handlers have yet to publish, of
                \* changes "by" a mutation of this client or others (NoMut)
    events,     \* the events under way on the socket
    conn,       \* the socket is open
    met,        \* hasConnectedBefore
    here,       \* the workspace is open: the query is observed
    cache,      \* the data of issueKeys.list
    invalid,    \* isInvalidated of that query
    fetch,      \* fetchFirstPages in flight: the pages read, and "under",
                \* the mutations in flight at its start, which no code reads
    muts,       \* the mutations in flight, and the requests that were given
                \* up ("lost") but may still be carried out
    over        \* from here on users do nothing more, the connection holds
                \* and the requests of the query are answered

server == <<srv, changes, unsent>>
socket == <<events, conn, met>>
query == <<cache, invalid, fetch>>
vars == <<server, socket, here, query, muts, over>>

Alive(i) == srv[i] \in Status
View(s) == [st \in Shown |-> [i \in Issues |-> IF s[i] = st THEN 1 ELSE 0]]

InFlight == {m \in Muts : muts[m] # NoMut /\ ~muts[m].lost}
Unpublished(m) == \E u \in unsent : u.by = m
Optimistic(m) == muts[m].kind # "create"

-----------------------------------------------------------------------------
(* The buckets *)

Holds(c, st, i) == st \in Shown /\ c[st][i] > 0

\* findIssueLocation: the first bucket with the issue
Located(c, i) == \E st \in Shown : Holds(c, st, i)
LocationOf(c, i) ==
    Board[CHOOSE k \in DOMAIN Board :
            /\ Holds(c, Board[k], i)
            /\ \A j \in 1..(k - 1) : ~Holds(c, Board[j], i)]

\* addIssueToBuckets looks into the bucket of the issue's status only
AddIssue(c, i, st) ==
    IF st \in Shown /\ ~Holds(c, st, i) THEN [c EXCEPT ![st][i] = 1] ELSE c

\* Variant: a bucket is reduced without a look for the issue.
RemoveAnyway(c, i) == [c EXCEPT ![Board[1]][i] = @ - 1]

RemoveIssue(c, i) ==
    IF Located(c, i) THEN [c EXCEPT ![LocationOf(c, i)][i] = 0] ELSE c

\* patchIssueInBuckets with a new status: out of the bucket it is found in,
\* at the end of the other; a bucket that is not shown is never looked into
PatchIssue(c, i, st) ==
    IF ~Located(c, i) \/ LocationOf(c, i) = st THEN c
    ELSE LET left == [c EXCEPT ![LocationOf(c, i)][i] = 0]
         IN IF st \in Shown THEN [left EXCEPT ![st][i] = @ + 1] ELSE left

\* the handler of an event of the socket
Handled(c, e) ==
    CASE c = NoData -> NoData
      [] c # NoData /\ e.kind = "created" -> AddIssue(c, e.id, e.st)
      [] c # NoData /\ e.kind = "updated" -> PatchIssue(c, e.id, e.st)
      [] c # NoData /\ e.kind = "deleted" -> RemoveIssue(c, e.id)

Event(kind, i, st) == [kind |-> kind, id |-> i, st |-> st]

\* A handler makes i be at st, and has the event to publish.  No two that are
\* alike wait at once.
Commit(m, kind, i, st) ==
    LET u == [by |-> m, event |-> Event(kind, i, st)]
    IN /\ srv' = [srv EXCEPT ![i] = IF kind = "deleted" THEN "gone" ELSE st]
       /\ changes < MaxChanges /\ u \notin unsent
       /\ changes' = changes + 1
       /\ unsent' = unsent \cup {u}

\* a handler publishes, which reaches a socket that is open
Publish(u) ==
    /\ unsent' = unsent \ {u}
    /\ events' = IF conn THEN Append(events, u.event) ELSE events
    /\ UNCHANGED <<srv, changes, conn, met, here, query, muts, over>>

-----------------------------------------------------------------------------
(* The query *)

Fetch(ms) == [pages |-> [st \in Shown |-> Unread], under |-> ms]

\* Variant: an answer under way is waited for.
InvalidateJoining(new, observed, ms) ==
    /\ invalid' = TRUE
    /\ cache' = new
    /\ fetch' = IF observed /\ fetch = NoFetch
                  THEN Fetch(ms) ELSE fetch

\* setQueryData(new), invalidateQueries: an observed query is fetched, in
\* place of a fetch in flight unless that one is the first
Invalidate(new, observed, ms) ==
    /\ invalid' = TRUE
    /\ cache' = new
    /\ fetch' = IF observed /\ (fetch = NoFetch \/ new # NoData)
                  THEN Fetch(ms) ELSE fetch

\* one of the requests of fetchFirstPages is answered
ReadPage(st) ==
    /\ fetch # NoFetch
    /\ fetch.pages[st] = Unread
    /\ fetch' = [fetch EXCEPT !.pages[st] = {i \in Issues : srv[i] = st}]
    /\ UNCHANGED <<server, socket, here, cache, invalid, muts, over>>

\* One of them fails, and with it the fetch, which is tried once more from the
\* start.  When that fails too the data stays as it is; the library may mark it
\* invalid.  The first of the two failures may come at once, so it is not kept
\* whether there was one.
FetchFails ==
    /\ ~over
    /\ fetch # NoFetch
    /\ \E st \in Shown : fetch.pages[st] = Unread
    /\ \/ fetch' = Fetch(fetch.under) /\ UNCHANGED invalid
       \/ fetch' = NoFetch /\ invalid' \in {invalid, TRUE}
    /\ UNCHANGED <<server, socket, here, cache, muts, over>>

FetchEnds ==
    /\ fetch # NoFetch
    /\ \A st \in Shown : fetch.pages[st] # Unread
    /\ cache' = [st \in Shown |-> [i \in Issues |->
                    IF i \in fetch.pages[st] THEN 1 ELSE 0]]
    /\ invalid' = FALSE
    /\ fetch' = NoFetch
    /\ UNCHANGED <<server, socket, here, muts, over>>

\* unobserved for ten minutes
Collect ==
    /\ ~here
    /\ fetch = NoFetch
    /\ cache # NoData
    /\ cache' = NoData
    /\ invalid' = FALSE
    /\ UNCHANGED <<server, socket, here, fetch, muts, over>>

-----------------------------------------------------------------------------
(* The mutations of this client *)

\* Variant: a fetch in flight is left to end.
OptimisticallyBeside(new) ==
    /\ cache' = new
    /\ invalid' = IF cache = NoData THEN invalid ELSE FALSE
    /\ UNCHANGED fetch

\* onMutate: a fetch in flight is cancelled, the cache becomes new
Optimistically(new) ==
    /\ cache' = new
    /\ invalid' = IF cache = NoData THEN invalid ELSE FALSE
    /\ fetch' = NoFetch

\* "left" are the issues the server has yet to change
Mutation(kind, S, st) ==
    [kind |-> kind, ids |-> S, left |-> S, st |-> st, prev |-> cache,
     lost |-> FALSE]

Begin(m, mutation) ==
    /\ ~over /\ here
    /\ muts[m] = NoMut
    /\ muts' = [muts EXCEPT ![m] = mutation]

Create(m, st) ==
    /\ Begin(m, [Mutation("create", {}, st) EXCEPT !.prev = NoData])
    /\ UNCHANGED <<server, socket, here, query, over>>

\* one optimistic change of the issues of S, one after the other, of which
\* changed[i] is what is done for i: it looks at i only
EachOf(c, S, changed) ==
    [st \in Shown |-> [i \in Issues |->
        IF i \in S THEN changed[i][st][i] ELSE c[st][i]]]
PatchAll(c, S, st) ==
    IF c = NoData THEN c ELSE EachOf(c, S, [i \in S |-> PatchIssue(c, i, st)])
RemoveAllOf(c, S) ==
    IF c = NoData THEN c ELSE EachOf(c, S, [i \in S |-> RemoveIssue(c, i)])

\* useUpdateIssue, useBatchUpdateIssues
Update(m, S, st) ==
    /\ S # {} /\ \A i \in S : srv[i] # "unborn"
    /\ Begin(m, Mutation("update", S, st))
    /\ Optimistically(PatchAll(cache, S, st))
    /\ UNCHANGED <<server, socket, here, over>>

\* useDeleteIssue, useBatchDeleteIssues.  The cancelQueries that these and the
\* batch update await takes microtasks only, so it is one step with the rest.
Delete(m, S) ==
    /\ S # {} /\ \A i \in S : srv[i] # "unborn"
    /\ Begin(m, Mutation("delete", S, Board[1]))
    /\ Optimistically(RemoveAllOf(cache, S))
    /\ UNCHANGED <<server, socket, here, over>>

\* The server carries a request out, an issue at a time, each published before
\* the next; an issue that is gone is skipped, and in a batch also one whose
\* statement fails.
Serve(m) ==
    LET r == muts[m]
        change == IF r.kind = "update" THEN "updated" ELSE "deleted"
    IN /\ r # NoMut
       /\ ~Unpublished(m)
       /\ \/ /\ r.kind = "create" /\ r.ids = {}
             /\ \E i \in Issues :
                  /\ srv[i] = "unborn"
                  /\ Commit(m, "created", i, r.st)
                  /\ muts' = [muts EXCEPT ![m].ids = {i}]
          \/ \E i \in r.left :
                /\ \/ Alive(i) /\ Commit(m, change, i, r.st)
                   \/ (Alive(i) => r.ids # {i}) /\ UNCHANGED server
                /\ muts' = [muts EXCEPT ![m].left = @ \ {i}]
       /\ UNCHANGED <<socket, here, query, over>>

Served(m) == /\ muts[m].left = {} /\ ~Unpublished(m)
             /\ muts[m].kind = "create" => muts[m].ids # {}

\* a request that was given up has been carried out, or never will be
Forgotten(m) ==
    /\ muts[m] # NoMut /\ muts[m].lost
    /\ ~Unpublished(m)
    /\ muts' = [muts EXCEPT ![m] = NoMut]
    /\ UNCHANGED <<server, socket, here, query, over>>

Settle(m, r, new) ==
    /\ muts' = [muts EXCEPT ![m] = r]
    /\ Invalidate(new, here, InFlight \ {m})
    /\ UNCHANGED <<server, socket, here, over>>

\* onSuccess, onSettled
Succeed(m) ==
    LET r == muts[m]
    IN /\ m \in InFlight
       /\ Served(m)
       /\ Settle(m, NoMut,
                 IF r.kind = "create" /\ cache # NoData
                   THEN AddIssue(cache, CHOOSE i \in r.ids : TRUE, r.st)
                   ELSE cache)

\* what is left of a mutation that has failed: nothing, or a request that is
\* still carried out
Remains(m) ==
    IF Served(m) THEN {NoMut}
    ELSE (IF Unpublished(m) THEN {} ELSE {NoMut})
            \cup {[muts[m] EXCEPT !.lost = TRUE, !.prev = NoData]}

\* Variant: only a success is followed by a refetch.
FailSilently(m) ==
    LET r == muts[m]
    IN /\ m \in InFlight
       /\ cache' = IF r.prev # NoData THEN r.prev ELSE cache
       /\ \E q \in Remains(m) : muts' = [muts EXCEPT ![m] = q]
       /\ UNCHANGED <<server, socket, here, invalid, fetch, over>>

\* onError, onSettled: refused, or lost on the way there or back; a request
\* that the client gives up may still be carried out
Fail(m) ==
    LET r == muts[m]
    IN /\ m \in InFlight
       /\ \E q \in Remains(m) :
             Settle(m, q, IF r.prev # NoData THEN r.prev ELSE cache)

-----------------------------------------------------------------------------
(* Others, and the socket *)

OtherCreate(i, st) ==
    /\ ~over
    /\ srv[i] = "unborn"
    /\ Commit(NoMut, "created", i, st)
    /\ UNCHANGED <<socket, here, query, muts, over>>

OtherUpdate(i, st) ==
    /\ ~over
    /\ Alive(i) /\ srv[i] # st
    /\ Commit(NoMut, "updated", i, st)
    /\ UNCHANGED <<socket, here, query, muts, over>>

OtherDelete(i) ==
    /\ ~over
    /\ Alive(i)
    /\ Commit(NoMut, "deleted", i, Board[1])
    /\ UNCHANGED <<socket, here, query, muts, over>>

Deliver ==
    /\ conn
    /\ events # <<>>
    /\ events' = Tail(events)
    /\ cache' = Handled(cache, Head(events))
    /\ invalid' = IF cache = NoData THEN invalid ELSE FALSE
    /\ UNCHANGED <<server, conn, met, here, fetch, muts, over>>

Disconnect ==
    /\ ~over
    /\ conn
    /\ conn' = FALSE
    /\ events' = <<>>
    /\ UNCHANGED <<server, met, here, query, muts, over>>

\* onAuthenticated: the callbacks run unless it is the client's first time
Connect ==
    /\ here /\ ~conn
    /\ conn' = TRUE
    /\ met' = TRUE
    /\ IF met THEN Invalidate(cache, here, InFlight) ELSE UNCHANGED query
    /\ UNCHANGED <<server, events, here, muts, over>>

\* Another workspace is opened: its client takes the place of this one, and
\* the board is unmounted.  The query stays, and so do the mutations.
LeaveWorkspace ==
    /\ ~over
    /\ here
    /\ here' = FALSE
    /\ conn' = FALSE /\ met' = FALSE /\ events' = <<>>
    /\ UNCHANGED <<server, query, muts, over>>

\* the board is mounted again, and fetches what is absent or invalidated
EnterWorkspace ==
    /\ ~here
    /\ here' = TRUE
    /\ fetch' = IF fetch = NoFetch /\ (cache = NoData \/ invalid)
                  THEN Fetch(InFlight) ELSE fetch
    /\ UNCHANGED <<server, socket, cache, invalid, muts, over>>

\* from here on the world only finishes what is under way
Rest ==
    /\ ~over
    /\ over' = TRUE
    /\ UNCHANGED <<server, socket, here, query, muts>>

-----------------------------------------------------------------------------
Init ==
    /\ srv \in [Issues -> {"unborn"} \cup Status]
    /\ changes = 0 /\ unsent = {}
    /\ events = <<>> /\ conn = FALSE /\ met = FALSE
    /\ here = TRUE
    /\ cache = NoData
    /\ invalid = FALSE
    /\ muts = [m \in Muts |-> NoMut]
    /\ fetch = Fetch({})
    /\ over = FALSE

Mutate(m) ==
    \/ \E st \in Status : Create(m, st)
    \/ \E S \in SUBSET Issues : Delete(m, S) \/ \E st \in Status : Update(m, S, st)

Others ==
    \E i \in Issues :
        OtherDelete(i) \/ \E st \in Status : OtherCreate(i, st) \/ OtherUpdate(i, st)

Network ==
    \/ Deliver \/ Disconnect \/ Connect
    \/ LeaveWorkspace \/ EnterWorkspace \/ Collect

Fetching == FetchEnds \/ \E st \in Shown : ReadPage(st)
Publishing == \E u \in unsent : Publish(u)

Next ==
    \/ \E m \in Muts :
          Mutate(m) \/ Serve(m) \/ Forgotten(m) \/ Succeed(m) \/ Fail(m)
    \/ Publishing \/ Others \/ Network \/ Fetching \/ FetchFails \/ Rest

Spec == Init /\ [][Next]_vars

\* Something that is under way goes on: a request is answered or fails, a
\* handler publishes what it has committed, an event arrives, the socket is
\* opened again after three seconds, the user comes back to the workspace.
\* Once users rest there is finitely much of it, so that all of it is done.
Progress ==
    \/ \E m \in Muts : Succeed(m) \/ Fail(m)
    \/ Fetching \/ Publishing \/ Deliver \/ Connect \/ EnterWorkspace

FairSpec == Spec /\ WF_vars(Progress)

-----------------------------------------------------------------------------
(* Properties *)

Buckets == [Shown -> [Issues -> Nat]]
Mutations == [kind : {"create", "update", "delete"}, ids : SUBSET Issues,
              left : SUBSET Issues, st : Status,
              prev : Buckets \cup {NoData}, lost : BOOLEAN]
Events == [kind : {"created", "updated", "deleted"}, id : Issues, st : Status]

\* Every variable has its type.
TypeOK ==
    /\ srv \in [Issues -> Status \cup {"unborn", "gone"}]
    /\ changes \in 0..MaxChanges
    /\ unsent \subseteq [by : Muts \cup {NoMut}, event : Events]
    /\ events \in Seq(Events)
    /\ {conn, met, here, invalid, over} \subseteq BOOLEAN
    /\ cache = NoData \/ cache \in Buckets
    /\ \/ fetch = NoFetch
       \/ /\ DOMAIN fetch.pages = Shown
          /\ \A st \in Shown :
                fetch.pages[st] = Unread \/ fetch.pages[st] \subseteq Issues
          /\ fetch.under \subseteq Muts
    /\ \A m \in Muts : muts[m] = NoMut \/ muts[m] \in Mutations

\* An answer that was asked for before an optimistic change never lands over
\* it: what the user has dragged does not jump back because of an older
\* fetch (mutations.ts:138-142).
OptimisticHolds ==
    [][FetchEnds =>
         \A m \in InFlight : Optimistic(m) => m \in fetch.under]_vars

\* The cache is what the server has.
Agrees == cache = View(srv)

\* The server has published all, and at most one request is pending: others
\* could be published in the other order than they were carried out.
Calm == /\ unsent = {} /\ events = <<>>
        /\ \A m, n \in Muts : muts[m] # NoMut /\ muts[n] # NoMut => m = n

\* A request that the client has given up is still under way.
Abandoned == \E m \in Muts : muts[m] # NoMut /\ muts[m].lost

\* When a client that has lost its connection has it back, users rest and the
\* query is answered from then on, a loaded board ends as the server has it
\* and stays so: the refetch replaces pages read before, whatever events were
\* missed (use-realtime-sync.ts:710-738).  What overlaps the refetch must be
\* one request, which the client does not give up.
ReconnectRecovers ==
    (over /\ here /\ ~conn /\ met /\ cache # NoData /\ Calm)
        ~> ([]Agrees \/ Abandoned)

\* When the last mutation in flight has been answered, users rest and the
\* query is answered from then on, the board ends as the server has it and
\* stays so, also when an error has brought an old snapshot back over what
\* came since (mutations.ts:172-201), unless the server still carries out what
\* the client has given up.
SettleRecovers ==
    (over /\ here /\ cache # NoData /\ Calm /\ InFlight # {})
        ~> ([](InFlight = {} /\ Agrees) \/ Abandoned)

\* Said at cache-helpers.ts:39 and use-realtime-sync.ts:232-234: an issue that
\* is in the cache is not added again.
NoDoubles ==
    cache # NoData =>
        \A i \in Issues, s, t \in Shown :
            cache[s][i] <= 1 /\ (Holds(cache, s, i) /\ Holds(cache, t, i) => s = t)

\* Said at use-realtime-sync.ts:710: events that were missed are recovered.
MissedRecovered == (over /\ ~conn /\ cache # NoData) ~> Agrees
=============================================================================
