-------------------------- MODULE IssueCache_proofs --------------------------
(***************************************************************************)
(* Proofs about IssueCache, for any issues, statuses, mutations at once    *)
(* and events: the types, which say that no order of events, mutations,    *)
(* rollbacks and refetches puts a bucket out of shape; and that no fetch   *)
(* asked for before an optimistic change ends over it.                     *)
(***************************************************************************)
EXTENDS IssueCache, TLAPS

(* What TypeOK says of a fetch is made exact, and the rest is in the form   *)
(* the steps use.                                                           *)
Fetches == [pages : [Shown -> (SUBSET Issues) \cup {Unread}], under : SUBSET Muts]
Cached(c) == c = NoData \/ c \in Buckets

ServerOK ==
    /\ srv \in [Issues -> Status \cup {"unborn", "gone"}]
    /\ changes \in 0..MaxChanges
    /\ unsent \subseteq [by : Muts \cup {NoMut}, event : Events]
SocketOK == events \in Seq(Events) /\ conn \in BOOLEAN /\ met \in BOOLEAN
QueryOK ==
    /\ Cached(cache) /\ invalid \in BOOLEAN
    /\ fetch = NoFetch \/ fetch \in Fetches
MutsTyped == muts \in [Muts -> Mutations \cup {NoMut}]

Types ==
    /\ here \in BOOLEAN /\ over \in BOOLEAN
    /\ ServerOK /\ SocketOK /\ QueryOK /\ MutsTyped

(* A fetch in flight was started under every optimistic mutation that is    *)
(* in flight, since each of these cancels the fetch it finds; the mutations *)
(* in flight when it was started are recorded in "under".                   *)
FetchOK ==
    fetch # NoFetch =>
        \A m \in InFlight : Optimistic(m) => m \in fetch.under

CacheInv == Types /\ FetchOK

LEMMA TypesMean == Types => TypeOK
<1> SUFFICES ASSUME Types PROVE TypeOK
  OBVIOUS
<1>1. \/ fetch = NoFetch
      \/ /\ DOMAIN fetch.pages = Shown
         /\ \A st \in Shown :
               fetch.pages[st] = Unread \/ fetch.pages[st] \subseteq Issues
         /\ fetch.under \subseteq Muts
  BY DEF Types, QueryOK, Fetches
<1>2. {conn, met, here, invalid, over} \subseteq BOOLEAN
  BY DEF Types, SocketOK, QueryOK
<1>3. \A m \in Muts : muts[m] = NoMut \/ muts[m] \in Mutations
  BY DEF Types, MutsTyped
<1> QED
  BY <1>1, <1>2, <1>3 DEF Types, TypeOK, ServerOK, SocketOK, QueryOK, Cached

(* What the helpers of the buckets return.                                  *)
LEMMA SetBucket ==
    ASSUME NEW c \in Buckets, NEW st, NEW i, NEW n \in Nat
    PROVE  [c EXCEPT ![st][i] = n] \in Buckets
  BY DEF Buckets

LEMMA GrowBucket ==
    ASSUME NEW c \in Buckets, NEW st \in Shown, NEW i \in Issues
    PROVE  [c EXCEPT ![st][i] = @ + 1] \in Buckets
<1>1. c[st][i] + 1 \in Nat
  BY DEF Buckets
<1> QED
  BY <1>1 DEF Buckets

LEMMA AddTyped ==
    ASSUME NEW c \in Buckets, NEW i, NEW st
    PROVE  AddIssue(c, i, st) \in Buckets
  BY SetBucket DEF AddIssue

LEMMA RemoveTyped ==
    ASSUME NEW c \in Buckets, NEW i
    PROVE  RemoveIssue(c, i) \in Buckets
  BY SetBucket DEF RemoveIssue

LEMMA PatchTyped ==
    ASSUME NEW c \in Buckets, NEW i \in Issues, NEW st
    PROVE  PatchIssue(c, i, st) \in Buckets
<1> DEFINE left == [c EXCEPT ![LocationOf(c, i)][i] = 0]
<1>1. left \in Buckets
  BY SetBucket
<1> HIDE DEF left
<1>2. st \in Shown => [left EXCEPT ![st][i] = @ + 1] \in Buckets
  BY <1>1, GrowBucket
<1> QED
  BY <1>1, <1>2 DEF PatchIssue, left

LEMMA EachTyped ==
    ASSUME NEW c \in Buckets, NEW S, NEW changed,
           \A i \in S \cap Issues : changed[i] \in Buckets
    PROVE  EachOf(c, S, changed) \in Buckets
BY DEF EachOf, Buckets

LEMMA PatchAllTyped ==
    ASSUME NEW c, Cached(c), NEW S, NEW st
    PROVE  Cached(PatchAll(c, S, st))
<1> DEFINE changed == [i \in S |-> PatchIssue(c, i, st)]
<1>1. ASSUME c \in Buckets
      PROVE  EachOf(c, S, changed) \in Buckets
  <2>1. \A i \in S \cap Issues : changed[i] \in Buckets
    BY <1>1, PatchTyped
  <2> HIDE DEF changed
  <2> QED
    BY <1>1, <2>1, EachTyped
<1> QED
  BY <1>1 DEF PatchAll, Cached

LEMMA RemoveAllTyped ==
    ASSUME NEW c, Cached(c), NEW S
    PROVE  Cached(RemoveAllOf(c, S))
<1> DEFINE changed == [i \in S |-> RemoveIssue(c, i)]
<1>1. ASSUME c \in Buckets
      PROVE  EachOf(c, S, changed) \in Buckets
  <2>1. \A i \in S \cap Issues : changed[i] \in Buckets
    BY <1>1, RemoveTyped
  <2> HIDE DEF changed
  <2> QED
    BY <1>1, <2>1, EachTyped
<1> QED
  BY <1>1 DEF RemoveAllOf, Cached

LEMMA HandledTyped ==
    ASSUME NEW c, Cached(c), NEW e \in Events
    PROVE  Cached(Handled(c, e))
<1>1. e.kind \in {"created", "updated", "deleted"} /\ e.id \in Issues
  BY DEF Events
<1>2. CASE c = NoData
  BY <1>2 DEF Handled, Cached
<1>3. CASE c # NoData
  <2>1. c \in Buckets
    BY <1>3 DEF Cached
  <2> QED
    BY <1>1, <1>3, <2>1, AddTyped, RemoveTyped, PatchTyped DEF Handled, Cached
<1> QED
  BY <1>2, <1>3

-----------------------------------------------------------------------------
(* What the steps are made of.                                              *)

LEMMA FirstColumn == Board[1] \in Status
<1>1. Board \in Seq(Shown) /\ Board # <<>>
  BY IssueAssumption
<1>2. Board[1] \in Shown
  BY <1>1
<1> QED
  BY <1>2 DEF Status

LEMMA EventTyped ==
    ASSUME NEW kind \in {"created", "updated", "deleted"}, NEW i \in Issues,
           NEW st \in Status
    PROVE  Event(kind, i, st) \in Events
  BY DEF Event, Events

\* a handler changes an issue, and nothing is published yet
LEMMA CommitTyped ==
    ASSUME Types, NEW m \in Muts \cup {NoMut},
           NEW kind \in {"created", "updated", "deleted"}, NEW i \in Issues,
           NEW st \in Status, Commit(m, kind, i, st)
    PROVE  ServerOK'
<1>1. Event(kind, i, st) \in Events
  BY EventTyped
<1>2. changes + 1 \in 0..MaxChanges
  BY IssueAssumption DEF Types, ServerOK, Commit
<1> QED
  BY <1>1, <1>2 DEF Types, ServerOK, Commit

LEMMA FetchTyped ==
    ASSUME NEW ms \in SUBSET Muts
    PROVE  Fetch(ms) \in Fetches /\ Fetch(ms).under = ms
  BY DEF Fetches, Fetch

LEMMA InvalidateTyped ==
    ASSUME Types, NEW new, Cached(new), NEW observed, NEW ms \in SUBSET Muts,
           Invalidate(new, observed, ms)
    PROVE  QueryOK'
<1>1. Cached(cache)' /\ invalid' \in BOOLEAN
  BY DEF Invalidate, Cached
<1>2. fetch' = NoFetch \/ fetch' \in Fetches
  BY FetchTyped DEF Invalidate, Types, QueryOK
<1> QED
  BY <1>1, <1>2 DEF QueryOK

LEMMA OptimisticTyped ==
    ASSUME Types, NEW new, Cached(new), Optimistically(new)
    PROVE  QueryOK'
  BY DEF Types, QueryOK, Optimistically, Cached

\* one mutation is changed, and no optimistic one begins beside a fetch
LEMMA OneMutation ==
    ASSUME CacheInv, NEW m \in Muts, NEW r \in Mutations \cup {NoMut},
           muts' = [muts EXCEPT ![m] = r],
           \/ fetch' = NoFetch
           \/ fetch' = fetch
           \/ fetch'.under = InFlight \ {m} /\ (r = NoMut \/ r.lost),
           \/ fetch' = NoFetch
           \/ r = NoMut \/ r.lost \/ r.kind = "create"
           \/ m \in InFlight /\ r.kind = muts[m].kind
    PROVE  MutsTyped' /\ FetchOK'
<1>1. muts \in [Muts -> Mutations \cup {NoMut}]
  BY DEF CacheInv, Types, MutsTyped
<1>2. /\ MutsTyped'
      /\ muts'[m] = r
      /\ \A x \in Muts : x # m => muts'[x] = muts[x]
  BY <1>1 DEF MutsTyped
<1>3. CASE fetch' = NoFetch
  BY <1>2, <1>3 DEF FetchOK
<1>4. CASE fetch' = fetch /\ fetch # NoFetch
  <2>1. ASSUME NEW x \in Muts, x \in InFlight', muts'[x].kind # "create"
        PROVE  x \in InFlight /\ muts[x].kind # "create"
    <3>1. CASE x # m
      BY <1>2, <2>1, <3>1 DEF InFlight
    <3>2. CASE x = m
      <4>1. r # NoMut /\ ~r.lost /\ r.kind # "create"
        BY <1>2, <2>1, <3>2 DEF InFlight
      <4>2. m \in InFlight /\ r.kind = muts[m].kind
        BY <1>4, <4>1
      <4> QED
        BY <3>2, <4>1, <4>2
    <3> QED
      BY <3>1, <3>2
  <2>2. InFlight' \subseteq Muts
    BY DEF InFlight
  <2>3. \A x \in InFlight : muts[x].kind # "create" => x \in fetch.under
    BY <1>4 DEF CacheInv, FetchOK, Optimistic
  <2>4. \A x \in InFlight' : muts'[x].kind # "create" => x \in fetch'.under
    BY <1>4, <2>1, <2>2, <2>3
  <2> QED
    BY <1>2, <2>4 DEF FetchOK, Optimistic
<1>5. CASE fetch'.under = InFlight \ {m} /\ (r = NoMut \/ r.lost)
  <2>1. InFlight' \subseteq InFlight \ {m}
    BY <1>2, <1>5 DEF InFlight
  <2> QED
    BY <1>2, <1>5, <2>1 DEF FetchOK, Optimistic
<1> QED
  BY <1>2, <1>3, <1>4, <1>5

\* no mutation changes
LEMMA SameMutations ==
    ASSUME CacheInv, muts' = muts,
           \/ fetch' = fetch
           \/ fetch' = NoFetch
           \/ fetch'.under = InFlight
           \/ fetch # NoFetch /\ fetch'.under = fetch.under
    PROVE  FetchOK'
<1>1. InFlight' = InFlight
  BY DEF InFlight
<1> QED
  BY <1>1 DEF CacheInv, FetchOK, Optimistic

-----------------------------------------------------------------------------
(* The mutations of this client.                                            *)

LEMMA MutateStep ==
    ASSUME CacheInv, NEW m \in Muts, Mutate(m)
    PROVE  CacheInv'
<1> USE DEF server, socket, query
<1>1. Types /\ Cached(cache) /\ Board[1] \in Status
  BY FirstColumn DEF CacheInv, Types, QueryOK
<1>2. ASSUME NEW kind \in {"create", "update", "delete"}, NEW S \in SUBSET Issues,
             NEW st \in Status
      PROVE  /\ Mutation(kind, S, st) \in Mutations
             /\ [Mutation(kind, S, st) EXCEPT !.prev = NoData] \in Mutations
             /\ [Mutation(kind, S, st) EXCEPT !.prev = NoData].kind = kind
  BY <1>1 DEF Mutation, Mutations, Cached
<1>3. ASSUME NEW st \in Status, Create(m, st)
      PROVE  CacheInv'
  <2> DEFINE r == [Mutation("create", {}, st) EXCEPT !.prev = NoData]
  <2>1. r \in Mutations /\ r.kind = "create"
    BY <1>2
  <2>2. muts' = [muts EXCEPT ![m] = r] /\ fetch' = fetch
    BY <1>3 DEF Create, Begin
  <2> HIDE DEF r
  <2>3. MutsTyped' /\ FetchOK'
    BY <2>1, <2>2, OneMutation
  <2> QED
    BY <1>1, <1>3, <2>3 DEF Create, CacheInv, Types, ServerOK, SocketOK, QueryOK
<1>4. ASSUME NEW r \in Mutations, NEW new, Cached(new), Begin(m, r),
             Optimistically(new), UNCHANGED <<server, socket, here, over>>
      PROVE  CacheInv'
  <2>1. muts' = [muts EXCEPT ![m] = r] /\ fetch' = NoFetch
    BY <1>4 DEF Begin, Optimistically
  <2>2. MutsTyped' /\ FetchOK'
    BY <2>1, OneMutation
  <2>3. QueryOK'
    BY <1>1, <1>4, OptimisticTyped
  <2> QED
    BY <1>1, <1>4, <2>2, <2>3 DEF CacheInv, Types, ServerOK, SocketOK
<1>5. ASSUME NEW S \in SUBSET Issues, Delete(m, S)
      PROVE  CacheInv'
  BY <1>1, <1>2, <1>4, <1>5, RemoveAllTyped DEF Delete
<1>6. ASSUME NEW S \in SUBSET Issues, NEW st \in Status, Update(m, S, st)
      PROVE  CacheInv'
  BY <1>1, <1>2, <1>4, <1>6, PatchAllTyped DEF Update
<1> QED
  BY <1>3, <1>5, <1>6 DEF Mutate

\* the server goes on with a request: its kind, and whether it was given up,
\* stay
LEMMA ServeStep ==
    ASSUME CacheInv, NEW m \in Muts, Serve(m)
    PROVE  CacheInv'
<1> USE DEF server, query
<1> DEFINE r == muts[m]
<1>1. Types /\ r \in Mutations /\ r # NoMut
  BY DEF Serve, CacheInv, Types, MutsTyped
<1>2. r.st \in Status /\ r.left \subseteq Issues
  BY <1>1 DEF Mutations
<1>3. /\ \A i \in Issues : /\ [r EXCEPT !.ids = {i}] \in Mutations
                          /\ [r EXCEPT !.ids = {i}].kind = r.kind
                          /\ [r EXCEPT !.ids = {i}].lost = r.lost
      /\ \A S \in SUBSET Issues : /\ [r EXCEPT !.left = S] \in Mutations
                                 /\ [r EXCEPT !.left = S].kind = r.kind
                                 /\ [r EXCEPT !.left = S].lost = r.lost
  BY <1>1 DEF Mutations
<1>4. ASSUME NEW q \in Mutations, q.kind = r.kind, q.lost = r.lost,
             muts' = [muts EXCEPT ![m] = q]
      PROVE  MutsTyped' /\ FetchOK'
  <2>1. fetch' = fetch
    BY DEF Serve
  <2>2. q.lost \/ m \in InFlight
    BY <1>1, <1>4 DEF InFlight
  <2> QED
    BY <1>4, <2>1, <2>2, OneMutation
<1>5. MutsTyped' /\ FetchOK'
  <2>1. ASSUME NEW i \in Issues, muts' = [muts EXCEPT ![m].ids = {i}]
        PROVE  MutsTyped' /\ FetchOK'
    <3>1. muts' = [muts EXCEPT ![m] = [r EXCEPT !.ids = {i}]]
      BY <2>1
    <3> HIDE DEF r
    <3> QED
      BY <1>3, <1>4, <3>1
  <2>2. ASSUME NEW i \in Issues, muts' = [muts EXCEPT ![m].left = @ \ {i}]
        PROVE  MutsTyped' /\ FetchOK'
    <3>1. muts' = [muts EXCEPT ![m] = [r EXCEPT !.left = r.left \ {i}]]
      BY <2>2
    <3>2. r.left \ {i} \in SUBSET Issues
      BY <1>2
    <3> HIDE DEF r
    <3> QED
      BY <1>3, <1>4, <3>1, <3>2
  <2> QED
    BY <1>2, <2>1, <2>2 DEF Serve
<1>6. ServerOK'
  <2>1. \/ \E i \in Issues : Commit(m, "created", i, r.st)
        \/ \E i \in Issues : Commit(m, "updated", i, r.st)
        \/ \E i \in Issues : Commit(m, "deleted", i, r.st)
        \/ UNCHANGED server
    BY <1>2 DEF Serve
  <2> HIDE DEF r
  <2> QED
    BY <1>1, <1>2, <2>1, CommitTyped DEF Types, ServerOK
<1> QED
  BY <1>1, <1>5, <1>6 DEF Serve, CacheInv, Types, SocketOK, QueryOK, socket

LEMMA RemainsTyped ==
    ASSUME Types, NEW m \in InFlight, NEW q \in Remains(m)
    PROVE  q \in Mutations \cup {NoMut} /\ (q = NoMut \/ q.lost)
<1>1. muts[m] \in Mutations
  BY DEF Types, MutsTyped, InFlight
<1>2. \/ q = NoMut
      \/ q = [muts[m] EXCEPT !.lost = TRUE, !.prev = NoData]
  BY DEF Remains
<1> QED
  BY <1>1, <1>2 DEF Mutations

LEMMA SettleStep ==
    ASSUME CacheInv, NEW m \in Muts, NEW r \in Mutations \cup {NoMut},
           r = NoMut \/ r.lost, NEW new, Cached(new), Settle(m, r, new)
    PROVE  CacheInv'
<1> USE DEF server, socket
<1>1. Types /\ InFlight \ {m} \in SUBSET Muts
  BY DEF CacheInv, InFlight
<1>2. fetch' = fetch \/ fetch'.under = InFlight \ {m}
  BY <1>1, FetchTyped DEF Settle, Invalidate
<1>3. MutsTyped' /\ FetchOK'
  BY <1>2, OneMutation DEF Settle
<1>4. QueryOK'
  BY <1>1, InvalidateTyped DEF Settle
<1> QED
  BY <1>1, <1>3, <1>4 DEF Settle, CacheInv, Types, ServerOK, SocketOK

LEMMA AnswerStep ==
    ASSUME CacheInv, NEW m \in Muts, Succeed(m) \/ Fail(m)
    PROVE  CacheInv'
<1>1. Types /\ Cached(cache)
  BY DEF CacheInv, Types, QueryOK
<1>2. CASE Succeed(m)
  <2> DEFINE i == CHOOSE i \in muts[m].ids : TRUE
             new == IF muts[m].kind = "create" /\ cache # NoData
                      THEN AddIssue(cache, i, muts[m].st) ELSE cache
  <2>1. Cached(new)
    BY <1>1, AddTyped DEF Cached
  <2>2. Settle(m, NoMut, new)
    BY <1>2 DEF Succeed
  <2> HIDE DEF new
  <2> QED
    BY <2>1, <2>2, SettleStep
<1>3. CASE Fail(m)
  <2> DEFINE new == IF muts[m].prev # NoData THEN muts[m].prev ELSE cache
  <2>1. m \in InFlight /\ muts[m] \in Mutations
    BY <1>1, <1>3 DEF Fail, Types, MutsTyped, InFlight
  <2>2. Cached(new)
    BY <1>1, <2>1 DEF Mutations, Cached
  <2>3. PICK q \in Remains(m) : Settle(m, q, new)
    BY <1>3 DEF Fail
  <2> HIDE DEF new
  <2>4. q \in Mutations \cup {NoMut} /\ (q = NoMut \/ q.lost)
    BY <1>1, <2>1, RemainsTyped
  <2> QED
    BY <2>2, <2>3, <2>4, SettleStep
<1> QED
  BY <1>2, <1>3

LEMMA ForgottenStep ==
    ASSUME CacheInv, NEW m \in Muts, Forgotten(m)
    PROVE  CacheInv'
<1> USE DEF server, socket, query
<1>1. MutsTyped' /\ FetchOK'
  BY OneMutation DEF Forgotten
<1> QED
  BY <1>1 DEF Forgotten, CacheInv, Types, ServerOK, SocketOK, QueryOK

-----------------------------------------------------------------------------
(* The others, the socket and the query.                                    *)

LEMMA OthersStep ==
    ASSUME CacheInv, Others
    PROVE  CacheInv'
<1> USE DEF query
<1>1. Types /\ Board[1] \in Status
  BY FirstColumn DEF CacheInv
<1>2. ServerOK' /\ UNCHANGED <<socket, here, query, muts, over>>
  BY <1>1, CommitTyped DEF Others, OtherCreate, OtherUpdate, OtherDelete
<1>3. FetchOK'
  BY <1>2, SameMutations
<1> QED
  BY <1>1, <1>2, <1>3 DEF CacheInv, Types, SocketOK, QueryOK, MutsTyped, socket

LEMMA PublishStep ==
    ASSUME CacheInv, NEW u \in unsent, Publish(u)
    PROVE  CacheInv'
<1> USE DEF query
<1>1. Types /\ events \in Seq(Events) /\ u.event \in Events
  BY DEF CacheInv, Types, ServerOK, SocketOK
<1>2. Append(events, u.event) \in Seq(Events)
  BY <1>1
<1>3. events' \in Seq(Events)
  BY <1>1, <1>2 DEF Publish
<1>4. FetchOK'
  BY SameMutations DEF Publish
<1> QED
  BY <1>1, <1>3, <1>4
     DEF Publish, CacheInv, Types, ServerOK, SocketOK, QueryOK, MutsTyped

LEMMA NetworkStep ==
    ASSUME CacheInv, Network
    PROVE  CacheInv'
<1> USE DEF server, socket, query
<1>1. Types /\ InFlight \in SUBSET Muts
  BY DEF CacheInv, InFlight
<1>2. CASE Deliver
  <2>1. events \in Seq(Events) /\ events # <<>>
    BY <1>1, <1>2 DEF Deliver, Types, SocketOK
  <2>2. Head(events) \in Events /\ Tail(events) \in Seq(Events)
    BY <2>1
  <2>3. Cached(cache)'
    BY <1>1, <1>2, <2>2, HandledTyped DEF Deliver, Types, QueryOK, Cached
  <2>4. FetchOK'
    BY <1>2, SameMutations DEF Deliver
  <2> QED
    BY <1>1, <1>2, <2>2, <2>3, <2>4
       DEF Deliver, CacheInv, Types, ServerOK, SocketOK, QueryOK, MutsTyped
<1>3. CASE Disconnect \/ LeaveWorkspace
  <2>1. <<>> \in Seq(Events)
    OBVIOUS
  <2>2. FetchOK'
    BY <1>3, SameMutations DEF Disconnect, LeaveWorkspace
  <2> QED
    BY <1>1, <1>3, <2>1, <2>2
       DEF Disconnect, LeaveWorkspace, CacheInv, Types, ServerOK, SocketOK,
           QueryOK, MutsTyped
<1>4. CASE Connect
  <2>1. QueryOK' /\ (fetch' = fetch \/ fetch'.under = InFlight)
    <3>1. CASE met
      BY <1>1, <1>4, <3>1, InvalidateTyped, FetchTyped
         DEF Connect, Invalidate, Types, QueryOK
    <3>2. CASE ~met
      BY <1>1, <1>4, <3>2 DEF Connect, Types, QueryOK
    <3> QED
      BY <3>1, <3>2
  <2>2. FetchOK'
    BY <1>4, <2>1, SameMutations DEF Connect
  <2> QED
    BY <1>1, <1>4, <2>1, <2>2
       DEF Connect, CacheInv, Types, ServerOK, SocketOK, MutsTyped
<1>5. CASE EnterWorkspace
  <2>1. fetch' = fetch \/ (fetch' \in Fetches /\ fetch'.under = InFlight)
    BY <1>1, <1>5, FetchTyped DEF EnterWorkspace
  <2>2. FetchOK'
    BY <1>5, <2>1, SameMutations DEF EnterWorkspace
  <2> QED
    BY <1>1, <1>5, <2>1, <2>2
       DEF EnterWorkspace, CacheInv, Types, ServerOK, SocketOK, QueryOK, MutsTyped
<1>6. CASE Collect
  <2>1. FetchOK'
    BY <1>6, SameMutations DEF Collect
  <2> QED
    BY <1>1, <1>6, <2>1
       DEF Collect, CacheInv, Types, ServerOK, SocketOK, QueryOK, MutsTyped, Cached
<1> QED
  BY <1>2, <1>3, <1>4, <1>5, <1>6 DEF Network

LEMMA FetchingStep ==
    ASSUME CacheInv, Fetching \/ FetchFails
    PROVE  CacheInv'
<1> USE DEF server, socket
<1>1. Types
  BY DEF CacheInv
<1>2. CASE FetchEnds
  <2>1. [st \in Shown |-> [i \in Issues |-> IF i \in fetch.pages[st] THEN 1 ELSE 0]]
           \in Buckets
    BY DEF Buckets
  <2>2. FetchOK'
    BY <1>2, SameMutations DEF FetchEnds
  <2> QED
    BY <1>1, <1>2, <2>1, <2>2
       DEF FetchEnds, CacheInv, Types, ServerOK, SocketOK, QueryOK, MutsTyped, Cached
<1>3. ASSUME NEW new \in Fetches, fetch # NoFetch, new.under = fetch.under,
             \/ fetch' = new
             \/ fetch' = NoFetch,
             invalid' \in {invalid, TRUE},
             UNCHANGED <<server, socket, here, cache, muts, over>>
      PROVE  CacheInv'
  <2>1. FetchOK'
    BY <1>3, SameMutations
  <2> QED
    BY <1>1, <1>3, <2>1
       DEF CacheInv, Types, ServerOK, SocketOK, QueryOK, MutsTyped, Cached
<1>4. ASSUME NEW st \in Shown, ReadPage(st)
      PROVE  CacheInv'
  <2> DEFINE P == {i \in Issues : srv[i] = st}
             new == [fetch EXCEPT !.pages[st] = P]
  <2>1. fetch \in Fetches /\ fetch # NoFetch /\ P \in SUBSET Issues
    BY <1>1, <1>4 DEF ReadPage, Types, QueryOK
  <2>2. fetch' = new
    BY <1>4 DEF ReadPage
  <2> HIDE DEF P
  <2>3. new \in Fetches /\ new.under = fetch.under
    BY <2>1 DEF Fetches
  <2> HIDE DEF new
  <2> QED
    BY <1>3, <1>4, <2>1, <2>2, <2>3 DEF ReadPage
<1>5. CASE FetchFails
  <2>1. fetch \in Fetches /\ fetch # NoFetch
    BY <1>1, <1>5 DEF FetchFails, Types, QueryOK
  <2>2. Fetch(fetch.under) \in Fetches /\ Fetch(fetch.under).under = fetch.under
    BY <2>1, FetchTyped DEF Fetches
  <2> QED
    BY <1>3, <1>5, <2>1, <2>2 DEF FetchFails
<1> QED
  BY <1>2, <1>4, <1>5 DEF Fetching

-----------------------------------------------------------------------------
LEMMA CacheInvariant == Spec => []CacheInv
<1>1. ASSUME Init
      PROVE  CacheInv
  <2>1. SocketOK
    <3>1. <<>> \in Seq(Events)
      OBVIOUS
    <3> QED
      BY <1>1, <3>1 DEF Init, SocketOK
  <2>2. ServerOK
    BY <1>1, IssueAssumption DEF Init, ServerOK
  <2>3. MutsTyped /\ InFlight = {}
    BY <1>1 DEF Init, MutsTyped, InFlight
  <2>4. QueryOK
    BY <1>1, FetchTyped DEF Init, QueryOK, Cached
  <2> QED
    BY <1>1, <2>1, <2>2, <2>3, <2>4 DEF Init, CacheInv, Types, FetchOK
<1>2. ASSUME CacheInv, [Next]_vars
      PROVE  CacheInv'
  <2>1. ASSUME NEW m \in Muts,
               Mutate(m) \/ Serve(m) \/ Forgotten(m) \/ Succeed(m) \/ Fail(m)
        PROVE  CacheInv'
    BY <1>2, <2>1, MutateStep, ServeStep, ForgottenStep, AnswerStep
  <2>2. CASE Publishing
    BY <1>2, <2>2, PublishStep DEF Publishing
  <2>3. CASE Others \/ Network \/ Fetching \/ FetchFails
    BY <1>2, <2>3, OthersStep, NetworkStep, FetchingStep
  <2>4. CASE Rest \/ UNCHANGED vars
    <3>1. FetchOK'
      BY <1>2, <2>4, SameMutations DEF Rest, vars, query
    <3> QED
      BY <1>2, <2>4, <3>1
         DEF Rest, vars, server, socket, query, CacheInv, Types, ServerOK,
             SocketOK, QueryOK, MutsTyped
  <2> QED
    BY <1>2, <2>1, <2>2, <2>3, <2>4 DEF Next
<1> QED
  BY <1>1, <1>2, PTL DEF Spec

(* Every variable has its type: whatever order events, mutations, rollbacks *)
(* and refetches come in, a bucket of the cache counts the issues it holds, *)
(* and a fetch is one of the pages of the board (issues/cache-helpers.ts).  *)
THEOREM CacheTypes == Spec => []TypeOK
<1>1. CacheInv => TypeOK
  BY TypesMean DEF CacheInv
<1> QED
  BY <1>1, CacheInvariant, PTL

(* What a user has dragged or deleted is never put back by an answer that   *)
(* was asked for before (mutations.ts:138-142).                             *)
THEOREM OptimisticStands == Spec => OptimisticHolds
<1> DEFINE A == FetchEnds =>
                   \A m \in InFlight : Optimistic(m) => m \in fetch.under
<1>1. CacheInv => [A]_vars
  BY DEF CacheInv, FetchOK, FetchEnds
<1> HIDE DEF A
<1>2. Spec => [][A]_vars
  BY <1>1, CacheInvariant, PTL
<1> QED
  BY <1>2 DEF A, OptimisticHolds
=============================================================================
