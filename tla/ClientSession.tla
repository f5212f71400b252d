--------------------------- MODULE ClientSession ---------------------------
(***************************************************************************)
(* The session of the web and desktop clients in token mode: who is shown  *)
(* as signed in (core/auth/store.ts, platform/auth-initializer.tsx), the   *)
(* token in the local storage and the one the API client sends             *)
(* (core-provider.tsx, api/client.ts), the current workspace that names    *)
(* the storage keys (platform/workspace-storage.ts), and the stores that   *)
(* are persisted under those keys.                                         *)
(*                                                                         *)
(* A token is the user it belongs to.  What a store holds is abstracted to *)
(* where it is from: the workspaces it was written in, and Late for what   *)
(* the answer of a request wrote after its workspace was left.             *)
(***************************************************************************)
EXTENDS Naturals, FiniteSets

CONSTANTS
    Users,
    Slugs,
    Plain,      \* stores of zustand's persist: drafts, views, recent issues
    Chat,       \* the parts of the chat store that re-read their keys:
                \* session, agent, drafts (isExpanded is read once, and left out)
    Cleaned,    \* the stores whose key is in WORKSPACE_SCOPED_KEYS
    NoUser,     \* no user, no token
    NoSlug,     \* no workspace: the key without a suffix
    Late,       \* the mark of what an answer brings to another workspace
    MaxCalls    \* bound on the requests in flight, those of stores included

Stores == Plain \cup Chat

ASSUME SessionAssumption ==
    /\ NoUser \notin Users
    /\ NoSlug \notin Slugs
    /\ Late \notin Slugs \cup {NoSlug}
    /\ Plain \cap Chat = {}
    /\ Chat \subseteq Cleaned /\ Cleaned \subseteq Stores
    /\ MaxCalls \in Nat

VARIABLES
    stored,     \* multica_token of the local storage
    token,      \* ApiClient.token
    user,       \* useAuthStore.user
    loading,    \* useAuthStore.isLoading
    calls,      \* requests in flight that the session depends on
    accepted,   \* the users whose token the server accepts
    cur,        \* _currentSlug
    list,       \* the workspace list of the query cache
    mem,        \* the live stores
    disk,       \* the local storage: store -> slug -> {value}, or Absent
    sends       \* what a store is awaiting: a chat session, a form sent

auth == <<stored, token, user, loading>>
data == <<cur, list, mem, disk, sends>>
vars == <<auth, calls, accepted, data>>

Origins == Slugs \cup {Late}
Keys == Slugs \cup {NoSlug}
Absent == {}
Kinds == {"init", "deepLink", "code", "me", "other"}
Calls == [kind : Kinds, who : Users]
Sends == [store : Stores, of : Slugs]

MayCall == Cardinality(calls) + Cardinality(sends) < MaxCalls

Send(kind, u) ==
    /\ MayCall
    /\ calls' = calls \cup {[kind |-> kind, who |-> u]}

Answer(kind, u) ==
    /\ [kind |-> kind, who |-> u] \in calls
    /\ calls' = calls \ {[kind |-> kind, who |-> u]}

\* Variant: the client forgets the token, the storage keeps it.
SignOutClient ==
    /\ token' = NoUser
    /\ UNCHANGED stored

SignOut ==
    /\ stored' = NoUser
    /\ token' = NoUser

-----------------------------------------------------------------------------
(* The current workspace and the persisted stores *)

\* Variant: every store keeps its live state when its key is absent.
RehydratedKeeping(st, s, d) ==
    IF d[st][s] # Absent THEN UNION d[st][s] ELSE mem[st]

\* What a store holds after it has read its key of the workspace s: persist
\* merges what it finds into the live state and so keeps the live state when
\* the key is absent; the chat store starts from nothing.
Rehydrated(st, s, d) ==
    IF d[st][s] # Absent THEN UNION d[st][s]
    ELSE IF st \in Chat THEN {} ELSE mem[st]

\* setCurrentWorkspace(s) with the microtask it queues; d is the storage
SetCurrent(s, d) ==
    /\ cur' = s
    /\ mem' = IF s = cur THEN mem
                         ELSE [st \in Stores |-> Rehydrated(st, s, d)]

\* a page of the workspace s resolves its slug in the list
EnterWorkspace(s) ==
    /\ user # NoUser
    /\ s \in list \ {cur}
    /\ SetCurrent(s, disk)
    /\ UNCHANGED <<auth, calls, accepted, list, disk, sends>>

\* leaving or deleting the workspace from its settings
LeaveContext ==
    /\ user # NoUser
    /\ cur # NoSlug
    /\ SetCurrent(NoSlug, disk)
    /\ UNCHANGED <<auth, calls, accepted, list, disk, sends>>

\* Variant: the value is stored beside the one before.
WriteBeside(st) ==
    /\ user # NoUser
    /\ cur # NoSlug
    /\ mem' = [mem EXCEPT ![st] = @ \cup {cur}]
    /\ disk' = [disk EXCEPT ![st][cur] = @ \cup {mem'[st]}]
    /\ UNCHANGED <<auth, calls, accepted, cur, list, sends>>

\* the user types a draft, picks an agent, opens an issue
Write(st) ==
    /\ user # NoUser
    /\ cur # NoSlug
    /\ mem' = [mem EXCEPT ![st] = @ \cup {cur}]
    /\ disk' = [disk EXCEPT ![st][cur] = {mem'[st]}]
    /\ UNCHANGED <<auth, calls, accepted, cur, list, sends>>

\* the draft is sent or discarded; the chat store removes an empty key
Clear(st) ==
    /\ user # NoUser
    /\ cur # NoSlug
    /\ mem[st] # {}
    /\ mem' = [mem EXCEPT ![st] = {}]
    /\ disk' = [disk EXCEPT ![st][cur] = IF st \in Chat THEN Absent ELSE {{}}]
    /\ UNCHANGED <<auth, calls, accepted, cur, list, sends>>

\* the first message of a chat, or a form: its request is awaited
SendForm(st) ==
    /\ user # NoUser
    /\ cur # NoSlug
    /\ MayCall
    /\ sends' = sends \cup {[store |-> st, of |-> cur]}
    /\ UNCHANGED <<auth, calls, accepted, cur, list, mem, disk>>

\* Variant: the answer is written under the workspace it was sent in.
SentThere(m) ==
    /\ sends' = sends \ {m}
    /\ mem' = [mem EXCEPT ![m.store] = IF m.store \in Chat THEN @ \cup {m.of}
                                                          ELSE {}]
    /\ disk' = [disk EXCEPT ![m.store][m.of] = {mem'[m.store]}]
    /\ UNCHANGED <<auth, calls, accepted, cur, list>>

\* the await goes on: setActiveSession with the new session, or clearDraft,
\* under the workspace there is by now, which may be another one or none
Sent(m) ==
    /\ sends' = sends \ {m}
    /\ mem' = [mem EXCEPT ![m.store] =
                 IF m.store \in Chat
                   THEN @ \cup {IF m.of = cur THEN cur ELSE Late}
                   ELSE {}]
    /\ disk' = [disk EXCEPT ![m.store][cur] = {mem'[m.store]}]
    /\ UNCHANGED <<auth, calls, accepted, cur, list>>

\* an error leaves the store as it is; a 401 is one of them (the token it was
\* sent with is not kept here)
SendFails(m) ==
    /\ sends' = sends \ {m}
    /\ SignOut \/ UNCHANGED <<stored, token>>
    /\ UNCHANGED <<user, loading, calls, accepted, cur, list, mem, disk>>

Cleared(S) ==
    [st \in Stores |-> [k \in Keys |->
        IF st \in Cleaned /\ k \in S THEN Absent ELSE disk[st][k]]]

\* "workspace:deleted", or "member:removed" of the current workspace: the
\* keys go; the page of the workspace is left by a reload (Boot)
WorkspaceLost(s) ==
    /\ user # NoUser
    /\ s \in list \cup ({cur} \ {NoSlug})
    /\ disk' = Cleared({s})
    /\ UNCHANGED <<auth, calls, accepted, cur, list, mem, sends>>

ListArrives(new) ==
    /\ user # NoUser
    /\ token \in accepted
    /\ list' = new
    /\ UNCHANGED <<auth, calls, accepted, cur, mem, disk, sends>>

-----------------------------------------------------------------------------
(* Signing in and out *)

SignIn(u) == stored' = u /\ token' = u

\* The page is loaded with the token t in the storage: the modules start, and
\* AuthInitializer asks for the user and the workspaces.
Boot(t) ==
    /\ stored' = t
    /\ token' = t
    /\ user' = NoUser
    /\ loading' = (t # NoUser)
    /\ calls' = IF t = NoUser THEN {} ELSE {[kind |-> "init", who |-> t]}
    /\ cur' = NoSlug
    /\ list' = {}
    /\ mem' = [st \in Stores |-> UNION disk[st][NoSlug]]
    /\ sends' = {}
    /\ UNCHANGED <<accepted, disk>>

Reload == Boot(stored)

\* switchIdentity from the sidebar or the login page: the token of another
\* member, and a reload
SwitchIdentity(u) == ~loading /\ u # stored /\ Boot(u)

InitOk(u, new) ==
    /\ Answer("init", u)
    /\ u \in accepted
    /\ user' = u
    /\ loading' = FALSE
    /\ list' = new
    /\ UNCHANGED <<stored, token, accepted, cur, mem, disk, sends>>

\* Variant: the workspace stays.
InitFailInPlace(u) ==
    /\ Answer("init", u)
    /\ SignOut
    /\ user' = NoUser
    /\ loading' = FALSE
    /\ UNCHANGED <<accepted, data>>

\* Variant: the splash stays.
InitFailLoading(u) ==
    /\ Answer("init", u)
    /\ SignOut
    /\ user' = NoUser
    /\ SetCurrent(NoSlug, disk)
    /\ UNCHANGED <<loading, accepted, list, disk, sends>>

\* a 401, or any other error
InitFail(u) ==
    /\ Answer("init", u)
    /\ SignOut
    /\ user' = NoUser
    /\ loading' = FALSE
    /\ SetCurrent(NoSlug, disk)
    /\ UNCHANGED <<accepted, list, disk, sends>>

\* the login page asks for a code that only u has
AskByCode(u) ==
    /\ user = NoUser
    /\ ~loading
    /\ Send("code", u)
    /\ UNCHANGED <<auth, accepted, data>>

LoginByCode(u) ==
    /\ Answer("code", u)
    /\ SignIn(u)
    /\ user' = u
    /\ accepted' = accepted \cup {u}
    /\ UNCHANGED <<loading, data>>

\* multica://auth/callback: the token is stored before it is tried
DeepLink(u) ==
    /\ Send("deepLink", u)
    /\ SignIn(u)
    /\ UNCHANGED <<user, loading, accepted, data>>

DeepLinkOk(u) ==
    /\ Answer("deepLink", u)
    /\ u \in accepted
    /\ user' = u
    /\ loading' = FALSE
    /\ UNCHANGED <<stored, token, accepted, data>>

\* refreshMe after onboarding or an invitation; the user is who answered
RefreshMe ==
    /\ user # NoUser
    /\ token # NoUser
    /\ Send("me", token)
    /\ UNCHANGED <<auth, accepted, data>>

RefreshMeOk(u) ==
    /\ Answer("me", u)
    /\ u \in accepted
    /\ user' = u
    /\ UNCHANGED <<stored, token, loading, accepted, data>>

Request ==
    /\ token # NoUser
    /\ Send("other", token)
    /\ UNCHANGED <<auth, accepted, data>>

\* 401: handleUnauthorized forgets the token there is now, whichever the
\* request was sent with; nothing else of the session changes
Unauthorized(kind, u) ==
    /\ kind # "init"
    /\ Answer(kind, u)
    /\ \/ kind = "code"
       \/ u \notin accepted
    /\ SignOut
    /\ UNCHANGED <<user, loading, accepted, data>>

\* a success of another request, or an error that is not a 401
Ignored(kind, u) ==
    /\ kind # "init"
    /\ Answer(kind, u)
    /\ UNCHANGED <<auth, accepted, data>>

\* a token expires, or is revoked
Revoke(u) ==
    /\ u \in accepted
    /\ accepted' = accepted \ {u}
    /\ UNCHANGED <<auth, calls, data>>

\* useLogout: the keys of the workspaces in the cached list, the cache, then
\* the store's logout
Logout ==
    /\ user # NoUser
    /\ disk' = Cleared(list)
    /\ list' = {}
    /\ SignOut
    /\ SetCurrent(NoSlug, disk')
    /\ user' = NoUser
    /\ UNCHANGED <<loading, calls, accepted, sends>>

-----------------------------------------------------------------------------
Init ==
    /\ stored \in Users \cup {NoUser}
    /\ token = stored
    /\ user = NoUser
    /\ loading = (stored # NoUser)
    /\ calls = IF stored = NoUser THEN {}
                                  ELSE {[kind |-> "init", who |-> stored]}
    /\ accepted = Users
    /\ cur = NoSlug
    /\ list = {}
    /\ mem = [st \in Stores |-> {}]
    /\ disk = [st \in Stores |-> [k \in Keys |-> Absent]]
    /\ sends = {}

Answered(kind, u) ==
    \/ kind = "init" /\ (InitFail(u) \/ \E new \in SUBSET Slugs : InitOk(u, new))
    \/ kind = "code" /\ LoginByCode(u)
    \/ kind = "deepLink" /\ DeepLinkOk(u)
    \/ kind = "me" /\ RefreshMeOk(u)
    \/ Unauthorized(kind, u)
    \/ Ignored(kind, u)

Workspace ==
    \/ \E s \in Slugs : EnterWorkspace(s) \/ WorkspaceLost(s)
    \/ LeaveContext
    \/ \E st \in Stores : Write(st) \/ Clear(st) \/ SendForm(st)
    \/ \E m \in sends : Sent(m) \/ SendFails(m)
    \/ \E new \in SUBSET Slugs : ListArrives(new)

Next ==
    \/ \E kind \in Kinds, u \in Users : Answered(kind, u)
    \/ Workspace
    \/ Reload \/ RefreshMe \/ Request \/ Logout
    \/ \E u \in Users :
          SwitchIdentity(u) \/ AskByCode(u) \/ DeepLink(u) \/ Revoke(u)

Spec == Init /\ [][Next]_vars

\* every request of the session is answered, be it by a network error
FairSpec ==
    /\ Spec
    /\ \A kind \in Kinds, u \in Users : WF_vars(Answered(kind, u))

-----------------------------------------------------------------------------
(* Properties *)

Values == {Absent} \cup {{v} : v \in SUBSET Origins}

\* Every variable has its type.
TypeOK ==
    /\ stored \in Users \cup {NoUser}
    /\ token \in Users \cup {NoUser}
    /\ user \in Users \cup {NoUser}
    /\ loading \in BOOLEAN
    /\ calls \subseteq Calls
    /\ accepted \subseteq Users
    /\ cur \in Keys
    /\ list \subseteq Slugs
    /\ mem \in [Stores -> SUBSET Origins]
    /\ disk \in [Stores -> [Keys -> Values]]
    /\ sends \subseteq Sends

\* The token a reload would restore is the one the requests carry, through
\* every order of sign-ins, late answers and 401s: both copies are always
\* written together (store.ts:81-125, auth-initializer.tsx:109-124,
\* client.ts:221-228 with core-provider.tsx:38-40).
TokensAgree == token = stored

\* Nobody signed in, no workspace: a request of a signed-out client carries
\* no X-Workspace-Slug of the previous user (store.ts:123).
NoContextSignedOut == user = NoUser => cur = NoSlug

\* What the chat shows, and what it keeps under a workspace's key, was typed
\* in that workspace, whatever requests are answered after a switch or a
\* logout; only the session that such an answer brings may be of another
\* workspace (chat/store.ts:218-234).
ChatScoped ==
    \A st \in Chat :
        /\ mem[st] \subseteq {cur, Late}
        /\ \A k \in Keys : UNION disk[st][k] \subseteq {k, Late}

\* A logout leaves the storage without the drafts of the user's workspaces,
\* and the live chat without anything typed, and until somebody signs in
\* nothing brings them back, an answer that arrives late neither: it is
\* written under no workspace (use-logout.ts:31-34, chat-window.tsx:204-209).
StaysForgotten ==
    [][/\ user = NoUser /\ user' = NoUser =>
            \A st \in Stores, k \in Slugs :
                disk[st][k] = Absent => disk'[st][k] = Absent
       /\ Logout =>
            /\ \A st \in Chat : mem'[st] \subseteq {Late}
            /\ \A st \in Cleaned, k \in list : disk'[st][k] = Absent]_vars

\* The splash of a session being restored ends, unless the user keeps
\* reloading the page: no order of answers and sign-ins leaves isLoading set.
LoadingEnds == <>[][~Reload]_vars => (loading ~> ~loading)

\* Said at quick-create-store.ts:8-14 of every store of its kind: switching
\* workspaces shows the state of the workspace that is entered.
StoresScoped ==
    \A st \in Plain : cur # NoSlug => mem[st] \subseteq {cur}

\* What the keys by workspace are for (chat/store.ts:123-126 and 218-234): the
\* session the chat shows is one of the workspace.
ChatShowsOwn == \A st \in Chat : mem[st] \subseteq {cur}

\* Said at api/client.ts:223-227: after a 401 the client leaves the workspace
\* for the login page.
LeavesOn401 ==
    (user # NoUser /\ token = NoUser) ~> (user = NoUser \/ token # NoUser)
=============================================================================
