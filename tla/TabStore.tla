------------------------------ MODULE TabStore ------------------------------
(***************************************************************************)
(* The tabs of the desktop application: the store that groups them by      *)
(* workspace (stores/tab-store.ts), the navigation adapters that decide    *)
(* whether a path opens an overlay, enters another workspace or moves the  *)
(* tab's own router (platform/navigation.tsx), the hook that copies the    *)
(* location of the visible tab's router into the store                     *)
(* (use-tab-router-sync.ts), and the effects that validate the groups      *)
(* against the user's workspace list (App.tsx, workspace-route-layout.tsx).*)
(*                                                                         *)
(* A path is the pair of its leading workspace slug and its page; a path   *)
(* without a workspace (the root, a reserved first segment) has the slug   *)
(* NoSlug.  A router is its current location: back and forward only change *)
(* the location to another path of the same tab.                           *)
(***************************************************************************)
EXTENDS Naturals, Sequences, FiniteSets

CONSTANTS
    Slugs,      \* the slugs of the workspaces there are
    Pages,      \* the pages of a workspace
    Issues,     \* the page a workspace is entered at
    TabIds,     \* identifiers of tabs; as many tabs as this may be open
    NoSlug,     \* "null", no workspace
    NoTab       \* no tab

ASSUME TabAssumption ==
    /\ Issues \in Pages
    /\ NoSlug \notin Slugs
    /\ NoTab \notin TabIds

VARIABLES
    active,     \* activeWorkspaceSlug
    groups,     \* byWorkspace: slug -> [tabs, activeTabId]
    path,       \* the path the store keeps for a tab
    loc,        \* the location of the tab's router
    synced,     \* the tab whose router is subscribed (useTabRouterSync)
    overlay,    \* whether a window overlay is open
    user,       \* whether a user is logged in
    list,       \* the cached workspace list
    fetched,    \* isFetched of that list
    unchecked,  \* the list changed and the layout effect has yet to run
    due         \* the list changed and the overlay effect has yet to run

storeVars == <<active, groups, path, loc>>
vars == <<active, groups, path, loc, synced, overlay, user, list, fetched,
          unchecked, due>>

Root == <<NoSlug, Issues>>
ScopedPaths == Slugs \X Pages
Paths == ScopedPaths \cup {Root}
SlugOf(p) == p[1]
Clean(p) == SlugOf(p) # NoSlug
DefaultPath(s) == <<s, Issues>>

Group == [tabs : Seq(TabIds), activeTabId : TabIds]
InSeq(id, q) == \E i \in DOMAIN q : q[i] = id
TabsOf(s) == {id \in TabIds : InSeq(id, groups[s].tabs)}
Open == UNION {TabsOf(s) : s \in DOMAIN groups}
Free == TabIds \ (Open \cup {synced})

\* getActiveTab: the tab the user looks at
ActiveTab == IF active \in DOMAIN groups THEN groups[active].activeTabId
                                         ELSE NoTab

-----------------------------------------------------------------------------
(* Operators of the store *)

WithGroup(s, g) ==
    [x \in DOMAIN groups \cup {s} |-> IF x = s THEN g ELSE groups[x]]

\* Variant: the entry of a closed tab stays.
KeepAll == UNCHANGED <<path, loc>>

\* the tabs left keep their path and location; a tab just made is at p
KeepPaths == /\ path' = [x \in Open' |-> path[x]]
             /\ loc' = [x \in Open' |-> loc[x]]

SetPath(id, p) == /\ path' = [x \in Open' |-> IF x = id THEN p ELSE path[x]]
                  /\ loc' = [x \in Open' |-> IF x = id THEN p ELSE loc[x]]

FirstAt(s, p, i) ==
    /\ i \in DOMAIN groups[s].tabs
    /\ path[groups[s].tabs[i]] = p
    /\ \A j \in 1..(i - 1) : path[groups[s].tabs[j]] # p

RemoveAt(q, i) ==
    [j \in 1..(Len(q) - 1) |-> IF j < i THEN q[j] ELSE q[j + 1]]

\* Variant: the tab is put at its new place and not taken from its old one.
ArrayCopy(q, from, to) == [q EXCEPT ![to] = q[from]]

ArrayMove(q, from, to) ==
    [k \in 1..Len(q) |->
        CASE k = to -> q[from]
          [] k # to /\ from <= k /\ k < to -> q[k + 1]
          [] k # to /\ to < k /\ k <= from -> q[k - 1]
          [] OTHER -> q[k]]

\* a fresh tab at the end of the group of s, which it makes active
Append1(s, p) ==
    \E id \in Free :
        /\ groups' = WithGroup(s, [tabs |-> Append(groups[s].tabs, id),
                                   activeTabId |-> id])
        /\ SetPath(id, p)

Activate(s, i) ==
    /\ groups' = WithGroup(s, [groups[s] EXCEPT !.activeTabId =
                                 groups[s].tabs[i]])
    /\ UNCHANGED <<path, loc>>

\* the group of s does not exist: makeTab, and the group with that tab only
Seed(s, p) ==
    \E id \in Free :
        /\ groups' = WithGroup(s, [tabs |-> <<id>>, activeTabId |-> id])
        /\ SetPath(id, p)

\* an open-or-activate by path in the group of s
OpenOrActivate(s, p) ==
    \/ \E i \in DOMAIN groups[s].tabs : FirstAt(s, p, i) /\ Activate(s, i)
    \/ /\ \A id \in TabsOf(s) : path[id] # p
       /\ Append1(s, p)

\* switchWorkspace(s, p); "no openPath" is the root path, which is not clean
SwitchTo(s, p) ==
    /\ active' = s
    /\ \/ /\ s \notin DOMAIN groups
          /\ Seed(s, IF Clean(p) THEN p ELSE DefaultPath(s))
       \/ /\ s \in DOMAIN groups
          /\ Clean(p)
          /\ OpenOrActivate(s, p)
       \/ /\ s \in DOMAIN groups
          /\ ~Clean(p)
          /\ UNCHANGED <<groups, path, loc>>

GroupsIn(S) == [s \in DOMAIN groups \cap S |-> groups[s]]

\* validateWorkspaceSlugs(valid), then "next" is the active workspace
Validated(valid, next) ==
    /\ groups' = GroupsIn(valid)
    /\ IF active = NoSlug \/ active \in valid
         THEN next = active
         ELSE IF DOMAIN groups \cap valid = {}
                THEN next = NoSlug
                ELSE next \in DOMAIN groups \cap valid

session == <<user, list, fetched, unchecked, due>>

-----------------------------------------------------------------------------
(* The user and the pages *)

\* "+" in the tab bar: addTab at the default path, then setActiveTab
NewTab ==
    /\ active \in DOMAIN groups
    /\ Append1(active, DefaultPath(active))
    /\ UNCHANGED <<active, synced, overlay, session>>

\* "multica:navigate" from an OS notification of workspace s:
\* openTab in the active workspace, then setActiveTab
OpenNotification(s) ==
    /\ active \in DOMAIN groups
    /\ \E page \in Pages : OpenOrActivate(active, <<s, page>>)
    /\ UNCHANGED <<active, synced, overlay, session>>

CloseTab(id) ==
    \E s \in DOMAIN groups, i \in 1..Cardinality(TabIds) :
        LET q == groups[s].tabs
            rest == RemoveAt(q, i)
        IN /\ i \in DOMAIN q
           /\ q[i] = id
           /\ IF Len(q) = 1
                THEN Seed(s, DefaultPath(s))
                ELSE /\ groups' = WithGroup(s,
                          [tabs |-> rest,
                           activeTabId |->
                             IF groups[s].activeTabId = id
                               THEN rest[IF i < Len(rest) THEN i ELSE Len(rest)]
                               ELSE groups[s].activeTabId])
                     /\ KeepPaths
           /\ UNCHANGED <<active, synced, overlay, session>>

SetActiveTab(id) ==
    \E s \in DOMAIN groups :
        /\ id \in TabsOf(s)
        /\ ~(s = active /\ groups[s].activeTabId = id)
        /\ active' = s
        /\ groups' = WithGroup(s, [groups[s] EXCEPT !.activeTabId = id])
        /\ UNCHANGED <<path, loc, synced, overlay, session>>

MoveTab(from, to) ==
    /\ active \in DOMAIN groups
    /\ {from, to} \subseteq DOMAIN groups[active].tabs
    /\ from # to
    /\ groups' = WithGroup(active, [groups[active] EXCEPT !.tabs =
                                      ArrayMove(@, from, to)])
    /\ UNCHANGED <<active, path, loc, synced, overlay, session>>

\* the router of tab id moves to p; a subscribed router copies p to the store
Navigate(id, p) ==
    /\ loc' = [loc EXCEPT ![id] = p]
    /\ path' = IF id = synced THEN [path EXCEPT ![id] = p] ELSE path

\* push or replace by a page of the tab id, which may run after an await,
\* when the tab is no longer visible: a transition path opens the overlay and
\* parks the router at the root, a path of another workspace than the active
\* one enters that workspace, any other path moves the tab's own router
PushOverlay(id) ==
    /\ overlay' = TRUE
    /\ Navigate(id, Root)
    /\ UNCHANGED <<active, groups, synced, session>>

PushElsewhere(p) ==
    /\ SlugOf(p) \notin {NoSlug, active}
    /\ overlay' = FALSE
    /\ SwitchTo(SlugOf(p), p)
    /\ UNCHANGED <<synced, session>>

PushHere(id, p) ==
    /\ SlugOf(p) \in {NoSlug, active}
    /\ overlay' = FALSE
    /\ Navigate(id, p)
    /\ UNCHANGED <<active, groups, synced, session>>

\* "open in new tab" of a path of the active workspace; a path of another
\* workspace enters that workspace and leaves an overlay open
OpenInNewTab(p) ==
    /\ IF SlugOf(p) # active
         THEN SwitchTo(SlugOf(p), p)
         ELSE /\ active \in DOMAIN groups
              /\ OpenOrActivate(active, p)
              /\ UNCHANGED active
    /\ UNCHANGED <<synced, overlay, session>>

\* Variant: the location the router has by now is not taken.
CommitUnread ==
    /\ synced # ActiveTab
    /\ synced' = ActiveTab
    /\ UNCHANGED <<active, groups, path, loc, overlay, session>>

\* React commits: the subscription follows the visible tab, and the store
\* takes the location its router has by now
Commit ==
    /\ synced # ActiveTab
    /\ synced' = ActiveTab
    /\ path' = IF ActiveTab = NoTab THEN path
               ELSE [path EXCEPT ![ActiveTab] = loc[ActiveTab]]
    /\ UNCHANGED <<active, groups, loc, overlay, session>>

-----------------------------------------------------------------------------
(* The session and its effects *)

Login ==
    /\ ~user
    /\ user' = TRUE
    /\ UNCHANGED <<storeVars, synced, overlay, list, fetched, unchecked, due>>

\* useLogout: the query cache is cleared, onLogout resets the stores
Logout ==
    /\ user
    /\ user' = FALSE
    /\ list' = {} /\ fetched' = FALSE /\ unchecked' = FALSE /\ due' = FALSE
    /\ active' = NoSlug
    /\ groups' = [s \in {} |-> groups[s]]
    /\ KeepPaths
    /\ overlay' = FALSE
    /\ UNCHANGED synced

\* the list arrives or changes: login, creation, deletion, eviction
ListArrives(new) ==
    /\ user
    /\ ~fetched \/ new # list
    /\ list' = new /\ fetched' = TRUE /\ unchecked' = TRUE /\ due' = TRUE
    /\ UNCHANGED <<storeVars, synced, overlay, user>>

\* Variant: the effect only drops groups.
ValidateOnly ==
    /\ unchecked /\ fetched
    /\ unchecked' = FALSE
    /\ \E next \in Slugs \cup {NoSlug} : Validated(list, next) /\ active' = next
    /\ KeepPaths
    /\ UNCHANGED <<synced, overlay, user, list, fetched, due>>

\* App.tsx, useLayoutEffect on the list
ValidateEffect ==
    /\ unchecked /\ fetched
    /\ unchecked' = FALSE
    /\ \E next \in Slugs \cup {NoSlug} :
         /\ Validated(list, next)
         /\ next # NoSlug \/ list = {}
         /\ active' = next
    /\ KeepPaths
    /\ UNCHANGED <<synced, overlay, user, list, fetched, due>>

\* the same effect when no group is left and the list is not empty:
\* validateWorkspaceSlugs, then switchWorkspace(workspaces[0].slug)
ValidateAndEnter ==
    /\ unchecked /\ fetched
    /\ unchecked' = FALSE
    /\ list # {}
    /\ active \notin list
    /\ active = NoSlug \/ DOMAIN groups \cap list = {}
    /\ \E s \in list :
         /\ active' = s
         /\ IF s \in DOMAIN groups
              THEN groups' = GroupsIn(list) /\ KeepPaths
              ELSE \E id \in TabIds \ ({synced} \cup UNION {TabsOf(x) :
                                   x \in DOMAIN groups \cap list}) :
                     /\ groups' = [x \in (DOMAIN groups \cap list) \cup {s} |->
                                     IF x = s THEN [tabs |-> <<id>>,
                                                    activeTabId |-> id]
                                              ELSE groups[x]]
                     /\ SetPath(id, DefaultPath(s))
    /\ UNCHANGED <<synced, overlay, user, list, fetched, due>>

\* Variant: the default of a list that was not fetched is believed.
AutoHealEager ==
    /\ user
    /\ synced # NoTab /\ synced = ActiveTab
    /\ SlugOf(loc[synced]) \notin list \cup {NoSlug}
    /\ \E next \in Slugs \cup {NoSlug} : Validated(list, next) /\ active' = next
    /\ KeepPaths
    /\ UNCHANGED <<synced, overlay, session>>

\* workspace-route-layout.tsx: the visible tab names a workspace the list
\* does not have.  It does not act for a slug its layout has resolved before,
\* which this model leaves open: the action may or may not be taken.
AutoHeal ==
    /\ user /\ fetched
    /\ synced # NoTab /\ synced = ActiveTab
    /\ SlugOf(loc[synced]) \notin list \cup {NoSlug}
    /\ \E next \in Slugs \cup {NoSlug} : Validated(list, next) /\ active' = next
    /\ KeepPaths
    /\ UNCHANGED <<synced, overlay, session>>

\* App.tsx: a user without a workspace is shown an overlay.  The effect runs
\* for a change of the list, not when an overlay closes, and as every effect
\* after the layout effect of the same commit.
OverlayEffect ==
    /\ due /\ user /\ fetched /\ ~unchecked
    /\ due' = FALSE
    /\ overlay' = (overlay \/ list = {})
    /\ UNCHANGED <<storeVars, synced, user, list, fetched, unchecked>>

\* an invitation arrives by a deep link, logged in or not
OpenInvite ==
    /\ ~overlay
    /\ overlay' = TRUE
    /\ UNCHANGED <<storeVars, synced, session>>

\* the window is reloaded: "merge" of the persisted groups drops the tabs
\* whose path is not of their group and the groups left without a tab
Kept(s) == {i \in DOMAIN groups[s].tabs : SlugOf(path[groups[s].tabs[i]]) = s}

\* the elements of q at the indices K, in their order
Filter(q, K) ==
    [k \in 1..Cardinality(K) |->
        q[CHOOSE i \in K : Cardinality({j \in K : j <= i}) = k]]

\* Variant: the first tab becomes the active one.
MergedFirst(s) ==
    LET q == Filter(groups[s].tabs, Kept(s))
    IN [tabs |-> q, activeTabId |-> q[1]]

Merged(s) ==
    LET q == Filter(groups[s].tabs, Kept(s))
    IN [tabs |-> q,
        activeTabId |-> IF InSeq(groups[s].activeTabId, q)
                          THEN groups[s].activeTabId ELSE q[1]]

Reload ==
    /\ groups' = [s \in {s \in DOMAIN groups : Kept(s) # {}} |-> Merged(s)]
    /\ IF active \in DOMAIN groups' THEN active' = active
       ELSE IF DOMAIN groups' = {} THEN active' = NoSlug
       ELSE active' \in DOMAIN groups'
    /\ path' = [x \in Open' |-> path[x]]
    /\ loc' = path'
    /\ synced' = NoTab /\ overlay' = FALSE
    /\ list' = {} /\ fetched' = FALSE /\ unchecked' = FALSE /\ due' = FALSE
    /\ UNCHANGED user

-----------------------------------------------------------------------------
Init ==
    /\ active = NoSlug
    /\ groups = [s \in {} |-> [tabs |-> <<>>, activeTabId |-> NoTab]]
    /\ path = [id \in {} |-> Root]
    /\ loc = [id \in {} |-> Root]
    /\ synced = NoTab
    /\ overlay = FALSE
    /\ user = FALSE
    /\ list = {} /\ fetched = FALSE /\ unchecked = FALSE /\ due = FALSE

UserStep ==
    \/ NewTab
    \/ \E s \in Slugs : OpenNotification(s)
    \/ \E id \in TabIds : CloseTab(id) \/ SetActiveTab(id)
    \/ \E from, to \in 1..Cardinality(TabIds) : MoveTab(from, to)

PageStep ==
    \/ \E id \in Open : PushOverlay(id) \/ \E p \in Paths : PushHere(id, p)
    \/ \E p \in ScopedPaths : PushElsewhere(p) \/ OpenInNewTab(p)

SessionStep ==
    \/ Login \/ Logout \/ Reload \/ OpenInvite
    \/ \E new \in SUBSET Slugs : ListArrives(new)

EffectStep ==
    \/ Commit \/ ValidateEffect \/ ValidateAndEnter \/ AutoHeal
    \/ OverlayEffect

Next == UserStep \/ PageStep \/ SessionStep \/ EffectStep

Spec == Init /\ [][Next]_vars

\* React runs the effects of what it has rendered
FairSpec ==
    /\ Spec
    /\ WF_vars(Commit)
    /\ WF_vars(ValidateEffect \/ ValidateAndEnter)
    /\ WF_vars(OverlayEffect)

-----------------------------------------------------------------------------
(* Properties *)

\* Every variable has its type.
TypeOK ==
    /\ active \in Slugs \cup {NoSlug}
    /\ DOMAIN groups \subseteq Slugs
    /\ \A s \in DOMAIN groups : groups[s] \in Group
    /\ path \in [Open -> Paths]
    /\ loc \in [Open -> Paths]
    /\ synced \in TabIds \cup {NoTab}
    /\ list \subseteq Slugs
    /\ {overlay, user, fetched, unchecked, due} \subseteq BOOLEAN

\* The active tab of a group is one of its tabs, so every group has a tab
\* (tab-store.ts:27 and :67).
ActiveInGroup ==
    \A s \in DOMAIN groups : InSeq(groups[s].activeTabId, groups[s].tabs)

\* A tab is in one place of one group: closing, moving or patching a tab by
\* its id cannot reach a tab of another workspace (findTabLocation).
OnePlace ==
    \A s, t \in DOMAIN groups :
        \A i \in DOMAIN groups[s].tabs, j \in DOMAIN groups[t].tabs :
            groups[s].tabs[i] = groups[t].tabs[j] => s = t /\ i = j

\* The active workspace has a group, whose active tab is shown; it is null
\* only while there is no group at all.
ActiveHasGroup ==
    active \in DOMAIN groups \/ (active = NoSlug /\ DOMAIN groups = {})

TabInv == ActiveInGroup /\ OnePlace /\ ActiveHasGroup

\* While the user is logged in and the window is not reloaded, a group goes
\* away only when a fetched list lacks its workspace: an empty list that is
\* only the default of a query that has not answered drops nothing
\* (App.tsx:183-187).
GroupsKept ==
    [][\A s \in DOMAIN groups :
         \/ s \in DOMAIN groups'
         \/ ~user'
         \/ fetched /\ s \notin list
         \/ Reload /\ Kept(s) = {}]_vars

\* The path kept for a tab never becomes anything but where its own router
\* is, and that of the tab on the screen always is: a push that a page makes
\* after its tab was hidden reaches no other tab, and is not lost when the
\* tab is shown again (use-tab-router-sync.ts:19-45, navigation.tsx:226-245).
PathsFollow ==
    [][/\ \A id \in Open \cap Open' : path'[id] \in {path[id], loc'[id]}
       /\ synced' \in Open' => path'[synced'] = loc'[synced']]_vars

\* What a reload restores is only tabs of their own workspace, and with no
\* tab out of place it restores every tab and the active workspace: nothing
\* the user had open is lost (tab-store.ts:509-552).
Scoped == \A s \in DOMAIN groups : \A id \in TabsOf(s) : SlugOf(path[id]) = s
ReloadRestores ==
    [][Reload => Scoped' /\ (Scoped => UNCHANGED <<active, groups>>)]_vars

\* Claimed at tab-store.ts:45-47: tabs never leak into another workspace.
NoLeak ==
    \A s \in DOMAIN groups : \A id \in TabsOf(s) : SlugOf(path[id]) \in {s, NoSlug}

\* A user whose list has arrived ends at one of its workspaces, or at the
\* overlay when there is none, unless the list changes or the user leaves.
Landed == active \in list \/ (list = {} /\ overlay)
Lands == \A L \in SUBSET Slugs :
            (unchecked /\ list = L) ~> (Landed \/ ~fetched \/ list # L)
=============================================================================
