------------------------ MODULE ClientSession_proofs ------------------------
(***************************************************************************)
(* Proofs about ClientSession, for every set of users, workspaces and      *)
(* stores and every number of requests in flight: the types, the agreement *)
(* of the two copies of the token, and what the stores may hold for whom.  *)
(***************************************************************************)
EXTENDS ClientSession, TLAPS

(* The types, apart from the stores.                                       *)
TypeAuth ==
    /\ stored \in Users \cup {NoUser}
    /\ token \in Users \cup {NoUser}
    /\ user \in Users \cup {NoUser}
    /\ loading \in BOOLEAN
    /\ calls \subseteq Calls
    /\ accepted \subseteq Users
    /\ cur \in Keys
    /\ list \subseteq Slugs
    /\ sends \subseteq Sends

MemOK == mem \in [Stores -> SUBSET Origins]
DiskOK == disk \in [Stores -> [Keys -> Values]]

-----------------------------------------------------------------------------
(* What a store reads back is made of workspaces.                          *)
LEMMA ReadBack ==
    ASSUME NEW v \in Values
    PROVE  UNION v \in SUBSET Origins
  BY DEF Values, Absent

(* The stores after a change of the workspace have their type.             *)
LEMMA SetCurrentType ==
    ASSUME MemOK, cur \in Keys, NEW s \in Keys,
           NEW d \in [Stores -> [Keys -> Values]], SetCurrent(s, d)
    PROVE  MemOK' /\ cur' \in Keys
<1>1. cur' \in Keys
  BY DEF SetCurrent
<1>2. \A st \in Stores : Rehydrated(st, s, d) \in SUBSET Origins
  <2>1. TAKE st \in Stores
  <2>2. d[st][s] \in Values
    OBVIOUS
  <2>3. UNION d[st][s] \in SUBSET Origins
    BY <2>2, ReadBack
  <2> QED
    BY <2>3 DEF Rehydrated, MemOK
<1>3. MemOK'
  <2>1. CASE s = cur
    BY <2>1 DEF SetCurrent, MemOK
  <2>2. CASE s # cur
    <3>1. mem' = [st \in Stores |-> Rehydrated(st, s, d)]
      BY <2>2 DEF SetCurrent
    <3> QED
      BY <3>1, <1>2 DEF MemOK
  <2> QED
    BY <2>1, <2>2
<1> QED
  BY <1>1, <1>3

(* The storage without some keys has its type.                             *)
LEMMA ClearedType ==
    ASSUME DiskOK, NEW S
    PROVE  Cleared(S) \in [Stores -> [Keys -> Values]]
<1>1. \A st \in Stores, k \in Keys : disk[st][k] \in Values
  BY DEF DiskOK
<1>2. Absent \in Values
  BY DEF Values
<1> QED
  BY <1>1, <1>2 DEF Cleared

(* A start of the page keeps the types.                                    *)
LEMMA BootType ==
    ASSUME TypeAuth, MemOK, DiskOK, NEW t \in Users \cup {NoUser}, Boot(t)
    PROVE  TypeAuth' /\ MemOK' /\ DiskOK'
<1>1. TypeAuth'
  BY DEF Boot, TypeAuth, Keys, Calls, Kinds
<1>2. \A st \in Stores : UNION disk[st][NoSlug] \in SUBSET Origins
  <2>1. TAKE st \in Stores
  <2>2. disk[st][NoSlug] \in Values
    BY DEF DiskOK, Keys
  <2> QED
    BY <2>2, ReadBack
<1>3. MemOK'
  BY <1>2 DEF Boot, MemOK
<1>4. DiskOK'
  BY DEF Boot, DiskOK
<1> QED
  BY <1>1, <1>3, <1>4

(* An answer to a request keeps the types.                                 *)
LEMMA AnsweredType ==
    ASSUME TypeAuth, MemOK, DiskOK, NEW kind \in Kinds, NEW u \in Users,
           Answered(kind, u)
    PROVE  TypeAuth' /\ MemOK' /\ DiskOK'
<1>1. CASE InitFail(u)
  <2>1. MemOK' /\ cur' \in Keys
    BY <1>1, SetCurrentType DEF InitFail, TypeAuth, Keys, DiskOK
  <2>2. TypeAuth' /\ DiskOK'
    BY <1>1, <2>1 DEF InitFail, SignOut, Answer, TypeAuth, DiskOK
  <2> QED
    BY <2>1, <2>2
<1>2. CASE \E new \in SUBSET Slugs : InitOk(u, new)
  BY <1>2 DEF InitOk, Answer, TypeAuth, MemOK, DiskOK
<1>3. CASE LoginByCode(u)
  BY <1>3 DEF LoginByCode, SignIn, Answer, data, TypeAuth, MemOK, DiskOK
<1>4. CASE DeepLinkOk(u)
  BY <1>4 DEF DeepLinkOk, Answer, data, TypeAuth, MemOK, DiskOK
<1>5. CASE RefreshMeOk(u)
  BY <1>5 DEF RefreshMeOk, Answer, data, TypeAuth, MemOK, DiskOK
<1>6. CASE Unauthorized(kind, u)
  BY <1>6 DEF Unauthorized, SignOut, Answer, data, TypeAuth, MemOK, DiskOK
<1>7. CASE Ignored(kind, u)
  BY <1>7 DEF Ignored, Answer, auth, data, TypeAuth, MemOK, DiskOK
<1> QED
  BY <1>1, <1>2, <1>3, <1>4, <1>5, <1>6, <1>7 DEF Answered

(* What happens in a workspace keeps the types.                            *)
LEMMA WorkspaceType ==
    ASSUME TypeAuth, MemOK, DiskOK, Workspace
    PROVE  TypeAuth' /\ MemOK' /\ DiskOK'
<1>1. ASSUME NEW s \in Slugs, EnterWorkspace(s)
      PROVE  TypeAuth' /\ MemOK' /\ DiskOK'
  <2>1. MemOK' /\ cur' \in Keys
    BY <1>1, SetCurrentType DEF EnterWorkspace, TypeAuth, Keys, DiskOK
  <2> QED
    BY <1>1, <2>1 DEF EnterWorkspace, auth, TypeAuth, DiskOK
<1>2. ASSUME NEW s \in Slugs, WorkspaceLost(s)
      PROVE  TypeAuth' /\ MemOK' /\ DiskOK'
  <2>1. DiskOK'
    BY <1>2, ClearedType DEF WorkspaceLost, DiskOK
  <2> QED
    BY <1>2, <2>1 DEF WorkspaceLost, auth, TypeAuth, MemOK
<1>3. CASE LeaveContext
  <2>1. MemOK' /\ cur' \in Keys
    BY <1>3, SetCurrentType DEF LeaveContext, TypeAuth, Keys, DiskOK
  <2> QED
    BY <1>3, <2>1 DEF LeaveContext, auth, TypeAuth, DiskOK
<1>4. ASSUME NEW st \in Stores, Write(st)
      PROVE  TypeAuth' /\ MemOK' /\ DiskOK'
  <2>1. cur \in Origins
    BY <1>4 DEF Write, TypeAuth, Keys, Origins
  <2>2. MemOK'
    BY <1>4, <2>1 DEF Write, MemOK
  <2>3. {mem'[st]} \in Values
    BY <2>2 DEF MemOK, Values
  <2>4. DiskOK'
    BY <1>4, <2>3 DEF Write, DiskOK, TypeAuth
  <2> QED
    BY <1>4, <2>2, <2>4 DEF Write, auth, TypeAuth
<1>5. ASSUME NEW st \in Stores, Clear(st)
      PROVE  TypeAuth' /\ MemOK' /\ DiskOK'
  <2>1. MemOK'
    BY <1>5 DEF Clear, MemOK
  <2>2. Absent \in Values /\ {{}} \in Values
    BY DEF Values
  <2>3. DiskOK'
    BY <1>5, <2>2 DEF Clear, DiskOK, TypeAuth
  <2> QED
    BY <1>5, <2>1, <2>3 DEF Clear, auth, TypeAuth
<1>6. ASSUME NEW new \in SUBSET Slugs, ListArrives(new)
      PROVE  TypeAuth' /\ MemOK' /\ DiskOK'
  BY <1>6 DEF ListArrives, auth, TypeAuth, MemOK, DiskOK
<1>7. ASSUME NEW st \in Stores, SendForm(st)
      PROVE  TypeAuth' /\ MemOK' /\ DiskOK'
  <2>1. [store |-> st, of |-> cur] \in Sends
    BY <1>7 DEF SendForm, TypeAuth, Keys, Sends
  <2>2. sends' \subseteq Sends
    BY <1>7, <2>1 DEF SendForm, TypeAuth
  <2>3. UNCHANGED <<stored, token, user, loading, calls, accepted, cur, list, mem, disk>>
    BY <1>7 DEF SendForm, auth
  <2> QED
    BY <2>2, <2>3 DEF TypeAuth, MemOK, DiskOK
<1>8. ASSUME NEW m \in sends, Sent(m)
      PROVE  TypeAuth' /\ MemOK' /\ DiskOK'
  <2>1. m.store \in Stores /\ m.of \in Slugs
    BY DEF TypeAuth, Sends
  <2>2. m.of = cur => cur \in Origins
    BY <2>1 DEF Origins
  <2>3. MemOK'
    <3>1. (IF m.of = cur THEN cur ELSE Late) \in Origins
      BY <2>1, <2>2 DEF Origins
    <3>2. mem[m.store] \in SUBSET Origins
      BY <2>1 DEF MemOK
    <3> DEFINE new == IF m.store \in Chat
                        THEN mem[m.store] \cup {IF m.of = cur THEN cur ELSE Late}
                        ELSE {}
    <3>3. new \in SUBSET Origins
      BY <3>1, <3>2
    <3>4. mem' = [mem EXCEPT ![m.store] = new]
      BY <1>8 DEF Sent
    <3> HIDE DEF new
    <3> QED
      BY <2>1, <3>3, <3>4 DEF MemOK
  <2>4. {mem'[m.store]} \in Values
    BY <2>1, <2>3 DEF MemOK, Values
  <2>5. DiskOK'
    BY <1>8, <2>1, <2>4 DEF Sent, DiskOK, TypeAuth
  <2> QED
    BY <1>8, <2>3, <2>5 DEF Sent, auth, TypeAuth
<1>9. ASSUME NEW m \in sends, SendFails(m)
      PROVE  TypeAuth' /\ MemOK' /\ DiskOK'
  BY <1>9 DEF SendFails, SignOut, TypeAuth, MemOK, DiskOK
<1> QED
  BY <1>1, <1>2, <1>3, <1>4, <1>5, <1>6, <1>7, <1>8, <1>9 DEF Workspace

(* A logout keeps the types.                                               *)
LEMMA LogoutType ==
    ASSUME TypeAuth, MemOK, DiskOK, Logout
    PROVE  TypeAuth' /\ MemOK' /\ DiskOK'
<1>1. disk' \in [Stores -> [Keys -> Values]]
  BY ClearedType DEF Logout
<1>2. MemOK' /\ cur' \in Keys
  BY <1>1, SetCurrentType DEF Logout, TypeAuth, Keys
<1>3. TypeAuth'
  BY <1>2 DEF Logout, SignOut, TypeAuth
<1> QED
  BY <1>1, <1>2, <1>3 DEF DiskOK

LEMMA TypeSplit == TypeOK <=> TypeAuth /\ MemOK /\ DiskOK
  BY DEF TypeOK, TypeAuth, MemOK, DiskOK

(* Every step of the session keeps the types.                              *)
LEMMA TypeStep ==
    ASSUME TypeOK, [Next]_vars
    PROVE  TypeOK'
<1> USE TypeSplit
<1>0. TypeAuth /\ MemOK /\ DiskOK
  OBVIOUS
<1> SUFFICES TypeAuth' /\ MemOK' /\ DiskOK'
  BY DEF TypeOK, TypeAuth, MemOK, DiskOK
<1>1. ASSUME NEW kind \in Kinds, NEW u \in Users, Answered(kind, u)
      PROVE  TypeAuth' /\ MemOK' /\ DiskOK'
  BY <1>0, <1>1, AnsweredType
<1>2. CASE Workspace
  BY <1>0, <1>2, WorkspaceType
<1>3. CASE Reload
  BY <1>0, <1>3, BootType DEF Reload, TypeAuth
<1>4. CASE RefreshMe
  BY <1>0, <1>4 DEF RefreshMe, Send, auth, data, TypeAuth, MemOK, DiskOK,
                    Calls, Kinds
<1>5. CASE Request
  BY <1>0, <1>5 DEF Request, Send, auth, data, TypeAuth, MemOK, DiskOK,
                    Calls, Kinds
<1>6. CASE Logout
  BY <1>0, <1>6, LogoutType
<1>7. ASSUME NEW u \in Users, SwitchIdentity(u)
      PROVE  TypeAuth' /\ MemOK' /\ DiskOK'
  BY <1>0, <1>7, BootType DEF SwitchIdentity
<1>8. ASSUME NEW u \in Users, AskByCode(u)
      PROVE  TypeAuth' /\ MemOK' /\ DiskOK'
  BY <1>0, <1>8 DEF AskByCode, Send, auth, data, TypeAuth, MemOK, DiskOK,
                    Calls, Kinds
<1>9. ASSUME NEW u \in Users, DeepLink(u)
      PROVE  TypeAuth' /\ MemOK' /\ DiskOK'
  BY <1>0, <1>9 DEF DeepLink, Send, SignIn, data, TypeAuth, MemOK, DiskOK,
                    Calls, Kinds
<1>10. ASSUME NEW u \in Users, Revoke(u)
       PROVE  TypeAuth' /\ MemOK' /\ DiskOK'
  BY <1>0, <1>10 DEF Revoke, auth, data, TypeAuth, MemOK, DiskOK
<1>11. CASE UNCHANGED vars
  BY <1>0, <1>11 DEF vars, auth, data, TypeAuth, MemOK, DiskOK
<1> QED
  BY <1>1, <1>2, <1>3, <1>4, <1>5, <1>6, <1>7, <1>8, <1>9, <1>10, <1>11
  DEF Next

LEMMA TypeInit == Init => TypeOK
  BY SessionAssumption DEF Init, TypeOK, Calls, Kinds, Keys, Values, Absent

(* Every variable of the session has its type, for any number of users,    *)
(* workspaces and requests in flight.                                      *)
THEOREM SessionTypes == Spec => []TypeOK
  BY TypeInit, TypeStep, PTL DEF Spec

-----------------------------------------------------------------------------
(* The two copies of the token, and the workspace of nobody. Each write of  *)
(* a token writes both copies; each step that ends the user's session drops *)
(* the workspace, and a workspace is entered by a user only.                *)
AuthInv == TokensAgree /\ NoContextSignedOut

LEMMA SomeUser == \A u \in Users : u # NoUser
  BY SessionAssumption

LEMMA AuthAnswered ==
    ASSUME TypeOK, AuthInv, NEW kind \in Kinds, NEW u \in Users,
           Answered(kind, u)
    PROVE  AuthInv'
<1> USE DEF AuthInv, TokensAgree, NoContextSignedOut
<1>1. CASE InitFail(u)
  BY <1>1 DEF InitFail, SignOut, SetCurrent
<1>2. CASE \E new \in SUBSET Slugs : InitOk(u, new)
  BY <1>2, SomeUser DEF InitOk
<1>3. CASE LoginByCode(u)
  BY <1>3, SomeUser DEF LoginByCode, SignIn
<1>4. CASE DeepLinkOk(u)
  BY <1>4, SomeUser DEF DeepLinkOk
<1>5. CASE RefreshMeOk(u)
  BY <1>5, SomeUser DEF RefreshMeOk
<1>6. CASE Unauthorized(kind, u)
  BY <1>6 DEF Unauthorized, SignOut, data
<1>7. CASE Ignored(kind, u)
  BY <1>7 DEF Ignored, auth, data
<1> QED
  BY <1>1, <1>2, <1>3, <1>4, <1>5, <1>6, <1>7 DEF Answered

LEMMA AuthStep ==
    ASSUME TypeOK, AuthInv, [Next]_vars
    PROVE  AuthInv'
<1> USE DEF AuthInv, TokensAgree, NoContextSignedOut
<1>1. ASSUME NEW kind \in Kinds, NEW u \in Users, Answered(kind, u)
      PROVE  AuthInv'
  BY <1>1, AuthAnswered
<1>2. CASE Workspace
  BY <1>2 DEF Workspace, EnterWorkspace, WorkspaceLost, LeaveContext, Write,
              Clear, ListArrives, SetCurrent, SendForm, Sent, SendFails,
              SignOut, auth
<1>3. CASE Reload
  BY <1>3 DEF Reload, Boot
<1>4. CASE RefreshMe \/ Request
  BY <1>4 DEF RefreshMe, Request, auth, data
<1>5. CASE Logout
  BY <1>5 DEF Logout, SignOut, SetCurrent
<1>6. ASSUME NEW u \in Users, SwitchIdentity(u)
      PROVE  AuthInv'
  BY <1>6 DEF SwitchIdentity, Boot
<1>7. ASSUME NEW u \in Users, AskByCode(u) \/ Revoke(u)
      PROVE  AuthInv'
  BY <1>7 DEF AskByCode, Revoke, auth, data
<1>8. ASSUME NEW u \in Users, DeepLink(u)
      PROVE  AuthInv'
  BY <1>8 DEF DeepLink, SignIn, data
<1>9. CASE UNCHANGED vars
  BY <1>9 DEF vars, auth, data
<1> QED
  BY <1>1, <1>2, <1>3, <1>4, <1>5, <1>6, <1>7, <1>8, <1>9 DEF Next

(* A reload restores the session whose token the requests carry, and who is *)
(* signed out sends no workspace, in every order of sign-ins and answers.   *)
THEOREM TokensAgreeAlways == Spec => [](TokensAgree /\ NoContextSignedOut)
<1>1. Init => AuthInv
  BY DEF Init, AuthInv, TokensAgree, NoContextSignedOut
<1>2. TypeOK /\ AuthInv /\ [Next]_vars => AuthInv'
  BY AuthStep
<1>3. AuthInv <=> TokensAgree /\ NoContextSignedOut
  BY DEF AuthInv
<1> QED
  BY <1>1, <1>2, <1>3, SessionTypes, PTL DEF Spec

(* Who is signed out sends no workspace of the user before                  *)
(* (store.ts:123, client.ts:221-228).                                       *)
THEOREM SignedOutHasNoWorkspace == Spec => []NoContextSignedOut
  BY TokensAgreeAlways, PTL

-----------------------------------------------------------------------------
(* The chat store: what it shows and keeps belongs to its workspace.        *)

(* The two halves of ChatScoped.                                            *)
LiveScoped == \A st \in Chat : mem[st] \subseteq {cur, Late}
KeptScoped ==
    \A st \in Chat, k \in Keys : UNION disk[st][k] \subseteq {k, Late}

LEMMA ChatSplit == ChatScoped <=> LiveScoped /\ KeptScoped
  BY DEF ChatScoped, LiveScoped, KeptScoped

LEMMA ChatIsStore == Chat \subseteq Stores
  BY DEF Stores

(* A change of the workspace: the chat store reads the new key or is empty. *)
LEMMA SetCurrentScoped ==
    ASSUME LiveScoped, NEW s \in Keys, NEW d,
           \A st \in Chat : UNION d[st][s] \subseteq {s, Late},
           SetCurrent(s, d)
    PROVE  LiveScoped'
<1>1. CASE s = cur
  BY <1>1 DEF SetCurrent, LiveScoped
<1>2. CASE s # cur
  <2>1. cur' = s /\ \A st \in Chat : mem'[st] = Rehydrated(st, s, d)
    BY <1>2, ChatIsStore DEF SetCurrent
  <2>2. \A st \in Chat : Rehydrated(st, s, d) \subseteq {s, Late}
    BY DEF Rehydrated
  <2> QED
    BY <2>1, <2>2 DEF LiveScoped
<1> QED
  BY <1>1, <1>2

(* A storage from which keys were removed keeps only what it kept.          *)
LEMMA ClearedScoped ==
    ASSUME KeptScoped, NEW S
    PROVE  \A st \in Chat, k \in Keys :
              UNION Cleared(S)[st][k] \subseteq {k, Late}
  BY ChatIsStore DEF KeptScoped, Cleared, Absent

LEMMA BootScoped ==
    ASSUME KeptScoped, NEW t, Boot(t)
    PROVE  LiveScoped' /\ KeptScoped'
  BY ChatIsStore DEF Boot, LiveScoped, KeptScoped, Keys

LEMMA WorkspaceScoped ==
    ASSUME TypeOK, LiveScoped, KeptScoped, Workspace
    PROVE  LiveScoped' /\ KeptScoped'
<1>0. /\ MemOK /\ DiskOK /\ cur \in Keys
      /\ \A st \in Chat : st \in Stores
  BY ChatIsStore DEF TypeOK, MemOK, DiskOK
<1>1. ASSUME NEW s \in Slugs, EnterWorkspace(s)
      PROVE  LiveScoped' /\ KeptScoped'
  <2>1. KeptScoped'
    BY <1>1 DEF EnterWorkspace, KeptScoped
  <2>2. s \in Keys /\ SetCurrent(s, disk)
    BY <1>1 DEF EnterWorkspace, Keys
  <2>3. \A st \in Chat : UNION disk[st][s] \subseteq {s, Late}
    BY <2>2 DEF KeptScoped
  <2> QED
    BY <2>1, <2>2, <2>3, SetCurrentScoped
<1>2. ASSUME NEW s \in Slugs, WorkspaceLost(s)
      PROVE  LiveScoped' /\ KeptScoped'
  <2>1. KeptScoped'
    BY <1>2, ClearedScoped DEF WorkspaceLost, KeptScoped
  <2> QED
    BY <1>2, <2>1 DEF WorkspaceLost, LiveScoped
<1>3. CASE LeaveContext
  <2>1. KeptScoped'
    BY <1>3 DEF LeaveContext, KeptScoped
  <2>2. NoSlug \in Keys /\ SetCurrent(NoSlug, disk)
    BY <1>3 DEF LeaveContext, Keys
  <2>3. \A st \in Chat : UNION disk[st][NoSlug] \subseteq {NoSlug, Late}
    BY <2>2 DEF KeptScoped
  <2> QED
    BY <2>1, <2>2, <2>3, SetCurrentScoped
<1>4. ASSUME NEW st \in Stores, Write(st)
      PROVE  LiveScoped' /\ KeptScoped'
  <2>1. LiveScoped'
    BY <1>0, <1>4 DEF Write, LiveScoped, MemOK
  <2>2. KeptScoped'
    <3>1. SUFFICES ASSUME NEW c \in Chat, NEW k \in Keys,
                          NEW o \in UNION disk'[c][k]
                   PROVE  o \in {k, Late}
      BY DEF KeptScoped
    <3>2. CASE c = st /\ k = cur
      <4>1. disk'[c][k] = {mem'[c]}
        BY <1>0, <1>4, <3>2 DEF Write, DiskOK
      <4>2. cur' = cur
        BY <1>4 DEF Write
      <4> QED
        BY <2>1, <3>1, <3>2, <4>1, <4>2 DEF LiveScoped
    <3>3. CASE ~(c = st /\ k = cur)
      <4>1. disk'[c][k] = disk[c][k]
        BY <1>0, <1>4, <3>3 DEF Write, DiskOK
      <4> QED
        BY <3>1, <4>1 DEF KeptScoped
    <3> QED
      BY <3>2, <3>3
  <2> QED
    BY <2>1, <2>2
<1>5. ASSUME NEW st \in Stores, Clear(st)
      PROVE  LiveScoped' /\ KeptScoped'
  <2>1. LiveScoped'
    BY <1>0, <1>5 DEF Clear, LiveScoped, MemOK
  <2>2. KeptScoped'
    <3>1. SUFFICES ASSUME NEW c \in Chat, NEW k \in Keys,
                          NEW o \in UNION disk'[c][k]
                   PROVE  o \in {k, Late}
      BY DEF KeptScoped
    <3>2. CASE c = st /\ k = cur
      BY <1>0, <1>5, <3>1, <3>2 DEF Clear, DiskOK, Absent
    <3>3. CASE ~(c = st /\ k = cur)
      <4>1. disk'[c][k] = disk[c][k]
        BY <1>0, <1>5, <3>3 DEF Clear, DiskOK
      <4> QED
        BY <3>1, <4>1 DEF KeptScoped
    <3> QED
      BY <3>2, <3>3
  <2> QED
    BY <2>1, <2>2
<1>6. ASSUME NEW new \in SUBSET Slugs, ListArrives(new)
      PROVE  LiveScoped' /\ KeptScoped'
  BY <1>6 DEF ListArrives, LiveScoped, KeptScoped
<1>7. ASSUME NEW st \in Stores, SendForm(st)
      PROVE  LiveScoped' /\ KeptScoped'
  BY <1>7 DEF SendForm, LiveScoped, KeptScoped
<1>8. ASSUME NEW m \in sends, Sent(m)
      PROVE  LiveScoped' /\ KeptScoped'
  <2>0. m.store \in Stores /\ cur' = cur
    BY <1>8 DEF Sent, TypeOK, Sends
  <2>1. LiveScoped'
    BY <1>0, <1>8, <2>0 DEF Sent, LiveScoped, MemOK
  <2>2. KeptScoped'
    <3>1. SUFFICES ASSUME NEW c \in Chat, NEW k \in Keys,
                          NEW o \in UNION disk'[c][k]
                   PROVE  o \in {k, Late}
      BY DEF KeptScoped
    <3>2. CASE c = m.store /\ k = cur
      <4>1. disk'[c][k] = {mem'[c]}
        BY <1>0, <1>8, <2>0, <3>2 DEF Sent, DiskOK
      <4> QED
        BY <2>0, <2>1, <3>1, <3>2, <4>1 DEF LiveScoped
    <3>3. CASE ~(c = m.store /\ k = cur)
      <4>1. disk'[c][k] = disk[c][k]
        BY <1>0, <1>8, <2>0, <3>3 DEF Sent, DiskOK
      <4> QED
        BY <3>1, <4>1 DEF KeptScoped
    <3> QED
      BY <3>2, <3>3
  <2> QED
    BY <2>1, <2>2
<1>9. ASSUME NEW m \in sends, SendFails(m)
      PROVE  LiveScoped' /\ KeptScoped'
  BY <1>9 DEF SendFails, LiveScoped, KeptScoped
<1> QED
  BY <1>1, <1>2, <1>3, <1>4, <1>5, <1>6, <1>7, <1>8, <1>9 DEF Workspace

LEMMA LogoutScoped ==
    ASSUME LiveScoped, KeptScoped, Logout
    PROVE  LiveScoped' /\ KeptScoped'
<1>1. \A st \in Chat, k \in Keys : UNION disk'[st][k] \subseteq {k, Late}
  BY ClearedScoped DEF Logout
<1>2. NoSlug \in Keys /\ SetCurrent(NoSlug, disk')
  BY DEF Logout, Keys
<1>3. LiveScoped'
  BY <1>1, <1>2, SetCurrentScoped
<1> QED
  BY <1>1, <1>3 DEF KeptScoped

LEMMA AnsweredScoped ==
    ASSUME LiveScoped, KeptScoped, NEW kind \in Kinds, NEW u \in Users,
           Answered(kind, u)
    PROVE  LiveScoped' /\ KeptScoped'
<1>1. CASE InitFail(u)
  <2>1. KeptScoped'
    BY <1>1 DEF InitFail, KeptScoped
  <2>2. NoSlug \in Keys /\ SetCurrent(NoSlug, disk)
    BY <1>1 DEF InitFail, Keys
  <2>3. \A st \in Chat : UNION disk[st][NoSlug] \subseteq {NoSlug, Late}
    BY <2>2 DEF KeptScoped
  <2> QED
    BY <2>1, <2>2, <2>3, SetCurrentScoped
<1>2. CASE ~InitFail(u)
  <2>1. UNCHANGED <<cur, mem, disk>>
    BY <1>2 DEF Answered, InitOk, LoginByCode, DeepLinkOk, RefreshMeOk,
                Unauthorized, Ignored, data
  <2> QED
    BY <2>1 DEF LiveScoped, KeptScoped
<1> QED
  BY <1>1, <1>2

LEMMA ScopedStep ==
    ASSUME TypeOK, ChatScoped, [Next]_vars
    PROVE  ChatScoped'
<1>0. LiveScoped /\ KeptScoped
  BY ChatSplit
<1> SUFFICES LiveScoped' /\ KeptScoped'
  BY DEF ChatScoped, LiveScoped, KeptScoped
<1>1. ASSUME NEW kind \in Kinds, NEW u \in Users, Answered(kind, u)
      PROVE  LiveScoped' /\ KeptScoped'
  BY <1>0, <1>1, AnsweredScoped
<1>2. CASE Workspace
  BY <1>0, <1>2, WorkspaceScoped
<1>3. CASE Logout
  BY <1>0, <1>3, LogoutScoped
<1>4. CASE Reload \/ \E u \in Users : SwitchIdentity(u)
  BY <1>0, <1>4, BootScoped DEF Reload, SwitchIdentity
<1>5. CASE \/ RefreshMe \/ Request \/ UNCHANGED vars
           \/ \E u \in Users : AskByCode(u) \/ DeepLink(u) \/ Revoke(u)
  <2>1. UNCHANGED <<cur, mem, disk>>
    BY <1>5 DEF RefreshMe, Request, AskByCode, DeepLink, Revoke, data, vars
  <2> QED
    BY <1>0, <2>1 DEF LiveScoped, KeptScoped
<1> QED
  BY <1>1, <1>2, <1>3, <1>4, <1>5 DEF Next

LEMMA ScopedInit == Init => ChatScoped
  BY ChatIsStore DEF Init, ChatScoped, Absent

(* What the chat shows and keeps was written in its workspace, but for the  *)
(* session that a late answer brings (chat/store.ts, chat-window.tsx).      *)
THEOREM ChatStaysScoped == Spec => []ChatScoped
  BY ScopedInit, ScopedStep, SessionTypes, PTL DEF Spec

-----------------------------------------------------------------------------
(* Logout.  Under a workspace only a signed-in user writes, since without   *)
(* one there is no workspace; and the key without a workspace, which the    *)
(* live chat is rehydrated from, holds at most what late answers brought.   *)

LEMMA LogoutEmpties ==
    ASSUME TypeOK, ChatScoped, Logout
    PROVE  /\ \A st \in Chat : mem'[st] \subseteq {Late}
           /\ \A st \in Cleaned, k \in list : disk'[st][k] = Absent
<1>0. LiveScoped' /\ KeptScoped' /\ MemOK' /\ DiskOK' /\ cur' = NoSlug
  <2>1. LiveScoped /\ KeptScoped /\ TypeAuth /\ MemOK /\ DiskOK
    BY ChatSplit, TypeSplit
  <2> QED
    BY <2>1, LogoutScoped, LogoutType DEF Logout, SetCurrent
<1>1. ASSUME NEW st \in Chat
      PROVE  mem'[st] \subseteq {Late}
  <2>1. mem'[st] \in SUBSET Origins /\ mem'[st] \subseteq {NoSlug, Late}
    BY <1>0, ChatIsStore DEF MemOK, LiveScoped
  <2>2. NoSlug \notin Origins
    BY SessionAssumption DEF Origins
  <2> QED
    BY <2>1, <2>2
<1>2. ASSUME NEW st \in Cleaned, NEW k \in list
      PROVE  disk'[st][k] = Absent
  <2>1. k \in Keys
    BY DEF TypeOK, Keys
  <2> QED
    BY <2>1, SessionAssumption DEF Logout, Cleared
<1> QED
  BY <1>1, <1>2

(* While nobody is signed in, no step fills the key of a workspace.         *)
LEMMA NobodyWrites ==
    ASSUME TypeOK, NoContextSignedOut, user = NoUser, [Next]_vars,
           NEW st \in Stores, NEW k \in Slugs, disk[st][k] = Absent
    PROVE  disk'[st][k] = Absent
<1>1. ASSUME NEW kind \in Kinds, NEW u \in Users, Answered(kind, u)
      PROVE  disk' = disk
  BY <1>1 DEF Answered, InitOk, InitFail, LoginByCode, DeepLinkOk,
              RefreshMeOk, Unauthorized, Ignored, data
<1>2. ASSUME Workspace \/ Logout
      PROVE  \E m \in sends : Sent(m) \/ SendFails(m)
  BY <1>2 DEF Workspace, EnterWorkspace, WorkspaceLost, LeaveContext, Write,
              Clear, ListArrives, SendForm, Logout
<1>3. ASSUME NEW m \in sends, Sent(m)
      PROVE  disk'[st][k] = Absent
  <2>1. disk' = [disk EXCEPT ![m.store][NoSlug] = {mem'[m.store]}]
    BY <1>3 DEF Sent, NoContextSignedOut
  <2>2. k # NoSlug
    BY SessionAssumption
  <2> QED
    BY <2>1, <2>2 DEF TypeOK
<1>4. ASSUME NEW m \in sends, SendFails(m)
      PROVE  disk' = disk
  BY <1>4 DEF SendFails
<1>5. CASE \/ Reload \/ RefreshMe \/ Request \/ UNCHANGED vars
           \/ \E u \in Users : \/ SwitchIdentity(u) \/ AskByCode(u)
                              \/ DeepLink(u) \/ Revoke(u)
  BY <1>5 DEF Reload, SwitchIdentity, Boot, RefreshMe, Request, AskByCode,
              DeepLink, Revoke, data, vars
<1> QED
  BY <1>1, <1>2, <1>3, <1>4, <1>5 DEF Next

(* A logout removes the drafts of the listed workspaces and empties the     *)
(* chat, and nothing comes back before somebody signs in.                   *)
THEOREM LogoutForgets == Spec => StaysForgotten
<1> DEFINE Forgets ==
      /\ user = NoUser /\ user' = NoUser =>
            \A st \in Stores, k \in Slugs :
                disk[st][k] = Absent => disk'[st][k] = Absent
      /\ Logout =>
            /\ \A st \in Chat : mem'[st] \subseteq {Late}
            /\ \A st \in Cleaned, k \in list : disk'[st][k] = Absent
<1>1. TypeOK /\ ChatScoped /\ NoContextSignedOut /\ [Next]_vars => [Forgets]_vars
  BY NobodyWrites, LogoutEmpties
<1>2. StaysForgotten <=> [][Forgets]_vars
  BY DEF StaysForgotten
<1> HIDE DEF Forgets
<1> QED
  BY <1>1, <1>2, SessionTypes, ChatStaysScoped, SignedOutHasNoWorkspace, PTL
  DEF Spec
=============================================================================
