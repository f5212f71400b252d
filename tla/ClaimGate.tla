----------------------------- MODULE ClaimGate -----------------------------
(***************************************************************************)
(* What may keep a claim request of one runtime away from the task queue:  *)
(* the empty-claim cache in Redis, a "no queued task" verdict tagged with a *)
(* version that every enqueue bumps, and the startup-failure breaker, which *)
(* reads the runtime's newest final rows and parks the queue while they are *)
(* all fresh startup failures.                                             *)
(*                                                                         *)
(* Each Redis call and each SQL statement is a step of its own.  Which row *)
(* a claim takes is TaskQueue's matter: here it takes any queued one.  Time *)
(* is modelled by what it ends: a verdict lives 3 minutes, a version a day *)
(* after its last renewal, a closed breaker 5 minutes.                     *)
(***************************************************************************)
EXTENDS Naturals, FiniteSets

CONSTANTS
  Row,        \* rows of agent_task_queue on the runtime
  Claim,      \* claim requests the server may be serving at once
  Threshold,  \* startupBreakerThreshold
  None

ASSUME RowAssumption == IsFiniteSet(Row)
ASSUME ClaimAssumption == IsFiniteSet(Claim)
ASSUME ThresholdAssumption == Threshold \in Nat \ {0}
ASSUME NoneAssumption == None \notin Nat

VARIABLES
  row,      \* each row: "new" before its INSERT, "queued", "taken", "final"
  bump,     \* the Bump its enqueue owes: "not", "due", "done" or "lost"
  version,  \* the runtime's version key; 0 when it is missing
  warm,     \* whether the version key was renewed within its 24 h
  verdict,  \* the version the cached verdict is tagged with, or None
  pc,       \* where each claim request is
  sample,   \* the version it has read
  streak,   \* how many of the newest final rows are startup failures
  fresh,    \* whether the newest of those is within the cooldown
  \* history
  held,     \* the requests that were in progress when the key was last renewed
  vheld,    \* whether the verdict, or the request it is from, was
  lapsed,   \* the requests whose version key has missed a renewal
  vlapsed,  \* whether the verdict's has
  blind,    \* the requests that have passed the closed breaker unread
  late      \* the rows that others have dispatched since the breaker closed

verdictVars == <<verdict, vlapsed>>
cacheVars == <<version, warm, vheld, verdictVars>>
breakerVars == <<streak, fresh>>
requestVars == <<pc, sample, lapsed, blind>>
claimVars == <<held, requestVars>>
vars == <<row, bump, cacheVars, breakerVars, claimVars, late>>

Active == {c \in Claim : pc[c] # "idle"}

(* A request that has read the version and remembers it. *)
Sampled == {"renew", "list", "mark"}

(* EXPIRE of the version key: a day from now. *)
RenewKey ==
  /\ warm' = TRUE
  /\ held' = Active
  /\ vheld' = (verdict # None)

-----------------------------------------------------------------------------
(* The enqueue side: the row is committed first, then the version is bumped. *)

Insert(r) ==
  /\ row[r] = "new"
  /\ row' = [row EXCEPT ![r] = "queued"]
  /\ bump' = [bump EXCEPT ![r] = "due"]
  /\ UNCHANGED <<cacheVars, breakerVars, claimVars, late>>

(* INCR and EXPIRE in one pipeline. *)
Bump(r) ==
  /\ bump[r] = "due"
  /\ bump' = [bump EXCEPT ![r] = "done"]
  /\ version' = version + 1
  /\ RenewKey
  /\ UNCHANGED <<row, verdictVars, breakerVars, requestVars, late>>

(* Redis does not answer in time, or the server dies first; nobody retries. *)
BumpLost(r) ==
  /\ bump[r] = "due"
  /\ bump' = [bump EXCEPT ![r] = "lost"]
  /\ UNCHANGED <<row, cacheVars, breakerVars, claimVars, late>>

(* The pipeline is no transaction: Redis may execute the INCR alone.  A key   *)
(* that this creates has no time to live at all.                              *)
BumpHalf(r) ==
  /\ bump[r] = "due"
  /\ bump' = [bump EXCEPT ![r] = "done"]
  /\ version' = version + 1
  /\ IF version = 0
       THEN RenewKey /\ UNCHANGED <<lapsed, vlapsed>>
       ELSE /\ lapsed' = lapsed \cup {c \in Claim : pc[c] \in Sampled}
            /\ vlapsed' = (verdict # None)
            /\ UNCHANGED <<warm, held, vheld>>
  /\ UNCHANGED <<row, verdict, breakerVars, pc, sample, blind, late>>

-----------------------------------------------------------------------------
(* The claim side: ClaimTaskForRuntime. *)

Goto(c, l) == pc' = [pc EXCEPT ![c] = l]

Return(c) ==
  /\ Goto(c, "idle")
  /\ sample' = [sample EXCEPT ![c] = 0]
  /\ held' = held \ {c}
  /\ lapsed' = lapsed \ {c}
  /\ blind' = blind \ {c}

IsEmpty == verdict = version

(* IsEmpty says no; while it says yes, claim requests return nothing. *)
CacheMiss(c) ==
  /\ pc[c] = "idle"
  /\ ~IsEmpty
  /\ Goto(c, "gate")
  /\ UNCHANGED <<row, bump, cacheVars, breakerVars, sample, held, lapsed, blind, late>>

(* A failed MGET counts as a miss. *)
CacheUnreachable(c) ==
  /\ pc[c] = "idle"
  /\ Goto(c, "gate")
  /\ UNCHANGED <<row, bump, cacheVars, breakerVars, sample, held, lapsed, blind, late>>

(* startupBreakerVerdict on the newest Threshold final rows. *)
BreakerClosed == streak = Threshold /\ fresh

(* Variant: the history is not consulted. *)
PassUnchecked(c) ==
  /\ pc[c] = "gate"
  /\ Goto(c, "sample")
  /\ UNCHANGED <<row, bump, cacheVars, breakerVars, sample, held, lapsed, blind, late>>

PassGate(c) ==
  /\ pc[c] = "gate"
  /\ ~BreakerClosed
  /\ Goto(c, "sample")
  /\ UNCHANGED <<row, bump, cacheVars, breakerVars, sample, held, lapsed, blind, late>>

(* The history cannot be read: the breaker fails open. *)
PassUnread(c) ==
  /\ pc[c] = "gate"
  /\ BreakerClosed
  /\ Goto(c, "sample")
  /\ blind' = blind \cup {c}
  /\ UNCHANGED <<row, bump, cacheVars, breakerVars, sample, held, lapsed, late>>

(* CurrentVersion, before the SELECT: a GET, and an EXPIRE of a key it found. *)
SampleVersion(c) ==
  /\ pc[c] = "sample"
  /\ sample' = [sample EXCEPT ![c] = version]
  /\ Goto(c, IF version = 0 THEN "list" ELSE "renew")
  /\ UNCHANGED <<row, bump, cacheVars, breakerVars, held, lapsed, blind, late>>

(* A failed GET counts as version 0. *)
SampleLost(c) ==
  /\ pc[c] = "sample"
  /\ sample' = [sample EXCEPT ![c] = 0]
  /\ Goto(c, "list")
  /\ UNCHANGED <<row, bump, cacheVars, breakerVars, held, lapsed, blind, late>>

(* Variant: the key is read and not renewed. *)
RenewForgotten(c) ==
  /\ pc[c] = "renew"
  /\ Goto(c, "list")
  /\ UNCHANGED <<row, bump, cacheVars, breakerVars, sample, held, lapsed, blind, late>>

(* The key may be gone again by now. *)
Renew(c) ==
  /\ pc[c] = "renew"
  /\ Goto(c, "list")
  /\ IF version # 0 THEN RenewKey ELSE UNCHANGED <<warm, held, vheld>>
  /\ UNCHANGED <<row, bump, version, verdictVars, breakerVars, sample, lapsed, blind, late>>

(* A failed EXPIRE is ignored. *)
RenewLost(c) ==
  /\ pc[c] = "renew"
  /\ Goto(c, "list")
  /\ lapsed' = lapsed \cup {c}
  /\ UNCHANGED <<row, bump, cacheVars, breakerVars, sample, held, blind, late>>

(* ListQueuedClaimCandidatesByRuntime finds nothing. *)
ListNone(c) ==
  /\ pc[c] = "list"
  /\ \A r \in Row : row[r] # "queued"
  /\ Goto(c, "mark")
  /\ UNCHANGED <<row, bump, cacheVars, breakerVars, sample, held, lapsed, blind, late>>

(* It finds candidates; the version is of no more use. *)
ListSome(c) ==
  /\ pc[c] = "list"
  /\ \E r \in Row : row[r] = "queued"
  /\ Goto(c, "take")
  /\ sample' = [sample EXCEPT ![c] = 0]
  /\ lapsed' = lapsed \ {c}
  /\ UNCHANGED <<row, bump, cacheVars, breakerVars, held, blind, late>>

(* The verdict inherits the history of its request. *)
Tag(c, v) ==
  /\ verdict' = v
  /\ vheld' = (c \in held)
  /\ vlapsed' = (c \in lapsed)

(* Variant: tagged with the version of the moment. *)
MarkWithCurrent(c) ==
  /\ pc[c] = "mark"
  /\ Tag(c, version)
  /\ Return(c)
  /\ UNCHANGED <<row, bump, version, warm, breakerVars, late>>

MarkEmpty(c) ==
  /\ pc[c] = "mark"
  /\ Tag(c, sample[c])
  /\ Return(c)
  /\ UNCHANGED <<row, bump, version, warm, breakerVars, late>>

(* ClaimTask dispatches a row. *)
Take(c, r) ==
  /\ pc[c] = "take"
  /\ row[r] = "queued"
  /\ row' = [row EXCEPT ![r] = "taken"]
  /\ late' = IF BreakerClosed /\ c \notin blind THEN late \cup {r} ELSE late
  /\ Return(c)
  /\ UNCHANGED <<bump, cacheVars, breakerVars>>

(* Every row the claim has listed is gone. *)
TakeNone(c) ==
  /\ pc[c] = "take"
  /\ \A r \in Row : row[r] # "queued"
  /\ Return(c)
  /\ UNCHANGED <<row, bump, cacheVars, breakerVars, late>>

(* The request returns empty-handed from anywhere: the breaker is closed, a  *)
(* statement fails, the SET of the verdict fails, the client or the server   *)
(* goes away.                                                                *)
Parked(c) ==
  /\ pc[c] = "gate"
  /\ BreakerClosed
  /\ Return(c)
  /\ UNCHANGED <<row, bump, cacheVars, breakerVars, late>>

Abort(c) ==
  /\ pc[c] # "idle"
  /\ Return(c)
  /\ UNCHANGED <<row, bump, cacheVars, breakerVars, late>>

-----------------------------------------------------------------------------
(* Rows end; the newest final row decides about the streak. *)

(* Variant: the streak counts past the breaker's threshold. *)
StartupFailureUncapped(r) ==
  /\ row[r] = "taken"
  /\ row' = [row EXCEPT ![r] = "final"]
  /\ streak' = streak + 1
  /\ fresh' = TRUE
  /\ UNCHANGED <<bump, cacheVars, claimVars, late>>

StartupFailure(r) ==
  /\ row[r] = "taken"
  /\ row' = [row EXCEPT ![r] = "final"]
  /\ streak' = IF streak = Threshold THEN streak ELSE streak + 1
  /\ fresh' = TRUE
  /\ UNCHANGED <<bump, cacheVars, claimVars, late>>

(* Any other end: completion, another failure, cancellation. *)
OtherEnd(r) ==
  /\ row[r] \in {"queued", "taken"}
  /\ row' = [row EXCEPT ![r] = "final"]
  /\ streak' = 0
  /\ fresh' = FALSE
  /\ late' = {} /\ blind' = {}
  /\ UNCHANGED <<bump, cacheVars, pc, sample, held, lapsed>>

-----------------------------------------------------------------------------
(* Time *)

(* Variant: SET without a TTL. *)
VerdictStays == UNCHANGED vars

ExpireVerdict ==
  /\ verdict # None
  /\ verdict' = None
  /\ vheld' = FALSE
  /\ vlapsed' = FALSE
  /\ UNCHANGED <<row, bump, version, warm, breakerVars, claimVars, late>>

(* A day without renewal of the version key.  No claim request and no verdict *)
(* lasts that long, so those of the last renewal are over.                    *)
Cool ==
  /\ warm
  /\ held = {} /\ ~vheld
  /\ warm' = FALSE
  /\ UNCHANGED <<row, bump, version, verdictVars, vheld, breakerVars, claimVars, late>>

(* Whoever is about to renew the key has lost it. *)
ExpireVersion ==
  /\ ~warm
  /\ version # 0
  /\ version' = 0
  /\ lapsed' = lapsed \cup {c \in Claim : pc[c] = "renew"}
  /\ UNCHANGED <<row, bump, warm, verdictVars, vheld, breakerVars, pc, sample, held,
                 blind, late>>

(* startupBreakerCooldown is over. *)
Cooldown ==
  /\ fresh
  /\ fresh' = FALSE
  /\ late' = {} /\ blind' = {}
  /\ UNCHANGED <<row, bump, cacheVars, streak, pc, sample, held, lapsed>>

-----------------------------------------------------------------------------
Init ==
  /\ row = [r \in Row |-> "new"]
  /\ bump = [r \in Row |-> "not"]
  /\ version = 0
  /\ warm = FALSE
  /\ verdict = None
  /\ pc = [c \in Claim |-> "idle"]
  /\ sample = [c \in Claim |-> 0]
  /\ held = {}
  /\ vheld = FALSE
  /\ lapsed = {}
  /\ vlapsed = FALSE
  /\ blind = {}
  /\ streak = 0
  /\ fresh = FALSE
  /\ late = {}

RowNext ==
  \E r \in Row :
    \/ Insert(r) \/ Bump(r) \/ BumpLost(r) \/ BumpHalf(r)
    \/ StartupFailure(r) \/ OtherEnd(r)

ClaimStep(c) ==
  \/ CacheMiss(c) \/ PassGate(c) \/ Parked(c) \/ SampleVersion(c) \/ Renew(c)
  \/ ListNone(c) \/ ListSome(c) \/ MarkEmpty(c) \/ TakeNone(c)
  \/ \E r \in Row : Take(c, r)

ClaimFault(c) ==
  CacheUnreachable(c) \/ PassUnread(c) \/ SampleLost(c) \/ RenewLost(c) \/ Abort(c)

ClaimNext == \E c \in Claim : ClaimStep(c) \/ ClaimFault(c)

TimeNext == ExpireVerdict \/ Cool \/ ExpireVersion \/ Cooldown

Next == RowNext \/ ClaimNext \/ TimeNext

Spec == Init /\ [][Next]_vars

(* Polls repeat and proceed; the TTL of the verdict and the cooldown run out. *)
Fairness ==
  /\ \A c \in Claim : WF_vars(ClaimStep(c))
  /\ WF_vars(ExpireVerdict)
  /\ WF_vars(Cooldown)

FairSpec == Spec /\ Fairness

-----------------------------------------------------------------------------
TypeOK ==
  /\ row \in [Row -> {"new", "queued", "taken", "final"}]
  /\ bump \in [Row -> {"not", "due", "done", "lost"}]
  /\ version \in Nat
  /\ warm \in BOOLEAN
  /\ verdict \in Nat \cup {None}
  /\ pc \in [Claim -> {"idle", "gate", "sample", "renew", "list", "mark", "take"}]
  /\ sample \in [Claim -> Nat]
  /\ streak \in 0..Threshold
  /\ fresh \in BOOLEAN
  /\ held \subseteq Claim /\ lapsed \subseteq Claim /\ blind \subseteq Claim
  /\ vheld \in BOOLEAN /\ vlapsed \in BOOLEAN
  /\ late \subseteq Row

(* A verdict that claim requests trust hides no queued row whose enqueue has  *)
(* bumped the version, however late the verdict was written: only a Bump that *)
(* is still to come or was lost lets a queued row wait behind the cache.      *)
(* This holds of a verdict as long as no renewal of its version key fails.    *)
(* (IsEmpty, CurrentVersion before the SELECT, MarkEmpty, Bump after the      *)
(* INSERT.)                                                                   *)
NoneMissed == \A r \in Row : row[r] = "queued" => bump[r] \in {"due", "lost"}

VerdictSound == IsEmpty /\ ~vlapsed => NoneMissed

(* The same of every verdict, as the comments of CurrentVersion (lines        *)
(* 102-104) and of emptyClaimVersionTTL (47-51) have it.  False: the error of *)
(* the EXPIRE is ignored (116), and a Bump of a key that has expired meanwhile *)
(* gives it the old number again.                                             *)
VerdictAlwaysSound == IsEmpty => NoneMissed

(* Why it holds.  The key outlives what was in progress when it was last      *)
(* renewed.  So a version above 0 that was read and renewed is not given to   *)
(* the key anew while anybody remembers it; and one who remembers 0 while the *)
(* key is missing has seen no Bump.                                           *)
KeyOutlives ==
  /\ warm => version # 0
  /\ held # {} \/ vheld => warm
  /\ held \subseteq Active

SamplesKept ==
  \A c \in Claim :
    /\ sample[c] # 0 => pc[c] \in Sampled
    /\ sample[c] # 0 /\ c \notin lapsed =>
         /\ sample[c] <= version
         /\ pc[c] # "renew" => c \in held
    /\ /\ pc[c] = "mark"
       /\ c \notin lapsed
       /\ sample[c] = version \/ c \notin held
       => NoneMissed

VerdictKept ==
  /\ verdict = None => ~vheld /\ ~vlapsed
  /\ verdict \notin {None, 0} /\ ~vlapsed => vheld /\ verdict <= version
  /\ /\ verdict # None
     /\ ~vlapsed
     /\ verdict = version \/ ~vheld
     => NoneMissed

CacheInv == KeyOutlives /\ SamplesKept /\ VerdictKept

(* The breaker keeps no state and is read long before the dispatch; still,    *)
(* each claim request in flight when it closes dispatches at most one more    *)
(* row until it opens again, unless it could not read the history             *)
(* (StartupFailureBreakerOpen in ClaimTaskForRuntime).                        *)
BurnBounded == Cardinality(late) <= Cardinality(Claim)

(* Why it holds: a late row uses up the claim request that dispatched it, and *)
(* no further request that reads the history gets past the closed breaker.    *)
Past == {c \in Claim : pc[c] \notin {"idle", "gate"}} \ blind

BurnInv ==
  IF BreakerClosed THEN Cardinality(late) + Cardinality(Past) <= Cardinality(Claim)
                   ELSE late = {}

(* Queued rows are safe to hold back: when requests no longer die on the way, *)
(* every queued row is served or ends, although its Bump may have been lost   *)
(* and the breaker may close again and again (the verdict's TTL, the          *)
(* cooldown).                                                                 *)
Undisturbed ==
  <>[][~\E c \in Claim : Abort(c)]_vars

ServedRow(r) == Undisturbed => (row[r] = "queued") ~> (row[r] # "queued")

=============================================================================
