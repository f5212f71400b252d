-------------------------- MODULE ClaimGate_proofs -------------------------
(***************************************************************************)
(* Proofs about ClaimGate, for every finite set of rows and of concurrent  *)
(* claim requests and every threshold of the breaker.                      *)
(***************************************************************************)
EXTENDS ClaimGate, FiniteSetTheorems, TLAPS

-----------------------------------------------------------------------------
(* Types *)

LEMMA InitType == Init => TypeOK
<1>1. Init => /\ warm \in BOOLEAN /\ fresh \in BOOLEAN
              /\ vheld \in BOOLEAN /\ vlapsed \in BOOLEAN
  BY DEF Init
<1>2. Init => streak \in 0..Threshold
  BY ThresholdAssumption DEF Init
<1>3. Init => /\ row \in [Row -> {"new", "queued", "taken", "final"}]
              /\ bump \in [Row -> {"not", "due", "done", "lost"}]
              /\ version \in Nat
              /\ verdict \in Nat \cup {None}
              /\ pc \in [Claim -> {"idle", "gate", "sample", "renew", "list", "mark", "take"}]
              /\ sample \in [Claim -> Nat]
              /\ held \subseteq Claim /\ lapsed \subseteq Claim /\ blind \subseteq Claim
              /\ late \subseteq Row
  BY DEF Init
<1> QED BY <1>1, <1>2, <1>3 DEF TypeOK

(* The flags apart: no backend mixes them well with arithmetic. *)
LEMMA FlagsType ==
  ASSUME TypeOK, Next
  PROVE  /\ warm' \in BOOLEAN /\ fresh' \in BOOLEAN
         /\ vheld' \in BOOLEAN /\ vlapsed' \in BOOLEAN
<1> USE DEF TypeOK, cacheVars, breakerVars, claimVars, requestVars, verdictVars, RenewKey
<1>1. CASE RowNext
  BY <1>1 DEF RowNext, Insert, Bump, BumpLost, BumpHalf, StartupFailure, OtherEnd
<1>2. CASE ClaimNext
  <2> PICK c \in Claim : ClaimStep(c) \/ ClaimFault(c)
    BY <1>2 DEF ClaimNext
  <2>1. CASE ClaimStep(c)
    <3>1. CASE \/ CacheMiss(c) \/ PassGate(c) \/ Parked(c) \/ SampleVersion(c)
               \/ ListNone(c) \/ ListSome(c) \/ TakeNone(c) \/ \E r \in Row : Take(c, r)
      BY <3>1 DEF CacheMiss, PassGate, Parked, SampleVersion, ListNone, ListSome,
                  TakeNone, Take
    <3>2. CASE Renew(c)
      BY <3>2 DEF Renew
    <3>3. CASE MarkEmpty(c)
      BY <3>3 DEF MarkEmpty, Tag
    <3> QED BY <2>1, <3>1, <3>2, <3>3 DEF ClaimStep
  <2>2. CASE ClaimFault(c)
    BY <2>2 DEF ClaimFault, CacheUnreachable, PassUnread, SampleLost, RenewLost, Abort
  <2> QED BY <2>1, <2>2
<1>3. CASE TimeNext
  BY <1>3 DEF TimeNext, ExpireVerdict, Cool, ExpireVersion, Cooldown
<1> QED BY <1>1, <1>2, <1>3 DEF Next

LEMMA RowType ==
  ASSUME TypeOK, RowNext
  PROVE  TypeOK'
<1> PICK r \in Row :
      \/ Insert(r) \/ Bump(r) \/ BumpLost(r) \/ BumpHalf(r)
      \/ StartupFailure(r) \/ OtherEnd(r)
  BY DEF RowNext
<1> USE DEF TypeOK, cacheVars, breakerVars, claimVars, requestVars, verdictVars, RenewKey
<1>1. streak' \in 0..Threshold
  BY ThresholdAssumption
     DEF ThresholdAssumption, Insert, Bump, BumpLost, BumpHalf, StartupFailure, OtherEnd
<1>2. /\ row' \in [Row -> {"new", "queued", "taken", "final"}]
      /\ bump' \in [Row -> {"not", "due", "done", "lost"}]
  BY DEF Insert, Bump, BumpLost, BumpHalf, StartupFailure, OtherEnd
<1>3. /\ version' \in Nat /\ UNCHANGED <<verdict, pc, sample>>
      /\ held' \subseteq Claim /\ lapsed' \subseteq Claim /\ blind' \subseteq Claim
      /\ late' \subseteq Row
  BY DEF Insert, Bump, BumpLost, BumpHalf, StartupFailure, OtherEnd, Active
<1>4. /\ warm' \in BOOLEAN /\ fresh' \in BOOLEAN
      /\ vheld' \in BOOLEAN /\ vlapsed' \in BOOLEAN
  BY FlagsType DEF Next
<1> QED BY <1>1, <1>2, <1>3, <1>4

LEMMA ClaimType ==
  ASSUME TypeOK, ClaimNext
  PROVE  TypeOK'
<1> PICK c \in Claim : ClaimStep(c) \/ ClaimFault(c)
  BY DEF ClaimNext
<1> USE DEF TypeOK, cacheVars, breakerVars, verdictVars, Goto, Return, Tag, RenewKey, Active
<1>1. /\ warm' \in BOOLEAN /\ fresh' \in BOOLEAN
      /\ vheld' \in BOOLEAN /\ vlapsed' \in BOOLEAN
  BY FlagsType DEF Next
<1>2. ASSUME CacheMiss(c) \/ CacheUnreachable(c) \/ PassGate(c) \/ PassUnread(c)
      PROVE  TypeOK'
  BY <1>2 DEF CacheMiss, CacheUnreachable, PassGate, PassUnread
<1>3. ASSUME \/ SampleVersion(c) \/ SampleLost(c) \/ Renew(c) \/ RenewLost(c)
             \/ ListNone(c) \/ ListSome(c)
      PROVE  TypeOK'
  <2>1. /\ sample' \in [Claim -> Nat]
        /\ pc' \in [Claim -> {"idle", "gate", "sample", "renew", "list", "mark", "take"}]
        /\ held' \subseteq Claim /\ lapsed' \subseteq Claim
        /\ UNCHANGED <<row, bump, version, verdict, breakerVars, blind, late>>
    BY <1>3 DEF SampleVersion, SampleLost, Renew, RenewLost, ListNone, ListSome
  <2> QED BY <1>1, <2>1
<1>4. ASSUME MarkEmpty(c)
      PROVE  TypeOK'
  <2>1. /\ sample' \in [Claim -> Nat] /\ verdict' \in Nat \cup {None}
        /\ pc' \in [Claim -> {"idle", "gate", "sample", "renew", "list", "mark", "take"}]
        /\ held' \subseteq Claim /\ lapsed' \subseteq Claim /\ blind' \subseteq Claim
        /\ UNCHANGED <<row, bump, version, breakerVars, late>>
    BY <1>4 DEF MarkEmpty
  <2> QED BY <1>1, <2>1
<1>5. ASSUME TakeNone(c) \/ Parked(c) \/ Abort(c)
      PROVE  TypeOK'
  BY <1>5 DEF TakeNone, Parked, Abort
<1>6. ASSUME NEW r \in Row, Take(c, r)
      PROVE  TypeOK'
  BY <1>6 DEF Take
<1> QED BY <1>2, <1>3, <1>4, <1>5, <1>6 DEF ClaimStep, ClaimFault

LEMMA TimeType ==
  ASSUME TypeOK, TimeNext
  PROVE  TypeOK'
<1>1. /\ warm' \in BOOLEAN /\ fresh' \in BOOLEAN
      /\ vheld' \in BOOLEAN /\ vlapsed' \in BOOLEAN
  BY FlagsType DEF Next
<1>2. /\ version' \in Nat /\ verdict' \in Nat \cup {None} /\ late' \subseteq Row
      /\ lapsed' \subseteq Claim /\ blind' \subseteq Claim
  BY DEF TypeOK, TimeNext, ExpireVerdict, Cool, ExpireVersion, Cooldown, cacheVars,
         verdictVars, claimVars, requestVars
<1>3. UNCHANGED <<row, bump, streak, pc, sample, held>>
  BY DEF TimeNext, ExpireVerdict, Cool, ExpireVersion, Cooldown, breakerVars,
         claimVars, requestVars
<1> QED BY <1>1, <1>2, <1>3 DEF TypeOK

LEMMA NextType ==
  ASSUME TypeOK, [Next]_vars
  PROVE  TypeOK'
<1>1. CASE UNCHANGED vars
  BY <1>1 DEF TypeOK, vars, cacheVars, verdictVars, breakerVars, claimVars, requestVars
<1> QED BY <1>1, RowType, ClaimType, TimeType DEF Next

(* Type correctness. *)
THEOREM TypeCorrect == Spec => []TypeOK
BY InitType, NextType, PTL DEF Spec

-----------------------------------------------------------------------------
(* The cache *)

LEMMA InitCache == Init => CacheInv
BY NoneAssumption DEF NoneAssumption, Init, CacheInv, KeyOutlives, SamplesKept, VerdictKept

(* A step that renews nothing, and reads and forgets nothing, breaks nothing  *)
(* as long as the rows missed stay none.                                      *)
LEMMA CalmCache ==
  ASSUME TypeOK, CacheInv, NoneMissed => NoneMissed',
         UNCHANGED <<version, warm, vheld, verdict, vlapsed, pc, sample, held, lapsed>>
  PROVE  CacheInv'
<1>1. KeyOutlives'
  BY DEF CacheInv, KeyOutlives, Active
<1>2. SamplesKept'
  BY DEF CacheInv, SamplesKept
<1>3. VerdictKept'
  BY DEF CacheInv, VerdictKept
<1> QED BY <1>1, <1>2, <1>3 DEF CacheInv

(* The verdict there is when a Bump renews the key is from an older version.  *)
LEMMA VerdictRenewed ==
  ASSUME TypeOK, CacheInv, vheld' = (verdict # None), version' = version + 1,
         version' # 0, UNCHANGED <<verdict, vlapsed>>
  PROVE  VerdictKept'
<1>1. verdict = None => ~vheld' /\ ~vlapsed'
  BY DEF CacheInv, VerdictKept
<1>2. verdict # None => vheld' /\ verdict \in Nat /\ version \in Nat
  BY DEF TypeOK
<1>3. verdict # None /\ verdict # 0 /\ ~vlapsed => verdict <= version
  BY DEF CacheInv, VerdictKept
<1>4. verdict # None /\ ~vlapsed => verdict # version' /\ verdict <= version'
  <2> SUFFICES ASSUME verdict # None, ~vlapsed
               PROVE  verdict # version' /\ verdict <= version'
    OBVIOUS
  <2>1. CASE verdict = 0
    BY <1>2, <2>1
  <2>2. CASE verdict # 0
    BY <1>2, <1>3, <2>2
  <2> QED BY <2>1, <2>2
<1> QED BY <1>1, <1>2, <1>4 DEF VerdictKept

(* Whoever is in progress when the key is renewed has it outlive them; a      *)
(* number they remember is then older than the one a Bump sets.               *)
LEMMA BumpCache ==
  ASSUME TypeOK, CacheInv, NEW r \in Row, Bump(r)
  PROVE  CacheInv'
<1>1. /\ version' = version + 1 /\ version' # 0 /\ version \in Nat
      /\ warm' /\ held' = Active /\ vheld' = (verdict # None)
      /\ UNCHANGED <<verdict, vlapsed, pc, sample, lapsed>>
  BY DEF Bump, RenewKey, TypeOK, verdictVars, requestVars
<1>2. KeyOutlives'
  BY <1>1 DEF KeyOutlives, Active
<1>3. SamplesKept'
  <2>1. ASSUME NEW c \in Claim
        PROVE  /\ sample'[c] # 0 => pc'[c] \in Sampled
               /\ sample'[c] # 0 /\ c \notin lapsed' =>
                    sample'[c] <= version' /\ sample'[c] # version' /\ c \in held'
               /\ pc'[c] = "mark" => c \in held'
    BY <1>1 DEF CacheInv, SamplesKept, TypeOK, Active, Sampled
  <2> QED BY <1>1, <2>1 DEF SamplesKept
<1>4. VerdictKept'
  BY <1>1, VerdictRenewed
<1> QED BY <1>2, <1>3, <1>4 DEF CacheInv

(* Without the renewal, whoever remembers a version has missed it.            *)
LEMMA BumpHalfCache ==
  ASSUME TypeOK, CacheInv, NEW r \in Row, BumpHalf(r)
  PROVE  CacheInv'
<1>1. /\ version' = version + 1 /\ version' # 0 /\ version \in Nat
      /\ UNCHANGED <<verdict, pc, sample>>
  BY DEF BumpHalf, TypeOK
<1>2. CASE version = 0
  <2>1. /\ warm' /\ held' = Active /\ vheld' = (verdict # None)
        /\ UNCHANGED <<lapsed, vlapsed>>
    BY <1>2 DEF BumpHalf, RenewKey
  <2>2. KeyOutlives'
    BY <1>1, <2>1 DEF KeyOutlives, Active
  <2>3. SamplesKept'
    <3>1. ASSUME NEW c \in Claim
          PROVE  /\ sample'[c] # 0 => pc'[c] \in Sampled
                 /\ sample'[c] # 0 /\ c \notin lapsed' =>
                      sample'[c] <= version' /\ sample'[c] # version' /\ c \in held'
                 /\ pc'[c] = "mark" => c \in held'
      BY <1>1, <2>1 DEF CacheInv, SamplesKept, TypeOK, Active, Sampled
    <3> QED BY <1>1, <3>1 DEF SamplesKept
  <2>4. VerdictKept'
    BY <1>1, <2>1, VerdictRenewed
  <2> QED BY <2>2, <2>3, <2>4 DEF CacheInv
<1>3. CASE version # 0
  <2>1. /\ lapsed' = lapsed \cup {c \in Claim : pc[c] \in Sampled}
        /\ vlapsed' = (verdict # None)
        /\ UNCHANGED <<warm, held, vheld>>
    BY <1>3 DEF BumpHalf
  <2>2. KeyOutlives'
    BY <1>1, <2>1 DEF CacheInv, KeyOutlives, Active
  <2>3. SamplesKept'
    BY <1>1, <2>1 DEF CacheInv, SamplesKept, Sampled
  <2>4. VerdictKept'
    BY <1>1, <2>1 DEF CacheInv, VerdictKept
  <2> QED BY <2>2, <2>3, <2>4 DEF CacheInv
<1> QED BY <1>2, <1>3

(* Rows: what is queued by a step still owes its Bump. *)
LEMMA RowCache ==
  ASSUME TypeOK, CacheInv, RowNext
  PROVE  CacheInv'
<1> PICK r \in Row :
      \/ Insert(r) \/ Bump(r) \/ BumpLost(r) \/ BumpHalf(r)
      \/ StartupFailure(r) \/ OtherEnd(r)
  BY DEF RowNext
<1>1. ASSUME Insert(r) \/ BumpLost(r) \/ StartupFailure(r) \/ OtherEnd(r)
      PROVE  CacheInv'
  <2>1. UNCHANGED <<version, warm, vheld, verdict, vlapsed, pc, sample, held, lapsed>>
    BY <1>1 DEF Insert, BumpLost, StartupFailure, OtherEnd, cacheVars, verdictVars,
                claimVars, requestVars
  <2>2. NoneMissed => NoneMissed'
    BY <1>1 DEF Insert, BumpLost, StartupFailure, OtherEnd, NoneMissed, TypeOK
  <2> QED BY <2>1, <2>2, CalmCache
<1> QED BY <1>1, BumpCache, BumpHalfCache

(* A request that returns leaves nothing behind. *)
LEMMA ReturnCache ==
  ASSUME TypeOK, CacheInv, NEW c \in Claim, Return(c), NoneMissed => NoneMissed',
         UNCHANGED <<version, warm, vheld, verdict, vlapsed>>
  PROVE  CacheInv'
<1>1. /\ held' = held \ {c} /\ lapsed' = lapsed \ {c}
      /\ sample'[c] = 0 /\ pc'[c] = "idle"
      /\ \A d \in Claim \ {c} : sample'[d] = sample[d] /\ pc'[d] = pc[d]
  BY DEF Return, Goto, TypeOK
<1>2. KeyOutlives'
  BY <1>1 DEF CacheInv, KeyOutlives, Active
<1>3. SamplesKept'
  <2>1. ASSUME NEW d \in Claim \ {c}
        PROVE  (d \in held' <=> d \in held) /\ (d \in lapsed' <=> d \in lapsed)
    BY <1>1
  <2> QED BY <1>1, <2>1 DEF CacheInv, SamplesKept
<1>4. VerdictKept'
  BY DEF CacheInv, VerdictKept
<1> QED BY <1>2, <1>3, <1>4 DEF CacheInv

(* The verdict inherits what its request has. *)
LEMMA MarkCache ==
  ASSUME TypeOK, CacheInv, NEW c \in Claim, MarkEmpty(c)
  PROVE  CacheInv'
<1>1. /\ pc[c] = "mark" /\ sample[c] \in Nat
      /\ held' = held \ {c} /\ lapsed' = lapsed \ {c}
      /\ sample'[c] = 0 /\ pc'[c] = "idle"
      /\ \A d \in Claim \ {c} : sample'[d] = sample[d] /\ pc'[d] = pc[d]
      /\ UNCHANGED <<row, bump, version, warm>>
  BY DEF MarkEmpty, Return, Goto, TypeOK
<1>2. verdict' = sample[c] /\ vheld' = (c \in held) /\ vlapsed' = (c \in lapsed)
  BY DEF MarkEmpty, Tag
<1>3. NoneMissed' <=> NoneMissed
  BY <1>1 DEF NoneMissed
<1>4. KeyOutlives'
  BY <1>1, <1>2 DEF CacheInv, KeyOutlives, Active
<1>5. SamplesKept'
  <2>1. ASSUME NEW d \in Claim \ {c}
        PROVE  (d \in held' <=> d \in held) /\ (d \in lapsed' <=> d \in lapsed)
    BY <1>1
  <2> QED BY <1>1, <1>3, <2>1 DEF CacheInv, SamplesKept
<1>6. VerdictKept'
  <2>1. /\ sample[c] # 0 /\ c \notin lapsed => sample[c] <= version /\ c \in held
        /\ c \notin lapsed /\ (sample[c] = version \/ c \notin held) => NoneMissed
    BY <1>1 DEF CacheInv, SamplesKept
  <2> QED BY <1>1, <1>2, <1>3, <2>1, NoneAssumption DEF NoneAssumption, VerdictKept
<1> QED BY <1>4, <1>5, <1>6 DEF CacheInv

(* The GET and the EXPIRE. *)
LEMMA SampleCache ==
  ASSUME TypeOK, CacheInv, NEW c \in Claim,
         SampleVersion(c) \/ SampleLost(c) \/ Renew(c) \/ RenewLost(c)
  PROVE  CacheInv'
<1>1. /\ pc[c] \in {"sample", "renew"} /\ pc'[c] \in {"renew", "list"}
      /\ \A d \in Claim \ {c} : sample'[d] = sample[d] /\ pc'[d] = pc[d]
      /\ UNCHANGED <<row, bump, version, verdict, vlapsed>>
  BY DEF SampleVersion, SampleLost, Renew, RenewLost, Goto, TypeOK, cacheVars, verdictVars
<1>2. NoneMissed' <=> NoneMissed
  BY <1>1 DEF NoneMissed
<1>3. CASE Renew(c) /\ version # 0
  <2>1. /\ pc[c] = "renew" /\ pc'[c] = "list"
        /\ warm' /\ held' = Active /\ vheld' = (verdict # None)
        /\ UNCHANGED <<sample, lapsed>>
    BY <1>3 DEF Renew, RenewKey, Goto, TypeOK
  <2>2. /\ version \in Nat /\ held \subseteq Active
        /\ held # {} \/ vheld => version # 0
    BY DEF TypeOK, CacheInv, KeyOutlives
  <2>3. c \in Active
    BY <2>1 DEF Active
  <2>4. KeyOutlives'
    <3>1. Active \subseteq Active'
      BY <1>1, <2>1 DEF Active
    <3> QED BY <1>1, <1>3, <2>1, <3>1 DEF KeyOutlives
  <2>5. SamplesKept'
    <3>1. ASSUME NEW d \in Claim
          PROVE  /\ sample'[d] # 0 => pc'[d] \in Sampled
                 /\ sample'[d] # 0 /\ d \notin lapsed' => sample'[d] <= version'
                 /\ pc'[d] \in Sampled => d \in held'
      BY <1>1, <2>1, <2>3 DEF CacheInv, SamplesKept, Active, Sampled
    <3>2. ASSUME NEW d \in Claim, pc'[d] = "mark", d \notin lapsed', sample'[d] = version'
          PROVE  NoneMissed'
      BY <1>1, <1>2, <2>1, <3>2 DEF CacheInv, SamplesKept
    <3>3. \A d \in Claim : pc'[d] = "mark" => d \in held'
      BY <3>1 DEF Sampled
    <3> QED BY <3>1, <3>2, <3>3 DEF SamplesKept
  <2>6. VerdictKept'
    BY <1>1, <1>2, <1>3, <2>1 DEF CacheInv, VerdictKept
  <2> QED BY <2>4, <2>5, <2>6 DEF CacheInv
<1>4. CASE ~(Renew(c) /\ version # 0)
  <2>1. UNCHANGED <<warm, vheld, held>>
    BY <1>4 DEF SampleVersion, SampleLost, Renew, RenewLost, cacheVars
  <2>2. KeyOutlives'
    BY <1>1, <2>1 DEF CacheInv, KeyOutlives, Active
  <2>3. /\ sample'[c] # 0 => pc'[c] \in Sampled
        /\ sample'[c] # 0 /\ c \notin lapsed' =>
             sample'[c] <= version' /\ pc'[c] = "renew"
    <3>1. CASE SampleVersion(c)
      BY <3>1 DEF SampleVersion, Goto, TypeOK, Sampled, cacheVars
    <3>2. CASE SampleLost(c)
      BY <3>2 DEF SampleLost, Goto, TypeOK, cacheVars
    <3>3. CASE Renew(c)
      <4>1. version = 0 /\ UNCHANGED <<sample, lapsed>> /\ sample[c] \in Nat
        BY <1>4, <3>3 DEF Renew, TypeOK
      <4>2. sample[c] # 0 /\ c \notin lapsed => FALSE
        BY <4>1 DEF CacheInv, SamplesKept
      <4> QED BY <1>1, <3>3, <4>1, <4>2 DEF Sampled
    <3>4. CASE RenewLost(c)
      BY <1>1, <3>4 DEF RenewLost, Sampled
    <3> QED BY <3>1, <3>2, <3>3, <3>4
  <2>4. \A d \in Claim \ {c} : (d \in lapsed') = (d \in lapsed)
    BY DEF SampleVersion, SampleLost, Renew, RenewLost
  <2>5. SamplesKept'
    <3>1. \A d \in Claim \ {c} :
            /\ sample'[d] # 0 => pc'[d] \in Sampled
            /\ sample'[d] # 0 /\ d \notin lapsed' =>
                 sample'[d] <= version' /\ (pc'[d] # "renew" => d \in held')
            /\ pc'[d] = "mark" /\ d \notin lapsed'
                 /\ (sample'[d] = version' \/ d \notin held') => NoneMissed'
      BY <1>1, <1>2, <2>1, <2>4 DEF CacheInv, SamplesKept
    <3> QED BY <1>1, <2>3, <3>1 DEF SamplesKept
  <2>6. VerdictKept'
    BY <1>1, <1>2, <2>1 DEF CacheInv, VerdictKept
  <2> QED BY <2>2, <2>5, <2>6 DEF CacheInv
<1> QED BY <1>3, <1>4

(* A request marks only what it has listed. *)
LEMMA ListCache ==
  ASSUME TypeOK, CacheInv, NEW c \in Claim, ListNone(c) \/ ListSome(c)
  PROVE  CacheInv'
<1>1. /\ pc[c] = "list" /\ pc'[c] \in {"mark", "take"}
      /\ \A d \in Claim \ {c} : sample'[d] = sample[d] /\ pc'[d] = pc[d]
      /\ \A d \in Claim \ {c} : (d \in lapsed') = (d \in lapsed)
      /\ UNCHANGED <<row, bump, version, warm, vheld, verdict, vlapsed, held>>
  BY DEF ListNone, ListSome, Goto, TypeOK, cacheVars, verdictVars
<1>2. NoneMissed' <=> NoneMissed
  BY <1>1 DEF NoneMissed
<1>3. KeyOutlives'
  BY <1>1 DEF CacheInv, KeyOutlives, Active
<1>4. pc'[c] = "mark" =>
        sample'[c] = sample[c] /\ (c \in lapsed' <=> c \in lapsed) /\ NoneMissed
  BY DEF ListNone, ListSome, Goto, TypeOK, NoneMissed
<1>5. pc'[c] = "take" => sample'[c] = 0
  BY DEF ListNone, ListSome, Goto, TypeOK
<1>6. SamplesKept'
  <2>1. \A d \in Claim \ {c} :
          /\ sample'[d] # 0 => pc'[d] \in Sampled
          /\ sample'[d] # 0 /\ d \notin lapsed' =>
               sample'[d] <= version' /\ (pc'[d] # "renew" => d \in held')
          /\ pc'[d] = "mark" /\ d \notin lapsed'
               /\ (sample'[d] = version' \/ d \notin held') => NoneMissed'
    BY <1>1, <1>2 DEF CacheInv, SamplesKept
  <2>2. sample[c] # 0 /\ c \notin lapsed => sample[c] <= version /\ c \in held
    BY <1>1 DEF CacheInv, SamplesKept
  <2> QED BY <1>1, <1>2, <1>4, <1>5, <2>1, <2>2 DEF SamplesKept, Sampled
<1>7. VerdictKept'
  BY <1>1, <1>2 DEF CacheInv, VerdictKept
<1> QED BY <1>3, <1>6, <1>7 DEF CacheInv

LEMMA ClaimCache ==
  ASSUME TypeOK, CacheInv, ClaimNext
  PROVE  CacheInv'
<1> PICK c \in Claim : ClaimStep(c) \/ ClaimFault(c)
  BY DEF ClaimNext
<1>1. ASSUME CacheMiss(c) \/ CacheUnreachable(c) \/ PassGate(c) \/ PassUnread(c)
      PROVE  CacheInv'
  <2>1. /\ pc[c] \in {"idle", "gate"} /\ pc'[c] \in {"gate", "sample"}
        /\ \A d \in Claim \ {c} : pc'[d] = pc[d]
        /\ UNCHANGED <<row, bump, version, warm, vheld, verdict, vlapsed, sample, held, lapsed>>
    BY <1>1 DEF CacheMiss, CacheUnreachable, PassGate, PassUnread, Goto, TypeOK,
                cacheVars, verdictVars
  <2>2. NoneMissed' <=> NoneMissed
    BY <2>1 DEF NoneMissed
  <2>3. KeyOutlives'
    BY <2>1 DEF CacheInv, KeyOutlives, Active
  <2>4. SamplesKept'
    <3>1. sample[c] = 0
      BY <2>1 DEF CacheInv, SamplesKept, Sampled
    <3> QED BY <2>1, <2>2, <3>1 DEF CacheInv, SamplesKept
  <2>5. VerdictKept'
    BY <2>1, <2>2 DEF CacheInv, VerdictKept
  <2> QED BY <2>3, <2>4, <2>5 DEF CacheInv
<1>2. ASSUME TakeNone(c) \/ Parked(c) \/ Abort(c)
      PROVE  CacheInv'
  <2>1. Return(c) /\ UNCHANGED <<row, bump, version, warm, vheld, verdict, vlapsed>>
    BY <1>2 DEF TakeNone, Parked, Abort, cacheVars, verdictVars
  <2>2. NoneMissed' <=> NoneMissed
    BY <2>1 DEF NoneMissed
  <2> QED BY <2>1, <2>2, ReturnCache
<1>3. ASSUME NEW r \in Row, Take(c, r)
      PROVE  CacheInv'
  <2>1. Return(c) /\ UNCHANGED <<version, warm, vheld, verdict, vlapsed>>
    BY <1>3 DEF Take, cacheVars, verdictVars
  <2>2. NoneMissed => NoneMissed'
    BY <1>3 DEF Take, NoneMissed, TypeOK
  <2> QED BY <2>1, <2>2, ReturnCache
<1> QED BY <1>1, <1>2, <1>3, MarkCache, SampleCache, ListCache
        DEF ClaimStep, ClaimFault

(* Time: the key goes when nobody is left of those who knew it.              *)
LEMMA TimeCache ==
  ASSUME TypeOK, CacheInv, TimeNext
  PROVE  CacheInv'
<1>1. UNCHANGED <<row, bump, pc, sample, held>>
  BY DEF TimeNext, ExpireVerdict, Cool, ExpireVersion, Cooldown, claimVars, requestVars
<1>2. NoneMissed' <=> NoneMissed
  BY <1>1 DEF NoneMissed
<1>3. CASE ExpireVerdict
  <2>1. /\ verdict' = None /\ ~vheld' /\ ~vlapsed'
        /\ UNCHANGED <<version, warm, lapsed>>
    BY <1>3 DEF ExpireVerdict, claimVars, requestVars
  <2> QED BY <1>1, <1>2, <2>1 DEF CacheInv, KeyOutlives, SamplesKept, VerdictKept, Active
<1>4. CASE Cool
  <2>1. /\ held = {} /\ ~vheld /\ UNCHANGED <<version, verdict, vlapsed, vheld, lapsed>>
        /\ ~warm'
    BY <1>4 DEF Cool, claimVars, requestVars, verdictVars
  <2> QED BY <1>1, <1>2, <2>1 DEF CacheInv, KeyOutlives, SamplesKept, VerdictKept, Active
<1>5. CASE ExpireVersion
  <2>1. /\ ~warm /\ version' = 0 /\ UNCHANGED <<warm, verdict, vlapsed, vheld>>
        /\ lapsed' = lapsed \cup {c \in Claim : pc[c] = "renew"}
    BY <1>5 DEF ExpireVersion, verdictVars
  <2>2. held = {} /\ ~vheld
    BY <2>1 DEF CacheInv, KeyOutlives
  <2>3. KeyOutlives'
    BY <1>1, <2>1, <2>2 DEF KeyOutlives
  <2>4. SamplesKept'
    <3>1. ASSUME NEW c \in Claim
          PROVE  /\ sample'[c] # 0 => pc'[c] \in Sampled
                 /\ sample'[c] # 0 => c \in lapsed'
                 /\ pc'[c] = "mark" /\ c \notin lapsed' => NoneMissed'
      BY <1>1, <1>2, <2>1, <2>2 DEF CacheInv, SamplesKept
    <3> QED BY <3>1 DEF SamplesKept
  <2>5. VerdictKept'
    BY <1>2, <2>1, <2>2 DEF CacheInv, VerdictKept
  <2> QED BY <2>3, <2>4, <2>5 DEF CacheInv
<1>6. CASE Cooldown
  <2>1. UNCHANGED <<version, warm, vheld, verdict, vlapsed, pc, sample, held, lapsed>>
    BY <1>6 DEF Cooldown, cacheVars, verdictVars
  <2> QED BY <1>2, <2>1, CalmCache
<1> QED BY <1>3, <1>4, <1>5, <1>6 DEF TimeNext

LEMMA NextCache ==
  ASSUME TypeOK, CacheInv, [Next]_vars
  PROVE  CacheInv'
<1>1. CASE UNCHANGED vars
  <2>1. /\ UNCHANGED <<version, warm, vheld, verdict, vlapsed, pc, sample, held, lapsed>>
        /\ UNCHANGED <<row, bump>>
    BY <1>1 DEF vars, cacheVars, verdictVars, claimVars, requestVars
  <2>2. NoneMissed => NoneMissed'
    BY <2>1 DEF NoneMissed
  <2> QED BY <2>1, <2>2, CalmCache
<1> QED BY <1>1, RowCache, ClaimCache, TimeCache DEF Next

(* The invariant of the cache, whatever is lost and however slow a claim is. *)
THEOREM CacheInvariant == Spec => []CacheInv
BY InitCache, NextCache, TypeCorrect, PTL DEF Spec

(* A trusted verdict whose key has missed no renewal hides no row whose       *)
(* enqueue has bumped the version.                                            *)
THEOREM VerdictSoundness == Spec => []VerdictSound
<1>1. TypeOK /\ CacheInv => VerdictSound
  BY NoneAssumption DEF NoneAssumption, TypeOK, CacheInv, VerdictKept, VerdictSound, IsEmpty
<1> QED BY <1>1, TypeCorrect, CacheInvariant, PTL

-----------------------------------------------------------------------------
(* The breaker *)

LEMMA FiniteSets ==
  ASSUME TypeOK
  PROVE  /\ IsFiniteSet(late) /\ Cardinality(late) \in Nat
         /\ IsFiniteSet(Past) /\ Cardinality(Past) \in Nat
         /\ Cardinality(Past) <= Cardinality(Claim)
         /\ Cardinality(Claim) \in Nat
         /\ Cardinality({}) = 0
<1>1. Past \subseteq Claim /\ late \subseteq Row
  BY DEF Past, TypeOK
<1> QED BY <1>1, RowAssumption, ClaimAssumption, FS_Subset, FS_CardinalityType,
           FS_EmptySet DEF RowAssumption, ClaimAssumption

LEMMA InitBurn == Init => BurnInv
BY ThresholdAssumption DEF ThresholdAssumption, Init, BurnInv, BreakerClosed

(* A request that does not get past the gate leaves the account as it is. *)
LEMMA PastShrinks ==
  ASSUME TypeOK, TypeOK', BurnInv, Past' \subseteq Past,
         UNCHANGED <<late, streak, fresh>>
  PROVE  BurnInv'
<1>1. Cardinality(Past') <= Cardinality(Past)
  BY FiniteSets, FS_Subset
<1>2. Cardinality(Past') \in Nat
  BY FiniteSets, FS_Subset, FS_CardinalityType
<1> QED BY <1>1, <1>2, FiniteSets DEF BurnInv, BreakerClosed

LEMMA RowBurn ==
  ASSUME TypeOK, BurnInv, RowNext
  PROVE  BurnInv'
<1>0. TypeOK'
  BY RowType
<1> PICK r \in Row :
      \/ Insert(r) \/ Bump(r) \/ BumpLost(r) \/ BumpHalf(r)
      \/ StartupFailure(r) \/ OtherEnd(r)
  BY DEF RowNext
<1>1. CASE Insert(r) \/ Bump(r) \/ BumpLost(r) \/ BumpHalf(r)
  <2>1. UNCHANGED <<late, streak, fresh, pc, blind>>
    BY <1>1 DEF Insert, Bump, BumpLost, BumpHalf, breakerVars, claimVars, requestVars
  <2> QED BY <2>1 DEF BurnInv, BreakerClosed, Past
<1>2. CASE StartupFailure(r)
  <2>1. UNCHANGED <<late, pc>> /\ Past' = Past
    BY <1>2 DEF StartupFailure, claimVars, requestVars, Past
  <2>2. CASE late = {}
    BY <2>1, <2>2, FiniteSets DEF BurnInv
  <2>3. CASE late # {}
    <3>1. BreakerClosed
      BY <2>3 DEF BurnInv
    <3>2. BreakerClosed'
      BY <3>1, <1>2, ThresholdAssumption DEF StartupFailure, BreakerClosed
    <3> QED BY <3>1, <3>2, <2>1 DEF BurnInv
  <2> QED BY <2>2, <2>3
<1>3. CASE OtherEnd(r)
  BY <1>3, ThresholdAssumption DEF ThresholdAssumption, OtherEnd, BurnInv, BreakerClosed
<1> QED BY <1>1, <1>2, <1>3

LEMMA ClaimBurn ==
  ASSUME TypeOK, BurnInv, ClaimNext
  PROVE  BurnInv'
<1>0. TypeOK'
  BY ClaimType
<1> PICK c \in Claim : ClaimStep(c) \/ ClaimFault(c)
  BY DEF ClaimNext
<1> USE DEF TypeOK, breakerVars, Goto, Return
<1>1. CASE PassGate(c)
  <2>1. ~BreakerClosed' /\ late' = late /\ ~BreakerClosed
    BY <1>1 DEF PassGate, BreakerClosed
  <2> QED BY <2>1 DEF BurnInv
<1>2. CASE \/ CacheMiss(c) \/ CacheUnreachable(c) \/ PassUnread(c)
           \/ SampleVersion(c) \/ SampleLost(c) \/ Renew(c) \/ RenewLost(c)
           \/ ListNone(c) \/ ListSome(c) \/ MarkEmpty(c) \/ TakeNone(c)
           \/ Parked(c) \/ Abort(c)
  <2>1. Past' \subseteq Past
    BY <1>2 DEF Past, CacheMiss, CacheUnreachable, PassUnread, SampleVersion, SampleLost,
                Renew, RenewLost, ListNone, ListSome, MarkEmpty, TakeNone, Parked, Abort
  <2>2. UNCHANGED <<late, streak, fresh>>
    BY <1>2 DEF CacheMiss, CacheUnreachable, PassUnread, SampleVersion, SampleLost,
                Renew, RenewLost, ListNone, ListSome, MarkEmpty, TakeNone, Parked, Abort
  <2> QED BY <1>0, <2>1, <2>2, PastShrinks
<1>3. ASSUME NEW r \in Row, Take(c, r)
      PROVE  BurnInv'
  <2>1. Past' = Past \ {c} /\ pc[c] = "take"
    BY <1>3 DEF Take, Past
  <2>2. UNCHANGED <<streak, fresh>>
    BY <1>3 DEF Take
  <2>3. CASE BreakerClosed /\ c \notin blind
    <3>1. late' = late \cup {r} /\ c \in Past
      BY <1>3, <2>1, <2>3 DEF Take, Past
    <3>2. Cardinality(late') <= Cardinality(late) + 1 /\ Cardinality(late') \in Nat
      <4>1. IsFiniteSet(late) /\ Cardinality(late) \in Nat
        BY FiniteSets
      <4>2. Cardinality(late \cup {r}) =
              IF r \in late THEN Cardinality(late) ELSE Cardinality(late) + 1
        BY <4>1, FS_AddElement
      <4> QED BY <3>1, <4>1, <4>2
    <3>3. Cardinality(Past') = Cardinality(Past) - 1
      BY <2>1, <3>1, FiniteSets, FS_RemoveElement
    <3> QED BY <2>2, <2>3, <3>2, <3>3, FiniteSets DEF BurnInv, BreakerClosed
  <2>4. CASE BreakerClosed /\ c \in blind
    <3>1. late' = late /\ Past' \subseteq Past
      BY <1>3, <2>1, <2>4 DEF Take
    <3> QED BY <1>0, <2>2, <3>1, PastShrinks
  <2>5. CASE ~BreakerClosed
    BY <1>3, <2>2, <2>5 DEF Take, BurnInv, BreakerClosed
  <2> QED BY <2>3, <2>4, <2>5
<1> QED BY <1>1, <1>2, <1>3 DEF ClaimStep, ClaimFault

LEMMA TimeBurn ==
  ASSUME TypeOK, BurnInv, TimeNext
  PROVE  BurnInv'
<1>1. CASE Cooldown
  BY <1>1 DEF Cooldown, BurnInv, BreakerClosed
<1>2. CASE ExpireVerdict \/ Cool \/ ExpireVersion
  <2>1. UNCHANGED <<late, streak, fresh, pc, blind>>
    BY <1>2 DEF ExpireVerdict, Cool, ExpireVersion, breakerVars, claimVars, requestVars
  <2> QED BY <2>1 DEF BurnInv, BreakerClosed, Past
<1> QED BY <1>1, <1>2 DEF TimeNext

LEMMA NextBurn ==
  ASSUME TypeOK, BurnInv, [Next]_vars
  PROVE  BurnInv'
<1>1. CASE UNCHANGED vars
  BY <1>1 DEF vars, breakerVars, claimVars, requestVars, BurnInv, BreakerClosed, Past
<1> QED BY <1>1, RowBurn, ClaimBurn, TimeBurn DEF Next

(* The account the breaker keeps: late rows against requests past the gate. *)
THEOREM BurnInvariant == Spec => []BurnInv
BY InitBurn, NextBurn, TypeCorrect, PTL DEF Spec

(* A closing breaker lets each request in flight dispatch one row at most, if *)
(* it can read the history.                                                   *)
THEOREM BurnBound == Spec => []BurnBounded
<1>1. TypeOK /\ BurnInv => BurnBounded
  BY FiniteSets DEF BurnInv, BurnBounded
<1> QED BY <1>1, TypeCorrect, BurnInvariant, PTL

=============================================================================
