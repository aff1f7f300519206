----------------------------- MODULE HostProofs -----------------------------
(***************************************************************************)
(* Theorems about the resource leases, the two stages that act under one,  *)
(* and the line lock of a machine, for any resources, users, runs, lease   *)
(* time, launches and bounds.                                              *)
(*                                                                         *)
(* Of the leases: LeaseTypeOK is inductive; besides the types it says that *)
(* no lease object is ahead of its row's token.  A lost lease stays lost   *)
(* because a row that changes hands gets a token above every object's.     *)
(*                                                                         *)
(* Of the stages: as long as no execution lost its lease (and what was     *)
(* left to GitHub and the provider fell into no execution), one run        *)
(* deploys at a time, the recorded good commit works, and a merge lands on *)
(* the tip that was tested.  The lease is only per RUN: executions of one  *)
(* run share it, and nothing keeps them apart.  So the invariant says that *)
(* every acting execution passes is_held_by, that two which act on one     *)
(* resource are of one run, and that such a run is known as overlapped.    *)
(*                                                                         *)
(* Of the lock: a holder's lock is in place, or in the hands of a launch   *)
(* that misjudged it and will not delete it.                               *)
(***************************************************************************)
EXTENDS FencedStages, LineLock, TLAPS

-----------------------------------------------------------------------------
\* The leases by themselves.

\* A lease object that no longer passes is_held_by does not pass it in the next state.
NoneRevived == \A u \in Users : held'[u] = held[u] /\ ~ IsHeldBy(u) => ~ IsHeldBy(u)'

\* What acquire makes of a row: a row again, with the same token if the run holds it, and
\* with the next one otherwise.
LEMMA TakenRow ==
  ASSUME ResourceAssumption, rclock \in Nat, NEW row \in Row, NEW u \in Users
  PROVE  /\ LeaseTaken(row, HolderOf[u]) \in Row
         /\ LeaseTaken(row, HolderOf[u]).token \in {row.token, row.token + 1}
         /\ LeaseTaken(row, HolderOf[u]).token = row.token =>
              /\ Unexpired(row)
              /\ LeaseTaken(row, HolderOf[u]).holder = row.holder
<1>1. rclock + LeaseTtl \in Nat /\ row.token + 1 \in Nat /\ row.token + 1 # row.token
  BY DEF ResourceAssumption, Row
<1>2. HolderOf[u] \in LeaseRuns
  BY DEF LeaseRuns
<1>3. CASE Unexpired(row) /\ row.holder = HolderOf[u]
  BY <1>1, <1>3 DEF LeaseTaken, Row
<1>4. CASE ~ (Unexpired(row) /\ row.holder = HolderOf[u])
  BY <1>1, <1>2, <1>4 DEF LeaseTaken, Row
<1> QED  BY <1>3, <1>4

\* The initial rows are absent and no user has a lease.
LEMMA InitTyped == LeaseInit => LeaseTypeOK
  BY DEF LeaseInit, LeaseTypeOK, Row, NoRow, NotHeld

\* acquire keeps the types, puts the new object level with its row and no other ahead.
LEMMA AcquireTyped ==
  ASSUME ResourceAssumption, LeaseTypeOK, NEW u \in Users, NEW r \in Resources, AcquireLease(u, r)
  PROVE  LeaseTypeOK'
<1> DEFINE taken == LeaseTaken(rows[r], HolderOf[u])
<1>1. rows[r] \in Row /\ rows[r].token \in Nat
  BY DEF LeaseTypeOK, Row
<1>2. taken \in Row /\ taken.token \in Nat /\ rows[r].token =< taken.token
  BY <1>1, TakenRow, SMTT(30) DEF LeaseTypeOK, Row
<1>3. rows' = [rows EXCEPT ![r] = taken]
  BY DEF AcquireLease
<1>4. held' = [held EXCEPT ![u] = [resource |-> r, token |-> taken.token]] /\ rclock' = rclock
  BY DEF AcquireLease
<1> HIDE DEF taken
<1>5. rows' \in [Resources -> Row] /\ rclock' \in Nat
  BY <1>2, <1>3, <1>4 DEF LeaseTypeOK
<1>6. held' \in [Users -> [resource : Resources \cup {NoOne}, token : Nat]]
  BY <1>2, <1>4 DEF LeaseTypeOK
<1>7. ASSUME NEW v \in Users, held'[v].token # 0
      PROVE  held'[v].resource \in Resources /\ held'[v].token =< rows'[held'[v].resource].token
  <2>1. CASE v = u
    BY <2>1, <1>2, <1>3, <1>4 DEF LeaseTypeOK
  <2>2. CASE v # u
    <3>1. held'[v] = held[v] /\ held[v].resource \in Resources
      BY <2>2, <1>4, <1>7 DEF LeaseTypeOK
    <3>2. held[v].token \in Nat /\ held[v].token =< rows[held[v].resource].token
      BY <1>7, <3>1 DEF LeaseTypeOK
    <3>3. CASE held[v].resource = r
      BY <3>1, <3>2, <3>3, <1>1, <1>2, <1>3 DEF LeaseTypeOK
    <3>4. CASE held[v].resource # r
      BY <3>1, <3>2, <3>4, <1>3 DEF LeaseTypeOK
    <3> QED  BY <3>3, <3>4
  <2> QED  BY <2>1, <2>2
<1> QED  BY <1>5, <1>6, <1>7 DEF LeaseTypeOK

\* The other calls change no token of a row and give nobody a lease.
LEMMA KeptTyped ==
  ASSUME LeaseTypeOK, rows' \in [Resources -> Row], rclock' \in Nat,
         \A r \in Resources : rows'[r].token = rows[r].token,
         held' = held \/ \E u \in Users : held' = [held EXCEPT ![u] = NotHeld]
  PROVE  LeaseTypeOK'
<1>1. held' \in [Users -> [resource : Resources \cup {NoOne}, token : Nat]]
  BY DEF LeaseTypeOK, NotHeld
<1>2. \A v \in Users : held'[v].token # 0 => held'[v] = held[v]
  BY DEF LeaseTypeOK, NotHeld
<1> QED  BY <1>1, <1>2 DEF LeaseTypeOK

\* No call gives back a lease that was lost, and each keeps the types.
LEMMA StepKeeps ==
  ASSUME ResourceAssumption, LeaseTypeOK, [LeaseNext]_leaseVars
  PROVE  LeaseTypeOK' /\ NoneRevived
<1> DEFINE RowsKept == /\ rows' \in [Resources -> Row] /\ rclock' \in Nat /\ rclock =< rclock'
                       /\ \A r \in Resources : /\ rows'[r].token = rows[r].token
                                               /\ rows'[r].holder = rows[r].holder
                                               /\ rows'[r].status = "active" =>
                                                    /\ rows[r].status = "active"
                                                    /\ rows'[r].expires > rows[r].expires => rows[r].expires > rclock
                       /\ held' = held \/ \E u \in Users : held' = [held EXCEPT ![u] = NotHeld]
<1>0. /\ rclock \in Nat /\ rclock =< rclock
      /\ \A r \in Resources : rows[r].expires \in Nat /\ ~ (rows[r].expires > rows[r].expires)
  BY DEF LeaseTypeOK, Row
<1>1. ASSUME RowsKept PROVE LeaseTypeOK' /\ NoneRevived
  <2>1. LeaseTypeOK'
    BY <1>1, KeptTyped
  <2>2. ASSUME NEW u \in Users, held'[u] = held[u], ~ IsHeldBy(u), IsHeldBy(u)'
        PROVE  FALSE
    <3> DEFINE r == held[u].resource
    <3>1. r \in Resources /\ rows'[r].holder = HolderOf[u] /\ rows'[r].token = held[u].token
      BY <2>2 DEF IsHeldBy, Mine, LeaseTypeOK
    <3>2. rows'[r].status = "active" /\ rows'[r].expires > rclock'
      BY <2>2 DEF IsHeldBy, Mine
    <3>3. Mine(u)
      BY <1>1, <2>2, <3>1, <3>2 DEF Mine, IsHeldBy
    <3>4. rows[r].expires \in Nat /\ rows'[r].expires \in Nat /\ rclock \in Nat /\ rclock' \in Nat
      BY <1>1, <3>1 DEF LeaseTypeOK, Row
    <3>5. ~ (rows[r].expires > rclock)
      BY <3>3, <2>2 DEF IsHeldBy
    <3>6. ~ (rows'[r].expires > rows[r].expires)
      BY <1>1, <3>1, <3>2, <3>5
    <3> QED  BY <1>1, <3>2, <3>4, <3>5, <3>6
  <2> QED  BY <2>1, <2>2 DEF NoneRevived
<1>2. CASE LeaseTick
  BY <1>1, <1>2 DEF LeaseTick, LeaseTypeOK, Row
<1>3. CASE UNCHANGED leaseVars
  <2>1. rows' = rows /\ held' = held /\ rclock' = rclock
    BY <1>3 DEF leaseVars
  <2>2. RowsKept
    BY <2>1, <1>0 DEF LeaseTypeOK
  <2> QED  BY <2>2, <1>1
<1>4. ASSUME NEW u \in Users, HeartbeatLease(u) PROVE RowsKept
  <2> DEFINE r == held[u].resource
  <2>1. r \in Resources /\ rows[r].expires > rclock
    BY <1>4 DEF HeartbeatLease, IsHeldBy, Mine, LeaseTypeOK
  <2>2. rows' = [rows EXCEPT ![r].expires = rclock + LeaseTtl] /\ held' = held /\ rclock' = rclock
    BY <1>4 DEF HeartbeatLease
  <2>3. rclock + LeaseTtl \in Nat
    BY DEF ResourceAssumption, LeaseTypeOK
  <2> HIDE DEF r
  <2> QED  BY <2>1, <2>2, <2>3 DEF LeaseTypeOK, Row
<1>5. ASSUME NEW u \in Users, ReleaseLease(u) PROVE RowsKept
  <2> DEFINE r == held[u].resource
  <2>1. held' = [held EXCEPT ![u] = NotHeld] /\ rclock' = rclock
    BY <1>5 DEF ReleaseLease
  <2>2. r \in Resources
    BY <1>5 DEF ReleaseLease, LeaseTypeOK
  <2>3. CASE Mine(u)
    <3>1. rows' = [rows EXCEPT ![r].status = "released", ![r].expires = rclock]
      BY <1>5, <2>3 DEF ReleaseLease
    <3> HIDE DEF r
    <3>2. \A q \in Resources : rows'[q] = IF q = r THEN [rows[q] EXCEPT !.status = "released", !.expires = rclock]
                                          ELSE rows[q]
      BY <3>1, <2>2 DEF LeaseTypeOK
    <3>3. rows' \in [Resources -> Row]
      <4>1. ASSUME NEW row \in Row PROVE [row EXCEPT !.status = "released", !.expires = rclock] \in Row
        BY <1>0 DEF Row
      <4>2. ASSUME NEW q \in Resources PROVE rows[q] \in Row
        BY DEF LeaseTypeOK
      <4>3. rows' = [q \in Resources |-> rows'[q]]
        BY <3>1 DEF LeaseTypeOK
      <4>4. ASSUME NEW q \in Resources PROVE rows'[q] \in Row
        BY <3>2, <4>1, <4>2
      <4> QED  BY <4>3, <4>4
    <3>4. \A q \in Resources : /\ rows'[q].token = rows[q].token /\ rows'[q].holder = rows[q].holder
                               /\ rows'[q].status = "active" =>
                                    /\ rows[q].status = "active"
                                    /\ rows'[q].expires > rows[q].expires => rows[q].expires > rclock
      <4>1. ASSUME NEW q \in Resources, q # r
            PROVE  rows'[q] = rows[q]
        BY <4>1, <3>2
      <4>2. /\ rows'[r].token = rows[r].token /\ rows'[r].holder = rows[r].holder
            /\ rows'[r].status = "released"
        BY <3>2, <2>2 DEF LeaseTypeOK, Row
      <4> QED  BY <4>1, <4>2, <1>0
    <3> QED  BY <2>1, <3>3, <3>4, <1>0
  <2>4. CASE ~ Mine(u)
    <3>1. rows' = rows
      BY <1>5, <2>4 DEF ReleaseLease
    <3> QED  BY <3>1, <2>1, <1>0 DEF LeaseTypeOK
  <2> QED  BY <2>3, <2>4
<1>6. ASSUME NEW u \in Users, ForgetLease(u) PROVE RowsKept
  BY <1>6, <1>0 DEF ForgetLease, LeaseTypeOK
<1>7. ASSUME NEW u \in Users, NEW r \in Resources, AcquireLease(u, r) PROVE NoneRevived
  <2> DEFINE taken == LeaseTaken(rows[r], HolderOf[u])
  <2>1. rows' = [rows EXCEPT ![r] = taken] /\ rclock' = rclock
    BY <1>7 DEF AcquireLease
  <2>2. /\ rows[r] \in Row /\ taken.token \in {rows[r].token, rows[r].token + 1}
        /\ taken.token = rows[r].token => Unexpired(rows[r]) /\ taken.holder = rows[r].holder
    BY TakenRow DEF LeaseTypeOK
  <2> HIDE DEF taken
  <2>3. ASSUME NEW v \in Users, held'[v] = held[v], ~ IsHeldBy(v), IsHeldBy(v)'
        PROVE  FALSE
    <3>1. /\ held[v].token # 0 /\ held[v].resource \in Resources /\ held[v].token \in Nat
          /\ held[v].token =< rows[held[v].resource].token
      BY <2>3 DEF IsHeldBy, Mine, LeaseTypeOK
    <3>2. held[v].resource = r
      BY <2>1, <2>3, <3>1 DEF IsHeldBy, Mine, LeaseTypeOK
    <3>3. rows'[r] = taken
      BY <2>1 DEF LeaseTypeOK
    <3>4. taken.holder = HolderOf[v] /\ taken.token = held[v].token
      BY <2>3, <3>2, <3>3 DEF IsHeldBy, Mine
    <3>5. taken.token = rows[r].token
      BY <2>2, <3>1, <3>2, <3>4 DEF Row
    <3> QED  BY <2>2, <2>3, <3>1, <3>2, <3>4, <3>5 DEF IsHeldBy, Mine, Unexpired
  <2> QED  BY <2>3 DEF NoneRevived
<1> QED
  BY <1>1, <1>2, <1>3, <1>4, <1>5, <1>6, <1>7, AcquireTyped DEF LeaseNext, ResourceCalls

\* Types, and no lease object ahead of its row, whatever users crash or come late.
THEOREM LeasesTyped == ASSUME ResourceAssumption PROVE LeaseSpec => []LeaseTypeOK
<1>1. LeaseInit => LeaseTypeOK
  BY InitTyped
<1>2. ResourceAssumption /\ LeaseTypeOK /\ [LeaseNext]_leaseVars => LeaseTypeOK'
  BY StepKeeps
<1> QED  BY <1>1, <1>2, PTL DEF LeaseSpec

\* is_held_by never turns true again for a lease object that has lost its lease, for any
\* number of runs, executions and resources.
THEOREM LostForGood == ASSUME ResourceAssumption PROVE LeaseSpec => LostStaysLost
<1>1. ResourceAssumption /\ LeaseTypeOK /\ [LeaseNext]_leaseVars => [NoneRevived]_leaseVars
  BY StepKeeps
<1>2. LeaseSpec => []LeaseTypeOK
  BY LeasesTyped
<1> QED  BY <1>1, <1>2, PTL DEF LeaseSpec, LostStaysLost, NoneRevived

-----------------------------------------------------------------------------
\* The stages that act under them.

\* Where a handler is between its acquire and its return.
Under == {"leased", "rebased", "checked", "merged", "deploying", "deployed", "smoking", "rollback"}
OfIntegration == {"rebased", "checked", "merged"}
OfRelease     == {"deploying", "deployed", "smoking", "rollback"}
Places == {"idle", "success", "failed", "acquire"} \cup Under

\* The types the invariant needs, and: a row in use has a token.
StagesTyped ==
  /\ LeaseTypeOK
  /\ \A r \in Resources : rows[r].status = "active" => rows[r].token # 0
  /\ at \in [Users -> Places]
  /\ tip \in Nat /\ base \in [Users -> Int]
  /\ seen \in [Users -> [good : LeaseRuns \cup {First, NoOne}, strikes : [LeaseRuns -> Nat]]]
  /\ strikes \in [LeaseRuns -> Nat] /\ lastGood \in LeaseRuns \cup {First, NoOne}

\* A run with two executions of one stage is known as such.
Overlaps == \A u, v \in Users : u # v /\ SameStage(u, v) /\ Running(u) /\ Running(v) => HolderOf[u] \in overlapped

\* A stage does its own work, on its own resource.
OwnWork == \A u \in Users :
  /\ at[u] \in OfIntegration => StageOfUser[u] = "integration"
  /\ at[u] \in OfRelease => StageOfUser[u] = "release"
  /\ held[u].token # 0 => held[u].resource = ResourceOf(u)

\* An execution that acts holds the lease of its resource.
Fenced == \A u \in Users : at[u] \in Under => IsHeldBy(u) /\ held[u].resource = ResourceOf(u)

\* What was deployed is still installed when it is smoked, unless the run overlapped.
StillInstalled == \A u \in Users :
  at[u] \in {"deployed", "smoking"} /\ HolderOf[u] \notin overlapped => installed = HolderOf[u]

\* No state of the release stage, recorded or loaded, names a commit that does not work, but
\* for runs that overlapped.
Good == Working \cup {First, NoOne} \cup overlapped
GoodWorks == lastGood \in Good /\ \A u \in Users : seen[u].good \in Good

\* What was rebased is still on top of the branch, or another execution of its run merged it.
OnTip == \A u \in Users : at[u] \in {"rebased", "checked"} => base[u] = tip \/ HolderOf[u] \in merged

Kept == Fenced /\ StillInstalled /\ GoodWorks /\ OnTip

StagesInv == StagesTyped /\ Overlaps /\ OwnWork /\ (unfenced \/ Kept)

\* The calls a step of an execution may make on the leases; a release under another
\* execution is counted as unfenced.
LeaseCall(v) == \/ UNCHANGED leaseVars \/ AcquireLease(v, ResourceOf(v)) \/ ForgetLease(v)
                \/ ReleaseLease(v) /\ (FreesAnother(v) => unfenced')

-----------------------------------------------------------------------------
\* Every user's resource is one of the two, and names its stage.
LEMMA Resource ==
  ASSUME StageAssumption, NEW u \in Users, NEW v \in Users
  PROVE  /\ ResourceOf(u) \in Resources
         /\ ResourceOf(u) = ResourceOf(v) <=> StageOfUser[u] = StageOfUser[v]
  BY DEF StageAssumption, ResourceOf

\* Two executions of one stage that act at the same time are of one run, which overlapped.
LEMMA OneActs ==
  ASSUME StageAssumption, Overlaps, Fenced, NEW u \in Users, NEW v \in Users, u # v,
         at[u] \in Under, at[v] \in Under, StageOfUser[u] = StageOfUser[v]
  PROVE  HolderOf[u] = HolderOf[v] /\ HolderOf[u] \in overlapped
<1>1. IsHeldBy(u) /\ IsHeldBy(v) /\ held[u].resource = held[v].resource
  BY Resource DEF Fenced
<1>2. HolderOf[u] = HolderOf[v]
  BY <1>1 DEF IsHeldBy, Mine
<1>3. Running(u) /\ Running(v)
  BY DEF Running, Under
<1> QED  BY <1>2, <1>3 DEF Overlaps, SameStage

\* acquire renews the lease of another execution of the run.
LEMMA Renewed ==
  ASSUME ResourceAssumption, LeaseTypeOK, NEW u \in Users, NEW v \in Users, u # v,
         NEW r \in Resources, IsHeldBy(u), held[u].resource = r, AcquireLease(v, r)
  PROVE  IsHeldBy(u)' /\ held'[u] = held[u]
<1>1. /\ rows[r].holder = HolderOf[u] /\ rows[r].status = "active" /\ rows[r].expires > rclock
      /\ rows[r].token = held[u].token /\ held[u].token # 0 /\ rows[r] \in Row
  BY DEF IsHeldBy, Mine, LeaseTypeOK
<1>2. HolderOf[v] = HolderOf[u] /\ Unexpired(rows[r])
  BY <1>1 DEF AcquireLease, Free, Unexpired
<1>3. LeaseTaken(rows[r], HolderOf[v]) = [rows[r] EXCEPT !.expires = rclock + LeaseTtl]
  BY <1>1, <1>2 DEF LeaseTaken
<1>4. rows' = [rows EXCEPT ![r] = [rows[r] EXCEPT !.expires = rclock + LeaseTtl]] /\ rclock' = rclock
  BY <1>3 DEF AcquireLease
<1>5. rows'[r] = [rows[r] EXCEPT !.expires = rclock + LeaseTtl]
  BY <1>4 DEF LeaseTypeOK
<1>6. rows'[r].expires = rclock + LeaseTtl /\ rclock + LeaseTtl > rclock
  BY <1>1, <1>5 DEF Row, ResourceAssumption, LeaseTypeOK
<1>7. /\ rows'[r].holder = HolderOf[u] /\ rows'[r].status = "active"
      /\ rows'[r].token = held[u].token
  BY <1>1, <1>5 DEF Row
<1>8. held'[u] = held[u]
  BY DEF AcquireLease, LeaseTypeOK
<1> QED  BY <1>1, <1>4, <1>6, <1>7, <1>8 DEF IsHeldBy, Mine

\* An execution's lease survives what the others do: another run finds the row taken, and
\* an execution of the same run renews it, or frees it, which is counted.
LEMMA OthersKeep ==
  ASSUME StageAssumption, ResourceAssumption, LeaseTypeOK, OwnWork, Fenced,
         NEW u \in Users, NEW v \in Users, u # v, at[u] \in Under, LeaseCall(v), ~ unfenced'
  PROVE  IsHeldBy(u)' /\ held'[u] = held[u]
<1> DEFINE r == ResourceOf(u)
<1>1. IsHeldBy(u) /\ held[u].resource = r /\ r \in Resources /\ held[u].token # 0
  BY Resource DEF Fenced, IsHeldBy, Mine
<1>2. Running(u)
  BY DEF Running, Under
<1>3. ASSUME held'[u] = held[u], rows'[r] = rows[r], rclock' = rclock
      PROVE  IsHeldBy(u)' /\ held'[u] = held[u]
  BY <1>1, <1>3 DEF IsHeldBy, Mine
<1> HIDE DEF r
<1>4. CASE UNCHANGED leaseVars
  BY <1>3, <1>4 DEF leaseVars
<1>5. CASE ForgetLease(v)
  BY <1>3, <1>5 DEF ForgetLease, LeaseTypeOK
<1>6. CASE AcquireLease(v, ResourceOf(v))
  <2>1. CASE r = ResourceOf(v)
    BY <1>1, <1>6, <2>1, Renewed
  <2>2. CASE r # ResourceOf(v)
    <3>1. held'[u] = held[u] /\ rclock' = rclock
      BY <1>6 DEF AcquireLease, LeaseTypeOK
    <3>2. rows'[r] = rows[r]
      BY <1>6, <2>2, <1>1 DEF AcquireLease, LeaseTypeOK
    <3> QED  BY <1>3, <3>1, <3>2
  <2> QED  BY <2>1, <2>2
<1>7. CASE ReleaseLease(v) /\ (FreesAnother(v) => unfenced')
  <2>1. held'[u] = held[u] /\ rclock' = rclock
    BY <1>7 DEF ReleaseLease, LeaseTypeOK
  <2>2. CASE Mine(v)
    <3>1. held[v].resource # r
      <4> SUFFICES ASSUME held[v].resource = r PROVE FALSE
        OBVIOUS
      <4>1. held[v].token = held[u].token
        BY <1>1, <2>2 DEF Mine, IsHeldBy
      <4>2. held[v] = held[u]
        BY <1>1, <4>1 DEF LeaseTypeOK
      <4> QED  BY <1>2, <1>7, <2>2, <4>2 DEF FreesAnother
    <3>2. rows' = [rows EXCEPT ![held[v].resource].status = "released",
                               ![held[v].resource].expires = rclock]
      BY <1>7, <2>2 DEF ReleaseLease
    <3>3. rows'[r] = rows[r]
      BY <3>1, <3>2, <1>1 DEF LeaseTypeOK
    <3> QED  BY <1>3, <2>1, <3>3
  <2>3. CASE ~ Mine(v)
    BY <1>3, <1>7, <2>1, <2>3 DEF ReleaseLease
  <2> QED  BY <2>2, <2>3
<1> QED  BY <1>4, <1>5, <1>6, <1>7 DEF LeaseCall

\* acquire gives a lease that is held, of a row with a token.
LEMMA Acquired ==
  ASSUME StageAssumption, ResourceAssumption, StagesTyped, NEW v \in Users,
         AcquireLease(v, ResourceOf(v))
  PROVE  /\ IsHeldBy(v)' /\ held'[v].resource = ResourceOf(v)
         /\ \A r \in Resources : rows'[r].status = "active" => rows'[r].token # 0
<1> DEFINE r == ResourceOf(v)
           taken == LeaseTaken(rows[r], HolderOf[v])
<1>1. r \in Resources /\ rows[r] \in Row
  BY Resource DEF StagesTyped, LeaseTypeOK
<1>2. rclock \in Nat /\ LeaseTtl \in Nat \ {0} /\ rows[r].token \in Nat
  BY <1>1 DEF StagesTyped, LeaseTypeOK, ResourceAssumption, Row
<1>3. rclock + LeaseTtl > rclock /\ rows[r].token + 1 # 0
  BY <1>2
<1>4. rows[r].status = "active" => rows[r].token # 0
  BY <1>1 DEF StagesTyped
<1>5. /\ taken.holder = HolderOf[v] /\ taken.token # 0
      /\ taken.status = "active" /\ taken.expires = rclock + LeaseTtl
  <2>1. CASE Unexpired(rows[r]) /\ rows[r].holder = HolderOf[v]
    BY <1>1, <1>4, <2>1 DEF LeaseTaken, Unexpired, Row
  <2>2. CASE ~ (Unexpired(rows[r]) /\ rows[r].holder = HolderOf[v])
    BY <1>3, <2>2 DEF LeaseTaken
  <2> QED  BY <2>1, <2>2
<1>6. /\ rows' = [rows EXCEPT ![r] = taken] /\ rclock' = rclock
      /\ held' = [held EXCEPT ![v] = [resource |-> r, token |-> taken.token]]
  BY DEF AcquireLease
<1> HIDE DEF taken, r
<1>7. rows'[r] = taken /\ held'[v] = [resource |-> r, token |-> taken.token]
  BY <1>1, <1>6 DEF StagesTyped, LeaseTypeOK
<1>8. IsHeldBy(v)' /\ held'[v].resource = r
  BY <1>3, <1>5, <1>6, <1>7 DEF IsHeldBy, Mine
<1>9. \A q \in Resources : rows'[q].status = "active" => rows'[q].token # 0
  BY <1>1, <1>5, <1>6, <1>7 DEF StagesTyped, LeaseTypeOK
<1> QED  BY <1>8, <1>9 DEF r

\* No call on the leases loses a type, a token or the resource of a lease object.
LEMMA CallTyped ==
  ASSUME StageAssumption, ResourceAssumption, StagesTyped, OwnWork, NEW v \in Users, LeaseCall(v)
  PROVE  /\ LeaseTypeOK'
         /\ \A r \in Resources : rows'[r].status = "active" => rows'[r].token # 0
         /\ \A u \in Users : held'[u].token # 0 => held'[u].resource = ResourceOf(u)
<1> USE DEF StagesTyped
<1>1. LeaseTypeOK'
  <2>1. [LeaseNext]_leaseVars
    BY Resource DEF LeaseCall, LeaseNext, ResourceCalls
  <2> QED  BY <2>1, StepKeeps
<1>2. CASE UNCHANGED leaseVars
  BY <1>1, <1>2 DEF leaseVars, OwnWork
<1>3. CASE AcquireLease(v, ResourceOf(v))
  BY <1>1, <1>3, Acquired DEF AcquireLease, LeaseTypeOK, OwnWork
<1>4. CASE ForgetLease(v)
  BY <1>1, <1>4 DEF ForgetLease, NotHeld, LeaseTypeOK, OwnWork
<1>5. CASE ReleaseLease(v)
  <2>1. held[v].resource \in Resources /\ held' = [held EXCEPT ![v] = NotHeld]
    BY <1>5 DEF ReleaseLease, LeaseTypeOK
  <2>2. \A u \in Users : held'[u].token # 0 => held'[u] = held[u]
    BY <2>1 DEF LeaseTypeOK, NotHeld
  <2>3. \A r \in Resources : rows'[r].token = rows[r].token /\ (rows'[r].status = "active" => rows[r].status = "active")
    <3>1. CASE Mine(v)
      <4> DEFINE q == held[v].resource
      <4>1. rows' = [rows EXCEPT ![q].status = "released", ![q].expires = rclock]
        BY <1>5, <3>1 DEF ReleaseLease
      <4> HIDE DEF q
      <4>2. \A r \in Resources : rows'[r] = IF r = q THEN [rows[r] EXCEPT !.status = "released", !.expires = rclock]
                                            ELSE rows[r]
        BY <4>1 DEF LeaseTypeOK
      <4>3. rows[q] \in Row /\ rows'[q] = [rows[q] EXCEPT !.status = "released", !.expires = rclock]
        BY <2>1, <4>2 DEF LeaseTypeOK, q
      <4>4. rows'[q].token = rows[q].token /\ rows'[q].status = "released"
        BY <4>3 DEF Row
      <4> QED  BY <4>2, <4>4
    <3>2. CASE ~ Mine(v)
      BY <1>5, <3>2 DEF ReleaseLease
    <3> QED  BY <3>1, <3>2
  <2> QED  BY <1>1, <2>2, <2>3 DEF OwnWork
<1> QED  BY <1>2, <1>3, <1>4, <1>5 DEF LeaseCall

-----------------------------------------------------------------------------
\* What a step of an execution does to its place and to the leases: it goes on under its
\* lease, or acquires it, or is no longer under it; and its begin counts what it overlaps.
Moves(v, w) ==
  /\ w \in Places /\ at' = [at EXCEPT ![v] = w]
  /\ unfenced => unfenced'
  /\ overlapped \subseteq overlapped'
  /\ LeaseCall(v)
  /\ w \notin {"idle", "success", "failed"} =>
       \/ Running(v)
       \/ (\E u \in Users : SameStage(v, u) /\ Running(u)) => HolderOf[v] \in overlapped'
  /\ w \in Under => \/ at[v] \in Under /\ UNCHANGED leaseVars
                    \/ AcquireLease(v, ResourceOf(v))
  /\ w \in OfIntegration => StageOfUser[v] = "integration"
  /\ w \in OfRelease => StageOfUser[v] = "release"

\* Such a step keeps the overlaps known and every acting execution fenced.
LEMMA MovesKeep ==
  ASSUME StageAssumption, ResourceAssumption, StagesInv, NEW v \in Users, NEW w, Moves(v, w)
  PROVE  /\ LeaseTypeOK' /\ at' \in [Users -> Places]
         /\ \A r \in Resources : rows'[r].status = "active" => rows'[r].token # 0
         /\ Overlaps' /\ OwnWork' /\ (Fenced => Fenced' \/ unfenced')
<1> USE DEF StagesInv
<1>1. /\ LeaseTypeOK'
      /\ \A r \in Resources : rows'[r].status = "active" => rows'[r].token # 0
      /\ \A u \in Users : held'[u].token # 0 => held'[u].resource = ResourceOf(u)
  BY CallTyped DEF Moves
<1>2. at' \in [Users -> Places] /\ at'[v] = w /\ \A u \in Users : u # v => at'[u] = at[u]
  BY DEF Moves, StagesTyped
<1>3. Overlaps'
  <2> SUFFICES ASSUME NEW x \in Users, NEW y \in Users, x # y, SameStage(x, y), Running(x)', Running(y)'
               PROVE  HolderOf[x] \in overlapped'
    BY DEF Overlaps, SameStage
  <2>1. \A u \in Users : u # v /\ Running(u)' => Running(u)
    BY <1>2 DEF Running
  <2>2. overlapped \subseteq overlapped' /\ HolderOf[x] = HolderOf[y] /\ SameStage(y, x)
    BY DEF Moves, SameStage
  <2>3. CASE Running(x) /\ Running(y)
    BY <2>2, <2>3 DEF Overlaps
  <2>4. CASE x = v /\ ~ Running(x)
    <3>1. w \notin {"idle", "success", "failed"}
      BY <1>2, <2>4 DEF Running
    <3>2. Running(y)
      BY <2>1, <2>4
    <3> QED  BY <2>4, <3>1, <3>2 DEF Moves
  <2>5. CASE y = v /\ ~ Running(y)
    <3>1. w \notin {"idle", "success", "failed"}
      BY <1>2, <2>5 DEF Running
    <3>2. Running(x)
      BY <2>1, <2>5
    <3> QED  BY <2>2, <2>5, <3>1, <3>2 DEF Moves
  <2> QED  BY <2>1, <2>3, <2>4, <2>5
<1>4. OwnWork'
  <2>1. \A u \in Users : (ResourceOf(u))' = ResourceOf(u)
    BY DEF ResourceOf
  <2>2. ASSUME NEW u \in Users
        PROVE  /\ at'[u] \in OfIntegration => StageOfUser[u] = "integration"
               /\ at'[u] \in OfRelease => StageOfUser[u] = "release"
    BY <1>2 DEF Moves, OwnWork
  <2> QED  BY <1>1, <2>1, <2>2 DEF OwnWork
<1>5. ASSUME Fenced, ~ unfenced' PROVE Fenced'
  <2> SUFFICES ASSUME NEW u \in Users, at'[u] \in Under
               PROVE  IsHeldBy(u)' /\ held'[u].resource = ResourceOf(u)
    BY DEF Fenced, ResourceOf
  <2>1. CASE u # v
    <3>1. at[u] \in Under
      BY <1>2, <2>1
    <3>2. IsHeldBy(u)' /\ held'[u] = held[u]
      BY <1>5, <2>1, <3>1, OthersKeep DEF Moves, StagesTyped
    <3> QED  BY <1>5, <3>1, <3>2 DEF Fenced
  <2>2. CASE u = v /\ at[v] \in Under /\ UNCHANGED leaseVars
    <3>1. IsHeldBy(v) /\ held[v].resource = ResourceOf(v)
      BY <1>5, <2>2 DEF Fenced
    <3>2. rows' = rows /\ held' = held /\ rclock' = rclock
      BY <2>2 DEF leaseVars
    <3> QED  BY <2>2, <3>1, <3>2 DEF IsHeldBy, Mine
  <2>3. CASE u = v /\ AcquireLease(v, ResourceOf(v))
    BY <2>3, Acquired
  <2> QED  BY <1>2, <2>1, <2>2, <2>3 DEF Moves
<1> QED  BY <1>1, <1>2, <1>3, <1>4, <1>5

-----------------------------------------------------------------------------
\* A run's commit, or none, or the first.
Commit == LeaseRuns \cup {First, NoOne}

\* A step that changes neither the branch nor the target keeps the rest.
LEMMA NothingDone ==
  ASSUME StageAssumption, ResourceAssumption, StagesInv, NEW v \in Users, NEW w, Moves(v, w),
         UNCHANGED <<integrationVars, installed, lastGood, strikes, seen>>,
         w \in {"deployed", "smoking"} => at[v] \in {"deployed", "smoking"},
         w \in {"rebased", "checked"} => at[v] \in {"rebased", "checked"}
  PROVE  StagesInv'
<1>1. /\ LeaseTypeOK' /\ at' \in [Users -> Places]
      /\ \A r \in Resources : rows'[r].status = "active" => rows'[r].token # 0
      /\ Overlaps' /\ OwnWork' /\ (Fenced => Fenced' \/ unfenced')
  BY MovesKeep
<1>2. /\ tip' = tip /\ base' = base /\ merged' = merged /\ installed' = installed
      /\ lastGood' = lastGood /\ seen' = seen /\ strikes' = strikes
  BY DEF integrationVars
<1>3. StagesTyped'
  BY <1>1, <1>2 DEF StagesInv, StagesTyped
<1>4. \A u \in Users : /\ at'[u] \in {"deployed", "smoking"} => at[u] \in {"deployed", "smoking"}
                       /\ at'[u] \in {"rebased", "checked"} => at[u] \in {"rebased", "checked"}
  BY DEF Moves, StagesInv, StagesTyped
<1>5. (unfenced => unfenced') /\ overlapped \subseteq overlapped'
  BY DEF Moves
<1>6. ASSUME Kept, ~ unfenced' PROVE Kept'
  <2>1. Fenced'
    BY <1>1, <1>6 DEF Kept
  <2>2. StillInstalled'
    BY <1>2, <1>4, <1>5, <1>6 DEF Kept, StillInstalled
  <2>3. OnTip'
    BY <1>2, <1>4, <1>6 DEF Kept, OnTip
  <2>4. GoodWorks'
    BY <1>2, <1>5, <1>6 DEF Kept, GoodWorks, Good
  <2> QED  BY <2>1, <2>2, <2>3, <2>4 DEF Kept
<1> QED  BY <1>1, <1>3, <1>5, <1>6 DEF StagesInv

\* Only executions of one run, which overlapped, deploy, smoke or roll back together.
LEMMA TargetAlone ==
  ASSUME StageAssumption, ResourceAssumption, OwnWork, Overlaps, Fenced, NEW u \in Users, NEW v \in Users,
         u # v, at[v] \in OfRelease, at[u] \in OfRelease
  PROVE  HolderOf[u] = HolderOf[v] /\ HolderOf[u] \in overlapped
  BY OneActs DEF OwnWork, OfRelease, Under

\* And only executions of one run merge or have a tested merge together.
LEMMA BranchAlone ==
  ASSUME StageAssumption, ResourceAssumption, OwnWork, Overlaps, Fenced, NEW u \in Users, NEW v \in Users,
         u # v, at[v] \in OfIntegration, at[u] \in OfIntegration
  PROVE  HolderOf[u] = HolderOf[v]
  BY OneActs DEF OwnWork, OfIntegration, Under

\* save keeps the types of the refs, and writes what it is given or leaves what is there.
LEMMA SavedTyped ==
  ASSUME StagesTyped, NEW v \in Users, NEW good \in Commit, NEW count \in Nat, Saved(v, good, count)
  PROVE  /\ strikes' \in [LeaseRuns -> Nat] /\ lastGood' \in Commit
         /\ lastGood' \in {good, lastGood}
<1>1. lastGood' \in {good, lastGood} /\ lastGood \in Commit
  BY DEF Saved, StagesTyped, Commit
<1>2. \A r \in LeaseRuns : seen[v].strikes[r] \in Nat /\ strikes[r] \in Nat
  BY DEF StagesTyped
<1>3. strikes' \in [LeaseRuns -> Nat]
  BY <1>2 DEF Saved
<1> QED  BY <1>1, <1>3

-----------------------------------------------------------------------------
\* The steps of an execution, one by one.

\* handle begins: it loads the recorded state.
LEMMA BeginKeeps ==
  ASSUME StageAssumption, ResourceAssumption, StagesInv, NEW v \in Users, BeginStage(v)
  PROVE  StagesInv'
<1> DEFINE w == IF \/ StageOfUser[v] = "release" /\ lastGood = HolderOf[v]
                   \/ StageOfUser[v] = "integration" /\ HolderOf[v] \in merged
                THEN "success" ELSE "acquire"
<1>1. Moves(v, w)
  <2>1. at' = [at EXCEPT ![v] = w] /\ unfenced' = unfenced /\ UNCHANGED leaseVars
    BY DEF BeginStage, Goto, leaseVars
  <2>2. /\ overlapped \subseteq overlapped'
        /\ (\E u \in Users : SameStage(v, u) /\ Running(u)) => HolderOf[v] \in overlapped'
    BY DEF BeginStage, LeaseRuns
  <2>3. w \in Places /\ w \notin Under /\ w \notin OfIntegration /\ w \notin OfRelease
    BY DEF Places, Under, OfIntegration, OfRelease
  <2> HIDE DEF w
  <2> QED  BY <2>1, <2>2, <2>3 DEF Moves, LeaseCall
<1>2. w \notin {"deployed", "smoking", "rebased", "checked"}
  OBVIOUS
<1> HIDE DEF w
<1>3. /\ LeaseTypeOK' /\ at' \in [Users -> Places]
      /\ \A r \in Resources : rows'[r].status = "active" => rows'[r].token # 0
      /\ Overlaps' /\ OwnWork' /\ (Fenced => Fenced' \/ unfenced')
  BY <1>1, MovesKeep
<1>4. /\ tip' = tip /\ base' = base /\ merged' = merged /\ installed' = installed /\ lastGood' = lastGood
      /\ seen' = [seen EXCEPT ![v] = [good |-> lastGood, strikes |-> strikes]]
      /\ strikes' = strikes /\ unfenced' = unfenced
  BY DEF BeginStage, integrationVars
<1>5. StagesTyped'
  BY <1>3, <1>4 DEF StagesInv, StagesTyped
<1>6. \A u \in Users : at'[u] \in {"deployed", "smoking", "rebased", "checked"} => at'[u] = at[u]
  BY <1>1, <1>2 DEF Moves, StagesInv, StagesTyped
<1>7. overlapped \subseteq overlapped'
  BY <1>1 DEF Moves
<1>8. ASSUME Kept, ~ unfenced' PROVE Kept'
  <2>1. Fenced'
    BY <1>3, <1>8 DEF Kept
  <2>2. StillInstalled' /\ OnTip'
    BY <1>4, <1>6, <1>7, <1>8 DEF Kept, StillInstalled, OnTip
  <2>3. GoodWorks'
    BY <1>4, <1>7, <1>8 DEF Kept, GoodWorks, Good, StagesInv, StagesTyped
  <2> QED  BY <2>1, <2>2, <2>3 DEF Kept
<1> QED  BY <1>3, <1>4, <1>5, <1>8 DEF StagesInv

\* acquire, the early returns, a crash, the fencing check and the confirmed merge touch
\* the leases only.
LEMMA LeaseStepsKeep ==
  ASSUME StageAssumption, ResourceAssumption, StagesInv, NEW v \in Users,
         AcquireStage(v) \/ ReturnEarly(v) \/ CrashStage(v) \/ FencingCheck(v) \/ ConfirmMerge(v)
  PROVE  StagesInv'
<1> USE DEF Places, Under, OfIntegration, OfRelease, Goto, Leaves, GoesOn, LeaseCall, Running
<1>0. UNCHANGED releaseVars => UNCHANGED <<installed, lastGood, strikes, seen>>
  BY DEF releaseVars
<1>1. CASE AcquireStage(v)
  <2>1. CASE Free(v, ResourceOf(v))
    <3>1. Moves(v, "leased")
      BY <1>1, <2>1 DEF Moves, AcquireStage
    <3> QED  BY <1>1, <3>1, <1>0, NothingDone DEF AcquireStage
  <2>2. CASE ~ Free(v, ResourceOf(v))
    <3>1. Moves(v, "idle")
      BY <1>1, <2>2 DEF Moves, AcquireStage
    <3> QED  BY <1>1, <3>1, <1>0, NothingDone DEF AcquireStage
  <2> QED  BY <2>1, <2>2
<1>2. CASE ReturnEarly(v)
  <2>1. PICK w \in {"idle", "failed"} : Leaves(v, w)
    BY <1>2 DEF ReturnEarly
  <2>2. Moves(v, w)
    BY <1>2, <2>1 DEF Moves, ReturnEarly
  <2> QED  BY <1>2, <2>2, <1>0, NothingDone DEF ReturnEarly
<1>3. CASE CrashStage(v)
  <2>1. Moves(v, "idle")
    BY <1>3 DEF Moves, CrashStage
  <2> QED  BY <1>3, <2>1, <1>0, NothingDone DEF CrashStage
<1>4. CASE FencingCheck(v)
  <2>1. UNCHANGED <<integrationVars, releaseVars>> /\ overlapped' = overlapped
    BY <1>4 DEF FencingCheck
  <2>2. CASE ~ IsHeldBy(v)
    <3>1. Moves(v, "idle")
      BY <1>4, <2>2 DEF Moves, FencingCheck
    <3> QED  BY <2>1, <3>1, <1>0, NothingDone
  <2>3. CASE IsHeldBy(v) /\ at[v] = "rebased"
    <3>1. Moves(v, "checked")
      BY <1>4, <2>3 DEF Moves, FencingCheck, StagesInv, OwnWork
    <3> QED  BY <2>1, <2>3, <3>1, <1>0, NothingDone
  <2>4. CASE IsHeldBy(v) /\ at[v] = "leased"
    <3>1. Moves(v, "deploying")
      BY <1>4, <2>4 DEF Moves, FencingCheck
    <3> QED  BY <2>1, <2>4, <3>1, <1>0, NothingDone
  <2>5. CASE IsHeldBy(v) /\ at[v] = "deployed"
    <3>1. Moves(v, "smoking")
      BY <1>4, <2>5 DEF Moves, FencingCheck, StagesInv, OwnWork
    <3> QED  BY <2>1, <2>5, <3>1, <1>0, NothingDone
  <2> QED  BY <1>4, <2>2, <2>3, <2>4, <2>5 DEF FencingCheck
<1>5. CASE ConfirmMerge(v)
  <2>1. Moves(v, "success")
    BY <1>5 DEF Moves, ConfirmMerge
  <2> QED  BY <1>5, <2>1, <1>0, NothingDone DEF ConfirmMerge
<1> QED  BY <1>1, <1>2, <1>3, <1>4, <1>5

\* The integration stage moves the branch only from where it holds the lease.
LEMMA IntegrationKeeps ==
  ASSUME StageAssumption, ResourceAssumption, StagesInv, NEW v \in Users, Rebase(v) \/ Merge(v)
  PROVE  StagesInv'
<1>1. PICK w : /\ Moves(v, w) /\ w \notin {"checked", "deployed", "smoking"}
               /\ w = "rebased" => base' = [base EXCEPT ![v] = tip] /\ tip' = tip
               /\ UNCHANGED releaseVars /\ merged \subseteq merged'
               /\ \/ tip' = tip /\ base' \in {base, [base EXCEPT ![v] = tip]}
                  \/ tip' = tip + 1 /\ base' = base /\ at[v] = "checked" /\ HolderOf[v] \in merged'
  <2> USE DEF Places, Under, OfIntegration, OfRelease, Goto, Leaves, GoesOn, LeaseCall, Running, StagesInv, OwnWork
  <2>1. CASE Rebase(v)
    <3>1. Moves(v, "rebased")
      BY <2>1 DEF Moves, Rebase
    <3> QED  BY <2>1, <3>1 DEF Rebase
  <2>2. CASE Merge(v) /\ Merged(HolderOf[v]) /\ GoesOn(v, "merged")
    <3>1. Moves(v, "merged")
      BY <2>2 DEF Moves, Merge
    <3>2. merged \subseteq merged' /\ HolderOf[v] \in merged' /\ tip' \in {tip, tip + 1}
      BY <2>2 DEF Merged
    <3> QED  BY <2>2, <3>1, <3>2 DEF Merge
  <2>3. CASE Merge(v) /\ tip' = tip /\ merged' = merged /\ Leaves(v, "idle")
    <3>1. Moves(v, "idle")
      BY <2>3 DEF Moves, Merge
    <3> QED  BY <2>3, <3>1 DEF Merge
  <2>4. Merge(v) => \/ Merged(HolderOf[v]) /\ GoesOn(v, "merged")
                    \/ tip' = tip /\ merged' = merged /\ Leaves(v, "idle")
    BY DEF Merge
  <2> QED  BY <2>1, <2>2, <2>3, <2>4
<1>2. /\ LeaseTypeOK' /\ at' \in [Users -> Places]
      /\ \A r \in Resources : rows'[r].status = "active" => rows'[r].token # 0
      /\ Overlaps' /\ OwnWork' /\ (Fenced => Fenced' \/ unfenced')
  BY <1>1, MovesKeep
<1>3. /\ installed' = installed /\ lastGood' = lastGood /\ seen' = seen /\ strikes' = strikes
      /\ (unfenced => unfenced') /\ overlapped \subseteq overlapped'
  BY <1>1 DEF releaseVars, Moves
<1>4. tip' \in Nat /\ base' \in [Users -> Int]
  BY <1>1 DEF StagesInv, StagesTyped
<1>5. StagesTyped'
  BY <1>2, <1>3, <1>4 DEF StagesInv, StagesTyped
<1>6. /\ at'[v] = w /\ \A u \in Users : u # v => at'[u] = at[u]
      /\ \A u \in Users : u # v => base'[u] = base[u]
  BY <1>1 DEF Moves, StagesInv, StagesTyped
<1>7. ASSUME Kept, ~ unfenced' PROVE Kept'
  <2>1. Fenced'
    BY <1>2, <1>7 DEF Kept
  <2>2. StillInstalled'
    BY <1>1, <1>3, <1>6, <1>7 DEF Kept, StillInstalled
  <2>3. GoodWorks'
    BY <1>3, <1>7 DEF Kept, GoodWorks, Good
  <2>4. ASSUME NEW u \in Users, at'[u] \in {"rebased", "checked"}
        PROVE  base'[u] = tip' \/ HolderOf[u] \in merged'
    <3>1. CASE u = v
      BY <1>1, <1>6, <2>4, <3>1 DEF StagesInv, StagesTyped
    <3>2. CASE u # v /\ tip' = tip
      BY <1>1, <1>6, <1>7, <2>4, <3>2 DEF Kept, OnTip
    <3>3. CASE u # v /\ at[v] = "checked" /\ HolderOf[v] \in merged'
      <4>1. HolderOf[u] = HolderOf[v]
        BY <1>6, <1>7, <2>4, <3>3, BranchAlone DEF Kept, StagesInv, OfIntegration
      <4> QED  BY <3>3, <4>1
    <3> QED  BY <1>1, <3>1, <3>2, <3>3
  <2> QED  BY <2>1, <2>2, <2>3, <2>4 DEF Kept, OnTip
<1> QED  BY <1>2, <1>3, <1>5, <1>7 DEF StagesInv

\* The release stage changes the target only while it alone holds the lease, and records
\* as good only what was installed when its smoke passed.
LEMMA ReleaseKeeps ==
  ASSUME StageAssumption, ResourceAssumption, StagesInv, NEW v \in Users,
         \/ \E claimed \in BOOLEAN, sha \in LeaseRuns \cup {installed} : DeployEnds(v, claimed, sha)
         \/ SmokePasses(v) \/ \E logged \in BOOLEAN : SmokeFails(v, logged)
         \/ \E restored, proved \in BOOLEAN : Rollback(v, restored, proved)
  PROVE  StagesInv'
<1>0. /\ HolderOf[v] \in LeaseRuns /\ seen[v].good \in Commit /\ seen[v].strikes \in [LeaseRuns -> Nat]
      /\ lastGood \in Commit
  BY DEF LeaseRuns, StagesInv, StagesTyped, Commit
<1>1. PICK w : /\ Moves(v, w) /\ w \notin {"rebased", "checked", "smoking"}
               /\ w = "deployed" => installed' = HolderOf[v]
               /\ UNCHANGED integrationVars /\ seen' = seen
               /\ at[v] \in OfRelease
               /\ strikes' \in [LeaseRuns -> Nat] /\ lastGood' \in Commit
               /\ \/ lastGood' = lastGood
                  \/ lastGood' = seen[v].good
                  \/ lastGood' = HolderOf[v] /\ at[v] = "smoking" /\ installed \in Working
  <2> USE DEF Places, Under, OfIntegration, OfRelease, Goto, Leaves, GoesOn, LeaseCall, Running, StagesInv, OwnWork
  <2>1. ASSUME NEW claimed, NEW sha, DeployEnds(v, claimed, sha)
        PROVE  /\ \E w : /\ Moves(v, w) /\ w \notin {"rebased", "checked", "smoking"}
                         /\ w = "deployed" => installed' = HolderOf[v]
               /\ UNCHANGED integrationVars /\ seen' = seen /\ at[v] \in OfRelease
               /\ strikes' = strikes /\ lastGood' = lastGood
    <3>1. CASE Deployed(v, sha, claimed)
      <4>1. Moves(v, "deployed")
        BY <2>1, <3>1 DEF Moves, DeployEnds
      <4>2. installed' = HolderOf[v]
        BY <2>1, <3>1 DEF Deployed, DeployEnds
      <4> QED  BY <2>1, <4>1, <4>2 DEF DeployEnds
    <3>2. CASE ~ Deployed(v, sha, claimed)
      <4>1. PICK w \in {"idle", "failed"} : Leaves(v, w)
        BY <2>1, <3>2 DEF DeployEnds
      <4>2. Moves(v, w)
        BY <2>1, <4>1 DEF Moves, DeployEnds
      <4> QED  BY <2>1, <4>2 DEF DeployEnds
    <3> QED  BY <3>1, <3>2
  <2>3. CASE SmokePasses(v)
    <3>1. Moves(v, "success")
      BY <2>3 DEF Moves, SmokePasses
    <3>2. strikes' \in [LeaseRuns -> Nat] /\ lastGood' \in Commit /\ lastGood' \in {HolderOf[v], lastGood}
      BY <1>0, <2>3, SavedTyped DEF SmokePasses, Commit
    <3> QED  BY <2>3, <3>1, <3>2 DEF SmokePasses
  <2>4. ASSUME NEW logged \in BOOLEAN, SmokeFails(v, logged)
        PROVE  /\ \E w \in {"failed", "idle", "rollback"} : Moves(v, w)
               /\ UNCHANGED integrationVars /\ seen' = seen /\ at[v] \in OfRelease
               /\ strikes' \in [LeaseRuns -> Nat] /\ lastGood' \in Commit
               /\ lastGood' \in {seen[v].good, lastGood}
    <3>1. seen[v].strikes[HolderOf[v]] + 1 \in Nat
      BY <1>0
    <3>2. strikes' \in [LeaseRuns -> Nat] /\ lastGood' \in Commit /\ lastGood' \in {seen[v].good, lastGood}
      BY <1>0, <2>4, <3>1, SavedTyped DEF SmokeFails
    <3>3. CASE seen[v].good = NoOne
      <4>1. PICK w \in {"failed", "idle"} : Leaves(v, w)
        BY <2>4, <3>3 DEF SmokeFails
      <4>2. Moves(v, w)
        BY <2>4, <4>1 DEF Moves, SmokeFails
      <4> QED  BY <2>4, <3>2, <4>2 DEF SmokeFails
    <3>4. CASE seen[v].good # NoOne
      <4>1. Moves(v, "rollback")
        BY <2>4, <3>4 DEF Moves, SmokeFails
      <4> QED  BY <2>4, <3>2, <4>1 DEF SmokeFails
    <3> QED  BY <3>3, <3>4
  <2>5. ASSUME NEW restored \in BOOLEAN, NEW proved \in BOOLEAN, Rollback(v, restored, proved)
        PROVE  /\ \E w \in {"failed", "idle"} : Moves(v, w)
               /\ UNCHANGED integrationVars /\ seen' = seen /\ at[v] \in OfRelease
               /\ strikes' = strikes /\ lastGood' = lastGood
    <3>1. PICK w \in {"failed", "idle"} : Leaves(v, w)
      BY <2>5 DEF Rollback
    <3>2. Moves(v, w)
      BY <2>5, <3>1 DEF Moves, Rollback
    <3> QED  BY <2>5, <3>2 DEF Rollback
  <2>6. strikes \in [LeaseRuns -> Nat]
    BY DEF StagesTyped
  <2> HIDE DEF Places, Under, OfIntegration, OfRelease, Goto, Leaves, GoesOn, LeaseCall, Running, StagesInv, OwnWork
  <2>7. CASE \E claimed \in BOOLEAN, sha \in LeaseRuns \cup {installed} : DeployEnds(v, claimed, sha)
    <3>1. PICK claimed, sha : DeployEnds(v, claimed, sha)
      BY <2>7
    <3>2. PICK w : /\ Moves(v, w) /\ w \notin {"rebased", "checked", "smoking"}
                   /\ w = "deployed" => installed' = HolderOf[v]
      BY <2>1, <3>1
    <3> QED  BY <1>0, <2>1, <2>6, <3>1, <3>2
  <2>8. CASE \E logged \in BOOLEAN : SmokeFails(v, logged)
    <3>1. PICK logged \in BOOLEAN : SmokeFails(v, logged)
      BY <2>8
    <3>2. PICK w \in {"failed", "idle", "rollback"} : Moves(v, w)
      BY <2>4, <3>1
    <3> QED  BY <2>4, <3>1, <3>2
  <2>9. CASE \E restored, proved \in BOOLEAN : Rollback(v, restored, proved)
    <3>1. PICK restored \in BOOLEAN, proved \in BOOLEAN : Rollback(v, restored, proved)
      BY <2>9
    <3>2. PICK w \in {"failed", "idle"} : Moves(v, w)
      BY <2>5, <3>1
    <3> QED  BY <1>0, <2>5, <2>6, <3>1, <3>2
  <2> QED  BY <2>3, <2>7, <2>8, <2>9
<1>2. /\ LeaseTypeOK' /\ at' \in [Users -> Places]
      /\ \A r \in Resources : rows'[r].status = "active" => rows'[r].token # 0
      /\ Overlaps' /\ OwnWork' /\ (Fenced => Fenced' \/ unfenced')
  BY <1>1, MovesKeep
<1>3. /\ tip' = tip /\ base' = base /\ merged' = merged
      /\ (unfenced => unfenced') /\ overlapped \subseteq overlapped'
  BY <1>1 DEF integrationVars, Moves
<1>4. StagesTyped'
  BY <1>1, <1>2, <1>3 DEF StagesInv, StagesTyped, Commit
<1>5. at'[v] = w /\ \A u \in Users : u # v => at'[u] = at[u]
  BY <1>1 DEF Moves, StagesInv, StagesTyped
<1>6. ASSUME Kept, ~ unfenced' PROVE Kept'
  <2>1. Fenced'
    BY <1>2, <1>6 DEF Kept
  <2>2. OnTip'
    BY <1>1, <1>3, <1>5, <1>6 DEF Kept, OnTip
  <2>3. ASSUME NEW u \in Users, at'[u] \in {"deployed", "smoking"}, HolderOf[u] \notin overlapped'
        PROVE  installed' = HolderOf[u]
    <3>1. CASE u = v
      BY <1>1, <1>5, <2>3, <3>1
    <3>2. CASE u # v
      BY <1>1, <1>3, <1>5, <1>6, <2>3, <3>2, TargetAlone DEF Kept, StagesInv, OfRelease
    <3> QED  BY <3>1, <3>2
  <2>4. GoodWorks'
    <3>1. at[v] = "smoking" => installed = HolderOf[v] \/ HolderOf[v] \in overlapped
      BY <1>6 DEF Kept, StillInstalled
    <3>2. lastGood' \in Good
      BY <1>1, <1>6, <3>1 DEF Kept, GoodWorks, Good
    <3>3. Good \subseteq Good'
      BY <1>3 DEF Good
    <3> QED  BY <1>1, <1>6, <3>2, <3>3 DEF Kept, GoodWorks
  <2> QED  BY <2>1, <2>2, <2>3, <2>4 DEF Kept, StillInstalled
<1> QED  BY <1>2, <1>3, <1>4, <1>6 DEF StagesInv

\* Time takes a lease from an execution only by setting unfenced.
LEMMA TickKeeps ==
  ASSUME StageAssumption, ResourceAssumption, StagesInv, StageTick
  PROVE  StagesInv'
<1>1. /\ rclock' = rclock + 1 /\ rows' = rows /\ held' = held
      /\ UNCHANGED <<at, executions, integrationVars, releaseVars, overlapped>>
  BY DEF StageTick, LeaseTick
<1>2. /\ at' = at /\ tip' = tip /\ base' = base /\ installed' = installed
      /\ lastGood' = lastGood /\ seen' = seen /\ strikes' = strikes /\ merged' = merged
  BY <1>1 DEF integrationVars, releaseVars
<1>3. LeaseTypeOK'
  BY <1>1 DEF LeaseTypeOK, StagesInv, StagesTyped
<1>4. StagesTyped'
  BY <1>1, <1>2, <1>3 DEF StagesInv, StagesTyped
<1>5. Overlaps' /\ OwnWork'
  BY <1>1, <1>2 DEF StagesInv, Overlaps, OwnWork, Running, ResourceOf
<1>6. ASSUME ~ unfenced', ~ unfenced, Kept PROVE Kept'
  <2>1. ASSUME NEW u \in Users, at[u] \in Under
        PROVE  IsHeldBy(u)' /\ held'[u].resource = ResourceOf(u)
    <3> DEFINE row == rows[held[u].resource]
    <3>1. IsHeldBy(u) /\ held[u].resource = ResourceOf(u)
      BY <1>6, <2>1 DEF Kept, Fenced
    <3>2. Running(u) /\ Mine(u) /\ row.expires > rclock
      BY <2>1, <3>1 DEF Running, Under, IsHeldBy
    <3>3. row.expires # rclock + 1
      BY <1>6, <3>2 DEF StageTick
    <3>4. rclock \in Nat /\ row.expires \in Nat
      BY <3>1, Resource DEF StagesInv, StagesTyped, LeaseTypeOK, Row
    <3>5. row.expires > rclock + 1
      BY <3>2, <3>3, <3>4
    <3> QED  BY <1>1, <3>1, <3>2, <3>5 DEF IsHeldBy, Mine
  <2>2. Fenced'
    BY <1>1, <1>2, <2>1 DEF Fenced, ResourceOf
  <2>3. StillInstalled' /\ GoodWorks' /\ OnTip'
    BY <1>1, <1>2, <1>6 DEF Kept, StillInstalled, GoodWorks, Good, OnTip
  <2> QED  BY <2>2, <2>3 DEF Kept
<1>7. unfenced => unfenced'
  BY DEF StageTick
<1> QED  BY <1>4, <1>5, <1>6, <1>7 DEF StagesInv

\* What GitHub or the provider does late is counted as unfenced.
LEMMA LateKeeps ==
  ASSUME StageAssumption, ResourceAssumption, StagesInv, NEW r \in LeaseRuns, AutoMerge(r) \/ LateDeploy(r)
  PROVE  StagesInv'
<1>1. /\ rows' = rows /\ held' = held /\ rclock' = rclock /\ at' = at /\ base' = base
      /\ lastGood' = lastGood /\ seen' = seen /\ strikes' = strikes /\ overlapped' = overlapped
      /\ (unfenced => unfenced')
  BY DEF AutoMerge, LateDeploy, leaseVars, releaseVars, integrationVars
<1>2. tip' \in {tip, tip + 1} /\ merged \subseteq merged'
  BY DEF AutoMerge, LateDeploy, Merged, integrationVars
<1>3. StagesTyped'
  BY <1>1, <1>2 DEF StagesInv, StagesTyped, LeaseTypeOK
<1>4. Overlaps' /\ OwnWork'
  BY <1>1 DEF StagesInv, Overlaps, OwnWork, Running, ResourceOf
<1>5. ASSUME Kept, ~ unfenced' PROVE Kept'
  <2>1. Fenced' /\ GoodWorks'
    BY <1>1, <1>5 DEF Kept, Fenced, IsHeldBy, Mine, ResourceOf, GoodWorks, Good
  <2>2. CASE AutoMerge(r)
    <3>1. installed' = installed /\ \A u \in Users : at[u] \notin {"rebased", "checked"}
      BY <1>5, <2>2 DEF AutoMerge, releaseVars
    <3> QED  BY <1>1, <1>5, <2>1, <3>1 DEF Kept, StillInstalled, OnTip
  <2>3. CASE LateDeploy(r)
    <3>1. /\ tip' = tip /\ merged' = merged
          /\ \A u \in Users : at[u] \notin {"deployed", "smoking"}
      BY <1>5, <2>3 DEF LateDeploy, integrationVars
    <3> QED  BY <1>1, <1>5, <2>1, <3>1 DEF Kept, StillInstalled, OnTip
  <2> QED  BY <2>2, <2>3
<1> QED  BY <1>1, <1>3, <1>4, <1>5 DEF StagesInv

\* A step that changes nothing.
LEMMA StutterKeeps == ASSUME StagesInv, UNCHANGED fencedVars PROVE StagesInv'
<1>1. /\ rows' = rows /\ held' = held /\ rclock' = rclock /\ at' = at /\ unfenced' = unfenced /\ base' = base
      /\ lastGood' = lastGood /\ seen' = seen /\ strikes' = strikes /\ tip' = tip /\ installed' = installed
      /\ merged' = merged /\ overlapped' = overlapped
  BY DEF fencedVars, stageVars, leaseVars, releaseVars, integrationVars
<1>2. StagesTyped' /\ Overlaps' /\ OwnWork'
  BY <1>1 DEF StagesInv, StagesTyped, LeaseTypeOK, Overlaps, OwnWork, Running, ResourceOf
<1>3. Kept => Kept'
  BY <1>1 DEF Kept, Fenced, StillInstalled, GoodWorks, Good, OnTip, IsHeldBy, Mine, ResourceOf
<1> QED  BY <1>1, <1>2, <1>3 DEF StagesInv

-----------------------------------------------------------------------------
\* The invariant holds at the start: nobody runs and the refs are as the project left them.
LEMMA StagesStart ==
  ASSUME StageAssumption, ResourceAssumption, StagesInit
  PROVE  StagesInv
<1> USE DEF StagesInit
<1>1. LeaseTypeOK /\ \A r \in Resources : rows[r].status # "active"
  BY InitTyped DEF LeaseInit, NoRow
<1>2. StagesTyped
  BY <1>1 DEF StagesTyped, Places
<1>3. Overlaps
  BY DEF Overlaps, Running
<1>4. OwnWork
  BY DEF OwnWork, OfIntegration, OfRelease, LeaseInit, NotHeld
<1>5. Kept
  BY DEF Kept, Fenced, StillInstalled, GoodWorks, Good, OnTip, Under
<1> QED  BY <1>2, <1>3, <1>4, <1>5 DEF StagesInv

\* Every step keeps it.
LEMMA StagesStep ==
  ASSUME StageAssumption, ResourceAssumption, StagesInv, [StagesNext]_fencedVars
  PROVE  StagesInv'
<1>1. CASE \E v \in Users : StageSteps(v)
  BY <1>1, BeginKeeps, LeaseStepsKeep, IntegrationKeeps, ReleaseKeeps DEF StageSteps
<1> QED  BY <1>1, TickKeeps, LateKeeps, StutterKeeps DEF StagesNext

\* Each execution acts under the lease of its resource, together with no execution of
\* another run, and what it deployed, recorded or rebased is still there or was done over
\* by another execution of its run, until a lease is lost under one of them.
THEOREM StagesInvariance ==
  ASSUME StageAssumption, ResourceAssumption PROVE StagesSpec => []StagesInv
<1>1. StageAssumption /\ ResourceAssumption /\ StagesInit => StagesInv
  BY StagesStart
<1>2. StageAssumption /\ ResourceAssumption /\ StagesInv /\ [StagesNext]_fencedVars => StagesInv'
  BY StagesStep
<1> QED  BY <1>1, <1>2, PTL DEF StagesSpec

\* Two runs never deploy, smoke or roll back the shared target at the same time, for any
\* number of runs and of overlapping executions, unless a lease expired under one of them
\* or another execution of its run released it.
THEOREM DeploysAlone ==
  ASSUME StageAssumption, ResourceAssumption PROVE StagesSpec => []OneDeployer
<1>1. StageAssumption /\ ResourceAssumption /\ StagesInv => OneDeployer
  BY TargetAlone DEF StagesInv, Kept, OneDeployer, ReleaseUsers, OfRelease
<1> QED  BY <1>1, StagesInvariance, PTL

\* The commit that refs/darkfac/release/last-good names works, unless its run overlapped, a
\* lease was lost, or a deployment landed between a verification and its smoke.
THEOREM LastGoodWorks ==
  ASSUME StageAssumption, ResourceAssumption PROVE StagesSpec => []GoodIsGood
<1>1. StagesInv => GoodIsGood
  BY DEF StagesInv, Kept, GoodWorks, Good, GoodIsGood
<1> QED  BY <1>1, StagesInvariance, PTL

\* What a stage merges lands on the tip it was rebased on, whatever executions overlap,
\* unless a lease was lost or a merge left to GitHub fell in between.
THEOREM MergesOnTip ==
  ASSUME StageAssumption, ResourceAssumption PROVE StagesSpec => MergeOnTested
<1> DEFINE OnTested == \A u \in Users : tip' # tip /\ at[u] = "checked" /\ at'[u] = "merged" =>
                         base[u] = tip \/ unfenced
<1>1. ASSUME StagesInv, StagesNext, NEW u \in Users, tip' # tip, at[u] = "checked", at'[u] = "merged"
      PROVE  base[u] = tip \/ unfenced
  <2>1. HolderOf[u] \notin merged
    <3>1. \A v \in Users : StageSteps(v) => at' = at \/ \E w : at' = [at EXCEPT ![v] = w]
      BY DEF StageSteps, BeginStage, AcquireStage, ReturnEarly, CrashStage, FencingCheck, Rebase, Merge,
             ConfirmMerge, DeployEnds, SmokePasses, SmokeFails, Rollback, Goto, Leaves, GoesOn
    <3>2. at \in [Users -> Places]
      BY <1>1 DEF StagesInv, StagesTyped
    <3>3. at' # at
      BY <1>1
    <3>4. StageSteps(u)
      BY <1>1, <3>1, <3>2, <3>3 DEF StagesNext, StageTick, AutoMerge, LateDeploy
    <3>5. Merge(u)
      BY <1>1, <3>4, <3>2 DEF StageSteps, BeginStage, AcquireStage, ReturnEarly, CrashStage, FencingCheck, Rebase,
             ConfirmMerge, DeployEnds, SmokePasses, SmokeFails, Rollback, integrationVars
    <3> QED  BY <1>1, <3>5 DEF Merge, Merged
  <2> QED  BY <1>1, <2>1 DEF StagesInv, Kept, OnTip
<1>2. StagesInv /\ [StagesNext]_fencedVars => [OnTested]_fencedVars
  BY <1>1
<1> QED  BY <1>2, StagesInvariance, PTL DEF MergeOnTested, StagesSpec

-----------------------------------------------------------------------------
\* The line lock.

Names == Launches \cup {Ghost, Nobody}
LockFiles == [by : Names, written : BOOLEAN]
LockPlaces == {"create", "write", "observe", "recover", "compare", "restore", "reserve", "in", "gone"}

LockTypeOK ==
  /\ lockFile \in LockFiles /\ aside \in [Launches -> LockFiles]
  /\ launch \in [Launches -> [at : LockPlaces, observed : Names, tries : Nat]]
  /\ asleep \subseteq Launches

\* A launch has created the lock, means to keep it, and did not oversleep.
Holds(p) == launch[p].at \in {"write", "reserve", "in"} /\ p \notin asleep

\* Whom a launch wants to recover from is gone or slept, and only a holder sleeps.
Stale ==
  /\ \A p \in Launches : launch[p].observed \in Launches => IsStale(launch[p].observed)
  /\ \A p \in asleep : launch[p].at \in {"in", "gone"}

\* When a launch has a file aside; it puts back only a misjudged one.
Asides == \A q \in Launches :
  /\ launch[q].at \in {"compare", "restore"} => aside[q].by # Nobody
  /\ launch[q].at \notin {"compare", "restore", "gone"} => aside[q] = NoFile
  /\ launch[q].at = "restore" => Content(aside[q]) # launch[q].observed

\* A launch that has not created the lock has no file anywhere.
Fresh == \A p, q \in Launches :
  launch[p].at \in {"create", "observe", "recover", "compare", "restore"} => lockFile.by # p /\ aside[q].by # p

\* The lock of the only holder is in place, or somebody who misjudged it has it aside, with
\* its content; the other files that are aside were judged rightly.
Guarded(p) ==
  /\ \A q \in Launches : Holds(q) => q = p
  /\ lockFile.by \in {p, Nobody}
  /\ lockFile.by = Nobody => \E q \in Launches : aside[q].by = p
  /\ \A q \in Launches : aside[q].by = p => aside[q].written
  /\ \A q \in Launches : aside[q].by \in {p, Nobody} \/ Content(aside[q]) = launch[q].observed

Ordered == Asides /\ Fresh /\ \A p \in Launches : Holds(p) => Guarded(p)

LockSound == LockTypeOK /\ Stale /\ (mishap \/ Ordered)

\* What a launch does leaves the others where they are; nobody comes back or wakes up.
LockStep(r) ==
  \/ Create(r) \/ Write(r) \/ Observe(r) \/ MoveAside(r) \/ Compare(r) \/ PutBack(r)
  \/ \E result \in {"ok", "conflict", "error"} : Reserve(r, result)
  \/ Beat(r) \/ Unlock(r) \/ Die(r) \/ Sleep(r)

LEMMA LockTypes ==
  ASSUME LockTypeOK, NEW r \in Launches, LockStep(r)
  PROVE  LockTypeOK'
<1>1. NoFile \in LockFiles /\ \A b \in BOOLEAN : FileOf(r, b) \in LockFiles
  BY DEF NoFile, FileOf, LockFiles, Names
<1>2. /\ Content(lockFile) \in Names /\ aside[r] \in LockFiles
      /\ launch[r].tries \in Nat /\ launch[r].tries + 1 \in Nat
  BY DEF LockTypeOK, Content, Names, LockFiles
<1>3. ASSUME NEW where \in LockPlaces, Steps(r, where)
      PROVE  launch' \in [Launches -> [at : LockPlaces, observed : Names, tries : Nat]]
  BY <1>3 DEF Steps, LockTypeOK
<1>4. ASSUME NextTry(r)
      PROVE  launch' \in [Launches -> [at : LockPlaces, observed : Names, tries : Nat]]
  BY <1>2, <1>4, ZenonT(60) DEF NextTry, LockTypeOK, LockPlaces
<1>5. CASE Create(r)
  BY <1>1, <1>3, <1>5 DEF Create, LockTypeOK, LockPlaces
<1>6. CASE Write(r)
  <2>1. Steps(r, "reserve") \/ Steps(r, "in")
    BY <1>6 DEF Write
  <2>2. lockFile' \in LockFiles /\ aside' \in [Launches -> LockFiles]
    BY <1>1, <1>6 DEF Write, LockTypeOK
  <2> QED  BY <1>3, <1>6, <2>1, <2>2 DEF Write, LockTypeOK, LockPlaces
<1>7. CASE Observe(r)
  <2>1. Steps(r, "gone")
        \/ launch' = [launch EXCEPT ![r].at = "recover", ![r].observed = Content(lockFile)]
    BY <1>7 DEF Observe
  <2>2. launch' \in [Launches -> [at : LockPlaces, observed : Names, tries : Nat]]
    BY <1>2, <1>3, <2>1 DEF LockTypeOK, LockPlaces
  <2> QED  BY <1>7, <2>2 DEF Observe, LockTypeOK
<1>8. CASE MoveAside(r)
  <2>1. NextTry(r) \/ Steps(r, "gone") \/ Steps(r, "compare")
    BY <1>8 DEF MoveAside
  <2>2. lockFile' \in LockFiles /\ aside' \in [Launches -> LockFiles] /\ asleep' = asleep
    BY <1>1, <1>8 DEF MoveAside, LockTypeOK
  <2> QED  BY <1>3, <1>4, <2>1, <2>2 DEF LockTypeOK, LockPlaces
<1>9. CASE Compare(r)
  <2>1. NextTry(r) \/ Steps(r, "gone") \/ Steps(r, "restore")
    BY <1>9 DEF Compare
  <2>2. lockFile' \in LockFiles /\ aside' \in [Launches -> LockFiles] /\ asleep' = asleep
    BY <1>1, <1>9 DEF Compare, LockTypeOK
  <2> QED  BY <1>3, <1>4, <2>1, <2>2 DEF LockTypeOK, LockPlaces
<1>10. CASE PutBack(r)
  BY <1>1, <1>2, <1>3, <1>10 DEF PutBack, LockTypeOK, LockPlaces
<1>11. ASSUME NEW result \in {"ok", "conflict", "error"}, Reserve(r, result) PROVE LockTypeOK'
  <2>1. Steps(r, "in") \/ Steps(r, "gone")
    BY <1>11 DEF Reserve
  <2>2. lockFile' \in LockFiles
    BY <1>1, <1>11 DEF Reserve, LockTypeOK
  <2> QED  BY <1>3, <1>11, <2>1, <2>2 DEF Reserve, LockTypeOK, LockPlaces
<1>12. CASE Beat(r)
  BY <1>1, <1>12 DEF Beat, LockTypeOK
<1>13. CASE Unlock(r) \/ Die(r)
  BY <1>1, <1>3, <1>13 DEF Unlock, Die, LockTypeOK, LockPlaces
<1>14. CASE Sleep(r)
  BY <1>14 DEF Sleep, LockTypeOK
<1> QED
  BY <1>5, <1>6, <1>7, <1>8, <1>9, <1>10, <1>11, <1>12, <1>13, <1>14 DEF LockStep

\* Where a launch can get to, and what else of the launches a step changes.
LEMMA Launched ==
  ASSUME LockTypeOK, NEW r \in Launches, LockStep(r)
  PROVE  /\ \A p \in Launches \ {r} : launch'[p] = launch[p]
         /\ launch[r].at = "gone" => launch'[r].at = "gone"
         /\ asleep \subseteq asleep'
         /\ launch'[r].observed = launch[r].observed \/ Observe(r)
         /\ Holds(r)' => Holds(r) \/ Create(r)
<1>1. ASSUME NEW where \in LockPlaces, Steps(r, where)
      PROVE  /\ \A p \in Launches \ {r} : launch'[p] = launch[p]
             /\ launch'[r].at = where /\ launch'[r].observed = launch[r].observed
  BY <1>1 DEF Steps, LockTypeOK
<1>2. ASSUME NextTry(r)
      PROVE  /\ \A p \in Launches \ {r} : launch'[p] = launch[p]
             /\ launch'[r].at \in {"create", "gone"} /\ launch'[r].observed = launch[r].observed
  BY <1>2 DEF NextTry, LockTypeOK
<1>3. CASE Create(r)
  BY <1>1, <1>3 DEF Create, LockPlaces, Holds
<1>4. CASE Write(r)
  BY <1>1, <1>4 DEF Write, LockPlaces, Holds
<1>5. CASE Observe(r)
  <2>1. Steps(r, "gone")
        \/ launch' = [launch EXCEPT ![r].at = "recover", ![r].observed = Content(lockFile)]
    BY <1>5 DEF Observe
  <2>2. CASE launch' = [launch EXCEPT ![r].at = "recover", ![r].observed = Content(lockFile)]
    BY <1>5, <2>2 DEF Observe, LockTypeOK, Holds
  <2> QED  BY <1>1, <1>5, <2>1, <2>2 DEF Observe, LockPlaces, Holds
<1>6. CASE MoveAside(r) \/ Compare(r)
  BY <1>1, <1>2, <1>6 DEF MoveAside, Compare, LockPlaces, Holds
<1>7. CASE PutBack(r) \/ Unlock(r) \/ Die(r)
  BY <1>1, <1>7 DEF PutBack, Unlock, Die, LockPlaces, Holds
<1>8. CASE \E result \in {"ok", "conflict", "error"} : Reserve(r, result)
  BY <1>1, <1>8 DEF Reserve, LockPlaces, Holds
<1>9. CASE Beat(r) \/ Sleep(r)
  BY <1>9 DEF Beat, Sleep, Holds
<1> QED  BY <1>3, <1>4, <1>5, <1>6, <1>7, <1>8, <1>9 DEF LockStep

\* Who is gone or slept stays so.
LEMMA StaleStays ==
  ASSUME LockTypeOK, NEW r \in Launches, LockStep(r), NEW p \in Launches, IsStale(p)
  PROVE  IsStale(p)'
  BY Launched DEF IsStale, Alive

\* What a launch wants to recover from was stale when it looked.
LEMMA ObservedStale ==
  ASSUME LockAssumption, LockTypeOK, Stale, NEW r \in Launches, LockStep(r), NEW p \in Launches,
         launch'[p].observed \in Launches
  PROVE  IsStale(launch[p].observed)'
<1>1. PICK x \in Launches : x = launch'[p].observed
  OBVIOUS
<1>2. SUFFICES IsStale(x)'
  BY <1>1 DEF IsStale, Alive
<1>3. CASE launch'[p].observed = launch[p].observed
  <2>1. IsStale(x)
    BY <1>1, <1>3 DEF Stale
  <2> QED  BY <2>1, StaleStays
<1>4. CASE launch'[p].observed # launch[p].observed
  <2>1. p = r /\ Observe(r)
    BY <1>4, Launched
  <2>2. x = Content(lockFile) /\ IsStale(x)
    <3>1. ~ Steps(r, "gone")
      BY <1>4, <2>1 DEF Steps, LockTypeOK
    <3>2. /\ launch' = [launch EXCEPT ![r].at = "recover", ![r].observed = Content(lockFile)]
          /\ ~ (Content(lockFile) # Nobody /\ ~ IsStale(Content(lockFile)))
      BY <2>1, <3>1 DEF Observe
    <3>3. launch'[r].observed = Content(lockFile)
      BY <3>2 DEF LockTypeOK
    <3>4. Nobody \notin Launches
      BY DEF LockAssumption
    <3> QED  BY <1>1, <2>1, <3>2, <3>3, <3>4
  <2> QED  BY <1>1, <2>2, StaleStays
<1> QED  BY <1>3, <1>4

\* A holder is not what anybody wants to recover from.
LEMMA HolderAwake ==
  ASSUME LockAssumption, LockTypeOK, Stale, NEW p \in Launches, Holds(p)
  PROVE  p # Nobody /\ \A q \in Launches : launch[q].observed # p
  BY DEF LockAssumption, Stale, IsStale, Alive, Holds

\* A holder's lock that is aside was misjudged.
LEMMA AsideMisjudged ==
  ASSUME LockAssumption, LockTypeOK, Stale, NEW p \in Launches, Holds(p), Guarded(p),
         NEW q \in Launches, aside[q].by = p
  PROVE  Content(aside[q]) = p /\ Content(aside[q]) # launch[q].observed /\ Misjudged
<1>1. aside[q].written /\ p # Nobody /\ launch[q].observed # p
  BY HolderAwake DEF Guarded
<1>2. Content(aside[q]) = p /\ aside[q] # NoFile
  BY <1>1 DEF Content, NoFile
<1> QED  BY <1>1, <1>2 DEF Misjudged

\* A step that leaves the files where they are leaves the lock guarded.
LEMMA GuardKept ==
  ASSUME NEW p \in Launches, Guarded(p), lockFile'.by = lockFile.by,
         \A q \in Launches : aside'[q] = aside[q], \A q \in Launches : Holds(q)' => Holds(q),
         \A q \in Launches : launch'[q].observed = launch[q].observed \/ aside[q].by = Nobody
  PROVE  Guarded(p)'
<1>1. \A q \in Launches : Content(aside[q])' = Content(aside[q])
  BY DEF Content
<1>2. \A q \in Launches : aside'[q].by \in {p, Nobody} \/ Content(aside[q])' = launch'[q].observed
  BY <1>1 DEF Guarded
<1> QED  BY <1>2 DEF Guarded

\* The step of one launch, when nothing went wrong: what it must say of itself.
LEMMA OrderedKept ==
  ASSUME LockTypeOK, NEW r \in Launches, LockStep(r), Ordered,
         lockFile'.by = lockFile.by, \A q \in Launches : aside'[q] = aside[q],
         Holds(r)' => Holds(r),
         launch'[r].observed = launch[r].observed \/ aside[r].by = Nobody,
         launch'[r].at \in {"compare", "restore"} => launch[r].at \in {"compare", "restore"},
         launch'[r].at \notin {"compare", "restore", "gone"} => aside[r] = NoFile,
         launch'[r].at = "restore" => Content(aside[r]) # launch'[r].observed,
         launch'[r].at \in {"create", "observe", "recover", "compare", "restore"} =>
           launch[r].at \in {"create", "observe", "recover", "compare", "restore"}
  PROVE  Ordered'
<1>1. \A p \in Launches \ {r} : launch'[p] = launch[p] /\ (Holds(p)' => Holds(p))
  BY Launched DEF Holds
<1>2. \A q \in Launches : Content(aside[q])' = Content(aside[q])
  BY DEF Content
<1>3. Asides'
  <2>1. ASSUME NEW q \in Launches
        PROVE  /\ launch'[q].at \in {"compare", "restore"} => aside'[q].by # Nobody
               /\ launch'[q].at \notin {"compare", "restore", "gone"} => aside'[q] = NoFile
               /\ launch'[q].at = "restore" => Content(aside[q])' # launch'[q].observed
    BY <1>1, <1>2 DEF Ordered, Asides
  <2> QED  BY <2>1 DEF Asides, NoFile
<1>4. Fresh'
  BY <1>1 DEF Ordered, Fresh
<1>5. ASSUME NEW p \in Launches, Holds(p)' PROVE Guarded(p)'
  <2>1. Guarded(p)
    BY <1>1, <1>5 DEF Ordered
  <2> QED  BY <1>1, <2>1, GuardKept
<1> QED  BY <1>3, <1>4, <1>5 DEF Ordered

\* The creation finds no holder, unless somebody misjudged it.
LEMMA CreateKeeps ==
  ASSUME LockAssumption, LockTypeOK, Stale, Ordered, NEW r \in Launches, Create(r), ~ mishap'
  PROVE  Ordered'
<1>0. LockStep(r) /\ aside' = aside /\ asleep' = asleep
  BY DEF LockStep, Create
<1>1. CASE lockFile.by # Nobody
  <2>1. lockFile' = lockFile /\ launch[r].at = "create" /\ launch' = [launch EXCEPT ![r].at = "observe"]
    BY <1>1 DEF Create, Steps
  <2>2. launch'[r].at = "observe" /\ launch'[r].observed = launch[r].observed
    BY <2>1 DEF LockTypeOK
  <2>3. aside[r] = NoFile
    BY <2>1 DEF Ordered, Asides
  <2>4. ~ Holds(r)'
    BY <2>2 DEF Holds
  <2> QED  BY <1>0, <2>1, <2>2, <2>3, <2>4, OrderedKept
<1>2. CASE lockFile.by = Nobody
  <2>1. /\ lockFile' = FileOf(r, FALSE) /\ launch[r].at = "create" /\ ~ Misjudged
        /\ launch' = [launch EXCEPT ![r].at = "write"]
    BY <1>2 DEF Create, Steps
  <2>2. /\ launch'[r].at = "write" /\ lockFile'.by = r
        /\ \A q \in Launches : launch'[q].observed = launch[q].observed
        /\ \A q \in Launches \ {r} : launch'[q] = launch[q]
    BY <2>1 DEF LockTypeOK, FileOf
  <2>3. aside[r] = NoFile /\ \A q \in Launches : aside[q].by # r
    BY <2>1 DEF Ordered, Asides, Fresh
  <2>4. \A p \in Launches : ~ Holds(p)
    BY <1>2, <2>1, AsideMisjudged DEF Ordered, Guarded
  <2>5. Asides'
    <3>1. \A q \in Launches : Content(aside[q])' = Content(aside[q])
      BY <1>0 DEF Content
    <3>2. \A q \in Launches : (launch[q].observed)' = launch[q].observed
      BY <2>2
    <3> QED  BY <1>0, <2>2, <2>3, <3>1, <3>2 DEF Ordered, Asides, NoFile
  <2>6. Fresh'
    BY <1>0, <2>2 DEF Ordered, Fresh
  <2>7. ASSUME NEW p \in Launches, Holds(p)' PROVE Guarded(p)'
    <3>1. \A q \in Launches : Holds(q)' => q = r
      BY <1>0, <2>2, <2>4 DEF Holds
    <3>2. p = r /\ r # Nobody
      BY <2>7, <3>1 DEF LockAssumption
    <3>3. \A q \in Launches : aside'[q].by \in {p, Nobody} \/ Content(aside[q])' = launch'[q].observed
      BY <1>0, <2>1, <2>2 DEF Misjudged, NoFile, Content
    <3> QED  BY <1>0, <2>2, <2>3, <3>1, <3>2, <3>3 DEF Guarded
  <2> QED  BY <2>5, <2>6, <2>7 DEF Ordered
<1> QED  BY <1>1, <1>2

\* The creator writes its file, which nobody has moved.
LEMMA WriteKeeps ==
  ASSUME LockAssumption, LockTypeOK, Stale, Ordered, NEW r \in Launches, Write(r)
  PROVE  Ordered'
<1>1. LockStep(r) /\ launch[r].at = "write"
  BY DEF LockStep, Write
<1>2. Holds(r) /\ Guarded(r) /\ aside[r] = NoFile
  BY <1>1 DEF Holds, Stale, Ordered, Asides
<1>3. lockFile'.by = lockFile.by
  BY DEF Write, FileOf
<1>4. \A q \in Launches : aside[q] # FileOf(r, FALSE)
  BY <1>2 DEF Guarded, FileOf
<1>5. \A q \in Launches : aside'[q] = aside[q]
  BY <1>4 DEF Write
<1>6. launch'[r].at \in {"reserve", "in"} /\ launch'[r].observed = launch[r].observed
  <2>1. Steps(r, "reserve") \/ Steps(r, "in")
    BY DEF Write
  <2> QED  BY <2>1 DEF Steps, LockTypeOK
<1> QED  BY <1>1, <1>2, <1>3, <1>5, <1>6, OrderedKept

\* Looking at the lock, and being refused, and the end of a launch that leaves the lock.
LEMMA LooksKeep ==
  ASSUME LockAssumption, LockTypeOK, Stale, Ordered, NEW r \in Launches, Observe(r) \/ Die(r) \/ Sleep(r)
  PROVE  Ordered'
<1>1. LockStep(r) /\ lockFile' = lockFile /\ aside' = aside
  BY DEF LockStep, Observe, Die, Sleep
<1>2. CASE Observe(r)
  <2>1. launch[r].at = "observe" /\ aside[r] = NoFile /\ aside[r].by = Nobody
    <3>1. launch[r].at = "observe"
      BY <1>2 DEF Observe
    <3>2. aside[r] = NoFile
      BY <3>1 DEF Ordered, Asides
    <3> QED  BY <3>1, <3>2 DEF NoFile
  <2>2. launch'[r].at \in {"gone", "recover"}
    <3>1. Steps(r, "gone")
          \/ launch' = [launch EXCEPT ![r].at = "recover", ![r].observed = Content(lockFile)]
      BY <1>2 DEF Observe
    <3> QED  BY <3>1 DEF Steps, LockTypeOK
  <2>3. ~ Holds(r)'
    BY <2>2 DEF Holds
  <2> QED  BY <1>1, <2>1, <2>2, <2>3, OrderedKept
<1>3. CASE Die(r)
  <2>1. launch'[r].at = "gone" /\ launch'[r].observed = launch[r].observed
    BY <1>3 DEF Die, Steps, LockTypeOK
  <2>2. ~ Holds(r)'
    BY <2>1 DEF Holds
  <2> QED  BY <1>1, <2>1, <2>2, OrderedKept
<1>4. CASE Sleep(r)
  <2>1. launch' = launch /\ launch[r].at = "in" /\ (Holds(r)' => Holds(r))
    BY <1>4 DEF Sleep, Holds
  <2>2. aside[r] = NoFile
    BY <2>1 DEF Ordered, Asides
  <2> QED  BY <1>1, <2>1, <2>2, OrderedKept
<1> QED  BY <1>2, <1>3, <1>4

\* The recovery takes the lock of a holder only as a written file, and keeps it in its hands.
LEMMA MoveKeeps ==
  ASSUME LockAssumption, LockTypeOK, Stale, Ordered, NEW r \in Launches, MoveAside(r), ~ mishap'
  PROVE  Ordered'
<1>1. LockStep(r) /\ launch[r].at = "recover" /\ asleep' = asleep /\ aside[r] = NoFile
  BY DEF LockStep, MoveAside, Ordered, Asides
<1>2. CASE UNCHANGED <<lockFile, aside>> /\ (NextTry(r) \/ Steps(r, "gone"))
  <2>1. launch'[r].at \in {"create", "gone"} /\ launch'[r].observed = launch[r].observed
    BY <1>2 DEF NextTry, Steps, LockTypeOK
  <2>2. ~ Holds(r)'
    BY <2>1 DEF Holds
  <2> QED  BY <1>1, <1>2, <2>1, <2>2, OrderedKept
<1>3. CASE /\ lockFile.by # Nobody /\ ~ IsOpen(lockFile)
           /\ aside' = [aside EXCEPT ![r] = lockFile] /\ lockFile' = NoFile /\ Steps(r, "compare")
  <2>1. /\ launch'[r].at = "compare" /\ \A q \in Launches : launch'[q].observed = launch[q].observed
        /\ \A q \in Launches \ {r} : launch'[q] = launch[q] /\ aside'[q] = aside[q]
        /\ aside'[r] = lockFile /\ lockFile'.by = Nobody
    BY <1>3 DEF Steps, LockTypeOK, NoFile
  <2>2. \A q \in Launches : Holds(q)' => Holds(q) /\ q # r
    BY <1>1, <2>1 DEF Holds
  <2>3. \A q \in Launches \ {r} : Content(aside[q])' = Content(aside[q])
    BY <2>1 DEF Content
  <2>4. Asides'
    <3>1. ASSUME NEW q \in Launches
          PROVE  /\ launch'[q].at \in {"compare", "restore"} => aside'[q].by # Nobody
                 /\ launch'[q].at \notin {"compare", "restore", "gone"} => aside'[q] = NoFile
                 /\ launch'[q].at = "restore" => Content(aside[q])' # launch'[q].observed
      BY <1>3, <2>1, <2>3 DEF Ordered, Asides
    <3> QED  BY <3>1 DEF Asides, NoFile
  <2>5. Fresh'
    <3>1. ASSUME NEW p \in Launches, NEW q \in Launches,
                 launch'[p].at \in {"create", "observe", "recover", "compare", "restore"}
          PROVE  lockFile'.by # p /\ aside'[q].by # p
      <4>1. launch[p].at \in {"create", "observe", "recover", "compare", "restore"} /\ p # Nobody
        BY <1>1, <2>1, <3>1 DEF LockAssumption
      <4> QED  BY <2>1, <4>1 DEF Ordered, Fresh
    <3> QED  BY <3>1 DEF Fresh
  <2>6. ASSUME NEW p \in Launches, Holds(p)' PROVE Guarded(p)'
    <3>1. Holds(p) /\ Guarded(p) /\ lockFile.by = p
      BY <1>3, <2>2, <2>6 DEF Ordered, Guarded
    <3>2. lockFile.written
      BY <1>3, <3>1 DEF IsOpen, Alive, Holds
    <3>3. \A q \in Launches : aside'[q].by \in {p, Nobody} \/ Content(aside[q])' = launch'[q].observed
      BY <2>1, <2>3, <3>1 DEF Guarded
    <3>4. \A q \in Launches : aside'[q].by = p => aside'[q].written
      BY <2>1, <3>1, <3>2 DEF Guarded
    <3> QED  BY <2>1, <2>2, <3>1, <3>3, <3>4 DEF Guarded
  <2> QED  BY <2>4, <2>5, <2>6 DEF Ordered
<1>4. ~ IsOpen(lockFile) \/ ~ posix
  BY DEF MoveAside
<1> QED  BY <1>2, <1>3, <1>4 DEF MoveAside

\* The recovery deletes no holder's lock, unless another one is there.
LEMMA CompareKeeps ==
  ASSUME LockAssumption, LockTypeOK, Stale, Ordered, NEW r \in Launches, Compare(r)
  PROVE  Ordered'
<1>1. LockStep(r) /\ launch[r].at = "compare" /\ lockFile' = lockFile /\ asleep' = asleep
  BY DEF LockStep, Compare
<1>2. CASE Steps(r, "restore") /\ aside' = aside /\ Content(aside[r]) # launch[r].observed
  <2>1. launch'[r].at = "restore" /\ launch'[r].observed = launch[r].observed
    BY <1>2 DEF Steps, LockTypeOK
  <2>2. ~ Holds(r)'
    BY <2>1 DEF Holds
  <2> QED  BY <1>1, <1>2, <2>1, <2>2, OrderedKept
<1>3. CASE /\ Content(aside[r]) = launch[r].observed \/ lockFile.by # Nobody
           /\ NextTry(r) \/ Steps(r, "gone")
           /\ aside' = [aside EXCEPT ![r] = NoFile]
  <2>1. /\ launch'[r].at \in {"create", "gone"} /\ \A q \in Launches : launch'[q].observed = launch[q].observed
        /\ \A q \in Launches \ {r} : launch'[q] = launch[q] /\ aside'[q] = aside[q]
        /\ aside'[r] = NoFile /\ aside'[r].by = Nobody
    BY <1>3 DEF NextTry, Steps, LockTypeOK, NoFile
  <2>2. \A q \in Launches : Holds(q)' => Holds(q)
    BY <1>1, <2>1 DEF Holds
  <2>3. \A q \in Launches \ {r} : Content(aside[q])' = Content(aside[q])
    BY <2>1 DEF Content
  <2>4. Asides'
    <3>1. ASSUME NEW q \in Launches
          PROVE  /\ launch'[q].at \in {"compare", "restore"} => aside'[q].by # Nobody
                 /\ launch'[q].at \notin {"compare", "restore", "gone"} => aside'[q] = NoFile
                 /\ launch'[q].at = "restore" => Content(aside[q])' # launch'[q].observed
      BY <2>1, <2>3 DEF Ordered, Asides
    <3> QED  BY <3>1 DEF Asides, NoFile
  <2>5. Fresh'
    <3>1. ASSUME NEW p \in Launches, NEW q \in Launches,
                 launch'[p].at \in {"create", "observe", "recover", "compare", "restore"}
          PROVE  lockFile'.by # p /\ aside'[q].by # p
      <4>1. launch[p].at \in {"create", "observe", "recover", "compare", "restore"} /\ p # Nobody
        BY <1>1, <2>1, <3>1 DEF LockAssumption
      <4> QED  BY <1>1, <2>1, <4>1 DEF Ordered, Fresh
    <3> QED  BY <3>1 DEF Fresh
  <2>6. ASSUME NEW p \in Launches, Holds(p)' PROVE Guarded(p)'
    <3>1. Holds(p) /\ Guarded(p) /\ p # Nobody
      BY <2>2, <2>6, HolderAwake DEF Ordered
    <3>2. lockFile.by = Nobody => aside[r].by # p
      BY <1>3, <3>1, AsideMisjudged
    <3>3. lockFile'.by = Nobody => \E q \in Launches : aside'[q].by = p
      BY <1>1, <2>1, <3>1, <3>2 DEF Guarded
    <3>4. \A q \in Launches : aside'[q].by \in {p, Nobody} \/ Content(aside[q])' = launch'[q].observed
      BY <2>1, <2>3, <3>1 DEF Guarded
    <3>5. \A q \in Launches : aside'[q].by = p => aside'[q].written
      BY <2>1, <3>1 DEF Guarded
    <3> QED  BY <1>1, <2>2, <3>1, <3>3, <3>4, <3>5 DEF Guarded
  <2> QED  BY <2>4, <2>5, <2>6 DEF Ordered
<1> QED  BY <1>2, <1>3 DEF Compare

\* A misjudged lock is put back in the place it was taken from.
LEMMA PutBackKeeps ==
  ASSUME LockAssumption, LockTypeOK, Stale, Ordered, NEW r \in Launches, PutBack(r)
  PROVE  Ordered'
<1>1. /\ LockStep(r) /\ launch[r].at = "restore" /\ asleep' = asleep
      /\ lockFile' = aside[r] /\ aside' = [aside EXCEPT ![r] = NoFile] /\ Steps(r, "gone")
  BY DEF LockStep, PutBack
<1>2. /\ launch'[r].at = "gone" /\ \A q \in Launches : launch'[q].observed = launch[q].observed
      /\ \A q \in Launches \ {r} : launch'[q] = launch[q] /\ aside'[q] = aside[q]
      /\ aside'[r] = NoFile /\ aside'[r].by = Nobody
  BY <1>1 DEF Steps, LockTypeOK, NoFile
<1>3. aside[r].by # Nobody /\ Content(aside[r]) # launch[r].observed
  BY <1>1 DEF Ordered, Asides
<1>4. \A q \in Launches : Holds(q)' => Holds(q) /\ q # r
  BY <1>1, <1>2 DEF Holds
<1>5. \A q \in Launches \ {r} : Content(aside[q])' = Content(aside[q])
  BY <1>2 DEF Content
<1>6. Asides'
  <2>1. ASSUME NEW q \in Launches
        PROVE  /\ launch'[q].at \in {"compare", "restore"} => aside'[q].by # Nobody
               /\ launch'[q].at \notin {"compare", "restore", "gone"} => aside'[q] = NoFile
               /\ launch'[q].at = "restore" => Content(aside[q])' # launch'[q].observed
    BY <1>2, <1>5 DEF Ordered, Asides
  <2> QED  BY <2>1 DEF Asides, NoFile
<1>7. Fresh'
  <2>1. ASSUME NEW p \in Launches, NEW q \in Launches,
               launch'[p].at \in {"create", "observe", "recover", "compare", "restore"}
        PROVE  lockFile'.by # p /\ aside'[q].by # p
    <3>1. launch[p].at \in {"create", "observe", "recover", "compare", "restore"} /\ p # Nobody
      BY <1>1, <1>2, <2>1 DEF LockAssumption
    <3> QED  BY <1>1, <1>2, <3>1 DEF Ordered, Fresh
  <2> QED  BY <2>1 DEF Fresh
<1>8. ASSUME NEW p \in Launches, Holds(p)' PROVE Guarded(p)'
  <2>1. Holds(p) /\ Guarded(p) /\ p # Nobody
    BY <1>4, <1>8, HolderAwake DEF Ordered
  <2>2. lockFile'.by = p
    BY <1>1, <1>3, <2>1 DEF Guarded
  <2>3. \A q \in Launches : aside'[q].by \in {p, Nobody} \/ Content(aside[q])' = launch'[q].observed
    BY <1>2, <1>5, <2>1 DEF Guarded
  <2>4. \A q \in Launches : aside'[q].by = p => aside'[q].written
    BY <1>2, <2>1 DEF Guarded
  <2> QED  BY <1>4, <2>1, <2>2, <2>3, <2>4 DEF Guarded
<1> QED  BY <1>6, <1>7, <1>8 DEF Ordered

\* What a launch does that has the lock, or had it before it overslept.
LEMMA OwnersKeep ==
  ASSUME LockAssumption, LockTypeOK, Stale, Ordered, NEW r \in Launches, ~ mishap',
         Beat(r) \/ Unlock(r) \/ \E result \in {"ok", "conflict", "error"} : Reserve(r, result)
  PROVE  Ordered'
<1>1. /\ LockStep(r) /\ aside' = aside /\ asleep' = asleep /\ launch[r].at \in {"reserve", "in"}
      /\ aside[r] = NoFile
  BY DEF LockStep, Beat, Unlock, Reserve, Ordered, Asides
<1>2. /\ launch'[r].at \in {"in", "gone"} /\ launch'[r].observed = launch[r].observed
      /\ \A q \in Launches \ {r} : launch'[q] = launch[q]
  <2>1. (launch' = launch /\ launch[r].at = "in") \/ Steps(r, "in") \/ Steps(r, "gone")
    BY DEF Beat, Unlock, Reserve
  <2> QED  BY <2>1 DEF Steps, LockTypeOK
<1>3. \A q \in Launches : Holds(q)' => Holds(q)
  BY <1>1, <1>2 DEF Holds
<1>4. CASE lockFile' = lockFile
  BY <1>1, <1>2, <1>3, <1>4, OrderedKept
<1>5. CASE lockFile' # lockFile
  <2>1. /\ Beat(r) => lockFile' = FileOf(r, TRUE) /\ launch' = launch
        /\ ~ Beat(r) => lockFile' = NoFile /\ launch'[r].at = "gone"
    BY <1>5 DEF Beat, Unlock, Reserve, Steps, LockTypeOK
  <2>2. ASSUME NEW p \in Launches, Holds(p) PROVE p = r
    <3>1. CASE r \in asleep
      <4>1. lockFile.by = r /\ Guarded(p)
        <5>1. launch[r].at = "in"
          BY <1>1, <3>1 DEF Stale
        <5>2. Beat(r) \/ Unlock(r)
          BY <5>1 DEF Reserve
        <5> QED  BY <2>2, <3>1, <5>2 DEF Beat, Unlock, Overslept, Ordered
      <4>2. r # Nobody
        BY DEF LockAssumption
      <4> QED  BY <4>1, <4>2 DEF Guarded
    <3>2. CASE r \notin asleep
      BY <1>1, <2>2, <3>2 DEF Holds, Ordered, Guarded
    <3> QED  BY <3>1, <3>2
  <2>3. Content(lockFile)' \in {r, Nobody} /\ lockFile'.by \in {r, Nobody}
    BY <2>1 DEF Content, FileOf, NoFile
  <2>4. \A q \in Launches : Content(aside[q])' = Content(aside[q])
    BY <1>1 DEF Content
  <2>5. Asides'
    <3>1. ASSUME NEW q \in Launches
          PROVE  /\ launch'[q].at \in {"compare", "restore"} => aside'[q].by # Nobody
                 /\ launch'[q].at \notin {"compare", "restore", "gone"} => aside'[q] = NoFile
                 /\ launch'[q].at = "restore" => Content(aside[q])' # launch'[q].observed
      BY <1>1, <1>2, <2>4 DEF Ordered, Asides
    <3> QED  BY <3>1 DEF Asides, NoFile
  <2>6. Fresh'
    <3>1. ASSUME NEW p \in Launches, NEW q \in Launches,
                 launch'[p].at \in {"create", "observe", "recover", "compare", "restore"}
          PROVE  lockFile'.by # p /\ aside'[q].by # p
      <4>1. p # r /\ p # Nobody /\ launch'[p] = launch[p]
        BY <1>2, <3>1 DEF LockAssumption
      <4> QED  BY <1>1, <2>3, <3>1, <4>1 DEF Ordered, Fresh
    <3> QED  BY <3>1 DEF Fresh
  <2>7. ASSUME NEW p \in Launches, Holds(p)' PROVE Guarded(p)'
    <3>1. p = r /\ Holds(r) /\ Guarded(r) /\ r # Nobody
      BY <1>3, <2>2, <2>7 DEF Ordered, LockAssumption
    <3>2. lockFile'.by = r
      <4>1. Beat(r)
        BY <2>1, <2>7, <3>1 DEF Holds
      <4> QED  BY <2>1, <4>1 DEF FileOf
    <3>3. \A q \in Launches : launch'[q].observed = launch[q].observed
      BY <1>2
    <3>4. \A q \in Launches : aside'[q].by \in {p, Nobody} \/ Content(aside[q])' = launch'[q].observed
      BY <1>1, <2>4, <3>1, <3>3 DEF Guarded
    <3>5. \A q \in Launches : aside'[q].by = p => aside'[q].written
      BY <1>1, <3>1 DEF Guarded
    <3> QED  BY <1>3, <3>1, <3>2, <3>4, <3>5 DEF Guarded
  <2> QED  BY <2>5, <2>6, <2>7 DEF Ordered
<1> QED  BY <1>4, <1>5

\* Every step of a launch keeps the lock sound.
LEMMA LockStepKeeps ==
  ASSUME LockAssumption, LockSound, NEW r \in Launches, LockStep(r)
  PROVE  LockSound'
<1> USE DEF LockSound
<1>1. LockTypeOK'
  BY LockTypes
<1>2. Stale'
  <2>1. ASSUME NEW p \in Launches, launch'[p].observed \in Launches
        PROVE  IsStale(launch[p].observed)'
    BY <2>1, ObservedStale
  <2>2. ASSUME NEW p \in asleep' PROVE launch'[p].at \in {"in", "gone"}
    <3>1. CASE p \in asleep
      <4>1. launch[p].at \in {"in", "gone"} /\ p \in Launches
        BY <3>1 DEF Stale, LockTypeOK
      <4>2. CASE p # r
        BY <4>1, <4>2, Launched
      <4>3. CASE p = r
        <5>1. \/ Beat(r) \/ Unlock(r) \/ Die(r) \/ Sleep(r)
              \/ launch[r].at = "gone"
          BY <4>1, <4>3 DEF LockStep, Create, Write, Observe, MoveAside, Compare, PutBack, Reserve
        <5>2. CASE Beat(r) \/ Sleep(r)
          BY <4>1, <4>3, <5>2 DEF Beat, Sleep
        <5>3. CASE Unlock(r) \/ Die(r)
          BY <4>3, <5>3 DEF Unlock, Die, Steps, LockTypeOK
        <5>4. CASE launch[r].at = "gone"
          BY <4>3, <5>4, Launched
        <5> QED  BY <5>1, <5>2, <5>3, <5>4
      <4> QED  BY <4>2, <4>3
    <3>2. CASE p \notin asleep
      BY <2>2, <3>2 DEF LockStep, Create, Write, Observe, MoveAside, Compare, PutBack, Reserve, Beat, Unlock, Die, Sleep
    <3> QED  BY <3>1, <3>2
  <2> QED  BY <2>1, <2>2 DEF Stale, IsStale, Alive
<1>3. mishap => mishap'
  BY DEF LockStep, Create, Write, Observe, MoveAside, Compare, PutBack, Reserve, Beat, Unlock, Die, Sleep
<1>4. ASSUME Ordered, ~ mishap' PROVE Ordered'
  BY <1>4, CreateKeeps, WriteKeeps, LooksKeep, MoveKeeps, CompareKeeps, PutBackKeeps, OwnersKeep DEF LockStep
<1> QED  BY <1>1, <1>2, <1>3, <1>4

\* At most one launch operates the line, of those that never slept past their heartbeat, for
\* any number of launches, on either platform and with any deaths and recoveries, until an
\* open file is moved, a lock is created while a misjudged one is aside, or a launch that
\* overslept touches its successor's (line_lock.py).
THEOREM OneLine == ASSUME LockAssumption PROVE LockSpec => []LineExclusive
<1>1. LockAssumption /\ LockInit => LockSound
  <2> SUFFICES ASSUME LockAssumption, LockInit PROVE LockSound
    OBVIOUS
  <2>1. LockTypeOK
    <3>1. NoFile \in LockFiles /\ \A b \in BOOLEAN : FileOf(Ghost, b) \in LockFiles
      BY DEF NoFile, FileOf, LockFiles, Names
    <3>2. lockFile \in LockFiles /\ aside \in [Launches -> LockFiles] /\ asleep \subseteq Launches
      BY <3>1 DEF LockInit
    <3>3. launch \in [Launches -> [at : LockPlaces, observed : Names, tries : Nat]]
      BY DEF LockInit, LockPlaces, Names
    <3> QED  BY <3>2, <3>3 DEF LockTypeOK
  <2>2. /\ \A p \in Launches : launch[p].at = "create" /\ launch[p].observed = Nobody
        /\ asleep = {} /\ \A p \in Launches : aside[p] = NoFile
    BY DEF LockInit
  <2>3. Stale
    BY <2>2 DEF Stale, LockAssumption
  <2>4. lockFile.by \in {Nobody, Ghost} /\ NoFile.by = Nobody
    BY DEF LockInit, NoFile, FileOf
  <2>5. Ordered
    BY <2>2, <2>4 DEF Ordered, Asides, Fresh, Holds, LockAssumption
  <2> QED  BY <2>1, <2>3, <2>5 DEF LockSound
<1>2. LockAssumption /\ LockSound /\ [LockNext]_lockVars => LockSound'
  <2>1. ASSUME LockSound, UNCHANGED lockVars PROVE LockSound'
    BY <2>1 DEF lockVars, LockSound, LockTypeOK, Stale, Ordered, Asides, Fresh, IsStale, Alive, Holds, Guarded, Content
  <2> QED  BY <2>1, LockStepKeeps DEF LockNext, LockStep
<1>3. LockSound => LineExclusive
  BY DEF LockSound, Ordered, Guarded, Holds, LineExclusive
<1> QED  BY <1>1, <1>2, <1>3, PTL DEF LockSpec
=============================================================================
