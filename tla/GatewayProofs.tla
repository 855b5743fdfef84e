---------------------------- MODULE GatewayProofs ----------------------------
(***************************************************************************)
(* Safety of the requests on one cached row, for any number of pods, routes *)
(* and requests: the degraded mode follows the breakers, a pod's requests   *)
(* work on what was changed on it, only stale saves undo a change, and      *)
(* passwords are judged by the current hash.                                *)
(***************************************************************************)
EXTENDS Gateway, FiniteSetTheorems, TLAPS

-----------------------------------------------------------------------------
(* Types.                                                                    *)

Rows == SUBSET ({"row"} \cup Hashes \cup Requests)
Copies == Rows \cup {Miss}

BreakerStates == [st : {"closed", "open", "half"}, gen : Nat, requests : Nat, failures : Nat, wins : Nat]

BreakerTypeOK ==
    /\ openCount \in [Pods -> Int] /\ active \in [Pods -> BOOLEAN]
    /\ storing \in [Pods -> SUBSET (Breakers \X BOOLEAN)]
    /\ breakers \in [Pods -> [Breakers -> BreakerStates]]
    /\ epoch \in [Pods -> 0 .. MaxReloads]
    /\ ticket \in [Requests -> [b : Breakers, gen : Nat]]

\* Where a request may be, by what it does.
Places(r) ==
    {"new", "get", "get2", "join", "joinDegraded", "wait", "direct", "other", "leave", "done"}
    \cup (IF Op(r) \in {"register", "bind", "publish"} THEN {"insert"} ELSE {})
    \cup (IF Op(r) = "publish" THEN {"set"} ELSE {})
    \cup (IF Op(r) \in {"bind", "edit", "profile"} THEN {"save"} ELSE {})
    \cup (IF Op(r) \in {"points", "flip", "password"} THEN {"update"} ELSE {})
    \cup (IF Op(r) = "password" THEN {"acquire", "old", "lookup"} ELSE {})
    \cup (IF Op(r) = "login" THEN {"verify", "compare"} ELSE {})
    \cup (IF Invalidates(r) THEN {"del1", "del2"} ELSE {})

AllPlaces ==
    {"new", "get", "get2", "join", "joinDegraded", "wait", "direct", "other", "leave", "done", "insert",
     "set", "save", "update", "acquire", "old", "lookup", "verify", "compare", "del1", "del2"}
Results == {"none", "unknown", "locked", "in", "wrong", "kept"}
Progresses == [pc : AllPlaces, got : Copies, fresh : BOOLEAN, shared : BOOLEAN, ok : BOOLEAN,
               typed : Hashes \cup {"none"}, old : BOOLEAN, res : Results]

RequestTypeOK ==
    /\ deploy \in Deployments
    /\ rq \in [Requests -> Progresses]
    /\ \A r \in Requests : rq[r].pc \in Places(r) /\ (rq[r].pc = "save" => rq[r].got # Miss)
    /\ committed \subseteq Requests /\ raced \subseteq Requests
    /\ secret \in Hashes \cup {"none"}
    /\ began \in [Requests -> SUBSET Requests]
    /\ fails \in [Stores -> [count : Nat, locked : BOOLEAN]]

FlightPlaces == {"none", "check", "lock", "spin", "load", "fill2", "fill1", "end"}
Flights == [pc : FlightPlaces, val : Rows, fillL2 : BOOLEAN, ok : BOOLEAN, fresh : BOOLEAN,
            lead : Requests \cup {Nobody}]
Writes == [to : Pods \cup {"l2", "channel"}, val : Copies, by : Requests \cup {Nobody}]

CacheTypeOK ==
    /\ row \in Rows /\ replica \in Rows /\ l1 \in [Pods -> Copies] /\ l2 \in Copies
    /\ flight \in [Pods -> Flights]
    /\ late \subseteq Writes
    /\ redis \in BOOLEAN /\ db \in {"up", "fails", "hangs"}

TypeInv == RequestTypeOK /\ CacheTypeOK

-----------------------------------------------------------------------------
(* The degraded mode.                                                        *)

NotClosed(p) == {b \in Breakers : breakers[p][b].st # "closed"}

\* Until something odd has happened the count is right, at most one store is on its way, and it
\* brings the flag to what the breakers say.
FlagFollows(p) ==
    /\ openCount[p] = Cardinality(NotClosed(p))
    /\ storing[p] = {} => (active[p] <=> NotClosed(p) # {})
    /\ \A s \in storing[p] : /\ s[2] <=> NotClosed(p) # {}
                             /\ s[2] => s[1] \in NotClosed(p)
                             /\ storing[p] = {s}

DegradeInv ==
    /\ BreakerTypeOK
    /\ odd = {} /\ "reload" \notin harm => \A p \in Pods : FlagFollows(p)

-----------------------------------------------------------------------------
(* What the requests have read.                                              *)

Loading == {"new", "get", "get2", "join", "joinDegraded", "wait", "direct", "other"}
Filled == {"fill2", "fill1", "end"}

\* What a request holds at each place.
ChainAt(r) ==
    /\ rq[r].pc \in {"new", "get", "get2", "join", "joinDegraded", "wait"} => rq[r].got = Miss /\ ~ rq[r].fresh
    /\ rq[r].res # "none" => rq[r].pc \in {"leave", "done"}
    /\ rq[r].pc \in Loading \cup {"insert", "acquire", "old", "update", "save"} => r \notin committed
    /\ rq[r].pc = "insert" /\ Op(r) = "bind" => rq[r].got = Absent
    /\ rq[r].pc = "set" => r \in committed
    /\ Op(r) = "login" /\ rq[r].pc \notin {"new", "done"} => rq[r].typed # "none"
    /\ Op(r) = "password" /\ (rq[r].pc = "update" \/ r \in committed) => rq[r].typed \in rq[r].got
    /\ rq[r].res = "in" => rq[r].typed \in rq[r].got
    /\ rq[r].res = "wrong" => rq[r].typed \notin rq[r].got /\ rq[r].typed # "none"

ChainInv == \A r \in Requests : ChainAt(r)

\* A copy shows committed changes only, a hash together with the change that set it, and the first
\* hash without any change of it.
CopyFits(v, done, d) ==
    /\ v \cap Requests \subseteq done
    /\ \A w \in Requests : HashOf[w] \in v => w \in v
    /\ "pw" \in v => "pw" \in d.row /\ \A w \in v \cap Requests : d.op[w] # "password"

CopyOK(v) == CopyFits(v, committed, deploy)

NoHash(v) == v \cap Hashes = {}

CachedCopies == {l1[p] : p \in Pods} \cup {l2} \cup {x.val : x \in late}

\* What comes from a cache has no hash.
CopyInv ==
    /\ CopyOK(row) /\ CopyOK(replica)
    /\ \A v \in CachedCopies : CopyOK(v) /\ NoHash(v)
    /\ \A p \in Pods : CopyOK(flight[p].val) /\ (~ flight[p].fresh => NoHash(flight[p].val))
    /\ \A r \in Requests : CopyOK(rq[r].got) /\ (~ rq[r].fresh => NoHash(rq[r].got))

UndoneBy(x, l) == \E b \in Requests : <<x, b>> \in l

\* The hashes that were ever set.
Known == {"none", "pw"} \cup {HashOf[q] : q \in committed}

\* A copy from the database has the current hash, or not the change that set it.
RecentFor(v, s, l) ==
    \/ s \in v \/ UndoneBy(s, l) \/ s = "none"
    \/ \E w \in Requests : s = HashOf[w] /\ w \notin v

Recent(v) == RecentFor(v, secret, lost)

SecretInv ==
    /\ secret \in Known
    /\ \A r \in Requests : rq[r].typed \in Known /\ (rq[r].old => rq[r].typed = "pw" /\ secret # "pw")
    /\ secret = "none" \/ secret \in row \/ Undone(secret)
    /\ \A w \in committed : w \in row \/ Undone(w)
    /\ deploy.key = "activity" => secret = "none"
    /\ "pw" \in deploy.row =>
          /\ row # Absent /\ secret # "none"
          /\ \A w \in Requests : secret = HashOf[w] => Op(w) = "password"
    /\ \A x : \A b \in Requests : <<x, b>> \in lost => b \in committed
    /\ \A w \in Requests : Undone(HashOf[w]) => w \in committed
    /\ \A p \in Pods : flight[p].fresh => flight[p].pc \notin {"check", "lock", "spin", "load"}
    /\ \A p \in Pods : flight[p].fresh => Recent(flight[p].val)
    /\ \A r \in Requests : rq[r].fresh => Recent(rq[r].got)

\* A copy that a request got or is about to get, and what it typed.
SeesFor(typed, old, v, fresh, s, l, d) ==
    /\ fresh /\ typed = s => s = "none" \/ s \in v \/ UndoneBy(s, l)
    /\ old => "pw" \notin v \/ \E w \in Requests : d.op[w] = "password" /\ UndoneBy(w, l)

Sees(r, v, fresh) == SeesFor(rq[r].typed, rq[r].old, v, fresh, secret, lost, deploy)

PasswordInv ==
    /\ \A r \in Requests : ~ rq[r].shared =>
          /\ rq[r].pc = "wait" /\ flight[Pod(r)].pc \in Filled
             => Sees(r, flight[Pod(r)].val, flight[Pod(r)].fresh)
          /\ Sees(r, rq[r].got, rq[r].fresh)
    /\ \A s \in Stores : fails[s].locked =>
          \E q \in Requests : rq[q].res = "wrong" /\ LockStore(q) = s
    /\ \A r \in Requests : rq[r].res = "locked" =>
          \E q \in Requests : rq[q].res = "wrong" /\ LockStore(q) = LockStore(r)

\* What excuses a copy without the change.
Excused(w) == w \in raced \/ "redis" \in harm \/ Undone(w)

Deleted1(w) == DeletesKeys(w) /\ rq[w].pc \in {"del2", "leave", "done"}
Deleted2(w) == DeletesKeys(w) /\ rq[w].pc \in {"leave", "done"}

\* A change is in the row, in what is in the caches after its deletions, and in what the
\* requests that began after it are waiting for or have got.
Seen(w) ==
    /\ w \in row
    /\ Deleted1(w) => l1[Pod(w)] = Miss \/ w \in l1[Pod(w)]
    /\ Deleted2(w) => l2 = Miss \/ w \in l2
    /\ \A r \in Requests : w \in began[r] /\ ~ rq[r].shared =>
          /\ rq[r].pc = "wait" /\ flight[Pod(r)].pc \in Filled
             => w \in flight[Pod(r)].val \/ ~ flight[Pod(r)].ok
          /\ rq[r].got # Miss => w \in rq[r].got

SeenInv ==
    /\ ~ redis => "redis" \in harm
    /\ ~ deploy.l2 => l2 = Miss
    /\ \A p \in Pods : ~ flight[p].ok => flight[p].pc = "end"
    /\ \A r \in Requests : \A w \in began[r] :
          w \in committed /\ rq[w].pc = "done" /\ Pod(w) = Pod(r) /\ DeletesKeys(w)
    /\ \A w \in committed : Excused(w) \/ Seen(w)

-----------------------------------------------------------------------------
(* The degraded mode: proofs.                                                *)

degradeInvVars == <<degradeVars, breakers, epoch, ticket, odd>>

\* A pod has finitely many breakers, so that the open ones can be counted.
LEMMA BreakersFinite ==
  \A p : IsFiniteSet(NotClosed(p)) /\ Cardinality(NotClosed(p)) \in Nat
<1>1. IsFiniteSet(Breakers)
  <2>1. IsFiniteSet(0 .. MaxReloads)
    BY FS_Interval, BreakerAssumption
  <2> QED
    BY <2>1, FS_Product, BreakerAssumption DEF Breakers
<1>2. \A p : NotClosed(p) \in SUBSET Breakers
  BY DEF NotClosed
<1> QED
  BY <1>1, <1>2, FS_Subset, FS_CardinalityType

\* Steps that leave breakers, counter and flag alone.
LEMMA DegradeFrame ==
  ASSUME DegradeInv, UNCHANGED degradeInvVars, harm \subseteq harm'
  PROVE  DegradeInv'
<1>1. BreakerTypeOK'
  BY DEF DegradeInv, BreakerTypeOK, degradeInvVars, degradeVars
<1>2. \A p \in Pods : FlagFollows(p)' = FlagFollows(p)
  BY DEF FlagFollows, NotClosed, degradeInvVars, degradeVars
<1> QED
  BY <1>1, <1>2 DEF DegradeInv, degradeInvVars

\* A breaker that lets a request in may turn from open to half-open, and is as little closed.
LEMMA DegradeAdmit ==
  ASSUME DegradeInv, NEW p \in Pods, NEW r \in Requests, NEW route \in Routes,
         Admit(p, r, route), UNCHANGED <<degradeVars, epoch, odd, harm>>
  PROVE  DegradeInv'
<1> DEFINE b == <<route, epoch[p]>>
           now == breakers[p][b]
<1>1. b \in Breakers /\ now \in BreakerStates
  BY DEF DegradeInv, BreakerTypeOK, Breakers
<1>2. PICK cb \in IF now.st = "open" THEN {Turned(now, "half")} ELSE {now} :
        /\ breakers' = [breakers EXCEPT ![p][b] = [cb EXCEPT !.requests = @ + 1]]
        /\ ticket' = [ticket EXCEPT ![r] = [b |-> b, gen |-> cb.gen]]
  BY DEF Admit
<1> HIDE DEF b, now
<1>3. cb \in BreakerStates /\ (cb.st = "closed" <=> now.st = "closed")
  BY <1>1, <1>2 DEF BreakerStates, Turned
<1>4. [cb EXCEPT !.requests = @ + 1] \in BreakerStates /\ [cb EXCEPT !.requests = @ + 1].st = cb.st
  BY <1>3 DEF BreakerStates
<1>5. BreakerTypeOK'
  <2>1. breakers' \in [Pods -> [Breakers -> BreakerStates]]
    BY <1>1, <1>2, <1>4 DEF DegradeInv, BreakerTypeOK
  <2>2. cb.gen \in Nat
    BY <1>3 DEF BreakerStates
  <2>3. ticket' \in [Requests -> [b : Breakers, gen : Nat]]
    BY <1>1, <1>2, <2>2 DEF DegradeInv, BreakerTypeOK
  <2> QED
    BY <2>1, <2>3 DEF DegradeInv, BreakerTypeOK, degradeVars
<1>6. \A q \in Pods : NotClosed(q)' = NotClosed(q)
  <2>1. \A q \in Pods, c \in Breakers :
           breakers'[q][c].st = "closed" <=> breakers[q][c].st = "closed"
    BY <1>1, <1>2, <1>3, <1>4 DEF DegradeInv, BreakerTypeOK, now
  <2> QED
    BY <2>1 DEF NotClosed
<1>7. \A q \in Pods : FlagFollows(q)' = FlagFollows(q)
  BY <1>6 DEF FlagFollows, degradeVars
<1> QED
  BY <1>5, <1>7 DEF DegradeInv

\* active.Store at the end of a callback.
LEMMA DegradeStore ==
  ASSUME DegradeInv, NEW p \in Pods, StoreActive(p), UNCHANGED <<breakers, epoch, ticket, odd, harm>>
  PROVE  DegradeInv'
<1>1. PICK s \in storing[p] :
        /\ active' = [active EXCEPT ![p] = s[2]]
        /\ storing' = [storing EXCEPT ![p] = @ \ {s}]
        /\ UNCHANGED openCount
  BY DEF StoreActive
<1>2. BreakerTypeOK'
  BY <1>1 DEF DegradeInv, BreakerTypeOK
<1>3. \A q \in Pods : NotClosed(q)' = NotClosed(q)
  BY DEF NotClosed
<1>4. ASSUME NEW q \in Pods, FlagFollows(q)
      PROVE  FlagFollows(q)'
  <2>1. CASE q # p
    BY <1>1, <1>3, <1>4, <2>1 DEF FlagFollows, DegradeInv, BreakerTypeOK
  <2>2. CASE q = p
    <3>1. storing[p] = {s} /\ (s[2] <=> NotClosed(p) # {})
      BY <1>4, <2>2 DEF FlagFollows
    <3>2. storing'[p] = {} /\ active'[p] = s[2]
      BY <1>1, <3>1 DEF DegradeInv, BreakerTypeOK
    <3> QED
      BY <1>1, <1>3, <1>4, <2>2, <3>1, <3>2 DEF FlagFollows
  <2> QED
    BY <2>1, <2>2
<1> QED
  BY <1>2, <1>4 DEF DegradeInv

\* The two components of a store that is under way.
LEMMA StorePairs ==
  \A x : /\ <<x, TRUE>>[1] = x /\ <<x, TRUE>>[2] = TRUE
         /\ <<x, FALSE>>[1] = x /\ <<x, FALSE>>[2] = FALSE
OBVIOUS

\* A breaker changes: the count follows, and the flag is written when it leaves or reaches 0.
LEMMA DegradeReport ==
  ASSUME DegradeInv, NEW p \in Pods, NEW r \in Requests, NEW ok, Report(p, r, ok), UNCHANGED harm
  PROVE  DegradeInv'
<1> DEFINE b == ticket[r].b
           cb == breakers[p][b]
           new == IF cb.gen = ticket[r].gen THEN AfterCall(cb, ok) ELSE cb
<1>1. b \in Breakers /\ cb \in BreakerStates
  BY DEF DegradeInv, BreakerTypeOK
<1>2. /\ ~ Busy(p, b)
      /\ breakers' = [breakers EXCEPT ![p][b] = new]
      /\ OnStateChange(p, b, cb.st, new.st)
      /\ odd' = odd \cup (IF cb.st = "half" /\ new.st = "open" THEN {"retrip"} ELSE {})
                    \cup (IF new.st = "open" /\ cb.st # "open" /\ \E s \in storing[p] : ~ s[2]
                          THEN {"stores crossed"} ELSE {})
      /\ UNCHANGED <<epoch, ticket>>
  BY DEF Report
<1>3. /\ new \in BreakerStates
      /\ \/ new.st = cb.st
         \/ cb.st \in {"closed", "half"} /\ new.st = "open"
         \/ cb.st = "half" /\ new.st = "closed"
  BY <1>1 DEF BreakerStates, AfterCall, Turned
<1> HIDE DEF b, cb, new
<1>4. /\ BreakerTypeOK
      /\ breakers'[p] = [breakers[p] EXCEPT ![b] = new]
      /\ \A q \in Pods : q # p => breakers'[q] = breakers[q]
      /\ breakers' \in [Pods -> [Breakers -> BreakerStates]]
  BY <1>1, <1>2, <1>3 DEF DegradeInv, BreakerTypeOK
<1>5. \A q \in Pods : q # p => NotClosed(q)' = NotClosed(q)
  BY <1>4 DEF NotClosed
<1>6. /\ b \in NotClosed(p) <=> cb.st # "closed"
      /\ NotClosed(p)' = IF new.st = "closed" THEN NotClosed(p) \ {b} ELSE NotClosed(p) \cup {b}
  BY <1>1, <1>4 DEF NotClosed, cb, BreakerTypeOK
<1>7. IsFiniteSet(NotClosed(p)) /\ Cardinality(NotClosed(p)) \in Nat
  BY BreakersFinite
<1>8. CASE new.st = cb.st
  <2>1. UNCHANGED degradeVars
    BY <1>2, <1>8 DEF OnStateChange
  <2>2. NotClosed(p)' = NotClosed(p)
    BY <1>6, <1>8
  <2>3. \A q \in Pods : FlagFollows(q)' = FlagFollows(q)
    BY <1>5, <2>1, <2>2 DEF FlagFollows, degradeVars
  <2>4. BreakerTypeOK'
    BY <1>2, <1>4, <2>1 DEF BreakerTypeOK, degradeVars
  <2> QED
    BY <1>2, <2>3, <2>4 DEF DegradeInv
<1>9. ASSUME NEW by \in {-1, 1}, NEW turn \in {0, 1}, NEW flag \in BOOLEAN, Counted(p, b, by, turn, flag)
      PROVE  BreakerTypeOK'
  <2>1. openCount' \in [Pods -> Int] /\ UNCHANGED active
    BY <1>4, <1>9 DEF Counted, BreakerTypeOK
  <2>2. storing' \in [Pods -> SUBSET (Breakers \X BOOLEAN)]
    BY <1>1, <1>4, <1>9 DEF Counted, BreakerTypeOK
  <2> QED
    BY <1>2, <1>4, <2>1, <2>2 DEF BreakerTypeOK
<1>10. CASE cb.st = "closed" /\ new.st = "open"
  <2>1. Counted(p, b, 1, 1, TRUE)
    BY <1>2, <1>10 DEF OnStateChange, OnBreakerOpen
  <2>2. b \notin NotClosed(p) /\ NotClosed(p)' = NotClosed(p) \cup {b}
    BY <1>6, <1>10
  <2>3. Cardinality(NotClosed(p)') = Cardinality(NotClosed(p)) + 1
    BY <1>7, <2>2, FS_AddElement
  <2>4. ASSUME odd' = {}, NEW q \in Pods, FlagFollows(q)
        PROVE  FlagFollows(q)'
    <3>1. CASE q # p
      BY <1>4, <1>5, <2>1, <2>4, <3>1 DEF FlagFollows, Counted, BreakerTypeOK
    <3>2. CASE q = p
      <4>1. ~ \E s \in storing[p] : ~ s[2]
        BY <1>2, <1>10, <2>4
      <4>2. openCount'[p] = Cardinality(NotClosed(p)')
        BY <1>7, <2>1, <2>3, <2>4, <3>2 DEF FlagFollows, Counted, BreakerTypeOK, DegradeInv
      <4>3. CASE NotClosed(p) = {}
        <5>1. storing[p] = {} /\ openCount[p] = 0
          BY <2>4, <3>2, <4>1, <4>3, FS_EmptySet DEF FlagFollows
        <5>2. storing'[p] = {<<b, TRUE>>}
          BY <1>4, <2>1, <5>1 DEF Counted, BreakerTypeOK
        <5>3. \A s \in storing'[p] : s = <<b, TRUE>> /\ s[1] = b /\ s[2]
          BY <5>2, StorePairs
        <5>4. NotClosed(p)' # {} /\ b \in NotClosed(p)' /\ storing'[p] # {}
          BY <2>2, <5>2
        <5> QED
          BY <3>2, <4>2, <5>2, <5>3, <5>4 DEF FlagFollows
      <4>4. CASE NotClosed(p) # {}
        <5>1. openCount[p] + 1 # 1
          <6>1. openCount[p] # 0 /\ openCount[p] \in Nat
            BY <1>7, <2>4, <3>2, <4>4, FS_EmptySet DEF FlagFollows
          <6> QED
            BY <6>1
        <5>2. UNCHANGED <<storing, active>>
          BY <2>1, <5>1 DEF Counted
        <5> QED
          BY <2>2, <2>4, <3>2, <4>2, <4>4, <5>2 DEF FlagFollows
      <4> QED
        BY <4>3, <4>4
    <3> QED
      BY <3>1, <3>2
  <2> QED
    BY <1>2, <1>9, <2>1, <2>4 DEF DegradeInv
<1>11. CASE cb.st = "half" /\ new.st = "open"
  <2>1. odd' # {}
    BY <1>2, <1>11
  <2>2. Counted(p, b, 1, 1, TRUE)
    BY <1>2, <1>11 DEF OnStateChange, OnBreakerOpen
  <2> QED
    BY <1>9, <2>1, <2>2 DEF DegradeInv
<1>12. CASE cb.st = "half" /\ new.st = "closed"
  <2>1. Counted(p, b, -1, 0, FALSE)
    BY <1>2, <1>12 DEF OnStateChange, OnBreakerClosed
  <2>2. b \in NotClosed(p) /\ NotClosed(p)' = NotClosed(p) \ {b}
    BY <1>6, <1>12
  <2>3. Cardinality(NotClosed(p)') = Cardinality(NotClosed(p)) - 1 /\ IsFiniteSet(NotClosed(p)')
    BY <1>7, <2>2, FS_RemoveElement
  <2>4. ASSUME odd' = {}, NEW q \in Pods, FlagFollows(q)
        PROVE  FlagFollows(q)'
    <3>1. CASE q # p
      BY <1>4, <1>5, <2>1, <2>4, <3>1 DEF FlagFollows, Counted, BreakerTypeOK
    <3>2. CASE q = p
      <4>1. openCount'[p] = Cardinality(NotClosed(p)') /\ openCount'[p] = openCount[p] - 1
        BY <1>4, <1>7, <2>1, <2>3, <2>4, <3>2 DEF FlagFollows, Counted, BreakerTypeOK
      <4>2. \A s \in storing[p] : s[1] # b
        BY <1>2 DEF Busy
      <4>3. CASE NotClosed(p)' = {}
        <5>1. openCount[p] + (-1) = 0
          BY <1>4, <2>3, <4>1, <4>3, FS_EmptySet DEF BreakerTypeOK
        <5>2. storing[p] = {}
          BY <2>2, <2>4, <3>2, <4>2, <4>3 DEF FlagFollows
        <5>3. storing'[p] = {<<b, FALSE>>}
          BY <1>4, <2>1, <5>1, <5>2 DEF Counted, BreakerTypeOK
        <5>4. \A s \in storing'[p] : s = <<b, FALSE>> /\ ~ s[2]
          BY <5>3, StorePairs
        <5> QED
          BY <3>2, <4>1, <4>3, <5>3, <5>4 DEF FlagFollows
      <4>4. CASE NotClosed(p)' # {}
        <5>1. openCount[p] + (-1) # 0
          BY <1>4, <2>3, <4>1, <4>4, FS_EmptySet DEF BreakerTypeOK
        <5>2. UNCHANGED <<storing, active>>
          BY <2>1, <5>1 DEF Counted
        <5> QED
          BY <2>2, <2>4, <3>2, <4>1, <4>2, <4>4, <5>2 DEF FlagFollows
      <4> QED
        BY <4>3, <4>4
    <3> QED
      BY <3>1, <3>2
  <2> QED
    BY <1>2, <1>9, <2>1, <2>4 DEF DegradeInv
<1> QED
  BY <1>3, <1>8, <1>10, <1>11, <1>12

\* All breakers are closed and no pod is degraded at the start.
LEMMA DegradeStart == GatewayInit => DegradeInv
<1> SUFFICES ASSUME GatewayInit
             PROVE  DegradeInv
  OBVIOUS
<1>1. deploy \in Deployments /\ DegradeInit /\ BreakerInit
  BY DEF GatewayInit
<1>2. NewBreaker \in BreakerStates /\ NewBreaker.st = "closed"
  BY DEF NewBreaker, BreakerStates
<1>3. BreakerTypeOK
  <2>1. /\ openCount \in [Pods -> Int] /\ active \in [Pods -> BOOLEAN]
        /\ storing \in [Pods -> SUBSET (Breakers \X BOOLEAN)]
        /\ breakers \in [Pods -> [Breakers -> BreakerStates]]
    BY <1>1, <1>2 DEF DegradeInit, BreakerInit
  <2>2. epoch \in [Pods -> 0 .. MaxReloads]
    BY <1>1, BreakerAssumption DEF BreakerInit
  <2>3. ASSUME NEW r \in Requests
        PROVE  (CHOOSE b \in Breakers : TRUE) \in Breakers
    <3>1. <<deploy.route[r], 0>> \in Breakers
      BY <1>1, DeployAssumption, BreakerAssumption DEF Breakers
    <3> QED
      BY <3>1
  <2>4. ticket \in [Requests -> [b : Breakers, gen : Nat]]
    BY <1>1, <2>3 DEF BreakerInit
  <2> QED
    BY <2>1, <2>2, <2>4 DEF BreakerTypeOK
<1>4. ASSUME NEW p \in Pods
      PROVE  FlagFollows(p)
  <2>1. NotClosed(p) = {}
    BY <1>1, <1>2 DEF NotClosed, BreakerInit
  <2> QED
    BY <1>1, <2>1, FS_EmptySet DEF FlagFollows, DegradeInit
<1> QED
  BY <1>3, <1>4 DEF DegradeInv

\* The chain of the other steps leaves the breakers alone.
\* The chain of the other steps leaves the breakers alone.
LEMMA DegradeNext == DegradeInv /\ RequestTypeOK /\ [Next]_vars => DegradeInv'
<1> SUFFICES ASSUME DegradeInv, RequestTypeOK, [Next]_vars
             PROVE  DegradeInv'
  OBVIOUS
<1> USE DEF degradeInvVars
<1>1. CASE UNCHANGED <<degradeVars, breakers, epoch, ticket, odd>> /\ UNCHANGED harm
  BY <1>1, DegradeFrame
<1>2. ASSUME NEW ACTION A, Inside(A)
      PROVE  DegradeInv'
  BY <1>1, <1>2 DEF Inside, faultVars, breakerVars
<1>3. ASSUME NEW r \in Requests
      PROVE  Pod(r) \in Pods /\ Route(r) \in Routes
  BY DeployAssumption DEF RequestTypeOK, Pod, Route
<1>4. ASSUME NEW r \in Requests, Arrive(r)
      PROVE  DegradeInv'
  <2>1. UNCHANGED <<degradeVars, epoch, odd, harm>>
    BY <1>4 DEF Arrive, Begins, faultVars
  <2>2. CASE Guarded(r)
    BY <1>3, <1>4, <2>1, <2>2, DegradeAdmit DEF Arrive
  <2>3. CASE ~ Guarded(r)
    BY <1>1, <1>4, <2>1, <2>3 DEF Arrive
  <2> QED
    BY <2>2, <2>3
<1>5. ASSUME NEW r \in Requests, TurnedAway(r) \/ WorkerBegins(r)
      PROVE  DegradeInv'
  BY <1>1, <1>5 DEF TurnedAway, WorkerBegins, Begins, faultVars
<1>6. ASSUME NEW r \in Requests, NEW ok, Answers(r, ok), UNCHANGED harm
      PROVE  DegradeInv'
  <2>1. CASE Guarded(r)
    BY <1>3, <1>6, <2>1, DegradeReport DEF Answers
  <2>2. CASE ~ Guarded(r)
    BY <1>1, <1>6, <2>2 DEF Answers
  <2> QED
    BY <2>1, <2>2
<1>7. ASSUME NEW r \in Requests, Leave(r) \/ Panics(r)
      PROVE  DegradeInv'
  <2>1. UNCHANGED harm
    BY <1>7 DEF Leave, Panics, faultVars, Disturb
  <2> QED
    BY <1>6, <1>7, <2>1 DEF Leave, Panics
<1>8. ASSUME NEW p \in Pods, StoreActive(p), UNCHANGED <<faultVars, breakerVars>>
      PROVE  DegradeInv'
  BY <1>8, DegradeStore DEF faultVars, breakerVars
<1>9. CASE Progress
  BY <1>2, <1>4, <1>5, <1>7, <1>8, <1>9 DEF Progress
<1>10. CASE Surroundings
  <2>1. ASSUME NEW p \in Pods, Reload(p)
        PROVE  DegradeInv'
    <3>1. BreakerTypeOK'
      BY <2>1, BreakerAssumption DEF Reload, DegradeInv, BreakerTypeOK, degradeVars
    <3>2. "reload" \in harm'
      BY <2>1 DEF Reload, Harm
    <3> QED
      BY <3>1, <3>2 DEF DegradeInv
  <2>2. CASE (ExpireSource \/ RedisFails \/ DatabaseFails) /\ UNCHANGED <<degradeVars, breakerVars>>
    <3>1. harm \subseteq harm'
      BY <2>2 DEF ExpireSource, RedisFails, DatabaseFails, Harm, Disturb
    <3> QED
      BY <2>2, <3>1, DegradeFrame DEF breakerVars
  <2> QED
    BY <1>2, <1>7, <1>10, <2>1, <2>2 DEF Surroundings
<1>11. CASE UNCHANGED vars
  BY <1>1, <1>11 DEF vars, breakerVars, faultVars
<1> QED
  BY <1>9, <1>10, <1>11 DEF Next

-----------------------------------------------------------------------------
(* What a step does to a request.                                            *)

\* What an update of the progress of one request leaves alone.
OthersKeep(r) == rq' \in [Requests -> Progresses] /\ \A q \in Requests : q # r => rq'[q] = rq[q]

Typed(q) == rq'[q].typed = rq[q].typed /\ rq'[q].old = rq[q].old

Keeps(q) == /\ rq'[q].got = rq[q].got /\ rq'[q].fresh = rq[q].fresh /\ rq'[q].shared = rq[q].shared
            /\ Typed(q)

\* A request begins, or is turned away.
Enters(q) ==
    /\ rq[q].pc = "new" /\ rq'[q].pc \in {"insert", "update", "direct", "get", "other", "done"}
    /\ rq'[q].got = rq[q].got /\ rq'[q].fresh = rq[q].fresh /\ rq'[q].shared = rq[q].shared
    /\ rq'[q].res = rq[q].res
    /\ rq'[q].typed \in {"none", "pw", secret}
    /\ rq'[q].old <=> rq'[q].typed \notin {"none", secret}
    /\ Op(q) = "login" /\ rq'[q].pc # "done" => rq'[q].typed # "none"
    /\ rq'[q].pc = "insert" => Op(q) = "publish"
    /\ rq'[q].pc = "update" => Op(q) # "password"

Joins(q) ==
    /\ rq[q].pc \in {"join", "joinDegraded"} /\ rq'[q].pc = "wait"
    /\ rq'[q].got = rq[q].got /\ rq'[q].fresh = rq[q].fresh /\ Typed(q) /\ rq'[q].res = rq[q].res
    /\ rq'[q].shared <=> flight[Pod(q)].pc \in Filled

\* Another place, with what it had.
Walks(q) ==
    /\ Keeps(q) /\ rq'[q].res = rq[q].res
    /\ \/ rq[q].pc \in {"get", "get2", "wait"} /\ rq'[q].pc \in {"get2", "join", "joinDegraded", "direct"}
       \/ /\ rq[q].pc \in {"direct", "other", "insert", "update", "save", "acquire", "old", "set"}
          /\ rq'[q].pc = "leave"
       \/ rq[q].pc = "insert" /\ rq'[q].pc = "set" /\ q \in committed'
       \/ rq[q].pc \in {"update", "save"} /\ rq'[q].pc = AfterWrite(q)
       \/ rq[q].pc = "acquire" /\ rq'[q].pc = "old"
       \/ rq[q].pc = "old" /\ rq'[q].pc = "update" /\ rq[q].typed \in rq[q].got
       \/ rq[q].pc = "lookup" /\ rq'[q].pc = "del1"
       \/ rq[q].pc = "del1" /\ rq'[q].pc = "del2" /\ l1'[Pod(q)] = Miss
       \/ rq[q].pc = "del2" /\ rq'[q].pc = "leave" /\ DeleteL2
       \/ rq[q].pc = "leave" /\ rq'[q].pc = "done"
       \/ rq[q].pc = "verify" /\ rq'[q].pc = "compare"

\* A statement without an answer, after which the keys stay.
Kept(q) ==
    /\ Keeps(q) /\ rq[q].pc \in {"insert", "update", "save", "lookup"}
    /\ rq'[q].pc = "leave" /\ rq'[q].res = "kept"

\* A copy, from L1, L2, the database or the call.
Took(q, v, fresh) ==
    /\ rq'[q].got = v /\ rq'[q].fresh = fresh /\ rq'[q].shared = rq[q].shared
    /\ Typed(q) /\ rq'[q].res = rq[q].res
    /\ rq'[q].pc \in {"insert", "save", "acquire", "verify", "leave", "direct"}
    /\ rq'[q].pc = "insert" /\ Op(q) = "bind" => v = Absent

Takes(q) ==
    \/ rq[q].pc = "get" /\ l1[Pod(q)] # Miss /\ Took(q, l1[Pod(q)], FALSE)
    \/ rq[q].pc = "get2" /\ L2Hit /\ Took(q, l2, FALSE)
    \/ rq[q].pc = "direct" /\ \E v \in ReadRows : Took(q, v, TRUE)
    \/ rq[q].pc = "other" /\ (Took(q, Encoded(row), FALSE) \/ Took(q, row, TRUE))
    \/ /\ rq[q].pc = "wait" /\ flight[Pod(q)].pc = "end" /\ flight[Pod(q)].ok
       /\ Took(q, flight[Pod(q)].val, flight[Pod(q)].fresh)

\* The end of a login.
Judged(q) ==
    /\ Keeps(q) /\ rq'[q].pc = "leave" /\ Op(q) = "login"
    /\ \/ rq[q].pc = "verify" /\ rq'[q].res = "unknown"
       \/ rq[q].pc = "verify" /\ rq'[q].res = "locked" /\ fails[LockStore(q)].locked
       \/ rq[q].pc = "compare" /\ rq'[q].res = "in" /\ rq[q].typed \in rq[q].got
       \/ rq[q].pc = "compare" /\ rq'[q].res = "wrong" /\ rq[q].typed \notin rq[q].got

Moves(q) == rq'[q] = rq[q] \/ Enters(q) \/ Joins(q) \/ Walks(q) \/ Kept(q) \/ Takes(q) \/ Judged(q)

\* One request moves, and stays where it may be.
Steps(r) ==
    /\ OthersKeep(r) /\ Moves(r)
    /\ rq'[r].pc \in Places(r) /\ (rq'[r].pc = "save" => rq'[r].got # Miss)

\* A request that only moves on keeps its copy and its result.
LEMMA DoesEffect ==
  ASSUME rq \in [Requests -> Progresses], NEW r \in Requests, NEW pc \in AllPlaces, Does(r, pc)
  PROVE  OthersKeep(r) /\ rq'[r].pc = pc /\ Keeps(r) /\ rq'[r].res = rq[r].res
BY DEF Does, OthersKeep, Progresses, Keeps, Typed

\* A request that takes a copy has it, and moves on.
LEMMA GetsEffect ==
  ASSUME rq \in [Requests -> Progresses], NEW r \in Requests, NEW v \in Copies, NEW fresh \in BOOLEAN,
         NEW pc \in AllPlaces, Gets(r, v, fresh, pc)
  PROVE  /\ OthersKeep(r) /\ rq'[r].pc = pc /\ rq'[r].got = v /\ rq'[r].fresh = fresh
         /\ rq'[r].shared = rq[r].shared /\ Typed(r) /\ rq'[r].res = rq[r].res
BY DEF Gets, OthersKeep, Progresses, Typed

\* A request that ends with a result has it.
LEMMA LoginEffect ==
  ASSUME rq \in [Requests -> Progresses], NEW r \in Requests, NEW res \in Results, LoginEnds(r, res)
  PROVE  OthersKeep(r) /\ rq'[r].pc = "leave" /\ Keeps(r) /\ rq'[r].res = res
<1>1. "leave" \in AllPlaces
  BY DEF AllPlaces
<1>2. rq[r] \in Progresses /\ rq'[r] = [rq[r] EXCEPT !.res = res, !.pc = "leave"]
  BY DEF LoginEnds
<1>3. rq'[r] \in Progresses /\ rq'[r].pc = "leave" /\ Keeps(r) /\ rq'[r].res = res
  BY <1>1, <1>2 DEF Progresses, Keeps, Typed
<1> QED
  BY <1>3 DEF LoginEnds, OthersKeep

\* A request that finds its pod busy leaves with an error.
LEMMA BusyEffect ==
  ASSUME rq \in [Requests -> Progresses], NEW r \in Requests,
         rq' = [rq EXCEPT ![r].ok = FALSE, ![r].pc = "leave"]
  PROVE  OthersKeep(r) /\ rq'[r].pc = "leave" /\ Keeps(r) /\ rq'[r].res = rq[r].res
<1>1. "leave" \in AllPlaces
  BY DEF AllPlaces
<1>2. rq[r] \in Progresses /\ rq'[r] = [rq[r] EXCEPT !.ok = FALSE, !.pc = "leave"]
  OBVIOUS
<1>3. rq'[r] \in Progresses /\ rq'[r].pc = "leave" /\ Keeps(r) /\ rq'[r].res = rq[r].res
  BY <1>1, <1>2 DEF Progresses, Keeps, Typed
<1> QED
  BY <1>3 DEF OthersKeep

\* What a deployment says of one request.
LEMMA DeployFacts ==
  ASSUME deploy \in Deployments, NEW r \in Requests
  PROVE  /\ Pod(r) \in Pods /\ LockStore(r) \in Stores
         /\ Op(r) \in UserOps \cup ActivityOps
         /\ Op(r) \in {"publish", "edit", "browse", "flip"} => deploy.key = "activity"
         /\ Op(r) \in {"login", "register", "password", "points", "profile", "bind"} => deploy.key # "activity"
BY DeployAssumption DEF Pod, Op, LockStore, Stores, UserOps, ActivityOps

\* A request of any kind may leave and end.
LEMMA PlacesFacts ==
  \A r \in Requests : "leave" \in Places(r) /\ "done" \in Places(r) /\ Places(r) \subseteq AllPlaces
BY DEF Places, AllPlaces

\* Where a request goes with the copy it has read.
LEMMA NextStepFacts ==
  ASSUME NEW r \in Requests, NEW v
  PROVE  /\ NextStep(r, v) \in Places(r) \cap {"insert", "save", "acquire", "verify", "leave"}
         /\ NextStep(r, v) = "insert" /\ Op(r) = "bind" => v = Absent
BY DEF NextStep, Places

\* Where a request begins once it was admitted.
LEMMA FirstStepFacts ==
  ASSUME NEW r \in Requests
  PROVE  /\ FirstStep(r) \in Places(r) \cap {"insert", "update", "direct", "get", "other"}
         /\ FirstStep(r) = "insert" => Op(r) = "publish"
         /\ FirstStep(r) = "update" => Worker(r)
BY DEF FirstStep, Places, Worker, WorkerOps

\* Where a write goes on.
LEMMA AfterWriteFacts ==
  ASSUME NEW r \in Requests
  PROVE  /\ AfterWrite(r) \in Places(r) \cap {"leave", "lookup", "del1"}
         /\ Invalidates(r) => AfterWrite(r) \in {"lookup", "del1"}
         /\ AfterWrite(r) = "lookup" => Op(r) = "password"
BY DEF AfterWrite, Places

\* The markers of the caches are no rows.
LEMMA CopyFacts ==
  /\ Miss \notin Rows /\ Absent \in Rows /\ Miss \in Copies /\ Rows \subseteq Copies
  /\ \A v \in Rows : Encoded(v) \in Rows
  /\ \A v \in Copies : v # Miss => v \in Rows
  /\ \A r \in Requests : HashOf[r] \in Hashes /\ HashOf[r] # "pw" /\ r \notin Hashes
  /\ "none" \notin Hashes /\ "row" \notin Hashes /\ "pw" \in Hashes /\ "none" \notin Requests
  /\ "row" \notin Requests /\ "pw" \notin Requests
<1>1. /\ Hashes \cap (Requests \cup {"row", "miss", "none"}) = {}
      /\ Requests \cap {"row", "miss", "none"} = {}
      /\ HashOf \in [Requests -> Hashes \ {"pw"}]
  BY DeployAssumption
<1>2. "pw" \in Hashes
  BY DEF Hashes
<1> QED
  BY <1>1, <1>2 DEF Miss, Absent, Rows, Copies, Encoded

\* Reading through L1, L2, a shared call, the other key or straight from the database.
LEMMA StepsReads ==
  ASSUME TypeInv, NEW r \in Requests,
         GetL1(r) \/ GetL2(r) \/ JoinFlight(r) \/ DirectRead(r) \/ OtherKeyRead(r)
  PROVE  Steps(r)
<1>1. /\ rq \in [Requests -> Progresses] /\ Pod(r) \in Pods
      /\ row \in Rows /\ replica \in Rows /\ l1[Pod(r)] \in Copies /\ l2 \in Copies
  BY DeployFacts DEF TypeInv, RequestTypeOK, CacheTypeOK
<1>2. ASSUME NEW pc \in {"get2", "join", "joinDegraded", "wait"}, Does(r, pc)
      PROVE  /\ OthersKeep(r) /\ Keeps(r) /\ rq'[r].pc = pc /\ rq'[r].res = rq[r].res
             /\ pc \in Places(r)
  <2>1. pc \in AllPlaces /\ pc \in Places(r)
    BY DEF AllPlaces, Places
  <2> QED
    BY <1>1, <1>2, <2>1, DoesEffect
<1>3. ASSUME NEW v \in Rows, NEW u \in Rows, NEW fresh \in BOOLEAN, NEW pc \in {NextStep(r, u), "direct"},
             Gets(r, v, fresh, pc), v = u \/ v = Encoded(u)
      PROVE  /\ OthersKeep(r) /\ Took(r, v, fresh) /\ rq'[r].pc \in Places(r)
             /\ rq'[r].got # Miss
  <2>1. /\ pc \in AllPlaces /\ pc \in Places(r)
        /\ pc \in {"insert", "save", "acquire", "verify", "leave", "direct"}
    BY <1>3, NextStepFacts, PlacesFacts DEF AllPlaces, Places
  <2>2. v \in Copies /\ v # Miss
    BY CopyFacts
  <2>3. pc = "insert" /\ Op(r) = "bind" => v = Absent
    BY <1>3, NextStepFacts DEF Encoded, Absent
  <2> QED
    BY <1>1, <1>3, <2>1, <2>2, <2>3, GetsEffect DEF Took
<1>4. CASE GetL1(r)
  <2>1. CASE l1[Pod(r)] # Miss
    <3>1. l1[Pod(r)] \in Rows
      BY <1>1, <2>1, CopyFacts
    <3>2. OthersKeep(r) /\ Took(r, l1[Pod(r)], FALSE) /\ rq'[r].pc \in Places(r) /\ rq'[r].got # Miss
      BY <1>3, <1>4, <2>1, <3>1 DEF GetL1
    <3> QED
      BY <1>4, <2>1, <3>2 DEF GetL1, Takes, Moves, Steps
  <2>2. CASE l1[Pod(r)] = Miss
    <3>1. PICK pc \in {"get2", "join", "joinDegraded"} : Does(r, pc)
      BY <1>4, <2>2 DEF GetL1
    <3>2. rq[r].pc = "get"
      BY <1>4 DEF GetL1
    <3> QED
      BY <1>2, <3>1, <3>2 DEF Walks, Moves, Steps
  <2> QED
    BY <2>1, <2>2
<1>5. CASE GetL2(r)
  <2>1. CASE L2Hit
    <3>1. l2 \in Rows
      BY <1>1, <2>1, CopyFacts DEF L2Hit
    <3>2. OthersKeep(r) /\ Took(r, l2, FALSE) /\ rq'[r].pc \in Places(r) /\ rq'[r].got # Miss
      BY <1>3, <1>5, <2>1, <3>1 DEF GetL2
    <3> QED
      BY <1>5, <2>1, <3>2 DEF GetL2, Takes, Moves, Steps
  <2>2. CASE ~ L2Hit
    BY <1>2, <1>5, <2>2 DEF GetL2, Walks, Moves, Steps
  <2> QED
    BY <2>1, <2>2
<1>6. CASE JoinFlight(r)
  <2>1. "wait" \in AllPlaces /\ "wait" \in Places(r)
    BY DEF AllPlaces, Places
  <2> DEFINE joined == flight[Pod(r)].pc \in Filled
  <2>2. rq[r] \in Progresses /\ rq'[r] = [rq[r] EXCEPT !.pc = "wait", !.shared = joined]
    BY <1>1, <1>6 DEF JoinFlight, Filled
  <2>5. joined \in BOOLEAN
    OBVIOUS
  <2> HIDE DEF joined
  <2>3. /\ rq'[r] \in Progresses /\ rq'[r].pc = "wait"
        /\ rq'[r].got = rq[r].got /\ rq'[r].fresh = rq[r].fresh /\ Typed(r) /\ rq'[r].res = rq[r].res
        /\ rq'[r].shared = joined
    BY <2>1, <2>2, <2>5 DEF Progresses, Typed
  <2>4. OthersKeep(r)
    BY <1>1, <1>6, <2>3 DEF JoinFlight, OthersKeep
  <2> QED
    BY <1>6, <2>1, <2>3, <2>4 DEF JoinFlight, Joins, Moves, Steps, joined
<1>7. ASSUME GivesUp(r), rq[r].pc \in {"direct", "other"}
      PROVE  Steps(r)
  <2>1. OthersKeep(r) /\ Keeps(r) /\ rq'[r].pc = "leave" /\ rq'[r].res = rq[r].res
    BY <1>1, <1>7, DoesEffect, PlacesFacts DEF GivesUp
  <2> QED
    BY <1>7, <2>1, PlacesFacts DEF Walks, Moves, Steps
<1>8. CASE DirectRead(r)
  <2>1. CASE \E v \in ReadRows : Gets(r, v, TRUE, NextStep(r, v))
    <3>1. PICK v \in ReadRows : Gets(r, v, TRUE, NextStep(r, v))
      BY <2>1
    <3>2. v \in Rows
      BY <1>1 DEF ReadRows
    <3>3. OthersKeep(r) /\ Took(r, v, TRUE) /\ rq'[r].pc \in Places(r) /\ rq'[r].got # Miss
      BY <1>3, <3>1, <3>2
    <3> QED
      BY <1>8, <3>3 DEF DirectRead, Takes, Moves, Steps
  <2> QED
    BY <1>7, <1>8, <2>1 DEF DirectRead
<1>9. CASE OtherKeyRead(r)
  <2>1. CASE Gets(r, Encoded(row), FALSE, NextStep(r, row))
    <3>1. OthersKeep(r) /\ Took(r, Encoded(row), FALSE) /\ rq'[r].pc \in Places(r) /\ rq'[r].got # Miss
      BY <1>1, <1>3, <2>1, CopyFacts
    <3> QED
      BY <1>9, <3>1 DEF OtherKeyRead, Takes, Moves, Steps
  <2>2. CASE Gets(r, row, TRUE, NextStep(r, row))
    <3>1. OthersKeep(r) /\ Took(r, row, TRUE) /\ rq'[r].pc \in Places(r) /\ rq'[r].got # Miss
      BY <1>1, <1>3, <2>2
    <3> QED
      BY <1>9, <3>1 DEF OtherKeyRead, Takes, Moves, Steps
  <2> QED
    BY <1>7, <1>9, <2>1, <2>2 DEF OtherKeyRead
<1> QED
  BY <1>4, <1>5, <1>6, <1>8, <1>9

\* The row after a commit.
Committing(q) ==
    /\ committed' = committed \cup {q} /\ Keeps(q)
    /\ secret' = IF Op(q) \in {"register", "password"} THEN HashOf[q] ELSE secret
    /\ rq'[q].pc \in {"set", "leave", "lookup", "del1"}
    /\ rq'[q].res = "kept" \/ rq'[q].pc = AfterWrite(q) \/ rq[q].pc = "insert"
    /\ \/ /\ rq[q].pc = "insert" /\ row = Absent
          /\ row' = {"row", q} \cup (IF Op(q) = "register" THEN {HashOf[q]} ELSE {})
       \/ rq[q].pc = "update" /\ row # Absent /\ row' = Updated(q)
       \/ rq[q].pc = "save" /\ row' = rq[q].got \cup {q}

RowMoves ==
    \/ UNCHANGED <<row, committed, secret>>
    \/ (\E q \in Requests : Committing(q)) /\ UNCHANGED <<l1, l2, replica, began>>

\* The writes of a request; a commit touches the row and no cache.
LEMMA StepsWrites ==
  ASSUME TypeInv, NEW r \in Requests,
         \/ Insert(r) \/ AcquireBcrypt(r) \/ CompareOld(r) \/ Update(r) \/ LookupEmail(r) \/ Save(r)
         \/ DeleteKeys(r) \/ SetCache(r)
  PROVE  /\ Steps(r)
         /\ UNCHANGED <<row, committed, secret>> \/ (Committing(r) /\ UNCHANGED <<l1, l2, replica>>)
<1>1. /\ rq \in [Requests -> Progresses] /\ rq[r].pc \in Places(r) /\ Pod(r) \in Pods
      /\ l1 \in [Pods -> Copies]
  BY DeployFacts DEF TypeInv, RequestTypeOK, CacheTypeOK
<1>2. ASSUME NEW pc \in {"set", "lookup", "del1", "del2", "leave", "old", "update"}, pc \in Places(r),
             Does(r, pc)
      PROVE  OthersKeep(r) /\ Keeps(r) /\ rq'[r].pc = pc /\ rq'[r].res = rq[r].res
  BY <1>1, <1>2, DoesEffect, PlacesFacts
<1>3. "leave" \in Places(r) /\ "kept" \in Results
  BY PlacesFacts DEF Results
<1>4. ASSUME Does(r, "leave"),
             rq[r].pc \in {"insert", "update", "save", "acquire", "old", "set"}
      PROVE  Steps(r)
  BY <1>2, <1>3, <1>4 DEF Walks, Moves, Steps
<1>5. ASSUME rq' = [rq EXCEPT ![r].res = "kept", ![r].pc = "leave"],
             rq[r].pc \in {"insert", "update", "save", "lookup"}
      PROVE  Steps(r) /\ Keeps(r) /\ rq'[r].res = "kept" /\ rq'[r].pc = "leave"
  <2>1. OthersKeep(r) /\ rq'[r].pc = "leave" /\ Keeps(r) /\ rq'[r].res = "kept"
    BY <1>1, <1>3, <1>5, LoginEffect DEF LoginEnds
  <2> QED
    BY <1>3, <1>5, <2>1 DEF Kept, Moves, Steps
<1>6. AfterWrite(r) \in Places(r) \cap {"leave", "lookup", "del1"}
  BY AfterWriteFacts
<1>7. CASE Insert(r)
  <2>1. rq[r].pc = "insert" /\ UNCHANGED <<l1, l2, replica>>
    BY <1>7 DEF Insert, CacheUnchanged
  <2> DEFINE pc == IF Op(r) = "publish" THEN "set" ELSE "leave"
             new == {"row", r} \cup (IF Op(r) = "register" THEN {HashOf[r]} ELSE {})
  <2>2. CASE row = Absent /\ Commits(r, new, pc)
    <3>1. r \in committed'
      BY <2>2 DEF Commits
    <3>2. pc \in Places(r) /\ pc \in {"set", "leave"}
      BY <1>3 DEF Places
    <3>3. Steps(r) /\ Keeps(r) /\ rq'[r].pc \in {"set", "leave"}
      <4>1. CASE Does(r, pc)
        BY <1>2, <2>1, <3>1, <3>2, <4>1 DEF Walks, Moves, Steps
      <4> QED
        BY <1>5, <2>1, <2>2, <4>1 DEF Commits
    <3> QED
      BY <2>1, <2>2, <3>3 DEF Committing, Commits
  <2>3. CASE UNCHANGED <<row, committed, secret>> /\ (Does(r, "leave") \/ GivesUp(r))
    BY <1>4, <2>1, <2>3 DEF GivesUp
  <2> QED
    BY <1>7, <2>2, <2>3 DEF Insert, history
<1>8. ASSUME NEW new, Commits(r, new, AfterWrite(r)), rq[r].pc \in {"update", "save"}
      PROVE  /\ Steps(r) /\ Keeps(r)
             /\ rq'[r].res = "kept" \/ rq'[r].pc = AfterWrite(r)
             /\ rq'[r].pc \in {"leave", "lookup", "del1"}
  <2>1. CASE Does(r, AfterWrite(r))
    <3>1. OthersKeep(r) /\ Keeps(r) /\ rq'[r].pc = AfterWrite(r) /\ rq'[r].res = rq[r].res
      BY <1>2, <1>6, <2>1
    <3>2. AfterWrite(r) # "save"
      BY <1>6
    <3> QED
      BY <1>6, <1>8, <3>1, <3>2 DEF Walks, Moves, Steps
  <2> QED
    BY <1>5, <1>8, <2>1 DEF Commits
<1>9. CASE Update(r)
  <2>1. rq[r].pc = "update" /\ UNCHANGED <<l1, l2, replica>>
    BY <1>9 DEF Update, CacheUnchanged
  <2>2. CASE row # Absent /\ Commits(r, Updated(r), AfterWrite(r))
    BY <1>8, <2>1, <2>2 DEF Committing, Commits
  <2>3. CASE UNCHANGED <<row, committed, secret>> /\ (Does(r, "leave") \/ GivesUp(r))
    BY <1>4, <2>1, <2>3 DEF GivesUp
  <2> QED
    BY <1>9, <2>2, <2>3 DEF Update, history
<1>10. CASE Save(r)
  <2>1. rq[r].pc = "save" /\ UNCHANGED <<l1, l2, replica>>
    BY <1>10 DEF Save, CacheUnchanged
  <2>2. CASE Commits(r, rq[r].got \cup {r}, AfterWrite(r))
    BY <1>8, <2>1, <2>2 DEF Committing, Commits
  <2>3. CASE UNCHANGED <<row, committed, secret>> /\ GivesUp(r)
    BY <1>4, <2>1, <2>3 DEF GivesUp
  <2> QED
    BY <1>10, <2>2, <2>3 DEF Save, history
<1>11. CASE AcquireBcrypt(r)
  <2>1. rq[r].pc = "acquire" /\ UNCHANGED <<row, committed, secret>>
    BY <1>11 DEF AcquireBcrypt, cacheVars, history
  <2>2. CASE Does(r, "old")
    <3>1. "old" \in Places(r)
      BY <1>1, <2>1 DEF Places
    <3> QED
      BY <1>2, <2>1, <2>2, <3>1 DEF Walks, Moves, Steps
  <2>3. CASE rq' = [rq EXCEPT ![r].ok = FALSE, ![r].pc = "leave"]
    BY <1>1, <1>3, <2>1, <2>3, BusyEffect DEF Walks, Moves, Steps
  <2> QED
    BY <1>11, <2>2, <2>3 DEF AcquireBcrypt
<1>12. CASE CompareOld(r)
  <2>1. rq[r].pc = "old" /\ UNCHANGED <<row, committed, secret>>
    BY <1>12 DEF CompareOld, cacheVars, history
  <2>2. CASE rq[r].typed \in rq[r].got /\ Does(r, "update")
    <3>1. "update" \in Places(r)
      BY <1>1, <2>1 DEF Places
    <3> QED
      BY <1>2, <2>1, <2>2, <3>1 DEF Walks, Moves, Steps
  <2> QED
    BY <1>4, <1>12, <2>1, <2>2 DEF CompareOld
<1>13. CASE LookupEmail(r)
  <2>1. rq[r].pc = "lookup" /\ UNCHANGED <<row, committed, secret>>
    BY <1>13 DEF LookupEmail, cacheVars, history
  <2>2. CASE Does(r, "del1")
    <3>1. Op(r) = "password"
      BY <1>1, <2>1 DEF Places
    <3>2. "del1" \in Places(r)
      BY <3>1 DEF Places, Invalidates
    <3> QED
      BY <1>2, <2>1, <2>2, <3>2 DEF Walks, Moves, Steps
  <2> QED
    BY <1>5, <1>13, <2>1, <2>2 DEF LookupEmail
<1>14. CASE DeleteKeys(r)
  <2>1. UNCHANGED <<row, committed, secret>>
    BY <1>14 DEF DeleteKeys, history
  <2>2. CASE rq[r].pc = "del1" /\ DeleteL1(Pod(r)) /\ Does(r, "del2")
    <3>1. l1'[Pod(r)] = Miss
      BY <1>1, <2>2 DEF DeleteL1
    <3>2. "del2" \in Places(r)
      BY <1>1, <2>2 DEF Places
    <3> QED
      BY <1>2, <2>1, <2>2, <3>1, <3>2 DEF Walks, Moves, Steps
  <2>3. CASE rq[r].pc = "del2" /\ DeleteL2 /\ Does(r, "leave")
    BY <1>2, <1>3, <2>1, <2>3 DEF Walks, Moves, Steps
  <2> QED
    BY <1>14, <2>2, <2>3 DEF DeleteKeys
<1>15. CASE SetCache(r)
  BY <1>4, <1>15 DEF SetCache, history
<1> QED
  BY <1>7, <1>9, <1>10, <1>11, <1>12, <1>13, <1>14, <1>15

\* The account lock and the comparison of the password.
LEMMA StepsLogin ==
  ASSUME TypeInv, NEW r \in Requests, CheckLock(r) \/ Compare(r)
  PROVE  Steps(r)
<1>1. rq \in [Requests -> Progresses] /\ rq[r].pc \in Places(r)
  BY DEF TypeInv, RequestTypeOK
<1>2. ASSUME NEW res \in {"unknown", "locked", "in", "wrong"}, LoginEnds(r, res)
      PROVE  OthersKeep(r) /\ Keeps(r) /\ rq'[r].pc = "leave" /\ rq'[r].res = res
  <2>1. res \in Results
    BY DEF Results
  <2> QED
    BY <1>1, <1>2, <2>1, LoginEffect
<1>3. rq[r].pc \in {"verify", "compare"} /\ Op(r) = "login"
  BY <1>1 DEF CheckLock, Compare, Places
<1>4. "leave" \in Places(r) /\ "compare" \in Places(r) /\ "compare" \in AllPlaces
  BY <1>3, PlacesFacts DEF Places
<1>5. CASE CheckLock(r)
  <2>1. rq[r].pc = "verify"
    BY <1>5 DEF CheckLock
  <2>2. CASE LoginEnds(r, "unknown") \/ (LoginEnds(r, "locked") /\ fails[LockStore(r)].locked)
    BY <1>2, <1>3, <1>4, <2>1, <2>2 DEF Judged, Moves, Steps
  <2>3. CASE Does(r, "compare")
    BY <1>1, <1>4, <2>1, <2>3, DoesEffect DEF Walks, Moves, Steps
  <2> QED
    BY <1>5, <2>2, <2>3 DEF CheckLock, IsAccountLocked
<1>6. CASE Compare(r)
  BY <1>2, <1>3, <1>4, <1>6 DEF Compare, Judged, Moves, Steps
<1> QED
  BY <1>5, <1>6

BeganMoves ==
    \/ UNCHANGED began
    \/ \E r \in Requests : Enters(r) /\ began' = [began EXCEPT ![r] = Finished(Pod(r))]

\* The chain of middleware around a request.
LEMMA StepsChain ==
  ASSUME TypeInv, NEW r \in Requests,
         Arrive(r) \/ TurnedAway(r) \/ WorkerBegins(r) \/ Leave(r) \/ Panics(r)
  PROVE  Steps(r) /\ BeganMoves
<1>1. rq \in [Requests -> Progresses] /\ rq[r] \in Progresses /\ secret \in Hashes \cup {"none"}
  BY DEF TypeInv, RequestTypeOK
<1>2. CASE Leave(r) \/ Panics(r)
  <2>1. rq[r].pc = "leave" /\ Does(r, "done") /\ UNCHANGED began
    BY <1>2 DEF Leave, Panics, Answers
  <2>2. "done" \in AllPlaces /\ "done" \in Places(r)
    BY PlacesFacts
  <2> QED
    BY <1>1, <2>1, <2>2, DoesEffect DEF Walks, Moves, Steps, BeganMoves
<1>3. ASSUME NEW pc, NEW typed, Begins(r, pc, typed),
             typed \in {"none", "pw", secret} \cap (Hashes \cup {"none"}),
             pc = FirstStep(r) \/ (pc = "done" /\ typed = "none"),
             Op(r) = "login" /\ pc # "done" => typed # "none"
      PROVE  Steps(r) /\ BeganMoves
  <2>1. /\ FirstStep(r) \in Places(r) \cap {"insert", "update", "direct", "get", "other"}
        /\ FirstStep(r) = "insert" => Op(r) = "publish"
        /\ FirstStep(r) = "update" => Op(r) # "password"
    BY FirstStepFacts DEF Worker, WorkerOps
  <2>2. pc \in AllPlaces /\ pc \in Places(r) /\ pc \in {"insert", "update", "direct", "get", "other", "done"}
    BY <1>3, <2>1, PlacesFacts
  <2> DEFINE old == typed \notin {"none", secret}
  <2>3. rq[r].pc = "new" /\ rq' = [rq EXCEPT ![r].pc = pc, ![r].typed = typed, ![r].old = old]
    BY <1>3 DEF Begins
  <2>4. old \in BOOLEAN
    OBVIOUS
  <2> HIDE DEF old
  <2>5. rq'[r] = [rq[r] EXCEPT !.pc = pc, !.typed = typed, !.old = old]
    BY <1>1, <2>3
  <2>6. /\ rq'[r] \in Progresses /\ rq'[r].pc = pc /\ rq'[r].typed = typed /\ rq'[r].old = old
        /\ rq'[r].got = rq[r].got /\ rq'[r].fresh = rq[r].fresh /\ rq'[r].shared = rq[r].shared
        /\ rq'[r].res = rq[r].res
    BY <1>1, <1>3, <2>2, <2>4, <2>5 DEF Progresses
  <2>7. OthersKeep(r)
    BY <1>1, <2>3, <2>6 DEF OthersKeep
  <2>8. Enters(r)
    BY <1>3, <2>1, <2>2, <2>3, <2>6 DEF Enters, old
  <2>9. BeganMoves
    BY <1>3, <2>8 DEF Begins, BeganMoves
  <2> QED
    BY <2>2, <2>6, <2>7, <2>8, <2>9 DEF Moves, Steps
<1>4. CASE Arrive(r)
  <2>1. PICK typed \in Typeable(r) : Begins(r, FirstStep(r), typed)
    BY <1>4 DEF Arrive
  <2>2. /\ typed \in {"none", "pw", secret} \cap (Hashes \cup {"none"})
        /\ Op(r) = "login" => typed # "none"
    BY <1>1, CopyFacts DEF Typeable
  <2> QED
    BY <1>3, <2>1, <2>2
<1>5. CASE TurnedAway(r)
  BY <1>3, <1>5 DEF TurnedAway
<1>6. CASE WorkerBegins(r)
  <2>1. Op(r) # "login"
    BY <1>6 DEF WorkerBegins, Worker, WorkerOps
  <2> QED
    BY <1>3, <1>6, <2>1 DEF WorkerBegins
<1> QED
  BY <1>2, <1>4, <1>5, <1>6

\* The end of a shared call gives its outcome to all who joined.
LEMMA StepsAnswered ==
  ASSUME TypeInv, NEW p \in Pods, Answered(p)
  PROVE  /\ rq' \in [Requests -> Progresses] /\ UNCHANGED <<committed, secret, fails>>
         /\ \A q \in Requests :
              Moves(q) /\ rq'[q].pc \in Places(q) /\ (rq'[q].pc = "save" => rq'[q].got # Miss)
<1> DEFINE f == flight[p]
<1>1. f.pc = "end" /\ f \in Flights /\ f.val \in Rows /\ f.fresh \in BOOLEAN
  BY DEF TypeInv, CacheTypeOK, Answered, Landed, Flights
<1>2. rq' = [q \in Requests |-> rq'[q]] /\ UNCHANGED <<committed, secret, fails>>
  BY DEF Answered, history
<1>3. ASSUME NEW q \in Requests
      PROVE  /\ rq'[q] \in Progresses /\ Moves(q)
             /\ rq'[q].pc \in Places(q) /\ (rq'[q].pc = "save" => rq'[q].got # Miss)
  <2>1. rq[q] \in Progresses /\ rq[q].pc \in Places(q) /\ (rq[q].pc = "save" => rq[q].got # Miss)
    BY DEF TypeInv, RequestTypeOK
  <2>2. \/ rq'[q] = rq[q]
        \/ rq[q].pc = "wait" /\ Pod(q) = p /\ rq'[q] = [rq[q] EXCEPT !.pc = "direct"]
        \/ /\ rq[q].pc = "wait" /\ Pod(q) = p /\ f.ok
           /\ rq'[q] = [rq[q] EXCEPT !.got = f.val, !.fresh = f.fresh, !.pc = NextStep(q, f.val)]
    BY DEF Answered
  <2> HIDE DEF f
  <2>3. CASE rq[q].pc = "wait" /\ Pod(q) = p /\ rq'[q] = [rq[q] EXCEPT !.pc = "direct"]
    <3>1. "direct" \in Places(q) /\ "direct" \in AllPlaces
      BY DEF Places, AllPlaces
    <3> QED
      BY <2>1, <2>3, <3>1 DEF Moves, Walks, Keeps, Typed, Progresses
  <2>4. CASE /\ rq[q].pc = "wait" /\ Pod(q) = p /\ f.ok
             /\ rq'[q] = [rq[q] EXCEPT !.got = f.val, !.fresh = f.fresh, !.pc = NextStep(q, f.val)]
    <3>1. /\ NextStep(q, f.val) \in Places(q) \cap {"insert", "save", "acquire", "verify", "leave"}
          /\ NextStep(q, f.val) = "insert" /\ Op(q) = "bind" => f.val = Absent
          /\ NextStep(q, f.val) \in AllPlaces
      BY NextStepFacts, PlacesFacts
    <3>2. f.val \in Copies /\ f.val # Miss
      BY <1>1, CopyFacts
    <3>3. /\ rq'[q] \in Progresses /\ rq'[q].got = f.val /\ rq'[q].fresh = f.fresh
          /\ rq'[q].res = rq[q].res /\ rq'[q].shared = rq[q].shared /\ Typed(q)
          /\ rq'[q].pc = NextStep(q, f.val)
      BY <1>1, <2>1, <2>4, <3>1, <3>2 DEF Progresses, Typed
    <3>4. Took(q, f.val, f.fresh)
      BY <3>1, <3>3 DEF Took
    <3> QED
      BY <1>1, <2>4, <3>1, <3>2, <3>3, <3>4 DEF Moves, Takes, f
  <2> QED
    BY <2>1, <2>2, <2>3, <2>4 DEF Moves
<1> QED
  BY <1>2, <1>3

-----------------------------------------------------------------------------
(* What a step does to the singleflight call of a pod.                       *)

FlightSame(p) ==
    /\ flight'[p].val = flight[p].val /\ flight'[p].fresh = flight[p].fresh /\ flight'[p].ok = flight[p].ok

FlightMoves(p) ==
    \/ flight'[p] = flight[p]
    \/ /\ flight'[p].pc \in {"none", "check", "load"} /\ ~ flight'[p].fresh /\ flight'[p].ok
       /\ flight'[p].val = Absent
    \/ /\ flight[p].pc \in {"check", "lock", "spin"} /\ flight'[p].pc \in {"lock", "spin", "load"}
       /\ FlightSame(p)
    \/ /\ flight[p].pc \in {"check", "spin"} /\ flight'[p].pc = "end" /\ flight'[p].ok
       /\ flight'[p].fresh = flight[p].fresh
       /\ \/ l1[p] # Miss /\ flight'[p].val = l1[p]
          \/ L2Hit /\ flight'[p].val = l2
    \/ /\ flight[p].pc = "load" /\ flight'[p].pc = "fill2" /\ flight'[p].val \in ReadRows
       /\ flight'[p].ok = flight[p].ok /\ flight'[p].fresh
    \/ /\ flight[p].pc = "load" /\ flight'[p].pc = "end" /\ flight'[p].val = Absent /\ ~ flight'[p].ok
       /\ flight'[p].fresh = flight[p].fresh
    \/ flight[p].pc = "fill2" /\ flight'[p].pc = "fill1" /\ FlightSame(p)
    \/ /\ flight[p].pc = "fill1" /\ flight'[p].pc = "end" /\ flight'[p].ok
       /\ flight'[p].val = flight[p].val /\ flight'[p].fresh = flight[p].fresh

\* A step of a shared call moves only that call.
LEMMA FlightOne ==
  ASSUME CacheTypeOK, NEW p \in Pods, FlightStep(p) \/ Landed(p)
  PROVE  flight' \in [Pods -> Flights] /\ \A x \in Pods : FlightMoves(x)
<1>1. /\ flight \in [Pods -> Flights] /\ flight[p] \in Flights /\ flight[p].val \in Rows
      /\ l1[p] \in Copies /\ l2 \in Copies /\ ReadRows \subseteq Rows
  BY DEF CacheTypeOK, ReadRows, Flights
<1>2. ASSUME NEW f \in Flights, Flies(p, f)
      PROVE  /\ flight' \in [Pods -> Flights] /\ flight'[p] = f
             /\ \A x \in Pods : x # p => flight'[x] = flight[x]
  BY <1>1, <1>2 DEF Flies
<1>3. ASSUME NEW pc \in FlightPlaces, Goes(p, pc)
      PROVE  /\ flight' \in [Pods -> Flights] /\ flight'[p].pc = pc /\ FlightSame(p)
             /\ \A x \in Pods : x # p => flight'[x] = flight[x]
  <2>1. [flight[p] EXCEPT !.pc = pc] \in Flights
    BY <1>1 DEF Flights
  <2> QED
    BY <1>1, <1>2, <1>3, <2>1 DEF Goes, FlightSame, Flights
<1>4. ASSUME NEW v \in Rows, NEW ok \in BOOLEAN, Ends(p, v, ok)
      PROVE  /\ flight' \in [Pods -> Flights]
             /\ flight'[p].pc = "end" /\ flight'[p].val = v /\ flight'[p].ok = ok
             /\ flight'[p].fresh = flight[p].fresh
             /\ \A x \in Pods : x # p => flight'[x] = flight[x]
  <2> DEFINE f == [flight[p] EXCEPT !.pc = "end", !.val = v, !.ok = ok]
  <2>1. /\ f \in Flights /\ f.pc = "end" /\ f.val = v /\ f.ok = ok
        /\ f.fresh = flight[p].fresh
    BY <1>1 DEF Flights, FlightPlaces
  <2>2. Flies(p, f)
    BY <1>4 DEF Ends
  <2> HIDE DEF f
  <2> QED
    BY <1>2, <2>1, <2>2
<1>5. ASSUME NEW fill \in BOOLEAN, Loads(p, fill)
      PROVE  /\ flight' \in [Pods -> Flights] /\ flight'[p].pc = "load" /\ FlightSame(p)
             /\ \A x \in Pods : x # p => flight'[x] = flight[x]
  <2> DEFINE f == [flight[p] EXCEPT !.pc = "load", !.fillL2 = fill]
  <2>1. /\ f \in Flights /\ f.pc = "load" /\ f.val = flight[p].val /\ f.ok = flight[p].ok
        /\ f.fresh = flight[p].fresh
    BY <1>1 DEF Flights, FlightPlaces
  <2>2. Flies(p, f)
    BY <1>5 DEF Loads
  <2> HIDE DEF f
  <2> QED
    BY <1>2, <2>1, <2>2 DEF FlightSame
<1> SUFFICES /\ flight' \in [Pods -> Flights] /\ FlightMoves(p)
             /\ \A x \in Pods : x # p => flight'[x] = flight[x]
  BY DEF FlightMoves
<1>6. /\ {"lock", "spin", "fill1"} \subseteq FlightPlaces /\ Absent \in Rows
      /\ l1[p] # Miss => l1[p] \in Rows
      /\ L2Hit => l2 \in Rows
  BY <1>1, CopyFacts DEF FlightPlaces, L2Hit
<1>7. CASE CheckAgain(p)
  <2>1. flight[p].pc = "check"
    BY <1>7 DEF CheckAgain
  <2>2. CASE l1[p] # Miss /\ Ends(p, l1[p], TRUE)
    BY <1>4, <1>6, <2>1, <2>2 DEF FlightMoves
  <2>3. CASE L2Hit /\ Ends(p, l2, TRUE)
    BY <1>4, <1>6, <2>1, <2>3 DEF FlightMoves
  <2>4. CASE Goes(p, "lock")
    BY <1>3, <1>6, <2>1, <2>4 DEF FlightMoves
  <2>5. CASE Loads(p, FALSE)
    BY <1>5, <2>1, <2>5 DEF FlightMoves
  <2> QED
    BY <1>7, <2>2, <2>3, <2>4, <2>5 DEF CheckAgain
<1>8. CASE SourceLock(p)
  <2>1. flight[p].pc = "lock"
    BY <1>8 DEF SourceLock
  <2>2. CASE Goes(p, "spin")
    BY <1>3, <1>6, <2>1, <2>2 DEF FlightMoves
  <2>3. CASE Loads(p, FALSE) \/ Loads(p, TRUE)
    BY <1>5, <2>1, <2>3 DEF FlightMoves
  <2> QED
    BY <1>8, <2>2, <2>3 DEF SourceLock
<1>9. CASE SpinWaitSource(p)
  <2>1. flight[p].pc = "spin"
    BY <1>9 DEF SpinWaitSource
  <2>2. CASE l1[p] # Miss /\ Ends(p, l1[p], TRUE)
    BY <1>4, <1>6, <2>1, <2>2 DEF FlightMoves
  <2>3. CASE L2Hit /\ Ends(p, l2, TRUE)
    BY <1>4, <1>6, <2>1, <2>3 DEF FlightMoves
  <2>4. CASE SpinGivesUp(p)
    BY <1>5, <2>1, <2>4 DEF FlightMoves, SpinGivesUp
  <2> QED
    BY <1>9, <2>2, <2>3, <2>4 DEF SpinWaitSource
<1>10. CASE Load(p)
  <2>1. flight[p].pc = "load"
    BY <1>10 DEF Load
  <2>2. CASE Ends(p, Absent, FALSE)
    BY <1>4, <1>6, <2>1, <2>2 DEF FlightMoves
  <2>3. ASSUME NEW v \in ReadRows, Flies(p, [flight[p] EXCEPT !.pc = "fill2", !.val = v, !.fresh = TRUE])
        PROVE  /\ flight' \in [Pods -> Flights] /\ FlightMoves(p)
               /\ \A x \in Pods : x # p => flight'[x] = flight[x]
    <3> DEFINE f == [flight[p] EXCEPT !.pc = "fill2", !.val = v, !.fresh = TRUE]
    <3>1. f \in Flights /\ f.pc = "fill2" /\ f.val = v /\ f.ok = flight[p].ok /\ f.fresh
      BY <1>1 DEF Flights, FlightPlaces
    <3>2. Flies(p, f)
      BY <2>3
    <3> HIDE DEF f
    <3> QED
      BY <1>2, <2>1, <3>1, <3>2 DEF FlightMoves
  <2> QED
    BY <1>10, <2>2, <2>3 DEF Load
<1>11. CASE FillL2(p)
  BY <1>3, <1>6, <1>11 DEF FillL2, FlightMoves
<1>12. CASE FillL1(p)
  BY <1>1, <1>4, <1>12 DEF FillL1, FlightMoves
<1>13. CASE Landed(p)
  <2>1. NoFlight \in Flights /\ NoFlight.pc = "none" /\ ~ NoFlight.fresh /\ NoFlight.ok /\ NoFlight.val = Absent
    BY <1>6 DEF NoFlight, Flights, FlightPlaces
  <2> QED
    BY <1>2, <1>13, <2>1 DEF Landed, FlightMoves
<1> QED
  BY <1>7, <1>8, <1>9, <1>10, <1>11, <1>12, <1>13 DEF FlightStep

\* Joining opens a call or finds one, and changes no other.
LEMMA FlightJoined ==
  ASSUME TypeInv, NEW r \in Requests, JoinFlight(r)
  PROVE  flight' \in [Pods -> Flights] /\ \A x \in Pods : FlightMoves(x)
<1>1. flight \in [Pods -> Flights] /\ Pod(r) \in Pods
  BY DeployFacts DEF TypeInv, RequestTypeOK, CacheTypeOK
<1>2. \/ UNCHANGED flight
      \/ \E pc \in {"load", "check"} : Flies(Pod(r), [NoFlight EXCEPT !.pc = pc, !.lead = r])
  BY DEF JoinFlight, Do
<1>3. ASSUME NEW pc \in {"load", "check"}, Flies(Pod(r), [NoFlight EXCEPT !.pc = pc, !.lead = r])
      PROVE  flight' \in [Pods -> Flights] /\ \A x \in Pods : FlightMoves(x)
  <2> DEFINE f == [NoFlight EXCEPT !.pc = pc, !.lead = r]
  <2>1. f \in Flights /\ f.pc = pc /\ ~ f.fresh /\ f.ok /\ f.val = Absent
    BY CopyFacts DEF NoFlight, Flights, FlightPlaces
  <2>2. flight' = [flight EXCEPT ![Pod(r)] = f]
    BY <1>3 DEF Flies
  <2> HIDE DEF f
  <2> QED
    BY <1>1, <2>1, <2>2 DEF FlightMoves
<1> QED
  BY <1>1, <1>2, <1>3 DEF FlightMoves

-----------------------------------------------------------------------------
(* What a step does to the caches.                                           *)

\* What may be in a cache, or on its way there, after a step.
Sources ==
    CachedCopies \cup {Miss, Absent} \cup {Encoded(flight[p].val) : p \in Pods}
    \cup {Encoded({"row", r}) : r \in {q \in Requests : rq[q].pc = "set"}}

CopiesMove ==
    /\ \A p \in Pods : l1'[p] \in Sources
    /\ l2' \in Sources
    /\ \A x \in late' : x.val \in Sources

\* Caches that are left alone, or emptied.
LEMMA CopiesStay ==
  ASSUME \A p \in Pods : l1'[p] \in {l1[p], Miss}, l2' \in {l2, Miss}, UNCHANGED late
  PROVE  CopiesMove
BY DEF CopiesMove, Sources, CachedCopies

CachesAfter ==
    /\ l1' \in [Pods -> Copies] /\ l2' \in Copies /\ late' \subseteq Writes
    /\ CopiesMove /\ (~ deploy.l2 => l2' = Miss \/ l2' = l2)

\* The leader of a call fills L2 and L1, or sends the null entries there.
LEMMA CachesOfCalls ==
  ASSUME TypeInv, NEW p \in Pods, FlightStep(p) \/ Landed(p)
  PROVE  CachesAfter /\ UNCHANGED <<row, replica, redis, db, deploy>>
<1>1. /\ l1 \in [Pods -> Copies] /\ l2 \in Copies /\ late \subseteq Writes
      /\ flight[p] \in Flights /\ flight[p].val \in Rows /\ flight[p].lead \in Requests \cup {Nobody}
  BY DEF TypeInv, CacheTypeOK, Flights
<1>2. CASE CheckAgain(p) \/ SourceLock(p) \/ SpinWaitSource(p) \/ Load(p) \/ Landed(p)
  <2>1. UNCHANGED <<l1, l2, late, row, replica, redis, db, deploy>>
    BY <1>2 DEF CheckAgain, SourceLock, SpinWaitSource, Load, Landed
  <2> QED
    BY <1>1, <2>1, CopiesStay DEF CachesAfter
<1>3. /\ Encoded(flight[p].val) \in Copies /\ Absent \in Copies
      /\ Encoded(flight[p].val) \in Sources /\ Absent \in Sources
      /\ \A x \in Pods : l1[x] \in Sources
      /\ l2 \in Sources /\ \A x \in late : x.val \in Sources
  BY <1>1, CopyFacts DEF Sources, CachedCopies
<1>4. CASE FillL2(p)
  <2>1. UNCHANGED <<l1, row, replica, redis, db, deploy>>
    BY <1>4 DEF FillL2
  <2>2. l2' \in {l2, Encoded(flight[p].val)} /\ (~ deploy.l2 => l2' = l2)
    BY <1>4 DEF FillL2, HasL2
  <2>3. late' \subseteq late \cup {Write(p, Absent, flight[p].lead), Write("l2", Absent, flight[p].lead)}
    BY <1>4 DEF FillL2
  <2> DEFINE u == Write(p, Absent, flight[p].lead)
             v == Write("l2", Absent, flight[p].lead)
  <2>4. /\ u \in Writes /\ v \in Writes /\ u.val = Absent /\ v.val = Absent
    BY <1>1, <1>3 DEF Write, Writes
  <2> HIDE DEF u, v
  <2>5. \A x \in late' : x.val \in Sources
    BY <1>3, <2>3, <2>4 DEF u, v
  <2> QED
    BY <1>1, <1>3, <2>1, <2>2, <2>3, <2>4, <2>5 DEF CachesAfter, CopiesMove, u, v
<1>5. CASE FillL1(p)
  <2>1. UNCHANGED <<l2, late, row, replica, redis, db, deploy>>
    BY <1>5 DEF FillL1
  <2>2. l1' = l1 \/ l1' = [l1 EXCEPT ![p] = Encoded(flight[p].val)]
    BY <1>5 DEF FillL1
  <2> QED
    BY <1>1, <1>3, <2>1, <2>2 DEF CachesAfter, CopiesMove
<1> QED
  BY <1>2, <1>4, <1>5 DEF FlightStep

\* A request deletes the keys, or puts the new activity there.
LEMMA CachesOfRequests ==
  ASSUME TypeInv, NEW r \in Requests, CacheStep(r)
  PROVE  /\ CachesAfter /\ flight' \in [Pods -> Flights] /\ UNCHANGED <<replica, redis, db, deploy>>
         /\ \A p \in Pods : FlightMoves(p)
<1>1. /\ l1 \in [Pods -> Copies] /\ l2 \in Copies /\ late \subseteq Writes /\ Pod(r) \in Pods
      /\ flight \in [Pods -> Flights]
  BY DeployFacts DEF TypeInv, CacheTypeOK, RequestTypeOK
<1>2. Miss \in Copies /\ Miss \in Sources
  BY CopyFacts DEF Sources
<1>3. /\ \A x \in Pods : l1[x] \in Sources
      /\ l2 \in Sources /\ \A x \in late : x.val \in Sources
  BY DEF Sources, CachedCopies
<1>4. UNCHANGED flight => flight' \in [Pods -> Flights] /\ \A p \in Pods : FlightMoves(p)
  BY <1>1 DEF FlightMoves
<1>5. CASE UNCHANGED <<replica, l1, l2, flight, late, redis, db, deploy>>
  BY <1>1, <1>4, <1>5, CopiesStay DEF CachesAfter
<1>6. CASE GetL2(r)
  <2>1. UNCHANGED <<replica, l1, l2, flight, redis, db, deploy>>
    BY <1>6 DEF GetL2
  <2>2. late' \subseteq late \cup {Write(Pod(r), l2, r)}
    BY <1>6 DEF GetL2
  <2> DEFINE u == Write(Pod(r), l2, r)
  <2>3. u \in Writes /\ u.val = l2
    BY <1>1 DEF Write, Writes
  <2> HIDE DEF u
  <2>4. \A x \in late' : x.val \in Sources
    BY <1>3, <2>2, <2>3 DEF u
  <2> QED
    BY <1>1, <1>3, <1>4, <2>1, <2>2, <2>3, <2>4 DEF CachesAfter, CopiesMove, u
<1>7. CASE JoinFlight(r)
  <2>1. UNCHANGED <<replica, l1, l2, late, redis, db, deploy>>
    BY <1>7 DEF JoinFlight
  <2> QED
    BY <1>1, <1>7, <2>1, FlightJoined, CopiesStay DEF CachesAfter
<1>8. CASE DeleteKeys(r)
  <2>1. UNCHANGED <<replica, flight, late, redis, db, deploy>>
    BY <1>8 DEF DeleteKeys
  <2>2. l1' \in {l1, [l1 EXCEPT ![Pod(r)] = Miss]} /\ l2' \in {l2, Miss}
    BY <1>8 DEF DeleteKeys, DeleteL1, DeleteL2
  <2>3. \A p \in Pods : l1'[p] \in {l1[p], Miss}
    BY <1>1, <2>2
  <2>4. l1' \in [Pods -> Copies]
    BY <1>1, <1>2, <2>2
  <2> QED
    BY <1>1, <1>2, <1>4, <2>1, <2>2, <2>3, <2>4, CopiesStay DEF CachesAfter
<1>9. CASE SetCache(r)
  <2>1. UNCHANGED <<replica, flight, redis, db, deploy>> /\ rq[r].pc = "set"
    BY <1>9 DEF SetCache
  <2> DEFINE new == Encoded({"row", r})
             u == Write("l2", new, r)
             v == Write(Pod(r), Miss, r)
             w == Write("channel", Miss, r)
  <2>2. {"row", r} \in Rows
    BY DEF Rows
  <2>3. new \in Copies /\ new \in Sources
    BY <2>1, <2>2, CopyFacts DEF Sources
  <2> HIDE DEF new
  <2>4. /\ u \in Writes /\ v \in Writes /\ w \in Writes
        /\ u.val = new /\ v.val = Miss /\ w.val = Miss
    BY <1>1, <1>2, <2>3 DEF Write, Writes
  <2>5. /\ l1' = [l1 EXCEPT ![Pod(r)] = Miss]
        /\ l2' \in {l2, new} /\ (~ deploy.l2 => l2' = l2)
        /\ late' \subseteq late \cup {u, v, w}
    BY <1>9 DEF SetCache, SetStrategy, new
  <2> HIDE DEF u, v, w
  <2>6. \A x \in late' : x.val \in Sources
    BY <1>2, <1>3, <2>3, <2>4, <2>5
  <2> QED
    BY <1>1, <1>2, <1>3, <1>4, <2>1, <2>3, <2>4, <2>5, <2>6 DEF CachesAfter, CopiesMove
<1> QED
  BY <1>5, <1>6, <1>7, <1>8, <1>9
  DEF CacheStep, GetL1, DirectRead, OtherKeyRead, Insert, AcquireBcrypt, CompareOld, Update, LookupEmail,
      Save, CheckLock, Compare, cacheVars, CacheUnchanged

\* A write that was on its way lands.
LEMMA CachesOfGoroutines ==
  ASSUME TypeInv, NEW w \in late, LateWrite(w)
  PROVE  CachesAfter
<1>1. /\ l1 \in [Pods -> Copies] /\ l2 \in Copies /\ late \subseteq Writes
      /\ w.val \in Copies /\ w.by \in Requests \cup {Nobody}
  BY DEF TypeInv, CacheTypeOK, Writes
<1>2. Miss \in Copies /\ Miss \in Sources
  BY CopyFacts DEF Sources
<1>3. /\ \A x \in Pods : l1[x] \in Sources
      /\ l2 \in Sources /\ \A x \in late : x.val \in Sources
  BY DEF Sources, CachedCopies
<1>4. \A p \in Pods : Write(p, Miss, w.by) \in Writes /\ Write(p, Miss, w.by).val = Miss
  BY <1>1, <1>2 DEF Write, Writes
<1>5. \A x \in late' : x \in late \/ \E p \in Pods : x = Write(p, Miss, w.by)
  BY DEF LateWrite
<1>6. late' \subseteq Writes /\ \A x \in late' : x.val \in Sources
  BY <1>1, <1>2, <1>3, <1>4, <1>5
<1>7. l1' = l1 \/ (w.to \in Pods /\ l1' = [l1 EXCEPT ![w.to] = w.val])
  BY DEF LateWrite
<1>8. l2' \in {l2, w.val} /\ (~ deploy.l2 => l2' = l2)
  BY DEF LateWrite, HasL2
<1>9. l1' \in [Pods -> Copies] /\ \A p \in Pods : l1'[p] \in Sources
  BY <1>1, <1>3, <1>7
<1> QED
  BY <1>1, <1>3, <1>6, <1>8, <1>9 DEF CachesAfter, CopiesMove

\* What every step does.
FailsMove ==
    \A s \in Stores : fails'[s].locked =>
        \/ fails[s].locked
        \/ \E q \in Requests : rq'[q].res = "wrong" /\ LockStore(q) = s

\* The caches are only emptied, or the copies that land are accounted for in raced.
CachesMove ==
    /\ ~ redis' => ~ redis \/ "redis" \in harm'
    /\ ~ deploy.l2 => l2' = Miss \/ l2' = l2
    /\ \/ raced' = raced \cup {w \in committed : OldCopyLands(w)}
       \/ /\ UNCHANGED <<raced, flight>>
          /\ \A r \in Requests :
               /\ rq'[r].got = rq[r].got /\ (rq'[r].pc = "wait" => rq[r].pc = "wait")
               /\ rq'[r].shared = rq[r].shared
          /\ \A p \in Pods : l1'[p] \in {l1[p], Miss}
          /\ l2' \in {l2, Miss}

StepFacts ==
    /\ UNCHANGED deploy /\ raced \subseteq raced' /\ harm \subseteq harm' /\ committed \subseteq committed'
    /\ lost' = lost \cup ((row \ row') \X (committed' \ committed))
    /\ \A q \in Requests : Moves(q)
    /\ \A p \in Pods : FlightMoves(p)
    /\ replica' \in {replica, row}
    /\ RowMoves /\ FailsMove /\ BeganMoves /\ CachesMove /\ CopiesMove

FailsTypes == [Stores -> [count : Nat, locked : BOOLEAN]]

StepTypes ==
    /\ rq' \in [Requests -> Progresses]
    /\ \A q \in Requests : rq'[q].pc \in Places(q) /\ (rq'[q].pc = "save" => rq'[q].got # Miss)
    /\ committed' \subseteq Requests /\ secret' \in Hashes \cup {"none"} /\ fails' \in FailsTypes
    /\ row' \in Rows /\ l1' \in [Pods -> Copies] /\ l2' \in Copies /\ late' \subseteq Writes
    /\ flight' \in [Pods -> Flights] /\ redis' \in BOOLEAN /\ db' \in {"up", "fails", "hangs"}

\* Only a comparison that fails counts a failure.
LEMMA FailsCompared ==
  ASSUME TypeInv, NEW r \in Requests, CheckLock(r) \/ Compare(r)
  PROVE  FailsMove /\ fails' \in FailsTypes
<1>1. rq \in [Requests -> Progresses] /\ fails \in FailsTypes /\ LockStore(r) \in Stores
  BY DeployFacts DEF TypeInv, RequestTypeOK, FailsTypes
<1>2. CASE fails' = fails
  BY <1>1, <1>2 DEF FailsMove
<1>3. CASE fails' = ClearFailures(LockStore(r))
  BY <1>1, <1>3 DEF FailsMove, ClearFailures, NoFailure, FailsTypes
<1>4. CASE LoginEnds(r, "wrong") /\ fails' = RecordFailure(LockStore(r))
  <2>1. rq'[r].res = "wrong"
    BY <1>1, <1>4, LoginEffect DEF Results
  <2>2. \A s \in Stores : s # LockStore(r) => fails'[s] = fails[s]
    BY <1>1, <1>4 DEF RecordFailure, FailsTypes
  <2>3. fails' \in FailsTypes
    BY <1>1, <1>4 DEF RecordFailure, FailsTypes
  <2> QED
    BY <1>4, <2>1, <2>2, <2>3 DEF FailsMove
<1> QED
  BY <1>2, <1>3, <1>4 DEF CheckLock, Compare

\* A lock that ends counts none.
LEMMA FailsExpired ==
  ASSUME TypeInv, ExpireFailures \/ \E p \in Pods : CleanupFailures(p)
  PROVE  FailsMove /\ fails' \in FailsTypes
<1>1. fails \in FailsTypes /\ Nobody \in Stores /\ Pods \subseteq Stores
  BY DEF TypeInv, RequestTypeOK, Stores, FailsTypes
<1>2. ASSUME NEW s \in Stores, fails' = ClearFailures(s)
      PROVE  FailsMove /\ fails' \in FailsTypes
  BY <1>1, <1>2 DEF FailsMove, ClearFailures, NoFailure, FailsTypes
<1>3. ASSUME NEW s \in Stores, fails' = [fails EXCEPT ![s].locked = FALSE]
      PROVE  FailsMove /\ fails' \in FailsTypes
  BY <1>1, <1>3 DEF FailsMove, FailsTypes
<1>4. CASE ExpireFailures
  BY <1>1, <1>2, <1>4 DEF ExpireFailures
<1>5. ASSUME NEW p \in Pods, CleanupFailures(p)
      PROVE  FailsMove /\ fails' \in FailsTypes
  <2>1. fails' = ClearFailures(p) \/ fails' = [fails EXCEPT ![p].locked = FALSE]
    BY <1>5 DEF CleanupFailures
  <2>2. p \in Stores
    BY <1>1
  <2> QED
    BY <1>2, <1>3, <2>1, <2>2
<1> QED
  BY <1>4, <1>5

\* A request that moves keeps the types of all of them.
LEMMA TypesOfOne ==
  ASSUME TypeInv, NEW r \in Requests, Steps(r)
  PROVE  /\ rq' \in [Requests -> Progresses]
         /\ \A q \in Requests : /\ Moves(q) /\ rq'[q].pc \in Places(q)
                                /\ rq'[q].pc = "save" => rq'[q].got # Miss
BY DEF TypeInv, RequestTypeOK, Steps, OthersKeep, Moves

\* A row that is left alone loses nothing.
LEMMA NothingLost == UNCHANGED row => (row \ row') \X (committed' \ committed) = {}
OBVIOUS

\* The steps of a request.
LEMMA StepsOfRequests ==
  ASSUME TypeInv, NEW r \in Requests, Inside(CacheStep(r)),
         raced' = raced \cup {w \in committed : OldCopyLands(w)},
         lost' = lost \cup ((row \ row') \X (committed' \ committed))
  PROVE  StepFacts /\ StepTypes
<1>1. /\ CachesAfter /\ flight' \in [Pods -> Flights] /\ UNCHANGED <<replica, redis, db, deploy>>
      /\ \A p \in Pods : FlightMoves(p)
  BY CachesOfRequests DEF Inside
<1>2. UNCHANGED <<harm, began>>
  BY DEF Inside, faultVars
<1>3. CASE GetL1(r) \/ GetL2(r) \/ JoinFlight(r) \/ DirectRead(r) \/ OtherKeyRead(r)
  <2>1. Steps(r) /\ UNCHANGED <<row, committed, secret, fails>>
    BY <1>3, StepsReads DEF GetL1, GetL2, JoinFlight, DirectRead, OtherKeyRead, cacheVars, history
  <2>2. FailsMove /\ StepTypes
    BY <1>1, <2>1, TypesOfOne DEF FailsMove, StepTypes, CachesAfter, TypeInv, RequestTypeOK, CacheTypeOK, FailsTypes
  <2> QED
    BY <1>1, <1>2, <2>1, <2>2, TypesOfOne DEF StepFacts, CachesMove, CachesAfter, RowMoves, BeganMoves
<1>4. CASE \/ Insert(r) \/ AcquireBcrypt(r) \/ CompareOld(r) \/ Update(r) \/ LookupEmail(r) \/ Save(r)
           \/ DeleteKeys(r) \/ SetCache(r)
  <2>1. /\ Steps(r) /\ UNCHANGED fails
        /\ UNCHANGED <<row, committed, secret>> \/ (Committing(r) /\ UNCHANGED <<l1, l2, replica>>)
    BY <1>4, StepsWrites
    DEF Insert, AcquireBcrypt, CompareOld, Update, LookupEmail, Save, DeleteKeys, SetCache
  <2>2. row' \in Rows /\ committed' \subseteq Requests /\ secret' \in Hashes \cup {"none"}
    <3>1. /\ row \in Rows /\ committed \subseteq Requests /\ secret \in Hashes \cup {"none"}
          /\ rq[r].got \in Copies /\ (rq[r].pc = "save" => rq[r].got \in Rows)
      BY CopyFacts DEF TypeInv, RequestTypeOK, CacheTypeOK, Progresses
    <3>2. CASE Committing(r)
      <4>1. HashOf[r] \in Hashes
        BY CopyFacts
      <4>2. Updated(r) \in Rows
        BY <3>1, <4>1 DEF Updated, Rows
      <4>3. {"row", r} \cup (IF Op(r) = "register" THEN {HashOf[r]} ELSE {}) \in Rows
        BY <4>1 DEF Rows
      <4>4. rq[r].pc = "save" => rq[r].got \cup {r} \in Rows
        BY <3>1 DEF Rows
      <4> QED
        BY <3>1, <3>2, <4>1, <4>2, <4>3, <4>4 DEF Committing
    <3> QED
      BY <2>1, <3>1, <3>2
  <2>3. FailsMove /\ StepTypes
    BY <1>1, <2>1, <2>2, TypesOfOne DEF FailsMove, StepTypes, CachesAfter, TypeInv, RequestTypeOK, CacheTypeOK, FailsTypes
  <2>4. RowMoves /\ committed \subseteq committed'
    BY <1>2, <2>1 DEF RowMoves, Committing
  <2> QED
    BY <1>1, <1>2, <2>1, <2>3, <2>4, TypesOfOne DEF StepFacts, CachesMove, CachesAfter, BeganMoves
<1>5. CASE CheckLock(r) \/ Compare(r)
  <2>1. Steps(r) /\ UNCHANGED <<row, committed, secret>>
    BY <1>5, StepsLogin DEF CheckLock, Compare, cacheVars, history
  <2>2. FailsMove /\ StepTypes
    BY <1>1, <1>5, <2>1, TypesOfOne, FailsCompared DEF StepTypes, CachesAfter, TypeInv, RequestTypeOK, CacheTypeOK
  <2> QED
    BY <1>1, <1>2, <2>1, <2>2, TypesOfOne DEF StepFacts, CachesMove, CachesAfter, RowMoves, BeganMoves
<1> QED
  BY <1>3, <1>4, <1>5 DEF Inside, CacheStep

\* Steps that leave the caches of the row and the accounts alone.
LEMMA StepsOfChain ==
  ASSUME TypeInv, NEW r \in Requests, UNCHANGED <<cacheVars, fails, committed, secret, lost>>, harm \subseteq harm',
         Arrive(r) \/ TurnedAway(r) \/ WorkerBegins(r) \/ Leave(r) \/ Panics(r),
         \/ raced' = raced \cup {w \in committed : OldCopyLands(w)}
         \/ Panics(r) /\ UNCHANGED raced
  PROVE  StepFacts /\ StepTypes
<1>1. UNCHANGED <<row, replica, l1, l2, flight, late, redis, db, deploy>>
  BY DEF cacheVars
<1>2. Steps(r) /\ BeganMoves
  BY StepsChain
<1>3. /\ rq' \in [Requests -> Progresses]
      /\ \A q \in Requests : /\ Moves(q) /\ rq'[q].pc \in Places(q)
                             /\ rq'[q].pc = "save" => rq'[q].got # Miss
  BY <1>2, TypesOfOne
<1>4. CachesMove
  <2>1. CASE Panics(r) /\ UNCHANGED raced
    <3>1. rq \in [Requests -> Progresses] /\ Does(r, "done") /\ "done" \in AllPlaces
      BY <2>1, PlacesFacts DEF TypeInv, RequestTypeOK, Panics, Answers
    <3>2. OthersKeep(r) /\ Keeps(r) /\ rq'[r].pc = "done"
      BY <3>1, DoesEffect
    <3> QED
      BY <1>1, <2>1, <3>2 DEF CachesMove, OthersKeep, Keeps
  <2> QED
    BY <1>1, <2>1 DEF CachesMove
<1>5. \A p \in Pods : FlightMoves(p)
  BY <1>1 DEF FlightMoves
<1>6. StepTypes /\ FailsMove
  BY <1>1, <1>3 DEF StepTypes, FailsMove, TypeInv, RequestTypeOK, CacheTypeOK, FailsTypes
<1>7. CopiesMove
  BY <1>1, CopiesStay
<1>8. lost' = lost \cup ((row \ row') \X (committed' \ committed))
  BY <1>1, NothingLost
<1> QED
  BY <1>1, <1>2, <1>3, <1>4, <1>5, <1>6, <1>7, <1>8 DEF StepFacts, RowMoves

\* Steps in which no request moves and nothing is committed.
LEMMA StepsElsewhere ==
  ASSUME TypeInv, UNCHANGED <<deploy, row, rq, began, committed, secret, lost>>, harm \subseteq harm',
         raced \subseteq raced', \A p \in Pods : FlightMoves(p), replica' \in {replica, row},
         CachesAfter, CachesMove, FailsMove, fails' \in FailsTypes,
         flight' \in [Pods -> Flights], redis' \in BOOLEAN, db' \in {"up", "fails", "hangs"}
  PROVE  StepFacts /\ StepTypes
<1>1. StepTypes
  BY DEF StepTypes, CachesAfter, TypeInv, RequestTypeOK, CacheTypeOK
<1>2. lost' = lost \cup ((row \ row') \X (committed' \ committed))
  BY NothingLost
<1> QED
  BY <1>1, <1>2 DEF StepFacts, Moves, RowMoves, BeganMoves, CachesAfter

\* Every step, reduced to the facts the properties below need.
LEMMA AllSteps ==
  ASSUME TypeInv, [Next]_vars
  PROVE  StepFacts /\ StepTypes
<1>1. /\ \A p \in Pods : flight'[p] = flight[p] => FlightMoves(p)
      /\ flight \in [Pods -> Flights] /\ redis \in BOOLEAN /\ db \in {"up", "fails", "hangs"}
      /\ fails \in FailsTypes /\ l1 \in [Pods -> Copies] /\ l2 \in Copies /\ late \subseteq Writes
  BY DEF FlightMoves, TypeInv, CacheTypeOK, RequestTypeOK, FailsTypes
<1>2. UNCHANGED fails => FailsMove
  BY DEF FailsMove
<1>3. CASE Progress
  <2>1. /\ raced' = raced \cup {w \in committed : OldCopyLands(w)}
        /\ lost' = lost \cup ((row \ row') \X (committed' \ committed))
    BY <1>3 DEF Progress
  <2>2. UNCHANGED row => UNCHANGED lost
    BY <2>1, NothingLost
  <2>3. ASSUME NEW r \in Requests, Arrive(r) \/ TurnedAway(r) \/ WorkerBegins(r) \/ Leave(r)
        PROVE  StepFacts /\ StepTypes
    <3>1. UNCHANGED <<cacheVars, fails, committed, secret, harm>>
      BY <2>3 DEF Arrive, TurnedAway, WorkerBegins, Leave, Begins, faultVars, history
    <3>2. UNCHANGED lost
      BY <2>2, <3>1 DEF cacheVars
    <3> QED
      BY <2>1, <2>3, <3>1, <3>2, StepsOfChain
  <2>4. ASSUME NEW p \in Pods, Inside(Answered(p))
        PROVE  StepFacts /\ StepTypes
    <3>1. CachesAfter /\ UNCHANGED <<row, replica, redis, db, deploy>>
      BY <2>4, CachesOfCalls DEF Inside, Answered
    <3>2. UNCHANGED <<harm, began>>
      BY <2>4 DEF Inside, faultVars
    <3>3. flight' \in [Pods -> Flights] /\ \A x \in Pods : FlightMoves(x)
      BY <2>4, FlightOne DEF Inside, Answered, TypeInv
    <3>4. /\ rq' \in [Requests -> Progresses] /\ UNCHANGED <<committed, secret, fails>>
          /\ \A q \in Requests :
               Moves(q) /\ rq'[q].pc \in Places(q) /\ (rq'[q].pc = "save" => rq'[q].got # Miss)
      BY <2>4, StepsAnswered DEF Inside
    <3>5. StepTypes
      BY <1>1, <3>1, <3>3, <3>4 DEF StepTypes, CachesAfter, TypeInv, RequestTypeOK, CacheTypeOK
    <3> QED
      BY <1>2, <2>1, <3>1, <3>2, <3>3, <3>4, <3>5
      DEF StepFacts, RowMoves, BeganMoves, CachesMove, CachesAfter
  <2>5. ASSUME NEW p \in Pods, Inside(FlightStep(p) /\ UNCHANGED <<rq, fails, history>>)
        PROVE  StepFacts /\ StepTypes
    <3>1. CachesAfter /\ UNCHANGED <<row, replica, redis, db, deploy>>
      BY <2>5, CachesOfCalls DEF Inside
    <3>2. UNCHANGED <<harm, began, rq, fails, committed, secret>>
      BY <2>5 DEF Inside, faultVars, history
    <3>3. flight' \in [Pods -> Flights] /\ \A x \in Pods : FlightMoves(x)
      BY <2>5, FlightOne DEF Inside, TypeInv
    <3>4. CachesMove
      BY <2>1, <3>1 DEF CachesMove, CachesAfter
    <3> QED
      BY <1>1, <1>2, <2>1, <2>2, <3>1, <3>2, <3>3, <3>4, StepsElsewhere
  <2>6. ASSUME NEW w \in late, Inside(LateWrite(w) /\ UNCHANGED <<rq, fails, history>>)
        PROVE  StepFacts /\ StepTypes
    <3>1. CachesAfter
      BY <2>6, CachesOfGoroutines DEF Inside
    <3>2. UNCHANGED <<harm, began, rq, fails, committed, secret, row, replica, flight, redis, db, deploy>>
      BY <2>6 DEF Inside, faultVars, history, LateWrite
    <3>3. CachesMove
      BY <2>1, <3>1, <3>2 DEF CachesMove, CachesAfter
    <3> QED
      BY <1>1, <1>2, <2>1, <2>2, <3>1, <3>2, <3>3, StepsElsewhere
  <2>7. ASSUME NEW p \in Pods, UNCHANGED <<faultVars, breakerVars, cacheVars, rq, began, fails, history>>
        PROVE  StepFacts /\ StepTypes
    <3>1. /\ UNCHANGED <<harm, began, rq, fails, committed, secret>>
          /\ UNCHANGED <<row, replica, l1, l2, flight, late, redis, db, deploy>>
      BY <2>7 DEF faultVars, history, cacheVars
    <3>2. CachesAfter
      BY <1>1, <3>1, CopiesStay DEF CachesAfter
    <3>3. CachesMove
      BY <2>1, <3>1 DEF CachesMove
    <3> QED
      BY <1>1, <1>2, <2>1, <2>2, <3>1, <3>2, <3>3, StepsElsewhere
  <2> QED
    BY <1>3, <2>1, <2>3, <2>4, <2>5, <2>6, <2>7, StepsOfRequests DEF Progress
<1>4. ASSUME UNCHANGED <<deploy, row, rq, began, committed, secret, flight, late, raced, lost>>,
             harm \subseteq harm', replica' \in {replica, row},
             ~ redis' => ~ redis \/ "redis" \in harm',
             \A p \in Pods : l1'[p] \in {l1[p], Miss}, l2' \in {l2, Miss}, l1' \in [Pods -> Copies],
             FailsMove, fails' \in FailsTypes, redis' \in BOOLEAN, db' \in {"up", "fails", "hangs"}
      PROVE  StepFacts /\ StepTypes
  <2>1. CachesAfter
    BY <1>1, <1>4, CopiesStay, CopyFacts DEF CachesAfter
  <2>2. CachesMove
    BY <1>1, <1>4 DEF CachesMove
  <2> QED
    BY <1>1, <1>4, <2>1, <2>2, StepsElsewhere
<1>5. CASE Surroundings
  <2>1. UNCHANGED <<raced, lost>>
    BY <1>5 DEF Surroundings
  <2>2. CASE Inside(ExpireFailures) \/ \E p \in Pods : Inside(CleanupFailures(p))
    <3>1. /\ UNCHANGED <<deploy, row, replica, rq, began, committed, secret>>
          /\ UNCHANGED <<flight, late, harm, redis, db, l1, l2>>
      BY <2>2 DEF Inside, ExpireFailures, CleanupFailures, cacheVars, faultVars, history
    <3>2. FailsMove /\ fails' \in FailsTypes
      BY <2>2, FailsExpired DEF Inside
    <3> QED
      BY <1>1, <1>4, <2>1, <3>1, <3>2
  <2>3. CASE Inside(((\E p \in Pods : ExpireL1(p)) \/ ExpireL2 \/ RedisAnswers \/ DatabaseAnswers \/ Replicate)
                    /\ UNCHANGED <<rq, fails, history>>)
    <3>1. UNCHANGED <<deploy, row, rq, began, committed, secret, flight, late, harm, fails>>
      BY <2>3 DEF Inside, ExpireL1, ExpireL2, RedisAnswers, DatabaseAnswers, Replicate, faultVars, history
    <3>2. /\ \A p \in Pods : l1'[p] \in {l1[p], Miss}
          /\ l1' \in [Pods -> Copies] /\ l2' \in {l2, Miss}
      <4>1. ASSUME NEW p \in Pods, ExpireL1(p)
            PROVE  l1' = [l1 EXCEPT ![p] = Miss] /\ l2' = l2
        BY <4>1 DEF ExpireL1
      <4>2. CASE ExpireL2 \/ RedisAnswers \/ DatabaseAnswers \/ Replicate
        BY <1>1, <4>2 DEF ExpireL2, RedisAnswers, DatabaseAnswers, Replicate
      <4>3. Miss \in Copies
        BY CopyFacts
      <4> QED
        BY <1>1, <2>3, <4>1, <4>2, <4>3 DEF Inside
    <3>3. /\ replica' \in {replica, row} /\ (~ redis' => ~ redis)
          /\ redis' \in BOOLEAN /\ db' \in {"up", "fails", "hangs"}
      <4>1. ASSUME NEW p \in Pods, ExpireL1(p)
            PROVE  UNCHANGED <<replica, redis, db>>
        BY <4>1 DEF ExpireL1
      <4>2. CASE ExpireL2 \/ RedisAnswers \/ DatabaseAnswers \/ Replicate
        BY <1>1, <4>2 DEF ExpireL2, RedisAnswers, DatabaseAnswers, Replicate
      <4> QED
        BY <1>1, <2>3, <4>1, <4>2 DEF Inside
    <3> QED
      BY <1>1, <1>2, <1>4, <2>1, <3>1, <3>2, <3>3
  <2>4. CASE /\ ExpireSource \/ RedisFails \/ DatabaseFails
             /\ UNCHANGED <<degradeVars, breakerVars, rq, began, fails, history>>
    <3>1. /\ UNCHANGED <<deploy, row, replica, rq, began, committed, secret, flight, late, fails, l1, l2>>
          /\ redis' \in BOOLEAN /\ db' \in {"up", "fails", "hangs"}
      BY <1>1, <2>4 DEF ExpireSource, RedisFails, DatabaseFails, history
    <3>2. harm \subseteq harm' /\ (~ redis' => ~ redis \/ "redis" \in harm')
      BY <2>4 DEF ExpireSource, RedisFails, DatabaseFails, Harm, Disturb
    <3> QED
      BY <1>1, <1>2, <1>4, <2>1, <3>1, <3>2
  <2>5. ASSUME NEW p \in Pods, Reload(p), UNCHANGED <<cacheVars, rq, began, fails, history>>
        PROVE  StepFacts /\ StepTypes
    <3>1. /\ UNCHANGED <<deploy, row, replica, rq, began, committed, secret>>
          /\ UNCHANGED <<flight, late, fails, l1, l2, redis, db>>
      BY <2>5 DEF cacheVars, history
    <3>2. harm \subseteq harm'
      BY <2>5 DEF Reload, Harm
    <3> QED
      BY <1>1, <1>2, <1>4, <2>1, <3>1, <3>2
  <2>6. ASSUME NEW r \in Requests, Panics(r)
        PROVE  StepFacts /\ StepTypes
    <3>1. UNCHANGED <<cacheVars, fails, committed, secret, harm>>
      BY <2>6 DEF Panics, Disturb, history
    <3> QED
      BY <2>1, <2>6, <3>1, StepsOfChain
  <2> QED
    BY <1>5, <2>2, <2>3, <2>4, <2>5, <2>6 DEF Surroundings
<1>6. CASE UNCHANGED vars
  <2>1. /\ UNCHANGED <<deploy, row, replica, rq, began, committed, secret, flight, late, raced, lost>>
        /\ UNCHANGED <<fails, l1, l2, redis, db, harm>>
    BY <1>6 DEF vars, cacheVars, accountVars, faultVars
  <2> QED
    BY <1>1, <1>2, <1>4, <2>1
<1> QED
  BY <1>3, <1>5, <1>6 DEF Next

\* Every step preserves the types and the places of the requests.
LEMMA TypeNext == TypeInv /\ StepFacts /\ StepTypes => TypeInv'
<1> SUFFICES ASSUME TypeInv, StepFacts, StepTypes
             PROVE  TypeInv'
  OBVIOUS
<1>1. \A q \in Requests : Places(q)' = Places(q)
  BY DEF StepFacts, Places, Op, Invalidates
<1>2. raced' \subseteq Requests
  BY DEF StepFacts, CachesMove, TypeInv, RequestTypeOK
<1>3. began' \in [Requests -> SUBSET Requests]
  BY DEF StepFacts, BeganMoves, Finished, TypeInv, RequestTypeOK
<1>4. Stores' = Stores /\ deploy' \in Deployments /\ replica' \in Rows
  BY DEF Stores, StepFacts, TypeInv, RequestTypeOK, CacheTypeOK
<1>5. RequestTypeOK'
  BY <1>1, <1>2, <1>3, <1>4 DEF StepTypes, RequestTypeOK, FailsTypes
<1>6. CacheTypeOK'
  BY <1>4 DEF StepTypes, CacheTypeOK
<1> QED
  BY <1>5, <1>6 DEF TypeInv

\* The types hold in every deployment at the start.
LEMMA TypeStart == GatewayInit => TypeInv
<1> SUFFICES ASSUME GatewayInit
             PROVE  TypeInv
  OBVIOUS
<1>1. deploy \in Deployments /\ row = deploy.row /\ replica = deploy.row /\ CacheInit /\ AccountInit
  BY DEF GatewayInit
<1>2. row \in Rows /\ Absent \in Rows /\ Miss \in Copies
  <2>1. deploy.row \in {Absent, {"row", "pw"}, {"row"}}
    BY <1>1, DeployAssumption
  <2> QED
    BY <1>1, <2>1, CopyFacts DEF Rows, Absent
<1>3. \A r \in Requests : rq[r] \in Progresses /\ rq[r].pc \in {"new", "done"}
  BY <1>1, <1>2 DEF AccountInit, Progresses, AllPlaces, Results
<1>4. RequestTypeOK
  <2>1. rq \in [Requests -> Progresses]
    BY <1>1, <1>3 DEF AccountInit
  <2>2. \A r \in Requests : rq[r].pc \in Places(r) /\ rq[r].pc # "save"
    BY <1>3 DEF Places
  <2>3. fails \in [Stores -> [count : Nat, locked : BOOLEAN]]
    BY <1>1 DEF AccountInit, NoFailure
  <2>4. secret \in Hashes \cup {"none"}
    BY <1>1, CopyFacts DEF AccountInit
  <2> QED
    BY <1>1, <2>1, <2>2, <2>3, <2>4 DEF RequestTypeOK, AccountInit
<1>5. CacheTypeOK
  <2>1. NoFlight \in Flights
    BY <1>2 DEF NoFlight, Flights, FlightPlaces
  <2> QED
    BY <1>1, <1>2, <2>1 DEF CacheInit, CacheTypeOK
<1> QED
  BY <1>4, <1>5 DEF TypeInv

\* The degraded mode of a pod follows its breakers, in whatever order requests end, breakers turn
\* and the two atomics of the callbacks are written, with the three exceptions the code has.
THEOREM DegradeIsRight == GatewaySpec => []DegradeFollowsBreakers
<1>1. DegradeInv => DegradeFollowsBreakers
  <2> SUFFICES ASSUME DegradeInv, NEW p \in Pods, storing[p] = {}, odd = {}, "reload" \notin harm
               PROVE  active[p] <=> \E b \in Breakers : breakers[p][b].st # "closed"
    BY DEF DegradeFollowsBreakers
  <2>1. active[p] <=> NotClosed(p) # {}
    BY DEF DegradeInv, FlagFollows
  <2>2. NotClosed(p) # {} <=> \E b \in Breakers : breakers[p][b].st # "closed"
    BY DEF NotClosed
  <2> QED
    BY <2>1, <2>2
<1>2. TypeInv => RequestTypeOK
  BY DEF TypeInv
<1> QED
  BY <1>1, <1>2, TypeStart, TypeNext, AllSteps, DegradeStart, DegradeNext, PTL DEF GatewaySpec

-----------------------------------------------------------------------------
(* What the requests hold.                                                   *)

\* A request that has committed was about to, or had.
CommitsOnly(r) == r \in committed' => r \in committed \/ Committing(r)

\* Each way a request moves leads from what it holds to what it should hold.
LEMMA ChainMoves ==
  ASSUME TypeInv, NEW r \in Requests, ChainAt(r), Moves(r), CommitsOnly(r), UNCHANGED deploy,
         r \in committed => r \in committed', \A q : q \in committed' => q \in Requests
  PROVE  ChainAt(r)'
<1>1. Op(r)' = Op(r) /\ rq[r].pc \in Places(r)
  BY DEF Op, TypeInv, RequestTypeOK
<1>2. CASE Committing(r)
  <2>1. /\ rq[r].pc \in {"insert", "update", "save"} /\ Keeps(r)
        /\ rq'[r].pc \in {"set", "leave", "lookup", "del1"} /\ r \in committed'
    BY <1>2 DEF Committing
  <2>2. rq[r].res = "none"
    BY <2>1 DEF ChainAt
  <2>3. rq'[r].res = "none" \/ (rq'[r].pc = "leave" /\ rq'[r].res = "kept")
    BY <2>1, <2>2 DEF Moves, Enters, Joins, Walks, Kept, Takes, Judged
  <2>4. Op(r) = "password" => rq[r].pc = "update"
    BY <1>1, <2>1 DEF Places
  <2>5. Op(r) # "login"
    BY <1>1, <2>1 DEF Places
  <2> QED
    BY <1>1, <2>1, <2>3, <2>4, <2>5 DEF ChainAt, Keeps, Typed, Loading
<1>3. CASE ~ Committing(r)
  <2>1. r \in committed' <=> r \in committed
    BY <1>3 DEF CommitsOnly
  <2>2. CASE rq'[r] = rq[r]
    BY <1>1, <2>1, <2>2 DEF ChainAt
  <2>3. CASE Enters(r)
    BY <1>1, <2>1, <2>3 DEF Enters, ChainAt, Loading
  <2>4. CASE Joins(r)
    BY <1>1, <2>1, <2>4 DEF Joins, Typed, ChainAt, Loading
  <2>5. CASE Walks(r)
    <3>1. rq[r].pc = "set" => r \in committed
      BY DEF ChainAt
    <3>2. AfterWrite(r) \in {"leave", "lookup", "del1"}
      BY AfterWriteFacts
    <3> QED
      BY <1>1, <2>1, <2>5, <3>1, <3>2 DEF Walks, Keeps, Typed, ChainAt, Loading
  <2>6. CASE Kept(r)
    BY <1>1, <2>1, <2>6 DEF Kept, Keeps, Typed, ChainAt, Loading
  <2>7. CASE Takes(r)
    <3>1. /\ rq[r].pc \in Loading \ {"new"}
          /\ Typed(r) /\ rq'[r].res = rq[r].res
          /\ rq'[r].pc \in {"insert", "save", "acquire", "verify", "leave", "direct"}
          /\ rq'[r].pc = "insert" /\ Op(r) = "bind" => rq'[r].got = Absent
      BY <2>7 DEF Takes, Took, Loading
    <3> QED
      BY <1>1, <2>1, <3>1 DEF ChainAt, Typed, Loading
  <2>8. CASE Judged(r)
    BY <1>1, <2>1, <2>8 DEF Judged, Keeps, Typed, ChainAt, Loading
  <2> QED
    BY <2>2, <2>3, <2>4, <2>5, <2>6, <2>7, <2>8 DEF Moves
<1> QED
  BY <1>2, <1>3

\* Only a request that is committing is added to the committed ones.
LEMMA OnlyCommitting ==
  ASSUME StepFacts, NEW r \in committed', r \notin committed
  PROVE  Committing(r) /\ UNCHANGED <<l1, l2, replica, began>>
BY DEF StepFacts, RowMoves, Committing

\* Every step preserves what the requests hold.
LEMMA ChainNext == TypeInv /\ ChainInv /\ StepFacts /\ StepTypes => ChainInv'
<1> SUFFICES ASSUME TypeInv, ChainInv, StepFacts, StepTypes, NEW r \in Requests
             PROVE  ChainAt(r)'
  BY DEF ChainInv
<1>1. ChainAt(r) /\ Moves(r) /\ UNCHANGED deploy /\ committed \subseteq committed' /\ committed' \subseteq Requests
  BY DEF ChainInv, StepFacts, StepTypes
<1>2. CommitsOnly(r)
  BY OnlyCommitting DEF CommitsOnly
<1> QED
  BY <1>1, <1>2, ChainMoves

\* At the start no request has read or committed anything.
LEMMA ChainStart == GatewayInit => ChainInv
<1> SUFFICES ASSUME GatewayInit, NEW r \in Requests
             PROVE  ChainAt(r)
  BY DEF ChainInv
<1>1. /\ rq[r].pc \in {"new", "done"} /\ rq[r].got = Miss /\ ~ rq[r].fresh /\ rq[r].res = "none"
      /\ committed = {}
  BY DEF GatewayInit, AccountInit
<1> QED
  BY <1>1 DEF ChainAt, Loading

\* What a request holds when it has committed or has been judged, it keeps.
LEMMA GotStays ==
  ASSUME TypeInv, ChainInv, StepFacts, NEW r \in Requests, r \in committed' \/ rq[r].res # "none"
  PROVE  Keeps(r) /\ began'[r] = began[r]
<1>1. ChainAt(r) /\ Moves(r) /\ BeganMoves /\ began \in [Requests -> SUBSET Requests]
  BY DEF ChainInv, StepFacts, TypeInv, RequestTypeOK
<1>2. CASE r \in committed \/ rq[r].res # "none"
  <2>1. rq[r].pc \notin Loading
    BY <1>1, <1>2 DEF ChainAt, Loading
  <2>2. Keeps(r)
    BY <1>1, <2>1 DEF Moves, Enters, Joins, Walks, Kept, Takes, Judged, Loading, Keeps, Typed
  <2>3. ~ Enters(r)
    BY <2>1 DEF Enters, Loading
  <2> QED
    BY <1>1, <2>2, <2>3 DEF BeganMoves
<1>3. CASE r \in committed' /\ r \notin committed
  BY <1>3, OnlyCommitting DEF Committing
<1> QED
  BY <1>2, <1>3

-----------------------------------------------------------------------------
(* What the copies show.                                                     *)

\* A copy that shows committed changes goes on doing so.
LEMMA CopyGrows ==
  ASSUME StepFacts, NEW v, CopyOK(v)
  PROVE  CopyFits(v, committed', deploy')
BY DEF StepFacts, CopyOK, CopyFits

\* The JSON form of a row has no hash.
LEMMA CopyEncoded ==
  ASSUME NEW v, CopyOK(v)
  PROVE  CopyOK(Encoded(v)) /\ NoHash(Encoded(v))
BY CopyFacts DEF CopyOK, CopyFits, Encoded, NoHash

\* Nor have the markers, and the activity just created.
LEMMA CopyMarkers ==
  ASSUME committed \subseteq Requests
  PROVE  /\ CopyOK(Miss) /\ NoHash(Miss) /\ CopyOK(Absent) /\ NoHash(Absent)
         /\ \A r \in committed : CopyOK({"row", r})
<1>1. /\ Hashes \cap (Requests \cup {"row", "miss", "none"}) = {}
      /\ Requests \cap {"row", "miss", "none"} = {}
  BY DeployAssumption
<1>2. \A r \in Requests : HashOf[r] \in Hashes
  BY CopyFacts
<1>3. CopyOK(Miss) /\ NoHash(Miss) /\ CopyOK(Absent) /\ NoHash(Absent)
  BY <1>1, <1>2, CopyFacts DEF CopyOK, CopyFits, NoHash, Miss, Absent
<1>4. ASSUME NEW r \in committed
      PROVE  CopyOK({"row", r})
  <2>1. {"row", r} \cap Requests \subseteq {r} /\ \A w \in Requests : HashOf[w] \in {"row", r} => w = r
    BY <1>1, <1>2
  <2>2. "pw" \notin {"row", r}
    BY <1>1, CopyFacts
  <2> QED
    BY <2>1, <2>2 DEF CopyOK, CopyFits
<1> QED
  BY <1>3, <1>4

\* What is cached after a step, or on its way there, came from such a copy.
LEMMA CopySources ==
  ASSUME TypeInv, ChainInv, CopyInv, NEW v \in Sources
  PROVE  CopyOK(v) /\ NoHash(v)
<1>1. CASE v \in CachedCopies
  BY <1>1 DEF CopyInv
<1>2. CASE v \in {Miss, Absent}
  BY <1>2, CopyMarkers DEF TypeInv, RequestTypeOK
<1>3. ASSUME NEW p \in Pods, v = Encoded(flight[p].val)
      PROVE  CopyOK(v) /\ NoHash(v)
  BY <1>3, CopyEncoded DEF CopyInv
<1>4. ASSUME NEW r \in Requests, rq[r].pc = "set", v = Encoded({"row", r})
      PROVE  CopyOK(v) /\ NoHash(v)
  <2>1. r \in committed
    BY <1>4 DEF ChainInv, ChainAt
  <2> QED
    BY <1>4, <2>1, CopyMarkers, CopyEncoded DEF TypeInv, RequestTypeOK
<1> QED
  BY <1>1, <1>2, <1>3, <1>4 DEF Sources

\* A commit leaves a row that shows committed changes only.
LEMMA CopyRow ==
  ASSUME TypeInv, CopyInv, StepFacts
  PROVE  CopyFits(row', committed', deploy')
<1>1. CASE UNCHANGED row
  BY <1>1, CopyGrows DEF CopyInv
<1>2. ASSUME NEW q \in Requests, Committing(q)
      PROVE  CopyFits(row', committed', deploy')
  <2>1. CopyOK(row) /\ CopyOK(rq[q].got) /\ rq[q].pc \in Places(q)
    BY DEF CopyInv, TypeInv, RequestTypeOK
  <2>2. UNCHANGED deploy /\ committed' = committed \cup {q}
    BY <1>2 DEF StepFacts, Committing
  <2>3. /\ HashOf \in [Requests -> Hashes \ {"pw"}] /\ \A x, y \in Requests : HashOf[x] = HashOf[y] => x = y
        /\ Hashes \cap (Requests \cup {"row", "miss", "none"}) = {} /\ "pw" \in Hashes
        /\ Requests \cap {"row", "miss", "none"} = {}
    BY DeployAssumption, CopyFacts
  <2>4. CASE row' = {"row", q} \cup (IF Op(q) = "register" THEN {HashOf[q]} ELSE {})
    <3>1. \A w \in Requests : HashOf[w] \in row' => w = q
      BY <2>3, <2>4
    <3>2. "pw" \notin row' /\ row' \cap Requests \subseteq {q}
      BY <2>3, <2>4
    <3> QED
      BY <2>2, <2>4, <3>1, <3>2 DEF CopyFits
  <2>5. CASE rq[q].pc = "update" /\ row' = Updated(q)
    <3>1. CASE Op(q) = "password"
      <4>1. row' = (row \ Hashes) \cup {HashOf[q]} \cup {q}
        BY <2>5, <3>1 DEF Updated
      <4>2. \A w \in Requests : HashOf[w] \in row' => w = q
        BY <2>3, <4>1
      <4>3. "pw" \notin row' /\ row' \cap Requests \subseteq (row \cap Requests) \cup {q}
        BY <2>3, <4>1
      <4> QED
        BY <2>1, <2>2, <4>1, <4>2, <4>3 DEF CopyFits, CopyOK
    <3>2. CASE Op(q) # "password"
      <4>1. row' = row \cup {q}
        BY <2>5, <3>2 DEF Updated
      <4> QED
        BY <2>1, <2>2, <2>3, <3>2, <4>1 DEF CopyFits, CopyOK, Op
    <3> QED
      BY <3>1, <3>2
  <2>6. CASE rq[q].pc = "save" /\ row' = rq[q].got \cup {q}
    <3>1. Op(q) # "password"
      BY <2>1, <2>6 DEF Places
    <3> QED
      BY <2>1, <2>2, <2>3, <2>6, <3>1 DEF CopyFits, CopyOK, Op
  <2> QED
    BY <1>2, <2>4, <2>5, <2>6 DEF Committing
<1> QED
  BY <1>1, <1>2 DEF StepFacts, RowMoves

\* Reads of the database return the row, or the replica.
LEMMA CopyRead ==
  ASSUME CopyInv, NEW v \in ReadRows
  PROVE  CopyOK(v)
BY DEF CopyInv, ReadRows

\* Every step preserves what the copies show.
LEMMA CopyNext == TypeInv /\ ChainInv /\ CopyInv /\ StepFacts => CopyInv'
<1> SUFFICES ASSUME TypeInv, ChainInv, CopyInv, StepFacts
             PROVE  CopyInv'
  OBVIOUS
<1> DEFINE After(v) == CopyFits(v, committed', deploy')
<1>1. After(row') /\ After(replica')
  <2>1. CopyOK(replica) /\ CopyOK(row) /\ replica' \in {replica, row}
    BY DEF CopyInv, StepFacts
  <2> QED
    BY <2>1, CopyRow, CopyGrows
<1>2. \A v \in Sources : After(v) /\ NoHash(v)
  BY CopySources, CopyGrows
<1>3. ASSUME NEW v \in CachedCopies'
      PROVE  After(v) /\ NoHash(v)
  <2>1. v \in Sources
    BY <1>3 DEF CachedCopies, StepFacts, CopiesMove
  <2> QED
    BY <1>2, <2>1
<1>4. /\ \A p \in Pods : CopyOK(l1[p]) /\ NoHash(l1[p])
      /\ CopyOK(l2) /\ NoHash(l2) /\ CopyOK(Absent) /\ NoHash(Absent)
  BY CopyMarkers DEF CopyInv, CachedCopies, TypeInv, RequestTypeOK
<1>5. ASSUME NEW p \in Pods
      PROVE  After(flight'[p].val) /\ (~ flight'[p].fresh => NoHash(flight'[p].val))
  <2>1. FlightMoves(p) /\ CopyOK(flight[p].val) /\ (~ flight[p].fresh => NoHash(flight[p].val))
    BY DEF StepFacts, CopyInv
  <2>2. \/ flight'[p].val = flight[p].val /\ flight'[p].fresh = flight[p].fresh
        \/ flight'[p].val = Absent
        \/ flight'[p].val = l1[p] \/ flight'[p].val = l2
        \/ flight'[p].val \in ReadRows /\ flight'[p].fresh
    BY <2>1 DEF FlightMoves, FlightSame
  <2>3. CopyOK(flight'[p].val) /\ (~ flight'[p].fresh => NoHash(flight'[p].val))
    BY <1>4, <2>1, <2>2, CopyRead
  <2> QED
    BY <2>3, CopyGrows
<1>6. ASSUME NEW r \in Requests
      PROVE  After(rq'[r].got) /\ (~ rq'[r].fresh => NoHash(rq'[r].got))
  <2>1. /\ Moves(r) /\ CopyOK(rq[r].got) /\ (~ rq[r].fresh => NoHash(rq[r].got)) /\ Pod(r) \in Pods
        /\ CopyOK(flight[Pod(r)].val) /\ (~ flight[Pod(r)].fresh => NoHash(flight[Pod(r)].val))
        /\ CopyOK(row) /\ CopyOK(Encoded(row)) /\ NoHash(Encoded(row))
    BY DeployFacts, CopyEncoded DEF StepFacts, CopyInv, TypeInv, RequestTypeOK
  <2>2. CopyOK(rq'[r].got) /\ (~ rq'[r].fresh => NoHash(rq'[r].got))
    <3>1. CASE Takes(r)
      BY <1>4, <2>1, <3>1, CopyRead DEF Takes, Took
    <3>2. CASE rq'[r].got = rq[r].got /\ rq'[r].fresh = rq[r].fresh
      BY <2>1, <3>2
    <3> QED
      BY <2>1, <3>1, <3>2 DEF Moves, Enters, Joins, Walks, Kept, Judged, Keeps
  <2> QED
    BY <2>2, CopyGrows
<1> QED
  BY <1>1, <1>3, <1>5, <1>6 DEF CopyInv, CopyOK, NoHash, Hashes

\* At the start there are no copies.
LEMMA CopyStart == GatewayInit => CopyInv
<1> SUFFICES ASSUME GatewayInit
             PROVE  CopyInv
  OBVIOUS
<1>1. /\ deploy \in Deployments /\ row = deploy.row /\ replica = deploy.row /\ CacheInit /\ AccountInit
  BY DEF GatewayInit
<1>2. CopyOK(row)
  <2>1. row \in {Absent, {"row", "pw"}, {"row"}}
    BY <1>1, DeployAssumption
  <2>2. /\ Hashes \cap (Requests \cup {"row", "miss", "none"}) = {} /\ "pw" \in Hashes
        /\ Requests \cap {"row", "miss", "none"} = {} /\ HashOf \in [Requests -> Hashes \ {"pw"}]
    BY DeployAssumption, CopyFacts
  <2>3. row \cap Requests = {} /\ \A w \in Requests : HashOf[w] \notin row
    BY <2>1, <2>2 DEF Absent
  <2> QED
    BY <1>1, <2>3 DEF CopyOK, CopyFits
<1>3. \A v \in CachedCopies : v = Miss
  BY <1>1 DEF CachedCopies, CacheInit
<1>4. \A p \in Pods : flight[p].val = Absent
  BY <1>1 DEF CacheInit, NoFlight
<1>5. \A r \in Requests : rq[r].got = Miss
  BY <1>1 DEF AccountInit
<1> QED
  BY <1>1, <1>2, <1>3, <1>4, <1>5, CopyMarkers DEF CopyInv, AccountInit

-----------------------------------------------------------------------------
(* The current password and what was undone.                                 *)

\* What is undone stays undone.
LEMMA UndoneStays ==
  ASSUME StepFacts
  PROVE  \A x : UndoneBy(x, lost) => UndoneBy(x, lost')
BY DEF StepFacts, UndoneBy

\* A request that commits has not done so before, and what its row leaves out is undone by it.
LEMMA CommitUndoes ==
  ASSUME TypeInv, ChainInv, StepFacts, NEW q \in Requests, Committing(q)
  PROVE  /\ q \notin committed /\ UNCHANGED deploy /\ committed' = committed \cup {q}
         /\ \A x \in row : x \in row' \/ <<x, q>> \in lost'
         /\ \A x : \A b \in Requests : <<x, b>> \in lost' =>
               <<x, b>> \in lost \/ (b = q /\ x \in row /\ x \notin row')
         /\ q \in row'
<1>1. ChainAt(q) /\ rq[q].pc \in {"insert", "update", "save"}
  BY DEF ChainInv, Committing
<1>2. q \notin committed
  BY <1>1 DEF ChainAt
<1>3. committed' = committed \cup {q} /\ lost' = lost \cup ((row \ row') \X (committed' \ committed))
  BY DEF Committing, StepFacts
<1>4. committed' \ committed = {q}
  BY <1>2, <1>3
<1>5. q \in row'
  BY DEF Committing, Updated
<1> QED
  BY <1>2, <1>3, <1>4, <1>5 DEF StepFacts

\* A password that is set is new, and in the row.
LEMMA NewSecret ==
  ASSUME TypeInv, ChainInv, SecretInv, CopyInv, StepFacts, secret' # secret
  PROVE  \E q \in Requests :
            /\ Committing(q) /\ q \notin committed /\ q \in committed' /\ secret' = HashOf[q]
            /\ HashOf[q] \in row' /\ HashOf[q] \notin Known
            /\ deploy.key # "activity" /\ (row # Absent => Op(q) = "password")
<1>1. PICK q \in Requests : Committing(q)
  BY DEF StepFacts, RowMoves
<1>2. Op(q) \in {"register", "password"} /\ secret' = HashOf[q]
  BY <1>1 DEF Committing
<1>3. q \notin committed /\ q \in committed' /\ rq[q].pc \in Places(q)
  BY <1>1, CommitUndoes DEF TypeInv, RequestTypeOK
<1>4. /\ HashOf \in [Requests -> Hashes \ {"pw"}] /\ \A x, y \in Requests : HashOf[x] = HashOf[y] => x = y
      /\ "none" \notin Hashes /\ committed \subseteq Requests
  BY DeployAssumption, CopyFacts DEF TypeInv, RequestTypeOK
<1>5. HashOf[q] \notin Known
  BY <1>3, <1>4 DEF Known
<1>6. CASE Op(q) = "register"
  <2>1. rq[q].pc = "insert"
    BY <1>1, <1>3, <1>6 DEF Committing, Places
  <2> QED
    BY <1>1, <1>2, <1>3, <1>5, <1>6, <2>1, DeployFacts DEF Committing, TypeInv, RequestTypeOK
<1>7. CASE Op(q) = "password"
  <2>1. rq[q].pc = "update"
    BY <1>1, <1>3, <1>7 DEF Committing, Places
  <2>2. HashOf[q] \in row'
    BY <1>1, <1>7, <2>1 DEF Committing, Updated
  <2> QED
    BY <1>1, <1>2, <1>3, <1>5, <1>7, <2>2, DeployFacts DEF TypeInv, RequestTypeOK
<1> QED
  BY <1>2, <1>6, <1>7

\* A recent copy stays one.
LEMMA RecentStays ==
  ASSUME TypeInv, ChainInv, SecretInv, CopyInv, StepFacts, NEW v, CopyOK(v), Recent(v)
  PROVE  RecentFor(v, secret', lost')
<1>1. CASE secret' = secret
  BY <1>1, UndoneStays DEF Recent, RecentFor
<1>2. CASE secret' # secret
  <2>1. PICK q \in Requests : q \notin committed /\ secret' = HashOf[q]
    BY <1>2, NewSecret
  <2>2. q \notin v
    BY <2>1 DEF CopyOK, CopyFits
  <2> QED
    BY <2>1, <2>2 DEF RecentFor
<1> QED
  BY <1>1, <1>2

\* What the database returns is recent: only activities are read from the replica.
LEMMA RecentRead ==
  ASSUME SecretInv, NEW v \in ReadRows \cup {row}
  PROVE  Recent(v)
<1>1. CASE HasReplica
  BY <1>1 DEF HasReplica, SecretInv, Recent, RecentFor
<1>2. CASE ~ HasReplica
  <2>1. v = row
    BY <1>2 DEF ReadRows
  <2> QED
    BY <2>1 DEF SecretInv, Recent, RecentFor, Undone, UndoneBy
<1> QED
  BY <1>1, <1>2

\* Every step preserves what is known of the current password.
LEMMA SecretNext == TypeInv /\ ChainInv /\ CopyInv /\ SecretInv /\ StepFacts => SecretInv'
<1> SUFFICES ASSUME TypeInv, ChainInv, CopyInv, SecretInv, StepFacts
             PROVE  SecretInv'
  OBVIOUS
<1>1. /\ UNCHANGED deploy /\ committed \subseteq committed' /\ Known \subseteq Known'
      /\ committed \subseteq Requests
  BY DEF StepFacts, Known, TypeInv, RequestTypeOK
<1>2. /\ HashOf \in [Requests -> Hashes \ {"pw"}] /\ \A x, y \in Requests : HashOf[x] = HashOf[y] => x = y
      /\ "none" \notin Hashes
  BY DeployAssumption, CopyFacts
<1>3. \/ UNCHANGED <<row, committed, secret, lost>>
      \/ \E q \in Requests : Committing(q)
  BY NothingLost DEF StepFacts, RowMoves
<1>4. secret' \in Known'
  <2>1. CASE secret' = secret
    BY <1>1, <2>1 DEF SecretInv
  <2>2. CASE secret' # secret
    BY <2>2, NewSecret DEF Known
  <2> QED
    BY <2>1, <2>2
<1>5. secret' # "pw" \/ secret' = secret
  BY <1>2, NewSecret
<1>6. ASSUME NEW r \in Requests
      PROVE  rq'[r].typed \in Known' /\ (rq'[r].old => rq'[r].typed = "pw" /\ secret' # "pw")
  <2>1. CASE Typed(r)
    BY <1>1, <1>5, <2>1 DEF SecretInv, Typed
  <2>2. CASE Enters(r)
    <3>1. rq'[r].typed \in Known
      BY <2>2 DEF Enters, SecretInv, Known
    <3> QED
      BY <1>1, <1>5, <2>2, <3>1 DEF Enters
  <2> QED
    BY <2>1, <2>2 DEF StepFacts, Moves, Typed, Joins, Walks, Kept, Takes, Took, Judged, Keeps
<1>7. secret' = "none" \/ secret' \in row' \/ UndoneBy(secret', lost')
  <2>1. CASE secret' # secret
    BY <2>1, NewSecret
  <2>2. CASE secret' = secret
    <3>1. secret = "none" \/ secret \in row \/ UndoneBy(secret, lost)
      BY DEF SecretInv, Undone, UndoneBy
    <3> QED
      BY <1>3, <2>2, <3>1, UndoneStays, CommitUndoes DEF UndoneBy
  <2> QED
    BY <2>1, <2>2
<1>8. ASSUME NEW w \in committed'
      PROVE  w \in row' \/ UndoneBy(w, lost')
  <2>1. CASE w \in committed
    <3>1. w \in row \/ UndoneBy(w, lost)
      BY <2>1 DEF SecretInv, Undone, UndoneBy
    <3> QED
      BY <1>3, <3>1, UndoneStays, CommitUndoes DEF UndoneBy
  <2>2. CASE w \notin committed
    <3>1. PICK q \in Requests : Committing(q)
      BY <1>3, <2>2
    <3>2. w = q
      BY <2>2, <3>1, CommitUndoes
    <3> QED
      BY <3>1, <3>2, CommitUndoes
  <2> QED
    BY <2>1, <2>2
<1>9. deploy'.key = "activity" => secret' = "none"
  <2>1. CASE secret' # secret
    BY <1>1, <2>1, NewSecret
  <2> QED
    BY <1>1, <2>1 DEF SecretInv
<1>10. ASSUME "pw" \in deploy.row
       PROVE  /\ row' # Absent /\ secret' # "none"
              /\ \A w \in Requests : secret' = HashOf[w] => Op(w) = "password"
  <2>1. row # Absent /\ secret # "none" /\ \A w \in Requests : secret = HashOf[w] => Op(w) = "password"
    BY <1>10 DEF SecretInv
  <2>2. row' # Absent
    BY <1>3, <2>1, CommitUndoes DEF Absent
  <2>3. CASE secret' # secret
    BY <1>2, <2>1, <2>2, <2>3, NewSecret
  <2> QED
    BY <2>1, <2>2, <2>3
<1>11. ASSUME NEW x, NEW b \in Requests, <<x, b>> \in lost'
       PROVE  b \in committed'
  BY <1>1, <1>3, <1>11, CommitUndoes DEF SecretInv
<1>12. ASSUME NEW w \in Requests, UndoneBy(HashOf[w], lost')
       PROVE  w \in committed'
  <2>1. CASE UndoneBy(HashOf[w], lost)
    BY <1>1, <2>1 DEF SecretInv, Undone, UndoneBy
  <2>2. CASE ~ UndoneBy(HashOf[w], lost)
    <3>1. HashOf[w] \in row
      BY <1>3, <1>12, <2>2, CommitUndoes DEF UndoneBy
    <3>2. w \in committed
      BY <3>1 DEF CopyInv, CopyOK, CopyFits
    <3> QED
      BY <1>1, <3>2
  <2> QED
    BY <2>1, <2>2
<1>13. CopyOK(row) /\ CopyOK(replica)
  BY DEF CopyInv
<1>14. ASSUME NEW p \in Pods
       PROVE  /\ flight'[p].fresh => flight'[p].pc \notin {"check", "lock", "spin", "load"}
              /\ flight'[p].fresh => RecentFor(flight'[p].val, secret', lost')
  <2>1. /\ FlightMoves(p) /\ CopyOK(flight[p].val)
        /\ flight[p].fresh => flight[p].pc \notin {"check", "lock", "spin", "load"}
        /\ flight[p].fresh => Recent(flight[p].val)
    BY DEF StepFacts, CopyInv, SecretInv
  <2>2. flight'[p].fresh => flight'[p].pc \notin {"check", "lock", "spin", "load"}
    BY <2>1 DEF FlightMoves, FlightSame
  <2>3. ASSUME flight'[p].fresh
        PROVE  CopyOK(flight'[p].val) /\ Recent(flight'[p].val)
    <3>1. \/ flight'[p].val = flight[p].val /\ flight[p].fresh
          \/ flight'[p].val \in ReadRows
      BY <2>1, <2>3 DEF FlightMoves, FlightSame
    <3> QED
      BY <2>1, <3>1, RecentRead, CopyRead
  <2> QED
    BY <2>2, <2>3, RecentStays
<1>15. ASSUME NEW r \in Requests, rq'[r].fresh
       PROVE  RecentFor(rq'[r].got, secret', lost')
  <2>1. /\ Moves(r) /\ CopyOK(rq[r].got) /\ (rq[r].fresh => Recent(rq[r].got)) /\ Pod(r) \in Pods
        /\ CopyOK(flight[Pod(r)].val) /\ (flight[Pod(r)].fresh => Recent(flight[Pod(r)].val))
    BY DeployFacts DEF StepFacts, CopyInv, SecretInv, TypeInv, RequestTypeOK
  <2>2. CopyOK(rq'[r].got) /\ Recent(rq'[r].got)
    <3>1. CASE Takes(r)
      <4>1. \/ rq'[r].got \in ReadRows \cup {row}
            \/ rq'[r].got = flight[Pod(r)].val /\ flight[Pod(r)].fresh
        BY <1>15, <3>1 DEF Takes, Took
      <4> QED
        BY <1>13, <2>1, <4>1, RecentRead, CopyRead
    <3>2. CASE rq'[r].got = rq[r].got /\ rq'[r].fresh = rq[r].fresh
      BY <1>15, <2>1, <3>2
    <3> QED
      BY <2>1, <3>1, <3>2 DEF Moves, Enters, Joins, Walks, Kept, Judged, Keeps
  <2> QED
    BY <2>2, RecentStays
<1> QED
  BY <1>1, <1>4, <1>6, <1>7, <1>8, <1>9, <1>10, <1>11, <1>12, <1>14, <1>15
  DEF SecretInv, Undone, UndoneBy, Recent, Op

\* At the start the password is the first, if there is a user.
LEMMA SecretStart == GatewayInit => SecretInv
<1> SUFFICES ASSUME GatewayInit
             PROVE  SecretInv
  OBVIOUS
<1>1. /\ deploy \in Deployments /\ row = deploy.row /\ CacheInit
      /\ committed = {} /\ lost = {} /\ secret = (IF "pw" \in row THEN "pw" ELSE "none")
      /\ \A r \in Requests : rq[r].typed = "none" /\ ~ rq[r].old /\ ~ rq[r].fresh
  BY DEF GatewayInit, AccountInit
<1>2. \A p \in Pods : ~ flight[p].fresh
  BY <1>1 DEF CacheInit, NoFlight
<1>3. deploy.key = "activity" => "pw" \notin row
  BY <1>1, DeployAssumption DEF Absent
<1>4. \A w \in Requests : HashOf[w] # "pw"
  BY CopyFacts
<1> QED
  BY <1>1, <1>2, <1>3, <1>4 DEF SecretInv, Known, Undone, Absent

-----------------------------------------------------------------------------
(* Where a committed change has to be.                                       *)

\* A request that has committed no longer reads or writes the row, and the change does not end to
\* rely on its deletions.
LEMMA CommittedStays ==
  ASSUME TypeInv, ChainInv, StepFacts, NEW w \in committed
  PROVE  /\ w \in Requests /\ w \in committed'
         /\ rq[w].pc \notin Loading \cup {"insert", "acquire", "old", "update", "save"}
         /\ (DeletesKeys(w)' => DeletesKeys(w)) /\ Pod(w)' = Pod(w)
         /\ rq[w].pc = "done" => rq'[w].pc = "done" /\ DeletesKeys(w)' = DeletesKeys(w)
<1>1. /\ w \in Requests /\ ChainAt(w) /\ Moves(w) /\ UNCHANGED deploy /\ committed \subseteq committed'
      /\ Keeps(w)
  BY GotStays DEF TypeInv, ChainInv, RequestTypeOK, StepFacts
<1>2. rq[w].pc \notin Loading \cup {"insert", "acquire", "old", "update", "save"}
  BY <1>1 DEF ChainAt
<1>3. rq'[w].got = rq[w].got /\ (rq[w].res = "kept" => rq'[w].res = "kept")
  <2>1. rq[w].res # "none" => rq[w].pc \in {"leave", "done"}
    BY <1>1 DEF ChainAt
  <2> QED
    BY <1>1, <2>1 DEF Moves, Enters, Joins, Walks, Kept, Takes, Took, Judged, Keeps
<1>4. rq[w].pc = "done" => rq'[w] = rq[w]
  BY <1>1 DEF Moves, Enters, Joins, Walks, Kept, Takes, Judged
<1> QED
  BY <1>1, <1>2, <1>3, <1>4 DEF DeletesKeys, Invalidates, Op, Pod

\* Its deletions, in their order.
LEMMA CommittedDeletes ==
  ASSUME TypeInv, ChainInv, StepFacts, NEW w \in committed
  PROVE  /\ Deleted1(w)' => Deleted1(w) \/ l1'[Pod(w)] = Miss
         /\ Deleted2(w)' => Deleted2(w) \/ (rq[w].pc = "del2" /\ DeleteL2)
<1>1. w \in Requests /\ Moves(w) /\ rq[w].pc \in Places(w)
  BY CommittedStays DEF StepFacts, TypeInv, RequestTypeOK
<1>2. /\ rq[w].pc \notin Loading \cup {"insert", "acquire", "old", "update", "save"}
      /\ DeletesKeys(w)' => DeletesKeys(w)
  BY CommittedStays
<1>3. DeletesKeys(w) => rq[w].pc \in {"lookup", "del1", "del2", "leave", "done"}
  <2>1. DeletesKeys(w) => Op(w) \in {"password", "bind", "profile", "edit", "points"}
    BY DEF DeletesKeys, Invalidates
  <2> QED
    BY <1>1, <1>2, <2>1 DEF Places, Loading
<1>4. CASE rq'[w] = rq[w]
  BY <1>2, <1>4 DEF Deleted1, Deleted2
<1>5. CASE Walks(w)
  BY <1>2, <1>3, <1>5 DEF Walks, Deleted1, Deleted2
<1>6. CASE Kept(w)
  BY <1>6 DEF Kept, Deleted1, Deleted2, DeletesKeys
<1>7. CASE Enters(w) \/ Joins(w) \/ Takes(w) \/ Judged(w)
  BY <1>2, <1>3, <1>7 DEF Enters, Joins, Takes, Judged, Loading, Deleted1, Deleted2
<1> QED
  BY <1>1, <1>4, <1>5, <1>6, <1>7 DEF Moves

\* A change that is not excused is in every copy that lands behind its deletions.
LEMMA CopiesThatLand ==
  ASSUME StepFacts, NEW w \in committed, w \notin raced', w \in row
  PROVE  /\ Pod(w) \in Pods /\ Deleted1(w) =>
              l1'[Pod(w)] = l1[Pod(w)] \/ l1'[Pod(w)] = Miss \/ w \in l1'[Pod(w)]
         /\ Deleted2(w) => l2' = l2 \/ l2' = Miss \/ w \in l2'
         /\ flight[Pod(w)].pc = "load" /\ flight'[Pod(w)].pc = "fill2" => w \in flight'[Pod(w)].val
         /\ \A r \in Requests :
              rq[r].pc = "direct" /\ Pod(r) = Pod(w) => rq'[r].got = rq[r].got \/ w \in rq'[r].got
<1>1. CASE raced' = raced \cup {x \in committed : OldCopyLands(x)}
  <2>1. ~ OldCopyLands(w)
    BY <1>1
  <2> QED
    BY <2>1 DEF OldCopyLands, Deleted1, Deleted2
<1>2. CASE /\ UNCHANGED <<raced, flight>>
           /\ \A r \in Requests : rq'[r].got = rq[r].got
           /\ \A p \in Pods : l1'[p] \in {l1[p], Miss}
           /\ l2' \in {l2, Miss}
  BY <1>2
<1> QED
  BY <1>1, <1>2 DEF StepFacts, CachesMove

\* An excuse, once there, stays.
LEMMA ExcusedStays == StepFacts => \A w : Excused(w) => Excused(w)'
BY UndoneStays DEF StepFacts, Excused, Undone, UndoneBy

\* A change just committed has deleted nothing and nobody relies on it yet.
LEMMA SeenNew ==
  ASSUME TypeInv, ChainInv, StepFacts, SeenInv, NEW w \in committed', w \notin committed
  PROVE  Seen(w)'
<1>1. /\ Committing(w) /\ UNCHANGED <<began, deploy>> /\ ChainAt(w)
      /\ w \in Requests /\ rq[w].pc \in Places(w)
  BY OnlyCommitting DEF TypeInv, RequestTypeOK, StepFacts, ChainInv, RowMoves, Committing
<1>2. w \in row'
  BY <1>1, CommitUndoes
<1>3. \A r \in Requests : w \notin began'[r]
  BY <1>1 DEF SeenInv
<1>4. ~ Deleted1(w)' /\ ~ Deleted2(w)'
  <2>1. Invalidates(w)' = Invalidates(w) /\ Op(w)' = Op(w)
    BY <1>1 DEF Invalidates, Op
  <2>2. CASE rq'[w].res = "kept"
    BY <2>2 DEF Deleted1, Deleted2, DeletesKeys
  <2>3. CASE rq[w].pc = "insert"
    <3>1. Op(w) \in {"register", "bind", "publish"}
      BY <1>1, <2>3 DEF Places
    <3>2. Op(w) = "bind" => rq'[w].got = Absent
      BY <1>1, <2>3 DEF Committing, ChainAt, Keeps
    <3> QED
      BY <2>1, <3>1, <3>2 DEF Deleted1, Deleted2, DeletesKeys, Invalidates
  <2>4. CASE rq'[w].pc = AfterWrite(w)
    BY <2>1, <2>4 DEF AfterWrite, Deleted1, Deleted2, DeletesKeys
  <2> QED
    BY <1>1, <2>2, <2>3, <2>4 DEF Committing
<1> QED
  BY <1>2, <1>3, <1>4 DEF Seen

\* A change that was in all copies it has to be in stays there.
LEMMA SeenOld ==
  ASSUME TypeInv, ChainInv, StepFacts, StepTypes, SeenInv, NEW w \in committed, ~ Excused(w)'
  PROVE  Seen(w)'
<1>1. /\ UNCHANGED deploy /\ w \in Requests /\ w \in committed' /\ Pod(w) \in Pods
      /\ rq \in [Requests -> Progresses] /\ began \in [Requests -> SUBSET Requests]
  BY CommittedStays, DeployFacts DEF TypeInv, RequestTypeOK, StepFacts
<1>2. Seen(w) /\ w \notin raced' /\ "redis" \notin harm' /\ ~ UndoneBy(w, lost')
  BY ExcusedStays DEF SeenInv, Excused, Undone, UndoneBy
<1>3. \A q : Pod(q)' = Pod(q)
  BY <1>1 DEF Pod
<1>4. w \in row'
  <2>1. CASE UNCHANGED row
    BY <1>2, <2>1 DEF Seen
  <2>2. ASSUME NEW q \in Requests, Committing(q)
        PROVE  w \in row'
    BY <1>2, <2>2, CommitUndoes DEF Seen, UndoneBy
  <2> QED
    BY <2>1, <2>2 DEF StepFacts, RowMoves
<1>5. Deleted1(w)' => l1'[Pod(w)] = Miss \/ w \in l1'[Pod(w)]
  BY <1>1, <1>2, CommittedDeletes, CopiesThatLand DEF Seen
<1>6. Deleted2(w)' => l2' = Miss \/ w \in l2'
  <2>1. CASE Deleted2(w)
    BY <1>1, <1>2, <2>1, CopiesThatLand DEF Seen
  <2>2. CASE DeleteL2
    <3>1. redis /\ (~ deploy.l2 => l2 = Miss)
      BY <1>2 DEF SeenInv, StepFacts
    <3> QED
      BY <2>2, <3>1 DEF DeleteL2, HasL2
  <2> QED
    BY <1>1, <2>1, <2>2, CommittedDeletes
<1>7. ASSUME NEW r \in Requests, w \in began'[r], ~ rq'[r].shared
      PROVE  /\ rq'[r].pc = "wait" /\ flight'[Pod(r)].pc \in Filled
                => w \in flight'[Pod(r)].val \/ ~ flight'[Pod(r)].ok
             /\ rq'[r].got # Miss => w \in rq'[r].got
  <2>1. Moves(r) /\ ChainAt(r) /\ Pod(r) \in Pods /\ FlightMoves(Pod(r))
    BY <1>1, DeployFacts DEF StepFacts, ChainInv, TypeInv, RequestTypeOK
  <2>2. CASE w \notin began[r]
    <3>1. rq[r].pc = "new" /\ rq'[r].pc # "wait" /\ rq'[r].got = rq[r].got
      BY <1>1, <1>7, <2>2 DEF StepFacts, BeganMoves, Enters
    <3> QED
      BY <2>1, <3>1 DEF ChainAt
  <2>3. CASE w \in began[r]
    <3>1. rq[w].pc = "done" /\ Pod(w) = Pod(r) /\ DeletesKeys(w)
      BY <2>3 DEF SeenInv
    <3>2. (l1[Pod(r)] = Miss \/ w \in l1[Pod(r)]) /\ (l2 = Miss \/ w \in l2) /\ w \in row
      BY <1>2, <3>1 DEF Seen, Deleted1, Deleted2
    <3>3. ~ rq[r].shared =>
            /\ rq[r].pc = "wait" /\ flight[Pod(r)].pc \in Filled
               => w \in flight[Pod(r)].val \/ ~ flight[Pod(r)].ok
            /\ rq[r].got # Miss => w \in rq[r].got
      BY <1>2, <2>3 DEF Seen
    <3>4. ~ flight[Pod(r)].ok => flight[Pod(r)].pc = "end"
      BY <2>1 DEF SeenInv
    <3>5. \/ Joins(r)
          \/ rq'[r].shared = rq[r].shared /\ (rq'[r].pc = "wait" => rq[r].pc = "wait")
      BY <2>1 DEF Moves, Enters, Walks, Keeps, Kept, Takes, Took, Judged, AfterWrite
    <3>6. ASSUME rq'[r].pc = "wait", flight'[Pod(r)].pc \in Filled
          PROVE  w \in flight'[Pod(r)].val \/ ~ flight'[Pod(r)].ok
      <4>1. flight[Pod(r)].pc \in Filled => w \in flight[Pod(r)].val \/ ~ flight[Pod(r)].ok
        BY <1>7, <3>3, <3>5, <3>6 DEF Joins
      <4>2. flight[Pod(r)].pc = "load" /\ flight'[Pod(r)].pc = "fill2" => w \in flight'[Pod(r)].val
        BY <1>2, <3>1, <3>2, CopiesThatLand
      <4> QED
        BY <2>1, <3>2, <3>4, <3>6, <4>1, <4>2 DEF FlightMoves, FlightSame, Filled, L2Hit
    <3>7. ASSUME rq'[r].got # Miss
          PROVE  w \in rq'[r].got
      <4>1. CASE Takes(r)
        <5>1. ~ rq[r].shared
          BY <1>7, <4>1 DEF Takes, Took
        <5>2. CASE rq[r].pc = "direct"
          <6>1. rq'[r].got = rq[r].got \/ w \in rq'[r].got
            BY <1>2, <3>1, <3>2, <5>2, CopiesThatLand
          <6> QED
            BY <3>3, <3>7, <5>1, <6>1
        <5>3. CASE rq[r].pc = "other"
          <6>1. w \in Encoded(row)
            BY <1>1, <3>2, CopyFacts, DeployAssumption DEF Encoded
          <6> QED
            BY <3>2, <4>1, <5>3, <6>1 DEF Takes, Took
        <5> QED
          BY <3>2, <3>3, <4>1, <5>1, <5>2, <5>3 DEF Takes, Took, L2Hit, Filled
      <4>2. CASE rq'[r].got = rq[r].got /\ rq'[r].shared = rq[r].shared
        BY <1>7, <3>3, <3>7, <4>2
      <4>3. CASE Joins(r)
        BY <2>1, <3>7, <4>3 DEF Joins, ChainAt
      <4> QED
        BY <2>1, <4>1, <4>2, <4>3 DEF Moves, Enters, Walks, Kept, Judged, Keeps
    <3> QED
      BY <3>6, <3>7
  <2> QED
    BY <2>2, <2>3
<1> QED
  BY <1>3, <1>4, <1>5, <1>6, <1>7 DEF Seen

\* Every step preserves where a committed change has to be.
LEMMA SeenNext == TypeInv /\ ChainInv /\ SeenInv /\ StepFacts /\ StepTypes => SeenInv'
<1> SUFFICES ASSUME TypeInv, ChainInv, StepFacts, StepTypes, SeenInv
             PROVE  SeenInv'
  OBVIOUS
<1>1. /\ UNCHANGED deploy /\ CachesMove /\ harm \subseteq harm' /\ BeganMoves
      /\ began \in [Requests -> SUBSET Requests] /\ committed \subseteq Requests
  BY DEF TypeInv, RequestTypeOK, StepFacts
<1>2. ~ redis' => "redis" \in harm'
  BY <1>1 DEF CachesMove, SeenInv
<1>3. ~ deploy'.l2 => l2' = Miss
  BY <1>1 DEF CachesMove, SeenInv
<1>4. ASSUME NEW p \in Pods
      PROVE  ~ flight'[p].ok => flight'[p].pc = "end"
  <2>1. FlightMoves(p) /\ (~ flight[p].ok => flight[p].pc = "end")
    BY DEF StepFacts, SeenInv
  <2> QED
    BY <2>1 DEF FlightMoves, FlightSame
<1>5. ASSUME NEW r \in Requests, NEW w \in began'[r]
      PROVE  w \in committed' /\ rq'[w].pc = "done" /\ Pod(w)' = Pod(r)' /\ DeletesKeys(w)'
  <2>1. w \in committed /\ rq[w].pc = "done" /\ Pod(w) = Pod(r) /\ DeletesKeys(w)
    <3>1. CASE w \in began[r]
      BY <3>1 DEF SeenInv
    <3>2. CASE w \notin began[r]
      <4>1. w \in Finished(Pod(r))
        BY <1>1, <1>5, <3>2 DEF BeganMoves
      <4> QED
        BY <4>1 DEF Finished
    <3> QED
      BY <3>1, <3>2
  <2>2. Pod(r)' = Pod(r)
    BY <1>1 DEF Pod
  <2> QED
    BY <1>1, <2>1, <2>2, CommittedStays
<1>6. ASSUME NEW w \in committed', ~ Excused(w)'
      PROVE  Seen(w)'
  BY <1>6, SeenOld, SeenNew
<1> QED
  BY <1>2, <1>3, <1>4, <1>5, <1>6 DEF SeenInv

\* Nothing is committed and nothing cached at the start.
LEMMA SeenStart == GatewayInit => SeenInv
<1> SUFFICES ASSUME GatewayInit
             PROVE  SeenInv
  OBVIOUS
<1>1. CacheInit /\ AccountInit
  BY DEF GatewayInit
<1>2. \A p \in Pods : flight[p].ok
  BY <1>1 DEF CacheInit, NoFlight
<1>3. \A r \in Requests : began[r] = {}
  BY <1>1 DEF AccountInit
<1> QED
  BY <1>1, <1>2, <1>3 DEF SeenInv, CacheInit, AccountInit

-----------------------------------------------------------------------------
(* Who undoes a change.                                                      *)

\* What a commit takes out of the row, which is no change of a single statement.
LEMMA LostBySave ==
  ASSUME TypeInv, ChainInv, StepFacts, NEW b \in Requests, Committing(b), NEW x \in row, x \notin row',
         x \in Requests \/ x = secret'
  PROVE  /\ rq[b].pc = "save" /\ row' = rq[b].got \cup {b} /\ Overwrites(b) /\ b # x
         /\ x \notin rq[b].got /\ UNCHANGED began
<1>1. rq[b].pc \in Places(b) /\ b \in row' /\ row \in Rows
  BY CommitUndoes DEF TypeInv, RequestTypeOK, CacheTypeOK
<1>2. row # Absent
  BY DEF Absent
<1>3. ASSUME rq[b].pc = "update" /\ row' = Updated(b)
      PROVE  FALSE
  <2>1. CASE Op(b) = "password"
    <3>1. secret' = HashOf[b] /\ row' = (row \ Hashes) \cup {HashOf[b]} \cup {b}
      BY <1>3, <2>1 DEF Committing, Updated
    <3> QED
      BY <3>1, CopyFacts
  <2>2. CASE Op(b) # "password"
    BY <1>3, <2>2 DEF Updated
  <2> QED
    BY <2>1, <2>2
<1>4. rq[b].pc = "save" /\ row' = rq[b].got \cup {b}
  BY <1>2, <1>3 DEF Committing
<1>5. Op(b) \in {"bind", "edit", "profile"}
  BY <1>1, <1>4 DEF Places
<1>6. UNCHANGED began
  BY CommitUndoes, OnlyCommitting
<1> QED
  BY <1>1, <1>4, <1>5, <1>6 DEF Overwrites

\* Every step preserves that changes are undone only by stale saves.
LEMMA UndoneNext ==
  ASSUME TypeInv, ChainInv, CopyInv, SecretInv, SeenInv, StepFacts, UndoneOnlyByStaleSaves
  PROVE  UndoneOnlyByStaleSaves'
<1>1. /\ UNCHANGED deploy /\ raced \subseteq raced' /\ harm \subseteq harm' /\ lost \subseteq lost'
      /\ row \in Rows
  BY DEF StepFacts, TypeInv, CacheTypeOK
<1>2. \/ UNCHANGED <<row, committed, secret, lost>>
      \/ \E q \in Requests : Committing(q)
  BY NothingLost DEF StepFacts, RowMoves
<1>3. ASSUME NEW x, NEW b \in Requests, <<x, b>> \in lost
      PROVE  Keeps(b) /\ began'[b] = began[b] /\ Overwrites(b)' = Overwrites(b)
  <2>1. b \in committed'
    BY <1>3 DEF SecretInv, StepFacts
  <2> QED
    BY <1>1, <2>1, GotStays DEF Overwrites, Op
<1>4. ASSUME NEW w \in Requests, UndoneBy(w, lost')
      PROVE  \E b \in Requests :
                /\ <<w, b>> \in lost' /\ Overwrites(b)' /\ w \notin rq'[b].got
                /\ w \in began'[b] => w \in raced' \/ rq'[b].shared \/ "redis" \in harm'
  <2>1. CASE Undone(w)
    <3>1. PICK b \in Requests :
             /\ <<w, b>> \in lost /\ Overwrites(b) /\ w \notin rq[b].got
             /\ w \in began[b] => w \in raced \/ rq[b].shared \/ "redis" \in harm
      BY <2>1 DEF UndoneOnlyByStaleSaves
    <3> QED
      BY <1>1, <1>3, <3>1 DEF Keeps
  <2>2. CASE ~ Undone(w)
    <3>1. PICK b \in Requests : <<w, b>> \in lost'
      BY <1>4 DEF UndoneBy
    <3>2. Committing(b) /\ w \in row /\ w \notin row'
      BY <1>2, <2>2, <3>1, CommitUndoes DEF Undone
    <3>3. Overwrites(b) /\ w \notin rq[b].got /\ UNCHANGED began /\ Keeps(b) /\ rq[b].pc = "save"
      BY <3>2, LostBySave DEF Committing
    <3>4. Overwrites(b)'
      BY <1>1, <3>3 DEF Overwrites, Op
    <3>5. w \in began[b] => w \in raced \/ rq[b].shared \/ "redis" \in harm
      <4>1. rq[b].got # Miss
        BY <3>3 DEF TypeInv, RequestTypeOK
      <4>2. w \in began[b] => Excused(w) \/ Seen(w)
        BY DEF SeenInv
      <4> QED
        BY <2>2, <3>3, <4>1, <4>2 DEF Excused, Seen
    <3> QED
      BY <1>1, <3>1, <3>3, <3>4, <3>5 DEF Keeps
  <2> QED
    BY <2>1, <2>2
<1>5. ASSUME UndoneBy(secret', lost')
      PROVE  \E b \in Requests :
                /\ <<secret', b>> \in lost' /\ Overwrites(b)' /\ secret' \notin rq'[b].got
                /\ ~ rq'[b].fresh \/ \E w \in Requests : HashOf[w] = secret' /\ <<w, b>> \in lost'
  <2>1. CASE secret' # secret
    <3>1. PICK q \in Requests : q \notin committed /\ secret' = HashOf[q] /\ HashOf[q] \in row'
      BY <2>1, NewSecret
    <3>2. ~ Undone(HashOf[q])
      BY <3>1 DEF SecretInv
    <3> QED
      BY <1>2, <1>5, <3>1, <3>2, CommitUndoes DEF Undone, UndoneBy
  <2>2. CASE secret' = secret /\ Undone(secret)
    <3>1. PICK b \in Requests :
             /\ <<secret, b>> \in lost /\ Overwrites(b) /\ secret \notin rq[b].got
             /\ ~ rq[b].fresh \/ \E w \in Requests : HashOf[w] = secret /\ <<w, b>> \in lost
      BY <2>2 DEF UndoneOnlyByStaleSaves
    <3> QED
      BY <1>1, <1>3, <2>2, <3>1 DEF Keeps
  <2>3. CASE secret' = secret /\ ~ Undone(secret)
    <3>1. PICK b \in Requests : <<secret', b>> \in lost'
      BY <1>5 DEF UndoneBy
    <3>2. Committing(b) /\ secret \in row /\ secret \notin row'
      BY <1>2, <2>3, <3>1, CommitUndoes DEF Undone
    <3>3. /\ Overwrites(b) /\ secret \notin rq[b].got /\ Keeps(b) /\ rq[b].pc = "save"
          /\ row' = rq[b].got \cup {b}
      BY <2>3, <3>2, LostBySave DEF Committing
    <3>4. Overwrites(b)'
      BY <1>1, <3>3 DEF Overwrites, Op
    <3>5. ASSUME rq[b].fresh
          PROVE  \E w \in Requests : HashOf[w] = secret' /\ <<w, b>> \in lost'
      <4>1. secret # "none"
        BY <1>1, <3>2, CopyFacts DEF Rows
      <4>2. PICK w \in Requests : secret = HashOf[w] /\ w \notin rq[b].got
        BY <2>3, <3>3, <3>5, <4>1 DEF SecretInv, Recent, RecentFor, Undone, UndoneBy
      <4>3. w \in row /\ w \in committed
        BY <3>2, <4>2 DEF CopyInv, CopyOK, CopyFits
      <4>4. w # b
        BY <3>2, <4>3, CommitUndoes
      <4> QED
        BY <2>3, <3>2, <3>3, <4>2, <4>3, <4>4, CommitUndoes
    <3> QED
      BY <2>3, <3>1, <3>3, <3>4, <3>5 DEF Keeps
  <2> QED
    BY <2>1, <2>2, <2>3
<1> QED
  BY <1>4, <1>5 DEF UndoneOnlyByStaleSaves, Undone, UndoneBy

-----------------------------------------------------------------------------
(* Passwords.                                                                *)

\* What a request sees, it goes on seeing while it does not type again.
LEMMA SeesStays ==
  ASSUME TypeInv, ChainInv, SecretInv, CopyInv, StepFacts, NEW r \in Requests, Typed(r),
         NEW v, NEW fresh, Sees(r, v, fresh)
  PROVE  SeesFor(rq'[r].typed, rq'[r].old, v, fresh, secret', lost', deploy')
<1>1. UNCHANGED deploy /\ rq'[r].typed = rq[r].typed /\ rq'[r].old = rq[r].old /\ rq[r].typed \in Known
  BY DEF StepFacts, Typed, SecretInv
<1>2. rq[r].typed = secret' => secret' = secret
  BY <1>1, NewSecret
<1> QED
  BY <1>1, <1>2, UndoneStays DEF Sees, SeesFor

\* A copy without a hash shows nothing of a password.
LEMMA SeesCached ==
  ASSUME NEW r \in Requests, NEW v, NoHash(v)
  PROVE  Sees(r, v, FALSE)
BY CopyFacts DEF Sees, SeesFor, NoHash

\* A copy from the database has the current hash, and the first one only while no other was set.
LEMMA SeesRead ==
  ASSUME TypeInv, CopyInv, SecretInv, NEW r \in Requests, NEW v \in ReadRows \cup {row}
  PROVE  Sees(r, v, TRUE)
<1>1. CopyOK(v)
  BY CopyRead DEF CopyInv
<1>2. "pw" \in v => "pw" \in deploy.row
  BY <1>1 DEF CopyOK, CopyFits
<1>3. CASE HasReplica
  <2>1. secret = "none"
    BY <1>3 DEF HasReplica, SecretInv
  <2>2. "pw" \notin v
    BY <1>2, <2>1 DEF SecretInv
  <2> QED
    BY <2>1, <2>2 DEF Sees, SeesFor
<1>4. CASE ~ HasReplica
  <2>1. v = row
    BY <1>4 DEF ReadRows
  <2>2. secret = "none" \/ secret \in row \/ UndoneBy(secret, lost)
    BY DEF SecretInv, Undone, UndoneBy
  <2>3. ASSUME rq[r].old, "pw" \in row
        PROVE  \E w \in Requests : deploy.op[w] = "password" /\ UndoneBy(w, lost)
    <3>1. secret # "pw" /\ secret # "none" /\ secret \in Known
      BY <1>2, <2>1, <2>3 DEF SecretInv
    <3>2. PICK w \in committed : secret = HashOf[w]
      BY <3>1 DEF Known
    <3>3. w \in Requests /\ Op(w) = "password"
      BY <1>2, <2>1, <2>3, <3>2 DEF SecretInv, TypeInv, RequestTypeOK
    <3>4. w \notin row
      BY <1>1, <2>1, <2>3, <3>3 DEF CopyOK, CopyFits, Op
    <3>5. UndoneBy(w, lost)
      BY <3>2, <3>4 DEF SecretInv, Undone, UndoneBy
    <3> QED
      BY <3>3, <3>5 DEF Op
  <2> QED
    BY <2>1, <2>2, <2>3 DEF Sees, SeesFor
<1> QED
  BY <1>3, <1>4

\* Every step preserves what the requests see of the passwords.
LEMMA PasswordNext ==
  ASSUME TypeInv, ChainInv, CopyInv, SecretInv, PasswordInv, StepFacts, StepTypes
  PROVE  PasswordInv'
<1>1. UNCHANGED deploy
  BY DEF StepFacts
<1>2. /\ \A p \in Pods : NoHash(l1[p])
      /\ NoHash(l2) /\ NoHash(Absent) /\ NoHash(Miss) /\ NoHash(Encoded(row))
  BY CopyMarkers, CopyEncoded DEF CopyInv, CachedCopies, TypeInv, RequestTypeOK
<1>3. ASSUME NEW r \in Requests, ~ rq'[r].shared
      PROVE  /\ rq'[r].pc = "wait" /\ flight'[Pod(r)].pc \in Filled
                => SeesFor(rq'[r].typed, rq'[r].old, flight'[Pod(r)].val, flight'[Pod(r)].fresh,
                           secret', lost', deploy')
             /\ SeesFor(rq'[r].typed, rq'[r].old, rq'[r].got, rq'[r].fresh, secret', lost', deploy')
  <2>1. Moves(r) /\ ChainAt(r) /\ Pod(r) \in Pods /\ FlightMoves(Pod(r))
    BY DeployFacts DEF StepFacts, ChainInv, TypeInv, RequestTypeOK
  <2>2. CASE Enters(r)
    <3>1. rq'[r].got = Miss /\ ~ rq'[r].fresh /\ rq'[r].pc # "wait"
      BY <2>1, <2>2 DEF Enters, ChainAt
    <3> QED
      BY <1>2, <3>1, CopyFacts DEF SeesFor, NoHash
  <2>3. CASE ~ Enters(r)
    <3>1. Typed(r)
      BY <2>1, <2>3 DEF Moves, Typed, Joins, Walks, Kept, Takes, Took, Judged, Keeps
    <3>2. \/ Joins(r)
          \/ rq'[r].shared = rq[r].shared /\ (rq'[r].pc = "wait" => rq[r].pc = "wait")
      BY <2>1, <2>3 DEF Moves, Walks, Keeps, Kept, Takes, Took, Judged, AfterWrite
    <3>3. ~ rq[r].shared =>
            /\ rq[r].pc = "wait" /\ flight[Pod(r)].pc \in Filled
               => Sees(r, flight[Pod(r)].val, flight[Pod(r)].fresh)
            /\ Sees(r, rq[r].got, rq[r].fresh)
      BY DEF PasswordInv
    <3>4. ASSUME rq'[r].pc = "wait", flight'[Pod(r)].pc \in Filled
          PROVE  Sees(r, flight'[Pod(r)].val, flight'[Pod(r)].fresh)
      <4>1. flight[Pod(r)].pc \in Filled => Sees(r, flight[Pod(r)].val, flight[Pod(r)].fresh)
        BY <1>3, <3>2, <3>3, <3>4 DEF Joins
      <4>2. flight[Pod(r)].fresh => flight[Pod(r)].pc \notin {"check", "lock", "spin", "load"}
        BY <2>1 DEF SecretInv
      <4>3. \/ /\ flight'[Pod(r)].val = flight[Pod(r)].val /\ flight[Pod(r)].pc \in Filled
               /\ flight'[Pod(r)].fresh = flight[Pod(r)].fresh
            \/ flight'[Pod(r)].val \in {l1[Pod(r)], l2, Absent} /\ flight'[Pod(r)].fresh = FALSE
            \/ flight'[Pod(r)].val \in ReadRows /\ flight'[Pod(r)].fresh = TRUE
        <5>1. flight'[Pod(r)].fresh \in BOOLEAN /\ flight[Pod(r)].fresh \in BOOLEAN
          BY <2>1 DEF TypeInv, CacheTypeOK, Flights, StepTypes
        <5> QED
          BY <2>1, <3>4, <4>2, <5>1 DEF FlightMoves, FlightSame, Filled
      <4> QED
        BY <1>2, <2>1, <4>1, <4>3, SeesCached, SeesRead
    <3>5. Sees(r, rq'[r].got, rq'[r].fresh)
      <4>1. CASE Takes(r)
        <5>1. ~ rq[r].shared
          BY <1>3, <4>1 DEF Takes, Took
        <5>2. \/ rq'[r].got \in {l1[Pod(r)], l2, Encoded(row)} /\ rq'[r].fresh = FALSE
              \/ rq'[r].got \in ReadRows \cup {row} /\ rq'[r].fresh = TRUE
              \/ /\ rq[r].pc = "wait" /\ flight[Pod(r)].pc \in Filled
                 /\ rq'[r].got = flight[Pod(r)].val /\ rq'[r].fresh = flight[Pod(r)].fresh
          BY <4>1 DEF Takes, Took, Filled
        <5> QED
          BY <1>2, <2>1, <3>3, <5>1, <5>2, SeesCached, SeesRead
      <4>2. CASE rq'[r].got = rq[r].got /\ rq'[r].fresh = rq[r].fresh /\ rq'[r].shared = rq[r].shared
        BY <1>3, <3>3, <4>2
      <4>3. CASE Joins(r)
        <5>1. rq'[r].got = Miss /\ rq'[r].fresh = rq[r].fresh /\ ~ rq[r].fresh
          BY <2>1, <4>3 DEF Joins, ChainAt
        <5> QED
          BY <1>2, <5>1, CopyFacts DEF Sees, SeesFor, NoHash
      <4> QED
        BY <2>1, <2>3, <4>1, <4>2, <4>3 DEF Moves, Walks, Kept, Judged, Keeps
    <3> QED
      BY <3>1, <3>4, <3>5, SeesStays
  <2> QED
    BY <2>2, <2>3
<1>4. ASSUME NEW q \in Requests, rq[q].res # "none"
      PROVE  rq'[q].res = rq[q].res
  <2>1. Moves(q) /\ rq[q].pc \in {"leave", "done"}
    BY <1>4 DEF StepFacts, ChainInv, ChainAt
  <2> QED
    BY <2>1 DEF Moves, Enters, Joins, Walks, Kept, Takes, Judged
<1>5. ASSUME NEW s \in Stores, fails'[s].locked \/ \E q \in Requests : rq[q].res = "wrong" /\ LockStore(q) = s
      PROVE  \E q \in Requests : rq'[q].res = "wrong" /\ LockStore(q) = s
  BY <1>4, <1>5 DEF PasswordInv, StepFacts, FailsMove
<1>6. ASSUME NEW r \in Requests, rq'[r].res = "locked"
      PROVE  \E q \in Requests : rq'[q].res = "wrong" /\ LockStore(q) = LockStore(r)
  <2>1. Moves(r) /\ LockStore(r) \in Stores
    BY DeployFacts DEF StepFacts, TypeInv, RequestTypeOK
  <2>2. rq[r].res = "locked" \/ fails[LockStore(r)].locked
    BY <1>6, <2>1 DEF Moves, Enters, Joins, Walks, Kept, Takes, Took, Judged
  <2> QED
    BY <1>5, <2>1, <2>2 DEF PasswordInv
<1>7. Stores' = Stores /\ \A q : LockStore(q)' = LockStore(q) /\ Pod(q)' = Pod(q)
  BY <1>1 DEF Stores, LockStore, Pod
<1> QED
  BY <1>3, <1>5, <1>6, <1>7 DEF PasswordInv, Sees, Filled

\* Nothing is undone and no password was judged at the start.
LEMMA OthersStart == GatewayInit => UndoneOnlyByStaleSaves /\ PasswordInv
<1> SUFFICES ASSUME GatewayInit
             PROVE  UndoneOnlyByStaleSaves /\ PasswordInv
  OBVIOUS
<1>1. lost = {} /\ fails = [s \in Stores |-> NoFailure]
  BY DEF GatewayInit, AccountInit
<1>2. ASSUME NEW r \in Requests
      PROVE  /\ rq[r].pc # "wait" /\ rq[r].res = "none" /\ rq[r].got = Miss
             /\ ~ rq[r].fresh /\ ~ rq[r].old
  BY DEF GatewayInit, AccountInit
<1>3. UndoneOnlyByStaleSaves
  BY <1>1 DEF UndoneOnlyByStaleSaves, Undone
<1>4. PasswordInv
  BY <1>1, <1>2 DEF PasswordInv, Sees, SeesFor, NoFailure
<1> QED
  BY <1>3, <1>4

-----------------------------------------------------------------------------
(* The theorems: one invariant, in parts.                                    *)

RequestsInv ==
    /\ TypeInv /\ ChainInv /\ CopyInv /\ SecretInv
    /\ SeenInv /\ UndoneOnlyByStaleSaves /\ PasswordInv

\* The parts hold together from the start on, for every step keeps each of them.
LEMMA RequestsKeep == GatewaySpec => []RequestsInv
<1>1. GatewayInit => RequestsInv
  BY TypeStart, ChainStart, CopyStart, SecretStart, SeenStart, OthersStart DEF RequestsInv
<1>2. RequestsInv /\ [Next]_vars => RequestsInv'
  <2> SUFFICES ASSUME RequestsInv, [Next]_vars
               PROVE  RequestsInv'
    OBVIOUS
  <2>1. /\ TypeInv /\ ChainInv /\ CopyInv /\ SecretInv
        /\ SeenInv /\ UndoneOnlyByStaleSaves /\ PasswordInv
    BY DEF RequestsInv
  <2>2. StepFacts /\ StepTypes
    BY <2>1, AllSteps
  <2>3. TypeInv' /\ ChainInv' /\ CopyInv' /\ SecretInv'
    BY <2>1, <2>2, TypeNext, ChainNext, CopyNext, SecretNext
  <2>4. SeenInv' /\ UndoneOnlyByStaleSaves' /\ PasswordInv'
    BY <2>1, <2>2, SeenNext, UndoneNext, PasswordNext
  <2> QED
    BY <2>3, <2>4 DEF RequestsInv
<1> QED
  BY <1>1, <1>2, PTL DEF GatewaySpec

\* A request that begins after a change has finished on its pod works on a copy with the change,
\* through every cache, shared call, goroutine and lagging replica, but for the named exceptions.
THEOREM PodsReadTheirWrites == GatewaySpec => []ReadsOwnPodsWrites
<1>1. RequestsInv => ReadsOwnPodsWrites
  <2> SUFFICES ASSUME RequestsInv, NEW r \in Requests, rq[r].got # Miss, NEW w \in began[r],
                      ~ Excused(w), ~ rq[r].shared
               PROVE  w \in rq[r].got
    BY DEF ReadsOwnPodsWrites, Excused
  <2>1. Seen(w)
    BY DEF RequestsInv, SeenInv
  <2> QED
    BY <2>1 DEF Seen
<1> QED
  BY <1>1, RequestsKeep, PTL

\* A change is undone only by a request that saves a whole row without it and did not have to see
\* it; the current hash only by such a save of a cached copy, or with the change that set it.
THEOREM ChangesAreUndoneBySaves == GatewaySpec => []UndoneOnlyByStaleSaves
<1>1. RequestsInv => UndoneOnlyByStaleSaves
  BY DEF RequestsInv
<1> QED
  BY <1>1, RequestsKeep, PTL

\* Logins and changes of password are judged by the current hash, but for the named exceptions,
\* and an account is locked only behind a refusal.
THEOREM PasswordsAreJudged == GatewaySpec => []PasswordsAreCurrent
<1>1. RequestsInv => PasswordsAreCurrent
  <2> SUFFICES ASSUME RequestsInv, NEW r \in Requests
               PROVE  /\ rq[r].res = "wrong" /\ rq[r].typed = secret =>
                            ~ rq[r].fresh \/ rq[r].shared \/ Undone(secret)
                      /\ rq[r].old /\ Accepted(r) =>
                            rq[r].shared \/ \E w \in Requests : Op(w) = "password" /\ Undone(w)
                      /\ rq[r].res = "locked" =>
                            \E q \in Requests : rq[q].res = "wrong" /\ LockStore(q) = LockStore(r)
    BY DEF PasswordsAreCurrent
  <2>1. /\ rq[r].res = "wrong" => rq[r].typed \notin rq[r].got /\ rq[r].typed # "none"
        /\ Accepted(r) => rq[r].typed \in rq[r].got
    BY DEF RequestsInv, ChainInv, ChainAt, Accepted
  <2>2. ~ rq[r].shared => Sees(r, rq[r].got, rq[r].fresh)
    BY DEF RequestsInv, PasswordInv
  <2>3. rq[r].old => rq[r].typed = "pw"
    BY DEF RequestsInv, SecretInv
  <2>4. rq[r].res = "locked" => \E q \in Requests : rq[q].res = "wrong" /\ LockStore(q) = LockStore(r)
    BY DEF RequestsInv, PasswordInv
  <2> QED
    BY <2>1, <2>2, <2>3, <2>4 DEF Sees, SeesFor, Undone, UndoneBy, Op
<1> QED
  BY <1>1, RequestsKeep, PTL
=============================================================================
