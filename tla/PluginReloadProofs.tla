------------------------- MODULE PluginReloadProofs -------------------------
(***************************************************************************)
(* Proofs about PluginReload, for any plugins, requests, pushes and number *)
(* of writes.  What the run checks is not inductive: Inv adds that the     *)
(* cached list is the current one unless the last did not verify (so that  *)
(* a late mount looks at the current list), that a reload which is not     *)
(* draining has nothing left to revoke (so that a new one discards none),  *)
(* and that a plugin with routes of its own is registered (so that an      *)
(* unmount finds it).                                                      *)
(***************************************************************************)
EXTENDS PluginReload, FiniteSetTheorems, TLAPS

Inv ==
    /\ TypeOK
    /\ cached \in {None, current}
    /\ \A r \in Reload : target[r] = None => left[r] = {}
    /\ routes \subseteq loaded
    /\ \A q \in Request : place[q] # "away" => serves[q] \in Plugin
    /\ RevokedIsUnmounted
    /\ CountExact

ReloadTypes ==
    /\ loaded \in SUBSET Plugin /\ routes \in SUBSET Plugin
    /\ draining \in SUBSET Plugin
    /\ inflight \in [Plugin -> Nat]
    /\ target \in [Reload -> Plugin \cup {None}]
    /\ left \in [Reload -> SUBSET Plugin]
    /\ adding \in [Reload -> SUBSET Plugin]

LEMMA ListsAreSets == \A list \in Lists : list # None => list \in SUBSET Plugin
  BY DEF Lists

(* What a stretch of a reload may do to the plugins it has to look at.      *)
Stretch(r, over, revoked, list) ==
    /\ \A p \in loaded' :
          \/ p \in loaded \ over /\ (p \in revoked => p = target'[r] \/ p \in left'[r])
          \/ list # None /\ p \in list
    /\ \A s \in Reload \ {r} : target'[s] = target[s] /\ left'[s] = left[s]
    /\ target'[r] = None => left'[r] = {}
    /\ routes' \subseteq loaded'
    /\ \A p \in Plugin : \/ inflight'[p] = inflight[p]
                         \/ inflight'[p] = 0 /\ (p \in over \/ Quiet(p))
    /\ \A p \in loaded \ loaded' : p \in over \/ Quiet(p)

LEMMA ProceedIsStretch ==
    ASSUME TypeOK, routes \subseteq loaded, NEW r \in Reload, NEW over \in SUBSET Plugin,
           NEW revoked \in SUBSET Plugin, NEW added \in SUBSET Plugin,
           NEW list \in Lists, Proceed(r, over, revoked, added, list)
    PROVE  ReloadTypes' /\ Stretch(r, over, revoked, list)
<1>1. PICK quiet \in SUBSET {p \in revoked : Quiet(p)} :
        /\ inflight' = [p \in Plugin |-> IF p \in over \cup quiet THEN 0 ELSE inflight[p]]
        /\ \/ \E p \in revoked \ quiet :
                /\ target' = [target EXCEPT ![r] = p]
                /\ left' = [left EXCEPT ![r] = (revoked \ quiet) \ {p}]
                /\ adding' = [adding EXCEPT ![r] = added]
                /\ draining' = (draining \ (over \cup quiet)) \cup {p}
                /\ loaded' = loaded \ (over \cup quiet)
                /\ routes' = routes \ (over \cup quiet)
           \/ /\ revoked \ quiet = {}
              /\ target' = [target EXCEPT ![r] = None]
              /\ left' = [left EXCEPT ![r] = {}]
              /\ adding' = [adding EXCEPT ![r] = {}]
              /\ draining' = draining \ (over \cup quiet)
              /\ \E mounted \in SUBSET Mountable(added, list, loaded \ (over \cup quiet)) :
                    /\ loaded' = (loaded \ (over \cup quiet)) \cup mounted
                    /\ \E served \in SUBSET mounted :
                          routes' = (routes \ (over \cup quiet)) \cup served
  BY DEF Proceed
<1>2. /\ quiet \in SUBSET Plugin
      /\ \A p \in quiet : Quiet(p)
  OBVIOUS
<1>3. /\ inflight' \in [Plugin -> Nat]
      /\ \A p \in Plugin : \/ inflight'[p] = inflight[p]
                           \/ inflight'[p] = 0 /\ (p \in over \/ Quiet(p))
  BY <1>1, <1>2 DEF TypeOK
<1>4. CASE \E p \in revoked \ quiet :
              /\ target' = [target EXCEPT ![r] = p]
              /\ left' = [left EXCEPT ![r] = (revoked \ quiet) \ {p}]
              /\ adding' = [adding EXCEPT ![r] = added]
              /\ draining' = (draining \ (over \cup quiet)) \cup {p}
              /\ loaded' = loaded \ (over \cup quiet)
              /\ routes' = routes \ (over \cup quiet)
  <2>1. PICK p \in revoked \ quiet :
              /\ target' = [target EXCEPT ![r] = p]
              /\ left' = [left EXCEPT ![r] = (revoked \ quiet) \ {p}]
              /\ adding' = [adding EXCEPT ![r] = added]
              /\ draining' = (draining \ (over \cup quiet)) \cup {p}
              /\ loaded' = loaded \ (over \cup quiet)
              /\ routes' = routes \ (over \cup quiet)
    BY <1>4
  <2>2. p \in Plugin /\ p # None
    BY ReloadAssumption
  <2>3. /\ target'[r] = p /\ left'[r] = (revoked \ quiet) \ {p}
        /\ \A s \in Reload \ {r} : target'[s] = target[s] /\ left'[s] = left[s]
    BY <2>1 DEF TypeOK
  <2>4. ReloadTypes'
    BY <1>2, <1>3, <2>1, <2>2 DEF TypeOK, ReloadTypes
  <2>5. \A t \in loaded' : t \in loaded \ over
                           /\ (t \in revoked => t = target'[r] \/ t \in left'[r])
    BY <2>1, <2>3
  <2>6. \A t \in loaded \ loaded' : t \in over \/ Quiet(t)
    BY <1>2, <2>1
  <2> QED
    BY <1>3, <2>1, <2>2, <2>3, <2>4, <2>5, <2>6 DEF Stretch
<1>5. CASE /\ revoked \ quiet = {}
           /\ target' = [target EXCEPT ![r] = None]
           /\ left' = [left EXCEPT ![r] = {}]
           /\ adding' = [adding EXCEPT ![r] = {}]
           /\ draining' = draining \ (over \cup quiet)
           /\ \E mounted \in SUBSET Mountable(added, list, loaded \ (over \cup quiet)) :
                 /\ loaded' = (loaded \ (over \cup quiet)) \cup mounted
                 /\ \E served \in SUBSET mounted :
                       routes' = (routes \ (over \cup quiet)) \cup served
  <2>1. PICK mounted \in SUBSET Mountable(added, list, loaded \ (over \cup quiet)) :
              /\ loaded' = (loaded \ (over \cup quiet)) \cup mounted
              /\ routes' \subseteq (routes \ (over \cup quiet)) \cup mounted
    BY <1>5
  <2>2. \A p \in mounted : p \in Plugin /\ list # None /\ p \in list
    BY DEF Mountable
  <2>3. /\ target'[r] = None /\ left'[r] = {}
        /\ \A s \in Reload \ {r} : target'[s] = target[s] /\ left'[s] = left[s]
    BY <1>5 DEF TypeOK
  <2>4. ReloadTypes'
    BY <1>3, <1>5, <2>1, <2>2 DEF TypeOK, ReloadTypes
  <2>5. \A p \in loaded' : \/ p \in loaded \ over /\ p \notin revoked
                           \/ list # None /\ p \in list
    BY <1>5, <2>1, <2>2
  <2>6. \A p \in loaded \ loaded' : p \in over \/ Quiet(p)
    BY <1>2, <2>1
  <2> QED
    BY <1>3, <2>1, <2>3, <2>4, <2>5, <2>6 DEF Stretch
<1> QED
  BY <1>1, <1>4, <1>5

(***************************************************************************)
(* The counter.                                                            *)
(***************************************************************************)
LEMMA RunningFinite ==
    ASSUME NEW p
    PROVE  IsFiniteSet(Running(p)) /\ Cardinality(Running(p)) \in Nat
<1>1. Running(p) \subseteq Request /\ IsFiniteSet(Request)
  BY ReloadAssumption DEF Running
<1> QED
  BY <1>1, FS_Subset, FS_CardinalityType

LEMMA QuietIsIdle ==
    ASSUME TypeOK, CountExact, NEW p \in Plugin, p \notin forced, Quiet(p)
    PROVE  inflight[p] = 0 /\ Running(p) = {}
<1>1. inflight[p] = 0
  BY DEF TypeOK, Quiet
<1>2. Cardinality(Running(p)) = 0
  BY <1>1 DEF CountExact
<1> QED
  BY <1>1, <1>2, RunningFinite, FS_EmptySet

(* A stretch of a reload keeps the counters of the plugins not forced.      *)
LEMMA StretchCounts ==
    ASSUME TypeOK, CountExact, NEW r \in Reload, NEW over \in SUBSET Plugin,
           NEW revoked, NEW list,
           Stretch(r, over, revoked, list), UNCHANGED requestVars,
           forced \subseteq forced', \A p \in over : Quiet(p) \/ p \in forced'
    PROVE  /\ CountExact'
           /\ \A p \in loaded \ loaded' : p \in forced' \/ Running(p) = {}
<1>1. \A p : Running(p)' = Running(p)
  BY DEF Running, requestVars
<1>2. ASSUME NEW p \in Plugin, p \notin forced'
      PROVE  inflight'[p] = Cardinality(Running(p))
  <2>1. p \notin forced
    BY <1>2
  <2>2. inflight[p] = Cardinality(Running(p))
    BY <2>1 DEF CountExact
  <2>3. CASE inflight'[p] = 0 /\ (p \in over \/ Quiet(p))
    BY <1>2, <2>1, <2>2, <2>3, QuietIsIdle
  <2> QED
    BY <2>2, <2>3 DEF Stretch
<1>3. ASSUME NEW p \in loaded \ loaded', p \notin forced'
      PROVE  Running(p) = {}
  BY <1>3, QuietIsIdle DEF Stretch, TypeOK
<1> QED
  BY <1>1, <1>2, <1>3 DEF CountExact

(* A step that touches neither the counters nor the requests.               *)
LEMMA Untouched ==
    ASSUME CountExact, UNCHANGED <<inflight, place, serves, forced>>
    PROVE  CountExact'
  BY DEF CountExact, Running

(***************************************************************************)
(* The steps.                                                              *)
(***************************************************************************)
LEMMA InitInv == Init => Inv
<1>1. ASSUME Init PROVE TypeOK
  <2>1. file \in Lists /\ cached \in Lists
    BY <1>1 DEF Init, Lists, Reload
  <2>2. QED
    <3>1. /\ target \in [Reload -> Plugin \cup {None}]
          /\ left \in [Reload -> SUBSET Plugin] /\ adding \in [Reload -> SUBSET Plugin]
          /\ inflight \in [Plugin -> Nat]
          /\ place \in [Request -> {"away", "routed", "running"}]
      BY <1>1 DEF Init
    <3>2. /\ loaded \in SUBSET Plugin /\ current \in SUBSET Plugin
          /\ draining \in SUBSET Plugin /\ forced \in SUBSET Plugin
          /\ routes \in SUBSET Plugin /\ wrapped \in SUBSET Encrypted
      BY <1>1, ListsAreSets DEF Init
    <3>3. /\ dirty \in BOOLEAN /\ recent \in BOOLEAN /\ expired \in BOOLEAN
          /\ serves \in [Request -> Plugin \cup {None}]
      BY <1>1 DEF Init
    <3>4. writes \in 0 .. MaxWrites
      BY <1>1, ReloadAssumption DEF Init
    <3> QED
      BY <2>1, <3>1, <3>2, <3>3, <3>4 DEF TypeOK
<1>2. ASSUME Init PROVE CountExact
  <2>1. \A p : Running(p) = {}
    BY <1>2 DEF Init, Running
  <2>2. \A p \in Plugin : inflight[p] = 0
    BY <1>2 DEF Init
  <2> QED
    BY <2>1, <2>2, FS_EmptySet DEF CountExact
<1>3. ASSUME Init PROVE RevokedIsUnmounted
  BY <1>3 DEF Init, RevokedIsUnmounted
<1>4. ASSUME Init PROVE /\ cached \in {None, current}
                        /\ \A r \in Reload : target[r] = None => left[r] = {}
                        /\ routes \subseteq loaded
                        /\ \A q \in Request : place[q] = "away"
  BY <1>4 DEF Init
<1> QED
  BY <1>1, <1>2, <1>3, <1>4 DEF Inv

(* What every step establishes of the next state and of itself.             *)
Good == Inv' /\ (\A p \in loaded \ loaded' : p \in forced' \/ Running(p) = {})

(* A step that leaves the reloads, the lists and the counters alone.        *)
LEMMA Bystander ==
    ASSUME Inv, UNCHANGED <<cached, current, reloadVars, requestVars>>,
           file' \in Lists, writes' \in 0 .. MaxWrites,
           dirty' \in BOOLEAN, recent' \in BOOLEAN, expired' \in BOOLEAN
    PROVE  Good
<1>1. TypeOK'
  BY DEF Inv, TypeOK, reloadVars, requestVars
<1>2. CountExact'
  BY Untouched DEF Inv, reloadVars, requestVars
<1>3. RevokedIsUnmounted'
  BY DEF Inv, RevokedIsUnmounted, reloadVars
<1> QED
  BY <1>1, <1>2, <1>3 DEF Inv, Good, reloadVars, requestVars

(* One more or one less request runs in p; the others are not touched.      *)
LEMMA Counted ==
    ASSUME Inv, NEW q \in Request, NEW p \in Plugin, p = serves[q],
           UNCHANGED <<fileVars, listVars, loaded, routes, draining, target, left,
                       adding, forced, wrapped>>,
           place' \in [Request -> {"away", "routed", "running"}],
           serves' \in [Request -> Plugin \cup {None}],
           \A t \in Request : place'[t] # "away" => serves'[t] \in Plugin,
           inflight' \in [Plugin -> Nat],
           \A t \in Plugin \ {p} : inflight'[t] = inflight[t] /\ Running(t)' = Running(t),
           p \notin forced => inflight'[p] = Cardinality(Running(p)')
    PROVE  Good
<1>1. TypeOK'
  BY DEF Inv, TypeOK, fileVars, listVars
<1>2. CountExact'
  BY DEF Inv, CountExact
<1>3. RevokedIsUnmounted'
  BY DEF Inv, RevokedIsUnmounted, listVars
<1> QED
  BY <1>1, <1>2, <1>3 DEF Inv, Good, listVars

LEMMA ArriveStep ==
    ASSUME Inv, NEW q \in Request, NEW p \in Plugin, Arrive(q, p)
    PROVE  Good
<1>1. TypeOK'
  BY DEF Inv, TypeOK, Arrive, fileVars, listVars, reloadVars
<1>2. \A t : Running(t)' = Running(t)
  BY DEF Inv, TypeOK, Arrive, Running
<1>3. CountExact'
  BY <1>2 DEF Inv, CountExact, Arrive, reloadVars
<1>4. RevokedIsUnmounted'
  BY DEF Inv, RevokedIsUnmounted, Arrive, listVars, reloadVars
<1>5. \A t \in Request : place'[t] # "away" => serves'[t] \in Plugin
  BY DEF Inv, TypeOK, Arrive
<1> QED
  BY <1>1, <1>3, <1>4, <1>5 DEF Inv, Good, Arrive, listVars, reloadVars

(* What a request that leaves, or runs, does to the sets of those running.  *)
LEMMA LeaveRuns ==
    ASSUME Inv, NEW q \in Request, place[q] # "away", Leave(q)
    PROVE  /\ place' \in [Request -> {"away", "routed", "running"}]
           /\ serves' \in [Request -> Plugin \cup {None}]
           /\ \A t \in Request : place'[t] # "away" => serves'[t] \in Plugin
           /\ \A p : Running(p)' = Running(p) \ {q}
  BY DEF Inv, TypeOK, Leave, Running

LEMMA RunRuns ==
    ASSUME Inv, NEW q \in Request, place[q] = "routed", Run(q)
    PROVE  /\ place' \in [Request -> {"away", "routed", "running"}]
           /\ serves' \in [Request -> Plugin \cup {None}]
           /\ \A t \in Request : place'[t] # "away" => serves'[t] \in Plugin
           /\ \A p \in Plugin : Running(p)' = IF p = serves[q]
                                             THEN Running(p) \cup {q} ELSE Running(p)
  BY DEF Inv, TypeOK, Run, Running

LEMMA EnterStep ==
    ASSUME Inv, NEW q \in Request, Enter(q)
    PROVE  Good
<1>0. serves[q] \in Plugin /\ place[q] = "routed"
  BY DEF Inv, Enter
<1>1. PICK p \in Plugin : p = serves[q] /\ place[q] = "routed"
  BY <1>0
<1>2. UNCHANGED <<fileVars, listVars, loaded, routes, draining, target, left,
                  adding, forced, wrapped>>
  BY DEF Enter
<1>3. CASE Leave(q) /\ UNCHANGED inflight
  <2>1. \A t \in Plugin : Running(t)' = Running(t)
    <3>1. \A t : q \notin Running(t)
      BY <1>1 DEF Running
    <3> QED
      BY <1>1, <1>3, <3>1, LeaveRuns
  <2>2. \A t \in Plugin \ {p} : inflight'[t] = inflight[t] /\ Running(t)' = Running(t)
    BY <1>3, <2>1
  <2>3. p \notin forced => inflight'[p] = Cardinality(Running(p)')
    BY <1>1, <1>3, <2>1 DEF Inv, CountExact
  <2>4. inflight' \in [Plugin -> Nat]
    BY <1>3 DEF Inv, TypeOK
  <2> QED
    BY <1>1, <1>2, <1>3, <2>2, <2>3, <2>4, LeaveRuns, Counted
<1>4. CASE inflight' = [inflight EXCEPT ![p] = @ + 1] /\ Run(q)
  <2>1. /\ inflight' \in [Plugin -> Nat] /\ inflight'[p] = inflight[p] + 1
        /\ \A t \in Plugin \ {p} : inflight'[t] = inflight[t]
    BY <1>1, <1>4 DEF Inv, TypeOK
  <2>2. Running(p)' = Running(p) \cup {q} /\ q \notin Running(p)
    BY <1>1, <1>4, RunRuns DEF Running
  <2>3. Cardinality(Running(p) \cup {q}) = Cardinality(Running(p)) + 1
    BY <2>2, RunningFinite, FS_AddElement
  <2>4. p \notin forced => inflight'[p] = Cardinality(Running(p)')
    BY <1>1, <2>1, <2>2, <2>3 DEF Inv, CountExact
  <2>5. \A t \in Plugin \ {p} : inflight'[t] = inflight[t] /\ Running(t)' = Running(t)
    BY <1>1, <1>4, <2>1, RunRuns
  <2> QED
    BY <1>1, <1>2, <1>4, <2>1, <2>4, <2>5, RunRuns, Counted
<1> QED
  BY <1>1, <1>3, <1>4 DEF Enter, RequestStart

LEMMA RequestEndStep ==
    ASSUME Inv, NEW q \in Request, RequestEnd(q)
    PROVE  Good
<1>0. serves[q] \in Plugin /\ place[q] = "running"
  BY DEF Inv, RequestEnd
<1>1. PICK p \in Plugin : p = serves[q] /\ place[q] = "running"
  BY <1>0
<1>2. UNCHANGED <<fileVars, listVars, loaded, routes, draining, target, left,
                  adding, forced, wrapped>>
  BY DEF RequestEnd
<1>3. inflight' = [inflight EXCEPT ![p] = IF @ > 0 THEN @ - 1 ELSE 0] /\ Leave(q)
  BY <1>1 DEF RequestEnd
<1>4. /\ inflight' \in [Plugin -> Nat]
      /\ inflight'[p] = (IF inflight[p] > 0 THEN inflight[p] - 1 ELSE 0)
      /\ \A t \in Plugin \ {p} : inflight'[t] = inflight[t]
  BY <1>1, <1>3 DEF Inv, TypeOK
<1>5. \A t \in Plugin \ {p} : inflight'[t] = inflight[t] /\ Running(t)' = Running(t)
  <2>1. \A t \in Plugin \ {p} : q \notin Running(t)
    BY <1>1 DEF Running
  <2>2. \A t : Running(t)' = Running(t) \ {q}
    BY <1>1, <1>3, LeaveRuns
  <2>3. \A t \in Plugin \ {p} : Running(t)' = Running(t)
    BY <2>1, <2>2
  <2> QED
    BY <1>4, <2>3
<1>6. Running(p)' = Running(p) \ {q} /\ q \in Running(p)
  BY <1>1, <1>3, LeaveRuns DEF Running
<1>7. Cardinality(Running(p) \ {q}) = Cardinality(Running(p)) - 1
  BY <1>6, RunningFinite, FS_RemoveElement
<1>8. Cardinality(Running(p)) \in Nat /\ Cardinality(Running(p) \ {q}) \in Nat
  BY <1>6, RunningFinite, FS_RemoveElement, FS_CardinalityType
<1>9. p \notin forced => inflight'[p] = Cardinality(Running(p)')
  BY <1>1, <1>4, <1>6, <1>7, <1>8 DEF Inv, CountExact
<1> QED
  BY <1>1, <1>2, <1>3, <1>4, <1>5, <1>9, LeaveRuns, Counted

(* A plugin that may not stay is left to some reload.                       *)
LEMMA StretchRevokes ==
    ASSUME Inv, NEW r \in Reload, NEW over, NEW revoked, NEW list,
           Stretch(r, over, revoked, list),
           list # None => current' = list,
           \/ target[r] = None /\ revoked = current \ list /\ list # None
           \/ over = {target[r]} /\ revoked = left[r] /\ current' = current
    PROVE  RevokedIsUnmounted'
<1>1. ASSUME NEW p \in loaded', p \notin current'
      PROVE  \E s \in Reload : p = target'[s] \/ p \in left'[s]
  <2>1. p \in loaded \ over /\ (p \in revoked => p = target'[r] \/ p \in left'[r])
    BY <1>1 DEF Stretch
  <2>2. CASE p \in revoked
    BY <2>1, <2>2
  <2>3. CASE p \notin revoked
    <3>1. p \notin current /\ ~(p = target[r] \/ p \in left[r])
      BY <1>1, <2>1, <2>3, ReloadAssumption DEF Inv, TypeOK
    <3>2. PICK s \in Reload : p = target[s] \/ p \in left[s]
      BY <2>1, <3>1 DEF Inv, RevokedIsUnmounted
    <3>3. s # r
      BY <3>1, <3>2
    <3> QED
      BY <3>2, <3>3 DEF Stretch
  <2> QED
    BY <2>2, <2>3
<1>2. routes' \subseteq loaded'
  BY DEF Stretch
<1> QED
  BY <1>1, <1>2 DEF RevokedIsUnmounted

LEMMA StretchStep ==
    ASSUME Inv, NEW r \in Reload, NEW over \in SUBSET Plugin,
           NEW revoked \in SUBSET Plugin, NEW added \in SUBSET Plugin,
           NEW list \in Lists, Proceed(r, over, revoked, added, list),
           list # None => current' = list,
           \/ target[r] = None /\ revoked = current \ list /\ list # None
           \/ over = {target[r]} /\ revoked = left[r] /\ current' = current,
           UNCHANGED requestVars,
           file' \in Lists, writes' \in 0 .. MaxWrites,
           dirty' \in BOOLEAN, recent' \in BOOLEAN,
           cached' \in Lists, current' \in SUBSET Plugin, expired' \in BOOLEAN,
           cached' \in {None, current'},
           forced \subseteq forced', forced' \in SUBSET Plugin,
           \A p \in over : Quiet(p) \/ p \in forced'
    PROVE  Good
<1>1. ReloadTypes' /\ Stretch(r, over, revoked, list)
  BY ProceedIsStretch DEF Inv
<1>2. TypeOK'
  BY <1>1 DEF Inv, TypeOK, ReloadTypes, requestVars
<1>3. CountExact' /\ \A p \in loaded \ loaded' : p \in forced' \/ Running(p) = {}
  BY <1>1, StretchCounts DEF Inv
<1>4. RevokedIsUnmounted'
  BY <1>1, StretchRevokes
<1>5. (\A s \in Reload : target'[s] = None => left'[s] = {}) /\ routes' \subseteq loaded'
  BY <1>1 DEF Stretch, Inv
<1> QED
  BY <1>2, <1>3, <1>4, <1>5 DEF Good, Inv, requestVars

LEMMA BeginStep ==
    ASSUME Inv, NEW r \in Reload, NEW list \in Lists, Begin(r, list),
           file' \in Lists, writes' \in 0 .. MaxWrites,
           dirty' \in BOOLEAN, recent' \in BOOLEAN
    PROVE  Good
<1>1. /\ target[r] = None /\ cached' = list /\ expired' = FALSE
      /\ UNCHANGED requestVars
  BY DEF Begin
<1>2. CASE list = None /\ UNCHANGED <<current, reloadVars>>
  <2>1. TypeOK'
    BY <1>1, <1>2 DEF Inv, TypeOK, reloadVars, requestVars
  <2>2. CountExact'
    BY <1>1, <1>2, Untouched DEF Inv, reloadVars, requestVars
  <2>3. RevokedIsUnmounted'
    BY <1>2 DEF Inv, RevokedIsUnmounted, reloadVars
  <2> QED
    BY <1>1, <1>2, <2>1, <2>2, <2>3 DEF Inv, Good, reloadVars, requestVars
<1>3. CASE /\ list # None
           /\ current' = list
           /\ Proceed(r, {}, current \ list,
                      (list \ current) \cup ((list \cap current) \ loaded), list)
           /\ UNCHANGED forced
  <2>1. list \in SUBSET Plugin /\ current \in SUBSET Plugin /\ forced \in SUBSET Plugin
    BY <1>3, ListsAreSets DEF Inv, TypeOK
  <2>2. expired' \in BOOLEAN
    BY <1>1
  <2> QED
    BY <1>1, <1>3, <2>1, <2>2, StretchStep
<1> QED
  BY <1>2, <1>3 DEF Begin

LEMMA WakeStep ==
    ASSUME Inv, NEW r \in Reload, Wake(r)
    PROVE  Good
<1>1. /\ target[r] \in Plugin
      /\ Proceed(r, {target[r]}, left[r], adding[r], cached)
      /\ UNCHANGED fileVars /\ UNCHANGED listVars /\ UNCHANGED requestVars
  <2>1. target[r] # None
    BY DEF Wake, Drained, GiveUp, TimedOut
  <2>2. target[r] \in Plugin
    BY <2>1 DEF Inv, TypeOK
  <2> QED
    BY <2>2 DEF Wake, Drained, GiveUp
<1>2. /\ left[r] \in SUBSET Plugin /\ adding[r] \in SUBSET Plugin
      /\ cached \in Lists /\ current \in SUBSET Plugin /\ forced \in SUBSET Plugin
      /\ file \in Lists /\ writes \in 0 .. MaxWrites
      /\ dirty \in BOOLEAN /\ recent \in BOOLEAN /\ expired \in BOOLEAN
      /\ cached \in {None, current}
  BY DEF Inv, TypeOK
<1>3. /\ forced \subseteq forced' /\ forced' \in SUBSET Plugin
      /\ \A p \in {target[r]} : Quiet(p) \/ p \in forced'
  <2>1. CASE Drained(r)
    BY <1>2, <2>1 DEF Drained
  <2>2. CASE GiveUp(r)
    BY <1>1, <1>2, <2>2 DEF GiveUp
  <2> QED
    BY <2>1, <2>2 DEF Wake
<1>4. /\ UNCHANGED <<file, writes, dirty, recent, cached, current, expired>>
      /\ UNCHANGED requestVars
  BY <1>1 DEF fileVars, listVars
<1> HIDE DEF Inv, Wake
<1> QED
  BY <1>1, <1>2, <1>3, <1>4, StretchStep

LEMMA NextStep ==
    ASSUME Inv, [Next]_vars
    PROVE  Good
<1>0. /\ file \in Lists /\ writes \in 0 .. MaxWrites
      /\ dirty \in BOOLEAN /\ recent \in BOOLEAN /\ expired \in BOOLEAN
      /\ MaxWrites \in Nat
  BY ReloadAssumption DEF Inv, TypeOK
<1>1. CASE UNCHANGED vars
  BY <1>0, <1>1, Bystander DEF vars, fileVars, listVars
<1>2. CASE Serves
  BY <1>2, ArriveStep, EnterStep, RequestEndStep DEF Serves
<1>3. CASE \E r \in Reload : Wake(r)
  BY <1>3, WakeStep
<1>4. ASSUME NEW list \in Lists, Write(list) PROVE Good
  <2>1. writes' \in 0 .. MaxWrites /\ dirty' \in BOOLEAN /\ file' = list /\ recent' = recent
    BY <1>0, <1>4 DEF Write
  <2>2. UNCHANGED <<listVars, reloadVars, requestVars>>
    BY <1>4 DEF Write
  <2> QED
    BY <1>0, <2>1, <2>2, Bystander DEF listVars
<1>5. ASSUME NEW list \in Lists, NEW r \in Push, ReceiveAllowlist(r, list) PROVE Good
  <2>1. /\ writes' \in 0 .. MaxWrites /\ dirty' \in BOOLEAN /\ file' = list
        /\ recent' = recent /\ Begin(r, list) /\ r \in Reload
    BY <1>0, <1>5 DEF ReceiveAllowlist, Reload
  <2> QED
    BY <1>0, <2>1, BeginStep
<1>6. ASSUME NEW r \in Push, AllowlistUpdated(r) PROVE Good
  <2>1. Begin(r, file) /\ r \in Reload /\ UNCHANGED <<file, writes, dirty, recent>>
    BY <1>6 DEF AllowlistUpdated, Reload, fileVars
  <2> QED
    BY <1>0, <2>1, BeginStep
<1>7. ASSUME NEW r \in {Watchdog, Expiry}, FireCallback(r), dirty' \in BOOLEAN,
             UNCHANGED <<file, writes>>
      PROVE  Good
  <2>1. recent' \in BOOLEAN /\ r \in Reload
    BY <1>0, <1>7 DEF FireCallback, Reload
  <2>2. CASE UNCHANGED <<recent, listVars, reloadVars, requestVars>>
    BY <1>0, <1>7, <2>1, <2>2, Bystander DEF listVars
  <2>3. CASE Begin(r, file)
    BY <1>0, <1>7, <2>1, <2>3, BeginStep
  <2> QED
    BY <1>7, <2>2, <2>3 DEF FireCallback
<1>8. CASE WatchLoop \/ ExpiryCheckLoop
  BY <1>0, <1>7, <1>8 DEF WatchLoop, ExpiryCheckLoop
<1>9. CASE Expire
  <2>1. /\ UNCHANGED <<dirty, recent, cached, current, reloadVars, requestVars>>
        /\ file' \in Lists /\ writes' \in 0 .. MaxWrites /\ expired' \in BOOLEAN
    BY <1>0, <1>9 DEF Expire, Lists
  <2> QED
    BY <1>0, <2>1, Bystander
<1>10. CASE DebounceEnds
  <2>1. /\ UNCHANGED <<file, writes, dirty, expired>> /\ recent' \in BOOLEAN
        /\ UNCHANGED <<cached, current, reloadVars, requestVars>>
    BY <1>10 DEF DebounceEnds, listVars
  <2> QED
    BY <1>0, <2>1, Bystander
<1> QED
  BY <1>1, <1>2, <1>3, <1>4, <1>5, <1>6, <1>8, <1>9, <1>10 DEF Next

THEOREM Invariance == Safety => []Inv
<1>1. Inv /\ [Next]_vars => Inv'
  BY NextStep DEF Good
<1> QED
  BY InitInv, <1>1, PTL DEF Safety

(***************************************************************************)
(* The theorems.                                                           *)
(***************************************************************************)
\* The state of the hot reload (plugins_ee.PluginDrainer and the lists of
\* plugin_security and main.py) has its type, however reloads overlap.
THEOREM ReloadTypeCorrect == Safety => []TypeOK
<1>1. Inv => TypeOK
  BY DEF Inv
<1> QED
  BY Invariance, <1>1, PTL

\* Whatever overlaps, no plugin stays registered, or reachable under its own
\* paths, that is not on the last list that verified, unless a reload is about
\* to unmount it (_hot_reload_plugins).  Routes behind the bridge are not
\* meant: MCPluginWrapped.cfg shows that they stay.
THEOREM RevocationIsEnforced == Safety => []RevokedIsUnmounted
<1>1. Inv => RevokedIsUnmounted
  BY DEF Inv
<1> QED
  BY Invariance, <1>1, PTL

\* The drainer's counters count the requests that run, of every plugin of
\* which no drain timed out (PluginDrainer.request_start, request_end, drain).
THEOREM CountersCountRequests == Safety => []CountExact
<1>1. Inv => CountExact
  BY DEF Inv
<1> QED
  BY Invariance, <1>1, PTL

\* Only a drain that timed out lets a plugin be shut down under a request.
THEOREM OnlyForcedUnmountsDisturb == Safety => UnmountsQuietly
<1>1. Inv /\ [Next]_vars => [\A p \in loaded \ loaded' : p \in forced' \/ Running(p) = {}]_vars
  BY NextStep DEF Good
<1> QED
  BY Invariance, <1>1, PTL DEF Safety, UnmountsQuietly

==============================================================================
