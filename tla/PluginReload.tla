---------------------------- MODULE PluginReload ----------------------------
(***************************************************************************)
(* The hot reload of plugins: the allowlist file and its watchdog          *)
(* (core/ee/allowlist_watchdog.ee.py), the internal API that pushes a new  *)
(* allowlist (core/ee/internal_api.ee.py), the reload callback             *)
(* _hot_reload_plugins (core/api/main.py), and the drainer and the manager *)
(* (core/ee/plugins_ee.py), beside the requests the plugins serve.         *)
(*                                                                         *)
(* Everything runs on one event loop.  _reload_lock is released before the *)
(* first await of the callback, so reloads overlap; a step ends where a    *)
(* coroutine awaits, which in a reload is the sleep of a drain.            *)
(***************************************************************************)
EXTENDS Integers, FiniteSets

CONSTANTS Plugin,
          Encrypted,  \* the marketplace plugins, which start behind the bridge
          Request,
          Push,       \* the requests to the internal API
          Watchdog,   \* the task that watches the file
          Expiry,     \* the task that looks whether the list has expired
          None,
          MaxWrites   \* bound: how often the allowlist file changes, or expires

Reload == Push \cup {Watchdog, Expiry}
Lists == {None} \cup SUBSET Plugin

ASSUME ReloadAssumption == /\ None \notin Plugin /\ \A list \in SUBSET Plugin : list # None
                           /\ Encrypted \subseteq Plugin
                           /\ Watchdog \notin Push /\ Expiry \notin Push
                           /\ Watchdog # Expiry
                           /\ IsFiniteSet(Request) /\ MaxWrites \in Nat

VARIABLES
    file,      \* the allowlist on disk, None if it does not verify (any more)
    writes,    \* how often it was written or a list expired
    dirty,     \* a change the watchdog has not looked at
    recent,    \* a task's last callback is less than DEBOUNCE_SECS ago
    cached,    \* _allowed_plugins
    current,   \* _current_allowed, the last list that verified
    expired,   \* the list that was loaded is past its date
    loaded,    \* pm._plugins
    routes,    \* the plugins the app serves under the paths of their routers
    wrapped,   \* the ones it serves under /api/ep/{token}, since the start
    draining,  \* drainer._draining
    inflight,  \* drainer._inflight, 0 for no entry
    target,    \* the plugin a reload drains, None between reloads
    left,      \* the revoked plugins it has still to look at
    adding,    \* its set `added'
    place,     \* where a request is
    serves,    \* the plugin whose route it matched, None while it is away
    forced     \* history: plugins of which a drain timed out
fileVars == <<file, writes, dirty, recent>>
listVars == <<cached, current, expired>>
reloadVars == <<loaded, routes, draining, inflight, target, left, adding, forced>>
requestVars == <<place, serves, wrapped>>
vars == <<fileVars, listVars, reloadVars, requestVars>>

TypeOK ==
    /\ file \in Lists /\ writes \in 0 .. MaxWrites
    /\ dirty \in BOOLEAN /\ recent \in BOOLEAN
    /\ cached \in Lists /\ current \in SUBSET Plugin /\ expired \in BOOLEAN
    /\ loaded \in SUBSET Plugin /\ routes \in SUBSET Plugin
    /\ wrapped \in SUBSET Encrypted /\ draining \in SUBSET Plugin
    /\ inflight \in [Plugin -> Nat]
    /\ target \in [Reload -> Plugin \cup {None}]
    /\ left \in [Reload -> SUBSET Plugin]
    /\ adding \in [Reload -> SUBSET Plugin]
    /\ place \in [Request -> {"away", "routed", "running"}]
    /\ serves \in [Request -> Plugin \cup {None}]
    /\ forced \in SUBSET Plugin

\* The server has started; some of its plugins may have failed to load, and
\* there may be no bridge for the encrypted ones.
Init ==
    /\ file \in Lists /\ writes = 0 /\ dirty = FALSE /\ recent = FALSE
    /\ cached = file /\ expired = FALSE
    /\ current = IF file = None THEN {} ELSE file
    /\ loaded \in SUBSET current
    /\ routes = loaded \ Encrypted
    /\ wrapped \in {{}, loaded \cap Encrypted}
    /\ draining = {} /\ inflight = [p \in Plugin |-> 0]
    /\ target = [r \in Reload |-> None]
    /\ left = [r \in Reload |-> {}]
    /\ adding = [r \in Reload |-> {}]
    /\ place = [q \in Request |-> "away"]
    /\ serves = [q \in Request |-> None]
    /\ forced = {}

(***************************************************************************)
(* Requests to a plugin.                                                   *)
(***************************************************************************)
\* A route is matched; the body is read before the dependencies run.
Arrive(q, p) ==
    /\ place[q] = "away"
    /\ p \in routes \cup wrapped
    /\ place' = [place EXCEPT ![q] = "routed"]
    /\ serves' = [serves EXCEPT ![q] = p]
    /\ UNCHANGED <<fileVars, listVars, reloadVars, wrapped>>

Running(p) == {q \in Request : place[q] = "running" /\ serves[q] = p}

Leave(q) ==
    /\ place' = [place EXCEPT ![q] = "away"]
    /\ serves' = [serves EXCEPT ![q] = None]

Run(q) ==
    /\ place' = [place EXCEPT ![q] = "running"]
    /\ UNCHANGED serves

\* (Fault: the request is counted before the plugin is found to be draining.)
CountedRefusal(q) ==
    /\ inflight' = [inflight EXCEPT ![serves[q]] = @ + 1]
    /\ IF serves[q] \in draining THEN Leave(q) ELSE Run(q)

\* request_start: 403 while the plugin is draining.
RequestStart(q) ==
    \/ serves[q] \in draining /\ Leave(q) /\ UNCHANGED inflight
    \/ /\ serves[q] \notin draining
       /\ inflight' = [inflight EXCEPT ![serves[q]] = @ + 1]
       /\ Run(q)

Enter(q) ==
    /\ place[q] = "routed"
    /\ RequestStart(q)
    /\ UNCHANGED <<fileVars, listVars, loaded, routes, draining, target, left,
                   adding, forced, wrapped>>

\* request_end, in the finally of the dependency.
RequestEnd(q) ==
    /\ place[q] = "running"
    /\ inflight' = [inflight EXCEPT ![serves[q]] = IF @ > 0 THEN @ - 1 ELSE 0]
    /\ Leave(q)
    /\ UNCHANGED <<fileVars, listVars, loaded, routes, draining, target, left,
                   adding, forced, wrapped>>

(***************************************************************************)
(* A reload: drain and unmount what is revoked, then mount what is added.  *)
(***************************************************************************)
\* (Fault: one request more may still run.)
AlmostQuiet(p) == inflight[p] <= 1

Quiet(p) == inflight[p] <= 0

\* (Fault: discovery does not look at the allowlist again.)
AddedAtStart(added, list, there) == added \ there

\* Discovery is gated by the allowlist cached by then, the one of the latest
\* reload; a plugin that is loaded already is left alone.
Mountable(added, list, there) ==
    IF list = None THEN {} ELSE (added \cap list) \ there

\* From one await to the next.  over: the plugin whose drain has ended.  A
\* revoked plugin without requests is drained and unmounted on the way, in
\* any order; the first one with requests is waited for.  unmount_plugin
\* removes the routes whose paths are those of the plugin's router, not the
\* ones behind the bridge.  Mounting may fail before the plugin is registered
\* or after it; a plugin that is encrypted is not wrapped here.
Proceed(r, over, revoked, added, list) ==
    \E quiet \in SUBSET {p \in revoked : Quiet(p)} :
        LET gone == over \cup quiet
            rest == revoked \ quiet
        IN /\ inflight' = [p \in Plugin |-> IF p \in gone THEN 0 ELSE inflight[p]]
           /\ \/ \E p \in rest :
                    /\ ~Quiet(p)
                    /\ target' = [target EXCEPT ![r] = p]
                    /\ left' = [left EXCEPT ![r] = rest \ {p}]
                    /\ adding' = [adding EXCEPT ![r] = added]
                    /\ draining' = (draining \ gone) \cup {p}
                    /\ loaded' = loaded \ gone
                    /\ routes' = routes \ gone
              \/ /\ rest = {}
                 /\ target' = [target EXCEPT ![r] = None]
                 /\ left' = [left EXCEPT ![r] = {}]
                 /\ adding' = [adding EXCEPT ![r] = {}]
                 /\ draining' = draining \ gone
                 /\ \E mounted \in SUBSET Mountable(added, list, loaded \ gone) :
                       /\ loaded' = (loaded \ gone) \cup mounted
                       /\ \E served \in SUBSET mounted :
                             routes' = (routes \ gone) \cup served

\* _hot_reload_plugins up to its first await.  An allowlist that does not
\* verify leaves the plugins as they are.
Begin(r, list) ==
    /\ target[r] = None
    /\ cached' = list /\ expired' = FALSE
    /\ \/ list = None /\ UNCHANGED <<current, reloadVars>>
       \/ /\ list # None
          /\ current' = list
          /\ Proceed(r, {}, current \ list,
                     (list \ current) \cup ((list \cap current) \ loaded), list)
          /\ UNCHANGED forced
    /\ UNCHANGED requestVars

\* A drain ends: nothing is in flight any more ...
Drained(r) ==
    /\ target[r] # None
    /\ Quiet(target[r])
    /\ Proceed(r, {target[r]}, left[r], adding[r], cached)
    /\ UNCHANGED <<fileVars, listVars, requestVars, forced>>

\* (Fault: drain has no deadline.)
NeverTimedOut(r) == target[r] = r

\* Five seconds may pass at any point of a drain.
TimedOut(r) == target[r] # None

\* ... or its deadline has passed: the entry is removed all the same.
GiveUp(r) ==
    /\ TimedOut(r)
    /\ ~Quiet(target[r])
    /\ forced' = forced \cup {target[r]}
    /\ Proceed(r, {target[r]}, left[r], adding[r], cached)
    /\ UNCHANGED <<fileVars, listVars, requestVars>>

(***************************************************************************)
(* What starts a reload.                                                   *)
(***************************************************************************)
\* The plugin manager writes the file, or it stops to verify.
Write(list) ==
    /\ writes < MaxWrites /\ list # file
    /\ file' = list
    /\ writes' = writes + 1
    /\ dirty' = TRUE
    /\ UNCHANGED <<recent, listVars, reloadVars, requestVars>>

\* The date of the list that was loaded passes; the one on disk may be newer.
Expire ==
    /\ cached # None /\ ~expired
    /\ writes < MaxWrites
    /\ expired' = TRUE
    /\ file' \in {file, None}
    /\ writes' = writes + 1
    /\ UNCHANGED <<dirty, recent, cached, current, reloadVars, requestVars>>

\* POST /v1/allowlist: verify, write, call back, without an await between.
ReceiveAllowlist(r, list) ==
    /\ r \in Push /\ list # None
    /\ writes < MaxWrites
    /\ file' = list
    /\ writes' = writes + 1
    /\ dirty' = TRUE
    /\ Begin(r, list)
    /\ UNCHANGED recent

\* POST /internal/allowlist-updated.
AllowlistUpdated(r) ==
    /\ r \in Push
    /\ Begin(r, file)
    /\ UNCHANGED fileVars

\* _fire_callback: dropped within DEBOUNCE_SECS of the last one.  A task
\* awaits its callback, so each of the two has one reload at a time.
FireCallback(r) ==
    /\ target[r] = None
    /\ \/ recent /\ UNCHANGED <<recent, listVars, reloadVars, requestVars>>
       \/ ~recent /\ recent' = TRUE /\ Begin(r, file)

\* The file has changed.
WatchLoop ==
    /\ dirty /\ dirty' = FALSE
    /\ FireCallback(Watchdog)
    /\ UNCHANGED <<file, writes>>

\* The list that was loaded has expired.
ExpiryCheckLoop ==
    /\ expired
    /\ FireCallback(Expiry)
    /\ UNCHANGED <<file, writes, dirty>>

\* The clock.
DebounceEnds ==
    /\ recent /\ recent' = FALSE
    /\ UNCHANGED <<file, writes, dirty, listVars, reloadVars, requestVars>>

Wake(r) == Drained(r) \/ GiveUp(r)
Serves == \E q \in Request : (\E p \in Plugin : Arrive(q, p)) \/ Enter(q) \/ RequestEnd(q)
Next == \/ Serves
        \/ \E r \in Reload : Wake(r)
        \/ \E list \in Lists : Write(list) \/ \E r \in Push : ReceiveAllowlist(r, list)
        \/ \E r \in Push : AllowlistUpdated(r)
        \/ Expire \/ WatchLoop \/ ExpiryCheckLoop \/ DebounceEnds

Safety == Init /\ [][Next]_vars

\* The loop wakes every sleeper, and a drain has a deadline.  Nothing is
\* assumed of the requests: a plugin may never answer.
Spec == Safety /\ \A r \in Reload : WF_vars(Wake(r))

(***************************************************************************)
(* Properties.                                                             *)
(***************************************************************************)
\* A plugin that is registered, or reachable under its own paths, without
\* being on the last list that verified is one that a reload is about to
\* unmount, however reloads overlap, requests linger and mounts of an earlier
\* reload come after the revocation (_hot_reload_plugins, 551-579, 607-611;
\* the gate of discover_plugins, 636-639).
RevokedIsUnmounted ==
    \A p \in loaded \cup routes :
        p \in current \/ \E r \in Reload : p = target[r] \/ p \in left[r]

\* Until a drain of a plugin has timed out, its counter is the number of
\* requests that are running in it, through drains that overlap and requests
\* that begin after it was unmounted (PluginDrainer, 896-945).
CountExact ==
    \A p \in Plugin \ forced : inflight[p] = Cardinality(Running(p))

\* A plugin is shut down under a running request only if a drain of it has
\* timed out, now or before (PluginDrainer.drain, 921-945, and
\* unmount_plugin, 1151-1202).
UnmountsQuietly ==
    [][\A p \in loaded \ loaded' : p \in forced' \/ Running(p) = {}]_vars

\* Nobody is refused for ever: whatever the requests of a plugin do, each of
\* its drains ends and takes back its mark (drain, 931-945).
RefusalsEnd == \A p \in Plugin : p \in draining ~> p \notin draining

Idle == \A r \in Reload : target[r] = None

\* "When PM writes a new signed allowlist to that path, the watchdog fires
\* and plugins reload automatically" (allowlist_watchdog.ee.py, 20-22).
FileIsFollowed == (Idle /\ ~dirty /\ file # None) => current = file

\* "After drain completes, routes are unmounted (404)" (plugins_ee.py, 878).
RevokedIsUnreachable ==
    Idle => \A p \in routes \cup wrapped : p \in current

\* "reject the expired allowlist, causing plugins to drain"
\* (allowlist_watchdog.ee.py, 199-200).
RejectedIsDrained == (Idle /\ cached = None) => loaded = {}
==============================================================================
