------------------------------ MODULE Gateway ------------------------------
(***************************************************************************)
(* From the arrival of a request to the choice of its path: the router      *)
(* (src/router.go), the two passes of the request interceptor               *)
(* (src/plugin.go over SessionHeaders), the stamp that ties a conversation  *)
(* to a session of the pool (assign in src/free.go), the switch between the *)
(* free tier and the paid keys (Execute), and under them the plugin         *)
(* instance that the host may replace or drop at any moment                 *)
(* (src/cmd/zen/abi.go).                                                    *)
(*                                                                          *)
(* The host calls the plugin once per step; each call takes the instance    *)
(* that is current then.  Requests are followed one at a time, turn after   *)
(* turn; what the others do to the pool meanwhile is OtherReports.          *)
(***************************************************************************)
EXTENDS SessionPool, SessionHeaders, FiniteSets

CONSTANTS
    Models,         \* normalized model names
    Configs,        \* the configurations the host may register
    Headers,        \* the headers a client may send, as spellings
    NumSources,     \* length of sessionSources: 9 in the code
    Requests,       \* the requests that may arrive
    Home,           \* fnvHash(id) % len(sessions), for every identity
    Cooldown,       \* the cooldown other requests report
    MaxTurns,       \* bound on the requests followed
    MaxRegisters,   \* bound on the registrations
    MaxTime         \* bound on the clock

ASSUME GatewayAssumption ==
    /\ \A c \in Configs :
          /\ DOMAIN c = {"mapping", "freeOn", "paid", "free"}
          /\ c.mapping \in BOOLEAN /\ c.freeOn \in BOOLEAN
          /\ c.paid \subseteq Models /\ c.free \subseteq Models
    /\ NumSources \in Nat /\ Cooldown \in Nat
    /\ MaxTurns \in Nat /\ MaxRegisters \in Nat /\ MaxTime \in Nat
    /\ Home \in [Ids -> Sessions]

(* The values of a header are what normalizeSessionID makes of them.        *)
ASSUME HeadersAssumption == Headers \subseteq Seq(Seq(Ids \cup {Invalid}))

Fresh == [s \in Sessions |-> [fails |-> 0, until |-> 0]]

(* An instance of the plugin, numbered in the order in which the instances  *)
(* are built; None stands for the nil pointer.                              *)
None == [number |-> 0]
Instances == [number : 1 .. MaxRegisters + 1, cfg : Configs]

(* A request: what the client sends in the session sources and in           *)
(* X-Opencode-Session, the model, the session the client pins itself in     *)
(* X-Zen-Pool-Session (scripts/e2e/cases.py does), what the host puts       *)
(* in canonical_session_id on the after-auth pass, whether the host calls   *)
(* through the Go API or the C ABI, and whether the interceptor's envelope  *)
(* exceeds 64 MiB there.                                                    *)
RequestType == [sources : [1 .. NumSources -> Headers], own : Headers,
                model : Models, pin : Sessions \cup {NoSession},
                canonical : Ids \cup {NoId, Invalid},
                door : {"direct", "abi"}, large : BOOLEAN]

ASSUME RequestsAssumption == Requests \subseteq RequestType

NoRequest == [door |-> "none"]

VARIABLES
    plugin,     \* abiState.plugin
    builds,     \* the instances built and not stored yet
    built,      \* how many instances were built
    pool,       \* sessionPool.sessions of the current instance
    now,        \* the clock in seconds
    turn,       \* how many requests have arrived
    pc,         \* the host's next call for the request
    req,        \* the request
    forwarded,  \* X-Opencode-Session as the plugin set it
    stamp,      \* X-Zen-Pool-Session
    outcome,    \* who answers
    routed,     \* history: the instance that claimed the model
    bound       \* history: the last binding of a conversation to a session

vars == <<plugin, builds, built, pool, now, turn, pc, req, forwarded,
          stamp, outcome, routed, bound>>
requestVars == <<turn, pc, req, forwarded, stamp, outcome, routed, bound>>
pluginVars == <<plugin, builds, built, pool, now>>

UsableSet(p, t) == {s \in Sessions : Usable(p[s], t)}

(* A deliberate fault: free names are claimed although the tier is off.     *)
ClaimedAnyway(c) == c.paid \cup c.free

(* buildIndexes: the names the router hijacks.  Free names are claimed only *)
(* when the free tier is on.                                                *)
Claimed(c) == c.paid \cup (IF c.freeOn THEN c.free ELSE {})

(* freeEntry: free takes precedence over paid.                              *)
FreeEntry(c, m) == c.freeOn /\ m \in c.free

-----------------------------------------------------------------------------
(* The host sends a request, in any state the plugin is in.                 *)
Arrive(r) ==
    /\ pc = "idle" /\ turn < MaxTurns
    /\ turn' = turn + 1
    /\ pc' = "route"
    /\ req' = r
    /\ forwarded' = NoId
    /\ stamp' = r.pin
    /\ outcome' = "none"
    /\ routed' = 0
    /\ UNCHANGED <<bound, pluginVars>>

(* The request is over: who answers it is decided, its headers are gone.    *)
Leave(who) ==
    /\ pc' = "idle" /\ outcome' = who
    /\ req' = NoRequest /\ forwarded' = NoId /\ stamp' = NoSession /\ routed' = 0

(* RouteModel.  Without an instance the call fails, and the host goes on to *)
(* its native channels as it does for a model that is not claimed.          *)
Route ==
    /\ pc = "route"
    /\ IF plugin # None /\ req.model \in Claimed(plugin.cfg)
       THEN /\ pc' = "before"
            /\ routed' = plugin.number
            /\ UNCHANGED <<req, forwarded, stamp, outcome>>
       ELSE Leave("native")
    /\ UNCHANGED <<turn, bound, pluginVars>>

(* A deliberate fault: the probe counts places among the usable sessions.   *)
AssignedAmongUsable(p, from, t, s) ==
    LET good == UsableSet(p, t)
    IN  \/ good = {} /\ s = NoSession
        \/ /\ s \in good
           /\ Cardinality({x \in good : x < s}) = from % Cardinality(good)

(* A deliberate fault: the probe stops one session short of the round.      *)
AssignedShort(p, from, t, s) == FirstUsableShort(p, from, t, s)

(* assign: the first usable session from the conversation's place on.       *)
Assigned(p, from, t, s) == FirstUsable(p, from, t, s)

(* The model as interceptSession sees it: the projection the C ABI decodes  *)
(* carries headers and metadata, and neither Model nor RequestedModel.      *)
VisiblyFree == req.door = "direct" /\ FreeEntry(plugin.cfg, req.model)

(* X-Opencode-Session as a pass finds it: the client's own header, or what  *)
(* an earlier pass has set.                                                 *)
OwnHeader == IF forwarded # NoId THEN << <<forwarded>> >> ELSE req.own

(* The conversation the stamp is for; NoId when there is none.              *)
StickyId(canonical) ==
    {Downstream(r, canonical) : r \in Readings(req.sources)}

(* interceptSession, with the metadata of the pass.  A refused or failed    *)
(* call leaves the headers as they are.  The host replaces the headers the  *)
(* answer names.                                                            *)
Refused == plugin = None \/ (req.door = "abi" /\ req.large)

MapHeaders(canonical) ==
    IF plugin.cfg.mapping
    THEN \E own \in HeaderValue(OwnHeader), r \in Readings(req.sources) :
            LET id == Mapped(own, r, canonical)
            IN  forwarded' = IF id # NoId THEN id ELSE forwarded
    ELSE UNCHANGED forwarded

Bind(canonical) ==
    IF ~VisiblyFree THEN UNCHANGED <<stamp, bound>>
    ELSE \E id \in StickyId(canonical) :
            IF id = NoId THEN UNCHANGED <<stamp, bound>>
            ELSE \E s \in Sessions \cup {NoSession} :
                    /\ Assigned(pool, Home[id], now, s)
                    /\ stamp' = IF s # NoSession THEN s ELSE stamp
                    /\ bound' = [id |-> id, session |-> s, by |-> plugin.number,
                                 usable |-> UsableSet(pool, now)]

Pass(canonical) ==
    /\ IF Refused THEN UNCHANGED <<forwarded, stamp, bound>>
       ELSE MapHeaders(canonical) /\ Bind(canonical)
    /\ UNCHANGED <<turn, req, outcome, routed, pluginVars>>

(* Before credential selection the metadata has no canonical_session_id.    *)
Before == pc = "before" /\ Pass(NoId) /\ pc' = "after"
After == pc = "after" /\ Pass(req.canonical) /\ pc' = "execute"

(* Execute and ExecuteStream: the free tier for a free model, the paid keys *)
(* for everything else.                                                     *)
Execute ==
    /\ pc = "execute"
    /\ Leave(IF plugin = None THEN "error"
             ELSE IF FreeEntry(plugin.cfg, req.model) THEN "free" ELSE "paid")
    /\ UNCHANGED <<turn, bound, pluginVars>>

-----------------------------------------------------------------------------
(* handleRegister, for register and reconfigure: an instance is built       *)
(* outside the lock and stored under it; registrations may overlap, and the *)
(* last to be stored stays.  The new instance reads its own pool: the file  *)
(* the running one keeps saving, or a freshly minted one.                   *)
RegisterBuild(c) ==
    /\ built < MaxRegisters
    /\ built' = built + 1
    /\ builds' = builds \cup {[number |-> built + 2, cfg |-> c]}
    /\ UNCHANGED <<plugin, pool, now, requestVars>>

RegisterStore(i, file) ==
    /\ i \in builds
    /\ builds' = builds \ {i}
    /\ plugin' = i
    /\ pool' = file
    /\ UNCHANGED <<built, now, requestVars>>

(* ZenPluginShutdown: a registration that is being built may still store.   *)
Shutdown ==
    /\ plugin # None
    /\ plugin' = None
    /\ UNCHANGED <<builds, built, pool, now, requestVars>>

(* Another request reports on a session it has used.  A session it holds    *)
(* can be dead already; the counter is followed to FailLimit only, beyond   *)
(* which it makes no difference.                                            *)
OtherReports(s, ok, cooldown) ==
    /\ plugin # None
    /\ ok \/ pool[s].fails < FailLimit
    /\ pool' = Report(pool, s, ok, cooldown, now)
    /\ UNCHANGED <<plugin, builds, built, now, requestVars>>

Tick ==
    /\ now < MaxTime
    /\ now' = now + 1
    /\ UNCHANGED <<plugin, builds, built, pool, requestVars>>

Unbound == [id |-> NoId, session |-> NoSession, by |-> 0, usable |-> {}]

(* The host has registered once; the calls it makes before that fail as     *)
(* they do after a shutdown.                                                *)
Init ==
    /\ plugin \in {[number |-> 1, cfg |-> c] : c \in Configs}
    /\ builds = {}
    /\ built = 0
    /\ pool = Fresh
    /\ now = 0
    /\ turn = 0
    /\ pc = "idle"
    /\ req = NoRequest
    /\ forwarded = NoId
    /\ stamp = NoSession
    /\ outcome = "none"
    /\ routed = 0
    /\ bound = Unbound

Next ==
    \/ \E r \in Requests : Arrive(r)
    \/ Route \/ Before \/ After \/ Execute
    \/ \E c \in Configs : RegisterBuild(c)
    \/ \E i \in builds : RegisterStore(i, pool) \/ RegisterStore(i, Fresh)
    \/ Shutdown
    \/ \E s \in Sessions : OtherReports(s, TRUE, 0) \/ OtherReports(s, FALSE, Cooldown)
    \/ Tick

Spec == Init /\ [][Next]_vars

-----------------------------------------------------------------------------
(* The types of the variables.                                              *)
TypeOK ==
    /\ plugin \in {None} \cup Instances
    /\ builds \subseteq Instances /\ built \in 0 .. MaxRegisters
    /\ pool \in [Sessions -> Health] /\ now \in 0 .. MaxTime
    /\ turn \in 0 .. MaxTurns
    /\ pc \in {"idle", "route", "before", "after", "execute"}
    /\ req \in Requests \cup {NoRequest}
    /\ forwarded \in Ids \cup {NoId}
    /\ stamp \in Sessions \cup {NoSession}
    /\ outcome \in {"none", "native", "error", "free", "paid"}
    /\ routed \in 0 .. MaxRegisters + 1
    /\ bound \in [id : Ids \cup {NoId}, session : Sessions \cup {NoSession},
                  by : 0 .. MaxRegisters + 1, usable : SUBSET Sessions]

(* Every header of a request reads the same in every order in which Go may  *)
(* walk the map, and as what all its spellings agree on (sessionHeaderValue: *)
(* "fail closed instead of selecting a value using randomized map order").  *)
ScanOrderIrrelevant ==
    pc = "route" =>
        \A h \in {req.sources[i] : i \in 1 .. NumSources} \cup {req.own} :
            HeaderValue(h) = {Agreed(h)}

(* A request leaves with at most one identity: what the client sends as     *)
(* X-Opencode-Session is never overridden, and what one pass has mapped no  *)
(* later pass replaces, whichever instance answers it and whatever the host *)
(* has computed in between.                                                 *)
OneIdentity ==
    [][(pc \in {"before", "after"}) =>
          /\ forwarded # NoId => forwarded' = forwarded
          /\ req.own # <<>> => forwarded' = NoId]_vars

(* When the first source the client sends is empty, invalid or              *)
(* contradictory, no identity is mapped in any pass: not one from a source  *)
(* of lower priority, and not the one the host computes afterwards.         *)
FailClosed ==
    req # NoRequest =>
        LET sent == {i \in 1 .. NumSources : req.sources[i] # <<>>}
        IN  (sent # {} /\ Agreed(req.sources[First(sent)]) = Closed)
                => forwarded = NoId

(* The conversation whose identity goes upstream is the conversation the    *)
(* pool session was chosen for: the two scans, which differ in what they do *)
(* with a closed source, never name different ones.                         *)
IdentitiesAgree ==
    [][(pc \in {"before", "after"} /\ bound' # bound /\ forwarded' # NoId)
          => bound'.id = forwarded']_vars

(* A conversation stays on its session from one turn to the next as long as *)
(* the session is usable and no other has come back: sessions that die      *)
(* elsewhere in the pool move only their own conversations.                 *)
StaysPut ==
    [][(/\ bound'.id = bound.id /\ bound'.by = bound.by
        /\ bound.session \in bound'.usable
        /\ bound'.usable \subseteq bound.usable)
          => bound'.session = bound.session]_vars

(* A request for a free model that names its conversation leaves every pass *)
(* of the Go API with a usable session in its stamp, if there is one.       *)
ReadyToStamp ==
    /\ pc \in {"before", "after"} /\ ~Refused
    /\ FreeEntry(plugin.cfg, req.model)
    /\ UsableSet(pool, now) # {}
    /\ \E i \in 1 .. NumSources : Agreed(req.sources[i]) \notin {Absent, Closed}

DirectRequestIsStamped ==
    [][(ReadyToStamp /\ req.door = "direct" /\ pc' # pc)
          => stamp' \in UsableSet(pool, now)]_vars

(* The same of every request: "bind the downstream conversation to one pool *)
(* session so consecutive turns share upstream affinity" (plugin.go), and   *)
(* "free-bound request with session must be stamped" (zen_test.go).  Behind *)
(* the C ABI no pass sees the model.                                        *)
FreeRequestIsStamped ==
    [][(ReadyToStamp /\ pc' # pc) => stamp' \in UsableSet(pool, now)]_vars

(* A request that is hijacked and served by one and the same instance has   *)
(* somewhere to go: the paid keys get only the models that are theirs.  In  *)
(* particular a free model of a tier that is off is left to the native      *)
(* channels (buildIndexes: "instead of being hijacked with nowhere to go"). *)
HijackedHasPath ==
    [][(pc = "execute" /\ pc' # pc /\ plugin # None /\ plugin.number = routed)
          => (\/ outcome' = "free" /\ plugin.cfg.freeOn /\ req.model \in plugin.cfg.free
              \/ outcome' = "paid" /\ req.model \in plugin.cfg.paid)]_vars
=============================================================================
