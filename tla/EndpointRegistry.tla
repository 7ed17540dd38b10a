--------------------------- MODULE EndpointRegistry ---------------------------
(***************************************************************************)
(* The endpoint registry of the data node daemon                           *)
(* (services/data-node/endpoint_registry.zig), with the file that keeps    *)
(* the desired endpoints, the control requests that call it                *)
(* (endpoint_control.zig, dispatch) and the daemon's start and end         *)
(* (endpoint_daemon.zig, serve).                                           *)
(*                                                                         *)
(* One server thread makes every call, so calls never overlap; what makes  *)
(* the registry hard is what may fail inside a call (the replacement of    *)
(* the file, in two places; the start; the two halves of a stop) and a     *)
(* crash of the process or of the machine between two steps of a call.     *)
(*                                                                         *)
(* A call that is rejected before it changes anything (EndpointConflict,   *)
(* EndpointStopping, PoolBusy, TooManyEndpoints, InvalidEndpointSpec) and  *)
(* the read-only calls inspect and list are not steps.                     *)
(***************************************************************************)
EXTENDS Naturals, FiniteSets

CONSTANTS
    Specs,          \* the endpoint specs clients ask for: [id, pool, volume]
    MaxEndpoints,   \* max_endpoint_count
    MaxUnsynced     \* bound: unsynced renames between two directory syncs

ASSUME ConstantsAssumption ==
    /\ \A s \in Specs : DOMAIN s = {"id", "pool", "volume"}
    /\ MaxEndpoints \in Nat \ {0}
    /\ MaxUnsynced \in Nat

VARIABLES
    serving,    \* the daemon is up and its control socket answers
    file,       \* the specs the state file names now
    survivors,  \* every content a power loss may leave the file with
    entries,    \* Registry.entries: [spec, desired, phase, runtime]
    call,       \* the call the server thread is inside of, or NoCall
    promised,   \* specs ensure answered for, and nobody asked to release since
    released,   \* ids release answered for, and nobody asked to ensure since
    doubted     \* ids of the calls whose replacement failed past its rename

vars == <<serving, file, survivors, entries, call, promised, released, doubted>>

NoCall == [op |-> "none"]

EnsureCall(spec) == [op |-> "ensure", spec |-> spec]

ReleaseCall(id) == [op |-> "release", id |-> id]

Ids == {s.id : s \in Specs}

Entry(spec) ==
    [spec |-> spec, desired |-> TRUE, phase |-> "pending", runtime |-> "none"]

Entries ==
    [spec : Specs, desired : BOOLEAN,
     phase : {"pending", "active", "failed", "stopping"},
     runtime : {"none", "export", "pool"}]

-----------------------------------------------------------------------------
(* What the calls compute.                                                 *)

\* Defect: the saved list is taken from the endpoints that run.
RunningOnly ==
    {e.spec : e \in {x \in entries : x.desired /\ x.runtime # "none"}}

\* The specs copyDesired collects: what the next replacement is built from.
Desired == {e.spec : e \in {x \in entries : x.desired}}

\* Defect: the list that release saves still holds the endpoint.
DesiredStill(spec) == Desired

\* The specs release saves.
DesiredWithout(spec) == Desired \ {spec}

\* readFileAlloc returns the file of these specs. loadOpaque limits it to
\* max_state_bytes, the size of a file of max_endpoint_count records, and the
\* standard library answers StreamTooLong once the limit is reached, not only
\* when it is exceeded.
ReadsWhole(specs) == Cardinality(specs) < MaxEndpoints

\* The file of these specs is read and Registry.init accepts what it names.
Loads(specs) ==
    /\ ReadsWhole(specs)
    /\ Cardinality(specs) <= MaxEndpoints
    /\ \A s, t \in specs : s # t => s.id # t.id /\ s.pool # t.pool

\* Defect: an endpoint that is being stopped no longer keeps its Pool.
BusyIfDesired(pool) == \E e \in entries : e.desired /\ e.spec.pool = pool

\* Defect: a wanted endpoint that did not start does not keep its Pool.
BusyIfRunning(pool) == \E e \in entries : e.runtime # "none" /\ e.spec.pool = pool

\* The Pool belongs to an endpoint that is wanted or still runs.
PoolBusy(pool) ==
    \E e \in entries : (e.desired \/ e.runtime # "none") /\ e.spec.pool = pool

\* There is room for one more endpoint.
HasRoom == Cardinality(Desired) # MaxEndpoints

\* Defect: the phase is set although nothing was kept to stop later.
StartForgets(e) ==
    {[e EXCEPT !.phase = "active"], [e EXCEPT !.phase = "failed"]}

\* The outcomes of startEntry. A failed backend start leaves nothing behind;
\* a bad locator is rolled back, or the process ends.
StartEntry(e) ==
    {[e EXCEPT !.phase = "active", !.runtime = "export"],
     [e EXCEPT !.phase = "failed"]}

\* The outcomes of a stop that fails: the export would not close, or it did
\* and the Pool would not.
StopFails(e) ==
    {[e EXCEPT !.phase = "stopping", !.runtime = r] :
        r \in IF e.runtime = "export" THEN {"export", "pool"} ELSE {"pool"}}

-----------------------------------------------------------------------------
(* The state file: a temporary file is written and synced, renamed over    *)
(* the old one, and the directory is synced. An error before the rename    *)
(* changes nothing; one after it leaves the new content in place, not yet  *)
(* durable. A crash between the rename and the directory's sync leaves     *)
(* what ReplaceFailsLate leaves, with no answer to the client.             *)

\* encode accepts no more specs than the limit.
Encodes(specs) == Cardinality(specs) <= MaxEndpoints

ReplaceOk(specs) ==
    /\ Encodes(specs)
    /\ file' = specs
    /\ survivors' = {specs}
    /\ UNCHANGED doubted

ReplaceFailsLate(specs, id) ==
    /\ Encodes(specs)
    /\ Cardinality(survivors) <= MaxUnsynced
    /\ file' = specs
    /\ survivors' = survivors \union {specs}
    /\ doubted' = doubted \union {id}

ReplaceFails(specs, id) ==
    \/ UNCHANGED <<file, survivors, doubted>>
    \/ ReplaceFailsLate(specs, id)

-----------------------------------------------------------------------------
Init ==
    /\ serving = FALSE
    /\ file = {}
    /\ survivors = {{}}
    /\ entries = {}
    /\ call = NoCall
    /\ promised = {}
    /\ released = {}
    /\ doubted = {}

\* serve: load the file, start what it names, open the control socket.
Serve ==
    /\ ~serving
    /\ Loads(file)
    /\ serving' = TRUE
    /\ \E outcome \in [file -> UNION {StartEntry(Entry(s)) : s \in file}] :
          /\ \A s \in file : outcome[s] \in StartEntry(Entry(s))
          /\ entries' = {outcome[s] : s \in file}
    /\ UNCHANGED <<file, survivors, call, promised, released, doubted>>

\* The daemon ends: an orderly shutdown, which stops the endpoints and leaves
\* the file alone, a panic, or a kill. What it ran dies with it.
ProcessEnds ==
    /\ serving
    /\ serving' = FALSE
    /\ entries' = {}
    /\ call' = NoCall
    /\ UNCHANGED <<file, survivors, promised, released, doubted>>

\* The machine stops: the directory comes back with any content that was not
\* superseded durably.
PowerLoss ==
    /\ \E s \in survivors : file' = s /\ survivors' = {s}
    /\ serving' = FALSE
    /\ entries' = {}
    /\ call' = NoCall
    /\ UNCHANGED <<promised, released, doubted>>

Answering == serving /\ call = NoCall

Ensured(spec) ==
    /\ promised' = promised \union {spec}
    /\ released' = released \ {spec.id}

Forget(id) == promised' = {s \in promised : s.id # id}

\* ensure of an endpoint that is there: start it unless it runs. The server
\* answers with the endpoint even when the start fails.
EnsureExisting(spec) ==
    /\ Answering
    /\ \E e \in entries :
          /\ e.spec = spec
          /\ e.desired
          /\ \E started \in IF e.runtime = "none" THEN StartEntry(e) ELSE {e} :
                entries' = (entries \ {e}) \union {started}
    /\ Ensured(spec)
    /\ UNCHANGED <<serving, file, survivors, call, doubted>>

\* ensure of a new endpoint saves it first; if that fails, the client is told.
EnsureNew(spec) ==
    /\ Answering
    /\ \A e \in entries : e.spec.id # spec.id
    /\ ~PoolBusy(spec.pool)
    /\ HasRoom
    /\ \/ /\ ReplaceOk(Desired \union {spec})
          /\ call' = EnsureCall(spec)
       \/ /\ ReplaceFails(Desired \union {spec}, spec.id)
          /\ UNCHANGED call
    /\ released' = released \ {spec.id}
    /\ UNCHANGED <<serving, entries, promised>>

\* ... and then starts it and answers, whether it started or not.
EnsureStart(spec) ==
    /\ serving
    /\ call = EnsureCall(spec)
    /\ \E started \in StartEntry(Entry(spec)) :
          entries' = entries \union {started}
    /\ Ensured(spec)
    /\ call' = NoCall
    /\ UNCHANGED <<serving, file, survivors, doubted>>

\* release of a desired endpoint saves the others first; if that fails, the
\* endpoint stays and the client is told.
ReleaseDesired(id) ==
    /\ Answering
    /\ \E e \in entries :
          /\ e.spec.id = id
          /\ e.desired
          /\ \/ /\ ReplaceOk(DesiredWithout(e.spec))
                /\ entries' = (entries \ {e}) \union
                       {[e EXCEPT !.desired = FALSE, !.phase = "stopping"]}
                /\ call' = ReleaseCall(id)
             \/ /\ ReplaceFails(DesiredWithout(e.spec), id)
                /\ UNCHANGED <<entries, call>>
    /\ Forget(id)
    /\ UNCHANGED <<serving, released>>

\* ... and then stops it, as does a later release of an endpoint whose stop
\* failed. The client is told it is released, or that it is stopping.
ReleaseStop(id) ==
    /\ serving
    /\ call \in {NoCall, ReleaseCall(id)}
    /\ \E e \in entries :
          /\ e.spec.id = id
          /\ ~e.desired
          /\ \/ entries' = entries \ {e}
             \/ /\ e.runtime # "none"
                /\ \E left \in StopFails(e) :
                      entries' = (entries \ {e}) \union {left}
    /\ call' = NoCall
    /\ released' = released \union {id}
    /\ UNCHANGED <<serving, file, survivors, promised, doubted>>

\* release of an endpoint that is not there succeeds.
ReleaseAbsent(id) ==
    /\ Answering
    /\ \A e \in entries : e.spec.id # id
    /\ released' = released \union {id}
    /\ Forget(id)
    /\ UNCHANGED <<serving, file, survivors, entries, call, doubted>>

Next ==
    \/ Serve
    \/ ProcessEnds
    \/ PowerLoss
    \/ \E spec \in Specs :
          EnsureExisting(spec) \/ EnsureNew(spec) \/ EnsureStart(spec)
    \/ \E id \in Ids :
          ReleaseDesired(id) \/ ReleaseStop(id) \/ ReleaseAbsent(id)

Spec == Init /\ [][Next]_vars

-----------------------------------------------------------------------------
(* Properties.                                                             *)

\* The registry's state is well formed: one entry for an endpoint id; an entry
\* shown as active has the runtime whose locator viewOf hands out; an entry
\* that is no longer desired is there only because it still runs, or because
\* release is about to look at it.
TypeOK ==
    /\ serving \in BOOLEAN
    /\ file \subseteq Specs
    /\ survivors \subseteq SUBSET Specs
    /\ entries \subseteq Entries
    /\ \A e, f \in entries : e.spec.id = f.spec.id => e = f
    /\ \A e \in entries : e.phase = "active" => e.runtime = "export"
    /\ \A e \in entries :
          ~e.desired /\ e.runtime = "none" => call = ReleaseCall(e.spec.id)
    /\ call \in {NoCall} \union {EnsureCall(s) : s \in Specs}
                         \union {ReleaseCall(id) : id \in Ids}
    /\ promised \subseteq Specs
    /\ released \subseteq Ids
    /\ doubted \subseteq Ids

\* A Pool is never given to a second endpoint while the first is wanted or any
\* part of it still runs, a half-finished stop included: two exports would
\* otherwise open the same Pool (ensure's PoolBusy check).
OneEndpointPerPool ==
    \A e, f \in entries : e # f => e.spec.pool # f.spec.pool

\* Whatever failed and whenever the machine stops, a file left behind that is
\* not full is one that Registry.init accepts: no two endpoints in it share an
\* id or a Pool, although an endpoint may be saved while another one of its
\* Pool failed to start, is half stopped or was left in the file by a failed
\* save. InvalidDesiredState would lock the daemon out.
RestartLoadsUnlessFull ==
    \A s \in survivors : Cardinality(s) # MaxEndpoints => Loads(s)

\* shutdown's comment: every desired endpoint is preserved "for the next process
\* startup and reconciliation". So whatever the number of endpoints that ensure
\* accepted, every file a crash or shutdown leaves is loaded by the next start.
RestartAlwaysLoads == \A s \in survivors : Loads(s)

\* An endpoint that ensure answered for, and that nobody asked to release
\* since, is in every file a crash or power loss can leave, unless a
\* replacement about this endpoint failed after its rename: a failed call
\* about one endpoint never costs another one its durability.
AcknowledgedEnsureSurvives ==
    \A spec \in promised :
        spec.id \notin doubted => \A s \in survivors : spec \in s

\* An endpoint whose release was answered is in no file a crash can leave
\* until someone asks for it again, with the same exception: a stop that fails
\* or is retried never brings it back.
ReleasedStaysReleased ==
    \A id \in released \ doubted :
        \A s \in survivors : \A spec \in s : spec.id # id

\* ensure is durable and idempotent: an endpoint it answered for, and that
\* nobody asked to release since, is in the file after any crash.
EnsureIsDurable ==
    \A spec \in promised : \A s \in survivors : spec \in s

=============================================================================
