---------------------------- MODULE CatalogCommit ----------------------------
(***************************************************************************)
(* Publication of a catalog generation by ReplicatedJournal on the voters  *)
(* of a Pool, and the PoolMemberSet open that selects the authority again  *)
(* after any failure or crash.                                             *)
(*                                                                         *)
(* A voter's control journal is the sequence of its records.  The history  *)
(* digest of a record identifies the sequence of records up to it, so an   *)
(* authority is a history: a prefix of journals ending in a genesis or a   *)
(* commit.  A catalog root names its whole line of ancestors through       *)
(* previous_root_digest, so a root is the sequence of the proposals that   *)
(* led to it and its generation is the length of that sequence.            *)
(*                                                                         *)
(* The journals are linear (no rollover) and the topology is fixed.  Every *)
(* storage write either succeeds, or fails leaving on the media nothing,   *)
(* a torn image or all of what it wrote; the Member then is frozen.  A     *)
(* crash during a write is such a failure followed by CloseOrCrash.        *)
(***************************************************************************)
EXTENDS Integers, FiniteSets, Sequences, SequencesExt

CONSTANTS
    V,          \* voters of the topology, numbered in topology order
    Proposals,  \* what callers may propose as the next generation
    Orders,     \* orders in which callers list the voters they supply
    Cap         \* record slots of a control journal

ASSUME ConstantsAssumption ==
    /\ V \in 1..3
    /\ Proposals # {}
    /\ Orders # {} /\ Orders \subseteq SetToSeqs(1..V)
    /\ Cap \in Nat /\ Cap > 0

VARIABLES
    \* media of each voter
    log,        \* records of the control journal
    torn,       \* voters whose journal has a damaged slot after its records
    roots,      \* the A and B catalog root slots
    pages,      \* roots all of whose metadata pages are intact
    \* the PoolMemberSet of the session
    mode,       \* closed, reading or writable
    order,      \* voters supplied to open, in the order given
    auth,       \* authority_state: the selected history
    status,     \* statuses
    ready,      \* active members of control_write_state, {} when it is null
    access,     \* data_access_state
    dead,       \* voters whose Member is frozen
    \* the ReplicatedJournal of the session
    coord,      \* a coordinator is open
    parts,      \* its active participants
    frozen,     \* its frozen flag
    pc,         \* phase of the operation in progress
    todo,       \* voters the phase has still to visit
    done,       \* voters the phase has succeeded on
    prop,       \* root being published
    cert,       \* prepare witnesses named by the certificate
    acked       \* history: authority of the last commit reported to a caller

media == <<log, torn, roots, pages>>
set == <<mode, order, auth, status, ready, access, dead>>
operation == <<pc, todo, done, prop, cert>>
coordinator == <<coord, parts, frozen>>
vars == <<media, set, operation, coordinator, acked>>

-----------------------------------------------------------------------------
(* Values                                                                  *)

Voters == 1..V
Topology == [v \in Voters |-> v]

\* pool_policy.controlPolicy
Quorum == IF V = 1 THEN 1 ELSE 2
Quorums == {S \in SUBSET Voters : Cardinality(S) >= Quorum}
FullWidth == IF V = 3 THEN 3 ELSE 1
ReadThreshold == 1

MaxGen == Cap \div 2
Roots == UNION {[1..n -> Proposals] : n \in 1..MaxGen}
NoRoot == <<>>

Record(kind, root, witnesses) == [kind |-> kind, root |-> root, cert |-> witnesses]
Genesis == Record("genesis", NoRoot, {})
GenesisHistory == <<Genesis>>

\* Contents of a root slot: a root, a proper prefix of one over zeros, or
\* bytes that are neither
Zero == [form |-> "zero", root |-> NoRoot]
Whole(r) == [form |-> "whole", root |-> r]
Prefix(r) == [form |-> "prefix", root |-> r]
Invalid == [form |-> "invalid", root |-> NoRoot]

RootOf(history) == Last(history).root
Generation(history) == Len(RootOf(history))

Holds(v, history) == IsPrefix(history, log[v])

-----------------------------------------------------------------------------
(* pool_authority.select over the histories of the supplied voters S       *)

Witnesses(S, history) == {v \in S : Holds(v, history)}

\* Commits found in S whose prepare directly extends the authority
Candidates(S, authority) ==
    {SubSeq(log[v], 1, Len(authority) + 2) :
        v \in {w \in S : /\ Holds(w, authority)
                         /\ Len(log[w]) >= Len(authority) + 2
                         /\ log[w][Len(authority) + 1].kind = "prepare"
                         /\ log[w][Len(authority) + 2].kind = "commit"}}

\* validateGenerationCommitEvidence: the attested prepares are all retained
\* in the supplied histories
HasEvidence(S, commit) ==
    /\ Cardinality(Last(commit).cert) = Quorum
    /\ \A v \in Last(commit).cert : v \in S /\ Holds(v, Front(commit))

\* The commit histories reached from genesis by quorum-witnessed steps
Authorities(S) ==
    {GenesisHistory} \cup
    {h \in UNION {Prefixes(log[v]) : v \in S} :
        /\ Len(h) > 1
        /\ Last(h).kind = "commit"
        /\ Cardinality(Witnesses(S, h)) >= Quorum}

Conflicting(S) ==
    LET reached == Authorities(S)
    IN  \E a, b \in reached : ~IsPrefix(a, b) /\ ~IsPrefix(b, a)

\* select returns an authority rather than an error
Selects(S) ==
    /\ Cardinality(S) >= Quorum
    /\ \A a \in Authorities(S) : \A c \in Candidates(S, a) : HasEvidence(S, c)
    /\ ~Conflicting(S)

Select(S) ==
    LET reached == Authorities(S)
    IN  CHOOSE a \in reached : \A b \in reached : Len(b) <= Len(a)

-----------------------------------------------------------------------------
(* pool_catalog_store: the A and B root slots of a voter                   *)

Matching(v, root) == {s \in {"A", "B"} : roots[v][s] = Whole(root)}

\* Defect: the slot that holds the authoritative root is the one rewritten
TargetMatching(v, root) == IF Matching(v, root) = {"A"} THEN "A" ELSE "B"

\* selectAuthorityRoot(...).target
Target(v, root) == IF Matching(v, root) = {"A"} THEN "B" ELSE "A"

\* loadAuthorityCatalog succeeds
Loads(v, root) == Matching(v, root) # {} /\ root \in pages[v]

\* initializationCandidate
InitializationSlot(v, s, root) ==
    CASE roots[v][s] = Zero -> "zero"
      [] roots[v][s] \in {Whole(root), Prefix(root)} -> "matching"
      [] OTHER -> "conflict"

\* selectInitializationTarget; {} is MetadataRootSlotConflict
InitializationTarget(v, root) ==
    LET found(kind) == {s \in {"A", "B"} : InitializationSlot(v, s, root) = kind}
    IN  IF found("conflict") # {} THEN {}
        ELSE IF found("matching") = {"B"} THEN {"B"} ELSE {"A"}

StageTarget(v) ==
    IF Generation(auth) = 0 THEN InitializationTarget(v, prop)
    ELSE IF Matching(v, RootOf(auth)) = {} THEN {} ELSE {Target(v, RootOf(auth))}

\* What a failed write of root into a slot may leave there
Leftovers(v, s, root) ==
    CASE roots[v][s] = Whole(root) -> {Whole(root)}
      [] roots[v][s] = Zero -> {Zero, Prefix(root), Invalid, Whole(root)}
      [] OTHER -> {roots[v][s], Invalid, Whole(root)}

-----------------------------------------------------------------------------
(* PoolMemberSet                                                           *)

DataAccess(n) ==
    IF n >= FullWidth THEN "read_write"
    ELSE IF n >= ReadThreshold THEN "read_only" ELSE "unavailable"

Init ==
    /\ log = [v \in Voters |-> GenesisHistory]
    /\ torn = {}
    /\ roots = [v \in Voters |-> [s \in {"A", "B"} |-> Zero]]
    /\ pages = [v \in Voters |-> {}]
    /\ mode = "closed"
    /\ order = <<>>
    /\ auth = GenesisHistory
    /\ status = [v \in Voters |-> "absent"]
    /\ ready = {}
    /\ access = "unavailable"
    /\ dead = {}
    /\ coord = FALSE
    /\ parts = {}
    /\ frozen = FALSE
    /\ pc = "idle"
    /\ todo = <<>>
    /\ done = <<>>
    /\ prop = NoRoot
    /\ cert = {}
    /\ acked = GenesisHistory

\* Defect: any voter that retains the authority counts, whatever follows it
ExactTailAnywhere(S, authority) ==
    {v \in S : v \notin torn /\ Len(log[v]) < Cap /\ Holds(v, authority)}

\* Voters classifyMembers counts as active on a writable open
ExactTail(S, authority) ==
    {v \in S : v \notin torn /\ Len(log[v]) < Cap /\ log[v] = authority}

\* Voters reopenCatalog finds holding the authority but not its catalog
CatalogFailed(S, authority) ==
    IF Generation(authority) = 0 THEN {}
    ELSE {v \in Witnesses(S, authority) : ~Loads(v, RootOf(authority))}

\* control_write_state after classifyMembers and the loads of reopenCatalog
WriteReady(S, authority) ==
    LET active == ExactTail(S, authority)
        left == active \ CatalogFailed(S, authority)
    IN  IF Cardinality(active) >= Quorum /\ Cardinality(left) >= Quorum THEN left ELSE {}

\* Defect: the geometry of the members that were supplied is enough
GeometryOfQuorum(S) == Cardinality(S) >= Quorum

\* collectCatalogGeometry finds every member of the topology among the
\* supplied ones, whatever its history; none of them is joining.
GeometryAvailable(S) == Voters \subseteq S

\* reopenCatalog returns without an error: there is no catalog yet, or the
\* geometry is complete and enough voters load the authority's catalog.  The
\* fence on data writes belongs to the data claims, which are not modelled.
CatalogReopens(S, authority) ==
    \/ Generation(authority) = 0
    \/ /\ GeometryAvailable(S)
       /\ Cardinality(Witnesses(S, authority) \ CatalogFailed(S, authority)) >= ReadThreshold

\* An open of the voters S, read-only or writable, ends well unless a mirror
\* repair fails
Opens(S, intent) ==
    /\ Selects(S)
    /\ CatalogReopens(S, Select(S))
    /\ intent = "writable" => WriteReady(S, Select(S)) # {}

\* Active voters whose other root slot reopenCatalog rewrites
Degraded(S, authority) ==
    IF Generation(authority) = 0 THEN {}
    ELSE {v \in WriteReady(S, authority) : Cardinality(Matching(v, RootOf(authority))) = 1}

\* PoolMemberSet.open.  A voter that does not open or does not scan takes no
\* part in anything that follows, and counts here as not supplied.
Open(supplied, intent) ==
    LET S == Range(supplied)
        a == Select(S)
    IN  /\ mode = "closed"
        /\ Opens(S, intent)
        /\ mode' = intent
        /\ order' = supplied
        /\ auth' = a
        /\ ready' = IF intent = "writable" THEN WriteReady(S, a) ELSE {}
        /\ status' = [v \in Voters |->
             IF v \notin S THEN "absent"
             ELSE IF ~Holds(v, a) THEN "stale"
             ELSE IF v \in CatalogFailed(S, a) THEN "catalog_failed"
             ELSE IF intent = "writable" /\ v \in ExactTail(S, a) THEN "active_voter"
             ELSE "authority"]
        /\ access' = DataAccess(Cardinality(Witnesses(S, a)))
        /\ IF intent = "writable" /\ Degraded(S, a) # {}
           THEN /\ pc' = "reopen"
                /\ todo' = SelectSeq(supplied, LAMBDA v : v \in Degraded(S, a))
           ELSE UNCHANGED <<pc, todo>>
        /\ UNCHANGED <<media, dead, coordinator, done, prop, cert, acked>>

EndSession ==
    /\ mode' = "closed"
    /\ order' = <<>>
    /\ auth' = GenesisHistory
    /\ status' = [v \in Voters |-> "absent"]
    /\ ready' = {}
    /\ access' = "unavailable"
    /\ dead' = {}
    /\ coord' = FALSE
    /\ parts' = {}
    /\ frozen' = FALSE
    /\ pc' = "idle"
    /\ todo' = <<>>
    /\ done' = <<>>
    /\ prop' = NoRoot
    /\ cert' = {}

WriteSlot(v, s, content) == roots' = [roots EXCEPT ![v][s] = content]

\* repairRootMirror of a degraded voter by reopenCatalog
ReopenRepair ==
    LET v == Head(todo)
        root == RootOf(auth)
    IN  /\ pc = "reopen"
        /\ WriteSlot(v, Target(v, root), Whole(root))
        /\ todo' = Tail(todo)
        /\ pc' = IF todo' = <<>> THEN "idle" ELSE "reopen"
        /\ UNCHANGED <<log, torn, pages, set, coordinator, done, prop, cert, acked>>

\* The repair fails: invalidateCatalogVoter, and without a quorum of active
\* voters left the open returns WriteQuorumUnavailable
ReopenRepairFails ==
    LET v == Head(todo)
        root == RootOf(auth)
    IN  /\ pc = "reopen"
        /\ \E c \in Leftovers(v, Target(v, root), root) : WriteSlot(v, Target(v, root), c)
        /\ UNCHANGED <<log, torn, pages, acked>>
        /\ IF Cardinality(ready \ {v}) < Quorum
           THEN EndSession
           ELSE /\ ready' = ready \ {v}
                /\ status' = [status EXCEPT ![v] = "catalog_failed"]
                /\ dead' = dead \cup {v}
                /\ todo' = Tail(todo)
                /\ pc' = IF todo' = <<>> THEN "idle" ELSE "reopen"
                /\ UNCHANGED <<mode, order, auth, access, coordinator, done, prop, cert>>

\* Close of the set and its coordinator, or a crash in any phase
CloseOrCrash ==
    /\ mode # "closed"
    /\ EndSession
    /\ UNCHANGED <<media, acked>>

-----------------------------------------------------------------------------
(* ReplicatedJournal                                                       *)

OpenCoordinator ==
    /\ mode = "writable" /\ pc = "idle" /\ ~coord
    /\ ready # {}
    /\ coord' = TRUE
    /\ parts' = ready
    /\ UNCHANGED <<media, set, frozen, operation, acked>>

CloseCoordinator ==
    /\ coord /\ pc = "idle"
    /\ coord' = FALSE
    /\ parts' = {}
    /\ frozen' = FALSE
    /\ UNCHANGED <<media, set, operation, acked>>

\* Defect: the voters that are ready are enough
ReadyVotersActive ==
    \A v \in ready : status[v] = "active_voter" /\ v \notin dead

\* collectCatalogVoters: the complete current voter set, not only a quorum
AllVotersActive ==
    \A v \in Voters : status[v] = "active_voter" /\ v \in ready \ dead

\* commitCatalogGeneration up to the first write: proposal and graph are valid
CommitCatalogGeneration(p) ==
    /\ coord /\ pc = "idle" /\ ~frozen
    /\ ready # {}
    /\ AllVotersActive
    /\ pc' = "stage"
    /\ todo' = Topology
    /\ done' = <<>>
    /\ prop' = Append(RootOf(auth), p)
    /\ UNCHANGED <<media, set, coordinator, cert, acked>>

\* failDataPublication, ending the operation
FailPublication ==
    /\ frozen' = TRUE
    /\ ready' = {}
    /\ access' = "unavailable"
    /\ pc' = "idle"
    /\ todo' = <<>>
    /\ done' = <<>>
    /\ prop' = NoRoot
    /\ cert' = {}
    /\ UNCHANGED <<mode, order, auth, coord, acked>>

\* activateCatalogData or stageDataInitializations fails on a member
DataStagingFails ==
    /\ pc = "stage" /\ todo = Topology
    /\ \E v \in Voters : dead' = dead \cup {v}
    /\ FailPublication
    /\ UNCHANGED <<media, status, parts>>

\* stageTransition or stageInitialization: the pages that are not the
\* authority's may be overwritten, then the root goes to the other slot
Stage ==
    LET v == Head(todo)
    IN  /\ pc = "stage"
        /\ \E s \in StageTarget(v) : WriteSlot(v, s, Whole(prop))
        /\ pages' = [pages EXCEPT ![v] = (@ \cap {RootOf(auth)}) \cup {prop}]
        /\ todo' = Tail(todo)
        /\ pc' = IF todo' = <<>> THEN "begin" ELSE "stage"
        /\ UNCHANGED <<log, torn, set, coordinator, done, prop, cert, acked>>

\* Staging fails on a voter: at once when its root slots conflict, or in the
\* page batch, or in the root write
StageFails ==
    LET v == Head(todo)
    IN  /\ pc = "stage"
        /\ \/ StageTarget(v) = {} /\ UNCHANGED <<roots, pages, dead>>
           \/ /\ StageTarget(v) # {}
              /\ pages' = [pages EXCEPT ![v] = @ \cap {RootOf(auth)}]
              /\ dead' = dead \cup {v}
              /\ UNCHANGED roots
           \/ /\ pages' = [pages EXCEPT ![v] = (@ \cap {RootOf(auth)}) \cup {prop}]
              /\ dead' = dead \cup {v}
              /\ \E s \in StageTarget(v) : \E c \in Leftovers(v, s, prop) : WriteSlot(v, s, c)
        /\ status' = [status EXCEPT ![v] = "stale"]
        /\ FailPublication
        /\ UNCHANGED <<log, torn, parts>>

\* Defect: no room is reserved for the commit and a checkpoint
BeginPrepareUnreserved ==
    LET targets == {v \in parts : Len(log[v]) < Cap}
    IN  /\ pc = "begin"
        /\ IF Cardinality(targets) < Quorum
           THEN FailPublication
           ELSE /\ pc' = "prepare"
                /\ todo' = SelectSeq(order, LAMBDA v : v \in targets)
                /\ ready' = {}
                /\ UNCHANGED <<mode, order, auth, access, coord, frozen, done, prop, cert, acked>>
        /\ UNCHANGED <<media, status, dead, parts>>

\* commitGenerationLocked up to beginControlMutation
BeginPrepare ==
    LET targets == {v \in parts : Len(log[v]) + 3 <= Cap}
    IN  /\ pc = "begin"
        /\ IF Cardinality(targets) < Quorum
           THEN FailPublication
           ELSE /\ pc' = "prepare"
                /\ todo' = SelectSeq(order, LAMBDA v : v \in targets)
                /\ ready' = {}
                /\ UNCHANGED <<mode, order, auth, access, coord, frozen, done, prop, cert, acked>>
        /\ UNCHANGED <<media, status, dead, parts>>

\* The record the phase appends to every voter it visits
PhaseRecord ==
    IF pc = "prepare" THEN Record("prepare", prop, {}) ELSE Record("commit", prop, cert)

\* appendPrepared succeeds on the next voter
AppendRecord ==
    LET v == Head(todo)
    IN  /\ pc \in {"prepare", "commit"} /\ todo # <<>>
        /\ log' = [log EXCEPT ![v] = Append(@, PhaseRecord)]
        /\ todo' = Tail(todo)
        /\ done' = Append(done, v)
        /\ UNCHANGED <<torn, roots, pages, set, coordinator, pc, prop, cert, acked>>

\* appendPrepared fails: noteControlFailure, and the participant is inactive
AppendFails ==
    LET v == Head(todo)
    IN  /\ pc \in {"prepare", "commit"} /\ todo # <<>>
        /\ \/ UNCHANGED <<log, torn>>
           \/ torn' = torn \cup {v} /\ UNCHANGED log
           \/ log' = [log EXCEPT ![v] = Append(@, PhaseRecord)] /\ UNCHANGED torn
        /\ parts' = parts \ {v}
        /\ dead' = dead \cup {v}
        /\ status' = [status EXCEPT ![v] = "stale"]
        /\ todo' = Tail(todo)
        /\ UNCHANGED <<roots, pages, mode, order, auth, ready, access,
                       coord, frozen, pc, done, prop, cert, acked>>

\* PrepareQuorumFailed, or makeCertificate from the first quorum of prepares
PreparesDone ==
    /\ pc = "prepare" /\ todo = <<>>
    /\ IF Len(done) < Quorum
       THEN FailPublication
       ELSE /\ pc' = "commit"
            /\ todo' = done
            /\ done' = <<>>
            /\ cert' = Range(SubSeq(done, 1, Quorum))
            /\ UNCHANGED <<mode, order, auth, ready, access, coord, frozen, prop, acked>>
    /\ UNCHANGED <<media, status, dead, parts>>

\* Defect: one commit record is taken for a known outcome
CommitsDoneOnOne ==
    /\ pc = "commit" /\ todo = <<>>
    /\ IF done = <<>>
       THEN FailPublication /\ UNCHANGED status
       ELSE /\ auth' = auth \o <<Record("prepare", prop, {}), Record("commit", prop, cert)>>
            /\ ready' = Range(done)
            /\ status' = [v \in Voters |-> IF v \in Range(done) THEN "active_voter" ELSE "stale"]
            /\ access' = DataAccess(Len(done))
            /\ pc' = "repair"
            /\ todo' = Topology
            /\ UNCHANGED <<mode, order, coord, frozen, done, prop, cert, acked>>
    /\ UNCHANGED <<media, dead, parts>>

\* CommitOutcomeUnknown, or noteCommittedGeneration
CommitsDone ==
    /\ pc = "commit" /\ todo = <<>>
    /\ IF Len(done) < Quorum
       THEN FailPublication /\ UNCHANGED status
       ELSE /\ auth' = auth \o <<Record("prepare", prop, {}), Record("commit", prop, cert)>>
            /\ ready' = Range(done)
            /\ status' = [v \in Voters |-> IF v \in Range(done) THEN "active_voter" ELSE "stale"]
            /\ access' = DataAccess(Len(done))
            /\ pc' = "repair"
            /\ todo' = Topology
            /\ UNCHANGED <<mode, order, coord, frozen, done, prop, cert, acked>>
    /\ UNCHANGED <<media, dead, parts>>

\* The publication returns its result once every voter has been visited
RepairNext ==
    /\ todo' = Tail(todo)
    /\ IF todo' = <<>>
       THEN /\ pc' = "idle" /\ done' = <<>> /\ prop' = NoRoot /\ cert' = {}
            /\ acked' = auth
       ELSE UNCHANGED <<pc, done, prop, cert, acked>>

\* repairRootMirror of the committed root
Repair ==
    LET v == Head(todo)
    IN  /\ pc = "repair"
        /\ v \notin dead
        /\ WriteSlot(v, Target(v, prop), Whole(prop))
        /\ RepairNext
        /\ UNCHANGED <<log, torn, pages, set, coordinator>>

\* The repair fails: failCatalogMember and revokeDataAccess; a frozen Member
\* rejects the write before it reaches the media
RepairFails ==
    LET v == Head(todo)
    IN  /\ pc = "repair"
        /\ \/ v \in dead /\ UNCHANGED roots
           \/ /\ v \notin dead
              /\ \E c \in Leftovers(v, Target(v, prop), prop) : WriteSlot(v, Target(v, prop), c)
        /\ dead' = dead \cup {v}
        /\ frozen' = TRUE
        /\ status' = [status EXCEPT ![v] = "stale"]
        /\ ready' = {}
        /\ access' = "unavailable"
        /\ RepairNext
        /\ UNCHANGED <<log, torn, pages, mode, order, auth, coord, parts>>

Next ==
    \/ \E o \in Orders, S \in SUBSET Voters, intent \in {"reading", "writable"} :
          Open(SelectSeq(o, LAMBDA v : v \in S), intent)
    \/ ReopenRepair
    \/ ReopenRepairFails
    \/ CloseOrCrash
    \/ OpenCoordinator
    \/ CloseCoordinator
    \/ \E p \in Proposals : CommitCatalogGeneration(p)
    \/ DataStagingFails
    \/ Stage
    \/ StageFails
    \/ BeginPrepare
    \/ AppendRecord
    \/ AppendFails
    \/ PreparesDone
    \/ CommitsDone
    \/ Repair
    \/ RepairFails

Spec == Init /\ [][Next]_vars

-----------------------------------------------------------------------------
(* Properties                                                              *)

Records ==
    {Genesis} \cup {Record("prepare", r, {}) : r \in Roots}
              \cup {Record("commit", r, c) : r \in Roots, c \in SUBSET Voters}

\* Type correctness; in particular every journal fits in its slots, which the
\* reservation of three records before a publication is for.
TypeOK ==
    /\ \A v \in Voters : Len(log[v]) \in 1..Cap /\ Range(log[v]) \subseteq Records
    /\ torn \subseteq Voters
    /\ roots \in [Voters -> [{"A", "B"} -> {Zero, Invalid} \cup {Whole(r) : r \in Roots}
                                                           \cup {Prefix(r) : r \in Roots}]]
    /\ pages \in [Voters -> SUBSET Roots]
    /\ mode \in {"closed", "reading", "writable"}
    /\ Range(order) \subseteq Voters
    /\ Range(auth) \subseteq Records /\ Last(auth).kind \in {"genesis", "commit"}
    /\ status \in [Voters -> {"absent", "stale", "authority", "active_voter", "catalog_failed"}]
    /\ ready \subseteq Voters
    /\ access \in {"read_write", "read_only", "unavailable"}
    /\ dead \subseteq Voters
    /\ coord \in BOOLEAN /\ frozen \in BOOLEAN
    /\ parts \subseteq Voters
    /\ pc \in {"idle", "reopen", "stage", "begin", "prepare", "commit", "repair"}
    /\ Range(todo) \subseteq Voters /\ Range(done) \subseteq Voters
    /\ prop \in Roots \cup {NoRoot}
    /\ cert \subseteq Voters
    /\ Range(acked) \subseteq Records

\* A generation commit that was reported to its caller is part of the history
\* that every later writable open selects, whichever voters it is given and
\* whatever failed or crashed in between (select, classifyMembers).
WritableOpenKeepsAcknowledged ==
    \A S \in Quorums :
        Opens(S, "writable") => IsPrefix(acked, Select(S))

\* No writable open works from an authority older than the complete voter set
\* would select, even where the newer commit was never reported: a voter left
\* out of the open cannot hide a commit, because the certificate names voters
\* whose prepare must be supplied and a prepared voter is not at the old tail,
\* and because after the first generation no voter can be left out at all.
WritableOpensAgree ==
    \A S \in Quorums :
        Opens(S, "writable") => Selects(Voters) /\ Select(S) = Select(Voters)

\* The authority a session works with is durable: opening all voters selects
\* it or an extension of it.  commitGenerationLocked moves authority_state
\* only when a quorum holds the commit record.
SessionAuthorityIsDurable ==
    mode # "closed" => Selects(Voters) /\ IsPrefix(auth, Select(Voters))

\* At every instant, so also where a crash strikes, each voter that holds the
\* authority selected from all voters has a root slot naming its catalog and
\* all of that catalog's pages: staging precedes every prepare and never
\* touches the authoritative slot or the authority's pages.
CatalogFollowsAuthority ==
    Selects(Voters) => CatalogFailed(Voters, Select(Voters)) = {}

\* An unknown outcome permits no later transition: a publication starts, and
\* overwrites root slots and pages, only while every voter's journal ends at
\* the session's authority, across any number of failed sessions before it.
NoTransitionOverUnresolved ==
    pc \in {"stage", "begin"} => \A v \in Voters : log[v] = auth /\ v \notin torn

\* A known commit makes earlier generations unreachable to normal data access
\* (docs/v3-multivolume-format.md, "Transition Validation"): a session that has data
\* access and a catalog to read through never works with a history that lacks
\* a reported commit, read-only sessions included.  select alone would let it:
\* two of three voters, one with the commit and one with only its prepare,
\* select the generation before.  It is the geometry check of reopenCatalog
\* that refuses them.  At generation 0 there is no catalog and nothing to
\* read: loadCatalogInto returns GenesisHasNoCatalogRoot.
EarlierGenerationsUnreachable ==
    mode # "closed" /\ access # "unavailable" /\ Generation(auth) > 0 => IsPrefix(acked, auth)
=============================================================================
