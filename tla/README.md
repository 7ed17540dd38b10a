# Zettide: TLA+ models and proofs

Zettide stores virtual machine volumes on the members (files or devices) of a
Pool, one node at a time. This directory models the parts of it on which
durability rests, checks them with TLC on small instances and proves the
central ones with TLAPS for every instance. `PROJECT.json` maps each definition
to the source lines it stands for.

## The system and its parts

| Part | Source | Module |
|---|---|---|
| Control journal of a member: record slots, linear then ring | `v3/journal.zig` | ControlJournal; proofs in ControlJournalLayout, -Steps, -Proofs |
| Member: header copies A/B, creation, open, freeze, close | `v3/member.zig`, `member_format.zig` | ControlJournal (claims and leases: not yet) |
| Authority selection, commit evidence, certificates, policy | `v3/pool_authority.zig`, `pool_evidence.zig`, `pool_certificate.zig`, `pool_policy.zig` | CatalogCommit (genesis and generation commits) |
| Replicated control journal | `v3/pool_replicated_journal.zig` | CatalogCommit (catalog generation commits) |
| Pool member set: open, classification, reopen | `v3/pool_member_set.zig` | CatalogCommit |
| Catalog root store (A/B roots, pages) | `v3/pool_catalog_store.zig` | CatalogCommit |
| Endpoint registry, its state file, daemon, control requests | `endpoint_registry.zig`, `endpoint_daemon.zig`, `endpoint_control.zig` | EndpointRegistry |
| Catalog endpoint backend | `spdk/catalog_endpoint_backend.zig` | EndpointRegistry (outcomes of start and stop) |
| Catalog volumes (data path), catalog graph and mutation, provisioning, membership | `v3/pool_catalog*.zig`, `pool_provision.zig`, `membership.zig`, ... | not yet |
| Volume worker, SPDK adapters and runtime, io_uring engine | `services/data-node/spdk/*`, `linux_io_uring.zig` | not yet |
| Codecs, checksums, Linux storages, CLI | `codec.zig`, `layout.zig`, `v3/linux_*`, `cli/` | not modelled: byte layouts and system calls |

(`v3/` is `src/libs/storage-engine/src/v3/`; the others are under
`src/services/data-node/`.)

How they interact: each member has a control journal. The replicated journal
publishes a new catalog generation by staging the catalog on every voter,
appending a prepare and then a commit to the voters' journals, and repairing the
root mirrors. Opening a Pool reads the journals of the members it is given,
selects the authority they prove, and loads its catalog. The endpoint daemon
opens Pools and exports volumes; its registry remembers which.

## The modules

**ControlJournal.** The media of one member (record slots and two header copies)
and the process that has it open. One action per durable write: a write that
does not complete leaves the old bytes, the new bytes or bytes that do not decode,
and either freezes the member (`WriteFails`) or is the end of the process
(`CloseOrCrash`). A record is its local sequence number and whether it is a
snapshot: a member has one lineage, so the digest chain holds exactly when the
numbers are consecutive. `Scan` is the two scans of `scanInto`, stated by what
they accept instead of as loops.

**CatalogCommit.** The journals, root slots and pages of the voters, the
PoolMemberSet and the ReplicatedJournal of one session. An authority is the
history (sequence of records) its digest identifies, a catalog root is the
sequence of proposals that led to it. The phases of `commitCatalogGenerationLocked`
are visited voter by voter; each visit succeeds or fails with any of the
contents a failed write may leave. A later `Open` may be tried with any subset of
the voters. `select` needs only a quorum of them, but once a generation was
published `reopenCatalog` refuses an open, read-only or writable, that lacks the geometry of any
member (`GeometryAvailable`); smaller subsets open only at generation 0. Journals
are linear here, the topology is fixed and no member is joining.

**EndpointRegistry.** The desired-state file with what a power loss may leave of it
(`survivors`), the registry's entries and the call in progress. `promised`,
`released` and `doubted` are history variables: what clients were told, and the
endpoints whose save failed after its rename. Rejected and read-only calls change
nothing and are not steps; an orderly shutdown, a panic and a kill have the same
effect on what remains, and are one action.

`MCCatalogCommit` and `MCEndpointRegistry` give TLC its constants. Operators whose
comment begins with "Defect" are wrong variants of the definition that follows
them; no specification uses them. They show that each property can fail.

## Runs

| Run | Instance | Result |
|---|---|---|
| `control_journal` | 5 slots, sequences to 9, header sequences to 5 | holds, 146,666 states |
| `catalog_commit` | 3 voters, 2 proposals, 6 record slots | holds, 25,858 states |
| `endpoint_registry` | 3 endpoints on any of 3 Pools, room for 3, 2 unsynced renames | holds, 86,390 states |
| `endpoint_registry_full` | the same, room for 2 | violated: finding 1 |
| `endpoint_registry_durable` | the same, room for 2 | violated: finding 2 |

*control_journal.* `HeadersSelectable`: a created member can always be opened.
`EveryHeaderCopyRecovers`: each readable header copy alone leads to the last
acknowledged record or the one being appended. `CachedTailIsOnMedia`: the cached
tail is what a rescan finds. `CapacityIsExact`: `availableSlotCount` is exactly
the number of zero slots ahead. `OnlyObsoleteRecordsErased`: a record is replaced only when
every readable header copy names a later anchor. Five slots are one birth slot and
a ring of four; nine records are a full turn of the ring after the linear phase,
and five header sequences allow several publications and the catalog activation.
Deadlock is not checked: a linear journal with a torn tail, or one whose creation
was interrupted, can no longer be opened writable.

*catalog_commit.* `WritableOpenKeepsAcknowledged`: a reported commit is in the
history every later writable open selects. `WritableOpensAgree`: no writable open
works from an older authority than all voters would select. `SessionAuthorityIsDurable`:
the authority in memory never runs ahead of what the voters prove. `CatalogFollowsAuthority`: each
voter that holds the authority can load its catalog at every instant.
`NoTransitionOverUnresolved`: nothing is staged over an unresolved prepare.
`EarlierGenerationsUnreachable`: no session that can read a catalog, read-only ones
included, works with a history that lacks a reported commit. Authority selection
alone does not give this (two of three voters, one with the commit and one with
only its prepare, select the generation before); the geometry check does. Six slots
allow two complete generations, and a third attempt that the capacity check
refuses. Proposals are symmetric. The caller's order of the voters decides only
which prepares the certificate names and who is visited first; one order
different from the topology's is used.

*endpoint_registry.* `OneEndpointPerPool`, also while a stop is half done.
`RestartLoadsUnlessFull`: whatever file remains, `Registry.init` accepts it unless
it names as many endpoints as the limit allows.
`AcknowledgedEnsureSurvives` and `ReleasedStaysReleased`: an answered ensure or release is kept
by every later start unless a save about that very endpoint failed after its
rename. Three endpoints and three Pools reach Pool conflicts, the endpoint that is
left alone, restarts with two endpoints and the full file; endpoints and Pools are
symmetric. With room for two, as in the other two runs, an endpoint is also refused.

There are no liveness properties yet, and so no fairness.

### Findings

1. The comment at `endpoint_registry.zig:242` says `shutdown` preserves "every desired
   endpoint for the next process startup and reconciliation". `ensure` accepts 1024
   endpoints; their file has exactly `max_state_bytes`, and `loadOpaque` reads it with
   `.limited(max_state_bytes)`. `readFileAlloc` fails with `StreamTooLong` when the limit
   is reached, so the daemon does not start again with a full registry. The rule
   is Zig's standard library's, which is not in the repository: it is the
   external definition `ReadsWhole`, and the finding stands or falls with it.
2. The test "ensure is durable idempotent ..." (`endpoint_registry.zig:553`) describes
   `ensure`. When the save of a release fails at the directory's sync, the entry stays
   desired although the file no longer names it; an ensure that follows
   answers without saving, and the endpoint is gone after the next start.

## Proofs

Three modules, each extending the one before: `ControlJournalLayout` (the invariant
and the lemmas about rings, scans and layouts), `ControlJournalSteps` (initial
states, creation, open, append, header writes) and `ControlJournalProofs` (reclaim,
errors and crashes, and the theorems). From `ConstantsAssumption` alone (at least
three slots, bounds of at least one) they prove:

- `Invariance`: `Spec => []IInv`;
- `TypeCorrect`, `CreatedMemberOpens` (HeadersSelectable), `NothingAcknowledgedIsLost`
  (EveryHeaderCopyRecovers), `CacheAgreesWithMedia` (CachedTailIsOnMedia), and the
  action property `NeededRecordsSurvive` (OnlyObsoleteRecordsErased).

None of the properties is inductive: that a scan succeeds says nothing of what it
will find after the next write. `IInv` says where each record lies. Seen from an
anchor `p`, the ring holds `p.seq .. L` at consecutive distances and only older
records beyond (`Layout`); before the first reclaim, slot `i` holds record `i + 1`
(`Linear`). Each readable header copy fits the media in one of the two ways
(`HdrFits`), and the copies differ only as one interrupted publication explains
(`Newer`). Lemmas about ring distances lead to two about the scans (`LinearScan`,
`AnchoredScan`): media with a layout scan successfully and end at `L`. Appending
extends a layout, erasing beyond its end keeps it, and a later anchor of a layout
is an anchor of one too; with these there is one lemma per group of actions.
`InterruptedSettles` covers a crash inside any write.

Only model-checked: `CapacityIsExact` (it counts a set), everything about CatalogCommit and
EndpointRegistry.

## Plan

In this order; each step adds its runs and then its proofs.

1. **ControlRollover**: checkpoint, redundant publication and reclaim across the
   voters (`commitAuthorityCheckpointLocked`, `resumeRolloverLocked`), composing one
   journal per voter; no voter reclaims before a quorum can prove the anchor.
2. **PoolMembership**: `commitMembership` (old and new quorums), `bootstrapMember`,
   `catchUpControlForMember`, `installCatalogForMember`, and the remaining
   candidates of `pool_authority`. Here the stuck publication after a stray
   prepare, and the membership change that ends it, can be stated.
3. **Abstract Pool**: a register of acknowledged generations that CatalogCommit
   implements by refinement.
4. **MemberClaims and CatalogVolume**: journal, catalog and data claims; volume
   leases, replicated writes, reads of two equal copies.
5. **VolumeWorker**: the request queue with concurrent reads and barriers, with
   liveness (an accepted request completes) under fairness of the worker thread.
6. **BdevDispatcher, BdevEndpoint, SpdkRuntime, NvmfExport**: the completion handshake,
   removal with I/O outstanding, start, rollback and close.
7. **Pure algorithms**: the scans as recursive functions against `Scan`, the ring
   arithmetic, the extent allocation of catalog mutation.
8. Proofs: the safety of EndpointRegistry, `CapacityIsExact`, agreement of writable
   opens in CatalogCommit, the refinement of step 3.
