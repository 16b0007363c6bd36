# Verification of p2p-docker-dev

TLA+ modules, TLC models and TLAPS proofs about the programs in this
repository: a peer-to-peer "swarm setup" that keeps a git repository on an
append-only Hyperdrive, replicates it to joining nodes, and registers them in
it. `PROJECT.json` lists the runs, the mutants each property is tried against,
the source lines of every definition, the findings, the hazards and the
theorems.

## 1. Inventory

The repository grows in two series of phases. `phase-0` ... `phase-7` build up
the transport (DHT, RPC, routing, publish/subscribe, managed code, an
application swarm); `spl7-phase-1` ... `spl7-phase-4` build the swarm setup on
top of it. Each phase copies what it needs of the one before, so
`lib/mycelium.js`, `lib/hyperdrive-fs.js` and `fuse/mount.js` occur several
times with identical text; each model cites the copy of the phase it belongs to.

| component | state | operations | what is hard | what makes it correct |
|---|---|---|---|---|
| platform registry: `spl7-phase-4/platform/platform.js`, `tree.js` | the drive (persistent), the HTTP server, registrations in flight | boot, seed if there is no `main`, browse, serve, `onRegister`, shutdown | registrations are not awaited and overlap; a crash in the seed; the store closes under running jobs | every prefix of the drive is a readable repository; the seed is never lost; a registration that ran alone is kept; each commit is one entry put into a state there was |
| joining node: `spl7-phase-4/join/join.js` | a sparse read-only replica, its version | join, sync, five reads, one post, update every 3 s | reads of a moving replica; the platform may go away or be started again | a node that reaches the platform can browse; what is listed reaches what it reads |
| node list: `ui/http.js` | `nodes` in memory | `/api/register`, `/api/nodes` | answered before the commit; lost at restart | agrees with the tree when nothing is in flight |
| mycelium: `lib/mycelium.js` | none of its own; git objects and `refs/heads/main` | select, read, get, put, remove, commitTree, dispatch | put and commit are two calls; objects before references | path operations behave as on a flat map of files |
| hyperdrive-fs: `lib/hyperdrive-fs.js` | none | the `fs.promises` git needs | directories are implicit; recursive rmdir is not atomic | what was written is read |
| fork and join: `spl7-phase-3/join/join.js`, `lib/fork.js` | a replica and an own drive | fork the tree, commit, set the identity, commit | a crash between the two commits | the node ends with its own identity |
| commit seeding: `spl7-phase-2` platform and join | the drive with its git objects, `main` | write objects, commit once; read by way of `main` | a kill anywhere in the seed, which is then done over | all read one whole tree, with one identity |
| file seeding: `spl7-phase-1` platform and join, `phase-7/seed/content.js` | the drive | check one file, put several; list it and get it file by file | a crash between the puts; reads that a restart comes between | all files are there once it serves |
| FUSE mount: `fuse/mount.js` | listing cache, descriptors with buffers | the FUSE callbacks | asynchronous list and put against invalidation; whole-file buffers | what was closed is what is read and listed |
| swarm app: `phase-7` seed, peer, `ui/worldview.js` | world drive, run log, timers | periodic status, run log, shutdown | overlapping rounds; two files per round; two signals | a published round is complete in the end |
| managed code: `phase-5` manager, worker, client, roles | registry on a drive, running roles, connections | seed, replicate, self-assign, pull and run, call by key | roles start one after the other while connections arrive | an assigned role answers |
| routing: `phase-3/node.js` | `answered` | serve or call a name | several connections, a timer against a late answer | one answer or one "no peer" |
| publish/subscribe: `phase-4/node.js` | the peer set, line buffers | publish, receive | joins and leaves between messages, framing | each line is received whole, once, in order |
| RPC nodes: `phase-2/node.js` | none | one call per connection | a connection lost under a call | every call is called back |
| browser pages: the scripts in `ui/http.js` | view, path, panels, requests under way | tabs, links, buttons, answers, timers | answers in any order, panels replaced under a request | the page shows what its breadcrumb names; nothing loads for ever |
| peers (`phase-1/node.js`), probes, scripts, compose files, DHT bootstrap nodes | | | | one greeting per connection, container wiring, third-party feasibility tests: not modelled |

How they interact: a node and the platform share the drive by replication (the
node reads a prefix of what the platform wrote), and the node calls the
platform once over HTTP. `ui/http.js` calls back into the platform
(`onRegister`), which calls `registerNode`, which calls mycelium, which calls
isomorphic-git, which calls hyperdrive-fs, which puts entries on the drive.
Every one of these calls is asynchronous: a job yields at each drive operation.

## 2. Modules

| module | models |
|---|---|
| `GitLog` | the drive as a log of entries, git objects identified with their content, the ref |
| `GitDrive` | the swarm setup's trees on that log, and what a reader has to find behind the ref |
| `SwarmRegistry` | the platform process of spl7-phase-4 and its registrations, one action per awaited drive operation |
| `SwarmDirectory` | the abstract promise of `/swarm`: a listing that changes one entry at a time |
| `SwarmSetup` | `SwarmRegistry` composed with joining nodes and the node list |
| `ForkJoin` | the node of spl7-phase-3: the copy of the platform's tree and the two commits, over kills and restarts |
| `Mycelium` | paths over trees of any shape: put, remove, commitTree, get, read, select |
| `FileStore` | the abstract promise of `Mycelium`: a flat map of files with folders |
| `HyperdriveFs` | files on a flat set of keys: the adapter's operations, the web page's listing, the mount's lookups with overlays |
| `FuseMount` | the FUSE callbacks: listing cache, descriptors with buffers, the drive behind them |
| `SwarmApp` | the swarm app of phase-7: seeding file by file, peers that list the drive, the seed's world view and run log |
| `TreeSwarm` | spl7-phase-1: the tree seeded file by file, nodes that list and get it |
| `CommitSwarm` | spl7-phase-2: the tree seeded object by object and committed once, nodes that read it |
| `Routing` | phase-3's servers and clients of a name, and phase-2's |
| `Mesh` | phase-4's publish and subscribe over streams cut into chunks |
| `ManagedCode` | phase-5: the manager's drive, workers that pull and run roles, clients bound to one channel |
| `PageDom` | what the browser pages have in common: panels, requests under way, answers in any order |
| `NodePage`, `SwarmPage` | the pages of spl7-phase-4 and of phase-7 |
| `MCSwarmRegistry`, `MCSwarmSetup`, `MCForkJoin`, `MCMycelium`, `MCFuseMount`, `MCSwarmApp`, `MCNodes`, `MCPage` | small instances for TLC |
| `SwarmRegistry_proofs`, `SwarmSetup_proofs`, `ForkJoin_proofs`, `FuseMount_proofs`, `Seeding_proofs` (`SwarmApp`, `TreeSwarm`, `CommitSwarm`), `Nodes_proofs` (`Routing`, `Mesh`, `ManagedCode`), `Page_proofs`, `Mycelium_proofs` (with `HyperdriveFs`) | the theorems |

### GitLog and GitDrive

A Hyperdrive is append-only: a put adds an entry and `drive.version` is the
number of entries, so a replica that has version `v` reads exactly the first
`v` entries of `log`. An entry records the object put and the commit
`.git/refs/heads/main` names after it (0 while there is none). A git object is
named by the hash of its content, so the model takes the content as the name;
only a commit, whose parent would nest without end, is named by its position.
The tree is the one the code builds: the six fixed folders (`Folder`), and in
`Swarm` one subfolder with a `_meta` per member. What a `_meta` says besides
the name (role, url, time) is one value of `Info`.

`Resolves(log, v)` is what the reads of mycelium (`log`, `resolvePath`,
`select`, `get`) need at version `v`: from `main` down every commit, tree and
blob is among the first `v` entries.

### SwarmRegistry

`stage` follows `main()` and `shutdown()` of `platform.js`; `at` is the index
of `seedTree`'s loop; `act[u]` is the job of a registration (or of the platform
itself for the tail of the seed, which goes through the same writes), with the
step it is at, the tree it read as its base and the parent it resolved. The
steps are those of `put` and `commitTree` in order: read the head, write blob,
leaf tree, swarm tree, root tree, resolve `main`, write the commit, force the
ref. Between any two of them another job, the shutdown or a crash may run.
After a crash the log is what it was and everything else is gone.

Modelled exactly as coded: the `catch` in `put` that turns a failed read into
an empty tree; the `catch` in `commitTree` that turns a failed resolve into no
parent; the ref forced without comparison; loose objects written only when
absent; registrations accepted while the store is closing and after (they end
in `register-error`); a name that is a file of `/swarm` (`_meta`), below which
`modifyTree` throws; a failed browse ending the process (`fatal`).

`Ancestors(l, c)` is what `git log` shows from commit `c`: the commits that lie
in every set (`Histories`) a walk along the parents does not leave.

The variables `raced`, `kept`, `solo` and `acked` are history: no action reads
them. `raced` is what makes the properties precise about overlap: a job is in
it from the moment another one holds a tree at the same time.

Left out: names with a slash and a node calling itself `platform`; the
isomorphic-git internals other than "write if absent"; the DHT bootstrapper.

### SwarmSetup

`ver[j]` is the version of node `j`'s replica. It jumps forward, at `Sync`, at
each read and at each timer tick, while the platform is on the swarm. A node
that was stopped may be started again; what its store kept is read only after
`update()` has reached the platform. A post reaches the handler when the HTTP
server listens and is lost otherwise. `Watch` is the node's timer: an update
that throws there is swallowed and changes nothing, which is a step of the timer
not taken. `serial` is history: this platform
process has had one registration at a time. `ListedReachReplicas` goes from one
end of the setup to the other: the post, the registration with its races, the
commit, replication and the timer. `DropdownAgrees` leaves out a name
that is a file of `/swarm`: such a node is listed and can be in no tree, and its
registration ends in `register-error`.

### ForkJoin

`log` is the node's own drive, `source` the platform's tree (constant once it
is seeded: the platform of spl7-phase-3 writes nothing after its seed), `local`
the platform's objects the node has read. Reading one of those again needs no
platform: hyperdrive keeps what it has downloaded. `job` walks `main()` and
`copyTree`: read a folder, read and write each of its blobs, write the subtree,
next folder, write the root, commit, force the ref, then the same for the
identity. The blobs of a folder are copied in any order, which includes the one
`readTree` gives. The time of a run (`Own`) stamps its identity and its
commits, so an identity or a commit left by a killed run is never the one the
next run writes. `cut` is history: a kill came after the fork's ref and before
the identity's.

### Mycelium and FileStore

A tree is the value of what it contains, so `main` is the root tree itself.
`Put`, `Remove` and `CommitTree` are atomic here: one caller. What several
callers and crashes do between their drive operations is the subject of
`SwarmRegistry` and `ForkJoin`. The caller keeps the root that the last put or
remove returned (`staged`) and may commit it later, or never, or twice, and may
put again before committing: then the earlier put is not in the repository, as
in the code, where put always starts from the head.

`Walk` rebuilds the trees from the leaf up to the root and `Conflict` says
where `modifyTree` throws; both go through `ResolvePath`, the code's own
descent. `GivenPath` has the spellings a caller may use, with blank segments
anywhere. `Dispatch` is the mapper: an operation in a record's header, the
outcome in the headers of the reply (`ok`, `staged`, or `error` for whatever
was thrown), the caller's record left as it was. The refinement maps `main` to a flat map by listing a tree's contents
level by level (`Contents`), which shares no operator with `Walk`. `Objects` are the
blobs and the trees of up to so many levels, of which null is none.

`ReadsAgree` is about one state of the repository and all the ways to read it:
`get`, `read` and `select` at every spelling of a path, `dispatch` of every
operation, and, with the same files put on a hyperdrive without git, the
adapter's and the mount's lookups, for which a folder is what a key lies under.

### HyperdriveFs

Operators only: a drive is a set of keys, and each operator says what one
function of the adapter answers or leaves behind. `drive.list` is external.
`MountGetattr`, `MountReaddir` and `MountRead` are the mount's answers on a
listing it has (whether the listing is current is the subject of `FuseMount`);
an overlay that is missing on the host falls through to the drive in getattr
and is an error in read, as in the code.

### FuseMount

`cache` is the listing and its time, `queries` the lookups that await
`drive.list`, `fds` the descriptors: open, putting (release has called
`drive.put`), stored (the put has taken effect, the continuation has not run).
`dels` are unlinks between `drive.del` and their continuation. `Elsewhere` is
every change of the drive that does not go through the mount: the node's own
puts, or replication. `past`, `due` and `want` are history: the listings the
drive had at each time, the paths changed by a callback that has ended, and
what POSIX calls would have made of each open file.

External behaviour assumed: `drive.list` reads one snapshot of the drive; the
kernel opens only paths that exist and creates through `create` or `mknod`;
writes are one byte each (a longer write is several); a descriptor is used for
one file. What a lookup answers, with the overlays of phase-7, is in
`HyperdriveFs`.

### SwarmApp

`stage` follows `main()` of `seed/seed.js` and its shutdown, `at` the puts of
`seedContent`, `files` the content drive. A peer connects while the seed is on
the swarm, and lists the drive after an update. The world view is a `queue` of
puts under way and the files they have reached: a round (`BeginRound`) reads
the connections and awaits the put of status.json, and only when that one has
taken effect does it put peers.json, with the connections it read before
(`Then`). Rounds do not wait for one another, and `/api/run` adds a put of its
own, so they interleave in the queue. Drive puts take effect in the order they
were called in (external: hyperdrive takes a lock for a put). The run log is a
file for each millisecond of the clock `now`, as `logRun` names it: an entry
(the app and `success`) put in a millisecond that has one already replaces it.
`cut`, `newest` and `ran`, the last run answered in each millisecond, are
history. The clock does not go back. `SeedOrder` and `Probe` are constants:
phase-7 puts README.md first and looks for it.

Left out: a second signal during shutdown (the handler has no guard of its
own), the FUSE mounts, the node list and its post (as in `SwarmSetup`), the
world view of a peer (the same code as the seed's).

### TreeSwarm

spl7-phase-1 seeds the six metas and the identity as plain files and looks for
`/config/_meta`, the fourth of the seven puts, so a kill may come before the
probe (everything is put again) or after it (nothing is). A node lists the
drive and then gets every file, waiting for a connection each time. `treeCut`
is history.

### CommitSwarm

spl7-phase-2 seeds git objects on the log of `GitLog` and takes `main`, which is
put last, for the sign that they are there. The seed is a loop over the folders,
each with its blobs and then its tree (`FolderObjects`), then the root tree
(`SeedRoot`), the commit and the ref. So a kill leaves objects that
nothing names, and the next start seeds again among them, with the same metas
and another time in the identity (`stamp`, at most `MaxSeeds` starts of a seed).
The platform then reads its own tree before it joins the swarm, and the four
kinds of read a node makes are the steps of `ReadsOf`; any that throws is fatal
(main() of either program ends in `process.exit(1)`). What `git init` puts is
left out: nothing reads it. `platform.js` and `tree.js` of spl7-phase-3 seed in
the same way; there the node forks instead of reading (`ForkJoin`).

### Routing, Mesh, ManagedCode

The three message programs of phases 2 to 5. hyperswarm, protomux and avsc-rpc
are external and stand behind the actions `Connect`, `Open`, `Reach` and their
losses: one connection between two nodes at a time, made again after a loss,
both ends told in their own time.

In `Routing` a call is `sent`, `served`, `cut` (its connection went away) or
`done` (called back). A phase-3 client makes its call on every connection until
one has been called back, with the same cid, and `NoPeer` asks only whether
something was called back: a client that is connected may report no peer, and a
second connection makes a second call. That is the code; what has to hold is
the order of what it says.

In `Mesh` a line is two characters, text and newline, which is enough for every
cut a chunk can make. `wire`, `buf` and `got` exist per connection and end;
`sent` is history.

In `ManagedCode` the drive is the sequence of keys put, so a version is its
length and a replica reads a prefix, as in `GitLog`. The manager puts all roles
and then the registry at every start, and joins the swarm only then. A worker
listens from its first role's `swarm.join` on, and a connection offers the
roles that run when it is made: a client of a later role may find its channel
closed for good, since it binds to one channel only. `FirstRoleIsServed` says
which clients this cannot hit. `lost` is history.

### PageDom, NodePage, SwarmPage

A page is a view, the path it goes back to, its panels by id and the requests
under way. An answer is applied by a callback that either looks its panel up
(`held` is FALSE) or holds the element it found before the request (`held`),
which a later rendering may take out of the page (`Detach`). Requests are
answered in any order, or fail. `overtaken` is history. The files the page
shows and what there is to click on come from `HyperdriveFs`. The panels of the world view and the outputs of the
apps have ids of their own (`wv-...`, `out-...`), which `SwarmPageAssumption`
says. The `Source`
button browses a file as if it were a folder, as in the code.

## 3. Runs

| run | bounds | what it shows |
|---|---|---|
| `swarm_registry` | names a, b and a file name; 3 registrations, 2 in flight; any number of crashes | types; every version of the drive is a readable repository; no version of `main` loses a seeded folder or the platform's entry; each commit is one entry put into a state `/swarm` has had (`SwarmDirectory!SnapshotSpec`); a registration that ran alone is applied to the present state and is never undone, in the tree or in the history |
| `swarm_registry_visible` | 2 registrations | **violated**: an emitted `node-registered` is not in `main` afterwards |
| `swarm_setup` | 1 node, 2 infos, 2 registrations (a restarted node overlaps its own earlier job); fairness | a node that connects at any time browses without an error; node list and tree agree whenever a process that had one registration at a time has none in flight; every accepted registration settles; every boot reaches the HTTP server; what the platform lists comes to be in the tree every node reads, unless that node ends, the platform stops or goes away, or registrations overlap |
| `swarm_setup_listed` | 1 node, fairness | **violated**: a node that is ready early is never listed |
| `fork_join` | 3 folders, 2 identities of the platform, 3 of the node, any number of kills; fairness | readable at every version; the fork has the platform's tree; a node not killed between the two refs is itself; a started node gets ready |
| `fork_join_commits` | the same with one identity each | **violated**: a node killed between the two refs runs with one commit |
| `mycelium` | 2 names, one of them metadata; paths of up to 3 segments; 2 contents; at most 5 entries in `main` when another operation is tried | trees have their shape; get, read, select, dispatch and, on the same files without git, the adapter's and the mount's lookups agree with the files there are at every spelling of a path; every commit is one put or remove on the flat map |
| `fuse` | 1 path, files of up to 2 bytes, 1 descriptor, 1 lookup, 1 tick of the clock (the TTL) | types; the TTL bounds the age of a listing; a finished change is listed; a created file holds what was written |
| `fuse_opened` | 1 descriptor, 2 bytes | **violated**: writing part of an existing file loses the rest |
| `swarm_app` | one of: phase-7 (3 files, 2 peers that list and are listed, or 1 peer and the run log of 1 app that succeeds or throws; 3 puts under way, 2 milliseconds); spl7-phase-1 (its 7 files, 1 node); spl7-phase-2 (2 folders, 2 nodes, seeds started up to 3 times); any number of kills; fairness | a node that is up has found every file, in all its reads, unless a kill came after the probe and before the last file; in spl7-phase-2, which probes for what it puts last, no kill makes a read fail, leaves `main` short of an object or gives two nodes different identities; when no round is under way both files of the world view show what the newest round found; the view catches up with the connections; the last run answered in a millisecond comes to be in its file unless the node is stopped |
| `nodes` | one of: 2 servers, a phase-3 client of theirs and one of a missing service, 3 connections; the same with a phase-2 client; a mesh of 2 connections and 1 line each way, or 1 connection and 2 lines; a manager started twice, a worker with 2 roles, a client of the first or of the second, 2 connections and calls; fairness | 'no-peer' comes before anything else a client says; a stream delivers a prefix of the lines, in order, however it is cut; no read of the managed drive is fatal; a client of a worker's first role has an open channel while it is connected; every route ends, what is published arrives, roles come to run and calls to be answered |
| `page` | either page; 2 files, one in a folder; 1 app; 2 panels of the world view; 4 requests under way; fairness | as long as no answer is overtaken, the page shows what its breadcrumb names; no panel loads for ever |

Bounds. `Task` bounds the registrations in flight: the interference of a job
with others is with one writer of the ref at a time, so two show every pair of
orders. `MaxRegs` bounds the posts, which is what makes the log finite; three
are needed for a race of two others after a registration that ran alone. Three
fixed folders (two in `MCSwarmSetup`) let the seed stop before, between and
after folders; the other folders of the code repeat the same two writes.
`MaxReads` is 1 or 2 instead of 5: the property has to hold at each read for
any version, and the versions only grow. In `SwarmApp` three puts
under way let two rounds and a run overlap; `MaxQueue` keeps its last place for
a round, so that the bound alone never holds the timer back; two milliseconds
(`MaxTime` is 1) let runs share one or not, before and after a restart. Its peers
and its run log share only the queue, so they are two instances: in the one with
the log one peer is enough to make rounds differ. In `ForkJoin`
three times of starting
let an identity left by a killed run meet a different one, twice. `FuseMount`
is small because every operation of the mount is about one path and one
descriptor; the overlap of several lookups and descriptors, which the run does
not reach, is what the theorems of `FuseMount_proofs` are for. In `Mycelium`
depth 3 is the least with a tree that is neither the leaf's nor the root; the
constraint `FewEntries` stops at 5 of the 14 entries the paths allow. In `nodes` each program
runs alone: they share nothing. Two servers and three connections let a client
lose a connection under a call and make another; two lines on one connection
let a chunk cut a line and carry parts of two; two starts of the manager let a
worker read in the middle of a re-seed. In `page` four requests are what a
rendering of the world view needs on top of the one before. In `TreeSwarm` one
node is enough: nodes do not affect each other. In `CommitSwarm` three starts of
the seed let two that were killed leave objects behind, and the two folders are
the one with an identity and one without. Symmetry
is used for tasks, for names that are not files, and for descriptors and
lookups, and never in a run with a liveness property.

Fairness. Every step of a started platform up to the HTTP server and every
step of a registration is the continuation of an awaited drive operation, so it
is weakly fair; `CloseStore` follows `Stop` in the same function. Nothing makes
anybody boot, post, stop or crash. For a joining node, the reads are fair only
while the platform is reachable (they wait for blocks), and `Watch` is a
`setInterval`. In `ForkJoin` the node's steps are fair, and those that read the
platform's drive are enabled only while it is there or the block is local;
`ForkCompletes` therefore speaks of behaviours in which the platform is there
for good in the end. In `SwarmApp`
a put under way completes and the interval's timer fires. In `Routing`, `Mesh` and
`ManagedCode` a process handles what it was sent and its timers fire, started
programs go on and joinPeer keeps trying; nothing makes a node start, stop or
lose a connection. In the pages the oldest request is answered or fails in the
end, and nothing makes the user click. The liveness
properties admit exactly the outcomes the
code admits: stopped or killed.

Deadlock is checked in every run but `nodes`: a crash, a restart or another
call is always possible. In `nodes` containers are not restarted, and a bounded
number of connections and calls comes to an end.

## 4. Findings

1. `spl7-phase-4/docker-compose.yml:3` says "Node registration writes to swarm/
   and commits — visible to all replicas." Registrations are not serialised
   (`tree.js:99`, `platform.js:112`): of two that overlap, the first to commit
   is announced and then disappears (`RegisteredVisible`). What does hold is
   proved and checked: `UncontendedKept`, `AloneOnPresent`,
   `ImplementsSnapshots` and `HistoryKept`.
2. `spl7-phase-4/ui/http.js:4` says "Peers register with the platform so the
   dropdown discovers them." The platform is on the swarm before its HTTP
   server listens, and the one post is not repeated (`ReadyNodesListed`).
3. `phase-7-swarm-app/fuse/mount.js:1` says "Read-write projection of the drive
   onto the local filesystem". `open` loads nothing and `write` starts from an
   empty buffer, so writing part of an existing file replaces the rest
   (`OpenedFileHolds`). For a file made by `create` the buffer does hold what
   was written (`CreatedFileHolds`).
4. `spl7-phase-3/join/join.js:131` says "Git log — should have 2 commits (fork +
   identity)". A node killed between the two refs takes its repository as
   complete at the next start (`join.js:97`) and runs with one commit and the
   platform's identity (`TwoCommits`). Killed anywhere else it comes up as
   itself (`UncutIsItself`).

Noted on the way, without a run of its own: `worldview.js:47` names the entry of a
run after the millisecond alone, so of two runs in one millisecond the second put
replaces the first entry, although `phase-7-swarm-app/design.md:147` calls the
drive "a personal ledger" with the "run history". `SwarmApp` has this; what holds,
and is checked, is that the last run of a millisecond comes to be logged
(`RunsLogged`).

## 5. Proofs

Every theorem is for all values of the constants that satisfy the assumptions of
its module (the `ASSUME`s, each with a name): any sets of names, folders, infos
and identities; any number of registrations in flight and posted, of joining
nodes and of kills; any contents and any depth of trees; any paths, descriptors and lookups, any TTL and length of
time; any files to seed with the probe at any place among them, any finite set
of peers, any number of puts under way; any servers, clients, members, workers,
roles and assignments, any number of connections, lines, calls and starts; any
apps and panels of a page and any number of requests under way. `TreeSwarm` has
the code's files and any nodes. Where a run is of an MC module that puts several
programs side by side (`MCSwarmApp`, `MCNodes`, `MCPage`), the theorem about its
property is of that module with its constants open; a lemma says that each
behaviour is one of each program.

The assumptions say what the code fixes or the environment gives: the seed has a
`config` folder and ends with `swarm`; platform and nodes, and the identities of
both, differ; the orders in which code walks its folders, roles or files have
each of them (`ForkAssumption`, `ManagedAssumption`); ids of panels differ. Three
exclude values TLA+ leaves open and the code does not have: neither a tree
(`SourceAssumption`) nor any git object (`MissingAssumption`) is the model value
that stands for none, and peers and panels are finitely many.

### The registry and what joins it

| theorem | says | argument |
|---|---|---|
| `SwarmRegistry_proofs!TypeCorrect` | `[]TypeOK` | the invariant `Base`: types, and what each step of a job knows of the log (a commit it is about to reference is a commit in the log; `main` is 0 or the position of a commit; the platform's own job exists only in `seedNode`) |
| `SwarmRegistry_proofs!VersionsResolve` | `[]EveryVersionResolves` | two facts about the log alone, `Closed` (what an object needs is stored before it) and `Ordered` (a commit's parent is an earlier commit), and what each job has written so far; appending an entry whose needs are stored keeps both, so every prefix resolves |
| `TreesComplete` | `[]TreeComplete` | every commit in the log and every base a job holds that can still write contains the seed and the platform's entry; a base read from a closed store is empty, and such a job can never write again because no store is reopened in the same process |
| `KeptForGood` | `[]UncontendedKept` | `Alone`: every base a job can still commit has the kept entries, and a job that is not in `raced` is the only one to hold a tree |
| `AppliedToPresent` | `AloneOnPresent` | `Fresh`: what a job that is not in `raced` holds is the tree `main` reads now; by `Alone` nobody else could have moved `main` meanwhile |
| `HistoriesKept` | `[]HistoryKept` | `Rooted`: the parent a job has resolved has every lone commit among its ancestors, too. A job that resolved before a lone registration committed would break it, and by `Alone` there is none. Ancestors are the least set closed under parents, so that a new commit adds itself to those of its parent is first-order |
| `SnapshotRefinement` | `ImplementsSnapshots` | `FromPast`: every base is the tree of some earlier version, so the step that forces the ref is `PutInto` of a listing in `past`, and every other step leaves `main` alone |
| `SetupIsRegistry` | `SetupSpec => Spec` | every step of a node leaves the platform's variables alone or is its `Register`; so all of the above hold of the setup |
| `PlatformKeepsItsWord` | what the registry promises beyond its types, of `SetupSpec` | from `SetupIsRegistry` and the theorems above it |
| `SetupTypeCorrect` | `[]SetupTypeOK` | `SetupTyped`: also what is listed is a name and the info it posted; with lemmas on `RemoveFirstMatch` and `Append` |
| `NodesBrowse` | `[]BrowseNeverFails` | `Browsing`: a node that browses is at a version that has a `main`, and versions only grow and keep it; then `VersionsResolve` and `TreesComplete` say that each read succeeds |
| `ListAgrees` | `[]DropdownAgrees` | `Serial`: in a process that had one registration at a time none has raced, and at most one is under way; `Agreeing`: what is listed is in the tree, or the one registration under way will put it there as it is listed. `Fresh` says that its commit changes nothing else |
| `ForkTypeCorrect` | `[]TypeOK` | from `Fork`, below |
| `ForkJoin_proofs!VersionsResolve`, `Faithful`, `ComesUpAsItself`, `NeverFatal` | `[]EveryVersionResolves`, `[]ForkFaithful`, `[]UncutIsItself`, no step fails | one invariant, `Fork`: `GoodLog` (each `main` is a commit whose tree is stored before it; a first commit has the platform's tree, a later one differs in the identity alone), and for each place of `main()` what it has copied and stored by then (`Copied`, `Forked`, `Identified`). Objects left by killed runs only add to what is stored; no commit of theirs is the one this run makes, since the time is in it |

### The programs that seed

| theorem | says | argument |
|---|---|---|
| `AppTypeCorrect` | `[]TypeOK` | `Typed`: also puts are under way only while the world view runs, and a round's second put only once its first has been done; so the round of `Serve`, which looks at no bound, finds an empty queue |
| `ProbeSuffices` | `[]UncutComplete` | `Seeded`: without a cut, a probe that is there at a start means everything is; connections are taken only after that; `Sync` needs a connection |
| `NewestRoundShown` | `[]SettledViewAgrees` | `LastWord`: the last status put under way is the newest round's, or none is and `status.json` already shows it and the same holds of the peers puts; an older round's second put is always behind the newer round's first, so it never comes last |
| `TreeTypeCorrect`, `TreeRead` | `[]TreeTypeOK`, `[]UncutTree` | `Reads`: when a node has listed the tree the probe is in it, so no later start seeds and the tree is what it was; each get adds what the list had; `TreeSeeded` is `Seeded` of the tree |
| `CommitTypeCorrect`, `SeededOnce` | `[]CommitTypeOK`, `[]SeedIsOnce` | `SoFar`: the folders before the one that is written are stored whole, and the objects before the next one; so the root tree is written, and the ref forced, when all of this start's seed is stored. `Once`: `main` is put once and every version with a `main` has one whole seed; `ReadSoFar`: what a node has read is what `main` names |
| `SeedingTypeCorrect`, `WholeSeedRead` | `[]TypesOK`, `[]SeededComplete` | the three programs together |

### The mount, the nodes and the pages

| theorem | says | argument |
|---|---|---|
| `FuseMount_proofs!TypeCorrect` | `[]TypeOK` | inductive as it stands, from lemmas on the length and the bytes of a buffer that was grown, written to or cut |
| `CacheDated` | `[]CacheNoOlder` | `Dated`: also a lookup that has listed holds a listing of a time between its `now` and the present, and the present listing is among those of the present time |
| `FinishedListed` | `[]FinishedChangeListed` | `Current`: also a listing under way agrees with the drive at every path in `due`, because a path enters `due` only when no listing is under way and leaves it at the next change |
| `CreatedHold` | `[]CreatedFileHolds` | `BufferHolds`: also an open created descriptor has a buffer; byte by byte, a write or truncate does to it what it does to `want` |
| `RoutingTypeCorrect` | `[]RoutingTypeOK` | inductive as it stands, from a lemma on calls that are cut |
| `FallbackFirst` | `[]FallbackComesFirst` | `Silent`: also a client whose timer runs and which has no answer has said nothing; both the timer and an answer end that |
| `MeshTypeCorrect`, `ArrivesInOrder` | `[]MeshTypeOK`, `[]ReceivedInOrder` | `Flowing`: what an end has received begins what was written for it, and while the connection lasts the line buffer and the wire carry exactly the rest, character by character; so a chunk of any length adds the next lines. `OwnEnds`: a member reads only its own connections |
| `ManagedTypeCorrect` | `[]ManagedTypeOK` | `ManagedBase`: also a worker has run a prefix of its roles, a shorter one while it pulls, and the manager has put no more than there is |
| `ReadsNeverFail` | `[]NeverFatal` | `ReadsWhole`: what this start has put is on the drive, so a manager that serves has it whole; whoever has a version and still reads has a whole one, and later versions have what earlier ones had |
| `FirstRoleServed` | `[]FirstRoleIsServed` | by `RunsInOrder` a worker that listens has run its first role, so `Reach` opens the channel; only `Drops` closes it |
| `NodesTypeCorrect` | `[]NodesTypeOK` | the three programs together |
| `PageAgrees` | `[]SettledPageAgrees` | `Waits`: if no answer was overtaken, a panel of the path shows the path in the breadcrumb with nothing under way to it, or the last request under way to it is for that path. A rendering puts its request last; an answer that is not out of turn takes the first; `Detach` takes out only what is held by a panel that left |

### The repository layer and the file adapter

`Segments`, `ResolvePath`, `Walk`, `Contents` and `Objects` are recursive
functions over the length of a path or the depth of a tree, so what they compute
needs induction, and the library's induction theorems take an operator, which
the provers cannot instantiate. `Mycelium_proofs` does induction over sets
instead: `LeastIn` (a set of naturals has a least element, from the library's
theorem that `<` is well-founded), hence `Climb` for the numbers and `SeqClimb`
for the sequences, each applied to the set of the values for which a claim
holds. A recursive function is unfolded by showing in the same way that a
function that satisfies its equation exists on every initial segment of its
domain.

| theorem | says | argument |
|---|---|---|
| `WalkResolves` | on any tree, `Walk` makes a tree with the put entry at its path, or neither the removed one nor what was below it; folders lead to it; every other path leads where it led | `WalkRebuilt`: the tree that replaces the folder after `j` names has the next new one under the next name and the old entries otherwise, from the leaf up; `WalkAt`: by induction on a path, where it leads among them |
| `FilesInvAlways` | `[]FilesInv` | main and the staged tree are trees of files and trees no deeper than the paths (`Good`), and the staged tree, if there is one, is main itself or what one walk makes of main |
| `Mycelium_proofs!TypeCorrect` | `[]TypeOK` | `ContentsAre`: what is in a tree is exactly what some path leads to, which `Good` gives a type |
| `FilesImplemented` | `ImplementsFiles` | `StorePut` and `StoreRemove`: read as flat maps, a walk is `PutFile` or `RemoveEntry`; `CanPutClear`: `modifyTree` throws on a put exactly where the map cannot do it. Without the last part of `FilesInv` a commit could be any tree |
| `ReadsCorrect` | `[]ReadsAgree` | one lemma per conjunct: a path leads where its segments lead (`ResolveGiven`), the keys that select makes have the folder's segments and the name (`KeySegments`), an added header is the one that counts and others stay (`LastCounts`, `OthersStay`), a listing by prefix is a listing by names (`ReaddirIs`, `ListDirIs`) |
| `MountShows` | ls, stat and read of the mount agree, for any set of keys and of overlays, of which any may be missing on the host | a folder is what something lies under (`ReaddirIs`, `OverlayDirsIs`). `MountAgrees` is the instance with one overlay |
| `TreesDetermined` | trees with the same files and folders are the same tree | from the deepest paths up: where no tree can be, files agree, and a tree is its entries |
| `PutsCommute`, `PutAgain`, `PutUndone` | two puts at paths neither of which begins the other make one tree in either order; a second put at a path leaves no trace of the first; removing a file just put into an existing folder gives back the tree there was. In each the second call does not throw | the two flat maps are equal, then `TreesDetermined` |

Apart from some of the types these properties are not inductive: they say nothing
of what a job in flight will write, of what a lookup under way has read, of the
answers and puts still to come, or of where a staged tree comes from. The
invariants named in the tables say it, and each is proved with one step per
action.

Only model-checked is liveness (`BootCompletes`, `RegistrationSettles`,
`ListedReachReplicas`, `ViewCatchesUp`, `RunsLogged`, `ForkCompletes`, `RoutesEnd`,
`PublishedArrives`, `WorkGetsDone`, `PanelsLoad`): liveness under fairness and
ENABLED are out of the prover's reach. Every invariant, action property and
refinement that a passing run checks is a theorem.

## 6. Not modelled

- peers (`phase-1/node.js`): each end of a connection writes one object and logs
  what it gets; there is no state to go wrong. Streams are in `Mesh`.
- reactive dataflow (`phase-6`): a design document and a scripted probe.
- the dashboards and header lines of the pages, the pages of spl7-phase-1 to -3
  (the same programs), style and layout.
- the node list of spl7-phase-1, spl7-phase-2 and phase-7 and its one post: `SwarmSetup`
  has the same code with the commit behind it.
- how a chunk is decoded: phase-4 decodes each one for itself, so a character of
  several bytes that is cut is garbled; `Mesh` cuts between characters.
- an error on a connection that comes to phase-3's client after the answer: it gets
  no error handler (`node.js:72`), and none of the properties is about it.
- a second signal during phase-7's shutdown: its handler only destroys and
  closes, and what the libraries do when called again is not in this repository.
- DHT bootstrap nodes, compose files, scripts, probes of libraries, logging.

## 7. Plan

Everything planned is built: the registry, the setup, the mount, the fork, the
layers, the swarm app, the message programs and the pages; and every invariant,
action property and refinement of the passing runs is a theorem. What is left
follows changes of the code: with serialised registrations `RegisteredVisible`
becomes an invariant to prove; with a name of its own for each entry of the run
log it only grows; with a guard in phase-7's shutdown, section 6 names what to
model.
