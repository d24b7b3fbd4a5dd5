# chronista-hub in TLA+

Models of the Hub server (`src/crates/chronista-hub-server`), their model
checking with TLC, and proofs about them checked by TLAPS. `PROJECT.json` maps
every definition to the lines it stands for; this file says how the parts fit.
Paths below are relative to the server's `src/` unless they start with `docs/`,
`migrations/` or `tests/`.

## 1. The system

One process. An axum router (HTTP) and a Unison server (QUIC) share one
SurrealDB connection; a consumer task and a watchdog task run beside them. The
database does single statements and `BEGIN … COMMIT` blocks atomically;
everything the server does with two calls can be interleaved with anything else.

| Component | State it keeps | Operations | Hard behaviour | What makes it correct |
|---|---|---|---|---|
| Handle roster (`storage.rs`, `/v1/me` in `app.rs`) | tables `user`, `handle_reserve` | `ensure_user`, `claim_handle`, `rename_handle`, reserve lookups | check-then-act over several calls, conflicts and retries, writes that land after a 504, two clocks (cooldown 30 d, reserve 100 d) | one row per person, one handle per user, one user per handle; a rename waits for the cooldown; the old handle is kept and redirects; answers are true |
| Event log (`event_log.rs`) | table `hub_event` | `append`, `unprocessed`, `mark_processed`, `record_failure` | duplicate deliveries racing each other, late CREATEs | rows are never lost or replaced, a 202 and a 409 stay true |
| Consumer (`consumer.rs`) | its batch; writes `hub_resource` | `tick`, `apply_event` | failing calls, restarts between apply and mark, poison events | at least once, dead only after `MAX_RETRIES` failed applies, nothing waits for ever |
| Node registry (`unison_server.rs`, `storage.rs`) | rows of `hub_resource` (durable), relay registry (transient) | Register, Unregister, Discover, clean-up of a channel | two writes per request, reconnect before clean-up, foreign requests, the consumer writing the same rows | a request changes a user's node only for that user; entries belong to running channels, and lead where the node was registered |
| Relay (`unison_server.rs`) | a pair of streams | `handle_relay` | target gone between lookup and open, a target that does not read, frames sent before the relay stands | frames go to a connection the node named was registered on, in order; a relay nobody holds up ends |
| Publications and organizations (`app.rs`, `storage.rs`) | `publication`, `org_membership` | put, delete, list | authorization and ownership read before the write, lookups that meet a rename, late writes | an entry's publisher is its author's; a request writes once, and had leave; another app's entry is overwritten only in a race; 404 only for what led nowhere at some moment, unless it was taken or taken back meanwhile |
| Product tokens (`product_token.rs`) | `hub_product_token` | issue, verify, rotate, revoke | rotations that overlap each other, issues, revocations and the end of a token | a token ends once; a rotation leaves an heir and loses no scopes |
| Connection and watchdog (`db.rs`) | connection, generation, health, kick | `ping`, `check`, `reconnect_from`, `kick` | concurrent checks, lost wake-ups, a database that is slow rather than down | at most one reconnect per failure, recovery |
| Migrator (`db.rs`) | `_migrations` | `run_pending_migrations` | stop between applying and recording | migrations take effect in order, completely, before a server serves |
| Request guard (`app.rs`) | none | `guard_db` | answers before the write is decided | a read may be retried, a write's result is unknown |
| Authentication (`auth.rs`, `main.rs`) | verifying keys | `authenticate`, JWKS refresh | keys rotate while requests verify | no principal without a valid credential |
| App roster (`storage.rs`, `app.rs`) | table `app` | `put_app`, `list_active_apps` | read, then write back the whole row | fields the API does not know survive |
| Tree reads, pages, configuration, code generators, probes | none | reads, rendering, start-up, text generation | none | not modelled (section 7) |

Who calls whom: HTTP handlers and Unison channels call `storage`, `event_log` and
`product_token`; the consumer moves what `append` stored into `hub_resource`, the
table the node registry also writes, and asks for no owner when it does; `guard_db`,
the consumer and the nodes channel wake the watchdog; `app.rs` reads the roster to
say who may publish.

## 2. Modules

| Module | What it is |
|---|---|
| `HandleSpace` | abstract: an address book with one step per operation |
| `HandleRoster` | the roster as the server runs it; refines `HandleSpace` |
| `PublicationIndex` | abstract: entries, and leave to write them |
| `Publications` | readable URLs: put, delete and the lookups; refines `PublicationIndex` |
| `TokenLife` | abstract: a token is made once and ends once |
| `ProductTokens` | issue, verify, rotate, revoke; refines `TokenLife` |
| `Ingestion` | `POST /v1/events`, the log and the consumer |
| `NodeRegistry` | the `nodes` channels, durable rows and transient entries |
| `Relay` | the `relay` channels; extends and composes with `NodeRegistry` |
| `Watchdog` | the shared connection, `check`, the watchdog and its kicks |
| `Migrator` | the start of a server up to the point where it serves |
| `HandleSpaceProofs`, `HandleRosterProofs`, `PublicationsProofs`, `ProductTokensProofs`, `IngestionProofs`, `NodeRegistryProofs` (with `Relay`), `WatchdogProofs`, `MigratorProofs` | theorems and proofs |
| `MC…` | an instance of each detailed module for TLC, one `.cfg` per run |

### HandleSpace and HandleRoster

`HandleRoster` has the columns `creo_sub`, `handle`, `handle_changed_at` of table
`user`, the table `reserve` (`handle_reserve`), the database clock `now`, a record
per request slot, and `late`, the writes the SDK still holds for requests that
were answered 504. A request runs through the steps

    ensure_get -> ensure_create -> ensure_reget            ensure_user_once
    claim_lookup -> claim_reserve -> claim_update -> claim_reread   claim_handle_once
    rename_cooldown -> rename_reserve -> rename_txn -> rename_reread   rename_handle_once

one database call each, in the order of the code, with its early returns. The
decision between the three (`WithRow`) is the handler's and uses the row read
earlier. Writes are what the statement does: the `UPDATE … WHERE`, the unique
indexes, the whole transaction of a rename. A write that meets another may end in
a transaction conflict (`Contended`) and is tried again from its first step, up to
`Attempts`. Handles of reserved names and organizations are the constant `Fixed`:
no request changes them. `Timeout` is `guard_db` cutting a request off, or a 503;
`LateLands` and `LateIsLost` are the two ends of a write left behind
(`app.rs:82-83`). The answer is fixed by the last read; the further read of
`me_json` only adds `reservedHandle` to the body.

`HandleSpace` says what the roster promises: `owner`, `redirect`, `changedAt`, and
the steps Claim, Rename and Lapse. The refinement maps `owner` to the user whose
row has the handle and `redirect` to the unexpired reserve of a handle nobody has,
which is what `GET /v1/users/{handle}` follows. With `ReserveBinds = TRUE` (the
`Strict` instance) nobody takes an address that redirects to somebody else; with
`FALSE` (`Loose`) they may.

### Ingestion

`append` is three steps (`CheckKey`, `CheckId`, `CreateRow`), between which other
requests and the consumer run; `received_at` is read before the CREATE is sent. The
unique indexes of migration 003 are in `Create`, by key alone as in the code. Any of
the three calls may fail (`PostFails`): a 503 when the database is out of reach, a
500 for every other error of it, and after the CREATE the row is there or not. The
consumer polls unsettled rows in `received_at` order (rows of one millisecond in any
order), and for each row applies and marks, or records a failure. A failing call may
have taken effect (`ApplyFails`, `MarkFails`, `RecordFails`). `record_failure` is
two statements, so it may stop after the first. `Crash` forgets requests, held
writes and the batch. `applied` and `tries` are history variables: the events whose
effect has reached `hub_resource`, and how many applies of an event have failed. The
upsert of one event is one step.

### NodeRegistry

One process per `nodes` channel, one channel per connection: `recv`, authorization
and the database call, `sync_relay_registry`, `send_response`, and the clean-up
after the loop. `link` is whether the peer is still there: the server goes on with
a request whose peer has gone. The row carries only its owner, which is what the
`WHERE` of both statements is about; endpoints, names and visibility are left out,
and with them the list that Discover answers: it is read in one query and changes
nothing. `Consume` is the consumer of `Ingestion` as far as a node's row is
concerned: an accepted event may name any row of `hub_resource`, and
`upsert_resource` and `delete_resource` have no `WHERE` on the owner, so a row is
replaced by one without owner, or goes. `granted` is a history variable: what the
database has let the peer of a channel register. `by` is
whether a request names a `node_id` or only a handle; without a `node_id` the
reply has none and the registry is left alone. `Restart` empties everything but
the rows.
That a connection is authenticated at most once, and that its channel is opened
once, is how the clients use club-unison, which is not part of the repository.

### Watchdog

`db.rs` with a remote database. A connection is the number of reconnections before
it was opened, so that `conn` and `generation` can be compared; between `Swap` and
`Bump` they differ, as in the code, where they are two writes. `check` is

    take -> ping -> wait (mutex, compare) -> open -> swap -> bump -> count
         -> retake -> reping -> record

with a step for each await and each shared field, and for the watchdog a `gap`
(`MIN_CHECK_GAP`) after it. `retake` and `reping` also follow a comparison that
finds somebody else has reconnected. `seen` is the generation `check` reads first,
`over` the connection it pings. `Callers` are other users of the public `check`.
Faults are of three kinds: the database stops (`GoDown`), sessions are forgotten
while it answers (`LoseSessions`), and a ping runs into its 5 s on a database that
answers others (`PingTimesOut`). Each such ping is a fault of its own: on a database
that stays slow every check may fail its ping and succeed in its 10 s open, and
replace the connection again, which `OneReconnectPerFault` allows for. `OpenFails`
is possible at any time, at the connection, the signin or the session. Clients take
the connection, query once over it, and `kick` when the query fails or is not
answered in time; the permit of `Notify` is the Boolean `kicked`. An embedded
database is pinged and never reopened, so nothing of this applies to it.

### Relay

`handle_relay`, one record per channel: `open` (the first frame, `{to, from}`) ->
`lookup` -> `dial` (`open_server_stream`) -> `greet` (the target is told who sends,
the source that the relay stands) -> `forward`. The connection found at `lookup`
is kept while the registry goes on changing; connections break between any two
steps (`Cut`). A source need not wait for the answer: what it sends meanwhile is
in `inbox`. `out` is what was written to the target, 0 the hub's own frame. The
streams are club-unison's: reliable and in order while both ends live; a write
to a connection that is not yet known to be gone succeeds. `open_server_stream` and
`send_frame` have no timeout, so `Dial`, `Greet` and `Forward` need not happen as
long as the target lives (`Unhindered` is what does happen); a target that stops
reading holds the relay, also after its source is gone. A target that goes is
noticed at the next frame only, so the relay of a silent source stays open.

### Publications

A request is one database call per step: `user`, `reserve`, `moved` (the publisher
of a handle, `user_by_handle` and `resolve_moved_handle`), then for an app `slug`,
`app`, `look` (whose entry is there), `write`, `reread`. The four readers (profile
page, entry, `GET /v1/users/{handle}` and its publications) read the same rows and
are one action, `Visit`. Claims, renames, ends of reserves (`HandleRoster`, one step
per request here) and the admin's `PutApp` come between any two steps, at most
`MaxChanges` of them; two writes of one row may conflict (`Contended`); a write left
behind by a 504 lands or is lost (`late`, a state of its request). A product token
is taken as valid for the app that calls, and acts for any person. Roles and
organizations are seeded by migration 013 and never change, so reading them is no
step. `put_app` reads and writes back fields that nothing else writes, so it is one
step. 200 or 201, URLs and titles are left out. The entry that migration 013 makes
is there from the start (`SeededRows`): it names as its author a person (`Founder`)
who in a fresh database is no user and nobody's member, so `EntitledOnly` is about
entries other than it. `met` is a history variable: what has been true of the handle
a request is looking up, or of the slug it is about to write.

`PublicationIndex` has the entries and for each request the one write it has `leave`
for: `Permit` gives leave at a moment when the slug is free or the app's, `Perform`
uses it up. Leave is as of the look: between it and the write another app may have
put the entry, and `Perform` overwrites it. With `Binding = TRUE` it could not;
that is not what the code does, and the refinement is of `Binding = FALSE`.

### ProductTokens

Issuing, revoking and verifying are one statement each (`product_token.rs`), so one
action. A rotation is a transaction of four statements: `BeginRotation` takes its
snapshot of the app's tokens and reads `$inherited`, the scopes of the newest active
one, for a request that names none; `Rotate` shortens the tokens in use to `now +
Overlap`, makes the new one and commits, or fails (`Abort`) when a row it shortens
has been written since the snapshot. A row it only read may have changed: issues,
revocations and other rotations come between the two steps, as many rotations at
once as there are tokens. That snapshots conflict on written rows and on no others
is what SurrealDB's transactions are taken to do. The statements that write take the
`now` of the commit, so that UPDATE and CREATE agree. `issued` is a history
variable: what was asked and answered, and when the transaction began. `verify` is
the predicate `Active`. `TokenLife` has two facts about a token: its grant (app and
scopes) and whether it is unborn, live or dead. `check_admin` decides whether an
operation is called at all and is left out.

### Migrator

`run_pending_migrations` of up to two servers at once: `Read` the names (a read
that fails counts as none), `Apply` statement by statement, `Record` in a call of
its own, `Serve`. `Fail` ends a start at any step, the record perhaps written. A
call cut off by its client's end ends with the client. Statements can be run
again, as the migration files see to (`IF NOT EXISTS`, `OVERWRITE`, `UPSERT`), so
`done` counts the statements that have taken effect at least once. With
`auto_migrate` off nothing is applied, and nothing is modelled.

## 3. Runs

Every run is `tlc -config <cfg> <module>`.

| Run | Checks | Bounds | Shows |
|---|---|---|---|
| RosterConcurrent | `OneAccountEach` `NoLostRow` `ReservesFollow` `SuccessIsTrue` `RenamesCoolDown` `BreachIsFresh` `AddressBook` | 2 people, 2 free handles and a fixed one, 2 requests, 1 late write, clock 0..2 with cooldown 1 and reserve 2, 2 attempts | every interleaving of two requests and a late write goes through the steps of the address book, and only who was there before a rename breaks its reserve |
| RosterSerial | `BindingAddressBook` `TakenIsNotMine` | 1 request at a time, 4 handles (1 fixed), clock 0..5, ticks within requests | without concurrency reserves bind |
| RosterReserve | `ReservedForOwner`, violated | 2 requests | finding 1 |
| IngestFaults | `AnswersHold` `ProcessedTookEffect` `DeadHadTries` `RowsOnlySettle` | 3 envelopes whose ids and keys collide, one of them poison, 2 requests, 1 held CREATE, 1 restart, every call of request and consumer may fail | what was answered stays true, no row is lost, replaced or settled without effect, or given up early |
| IngestOrder | `ShowsLatest` `PerResourceOrder` `EveryEventSettles` | 3 events of one resource, one of them poison, 2 milliseconds, batches of 2, 2 failures, 1 restart, failing `record_failure`s and no other fault | while applies and marks of good events succeed, the order of a resource holds and the registry shows the newest event; and every event is processed or given up |
| NodeChurn | `EntriesKnown` `OwnerKept` `RouteIsRegistrants` `GoneIsForgotten` | 2 connections, a user, an app, nobody; 1 node; Register, Unregister, Discover, by node id or by handle; events that rewrite or remove the row | requests leave a user's node to the user, entries lead where the node was registered and go with connections |
| NodeReconnect | `NodeStaysReachable`, violated | 2 connections of one user | finding 2 |
| Relay | `RelayToRegistrant` `ForwardedInOrder` `RelayEnds` | 2 connections, 1 user, authentication required, Register and Unregister, events that remove the row, 1 relay, 2 frames | a relay leads where the node was registered, keeps order, and ends unless a live target holds it up |
| Publications | `EntitledOnly` `AnswersMeetAMoment` `OnlyWithLeave` `OverwritesOnlyInRace` | 2 people, 1 organization with a member and a guest, 3 handles, 1 slug that is also an app's id and has an entry of the organization from migration 013, 2 apps, 2 requests, 2 attempts, 3 changes from outside | entries are their publishers', lookups answer what was so, a request writes once and with leave, and over another app's entry only in a race |
| Tokens | `KeepsItsTime` `HasHeir` `InheritsFromTheLiving` `PowerlessForAReason` `LivesOnce` | 3 tokens, 2 apps, 1 scope, times to live 0, 2 and 3, overlap 1, clock 0..2, up to 3 rotations at once | rotations keep their word and tokens live once |
| WatchdogFaults | `OneReconnectPerFault` `FailureNoticed` `ReplacesOnlyFailed` `Recovers` | the watchdog, one other caller of `check`, one client, 2 faults (stops, lost sessions, pings that time out), opens that fail at any time | at most one reconnect per fault, no failure slept over, recovery |
| Migrator | `InOrder` `RecordedIsDone` `NotAgain` `AllServe` | 2 servers, 4 migrations of 2 statements, 3 faults | whatever fails, the database is completed in order and both servers serve |

The type invariants, `RelayTypeOK`, `HandlesDistinct` and `SpaceInOrder` are proved
(section 5) and not repeated by a run.

Why the bounds are enough: two free handles are what a rename and a take-back need,
the fixed one is what every claim must leave alone, and RosterSerial has a third
free handle for a second rename away; two requests and one late write give every
race of two writers and a third effect that nobody waits for; the clock reaches past
a cooldown and past a reserve. Times keep their order (cooldown shorter than
reserve, a request much shorter than both), which is all the code compares. In
RosterConcurrent a request begins and ends within one tick; ticks within a request
are in RosterSerial. For the log, two events that share a key and two that share an
id are the two indexes; a batch smaller than the backlog makes the consumer poll
again with rows left over. A node has one row and one entry, and channels interact
only through them, so one node suffices; of users one is enough beside an app and
nobody, for whom another's node is refused as it would be for a second user. A relay
meets others only in the registry, and two frames are the least that can be out of
order; one of the two may be sent before the relay stands. For publications one slug
is enough, since entries meet only under one; of three handles one is the
organization's and two let a person rename, and three changes are a claim, a rename
and the claim of the handle left behind. Three tokens are one that is rotated twice,
or one shortened by the rotation that makes its heir and one revoked beside them, or
three rotations at once; a clock of 2 runs past the overlap and to the end of a
token that lives for the default time, and a time to live of 0 is the boundary. Two
checkers are what a mutex and a generation are for, and two faults let the second
one strike while the first is being repaired. Four migrations let two servers be two
migrations apart in both directions; three faults let each server fail and one
misread. The theorems of section 5 do not depend on bounds.

Deadlock is checked in every run but Migrator, whose servers have nothing left to
do once they serve. Symmetry is used only where no liveness is checked.

Each property of a passing run has a mutant in its module (`\* Mutant: …`): the
definition as a plausible slip would leave it. With the mutant in place TLC finds
the property violated.

Fairness. Ingestion: the poll loop never ends (`spawn_consumer`), a call of the
consumer returns or fails, and one that is tried for ever succeeds now and then
(the watchdog reconnects): weak fairness for the steps, strong fairness for the
success of marks and records only. That an apply ever succeeds is not assumed; it
either does or the event is given up. NodeRegistry: a request under way comes to
its end, and the loop of a channel whose peer is gone is left; clients owe nothing.
Watchdog: the database comes back up (`Recovers` is about what happens then) and
one that is up does not refuse new connections for ever (`OpenSucceeds` is strongly
fair), pings too slow for their timeout are faults and so finitely many, the
ticker of `spawn_watchdog` ticks for ever, every await of `check` has a timeout
(`PING_TIMEOUT`, `CONNECT_TIMEOUT`), so its steps are weakly fair; the mutex is
tokio's, which is first come, first served, so `Lock` is strongly fair. Clients and
other callers need not do anything. Relay: a handler that waits for nobody goes on
(`Unhindered`), and the stream of a peer that is gone is noticed; nothing makes a
source send, finish or declare, nor a live target accept a stream or read, so
`RelayEnds` is about sources that are gone or have finished, and says "or waits for
a live target". Migrator:
the platform starts a server that is down again, and a start goes on; the number
of faults is bounded, as without it a server could fail for ever.

## 4. Findings

1. `storage.rs:504`, `:382`: whether a handle is reserved is read in one call and
   the handle taken in another. A rename that commits in between reserves its old
   handle and frees it; a claim under way takes it. `storage.rs:457` and
   `migrations/012_handle_rename.surql:3` promise that nobody else can.
2. `unison_server.rs:199-205`: the clean-up of an ended channel removes entries by
   node id, also the one a reconnected node has just made. The node is connected
   and offline for the relay, against `unison_server.rs:155` and `hub_protocol.kdl:70`.

Both are bounded by theorems of section 5: `RosterBreachIsFresh` says how far
finding 1 reaches, `RosterBindsWhenReserved` that nothing else is wrong with
reserves, and `OneHomeIsReachable` that finding 2 takes a node on two connections.

More that the models show and no run asks for. `app.rs:690` calls a second claim of
the same handle idempotent; of two such requests at once the slower may find the
handle in use, by the asker, and answer 409 (`TakenIsNotMine` is checked and proved
for one request at a time). `docs/adr/ADR-004-event-sync-reliability.md:34` gives
the order as per-resource monotonic; after a failed mark or apply the consumer goes
on and applies the event again later, over later events of its resource
(`PerResourceOrder` is checked and proved without such failures). Nor does it hold
of two POSTs at once: `received_at` is read before the CREATE, so a row may enter
the log behind one that has taken effect. An Unregister of another user's node
removes no row, is answered `removed: 0`, and yet removes the entry of the relay
registry (`unison_server.rs:93-95`). The consumer replaces or removes any row an
accepted event names (`storage.rs:810-830`, called from `consumer.rs:18-25`), a
`vp-node` row included, whoever owns it, and leaves it ownerless, so that the next
user who registers the node has it; the validation of envelopes does not look at
what kind of id `resource.id` is. `OwnerKept` therefore speaks of requests and says
of events only that they give a node to nobody in particular, and
`RouteIsRegistrants` and `RelayToRegistrant` speak of what the database accepted on
a connection rather than of the owner of the row, which may be another by then.
`docs/adr/ADR-004-event-sync-reliability.md:27` deduplicates by `(app_id,
idempotency_key)`; `has_idempotency` and the index of migration 003 go by the key
alone. An event of another app that happens to have the same key is answered 409 and
is not in the log; `AnswersHold` says what a 409 does promise. A handle that is
taken back between the two lookups of a request is answered 404 though it led to the
same person before, meanwhile and after (`storage.rs`, `resolve_moved_handle`);
`AnswersMeetAMoment` excepts it. And a put may overwrite, a delete remove, what
another app has put after the look (`OverwritesOnlyInRace` says only then), which is
why `PublicationIndex` is refined with `Binding = FALSE` (`WithoutRaceEntriesAreOwn`
says that nothing else stands against ADR-024). On a database that is slow for long,
each check may replace the connection, since a ping has 5 s and an open 10
(`db.rs:201-227`). A relay whose target accepts no stream or does not read holds its
handler after its source is gone (`unison_server.rs:519-540`). With two servers
starting at once a recorded migration may be run again (`NotAgain` is about a server
that starts alone); 011 has an UPDATE that then runs over newer rows.

## 5. Proofs

All with the assumptions the modules name (`RosterAssumption`, `OutcomeAssumption`,
`RegistryAssumption`, `RelayAssumption`, `SpaceParameters`, `IngestionAssumption`,
`WatchdogAssumption`, `TokensAssumption`, `PublicationsAssumption`,
`MigratorAssumption`): periods are natural numbers, the cooldown is shorter than the
reserve, a request is shorter than the cooldown, the event ids are finitely many,
people and organizations are different and each organization has a handle of its
own, `None` is none of the things it stands in for.

* `HandleSpaceProofs!AddressBookInOrder`. `SpaceInv` (types, one address and one
  redirect per user, redirects that lead) is inductive as it stands. From it
  `OldAddressesStay`: where reserves bind, a handle left behind redirects until its
  user takes it back, renames again, or its time is over; RosterSerial checks that
  one request at a time is such an address book.
* `HandleRosterProofs!RosterTypeOK`, `RosterOneAccountEach`,
  `RosterHandlesDistinct`, `RosterReservesFollow`, `RosterLosesNoRow`. The invariants of
  RosterConcurrent are not inductive: they need what a request between two calls
  knows (whose row it holds, that the handle it renames from was once that
  user's, that a write it is about to repeat cannot have been committed by
  itself) and what a late write names. `Inductive` proves the conjunction kept by
  every step, one lemma per action.
* `HandleRosterProofs!RosterKeepsPromise`: `Spec => AddressBook`, the refinement,
  one step of `HandleSpace` or a stutter for every step of the roster; every late
  write maps to Claim, Rename or a stutter. `RosterCoolsDown`: the action property
  from the same invariant. `RosterAnswersTrue` adds that a request under way has no
  answer yet (`Unanswered`): only its own steps answer it, and those that answer
  "ok" have just read the asker's row. `RosterSpaceInOrder`: what
  `AddressBookInOrder` says of every address book holds of the roster's, by the
  refinement.
* Reserves. `RosterBreachIsFresh` is finding 1's reach: except by a write that
  outlived its request, a reserve is broken only within `MaxSpan` of the rename that
  made it. It needs that a request about to take a handle which is reserved against
  it began before the rename that reserved it (`ReserveLooked`).
  `RosterBindsWhenReserved`: a behaviour in which every taking respects the reserves
  (`ReservedForOwner`) refines the address book whose reserves bind, so
  `OldAddressesStay` holds of it (`RosterOldAddressKept`). That `ReservedForOwner`
  is an assumption there is finding 1: the code breaks it. For one request slot and
  no write left behind (`Serial`) it is proved (`RosterReservedForOwner`), and with
  it `RosterKeepsBindingPromise` and `RosterTakenIsNotMine`: two requests at once
  break each of the three.
* `IngestionProofs`: the type invariant, `AnswersStayTrue`, `ProcessedHadEffect`,
  `DeadAfterTries` and the action property `LogKeepsRows`. They are not inductive
  alone: `OneRowPerKey` is what a CREATE relies on, `TriesCover` says that
  `retry_count` never runs ahead of the applies that have failed (`tries`),
  `PostsKnow` says that a request under way has an event and no answer yet,
  `BatchPending` that the rows before the consumer are unsettled, each there once,
  and that a row about to be marked took effect. It holds because the consumer is
  the only one that settles rows (`SettleKeeps`) and a CREATE only ever adds one
  (`CreateKeeps`), whatever late CREATE lands.
* `IngestionProofs!EffectsInOrder`, `RegistryShowsLatest`. Two assumptions, neither of
  which the code sees to: `Calm`, applies and marks of good events do not fail (a
  `record_failure` may, events may be refused, the server may restart anywhere), and
  `NoneOvertaken`, no row enters the log behind one the consumer has taken up.
  `OrderInv` says that no row which may still take effect (unsettled and not refused)
  is older than one that has, nor than one of the batch unless it is before that
  one in the batch; so a row applied and not marked at a restart is applied again
  over nothing newer. `SerialEffectsInOrder` and
  `SerialShowsLatest` replace `NoneOvertaken` by one POST at a time with no held
  CREATE (`OneAtATime`): its `received_at` is then the newest there is.
* `WatchdogProofs!WatchdogTypeOK`, `ReconnectsOnce`, `FailuresNoticed`,
  `ReplacesFailed`. The invariant adds `GenerationFollows` (the generation is the
  connection, or one behind while the holder of the mutex is at `bump`),
  `CheckerKnows` (a checker reads the generation before it takes the connection,
  so past the comparison the ping that failed was on the connection of now),
  `FaultsPaidFor` (a connection that does not answer, or did not answer a checker
  about to replace it in time, has had a fault of its own, a ping that timed out
  being one) and `ClientsHeard` (a failure a
  client reported is known to the watchdog, under check, or a kick is stored).
* `NodeRegistryProofs!RegistryTypeOK`, `RegistryInOrder`, `RegistryKeepsOwners`,
  `RoutesAreRegistrants`. `Inv` adds to the properties that a request asks for the
  connection's own principal. `GrantsKnown` says that a channel about to enter a node,
  or with one in `registered`, has been let register it, as the principal it still
  has. `OneHomeIsReachable` assumes that no node is registered on one connection while
  another has, enters or removes it (`OneHome`): then the registry has what every
  channel remembers (`Homed`), and no clean-up takes another's entry. Finding 2 is a
  behaviour without `OneHome`; reconnecting after the clean-up of the old connection
  is one with it.
* `NodeRegistryProofs!RelaysTypeOK`, `RelaysForwardInOrder`, `RelaysReachRegistrants`,
  of the composition. `Fed` says of each relay that what was written to the target
  followed by what waits in the inbox is 0, 1, ... without a gap (`Line`).
  `Reached` says that a relay past its lookup leads to a connection that was let
  register the node; it survives the channel being used again because a connection
  that goes is cut from the relay in the same step (`Cut`).
* `PublicationsProofs!PublicationsTypeOK`, `PublishedByEntitled`,
  `LookupsMeetAMoment`. `RequestsKnow` says that past the check the person may
  publish under the publisher, who has a handle: roles do not change and nobody
  loses a handle without getting another (`HandlesStay`). `Seen` relates the history
  `met` to where a lookup stands; a handle taken or taken back between the lookups is
  excepted (section 4). `WritesHaveLeave` is the refinement: a look that
  lets a request write is `Permit`, the write `Perform`, which uses up that request's
  leave, a conflict or a timeout `Forgo` or a stutter. `OverwritesRace` is the action
  property: `RaceSeen` says that a write on its way to a slug that is another app's was
  on its way already when it became so.
  `WithoutRaceEntriesAreOwn` is the refinement of the index with `Binding = TRUE`, for
  behaviours in which the writes of one slug under way at once are one app's
  (`NoRace`): then what the look found still holds at the write (`StillFree`), and a
  delete that finds nothing left is a `Forgo`. `WithoutRaceEntriesAreKept` says what
  that gives an app. `AloneEntriesAreOwn` is the case of one request slot.
* `ProductTokensProofs!TypesHold`, `OverlapHonoured`, `RotationLeavesAnHeir`,
  `ScopesFromTheLiving`, `PowerKept`, `TokensLiveOnce`. One lemma (`RowKept` and its
  neighbours) says what any operation leaves of the tokens there are; `Base` that
  nothing is dated after the present, and that a rotation under way works on rows of
  its own app (`UnderWay`). The rest is about which token the operation makes. What a
  transaction read at its snapshot is carried to its commit by `WillInherit` and
  `WillBePowerless`, which say of the rotation what the properties say of its token.
  `TokensLiveOnce` is the refinement of `TokenLife`.
* `MigratorProofs!MigratorTypeOK`, `MigrationsInOrder`, `ServesComplete`, `RunsOnce`.
  `Prefixes` says that what is recorded, and what a server goes by, are the first
  so many migrations: who is behind finds the name there and starts over. So the
  first not applied is the next (`CurrentIsNext`), all before it are complete, and
  `Counted` makes it complete when it is recorded. `Alone` is for `RunsOnce`.

Only model-checked: liveness (`EveryEventSettles`, `GoneIsForgotten`, `RelayEnds`,
`Recovers`, `AllServe`), which is out of the prover's reach. Every other property of
a passing run is a theorem, some under an assumption the run makes by its bounds:
`BindingAddressBook` and `TakenIsNotMine` under `Serial`, `PerResourceOrder` and
`ShowsLatest` under `Calm` and `OneAtATime` (IngestOrder has one request slot and no
held CREATE).

## 6. Plan

Done, in this order: the roster with its abstract address book, the event log and
its consumer, the node registry, the watchdog; then publications with their index,
product tokens with the life of a token, the relay composed with the node
registry, and the migrator.

Left: the write that looks at the reserve itself, should finding 1 be repaired
(`RosterBindsWhenReserved` is then the proof that the repair suffices, once
`ReservedForOwner` is shown of it); PATCH /v1/me, should anything come to depend
on the display name.

## 7. Not modelled

Rendering (`profile.rs`, `start.rs`, `settings.rs`), reads of the resource tree, the
list that Discover answers, configuration and start-up: no state of their own and
nothing to interleave. The KDL parser and code generators under `packages/`: offline
text generation. Validation of envelopes, handles, slugs and URLs: pure functions
that decide whether a request enters the models at all. Authentication: verifying a
JWT is a function of the credential and of one key set, which the refresh replaces
in one write; the models take the principal as given, and a principal once found is
not checked again, as in the code. PATCH /v1/me is one UPDATE of a column nobody
else reads. Probes and operator tools are clients of the running server.
