# A verification project for contacthub

contacthub is a CardDAV server: it keeps address books and vCards of its users
in one SQLite file and serves them over WebDAV methods.  This directory holds
TLA+ modules that model its core, TLC configurations that check them on small
instances, and proofs for TLAPS.  Paths below are relative to `src/`.

    tlasany M.tla                            # parse
    tlc -workers 2 -config MCDav_sync.cfg MCDav   # check one run
    tlc -workers 2 -config MCStore_storetx.cfg MCStore
    tlapm ContentProofs.tla                  # check the proofs of a module

`PROJECT.json` lists components, runs, mutants, the map from definitions to
source lines, findings, hazards and theorems.

## 1. Inventory

| Component | State | Operations | Correct when |
|---|---|---|---|
| Contact handlers, `internal/handler/contact.go` | local variables of each request: the book, the contact at the URL, the contact at the destination | GET, PUT, DELETE, PROPFIND, COPY, MOVE | preconditions hold when the write happens, stale copies do no lasting harm, every change moves the sync token |
| Address book handlers and REPORT, `addressbook.go`, `report.go` | the same | PROPFIND on home set and book, MKCOL, DELETE, query, multiget | an answer is consistent with the store; a token never vouches for what it does not cover |
| SQLite store, `internal/store/sqlite`, schema in `internal/migrations/sql` | tables `address_books`, `contacts`, `contacts_fts` (and users, sessions, app_passwords, properties, audit_log) | create, get, list, search, update, delete, bump | unique and foreign keys, index in step with the contacts, columns in step with the vCard |
| vCards, `internal/vcard` | none | validate, extract, replace UID, ETag, 3.0/4.0 conversion | what is stored is valid, has the UID of its row, survives conversion |
| PROPPATCH and dead properties, `proppatch.go`, `properties.go` | table `properties`, by URL | set, remove, list | no live property is stored, nothing acknowledged is undone by a bystander, each name asked for is answered |
| Authentication, `middleware/auth.go`, `auth/local`, `handler/auth.go` | tables `sessions`, `app_passwords` | login, logout, Basic and cookie checks, last-used update in the background | nobody is let in on what had ended before, a session lasts as long as it was given for, a logout is final |
| First-run setup, `handler/setup.go`, `SetupGuard`, `bootstrapAdmin` | table `users` | guard, create admin | setup is open only while there is no user; who is told of success can log in |
| Login rate limiter, `middleware/ratelimit.go` | a map from client address to `rate.Limiter`, under a mutex | look up or make, ask, evict | each address has a token bucket of its own, however lookups, answers and eviction interleave |
| Property selection, `dav/xml`, `dav.go` | none | build 200 and 404 parts | each asked property in exactly one |
| Migrations, `internal/migrations` | table `schema_migrations` | check, apply, record, commit each file in order | each file takes effect exactly once, across crashes, restarts and releases |
| Server, `cmd/contacthub/main.go` | the process | routing, shutdown | answers every request unless stopped |
| Proxy headers, logging, configuration, pages, seed tool, stubs | none that matters | | not modelled: stateless or pure I/O |

How they interact.  net/http runs each request in a goroutine of its own.  A
handler is a sequence of calls of the store, with no lock and no transaction
around them.  The store has exactly one connection (`db.go:26`), so each call is
atomic with respect to the others, and between two calls of one handler the
calls of any other may run.  The store may fail at any call (the context of the
request is cancelled when the client hangs up, the disk is full, the file is
locked by another process), and SIGTERM ends the process after ten seconds with
requests in flight (`main.go:161-169`).

What is hard about it:

* Rows are read into local variables and written back later: PUT, COPY and MOVE
  all do read, decide, write, bump.  The decision (If-Match, Overwrite) is made
  on a copy.
* The sync token moves in an operation of its own after the write, and its error
  is dropped.  A crash or a failure in between loses the announcement.
* MOVE deletes its destination in one operation and renames in the next.
* The full-text index has no foreign key; it must be kept in step by hand.
* ETag, FN and UID are stored twice, in columns and in the text.
* One connection serves everything: whatever happens to an operation, the
  connection must come back, with no transaction half done.
* RequireAuth, SetupGuard and the handlers behind them are separate operations
  on tables that other requests change; last-used times are written by
  goroutines that outlive their request.
* The rate limiter hands a pointer out of its critical section, and forgets
  entries in the background.
* A contact is stored as 4.0 and served as 3.0 or 4.0, with one ETag for both.

The full list of hazards, at their lines, is in `PROJECT.json`.

## 2. Plan

The modules, in the order they were written:

| Modules | Subject | Abstract specification |
|---|---|---|
| `VCard`, `ContactStore`, `DavHandlers`, `DavProperties`, `MCDav` | everything that touches address books and contacts, one store operation at a time | `BookSync`: what a sync token promises |
| `DavProofs`, `ContentProofs` | proofs of the core, and that it implements `BookSync` | |
| `DeadProperties`, `MCProps`, `PropProofs` | PROPPATCH instruction by instruction, and what a PROPFIND shows | |
| `Startup`, `Accounts`, `AccountProperties`, `MCAccounts`, `AccountProofs` | migrations and bootstrap across restarts; setup, login, logout, RequireAuth | |
| `RateLimiter`, `MCRate`, `RateProofs` | the login rate limiter | `TokenBucket`: a bucket for each key |
| `StoreTx`, `MCStore`, `StoreLemmas`, `StoreProofs` | the store one SQL statement at a time, and that it implements `AtomicStore` | `AtomicStore`: operations that take effect at one moment, which `DavHandlers` takes for granted |
| `VCardLines`, `Cards`, `MCCards`, `CardProofs` | conversions line by line, clients of both dialects | `VCard`: the facts of a text, which `DavHandlers` works with |

How they compose: `Accounts` extends `Startup` (a request arrives only when the
process serves; a crash stops both).  `DavHandlers` extends `ContactStore`,
which `AtomicStore` and `StoreTx` extend as well: the operations whose atomicity
`StoreTx` establishes are the definitions that the handlers' actions use.
`Cards` instantiates `VCard` and relates its facts to texts (`FactsAgree`).

Open: liveness is model-checked only (section 5 says why).

## 3. Modules

**`VCard`** abstracts a vCard to what a handler branches on or stores:
version, whether the VERSION line is written plainly (only then a conversion
rewrites it), FN, N, UID, whether there is a place for a UID line, and a photo
over the limit.  The text itself, line folding and the other properties are
abstracted; SHA-256 is taken to be injective, so an ETag is the record of its
text.

**`ContactStore`** has a variable per table (`books`, `contacts`, `fts`).  A
query is an operator; an operation is a pair: the error it returns, computed
from the tables (`CreateContactErr`: UNIQUE first, then the foreign key), and
its effect when that error is nil.  Transactions are atomic: there is one
connection, and an error rolls back.  `enforced` says whether that connection
enforces foreign keys.  `Open` gives the pragma to one connection only
(`db.go:32`); another one may take its place when the context of an operation is
cancelled (`LosePragma`), and from then until the next start an INSERT does not
look for its book and a deleted book leaves its contacts behind.  `Rewritten` is
the UPDATE: every column of the row but its book.  Deleting a book leaves index
rows behind in any case, as in the schema.  A filter of `SearchContacts` is the
set of what its pattern matches.  Timestamps, display names, and the columns
that are filled like FN are left out; `CAST(... AS TEXT)` is `AsText`.

**`DavHandlers`** has, for each request, `pc` (the store operation it is about
to do), `loc` (its Go variables; a pointer is a set with at most one row) and
`answer`.  An action is one store operation with the code up to the next one:

| Action | Code |
|---|---|
| `Arrive` | authentication result, `p.Username != username`, GetUserByUsername, checks before the book is looked up |
| `ResolveBook` | GetAddressBookByName, then the body checks of PUT, REPORT and PROPFIND |
| `ResolveContact` | GetContactByFilename of `resolveContact`; then GET and PROPFIND answer, DELETE checks If-Match, COPY and MOVE parse Destination |
| `PutLookup`, `PutWrite` | `contact.go:137-197` |
| `ContactDelete` | `contact.go:240` |
| `CopyResolveBook`, `CopyLookup`, `CopyWrite` | `contact.go:340-424` |
| `MoveLookup`, `MoveDelete`, `MoveUpdate` | `contact.go:459-481` |
| `Bump` | BumpSyncToken at the end of every write, and the answer |
| `HomeSetPropfind`, `AddressBookMkcol`, `AddressBookDelete`, `AddressBookPropfind` | `addressbook.go` |
| `ReportAddressbookQuery`, `ReportAddressbookMultiget` | `report.go`; a multiget takes one step per href |
| `StoreError` | any store operation fails with an error of its own and without effect: 500, or the success status when it was the bump |
| `Reconnect` | a cancelled context, of one of these requests or any other, has the connection replaced by one without foreign keys |
| `Crash` | the process stops: requests in flight vanish, tables stay; the next start sets the pragma again |

The users table does not change under the modelled methods, so looking a user up
is part of the step it happens in.  Two history variables serve the properties:
`dirty`, the books changed since their token last moved, and `lost`, those whose
bump was given up because its request failed or died.

**`BookSync`** is what the tokens promise, without handlers: a change marks the
book, an announcement moves the token by one and clears the mark, a failure may
abandon an announcement, nothing else moves contents or token (`ASpec`), and a
mark does not stay for ever unless it was abandoned (`Settled`).  `DavProperties`
maps the handlers to it: contents are the contacts of the book, marks are
`dirty`, abandoned announcements are `lost`.  `ImplementsBookSync` is the first
half, safety, which is proved; `ChangesAnnounced` the second, which needs
fairness.

**`DavProperties`** states the properties and the inductive invariant; **`MCDav`**
the instances; **`DavProofs`** and **`ContentProofs`** the proofs.

**`DeadProperties`** is the table `properties` and the two methods that use it.
A body is what `xml.Unmarshal` makes of it: all sets, then all removals, so the
order a client wrote them in is already lost; names carry their namespace,
values are opaque.

| Action | Code |
|---|---|
| `PropPatch` | `PropPatchHandler` up to the first store operation |
| `PatchOp` | one SetProperty or DeleteProperty of its loop, and the check of the next instruction |
| `ContactPropfind`, `ListDead`, `GetDead` | PROPFIND of a contact: ListProperties, or one GetProperty for each name that is asked for |
| `AddressBookPropfind` | PROPFIND of a book, which does not look at the table |
| `StoreError`, `Crash` | as above; the rows written before it stay |

Whether a contact or a book is found is a free choice here (`DavHandlers` says
when it is).  The histories `before` (the rows a request found) and `alone`
(nobody wrote to its path since) serve one property.  The inductive invariant
stands at the end of the module.  **`MCProps`** holds the instances,
**`PropProofs`** the proofs.

**`Startup`** is `run` of `main.go` up to serving: `boot` is what the main
goroutine does next.  A release is the set of its migration files; `effective`
counts how often each file took effect for good, `tx` is what the open
transaction has done.  `Stop` is an error that `run` returns, or a kill; the
next `Start` may be of another release with another configured admin.

| Action | Code |
|---|---|
| `Start` | Open and CREATE TABLE schema_migrations; reading the embedded files |
| `MigrationCheck`, `MigrationExec`, `MigrationRecord`, `MigrationCommit` | `migrations.go:41-77` |
| `AdminCount`, `AdminCreate` | `bootstrapAdmin`, `main.go:173-192` |
| `StartupError` | any of them fails and `run` returns |

**`Accounts`** adds requests to it, each a goroutine with `pc`, `call`, `loc`
and `answer` as in `DavHandlers`, a `clock` finer than the seconds that the
tables keep, and `touch`, the goroutine that records the use of an app password.

| Action | Code |
|---|---|
| `SetupCount`, `SetupCreate` | `SetupGuard`, then `SetupHandler` up to and with `local.CreateUser` |
| `LoginLookup`, `LoginCreate` | `Authenticate`, then CreateSession (`handler/auth.go:41-75`) |
| `LogoutDelete` | DeleteSession; the redirect whether or not it worked |
| `SessionLookup`, `SessionUser` | `authenticateSession`: GetSession and the expiry, then GetUserByID |
| `BasicLookup`, `BasicUser` | `authenticateBasic`; the second starts the goroutine |
| `TouchNow`, `TouchWrite`, `TouchError` | `time.Now()` is evaluated, the UPDATE is done or fails |
| `StoreError`, `Crash`, `Tick` | any store operation fails; the process ends; time passes |

Answers are what the code tells apart: setup's count failing is 404, a failing
RequireAuth is 401, a failing logout is a redirect all the same.  Argon2 and
SHA-256 are taken to be injective.  The histories `seen`, `granted`, `used` and
`loggedOut` serve **`AccountProperties`**.

**`RateLimiter`** has the map (`limiters`), the age of its entries (`idle`), the
fill of each limiter object in memory (`parts`), and per request the pointer it
was handed (`holds`, `key`, `rests`).  `GetLimiter` is the critical section,
`Accept` and `Refuse` are Allow outside of it, `Cleanup` is the ticker's sweep.
Times are kept as ages, counted only as far as they make a difference, so that
the clock is unbounded and the state space finite.  rate.Limiter is external: a
bucket counted in parts, where an attempt costs Window parts and a second brings
MaxAttempts.  The history `accepted` counts, for each key and each a up to
Window, the attempts let through in the last a seconds.  **`TokenBucket`** is the same bucket with no map and no memory.

**`AtomicStore`** says what callers of the store rely on: between `Invoke` and
`Return` an operation does `Perform` once, or `Fail`; BumpSyncToken is two such
operations.  `enforced` is the foreign-keys pragma of the connection in use.
**`StoreTx`** refines it by statements: `pc` is the statement a caller does next,
`conn` who has the connection, `view` the tables as the open transaction sees
them.

| Action | Code |
|---|---|
| `Call`, `Acquire`, `Release` | waiting for the one connection (`db.go:26`), BEGIN, and giving it back |
| `InsertContact`, `InsertIndex` | `contacts.go:19-42` |
| `UpdateContactRow`, `ReplaceIndex`, `InsertIndex` | `contacts.go:100-130` |
| `DeleteIndex`, `DeleteContactRow` | `contacts.go:142-151` |
| `Commit` | COMMIT |
| `Autocommit`, `BumpUpdate` | single statements; the UPDATE of BumpSyncToken, whose SELECT queues again |
| `Next1` | a row of ListContacts; the connection is kept until the last |
| `StatementFails`, `Cancel`, `Undo` | an error and the deferred Rollback; a cancelled context, after which a goroutine of database/sql rolls back and may close the connection |
| `Crash` | what was not committed is gone |

**`StoreLemmas`** has what both proofs about the store need: each operation of
`ContactStore` keeps types, keys, references and index under the conditions that
its error checks establish.  **`StoreProofs`** has the proofs about `StoreTx`.

**`VCardLines`** has the operators of `convert.go` and the scans of `vcard.go`
on texts that are sequences of lines.  A line is a record of what the code looks
at: the parameters of an EMAIL as lists of types, the form of a PHOTO, whether a
VERSION line is exact.  **`Cards`** is one contact between clients of both
dialects: `Compose`, `Get`, `WriteBack`, `Edit`; `Put` is what ContactPut makes
of a body, If-Match included.  Lines are dropped by a recursive function
(`Without`), which the proofs can unfold where they could not unfold a RECURSIVE
operator.  **`MCCards`** has the texts of the run, **`CardProofs`** the proofs.

`convert.go` finds its lines by prefix: `EmailNames` and `PhotoNames` are the
names that begin with EMAIL and with PHOTO.  What it makes of an image is string
work, and `PhotoToV3` follows it.  A line with "data:" in it is cut at the first
";" behind that and the first "," behind the ";" (`splits`, `cut`); without one
of them it stays as it is, and otherwise it becomes PHOTO;ENCODING=b with what
follows the cut, whatever the encoding was.  So a data URI that is not base64 is
called base64, and one with a ";" in its data loses what is before the cut;
`Misread` names these.  A line called PHOTOX becomes a PHOTO (`Renamed`).
`MeaningKept` keeps every other image and excepts these two.

## 4. Runs

| Run | Instance | Shows |
|---|---|---|
| `sync` | 3 requests, eleven calls (PUT new, existing and conditional; DELETE; MOVE and COPY with and without Overwrite; listing; book DELETE; MKCOL) on one book with two file names; a connection that may be replaced | keys; references until the connection is replaced; index, tokens, owed announcements; no overwrite through `Overwrite: F`; no resurrection |
| `calls` | 2 requests of every kind with every body and refusal, users alice and bob and admin root, three books, Destination headers naming bob | columns agree with the text, UIDs too, what is stored is valid, answers pair each ETag with its text, a book changes only by its owner or an admin; the inductive invariant of the proofs |
| `live` | 2 requests, fairness, the calls of `sync` and a multiget | every request is answered; `BookSync` is implemented; changes are announced or were given up |
| `props` | 3 requests, two contacts and a book, five names; bodies that set a name twice, set and remove it, or set a DAV: name half way; every kind of PROPFIND | the inductive invariant, which has no DAV: row; no lost property, no invented one, every name answered, an undisturbed PROPPATCH does its whole body |
| `accounts` | 3 requests, two starts, two migration files of which one may be applied already, with and without a configured admin and seeded users; clock to 3 half seconds, sessions of one second | keys; migrations once; setups acknowledged are there, and only on a server without users; sessions last and logouts are final; who is let in; last-used times |
| `ratelimit` | 2 keys, 2 requests at a time that are used again and again, 2 attempts in 3 seconds, a second's rest at most before Allow | the inductive invariant; a bucket per key; nobody is refused early; stale entries go |
| `storetx` | 2 callers that call again and again, seven calls that conflict, one token | isolation, index and types; constraints; `AtomicStore` is implemented; every operation returns |
| `cards` | a 3.0 and a 4.0 client, 31 texts in each dialect, two edits | meaning is kept but for misread images, VERSION, addresses and photos are of one dialect, the facts of `VCard` are those of the texts, the text comes to rest, fresh copies are accepted |
| `nonematch`, `ifmatch`, `idle`, `setup` | 1 or 2 requests | the findings of section 6 |

Bounds.  Each request of an instance of `DavHandlers`, `DeadProperties` and
`Accounts` runs once and performs any of the calls, so the number of requests is
the number of concurrent and successive calls.  A write, a competing write and a
reader are three: enough for every hazard listed, all of which are races of two,
or of two and an observer.  Two file names give a source and a destination; two
vCard UIDs give a conflict and a non-conflict.  Tokens grow by one for each
request at most and need no bound.  Requests are symmetric in the runs without
liveness: they have no order and are not named in the calls but by each other
(fresh ids are named after them and are permuted along).

* `MaxStarts` = 2: the first process may break off anywhere, the second finds
  what it left.  A file applied by an earlier release stands for longer chains.
* `MaxClock` = 3, `TicksPerSecond` = 2, `MaxAge` = 1: a login half a second into
  a second, its expiry cut down to the second, and a moment after it.
* `MaxDelay` = 1 is how long a request may rest between the map and Allow.  The
  assumption `MaxDelay <= Window` is what the promise needs: a goroutine that
  rests for longer than two windows may hold an evicted limiter.
* `Limiters`, the memory, has one object for each key and each request, the most
  that can be pointed to.
* `MaxToken` = 1 stops calls of BumpSyncToken in `storetx`; two callers may still
  bump twice from the same state.
* `MaxEdits` = 2: each client edits once, or one edits what the other edited.

Fairness.  `FairSpec` of `DavHandlers` asks weak fairness of each request's own
steps: a goroutine that can run is scheduled by the Go runtime, and an operation
that waits for the single connection gets it.  That it does is what `storetx`
checks (`OperationsReturn`): `FairSpec` of `StoreTx` asks weak fairness of
statements and of the goroutine that rolls back, and strong fairness of
`Acquire`, since database/sql hands a connection that comes back to any of those
who wait, and passes over none for ever.  `FairSpec` of `RateLimiter` asks that
time passes, that the ticker's goroutine runs, and that a request which holds a
limiter asks it.  No fairness is assumed of arrivals, failures and crashes.
`Quiet` lets an instance stand still when all its requests are done, and
`StaysDown` when no start is left, so deadlock is checked in every run.

Every property of a passing run has a mutant in `PROJECT.json`: a plausible bug
in the code that the run finds.  They stand next to the definition they replace.

## 5. Proofs

Every safety property that a run checks is the statement of a theorem.  The
inductive invariants are checked as well, `IInv` in `calls`, `props`, `accounts`
and `ratelimit`; what `IInv` of `StoreTx` says to a reader is `TransactionsOK` and
`ConstraintsHold`, which `storetx` checks, and that of `CardProofs` is the five
properties of `cards`.  The runs show the properties on small instances, the
theorems for every value of the constants that the named assumptions allow.

### The handlers: `DavProofs`, `ContentProofs`

For any number of requests, calls, users, books, files and rows, from
`AbsentAssumption` (the empty string is no name and no UID), `RequestsAssumption`
(a request can name the id and the UID generated for it, that is, UUIDs do not
repeat), `CallsAssumption` (calls have the type of calls) and `SeedAssumption` (a
run starts from tables that an earlier run may have left: keys, references,
columns that fit their texts, and texts that are valid, which is what
`IntegrityCorrect`, `RowsCorrect` and `StoredValidCorrect` show of what a run
leaves).

`DavProofs` first shows for each action that its **outcome** is one of few
things that no longer depend on the handler: an operation of the store on a row
it points to (`Effect`), and either the next step with well-formed local
variables (`Advanced`) or an answer (`Replied`).  The invariants are then proved
from the outcome alone, so that each argument is made once and not once for each
of twenty handlers' steps.

* `TypeCorrect`: `Spec => []TypeOK`.  Not inductive by itself: `NewContact` is
  only a contact when a PUT has a body that was validated and a COPY has a
  destination.  `FlowOK` says what the local variables are at each step.
* `IntegrityCorrect`: `Spec => []StoreIntegrity`.  The crux is UPDATE: it is let
  through only when the rewritten row has no rival among the other rows.  Keys
  are unique on any connection.  That every contact has a book is claimed only
  while the connection was never replaced (`~loose`): afterwards a PUT into a
  book that was deleted meanwhile succeeds, and contacts outlive their book.  The
  other invariants do not rest on references and hold on any connection.

`ContentProofs` first adds what a request knows of the tables while others change
them, `KnownOK` (`KnownCorrect`): `FreshIDs` (an id that is still to be generated is in
no table, no variable and no answer), `BooksStay` and `OwnersStay` (a copy of a
row names the book the row is in, and a copy of a book its owner: a write through
a stale copy marks the right book, and one that its user may change) and
`TokensRead` (a token that was read is not ahead of its book).

* `TokenVouches`: `Spec => []TokenVouchesForListing`, from `TokensRead`.
* `NeverResurrected`: `Spec => NoResurrection`, an action property.
* `IndexCorrect`: `Spec => []IndexInStep`.  It needs `FreshIDs`: the index rows
  that deleted books leave behind never belong to a later contact.

Then it proves the whole invariant, `IInv`, and what rests on it.

* `IInvCorrect`: `Spec => []IInv`.  To `KnownOK` it adds `ContentsSound` (every
  row and every copy of a row that a request still works with fits its text, and
  the text is valid), `AnswersCoherent`, `MarkedBooksExist` and `ChangesOwed`.
* `RowsCorrect`, `StoredValidCorrect`, `AnswersCorrect`: `[]RowsCoherent`,
  `[]StoredValid`, `[]AnswersCoherent`.  A stale copy may overwrite a newer row,
  but it overwrites all of it: whatever is written comes from a body that was
  checked or from a sound copy.  The proof for answers found that `VCard` had
  admitted texts with a UID line and no place to put one; `VCards` excludes them.
* `ChangesOwedCorrect`: `[]ChangesOwed`.  A step that changes a book leads to the
  bump of that very book, or marks it lost.
* `OnlyOwnerCorrect`: `OnlyOwnerWrites`.  It needs `OwnersStay` and that each
  pointer to a book was looked up under the user in the URL (`FlowOK`).
* `NoOverwriteCorrect`: `NoOverwriteHolds`.  A destination that the request saw
  refuses it; one that appeared later is kept by the UNIQUE constraint.
* `BooksImplement`: `Spec => ImplementsBookSync`.  Each outcome is a `Change`, an
  `Open`, a `Drop`, an `Announce`, an `Abandon` or a stutter of the abstract
  book.  The mapping of a shelf is a function on the books there are, so the
  proof goes by what it shows of each book (`ShelfShows`).

### The store: `StoreLemmas`, `StoreProofs`

For any callers and calls, from `AtomicAssumption` (calls are operations of the
store; the seeded rows were written under the constraints of the schema) and
`StoreTxAssumption`.  `HalfDone` is the heart of the invariant: it says for each
statement of a transaction what the statements before it have made of `view`, and
that the tables are what they were at BEGIN.  With `OneWorks` (one caller on the
connection) and `StillFresh` (the id of a row to be inserted is in no table and
no other call) a COMMIT is the whole operation.

* `StoreInvariant`: `Spec => []IInv`.
* `TransactionsCorrect` and `ConstraintsCorrect`: `[]TransactionsOK`,
  `[]ConstraintsHold`.  References are claimed only until the connection is
  replaced, which loses `PRAGMA foreign_keys` (`db.go:32`); keys and the index hold
  in any case.
* `StoreImplements`: `Spec => ImplementsAtomicStore`.  A step leaves the tables
  and all decisions alone, or decides to fail, or performs the operation (at
  COMMIT, or in a statement of its own), or is a crash.  This is the atomicity
  that `DavHandlers` takes for granted.

### Dead properties: `PropProofs`

`PropProofs` argues from outcomes as well, from `NamesAssumption`,
`ValuesAssumption`, `PathsAssumption`, `CallsAssumption` and `SeedAssumption`,
for any number of requests and bodies of any length.  Its invariant adds to the
types that the instruction a PROPPATCH waits for has passed the namespace check
(`Ready`), that what a request has set so far is stored unless somebody removes
that name (`SetsSoFar`), and that rows and gathered answers come from the seed or
from a set (`OnlyWhatWasSet`).  Two more parts say how far the loops have come:
left alone, a PROPPATCH has made of every row what the last instruction for it
says that it has been through (`PatchedSoFar`, an induction over steps of the
program and not over the body); an explicit PROPFIND has heard of just the dead
names before the one it looks up (`HeardSoFar`).

* `PropInvariant`: `Spec => []IInv`, all of these together.
* `PropTypeCorrect`: `Spec => []TypeOK`.
* `OnlyDeadCorrect`: `Spec => []OnlyDeadStored`.
* `SetSurvivesCorrect`: `Spec => []SetSurvives`, from `SetsSoFar` at the end of
  the loop.
* `ShownWasSetCorrect`: `Spec => []ShownWasSet`.
* `EveryNameCorrect`: `Spec => []EveryNameAnswered`, from `HeardSoFar`: the names
  that are looked up are just those that the live properties leave open.
* `PatchAppliedCorrect`: `Spec => PatchApplied`, from `PatchedSoFar` at the end of
  the loop, against a reference that looks at the body as a whole.

### The login limiter: `RateProofs`

`RateProofs` proves the login limiter right for any number of keys and requests
and any attempts, window and delay that `RateAssumption` allows.

* `RateInvariant`: `Spec => []IInv`.  An entry is as fresh as the requests that
  rest with its limiter (`FreshWhileHeld`), so eviction, which waits two windows,
  never meets a request that rests at most one: every request holds the limiter
  of the map (`HoldsCurrent`), and two keys never share one (`Unshared`).  A
  limiter that idles fills up (`FilledWhileIdle`), so what is evicted is full.
  The arithmetic of parts and ages is in lemmas of its own: products of
  variables are outside linear arithmetic.
  `Accounted` says that what a bucket has and what was let through in the last a
  seconds make up for what a seconds bring, for each a; for one a alone it is
  not inductive, since a second moves the window.
* `RefusedCorrect`: `Spec => RefusedRightly`.  A bucket that refuses has less than
  one attempt left, so by `Accounted` at a = Window at least MaxAttempts were let
  through in the last window.
* `RateImplements`: `Spec => ImplementsTokenBucket`.  Making a limiter and
  evicting a full one are stutters of the bucket, Allow is its `Pass`, a second
  its `Second`.

### Sessions, setup and start: `AccountProofs`

`AccountProofs` proves every property that the run `accounts` checks, for any
number of requests, users, app passwords, releases, configurations and restarts
and any clock, from `StartupAssumption` and `AccountsAssumption` (ids of users
and sessions are fresh, the seeded rows have keys and owners).  The start is
treated apart (`BootInv`: how far it has come, `BootOK`, and `EachOnce`), since
its steps do not look at requests.  For the requests one lemma does most of the
work: what a request has seen is only ever added to by others (`Grows`: users,
logouts and the clock grow, answers and grants stand, app passwords keep their
owners), so `Underway`, what a request has looked up so far, survives the steps
of all others (`RunningStays`).

* `AccountInvariant`: `Spec => []IInv`.
* `MigratedBeforeServing`: `Spec => []ServesMigrated`, from `BootOK`: what is not
  left to do is recorded, and nothing is left when the process serves.
* `SetupIsFirst` and `SetupsAreKept`: `SetupOnlyAtFirst` and `[]SetupAcknowledged`.
  SetupGuard's count is stale when the user is inserted; the first holds all the
  same because `Underway` remembers that there was nobody when the request came,
  and the second because the name is unique.
* `SessionsAreKept` and `LogoutsAreFinal`: `[]SessionKept` and `LogoutFinal`, from
  `SessionsOK`; the bounds on the expiry are a lemma about truncation to seconds
  (`StoredTime`).
* `AdmissionsAreRight`: `AdmittedRightly`.  The session may be gone by the time
  its owner has been looked up; `Entitled` speaks of the arrival of
  the request and is kept in `Underway`.  Both this and `SessionKept` speak of
  what the code applies, logout and `MaxAge`.  The idle timeout that the
  configuration documents is not applied; the run `idle` shows a session let in
  that by the documentation had ended.
* `LastUsesWereUses`: `[]LastUsedWasUse`, from `TouchesOK` and the monotony of
  truncation.

### Conversions: `CardProofs`

For texts of any length with any lines that `Line` describes, any number of
clients, edits and generated UIDs, from `LiteralsAssumption` (the words the
code compares with are strings, which the provers do not know of a literal),
`NamesAssumption` (no name of a line begins with both EMAIL and PHOTO, and none
that begins with one of them is another word the code compares with) and
`CardsAssumption` (a text that a client composes begins with BEGIN:VCARD, which
is what makes the place of an edit the same in all forms of a text; an edit adds
an address in the client's own dialect; a generated UID is not empty).

What a conversion makes of a text is an induction over its lines.  The library's
induction theorems take an operator, which these provers cannot instantiate; but
well-founded induction has a form that speaks of a set: a set of numbers that is
not empty has a least element (`WFMin`, `Least`).  From it come `NatInduct` and
`SeqInduct` (a set that has the empty sequence and is closed under Append has
all sequences), with the set of the sequences for which a statement holds in the
place of the operator.  `KeptExists` shows in this way that the recursive
function in `Without` exists.

On this rest, in order: lemmas about dropping, mapping, inserting and finding in
sequences; lemmas about one line (`LineV4`, `LineV3`: kind and name stay, what
is written is pure in the new dialect, a line converted twice is converted once;
`BackTwice`: the way to 3.0 and back changes a line at most once); and lemmas
about one text (`SaysV4`, `SaysV3`, `SaysReplaceUID`, `SaysInserted`: what it
says; `PhotosV4`, `PhotosV3`: which of its images are kept; `FactsV4`,
`FactsV3`, `FactsReplaceUID`, `FactsInserted`: what `VCard` makes of it).
`FactsV3` shows the one fact that a conversion can change, the size of a photo
that is misread.

`IInv` has what the five properties need of each other. Of the stored text it
says that it is `Sound` (it was validated, an exact VERSION line says 4.0, a
conversion to 4.0 leaves it alone, a UID is missing only where there is no place
for one), that it `Agree`s with the text that was meant (they say the same, keep
the same images but for the misread ones, and its facts are those that PUT makes
of the other's), and that it is `Rested` (the way to 3.0 and back changes none
of its lines) once a 3.0 client wrote it back. Of a copy it says that its text
is that of its ETag in the client's dialect: with If-Match, a text that is
stored is therefore a converted form of the text it replaces, edited or not, and
never of an older one (`Copies`, `GivenBack`).

* `CardsInvariant`: `Spec => []IInv`.
* `MeaningAlwaysKept`: `[]MeaningKept`.  Addresses and lines that are not
  rewritten are the same (`Says`); image by image `Kept` holds, which is
  transitive (`PhotosTwice`), so a chain of conversions is followed link by link:
  what one misreads stays excepted, and what none misreads stays the same.
* `DialectsAlwaysPure`: `[]DialectsPure`.  It speaks of VERSION, EMAIL, PHOTO and
  PROFILE lines, and not of a data URI that cannot be split.
* `FactsAlwaysAgree`: `[]FactsAgree`, which entitles `DavHandlers` to work with
  facts in the place of texts.
* `TextsSettle`: `Spec => Settles`, from `RoundTrip` (a text that has been to 3.0
  and back is `Rested`, and a rested one comes back as it was) and `SoundStays`.
* `FreshIsAccepted`: `Spec => FreshAccepted`: a copy of the stored text passes
  If-Match, and it is valid when the stored text is, but for N and misread
  photos.

### What is only model-checked

* Liveness: `RequestsAnswered`, `ChangesAnnounced`, `Forgotten`, `OperationsReturn`.
  It is beyond this prover.

The module checked and the module proved are the same: no run replaces a
definition.

## 6. Where the code and its words differ

Shown by runs:

1. `nonematch`.  `contact.go:168` says If-None-Match: * refuses when the resource
   exists; the header is only looked at when it does not.
2. `ifmatch`.  A stale If-Match is to be answered 412 (`contact_test.go:137`).
   The comparison is made on a copy; of two PUTs with one ETag both succeed.
3. `idle`.  "Idle session timeout in seconds. Default: 7200 (2h)"
   (`config.example.yaml:37`; read at `config.go:43`).  Nothing applies it:
   RequireAuth compares the expiry that the login derived from `MaxAge` and
   nothing else (`middleware/auth.go:61`), and no use of a session is recorded.
   The run has a session that nobody used for longer admitted.
4. `setup`.  "The SetupGuard middleware ensures this is only reachable when no
   users exist" (`setup.go:13`).  The guard counts in one operation, the handler
   inserts in a later one; two first visitors with different names both become
   admin.  What does hold is `SetupOnlyAtFirst`: both arrived when there was
   no user.

Met while modelling, without a run of their own:

* A moved contact is to be found at its destination (`contact_test.go:520`,
  `:558`, which move inside one book).  The book in the Destination header is
  discarded (`contact.go:451`): the contact is renamed in its own book, with 201.
* "Contact should be gone (CASCADE)" (`contacts_test.go:299`), as the schema says
  (`0001_initial.sql:51`).  On a connection that replaced the first one the
  contacts of a deleted book stay, and a PUT into it succeeds; no property of a
  passing run claims otherwise (`StoreIntegrity`, `ConstraintsHold`).
* ToV3 converts "PHOTO data URIs → ENCODING=b form" (`convert.go:33-34`).  One
  with no ";" stays as it is, one with a ";" in its data loses a part, and one
  that is not base64 is called so (`convert.go:194-205`); a 3.0 client that
  writes the text back stores what is left (the exceptions in `MeaningKept`).
* `ReplaceUID` (`vcard.go:99`) returns a text without UID line and END:VCARD as it
  is; the row then has a UID that its text has not, and each write-back gets
  another one (the exception in `Settles`).
* "Normalise to vCard 4.0" (`contact.go:123`) misses VERSION lines with parameters
  or blanks, which `Validate` accepts (`Facts(..).exact` in `DialectsPure`).
* For dead properties "found ones go into 200, missing ones into 404"
  (`contact.go:552`).  One that is found is also in the 404 part that
  `buildPropResponse` makes of every name it does not know.
* A 4.0 text without N is stored and is served as 3.0 without N, which PUT would
  refuse; a data URI that became "ENCODING=b" in 3.0 without being base64 is
  then measured as if it were (`FreshAccepted`).
* Kinds of images other than PNG and GIF become JPEG, further parameters of a
  PHOTO are dropped, and so is the last line feed of a 3.0 text
  (`convert.go:25`, `:177`).
* `ratelimit.go:74` says that ProxyHeaders sets RemoteAddr; `proxy.go` does not,
  so that clients behind one proxy share a bucket.
* A bucket that refills while it is used lets up to twice MaxAttempts through in
  one window, which `config.example.yaml:42` calls the maximum per window;
  MaxAttempts or Window 0 panics at the start (`ratelimit.go:27`, `:32`).
* `last_used_at` may go backwards, by goroutines that run out of order; it is
  always the time of some use (`LastUsedWasUse`).
* A logout whose DELETE failed clears the cookie and redirects like any other;
  the session stays in the table.

## 7. What is left out, and why

* An operation that commits and still reports an error (a connection lost during
  COMMIT), and two processes on one file beyond the errors they cause.
* `DavHandlers` leaves the dead properties of a PROPFIND to `DeadProperties`: the
  two share no table, and no method removes the properties of a contact or book
  that is deleted (`DeleteResourceProperties` has no caller).  The live
  properties of a home set are left out.  What PROPPATCH refuses is the
  namespace DAV:; the live CardDAV properties of a book (`addressbook.go:281`,
  `:291`) are stored with a 207 and never shown.
* `DavHandlers` starts where `Accounts` ends, at a request that is let in:
  RequireAuth decides once, and nothing it read is read again.
* The rate limiter's map is lost when the process restarts, which gives every key
  a full bucket: `RateLimiter` is the life of one process.  rate.Limiter reads the
  clock outside of its lock; Allow is atomic here.
* The ten seconds that Shutdown gives requests in flight are part of `Crash`: some
  finish before it, some are lost.
* `VCardLines` leaves out carriage returns (kept line by line), quoted parameters,
  the case of names, unfolding (PUT does it before), lines without a colon, and
  lines with ENCODING=b that hold "data:" too.  Lines with a group prefix
  (item1.EMAIL) and of other names (LOGO;ENCODING=b) are passed on as they are,
  as in the code, whatever dialect they are in.  A line that holds the words
  END:VCARD beside other text is left out: `ReplaceUID` puts a UID in front of
  the first END:VCARD wherever it stands (`vcard.go:101-118`).
* Proxy headers, security headers, logging, well-known redirect, principal
  resource, DAV root, HTML: functions of one request without state.
  Configuration: read once, its values are constants here.  Seed tool: sequential
  calls of the store, whose outcome is an initial state of `Accounts`.
* `stubs.go` (sync log, ACL, locks): returns ErrNotImplemented, no callers; the
  audit log is written and never read.
* Timestamps other than those of sessions and app passwords, and the XML of
  answers: no property depends on them.
