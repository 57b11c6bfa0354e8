# Team KBBQ web server: TLA+ models, model checking and proofs

The repository is a small multi-threaded HTTP server in C++. A configuration file
maps URI prefixes to request handlers; every connection gets a detached thread
that reads one request, finds its handler, lets it write a response, records the
request for the status page and answers. Nothing in the program takes a lock.
This directory holds TLA+ models of the parts with state or non-obvious logic,
the configurations TLC checks them with, and proofs TLAPS checks.

File names below are those of `src/src/`, line numbers are written `file:line`.

## 1. Inventory

### Components

| Component | State | Operations | Calls, or is called by |
|---|---|---|---|
| `Webserver`: start (`Webserver.cc:15-124`) | `port`, `handler_map` | `parse_config`, `load_configs`, `add_handler`, `syntax_error` | `main`; the parser, the registry, each handler's `Init`, `RecordHandlerMapping` |
| `Webserver`: routing (`:126-142`, `:191-208`) | reads `handler_map` | `get_handler`, `find_prefix` | every session |
| `Webserver`: sessions (`:148-189`) | per thread: request, handler, response | `run_server`, `session` | the network; routing, a handler, the tracker |
| `StaticFileHandler`, private directories (`static_file_handler.cc:134-363`) | `cookie_map`, `original_uri`, shared by all threads; `user_map`, `timeout` | `HandleRequest`, `check_cookie`, `add_cookie`, `gen_cookie` | sessions; the clock, the file system |
| `StaticFileHandler`, the rest | `prefix`, `root` | `Init`, `get_file`, `get_content_type`, Markdown rendering | `add_handler`, `HandleRequest` |
| `ServerStatusTracker`, `StatusHandler` | `url_requests_`, `handlers_`, shared by all threads | `RecordRequest`, `RecordHandlerMapping`, `GetRequests`, `GetNumRequests`, `GetHandlers`; the page | sessions, `add_handler` |
| `ReverseProxyHandler` | prefix, host, path and port, fixed by `Init` | `Init`, `HandleRequest`, `TransformRequest`, `ForwardRequest`, `ParseLocation` | sessions; other servers, blocking |
| `DatabaseHandler` | credentials and driver, fixed by `Init`; the library's objects on the heap | `Init`, `HandleRequest`, `ExtractQuery`, `ExecuteQuery`, `GetJSONResults`, `URLDecode` | sessions; MySQL, blocking |
| `EchoHandler`, `NotFoundHandler` | none | `HandleRequest` | sessions |
| `Request`, `Response` | the parsed fields, and a request's raw text | `Parse`, `update_*`, `ToString` | sessions, the proxy |
| Handler registry (`request_handler.h:122-144`) | `request_handler_builders`, filled before `main` | `CreateByName` | `add_handler` |
| `NginxConfigParser` | a stack of blocks, the tree of statements | `ParseToken`, `Parse`, `ToString` | `parse_config` |
| `cpp-markdown` | vendored | | `HandleRequest` |

### What is hard, and what makes each part correct

* **Private directories.** Any number of threads are inside one handler, and the
  map, its iterators and `original_uri` are used without a lock: finds race with
  erasures, an iterator found before the clock is read is used after it, one
  client's login uses another client's destination. The clock moves between any
  two steps; a restart forgets every cookie. Correct means: a private file goes
  only to the holder of a cookie that a real login was granted and that is still
  fresh; a fresh login is not turned away; replaced and denied cookies are gone;
  the login page does not redirect to itself; public directories stay public.
* **Routing.** The table is an `unordered_map`, so the search must not depend on
  its order, and prefixes must end at a slash. Correct means: exact entry, else
  innermost directory, else default.
* **Start.** Statements fail halfway and numbers overflow. Correct means: a
  server that listens has loaded exactly what the file says.
* **Sessions and the tracker.** Connections interleave, arrive in pieces, hang up,
  stay silent; a handler may block for ever, throw, or leave the response
  unfinished; a second handler continues the same response. Correct means: the
  answered requests are on the status page, a missing file is answered by the
  default handler, and a request that needs no other server is answered whatever
  the other connections do.
* **Handlers' `Init`.** Users and timeout come from separate statements, each of
  which may fail. Correct means: a directory is protected by both or by neither.
* **Proxy.** A loop of at most 21 redirections that rewrites the request it sent
  before, with an error, an exception or an endless wait at each step, and with
  answers that break off anywhere. Correct means: each host gets a proper request
  for the right URI, the client gets the last answer, the loop ends.
* **Database.** Connections, statements and result sets are freed on one path of
  several. Correct means: calls that succeed leave nothing behind, what the user
  typed is executed, the answer is JSON.
* **Parser.** A stack driven by pairs of token types. Correct means: what the
  grammar says is accepted, and the tree is the file's.

`PROJECT.json` lists the hazards line by line, with the properties that cover
each or the reason why none does.

## 2. Modules

| Module | What it models | Theorems |
|---|---|---|
| `StaticFileHandler` | one handler object and the threads inside it | in `StaticFileHandlerProofs`, `SessionsProofs` |
| `LoginSessions` | what a private directory promises to its clients: the abstract specification that `StaticFileHandler` implements | refinement in `SessionsProofs` |
| `Routing` | configuration loading and URI lookup | in `RoutingProofs` |
| `HandlerInit` | each handler's `Init`, as operators on the statements of its block | |
| `Webserver` | the acceptor, the session threads, the tracker and the status page | in `WebserverProofs` |
| `HandlerStatus` | the status and the code each class of handler may end with | |
| `ReverseProxy` | one call of a proxy's `HandleRequest`, its peers and its redirections | in `ReverseProxyProofs` |
| `HttpMessages` | `Request` and `Response` as operators on texts | |
| `Database` | the calls inside a `DatabaseHandler` and the objects of MySQL's library | in `DatabaseProofs` |
| `ConfigParser` | `NginxConfigParser` and the configuration it builds | in `ConfigParserProofs` |
| `Text` | the functions of `std::string` and numbers the other modules need | |
| `InductionLemmas` | induction and recursion over data, flattening and folding, for the proofs | lemmas only |
| `MCStaticFileHandler`, `MCRouting`, `MCWebserver`, `MCReverseProxy`, `MCDatabase` | instances for TLC: constants, symmetry sets, views | |

How they fit together:

* `ConfigParser` ends with the tree of statements with which `Routing` begins
  (its `Statements`, with the tokens classified), and `Routing` calls `HandlerInit`
  for every statement that names a handler, as `add_handler` calls the virtual `Init`.
* `Webserver` takes `handler_of` for `get_handler`, of which `Routing` shows that it
  is a function of the URI and the table, whatever the iteration order.
* `Webserver` assumes of a handler only that it ends with one of its class's
  `Results` in `HandlerStatus`. Each of `StaticFileHandler`, `ReverseProxy` and
  `Database` has the property `ResultsAsPromised`, checked and proved, that this is
  so. `EchoResults` and `NotFoundResults` are read off two stateless handlers.
* `ReverseProxy` begins with `InitProxy` of its block and uses `HttpMessages` for
  the requests it rewrites and the answers it reads.
* `StaticFileHandler` implements `LoginSessions`.

### StaticFileHandler

`cookie_map` maps a cookie to its creation time, 0 for "not in the map".
`pc[t]` is the next access of thread `t` to a shared member, or a local step:

    idle -> [find] -> expire -> [erase] -> deny -> done     check_cookie :330-363, :150-157
                            \-> serve -> done               :187-262
    idle -> login -> [add_find -> [add_erase] -> gen -> insert -> redirect]
         -> clear -> serve -> done                          :159-185, add_cookie :304-328
    idle -> serve -> done                                   login page, public directory

Every access to `cookie_map` or `original_uri` is an action of its own, and so is
the reading of the clock, because other threads and the clock may move between
any two of them. Iterators are modelled: `found[t]` is the element, `End`, or
`Dangling` once another thread erased the element.

*Data races* are undefined behaviour. Two threads race when both are about to
access the same member and one of them writes. The model then lets the access
miss (a find that sees no element), be lost (an insertion or erasure without
effect), tear (a string that is nobody's, `Garbled`), or end the process
(`Abort`). Erasing through a dangling iterator does nothing, removes whatever
element took the node, or ends the process. What no build is claimed to do, and
the model leaves out, is a race that invents a valid cookie in the map. `ub`
records that any of this happened; no guard reads it. Properties that the races
break by themselves are stated for `~ub`, and section 4 says which are not.

`Collisions` says whether `gen_cookie` may draw a string it drew before and
whether a client may present a cookie it was never given. `AuthSafe` is checked
and proved with it; the two properties about a client's own cookie need the
random strings to be distinct and secret, and are checked without it, with
`OldCookies` standing for cookies from before a restart. `gen_cookie`'s second
draw, which nobody looks up (`:323`), is in the model.

History variables: `logins` (every cookie granted, when, to whom), `retired`
(cookies replaced by a new login), `wanted` (where each client wanted to go).
They do not influence the protocol, except that `Call` and `Draws` consult
`logins` when `Collisions` is FALSE, to restrict clients and random draws.

### LoginSessions

A set of grants that only grows, a set of revoked cookies, and for each client the
phase of its request: `away`, `asking` for a gated file, `admitted` or `denied`,
`submitting` the form, `granting`, `drawn`, `open`. There is no map, no iterator and
no access: a client is admitted when a grant of its cookie is fresh at that moment,
turned away when none is or when it replaced that cookie itself, and a
cookie is granted to one client once. After a `Break` (a race) clients may be turned
away for no reason, but still nobody is admitted without a fresh grant.

`StaticFileHandler` maps to it with `Phase(t)`, a function of `pc` and the response:
`grants` are the logins, `revoked` is `retired`, `drawn` and `stamp` are what the
thread is about to insert. The decision falls in `CheckExpire`, so a `find` maps to a
stutter although the map may change between it and the decision. That the
implementation reads a time in one step, the clock in another and decides on both is
exactly what the refinement has to bridge. `Accept` revokes when the password has been checked, since
`add_cookie` begins there. `stamp` matters because the clock may move between
the drawing of a cookie and its insertion.

### Routing

A URI or prefix is a sequence over an abstract alphabet with a slash: where the
slashes are, and which prefix is a prefix of which, is all that `find_prefix`
looks at. Loading takes one action per statement. A lookup keeps the set `todo`
of entries the loop has not visited and takes any of them next. `port` is the
number modulo `PortRange`, as the assignment to an `unsigned short` makes it, and
any value at all before a `port` statement. Errors and the dereferenced `end()`
end the program.

A statement carries the block its handler gets, and `HandlerInit` folds each class's
`Init` over it. `InitStatic` keeps the order of the checks: a statement with a wrong
number of tokens is an error, one with the right number that is none of the
three (`user bob;`) is ignored without a word; a `timeout 0` counts as no timeout. Its
`std::stoi` throws above `IntMax`.

### Webserver

`pc[c]` follows connection `c` from the kernel's queue through
`read -> handle [-> fallback] -> record -> write -> end`, with `count -> table`
for the status page. What a handler computes is a pair: the status it returns
and the code it leaves in the response, 0 for the indeterminate `status_code_` of
a response nobody set. `Arrived` is what the single `read_some` may return: the
request, the empty string when the client hung up, or, with `Split`, a first
segment, which `Request::Parse` turns into a request, `nullptr` or an exception.
`Crash` is the end of the whole process after a null dereference. `count` and
`table` are separate because `StatusHandler` reads the tracker twice.
`push_back` racing with `push_back`, `size` or the copy is treated as above.

### ConfigParser

One step reads one character, of which only the class matters (letter, space,
newline, carriage return, `;`, `{`, `}`, `#`, the two quotes), or finds the end
of the file. The scanning operators are the cases of `ParseToken`'s `switch`; an
operator per token type is the body of `Parse`'s loop, and one character may do both,
as in the code. `peek` is the character `unget` put back. `blocks[b]` is the
`statements_` of the b-th `NginxConfig` made, `config_stack` holds such numbers, and
`child` is 0 or the number of the child block. A word is the number of its token,
so that a word in the wrong place shows. `top()` or `pop()` of an empty stack,
which a `}` too many leads to, sets `ub`. `result` is `"false"` at once when the
file cannot be opened. The branches of `Parse` for a token of type `START` or
unknown, and the one for a word after a comment or an error, have no action: no
token leads there.

### HttpMessages and ReverseProxy

A text is a sequence of symbols: most are one character, and a word that is only
compared with itself is a single symbol, or two when the code may cut it. `Text` has
`find`, `substr`, splitting and the numbers, 0-based and with `npos` as in C++; `substr`
from beyond the end, which throws, is kept apart where it can happen (`HeaderThrows`).
The operators follow the code with what is odd in it: a
line without a colon is a header without name; the block of headers that
`Response::Parse` scans ends with the carriage return of the last header, which
becomes part of its value; the loop over headers goes on at position 1 after the last
one and stops because that is no progress.

`ReverseProxy` is one call. `forward -> write -> read -> parse` is one turn of the
loop; `Connect` or `Unreachable`, `Write` or `WriteThrows`, `Read` of any text, and
then the ways the answer is taken: thrown, unrecognized, relayed, a redirection with or
without a `Location`. `Return` resets the locals. `asked` remembers what the last peer
received. Calls of other threads are left out, for nothing is shared after `Init`.

### Database

Each thread has its call's locals; `heap` holds the library's objects, pairs of a
kind and the connection they serve. Every step that calls the library may throw
instead (`CatchException`), and `connect` may also return a null pointer. `abandoned` is a
history of the connections that calls left open when they failed. Deleting the
connection does not delete its statement in this model, as it does not in the code:
`Free` deletes both. `URLDecode` and `GetJSONResults` are operators on symbols.

## 3. Runs

All bounds are in the `.cfg` files and the `MC` modules. Deadlock is not checked:
in every model a terminated process, or a server all of whose connections are
over, legitimately has no next step, and the clock stops at `Horizon`.

| Run | Instance | Shows |
|---|---|---|
| `sessions_racing` | 2 threads, 2 cookies, timeout 1, clock 2..4, a right and a wrong password | `TypeOK`, `AuthSafe`, `NoLoginLoop`, `ResultsAsPromised` under every interleaving and race |
| `sessions_cookies` | 2 threads, 2 cookies and one from before a restart | `LiveCookieGranted`, `OldCookieDeleted`, `KeepsPromise`: the refinement of `LoginSessions` |
| `public` | no users, timeout 0, a directory URI, a foreign URI, a left-over cookie | `PublicIsOpen`, `ResultsAsPromised` |
| `routing` | all configurations of up to 3 of 16 statements; all tables of 3 paths out of 8, with and without default; all blocks of up to 3 of 10 statements for static files, of up to 2 of 6 for proxies and databases; all URIs of up to 6 characters | `TypeOK`, `ConfigLoaded`, `ProtectionIsWhole`, `LongestMatch`, `RoutesToInnermost` |
| `server_status` | 3 connections, split requests, hang-ups; static, status, not-found handlers | `TypeOK`, `StatusPageComplete`, `FallbackFillsResponse` |
| `parser` | all files of up to 12 characters out of 10 classes | `TypeOK`, `StackIsPath`, `AcceptsGrammar`, `RoundTrip` |
| `server_answers` | 2 connections; static, database, proxy handlers, no default; fairness | `SentIsAnswered` |
| `proxy` | 3 proxies (a prefix, the root with a path, the default), requests and answers whole and cut off at every symbol, redirections in a circle, at most 3; fairness | `TypeOK`, `AsksProperly`, `AsksForTheRightThing`, `RelaysAnswer`, `RedirectionsFollowed`, `ResultsAsPromised`, `CallsEnd` |
| `database` | 2 calls at a time, 3 connections, 4 queries in three spellings, results of 0, 1 and 2 rows | `TypeOK`, `ObjectsAccounted`, `QueryAsTyped`, `AnswersInJSON`, `ResultsAsPromised` |

These runs are expected to fail; each one shows a disagreement with what the
repository says of itself:

| Run | Property | What happens |
|---|---|---|
| `sessions_dangling` | `NoDanglingErase` | two requests with one expired cookie both found its element; the second erases through an iterator to freed memory, even when no two accesses collided (`static_file_handler.cc:348`) |
| `sessions_shared_uri` | `RedirectsToOwnUri` | `original_uri` is one for all clients: a login goes where somebody else wanted to go, or stays (`:154`) |
| `server_500` | `NonOkGets500` | a handler's error status is ignored (`:162`) |

More that the models show and no run of its own repeats, because no line of the
repository says otherwise; where a property's formula makes an exception, this is why:

* One wrong password and `original_uri` is forgotten, so that the login that follows
  stays where it is (`static_file_handler.cc:184`; `Clear`).
* A configuration without `default` loads, after which the first unmapped URI
  dereferences `end()` (`Webserver.cc:139`; `FindEnds`).
* `path /` does not serve `/a.txt`: the prefix of a URI directly under the root is
  empty (`Webserver.cc:194`; the domain of `RoutesToInnermost`).
* `a; b` is accepted as the file `a;`: the last word is dropped when no character
  follows it (`config_parser.cc:147`; `AcceptsGrammar`).
* A host or path in the configuration, or a `Location`, with a blank or a line feed makes a
  request that no host can parse, since nothing encodes it (`Asking`).
* The last header of an answer keeps a carriage return, so a redirection whose
  `Location` comes last is followed to a URI with one; a relative `Location` is read as a
  host's name; a proxy that is the default cuts the 7 letters of "default" off every
  URI; the body grows by a carriage return per hop (`AsksProperly`, `RelaysAnswer`).
* A chain of 21 redirections ends with the last one sent to the client as a success
  (`RedirectionsFollowed`, `Redirect`).
* Each call to the database that fails after connecting leaves a connection open, and
  one that fails later a statement and a result set too (`ObjectsAccounted`).
* The page in `static_files/private_files` sends a query with `encodeURI`, which leaves
  a plus sign alone, so the database gets `1 1` for `1+1` (`EncodeURI`, which
  `QueryAsTyped` includes for queries without one). Quotes in a cell end the string
  in the JSON early; `AnswersInJSON` is about words without quotes.

### Why the bounds are enough

Two threads meet at every pair of accesses; a third adds no new pair. Two cookies
are the one a thread holds and the one it draws, and a third is the stranger
from before the restart. With timeout 1 and three clock values a cookie can be
fresh, at the boundary and expired. In `routing`, six characters make room for
three nested directories with a sibling that shares letters, three entries
for a best, a second best and a wrong candidate. In `server_status` three
connections are one that is recorded, one that races with it or asks for the page,
and one more; the theorems cover the other sizes where there is one.

In `parser`, twelve characters make room for four levels of nesting, and for
blocks next to and inside each other with comments and quotes between; the same
properties also held at fourteen.

In `proxy` every text is also cut off at every symbol, which is where a connection can
break; `MAX_REDIRECTS` is 3 instead of 21, enough for a first, a middle and a last
turn, and a theorem covers the others. In `database` two calls and three connections let a call
fail, leave its connection and try again next to another one; TLC reaches states in which
every connection is leaked.

`SYMMETRY` permutes threads, files, cookies or connections, none of which appears in an
initial state or a constant in a distinguished role; `CookieSymmetry` permutes the cookies
that are not from before a restart (`OldCookies`) among themselves. It is not used
where liveness is checked; `KeepsPromise` is a formula about steps without fairness, and
the mapping treats threads and cookies alike. With three new cookies `sessions_cookies` holds as well. A `VIEW` leaves out
variables, or parts of them, that no guard and no property of that run reads in
the state concerned; each is explained where it is defined.

### Fairness

`Webserver` and `ReverseProxy` state liveness. In `Webserver`, `Accept` is weakly fair because `run_server`
does nothing but return to `accept`; each step of a session is weakly fair
because detached threads are scheduled by the operating system and those steps do
not block. Not fair: `Connect`, `Send` and `HangUp`, since clients may stay silent;
a proxy's and a database's `HandleRequest`, which wait for a peer without any
timeout; and `Abort`. `SentIsAnswered` is therefore about well-formed requests
whose handler, and the default handler, are local, and it allows for the end of
the process. `Split` is FALSE there: a request in two segments may be cut off, and
no answer is promised for it.

In `ReverseProxy` the thread keeps running whenever it does not wait for a peer, which is
weak fairness of `Loop` and `Return`: one of them is enabled exactly when `Running`. It is
written `[]<>~Running`, without `ENABLED`, which TLC would have to evaluate
on long texts. `CallsEnd` assumes `PeersClose`, that a
peer that was asked closes its connection some day; the code has no timeout, so
without that assumption nothing is promised, and with it even hosts that redirect in
a circle cannot keep a call from ending.

## 4. Properties that survive data races

`AuthSafe`, `NoLoginLoop`, `PublicIsOpen` and `TypeOK` hold in every behaviour,
with races, with dangling iterators, and with cookies that collide or are
guessed. This is because a miss, a loss or a tear can only make a request look
less authorised: the time a thread compares is one a login wrote.
`LiveCookieGranted`, `OldCookieDeleted` and `StatusPageComplete` are promises
about data a race destroys, and carry `~ub`; `KeepsPromise` carries it as `broken`.
`ResultsAsPromised` holds with races too.

## 5. Proofs

Checked by `tlapm` with SMT, Zenon and, for the temporal steps, LS4. All hold for every
value of the constants that satisfies the named assumptions, which TLC also evaluates on
the instances.

**StaticFileHandlerProofs.** Assumptions: `ConfigAssumption` (what `Init` accepts: users
and a timeout, or neither, `static_file_handler.cc:124-129`), `ClockAssumption` (the
timeout is smaller than the time since 1970, for else a missing cookie, whose time is 0,
would look fresh) and `NameAssumption` (special values differ from ordinary ones).
`TypeCorrect` is by induction with the frame facts of `TypeInv`.
`PrivateFilesAuthorised` is `AuthSafe`, which is not inductive: it speaks of a thread
that is done, and nothing in it says why. `IInv` adds, going backwards along a request:
a thread about to serve a private file is authorised (`GatedAuthorised`); a time in the
map, or copied from it by a thread, is that of some login for that cookie
(`TimesFromLogins`); every login was made with a configured password, also one still on
its way (`CredentialsChecked`); times are not later than the clock and all the clock's
values exceed the timeout (`ClockOK`), which is what makes "missing" mean "expired"; and
a gated request is never on a path for others (`FrameOK`). Erasures and lost writes only
shrink the map (`EraseShrinks`), so races preserve it. `LoginNeverLoops` and
`PublicStaysOpen` use small invariants of their own (`LoopInv`, `OpenInv`).
`KeepsResults` is `ResultsAsPromised`: the code is set with every OK and with nothing
else, whatever the threads race.

**SessionsProofs.** The same assumptions, and `~Collisions`: random strings are distinct
and secret. `LiveCookiesGranted` and `OldCookiesDeleted`, for any number of threads and
cookies, rest on `CookieInv`, which consists of four parts. `DrawsNew`: a cookie about
to be inserted was never granted or presented, and is one thread's alone; without it an
insertion could overwrite a live grant. `Frames`: an iterator points to the client's own
cookie or is dangling, and whoever is on the way to erase has found something.
`LiveInv`: while nothing has raced, the time of a live login is in the map *and* in the
hand of every thread that has looked it up; the second half is what survives between a
find and its decision. `GoneInv`: while nothing has raced, a thread that found no
cookie, or erased it, knows that it is absent, and a replaced cookie still in the map is
about to be removed by the thread that replaced it. `ImplementsLoginSessions` is the
refinement: `Simulation` goes through the actions and shows each to be a step or a
stutter of `LoginSessions`; `CheckExpire` to admission needs `TimesFromLogins` (part of
`IInv`), to denial `LiveInv`, and `AddGen` needs `DrawsNew`.

**RoutingProofs.** Assumption: `RoutingAssumption` (typing of the constants). `FindsLongestMatch`: the loop invariant of `find_prefix` for every table
and order. `RoutesCorrectly`: at the end of the loop the best match is the innermost
directory around the URI. The bridge is `MatchesIffCovers`: the string conditions of
lines 199-200 hold exactly for the directories that contain the URI, which needs that a
finite sequence with a slash has a last one (`LastSlashExists`) and that two prefixes of
one sequence with the same length are equal (`PrefixUnique`). `LoadsWhole` is
`ConfigLoaded` for configurations of any length. The property is about the server that
listens; `LoadInv` says of every moment of loading that the tracker's list is what
`SelectSeq` picks out of the statements read so far, that no prefix is in it twice, that
the table has the same prefixes, and that `port` is the last port read. `ProtectsWhole`
is `ProtectionIsWhole`. `AcceptedInv`: the block of each entry was accepted by its
`Init`. What an `Init` accepts is a fold over a block of any length, which the proof
takes apart as a function `h[k]`, the handler after `k` statements (`FoldExists` says
that it exists); `Knows` says what such a handler has in it: exactly the users read,
none twice, and the one timeout and the one root, or none.

**WebserverProofs.** Assumption: `ServerAssumption`. `TypeCorrect`, and
`StatusPagesComplete`: without a race, every status page lists each request that had
been answered when the page was asked for exactly once, for any number of connections
and any handlers. The inductive invariant says that, as long as nothing raced, a
connection past `record` has exactly one row in the list, with its URI and the code of
its response (`RowsOK`); that what a client knew when it sent its request had been
answered (`KnownAnswered`); and that a page, once read, contains those rows (`PagesOK`).
The list only grows, which carries a row from the list into every later copy.
`FallbackFills` is `FallbackFillsResponse`, for any handlers: `FillInv` says that a
session in `fallback` has the default handler, which the property does not mention, and
that a response whose handler has returned has a code or an excuse.

**ConfigParserProofs.** Assumption: `ParserAssumption`. `TypeCorrect`, and
`StackHoldsPath`: for every file the stack is the path from the file's own block to the
one being filled, and the statement to which the next word or block belongs exists.
`StackIsPath` is not inductive: a change of the block on top must not disturb the links
below it. `Grows` adds that the numbers on the stack are those of blocks and increase,
so that the top differs from all the others.

`ParsesGrammar` is `AcceptsGrammar` for files of any length: what `Parse` accepts with a
table of pairs of tokens and a depth is what the recursive grammar `Statements`
generates. Neither says anything about the other's middle, so the proof goes over a
third description, `Shaped`: each token may follow the one before it (`Ordered`), the
last one ends a statement (`Closed`), and there are heights that never fall below 0 and
end at 0 (`Balanced`). `GrammarInv` shows that `Parse` keeps the first and third of so
much as it has read. That `Shaped` is `Statements` goes by induction on the length: a
file of either kind contains a simple statement, a run of words before a semicolon or an
empty block, and to cut it out changes neither.

`WritesWhatItRead` is `RoundTrip`: the text `ToString` writes of the tree is the file.
`RoundInv` says it of the blocks that are still open: what has been read is the text of
the bottom block up to the statement that is open, then its brace, then the same of the
block above (`Reads`, `Opened`). `Tree`, that children have higher numbers than their
parents, makes `ToString`'s recursion a recursion on a rank, and shows that a change of
the block on top changes no other block's text.

**DatabaseProofs.** Assumptions: `DatabaseAssumption` and `TextAssumption` (what the
code writes are characters, and no name or value in a table is a line feed).
`ConnectionsAccounted` is `ObjectsAccounted` for any number of threads. It is not
inductive: `Free` deletes a statement and a connection only, so that a result set would
be left over if one existed. `Holding` says that none does, outside `fetch` and after a
failure, and that a call has a connection from `connect` on and none before; `Accounts`
has the types, without the texts. `KeepsResults` is `ResultsAsPromised`, and
`DatabaseTypes` is `TypeOK`, with the texts (`Typed`). `DecodesWhatWasTyped` is
`QueryAsTyped` for queries of any length over 256 characters: `QueryInv` says that the
query is what `ExtractQuery` took from the URI, and `ExtractsTyped` that this is what
was typed, by induction along `URLDecode`'s recursion. `AnswersAsDescribed` is
`AnswersInJSON` for tables of any size. The code writes a comma and a line feed after
every row and takes the last two characters back; `RowsInv` says what a call has of its
table, and `Becomes` relates each piece of the answer to the same piece without line
feeds, where the commas stand between the rows (`Separated`).

**ReverseProxyProofs.** Assumptions: `ProxyAssumption` (each proxy's block was accepted
by its `Init`), `TextAssumption` (what the code writes are characters, and so is all
that arrives) and, for `AnswerRelayed` alone, `ReplyAssumption` (a response whose
headers have names and values that fit on a line). Nothing is assumed of what clients
and peers send. `FollowsRedirections` and `KeepsResults` by the loop's invariant
(`LoopInv`): while the loop goes on, `i` is below the bound and the response is new or a
redirection.

`TypeCorrect`, `AskedProperly` and `AskedForTheRightThing` come from `CallInv`.
`AsksProperly` is about the text a host has received, and that text was written from the
fields of a request that itself was parsed from a text, rewritten, and rewritten again
for each redirection. So the invariant is about the fields: `Proper`, the client's
request is one that `Request::Parse` can return; `Carries`, while the call lasts the
rewritten one has its method and body and its headers but for two, is written from its
fields, and names the host; `Destined`, host and URI are the configured ones or those of
the `Location` in the last response. That a request which is written and parsed again is
itself, with one carriage return more in its body, is `CarriedIsSendable` and what
precedes it: where `Find` finds, what `SplitAt` and `Lines` cut out of a concatenation.
This is also where the properties' exception comes from: a host or a path with a blank
or a line feed does not survive being written in a request.

`AnswerRelayed` is `RelaysAnswer`. `RelayInv` says that a call ends with the answer it
has read last; the rest is that the text of a response with any number of headers is
read back: its three digits, where its empty line is found (`FieldsText` begins with no
carriage return, so nowhere earlier), and each round of the loop over the headers, of
which one starts where the next header line begins (`FieldHere`), and the last one runs
into the carriage return (`FieldLast`).

**InductionLemmas.** The library's induction theorems take an operator as a parameter,
which the installed provers cannot instantiate. Here a property is a set:
`RankInduction` and `SeqInductive` say that a set with the induction step contains
everything, `RankRecursion` that a function defined by recursion on a rank exists and
satisfies its equation, and `FlattenIs`, `FlattenApplied` and `FoldExists` say it of the
folds by which the modules concatenate and read sequences.

`tlapm`'s encoding for SMT takes `DOMAIN s = 1 .. Len(s)` of every value `s`, which is a
fact of sequences only. Every proof here was therefore also run against that fact for
sequences alone, and holds. That is why leaves cite that a text is in `Seq(...)` and why
`Routing`'s `TypeOK` says that the tracker's list is a sequence.

**Only model-checked.** `SentIsAnswered` and `CallsEnd`: liveness under fairness and
`ENABLED` are out of the prover's reach. So would be a module with a `RECURSIVE`
operator; there is none. Every invariant and the one action property that a passing run
checks has a theorem.

## 6. Not modelled

* `cpp-markdown`: vendored, converts text to text. It is almost half of the
  implementation's lines.
* Content types and the decision to render Markdown, pure functions of the file's name; the
  bodies of the echo, not-found and login pages, and lengths. Among them are the constant
  `Content-Length: 228` of the login page (`static_file_handler.cc:355`) and the headers that
  stay in a response when its file is missing, since `response = nullptr` (`:190`) only
  changes a local pointer: no module carries one response with its headers through two handlers.
* The extraction of user and password from the body (`:162-167`): a body is a pair
  of a user and a password; one that does not parse is a wrong pair.
* Limits on threads, memory and the size of `cookie_map`, which the code does not
  have; MySQL's own limit is the number of `Connections`.
* Static registration of handlers, before `main` and in one thread. `CreateByName`'s null
  for an unknown name is in `Routing`.
* A `StaticFileHandler` called a second time for the same response, as the default, other
  than through its results.
* `GetHandlers` and the handlers' table of the status page: the list does not change
  after loading.

## 7. Plan

Done: the private directories with their abstract specification and its refinement
proof; start, handlers' `Init` and routing; sessions, tracker and status page with
liveness; the parser against the grammar; the proxy with `Request` and `Response`; the database;
the promises by which the handlers' modules and `Webserver` fit together; and proofs of every
safety property the runs check.

Left, in this order:

1. One response with its headers through two handlers: a static handler that has set a
   cookie or a redirection, then the default handler in the same response.
2. The classification of a parsed tree's statements, to join `ConfigParser` and `Routing`
   into one specification of the start, and the theorem that the whole start loads what the
   characters of the file say.
3. A directory with one client alone: where its login leads, with what a wrong password
   in between does to it (`static_file_handler.cc:184`).
