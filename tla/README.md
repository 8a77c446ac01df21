# A verification of ashttpd

ashttpd is a small web server for static sites. `mkroot` packs a directory tree
into one *web root* file: an index of URIs, a table of objects and the contents.
`httpd` maps such files, one for each virtual host, and answers GET and HEAD from
them with a single thread, an edge-triggered event loop and a choice of file I/O
models. This directory models both programs and the data structures they rely on in
TLA+, checks them with TLC, and proves with TLAPS, for instances of any size, the safety
properties of the server and of what it is built from: parser, normalisation of URIs, vhost
table, crit-bit map and allocator.

Contents: [inventory](#inventory), [modules](#modules-and-the-code),
[runs](#runs), [bounds](#bounds), [fairness](#fairness), [proofs](#proofs),
[disagreements](#where-code-and-documentation-disagree),
[left out](#what-is-not-modelled), [plan](#plan).

## Inventory

| Component | State | Operations | Must hold |
|---|---|---|---|
| Event loop (`nbio.c`, `nbio-epoll.c`) | three lists of nbios, each with a mask (what its owner waits for) and flags (what is believed ready); epoll registrations | add, del, set_wait, wait, wake, inactive, pump | no wake-up is lost, no busy loop, deleted nbios are freed |
| poll plugin (`nbio-poll.c`) | array of pollfd, an index in each nbio | active, inactive, pump | every waiting descriptor is polled |
| Listeners (`nbio-listener.c`) | listening sockets, a queue of those out of descriptors | accept loop, parking, wake-up by `http_kill()` | a parked listener is woken; the backlog is served |
| Connections (`http_conn.c`) | state (REQUEST, HEADER, DATA, DEAD), request buffer, response header, data buffer, body length left, web root | read, write, kill, destroy; every `response_*()` and `handle_get()` | callbacks find a state they can handle; all that is held is given back; a body is sent whole and in order |
| File I/O (`io_sync.c`, `io_sendfile.c`, `io_async.c`) | data buffer, iocbs, an eventfd | prep, write, abort, completion | memory outlives the kernel's use of it; no completion is forgotten |
| Virtual hosts (`vhosts.c`, `nbio-inotify.c`) | table of names, default host, inotify watch | scan, add, delete, lookup | the table follows the directory; web roots are open exactly as long as used |
| crit-bit map (`critbit.c`) | a tree of byte and bit positions, in blocks from `malloc()` | insert, delete, contains | it is a map; no block is leaked or freed while pointed to |
| Web root reader (`webroot.c`) | a mapped index: trie edges, object tables, strings | open, find, reference counts | find returns the object of a URI and nothing else |
| Web root writer (`mkroot.c`, `trie.c`) | lists of URIs, objects and types; the trie; the output file | scan, link, sort, lay out, write, seek back for digests | the file has the whole tree and nothing else, and is on disk when mkroot says OK |
| Output buffers, string pool (`fobuf.c`, `strpool.c`, `os.c`) | buffer and descriptor offset; slabs | write, flush, close; alloc | bytes arrive in order at their place; strings do not overlap |
| Checker (`fsck.c`) | a mapped index | list, histogram | it lists the URIs of the index |
| URIs (`normalize.c`) | one buffer rewritten in place | split, hex, UTF-8, dots | a normal form, the same that walking the path gives |
| HTTP parser (`http-parse.h`, `http_parse.c`, `http_req.c`, `vec.c`) | scanner state and pointer kept between reads; table of headers | incremental scan, decode, header dispatch | pieces do not matter; both parsers agree; wanted headers are stored |
| Conditional requests (`http_conn.c`) | the digest of a file, the tag of a request | print and compare ETags | 304 just for a client whose copy is current |
| Buffers (`http_buf.c`) | offsets in a buffer | read, write, reset | modelled where used, in HttpConn |
| `httprape.c`, `nbio-connecter.c` | | | see [what is not modelled](#what-is-not-modelled) |

**How they interact.** `httpd` opens the vhost directory, adds listeners, the
inotify descriptor and, for the async model, an eventfd to one event loop, and
calls `nbio_pump()` for ever. A pass over the active list calls `write`, then
`read`, of each nbio; a callback that meets EAGAIN has its nbio moved to the
inactive list and registered with epoll. When nothing is active the deleted list is
freed and epoll waits. A listener's callback makes connections. A connection's
callbacks parse, normalise the URI, look up vhost and object, take a reference to
the web root, and have a file I/O model move the body. `http_kill()` closes a
connection, releases what it holds, and wakes listeners that ran out of
descriptors. Replacing a web root while its files are being sent is legal at
any time; reference counts keep the old one open. `mkroot` runs on its own: it scans
a tree that others may be changing, and writes a file that the administrator gives a
vhost's name to once it says OK.

**What is hard to test.** Nothing runs in parallel, but everything is interleaved:
callbacks of many connections, packets and resets from peers between any two of
them, completions of disk reads, changes to the vhost directory. Edge-triggered
notification makes a missed state change permanent. A connection can die in every
state on a dozen error paths. Buffers, offsets and lengths are split over several
small functions. A web root is written through a buffer, in an order that differs from
that of the file, and power may fail at any point. PROJECT.json lists these hazards line
by line under `hazards`, each with the properties that would catch it.

## Modules and the code

| Module | Code | State and actions |
|---|---|---|
| `Nbio` | `nbio.c`, `nbio-epoll.c` | Operators on one nbio: list, mask, flags, and its epoll item (none, armed, queued). |
| `HttpConn` | `http_conn.c`, `nbio-listener.c`, `nbio-eventfd.c`, the three I/O models, the pump | The server. One action is one callback; see below. Extends `Nbio`. |
| `HttpService` | what `http_conn.c` promises | Abstract specification: a connection waits, responds with an announced length, waits again; the only other way out is to close. |
| `HttpConnProofs`, `HttpConnShared` | | Theorems about `HttpConn`: one connection, what its callbacks may do to shared state, the service; and, on top of these, wake-ups and counts. |
| `Vhosts` | `vhosts.c`, `nbio-inotify.c`, `webroot.c` | Directory, queue of reports, table, reference counts; scan, watch, dispatch, and the administrator. |
| `CritBit` | `critbit.c` | The root, the block at each address and their pointers, next to the map they stand for; insert and delete, each path of them an action. |
| `Mkroot` | `mkroot.c`, `webroot.c` | The tree, the lists of struct webroot, the output; one action is one entry of the scan, one call of `fobuf_write()` or one `read()`; edits, failures, power failure. Extends the next three. |
| `Trie` | `mkroot.c`, `trie.c`, `webroot.c`, `fsck.c` | Operators: sorting, trie, breadth-first layout, lookup, listing. |
| `Fobuf` | `fobuf.c`, `os.c` | Operators on one output: the file, its buffer and offset, what is on disk for certain, writes since. |
| `StrPool` | `strpool.c` | Operators on a pool: sizes of slabs, what is left of the newest, pieces handed out. |
| `Normalize` | `normalize.c` | The URI a client composes; each pass is an operator that returns outcome and buffer, and each loop an instance of `Loops` with the operator for one turn. |
| `Loops` | | A loop over a sequence, for any turn, with the theorems its instances share. |
| `HttpParse` | `http-parse.h`, `http_parse.c` | Bytes received, scanner state; receive a batch, take a request. |
| `HttpReq` | `http_req.c`, `http_parse.c`, `vec.c`, `http_conn.c` | Composes `HttpParse` with what is made of a request: the header lines and the struct they are stored in; table search, ETags. |
| `HGang` | `hgang.c` | Slabs, the free list as words inside the objects; alloc, return, and the owner's writes. |
| `VhostsProofs`, `CritBitProofs`, `NormalizeProofs`, `HttpParseProofs`, `HGangProofs` | | Theorems about `Vhosts`, `CritBit`, `Normalize`, about `HttpParse` and `HttpReq`, and about `HGang`. |
| `NbioPoll` | `nbio-poll.c` | The lists, the array and the indices; inactive and pump. |

The `MC` modules only hold constants for TLC.

**HttpConn in more detail.** `conn[c]` is the struct of slot `c`, `nb[n]` the nbio
of a connection, listener or the eventfd, `sock[c]` the kernel's end of the socket.
Bytes are counted in units, and what peers send is a sequence of tokens that say
what the completed request will lead to; `HttpParse`, `HttpReq`, `Normalize` and `Trie`
model how the code comes to that outcome. `visit` holds what is left of
the pump's visit to an nbio, so that peers can act between `write` and `read` of one
visit, between two `accept()` calls, and between draining the eventfd and collecting
completions. The order of the active list is left open, which covers every order the
lists can have. `Fails` says which fallible calls may fail in a run: allocation of
connection, request, response or data buffer, reads, `io_submit`, `accept`, a
connection aborted before it is accepted, and `epoll_ctl`. `VhostAdd` and
`VhostDel` stand for `Vhosts` with one name. A null dereference sets `crashed` and
stops the process.

`ConnClose` is `{FALSE}` in the runs because that is the only value `http_req()`
can produce: `Lookup` of `HttpReq`, the search of `dispatch_hdr()`, does not find
`Connection` in its table. The theorems hold for any value.

**Mkroot in more detail.** A byte of a file is a pair of an item (header, edge, object,
character, byte of a file) and a place in it, so that a structure of which only a part
has been written is told from a whole one. `ScanItem` takes the entries of a directory in
any order, as `readdir()` does. `pend` holds what is left to pass to `fobuf_write()`; when
the buffer is flushed is decided by `Fobuf`, as in the code. `NextRead` is one
`read()` of `write_file()`, so files can be written to between two. `WriteFails` leaves
any beginning of the data that was being written; `PowerFailure` keeps any subset of the
`write(2)`s since the last `fsync()`, in any combination. The web root is read back by
`WebrootOpens` and `WebrootFind`, translated from `webroot.c`, from the very bytes that
were written. `Switch` is the administrator, who acts on mkroot's exit status.

**Vhosts in more detail.** `MaxQueue` is the kernel's limit on reports: beyond it they
are dropped and one report of the overflow is queued, which `dispatch()` takes for
spurious. `missed` has the names whose last change went unreported, `failed` those
whose last report could not be acted on, for want of resources or because the file was still
being copied (`copying`); either ends with the next report. The watch is for neither IN_MODIFY
nor IN_CLOSE_WRITE, so that `CopyDone` queues nothing. `off` counts, for each web root, the
two errors the code makes with references: `vhost_add()` forgets one when `cb_insert()` is out of
memory, and `vhost_del()` gives one back through an uninitialised pointer when the name is not
in the table (`StrayUnref`). The latter can close a web root in use; nothing is followed after
that (`Running`).

**CritBit in more detail.** Keys are strings of bytes from 1 to 255, since `readdir()` and inotify
return any names and `vhost_add()` passes them on. `char` is signed as on x86, so a key that parts
from the one it is compared with in the sign bit of a byte has `cb_insert()` write out of
bounds. `InsertAstray` is that call; it sets `crashed` and ends the behaviour.

## Runs

Passing runs:

| Run | Question | Properties |
|---|---|---|
| `sendfile` | bodies by sendfile: two connections, resets, web roots replaced and deleted during responses | TypeOK, RootPinned, NoLostWakeup, NoSpin, ConcurrencyExact, ImplementsService |
| `sync` | buffered reads, the default; two listeners and one descriptor; failing reads and allocations, half-close, reset | CallbackFits, BuffersReleased, BodyInOrder, OomHasWaker, PumpSafe |
| `async` | kernel AIO: two connections, resets, failing reads and submissions | AioSafe, NoStrandedCompletion |
| `live` | fair scheduling, two connections, resets; bodies by sendfile | RequestAnswered, ResponseEnds, DeadFreed, BacklogServed |
| `request` | heads of requests in batches of bytes and of lines, good and bad, with any headers; and every URI of up to four pieces | IncrementalExact, ParsersAgree, DecodeBounded, FieldsExact, Revalidated, NormalForm, Resolved, RoundTrip |
| `pool` | the allocator, owners writing anything to what they own | ListExact, NoHoarding |
| `critbit` | every history of inserts and deletes over six names, two of them not ASCII | MapExact, Discriminates, HeapExact |
| `vhosts` | any changes to the directory, from start-up on and while reports wait or are dropped, with files read half-way, opening or storing failing, and deletes of names not in the table | Converged, RefExact |
| `mkroot` | trees with links, index pages and prefixes; files changed meanwhile, failing writes, power failures | ServedWhole, NoWrongObject, ScanExact, FindExact, FsckExact, AssertionsHold, FitsAllocation, StringsDisjoint |

*ImplementsService* is a refinement: `phase` and `owed` of `HttpService` are
computed from a connection's state and from the history variables `clen` (announced)
and `sent`. *PumpSafe* is what the loop over the active list relies on: a callback
takes no other nbio off the list, so the entry noted as the next is still on it.
*ServedWhole* is end to end: the tree is compared with what the code of the
server finds in the bytes that mkroot left, after a power failure too, once the name
was switched. *NoWrongObject* is about a file that is read before that: an answer from it
may lack bytes, but none are of another object. *FindExact* compares the binary search on
the written array with the map from URIs to objects. *IncrementalExact* compares the
resumable scanner with the definition "up to and including the first empty line".
*Resolved* compares the in-place rewriting of dots with walking the path by depth;
*RoundTrip* says that every URI of a web root can be asked for by escaping it. *HeapExact* says of
the crit-bit map that what it has allocated is what can be reached from its root.

Runs that end in a violation, described under
[disagreements](#where-code-and-documentation-disagree):

| Run | Question | Property |
|---|---|---|
| `dtor_assertion` | the assertion in `http_dtor()` | DtorOnlyDead |
| `poll` | two descriptors and the poll plugin | StillPolled |
| `removal` | a site created and deleted, its reports handled later | InUseOpen |

What a passing run does not claim:

- `ConcurrencyExact` counts the descriptors that the error sweep leaks (below) as
  connections, because the code does; `OomHasWaker` excepts the case that it has leaked all.
- `RootPinned` says that a web root in use is open, not that every reference is given
  back, since a bodiless response to a request for a file leaves its reference with the
  connection until the next or the end.
- `BuffersReleased` is about what goes through `http_kill()`. What a connection holds that the
  error sweep destroys is counted in `leaked`, and bounded: three buffers with each descriptor.
- `ResponseEnds`, like the rest of `live`, is checked for `io_sendfile` only. `io_sync` waits for
  the socket in the same places. With `io_async` the first GET of a file that is not empty crashes the
  process (below), and a response that gets past that takes more states than a check of
  liveness over two connections can go through.
- `Converged` excepts names in `missed` and `failed` until they change again, among them those
  whose file was still being copied when its report was handled. It, and `RefExact`, say
  nothing after a delete of a name that is not in the table has closed a web root in use.
  `RefExact` counts the two errors of the code in `off`.
- `MapExact`, `Discriminates` and `HeapExact` end where `cb_insert()` writes out of bounds, for a
  name that is not ASCII next to one that is.
- `ServedWhole` and `ScanExact` know the location of a link's redirect only as far as the code
  determines it: a target may have garbage behind it, and an absolute one is appended to the
  directory of the link, which is right in the top directory only. `NoWrongObject` leaves
  such garbage out.
- `ServedWhole` speaks of names switched after OK. A name that stands for the output
  path itself while mkroot truncates and rewrites it has only `NoWrongObject`, and after a
  power failure nothing.
- `AssertionsHold` and `FindExact` except URIs as long as `LongUri`, `FsckExact` the
  histogram of a web root with `/` alone, `Revalidated` the digits 0 and a, `RoundTrip`
  characters from U+0080 to U+00FF and backslashes.
- `ParsersAgree` is about well-formed requests. A request line with a space before its line feed, or a
  header line with nothing but spaces after its colon, is not one: the decoder takes the line
  feed for the first byte of the word it is looking for, and reads on into the next line.
- `FieldsExact` is about host and validator; of Connection and Content-Length it says
  only that no other line is taken for them.

`CHECK_DEADLOCK FALSE` in the runs of `HttpConn` and `NbioPoll`: with peers
silent the loop blocks in the kernel for ever, as it should. In `Vhosts` nothing
is left to do when the directory does not change. In `HttpParse` and `Normalize` the
input is complete at its bound, and `Mkroot` ends.

## Bounds

- Two connections are enough for callbacks of one to come between those of another,
  for a slot to be freed and reused, for one connection's death to wake a listener
  that the other's descriptor starves, and for two completions to be pending.
  `sync` has two slots and one descriptor: a connection that is dead and not yet freed
  next to a live one, with both listeners parked.
- Sizes: headers of one or two units against a send queue of two, so a header can go
  out in pieces or fill the queue; files of 0 (no body), less than, equal to and more
  than a data buffer or a sendfile chunk, and not multiples of it.
- Two tokens per connection (`MaxTokens`) make a request in two pieces, or two
  requests at once; `RxCap`, `ReqCap` of one or two let buffers fill. `live` has one
  token per connection, since TLC's check of liveness multiplies the states by the
  properties and connections; it has a descriptor more than connections, so that one the
  error sweep leaks does not starve the listener.
- `MaxConnects` of 2 or 3 gives a backlog, reuse of slots and a starved second listener.
- `MaxEvents` is 8, as in the code, and more than there are nbios.
- `HttpParse`: inputs of up to 13 bytes, in single bytes and whole lines, among them a request line
  that ends in a space. The scanner has six
  states before the end and looks at one byte at a time. Header lines: each of the table,
  others of the same length and shorter ones, two hosts, tags of three digests of which two
  differ in 0 and 10 only, and one cut short.
- `HGang`: two slabs of two objects are the fewest with carving, growth and a list
  that crosses slabs.
- `CritBit`: six names with prefixes of one another and differing in one or several bits; two
  begin with a byte beyond ASCII, which the tree can hold beside each other, and one of them goes
  on in ASCII. At most four can be in the tree together, for which the seven blocks are room;
  blocks are reused in any order.
- `Normalize`: four pieces out of letters, slashes, dots, backslashes, question marks, escapes
  (of a dot, a slash, NUL and broken ones), an overlong dot, two- and three-byte UTF-8 and a
  stray continuation byte: enough for two components with dots, or for an escape or a sequence
  that is cut short.
- `Mkroot`: all trees of up to two entries and one more in a subdirectory, and three
  larger ones: hard links, index pages that are links, dangling links, hidden entries, a
  fifo, URIs that are prefixes of one another, one that is as long as `LongUri`, an absolute link
  in a subdirectory. Behind the target of a link is a NUL, or one character more (`Garbage`). With
  the NUL there are seven characters, and `MaxFanout` is their number, as 0x100 is that of the
  code's. Edges hold
  two characters (8 in the code), so they are split by content, and by length once and
  twice. Structures are of one or two bytes and the buffer of 8, so that flushes fall
  inside structures; the page of a directory is longer than its buffer. Files have 0 or 3
  bytes and are read two at a time. One file is changed, once (`MaxEdits`), at any point.
- `StrPool`: slabs of 12 bytes, of which 3 are for the descriptor: strings that just fit,
  that do not, and that need a slab of their own.
- `Vhosts`: two names, of which one is the default, two web root files, three structs, a queue of
  two reports, as a rename makes two, and four changes (`MaxChanges`): enough to fill the
  queue, overflow it, and change a name again that was missed. Three structs are two in the
  table and one that a connection still has, or one that was forgotten; when all are in use,
  webroot_open() fails, as it does when out of memory. `removal` needs two changes, one web root
  file and two structs.

## Fairness

`FairSpec` assumes strong fairness of each connection's and listener's step, of the
AIO steps and of `epoll_wait`, and weak fairness of a peer's acknowledgements
and of disk reads. The single thread justifies the former: `nbio_pump()` walks
the whole active list on each pass, so an nbio that has a callback due gets its
visit no matter how often others are visited first, although its action is
disabled while another's visit is unfinished (hence strong and not weak); and
`epoll_wait` reports all that is queued once the active list is empty. The latter
is what TCP and disks do; a peer that stops reading keeps its response for ever, as
the server has no timeouts. Nothing is assumed of peers' requests.

## Proofs

All safety properties that the runs check are theorems, but for those of `Mkroot`: for every
number of connection slots, listeners, names, keys, objects and header lines, every size of
buffers, queues, slabs, files and URIs, each I/O model, every set of failures and any behaviour
of peers and administrator.

| Module | Theorems | Property |
|---|---|---|
| `HttpConnProofs` | `Inductive`, `TypeCorrect` | `IInv`, TypeOK: among others, no length or offset goes below zero |
| | `CallbacksFit` | CallbackFits: no `abort()` or assertion in a callback or in `http_kill()` is reached |
| | `BodiesInOrder` | BodyInOrder |
| | `AioIsSafe` | AioSafe: an iocb in flight has its connection and buffer |
| | `ServerImplementsService` | ImplementsService, the refinement |
| `HttpConnShared` | `WakeInductive`, `LoopNeverSpins`, `WakeupsNotLost` | `LoopInv`, NoSpin, NoLostWakeup |
| | `PumpIsSafe`, `CompletionsCollected` | PumpSafe (an action property), NoStrandedCompletion |
| | `RootsArePinned` | RootPinned |
| | `CountInductive`, `ConcurrencyIsExact`, `OomIsWoken` | `CountedInv`, ConcurrencyExact, OomHasWaker |
| | `BuffersAreReleased` | BuffersReleased |
| `VhostsProofs` | `VhostsInductive`, `RefsAreExact`, `TableConverges` | `VhostInv`, RefExact, Converged |
| `CritBitProofs` | `TreeInductive`, `MapIsExact`, `AlwaysDiscriminates`, `HeapIsExact` | `TreeInv`, MapExact, Discriminates, HeapExact |
| | `AsciiNeverCrashes` | `~crashed`, if all keys are ASCII |
| `NormalizeProofs` | `UriIsString`, `NormalFormHolds`, `ResolvedHolds`, `RoundTripHolds` | what a client composes is a string, NormalForm, Resolved, RoundTrip |
| `HttpParseProofs` | `ParseInductive`, `IncrementalIsExact`, `DecodeIsBounded`, `ParsersDoAgree` | `ParseInv`, IncrementalExact, DecodeBounded, ParsersAgree |
| | `ReqInductive`, `RequestsAreParsed`, `FieldsAreExact`, `RevalidatesExactly` | `ReqInv`, the three above in the composition, FieldsExact, Revalidated |
| `HGangProofs` | `GangInductive`, `ListIsExact`, `NeverHoards` | `GangInv`, ListExact, NoHoarding |

**Assumptions.** Those on the constants, which TLC evaluates in the runs. `HttpConn`:
connections, listeners and the eventfd are different and connections finitely many
(`NbioAssumption`, `FiniteAssumption`), the null web root is none of the web roots, sizes are
positive naturals, choices are among those listed. `Vhosts`: names and connections are finitely
many, as counts are cardinalities. `HttpParse`: a batch is not empty. `HttpReq`: digests have
one length, which is not zero, and a value that is a tag is as long as the tag
(`DigestAssumption`, `LineAssumption`). `HGang`: slabs are not empty, null is not an object.
`CritBit`: keys are strings of bytes but NUL, there are finitely many places for blocks, null is
none of them and no value. `Normalize`: pieces are strings of any bytes, and `Stray` yields a byte.

Three theorems have a hypothesis. Two are on what fails, and the runs of these properties satisfy
them.
`WakeupsNotLost` needs `epoll_ctl()` to succeed, since an nbio whose registration fails waits for
an event that is never reported. `OomIsWoken` needs `accept()` to fail for want of a descriptor
only: a listener that is parked for another reason may have no connection to wake it.
`AsciiNeverCrashes` needs names of ASCII characters; the other theorems about `CritBit` do not.

**A connection (`HttpConnProofs`).** The invariant is
`IInv == TypeOK /\ ConnInv /\ VisitInv /\ ListenInv`. None of the properties is inductive
alone:

- `HoldsOK` ties the buffers held to the state and, for a data buffer, to the I/O model
  and the length left. `BuffersReleased` needs it because `http_kill()` decides by the
  state what to free.
- `BodyOK` has the sum of `BodyInOrder`, and that the data buffer is empty between
  responses and in the header phase; without it a new response would start with old
  offsets.
- `WaitOK` ties the nbio to both: the mask is READ exactly while a request is awaited
  and empty exactly while an iocb is out, and a parked connection with an iocb has no
  flags and no registration. `AioSafe` follows because nothing can call back such a
  connection, so nothing can kill it.
- `VisitInv` says what the rest of a visit relies on: the connection whose `read` is
  still due is being served and READ is due. A write callback that kills the
  connection or turns it to another wait must end the visit; this is where that shows.
  It also says that completions being handled are those of finished reads.
- `ListenInv`: listeners and the eventfd are never deleted.

A callback either replaces one connection's struct, nbio and socket (`Carry`) or kills
it (`HttpKill`). The lemmas `CarryStep` and `KillStep` reduce the invariant to a
statement about the replacement; each callback has a lemma (`HttpReadDone`,
`WriteHdrDone`, `SendfileDone`, `SyncDone`, `AsyncDone`, ...) that shows it, over lemmas
about the operators of `Nbio`. `NextIInv` has one step for each action.

**What is shared (`HttpConnProofs`, second part).** The properties that relate a connection to the rest of
the server do not depend on which response it was sending. `ReadEffect` and `WriteEffect` say
once what a callback may do: the nbio is left alone, told to wait for something, or parked on a
socket found unready (`Moves`); the web root is kept, given back or exchanged, with the
references adjusted (`Accounts`); the connection goes on (`GoesOn`) or ends (`Ends`).

**Wake-ups (`HttpConnShared`).** NoSpin and NoLostWakeup are not inductive, as neither speaks of
the registration. `WakeInv` does: an nbio in use is registered exactly when its poll bit says
so, for exactly its mask (`Registered`), and the event of a parked one whose descriptor is
ready is queued (`Heard`). Actions of peers queue the event of an armed registration; the loop
parks an nbio only after its callback met EAGAIN.

**Counts (`HttpConnShared`).** A step changes the web root or descriptor of one connection, so
the sets that are counted grow or shrink by one element, and the counters with them. RootPinned
needs that a web root which was not opened yet is nobody's; OomHasWaker that a listener is
parked only while all descriptors are taken, which `http_kill()` ends and ends the parking with.
BuffersReleased: a connection whose descriptor is closed holds nothing, so the error sweep loses a
descriptor whenever it loses buffers (`leaked`), and no connection has more than three.

**The service (`HttpConnProofs`).** The refinement mapping computes `phase` and `owed` from the
struct. By `IInv` what is owed is zero but during a response; each callback is a step of the
abstract connection or a stutter (`NextService`).

**Virtual hosts (`VhostsProofs`).** Converged is about the moment when no report is left, so it
takes an invariant about the reports that are (`SettledInv`): the last one about a name says
whether the name stands for a file by now, and if there is none the table has what the name
stands for. It does not say which file, and need not: `vhost_add()` opens what is there when the
report is handled. The reference counts come in because a struct is given to a file only when
nothing refers to it. They are exact only up to `off`; what Converged needs of them, that a struct
whose count is zero is nobody's, is what `InUseOpen` says, and at start-up, where nothing is
given back astray, follows from `off` not being negative (`NoStray`, `OffRefs`).

**The crit-bit map (`CritBitProofs`).** The model is one of memory: blocks, pointers to them and
pointers to pointers, as in the code. That the blocks form a tree is therefore something to be
proved, without a recursive definition of a tree. The invariant (`Shape`) says that there is a
function `K` from nodes to sets of keys, "the keys below", such that a leaf has its own key and
an internal node splits its keys in two by its bit, after agreeing on all bits before it
(`CellOK`); of the nodes that have a key in common, each leads to the next in the order of bits
(`Chained`); the root has all keys (`Rooted`); and these are the keys of the map, with their values
(`Holds`). Discriminates alone is not inductive: it does not say that nothing else points into a
subtree, nor that walks end. Every call is one of five changes: the first leaf is planted or the last
felled, a leaf gets a new value, a node and a leaf are grafted into an edge, or pruned. For
the graft it has to be shown that the place at which the second loop of `cb_insert()` stops is
one all of whose keys agree with the new key up to the new bit (`PlaceFound`, `SiteFacts`); that is
where the order of `BelongsAbove` counts. A walk meets the bits in order, so it has
fewer turns than there are blocks (`WalkEnds`), and ends at the key's leaf if it has one
(`WalkKey`). HeapExact follows because each node is on the walk of each of its keys (`WalkMeets`).
For AsciiNeverCrashes: of two bytes that part in the sign bit, one has it set (`OneHasIt`), and no
byte of a key does (`AsciiAgree`).

**Normalisation (`NormalizeProofs`).** Each pass is a loop over a string, and the argument is the
same for all: a lemma says what one turn makes of what was left before it (`HexTurn`,
`PlainTurn`, ...), so it holds after the last. The induction theorems of the library take the
property as an operator and the provers can not instantiate these; so `Loops` has the loop and its
induction once (`LoopRuns`, `Climb`), with the turn as a constant, and `Normalize` has an instance
of it for each loop. NormalForm: what the passes before leave has no NUL and, after
`n_pcount()`, neither a backslash nor two slashes in a row, so at most the last component is empty,
and the components put together are grabbed again as they were (`JoinComponents`). Resolved: the
components kept by the loop that strips the dots are, at each depth, the one name that the walk met
there and no `..` has taken back since (`Walked`); the loop fails when the depth would go below
zero. RoundTrip: every loop leaves a normal URI as it is, once it has been unescaped.

**The parser (`HttpParseProofs`).** The loops are recursive functions. Such a function is a
choice among the solutions of its equation, so for each loop a solution is exhibited first
(`ScanExists`, `RunExists`, `LinesRead`). The provers can not use the library's induction
theorems; induction is over a set of numbers instead (`Climb`, from the well-foundedness of `<`
by way of a least counterexample), and in `HGangProofs` likewise along the free list, in
`CritBitProofs` along a walk. The scanner:
its state says which of the last bytes are part of a line end (`Remembers`), so nothing is lost
between two reads. The decoder: within the first line (`InLine`) it can not leave before the
first line feed, and in the header lines (`InHeaders`) it has counted each line feed passed and
leaves at the empty line. The request: though the table is not in the order of the search, the
path to Host and to If-None-Match is right, so the fields have the last line of these names.

The attempt to prove ParsersAgree failed on a request line that ends in a space before the line
feed; TLC then showed the case, which the inputs had not included. The code takes such a
request and the next for one (see below), so it is excepted from what counts as well-formed, and
now among the inputs of `request`.

**The allocator (`HGangProofs`).** The returned objects can be numbered so that `free` leads to
the first and the word of each to the next (`ListInv`). An owner writes only to objects that are
not numbered; returning one puts it in front.

**Only model-checked.** Liveness (fairness and ENABLED are beyond the prover): RequestAnswered,
ResponseEnds, DeadFreed, BacklogServed. The properties of `Mkroot`: sorting, building, laying out
and listing the trie (`Trie`) go down a tree of any depth and branch at each node, and are RECURSIVE
operators, which the prover's backends do not take, not even in a module that only uses them; this
holds for StringsDisjoint and AssertionsHold too, though they say little of the trie. `NbioPoll`,
whose one property is refuted. The properties of `HttpConn` are proved for every I/O model, and each
is checked by TLC for one.

## Where code and documentation disagree

Three runs end in a counterexample to what the repository says of itself; PROJECT.json
quotes the lines.

- `dtor_assertion`: the error sweep of `nbio_pump()` destroys a connection that never went
  through `http_kill()`. Its descriptor, its buffers and its place in the count are lost.
  The assertion in the destructor that would say so has `=` for `==`.
- `poll`: packing the array leaves stale indices in the nbios; at a later call one of them
  copies another descriptor's entry over the nbio's own, which is no longer polled.
- `removal`: `vhost_del()` of a name that is not in the table gives back a reference through a
  pointer that was never assigned (`vhosts.c:82`). What is on the stack there may be a web root of an
  earlier call. A site that is created and deleted again before the first report is handled gets there;
  if the pointer happens to be the default web root, that is closed while it is in use, though sites
  can be added and removed "on the fly" (`README.md:50-52`).

The models follow the code also where it does not do what it seems meant to. These places
have no run of their own:

- `SyncWrite`: with the whole file buffered and partly sent, `io_sync_write()` reads zero
  bytes, takes that for end of file and kills the connection (`io_sync.c:43`).
- `HandleGet`: `io_async_prep()` uses the connection's web root before `handle_get()` sets
  it (`http_conn.c:602`). Only a connection that has served an empty file before can send
  one with AIO; the runs reach that.
- `Receive`: a second request that came with the first is not looked at until the client
  sends more (`http_conn.c:733`), which is why `RequestAnswered` speaks of requests that
  are still in the socket.
- `ListenerRead`: the next connection is accepted before the last is served, contrary to
  the comment at `nbio-listener.c:76`.
- `Vhosts`: a change between the scan and the watch goes unnoticed (`vhosts.c:127`;
  `missed`). A file is reported when it appears and not when it is complete
  (`nbio-inotify.c:233`), so that a web root which is copied into the directory may be
  found incomplete and is then not looked at again (`failed`); links and renames, which the
  documentation uses, are safe. A web root is forgotten when it can not be stored
  (`vhosts.c:56`; `off`).
- `InsertAstray`: `cb_insert()` takes the exclusive-or of two signed chars as a `uint32_t`
  (`critbit.c:93`, `critbit.c:99`). If one of them is not ASCII and the other is, or is the end of a
  name, all upper bits are set, and the new leaf is stored far before its node (`critbit.c:136`). "The
  filename will be the vhost name" (`README.md:40`), whatever bytes it has.
- `EdgeLen`: URIs of 0x100 bytes make an edge that does not fit its record (`trie.c:120`),
  excepted in `AssertionsHold`.
- `NUtf8`: UTF-8 of U+0080 to U+00FF is rewritten as one byte, though "Real UTF-8 stays
  untouched" (`normalize.c:437`).
- `DecodeStep`: after a space in the request line http_decode_buf() skips spaces only, so a
  line with one right before its line feed has that taken for the third word; the next line is lost, or,
  if that is the empty line, the request runs into the one that follows it in the buffer
  (`http_parse.c:124`). The same happens to a header line without a value. The proof of
  ParsersAgree found the former; `WellFormed` excepts both.
- `Lookup`: the header table of `http_req()` is sorted by alphabet and searched by length
  first, so Connection and Content-Length are never found (`http_req.c:16`).
- `PrintEtag`: the digits of `print_etag()` have two zeroes (`http_conn.c:433`), so that
  different digests can have the same tag, though `README.md:14` speaks of "reliable use of
  strong cache validators".
- `Dispatch`: the report that reports were dropped is taken for spurious
  (`nbio-inotify.c:91`), and changes that were dropped go unnoticed.
- `DoDump`: the histogram of `fsck` is one place short for a web root of `/` alone
  (`fsck.c:204`).
- `ScanLeaf`: `readlink()` puts no NUL behind the target in its buffer (`mkroot.c:1085`), so that
  the location of the redirect may go on into what was on the stack before; and an absolute
  target is appended to the directory of the link (`mkroot.c:1092`).

And in code that is not modelled: months are printed from a table that is indexed with
`tm_mon - 1` (`http_conn.c:458`); the host made up for a request without one is in a
buffer whose block has ended (`http_conn.c:713`).

## What is not modelled

- `io_async_sendfile.c` is not built; it needs a patched kernel.
- `httprape.c` and `nbio-connecter.c`, the load generator: a client for tests, built on the
  same event loop. `http_resp.c` is its parser.
- `os.c` but for `fd_write()` and the end of file of `fd_pread()`: flags of descriptors,
  messages.
- The printing of `fsck.c`. `sha1.c`, `list.h` and `rbtree.c` are vendored, the last
  without a caller; SHA1 is taken to have no collisions. `mkmarkov` makes test data.
- Dates, and the text of responses. The port, host name and version that `http_req()` stores
  are never read.
- What mkroot leaves in memory when it fails; the process ends.
- In `n_utf8()`: the read outside the table of masks for a continuation byte that starts a
  sequence is the constant `Stray`, one value for each byte (the theorems are for any). A sequence that
  starts with 254 or 255 has seven bytes, one more than `chr` has room for; the model takes that
  byte to be kept. No run has one, and that such a byte does not overwrite something else is
  not claimed.
- `cb_free()`, which is called only when start-up has failed and the process ends.

## Plan

Done: the event loop with connections, listeners and I/O models first, as everything else
serves them (`Nbio`, `HttpConn`, `HttpService`, then `HttpConnProofs`); the parser and what is
made of a request (`HttpParse`, `HttpReq`); the structures behind a lookup (`Vhosts`,
`CritBit`, `Trie`, `Normalize`); the allocator (`HGang`); the poll plugin (`NbioPoll`);
mkroot from the scan to the disk (`Mkroot`, `Fobuf`, `StrPool`).

Then the proofs: a connection by itself, what callbacks may do to shared state and the service
(`HttpConnProofs`), wake-ups and counts on top of that (`HttpConnShared`), the allocator, the vhost
table, the parser, and last the two structures behind a lookup: the crit-bit map, for which its
model was made one of blocks and pointers, and normalisation, for which each of its loops became an
instance of `Loops`.

Next:

1. `Trie` without RECURSIVE operators, its breadth-first layout as a loop over the queue of
   nodes, so that FindExact can be proved. StringsDisjoint would come with that.
2. That what `Fobuf` has in file and buffer together does not depend on the size of the buffer.
3. `NbioPoll`: what does hold of the array, next to the property that does not.
