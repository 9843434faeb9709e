# TLA+ models of boa's start-up, output buffer, byte ranges, URI, host and date functions

This directory holds TLA+ specifications of parts of boa (the single-process,
select-driven HTTP server in `src/src`). They check how each part behaves under
every interleaving that TLC can enumerate.

## The system and its parts

| Part | Source | What it does | State it changes |
|---|---|---|---|
| Output buffer | `buffer.c` | `req_write` appends raw bytes; `req_write_escape_http` and `req_write_escape_html` append %XX- or &entity;-escaped bytes; `req_flush` makes one non-blocking `write()`; `reset_output_buffer` empties it | `req->buffer`, `buffer_start`, `buffer_end`, `req->status` |
| Escape table | `escape.c` `build_needs_escape` | builds the bitmap of bytes that need %XX escaping, once at startup | `_needs_escape[]` (global, constant after startup) |
| Allocating escapes | `escape.c` `html_escape_string`, `http_escape_string` | return a freshly allocated escaped copy of a string | none (pure) |
| Range pool | `range.c` `range_pool_pop/push/empty`, `ranges_reset` | a free list of `struct range` nodes shared by all requests | `range_pool`, node `next` fields, `req->ranges` |
| Range parser | `range.c` `range_parse`, `range_add`, `range_abort` | a table-driven state machine (`stable[]`) over the `Range:` header value | `req->ranges`, `req->numranges`, node fields |
| Range resolver | `range.c` `ranges_fixup` | resolves suffix and open ranges against the file size, drops what cannot be served, clamps the rest | the request's list, in place |
| URI and path utilities | `util.c` | `unescape_uri`, `clean_pathname`, `simple_itoa`, `boa_atoi`, `check_host`, `month2int` | none (pure, in place on a string; `simple_itoa` returns a static buffer) |
| Time formatting | `util.c` | `get_commonlog_time` and `rfc822_time_buf` write time stamps backwards into fixed buffers; `modified_since` parses an `If-Modified-Since` date | static buffers |
| Temporary files | `util.c` `create_temporary_file` | `mkstemp` in tempdir, the name copied to the caller, the file unlinked on request | the process descriptor table, tempdir |
| Logging | `log.c` | opens log files, writes access and error lines | file descriptors |
| Bootstrap | `boa.c`, `defines.h`, `access.h` | process start-up, socket creation, privilege drop | process state |

How they interact. The request state machine (`request.c`, `read.c` and `response.c`)
is not part of `src/`. It drives everything else through the calls modelled here:

- The response generator writes headers and bodies through the `req_write*`
  family.
- The select loop calls `req_flush` while the socket is writable.
- A `Range:` header line is passed to `range_parse`.
- Once the file is opened and its size is known, the handler calls
  `ranges_fixup`.
- Freeing the request returns its ranges with `ranges_reset`.
- `req->status` is the gate between these calls. Its order is
  WRITE < DONE < DEAD. `req_write` and `req_flush` refuse once it is above
  DONE, and overflows and write errors set it to DEAD.
- The range pool is one global list that every connection pops from and
  pushes to.

## Modules

### `OutputBuffer` (buffer.c, escape.c's table)

State:

| Variable | Code it models |
|---|---|
| `buf` | `req->buffer[0 .. buffer_end)`; `buffer_end == Len(buf)` |
| `buffer_start` | `req->buffer_start` |
| `status` | `req->status` |
| `wire` | history: what the client has received |
| `accepted` | history: the encoded output of every write call that returned success |
| `calls` | a bound on the number of write calls |

Data is abstracted to the alphabet `a`, space, `<`, `&` and `"`. These five
characters exercise every branch of both escape loops:

- a byte `build_needs_escape` clears (`a`, `&`);
- bytes it leaves set (space, `<`, `"`);
- all three HTML entities of the alphabet, including the 6-byte `&quot;`.

Both escape routines share one copy loop, `EscapeCopy`. It is a RECURSIVE
operator whose guard band is a parameter: 3 for `%XX`, 6 for `&quot;`. It
returns what was emitted and what input was left. `WriteEscaped` is the common
tail of both routines. It sets `buffer_end = dest - buffer` *before* it checks
for unconsumed input, which is what the code does.

`FlushWrite` is the `write()` of `req_flush`. It has two outcomes:

- The write fails: the buffer is discarded and the request becomes DEAD.
- The kernel takes some k between 1 and the pending count. `buffer_start`
  advances, and a drained buffer is reset to (0, 0).

EAGAIN and EINTR change nothing and are stuttering steps. `Finish` and `Kill`
stand for the request machine outside `src/`: the response is complete, or the
connection is killed by a timeout or a read error.

### `Ranges` (range.c)

The heap is explicit:

- `next`, `rstart` and `rstop` are functions over a bounded set `Nodes` of
  addresses.
- `range_pool` and `ranges[c]` are head pointers.
- `allocated` is the set of addresses malloc has returned.

Each C function is an operator from a heap record `Mem` to a new one, so a whole
call is one step, as it is in the single-threaded server:

| Operator | C function |
|---|---|
| `RangePoolPop` | `range_pool_pop` |
| `RangePoolPush` | `range_pool_push` |
| `RangesReset` | `ranges_reset` |
| `RangeAbort` | `range_abort` |
| `RangeAdd` | `range_add` |
| `RangeParse` | `range_parse` |
| `RangesFixup` | `ranges_fixup` |

`RangeParse`:

- `STable` is `stable[]`, transcribed entry by entry.
- `CCode` is the character classification.
- `Accumulate` is `start * 10 + digit` in W-bit unsigned arithmetic.

`ParseLoop` applies `Submitted` when a range is submitted. In the `SR` flow
`start` is reset to 0 before the state moves on, as at `range.c:332`.

`FixupLoop` is the walk of `ranges_fixup`, translated branch by branch. It
keeps the `prev` pointer, both unlink paths and the clamp. All unsigned
arithmetic is taken modulo 2^W.

The driver actions `Parse(c, str)`, `Fixup(c, S)` and `Reset(c)` are the request
handler's calls. That handler is not in `src/`, so the order of the calls is
taken from spec section 4. The history variable `raw[c]` records the list as it
was before fixup, and `hdrs[c]` records the header values it parsed.

A reference section then defines what a header means in unbounded integers,
independently of the state machine:

- `RefParse` splits the value at commas. An element is `a-b`, `a-` or `-n`;
  empty elements are skipped, and anything else is an error.
- `RefResolve` applies spec section 4.3 to each range.

### `UriCodec` (escape.c, util.c)

Strings are sequences of byte values. There are two routes, chosen by `Init`.

**Directory listing.** A listed file name is handled by two actions, and the
client then follows the link:

| Action | What it does |
|---|---|
| `HttpEscape` | `http_escape_string` builds the link |
| `HtmlEscape` | `html_escape_string` builds the text |
| `Unescape` | `unescape_uri` decodes the link the client sends back |

**Client request.** An arbitrary request URI goes through `Unescape`
(`unescape_uri`) and then `Clean` (`clean_pathname`), in the request parser's
order.

The functions are recursive operators that follow the C loops:

- **`HttpEscapeLoop`** carries `found_a_colon`. Its output gets the `./` prefix
  at the first `:` that is not the first byte.
- **`UnescapeLoop`** consumes `%XX` with `HEX_TO_DECIMAL`. It then applies the
  control check to the value *as stored into a plain char*. The variable
  `signed` is the build's choice (signed on x86, unsigned on ARM), and both are
  explored.
- **`SkipDotSegments`** is the inner `while (1)` of `clean_pathname`.

The callers (the listing code and the request parser) are not under `src/`.
Their actions are marked spec-modelled in `PROJECT.json`.

### `Decimal` (util.c)

This module models `simple_itoa` and `boa_atoi`. The widths of int and long are
constants.

`atoi` on a number that does not fit is undefined behaviour. `Atoi` therefore
returns both outcomes C libraries produce:

- glibc's `(int) strtol`, which clamps at LONG_MAX and then truncates;
- plain wrap-around.

`AtoiResult` is the `retval < 0` test followed by the `memcmp` with the
re-converted text. That `memcmp` compares `strlen(s)` bytes, so it fails at a
shorter text's NUL.

### `ByteStream` (abstract; spec sections 3, 4.1 and 5)

`ByteStream` states what a connection's output promises: a FIFO byte stream.

- `Accept` appends bytes while the stream is not cut.
- `Deliver` hands a non-empty prefix of the queue to the peer.
- `Finish` closes the stream to new responses.
- `Cut` discards the queue.
- Weak fairness of `Deliver` says that a queue which is not cut drains.

`OutputBuffer` instantiates it as `Stream`:

- `sent` is `wire`;
- `queued` is `Pending`, or empty once the request is DEAD;
- the state is WRITE → open, DONE → finished, DEAD → cut.

`ImplementsByteStream == Stream!Spec` is checked as a PROPERTY. This checks the
safety part of the stream and also its fairness, which must follow from
`WF_vars(ReqFlush)`.

### `TimeFormat` (util.c `rfc822_time_buf`, `get_commonlog_time`)

Both functions fill a buffer from its end, through a pointer `p`. Each is
modelled as the list of its pointer statements, in the code's order:

- `Put(c)` is `*p-- = c`;
- `Back(n)` is `p -= n`;
- `Copy(s, adv)` is a `memcpy`.

An interpreter, `Exec`, folds the list with `FoldLeft` and records every cell it
writes. A layout that does not fit therefore shows up as a cell below 0.

- `YearPuts` is the `while (a)` loop that writes the year.
- `CommonLogProg` writes the zone offset digits the way the code computes them:
  `a % 10`, then `a / 10 % 6`, then the hours.
- `Init` follows the `use_localtime` branch: local time with any
  `TIMEZONE_OFFSET`, or GMT with offset 0.

### `IfModifiedSince` (util.c `modified_since`, `month2int`)

`sscanf` is modelled as a list of directives:

- `Ws` is whitespace;
- `Lit(c)` is a literal character;
- `Dec` is `%d`;
- `Str(w)` is `%Ns`.

The RECURSIVE `Scan` returns the values it assigned, and stops at the first
mismatch as `sscanf` does.

- `monthname` is one 11-byte buffer that is shared by the four attempts, and
  it starts uninitialised. `AfterScan` writes into it what each attempt stores.
  An uninitialised byte `"?"` reads as any value, so `Month2Int` returns a set.
- `ModifiedSince` runs the cascade in the code's order:
  1. RFC 1123;
  2. RFC 850, with `year += 1900`;
  3. asctime;
  4. the non-standard format.
- The first attempt that returns 6 decides. Then `month2int` is applied, and
  the fields are compared field by field, as the `CMP` chain does.
- The caller is not under `src/`. `Init` and `ModifiedSinceCall` are
  spec-modelled: a header value against a file's `struct tm`.

### `HostCheck` (util.c `check_host`)

`CheckHost` follows the function's early returns:

1. `NULL`;
2. a first byte that is not alphanumeric;
3. the length limit;
4. the loop `HostLoop`, which carries `period_ok`;
5. the last-byte check.

The 63-byte limit is the constant `MaxHostLen`.

### `Descriptors` (the C library's descriptor calls)

`Descriptors` holds the POSIX semantics that `Startup` and `TempFile`
share:
- the descriptor table, a function from 0..MaxFd to what each number refers
  to;
- `OpenAs`, which takes the lowest free number or fails with EMFILE;
- `Dup2` and `CloseFd`, which fail with EBADF on a number that is not open.

It models no code of boa and has no map entry.

### `Startup` (boa.c `main` up to `select_loop`, `fixup_server_root`, `create_server_socket`, `drop_privs`; log.c `open_logs`)

The state is the process's descriptor table (`fd`, a function from 0..MaxFd
to what each number refers to), the credentials (`uid`, `gid`, `groups`,
`server_uid`, `server_gid`), the globals `devnullfd`, `server_s` and
`cgi_log_fd`, the exit status, and `pc`, an index into `Calls`, the order in
which `main` makes its calls.

- `open`, `socket` and `open_gen_fd` take the lowest free number, as POSIX
  requires. `dup2` and `close` of a number that is not open fail with EBADF
  and change nothing.
- There is one action per function: `Prologue` (the `/dev/null` block of
  `main`), `GetOptions`, `FixupServerRoot`, `OpenLogs`, `CreateServerSocket`,
  `DropPrivs` and `Background` (the `fork`).
- `OpenLogs` is the whole of `open_logs`, built from three step operators:
  - `ErrorLog` opens the log, `dup2`s it onto 2 and closes the original;
  - `AccessLog` does the same onto 1 (or uses `/dev/null`);
  - `CgiLog` keeps its descriptor, or gives up the cgi log with a warning.
- The calls that open, create or bind something, and `setuid`, may fail.
  A run meets at most one such failure, the constant-valued variable `fault`.
  Some checked failures are not faults of their own:
  - `dup2` fails in the model only when its source is not open (EBADF, read
    from the table). Other `dup2` failures (`boa.c:68-78`, `log.c:69` and
    `log.c:84`) are left out.
  - `initgroups` and `setgid` failures (`boa.c:194`, `boa.c:198`) are also
    left out. They end in the same `exit(errno)` on the same path as the
    modelled `setuid` fault, so they add no outcome.
- Two faults have status 0:
  - `fork` returning −1;
  - `getpwuid` returning NULL with errno left at 0.
- The configuration (options, which logs are set, a port below 1024) is part
  of the initial state. `read_config_files` is not under `src/`.

### `HttpDate` (composition of `TimeFormat` and `IfModifiedSince`)

The two ends of an HTTP date, as named instances:

- `rfc822_time_buf` writes the Last-Modified of a response.
- `modified_since` reads the If-Modified-Since of a later request.

A run follows one route, fixed at `Init`. Each action leaves the other
component's variables unchanged, and a route pins the variables it does not
use.

- `format` checks the two time stamps.
- `parse` checks `modified_since` on header values in all four layouts a
  client may write.
- `revalidate` covers a cache that echoes boa's own Last-Modified back:
  1. `FormatDate` formats the file's time at the response;
  2. `Echo` sends that text back as the header;
  3. `CheckModified` compares it with the file's time at the request, which
     may have changed.

`DateHeaders` holds the client-side reference formatter `HeaderText`. It
writes a date in each of the four layouts `modified_since` accepts. It is a
reference definition, not code of boa, and it has no map entry.

### `RequestText` (composition of `UriCodec`, `HostCheck` and `Decimal`)

This module puts the URI functions, `check_host` and `boa_atoi` under one
specification, with the routes `uri`, `host` and `decimal`. They read the
text a request carries before the server acts on it. The three components
share no state, so the composition only puts their checks in one run.
`Decimal`'s constants and `ret` are renamed in its `INSTANCE ... WITH`,
because they clash with `HostCheck`'s.

### `TempFile` (util.c `create_temporary_file`)

`CreateTemporaryFile` is the whole function, with the caller's arguments
chosen by `\E`: `want_unlink`, and storage that fits the name or is too
short. Each call names the next entry of `TmpName`.
- `mkstemp` takes the lowest free descriptor. It fails under the fault
  `mkstemp`, or with EMFILE when the table is full. On failure the call
  returns 0.
- `CopyName` covers lines 458-470. When the name does not fit, it does
  `close(fd); fd = 0; want_unlink = 1`.
- `UnlinkTemp` covers lines 472-479. When `unlink` fails under the fault
  `unlink`, it does `close(fd); fd = 0`, whatever `fd` holds by then.
- `disk` is the set of temporary files left in tempdir. `ret` is the value
  returned.

### `Server` (composition of `Startup` and `TempFile`)

`Startup` and `TempFile` are instances that share `fd` and `fault`.
- `StartupStep` is a step of `main`.
- `TempFileStep` is a call of `create_temporary_file`. It is enabled only
  in `select_loop`, so temporary files are opened in exactly the table that
  start-up left.

This composition is what makes the `temp_file` finding visible. The
`/dev/null` that `main` puts on descriptor 0 is what the failing call
closes.

## Runs

| Run | Cfg | Expect | What it shows |
|---|---|---|---|
| `output_buffer` | `MC_OutputBuffer.cfg` | pass | `TypeOK`, `NoBufferOverrun`, `WireFaithful`, `DrainEventually` and `ImplementsByteStream` hold. Raw and escaped writes, partial and failing flushes, and Finish and Kill are interleaved in every order, and the buffer implements the abstract byte stream. |
| `reset_output_buffer` | `MC_OutputBuffer_reset.cfg` | violation | `NoBufferOverrun` fails. A partial flush followed by `reset_output_buffer` leaves `buffer_start > buffer_end`. |
| `ranges` | `MC_Ranges.cfg` | pass | `TypeOK`, `NodeOwnership`, `FixupMatchesReference` and `RangeHeaderMeaning` hold. Two requests share one pool while they parse (more than once), fix up on files of 2 and 3 bytes, and reset. |
| `ranges_spec` | `MC_Ranges_spec.cfg` | violation | `RangeHeaderMeaning` fails. Each of `bytes=3-` (S = 3), `bytes=16-`, `bytes=-,0-1` and `bytes=0-` (S = 0) is enough on its own (findings 2, 6, 7 and 8). |
| `request_text` | `MC_RequestText.cfg` | pass | `TypeOK`, `ListingLinkResolves`, `HtmlEscapeFaithful`, `CleanNoDotSegments`, `AcceptedHostIsPathSafe` and `AtoiMatchesReference` hold. This covers every name of up to 3 bytes and every request URI of up to 4 bytes, under both char signednesses; every host of up to 6 bytes over `a`, `1`, `-`, `.` and `/`; and every `boa_atoi` argument of up to 4 bytes. |
| `unescape_legal` | `MC_UriCodec_legal.cfg` | violation | `UnescapeAcceptsOnlyLegal` fails. `%#%` is accepted and decodes to `%`. |
| `http_date` | `MC_HttpDate.cfg` | pass | `TypeOK`, `Rfc822Layout`, `CommonLogLayout` and `ModifiedSinceCorrect` hold. This covers every month and weekday, years 1970 to 9999 and five zone offsets; every client date layout against 40 file times; and boa's own Last-Modified echoed back against the file unchanged, older or newer. |
| `if_modified_since_y2k` | `MC_IfModifiedSince_y2k.cfg` | violation | `ModifiedSinceCorrect` fails. An RFC 850 date in 2005 is read as 1905. |
| `host_check_grammar` | `MC_HostCheck_grammar.cfg` | violation | `AcceptsExactlyRFCNames` fails both ways. `1-.a` is accepted and `1.1` is refused. |
| `server` | `MC_Server.cfg` | pass | `TypeOK`, `StartupOutcome`, `DropsPrivileges`, `StartsUnlessFault` and `TempFileContract` hold. Started with 0, 1 and 2 open, as root or not, with or without `-r`/`-d`, any set of logs and a low or high port, and under each single modelled fault, start-up reaches `select_loop` with the documented descriptors and without root, or it exits non-zero. Two `create_temporary_file` calls then keep their contract: with `mkstemp` failing, names that do not fit, and a full table. |
| `startup_env` | `MC_Server_env.cfg` | violation | `StartupOutcome` fails (findings 9 to 12). Started with standard descriptors closed, the socket ends up on stderr. A failed `fork`, or `getpwuid` leaving errno at 0, exits 0 with no server. |
| `temp_file` | `MC_Server_temp.cfg` | violation | `TempFileContract` fails (findings 13 and 14). With `unlink` failing, a name that does not fit closes descriptor 0. A later call is then given descriptor 0 and reports success as failure. |

The properties:

- **`NoBufferOverrun`.** 0 ≤ `buffer_start` ≤ `buffer_end` ≤ C (spec section
  3). It fails if a guard band is shorter than the longest escaped unit.
- **`WireFaithful`.** The bytes the client received are a prefix of the accepted
  output. While the connection is alive, received bytes followed by pending
  bytes are exactly the accepted output, so nothing is lost, duplicated or
  reordered.
  - It holds even though the escape routines write after DEAD and commit partial
    output, because `req_flush` refuses once `status > DONE`.
  - Without that check, the bytes of a failed write reach the client.
- **`DrainEventually`.** A DONE response is eventually drained or the connection
  dies.
- **`NodeOwnership`.** The free list and every request's list are acyclic and
  pairwise disjoint, and together they hold exactly the nodes malloc returned.
  Unlinking in fixup, aborting, and appending a second header line all preserve
  it.
- **`FixupMatchesReference`.** After fixup, the request's list is exactly
  `Resolve(raw, S)`, and fixup returns 1 exactly when that list is non-empty.
  `Resolve` is a sequence-level definition (SelectSeq and a map) of what each
  node should become. It uses the same end-of-file test as the code, so this
  property checks the pointer surgery, not the policy.
- **`ListingLinkResolves`.** A listing link that is sent back and decoded is
  accepted exactly when the name is printable. It then has no query string and
  resolves, relative to the directory, to the name.
  - It relates `http_escape_string` to `unescape_uri`: their escape sets, their
    hex, the `?` and `#` delimiters, and the control check under both
    signednesses.
- **`HtmlEscapeFaithful`.** Listing text has no `"`, `<` or `>`, and decoding
  its entities gives back the name.
- **`CleanNoDotSegments`.** The comment of `clean_pathname` holds: no `//`,
  `/./` or `/../` is left.
- **`UnescapeAcceptsOnlyLegal`.** An action property from the comment of
  `unescape_uri` ("0: illegal string"): a URI is accepted only if every `%` is
  followed by two hex digits of a printable byte.
- **`AtoiMatchesReference`.** `boa_atoi(s)` is the value of `s` when `s` is the
  canonical decimal text of some n in 0..INT_MAX. Otherwise it is −1.

- **`ImplementsByteStream`.** Every step of the output buffer is a step of the
  abstract byte stream or a stuttering step under the mapping. In particular,
  Finish, Kill and the flush paths may not deliver, lose or reorder bytes except
  as the abstract `Cut` allows.
- **`RangeHeaderMeaning`.**
  - A parse fails exactly when the reference grammar rejects the header.
  - After fixup, the list is the reference resolution of the header against S,
    in order.
  - The request is served exactly when that resolution is non-empty.
  It relates the whole pipeline (the table, the digit accumulation, the
  submissions, the abort and the fixup) to what the header says.
- **`Rfc822Layout` and `CommonLogLayout`.** The buffer written is exactly
  `buf[0..28]` (or `buf[0..29]`), with no byte before it. Its text is the date
  built front to back from the fields. `get_commonlog_time` returns `buf`
  itself.
- **`ModifiedSinceCorrect`.** The answer is 1 exactly when the file's time is
  later than the header's date, in every layout. It is −1 for a value with no
  date in it. On the `revalidate` route, the header is the Last-Modified that
  boa wrote: an unchanged file answers 0 and a newer one answers 1.
- **`AcceptedHostIsPathSafe`.** An accepted host splits into non-empty labels of
  letters, digits and hyphens, so it is never `.`, `..` or a path. The length
  returned is its length.
- **`StartupOutcome`.** Start-up either exits with a non-zero status, or it
  reaches `select_loop` with the descriptor layout that the comments of `main`
  and `open_logs` describe:
  - 0 is on `/dev/null`;
  - 1 is on the access log, or on `/dev/null`;
  - 2 is on the error log, or left alone;
  - the socket and the cgi log are above 2;
  - nothing else is open above 2.
- **`DropsPrivileges`.** In `select_loop` the uid is not 0 and equals the
  configured one, even on a kernel whose `setuid` reports success without
  acting.
- **`StartsUnlessFault`.** A liveness property. With no failing call, a
  configuration that can start (a chroot or a low port only as root; as
  root, a User other than root) reaches `select_loop`. It fails if `main`
  drops privileges before binding the socket.
- **`TempFileContract`.** An action property about each call of
  `create_temporary_file`. Callers take a return of 0 as failure.
  - On 0, the descriptor table is exactly as before: nothing leaked, and
    nothing of the process closed.
  - Otherwise, the result was a free descriptor and now refers to the new
    file, and nothing else changed.
  - The file stays in tempdir exactly when the caller did not ask for it to
    be unlinked.
- **`AcceptsExactlyRFCNames`.** The grammar quoted above `check_host`, in both
  directions: a name within the length limit is accepted exactly when it is
  made of RFC 1034 labels, with RFC 1123's relaxation that a label may begin
  with a digit.

Every property of a passing run has a mutant in `PROJECT.json`. A mutant is a
plausible bug in the mapped code that TLC must catch:

| Mutant | Caught by |
|---|---|
| lower-case hex digits | `TypeOK` |
| a guard band of 2 | `NoBufferOverrun` |
| the status check of `req_flush` dropped | `WireFaithful` |
| `status < DONE` in `req_flush` | `DrainEventually` |
| digit accumulation without wrap | `TypeOK` |
| a dropped node that is not unlinked | `NodeOwnership` |
| clamping at S instead of S−1 | `FixupMatchesReference` |
| the `< 32` half of the control check dropped | `TypeOK` (a NUL is stored) |
| `?` left unescaped | `ListingLinkResolves` |
| the `&quot;` case missing | `HtmlEscapeFaithful` |
| the `../` skip missing | `CleanNoDotSegments` |
| atoi's result not truncated to an int | `TypeOK` |
| the re-conversion check dropped | `AtoiMatchesReference` |
| a short write advancing `buffer_start` one byte too little | `ImplementsByteStream` |
| `start` not reset after a submitted range | `RangeHeaderMeaning` |
| the month gap of `rfc822_time_buf` one byte short | `Rfc822Layout` |
| the offset's tens of minutes taken modulo 10 | `CommonLogLayout` |
| `month2int` answering 1 for January | `ModifiedSinceCorrect` |
| the comparison returning the component instead of its sign | `TypeOK` (HttpDate) |
| `period_ok` not cleared after a `.` | `AcceptedHostIsPathSafe` |
| the 63-byte limit left out | `TypeOK` (RequestText) |
| `drop_privs` called before `create_server_socket` | `StartsUnlessFault` |
| the error log's own descriptor not closed after the `dup2` | `StartupOutcome` |
| a failed cgi-log open leaving `cgi_log_fd` at −1 | `TypeOK` (Server) |
| the `setuid(0)` re-check dropped | `DropsPrivileges` |
| a name that does not fit setting `fd = 0` without closing `fd` | `TempFileContract` |

## Findings

Each violation run is one finding, or several that break the same property.

1. **`reset_output_buffer` leaves `buffer_start`.** `buffer.c:64` clears only
   `buffer_end`, so after a partial flush `buffer_start > buffer_end`. Then
   `buffer_end - buffer_start` in `req_flush` is computed unsigned.
2. **Off-by-one at end of file.** `range.c:171` drops `start > filesize`, not
   `start > filesize - 1`. So `bytes=S-` and `bytes=-0` survive as (S, S−1)
   and make the request look satisfiable.
3. **Malformed escapes accepted.** `HEX_TO_DECIMAL` (`util.c:28`) never checks
   for hex digits. `unescape_uri` therefore accepts `%1U` (it decodes to `.`)
   and `%#%` (it decodes to `%`), although its comment says it rejects illegal
   strings. TLC's trace may show another such input, for example `%##`
   decoding to `#`: any non-hex pair that decodes into 32..126 shows the bug.
4. **RFC 850 years.** `modified_since` adds 1900 to the two-digit year
   (`util.c:221`), so `Sunday, 01-Jan-05` means 1905. A file of 1999 is then
   reported as modified. This costs a 304, not correctness of content.
   TLC's trace may use another two-digit year (for example `06-Sep-05`); every
   RFC 850 date after 1999 is read a century early.
5. **Host names.** Two bugs in `check_host`:
   - **Hyphens at label edges.** It accepts `1-.a` (`util.c:571`), although the
     grammar quoted above it (RFC 1034, even as RFC 1123 relaxed it)
     requires a label to end with a letter or digit.
   - **One-byte first label.** `period_ok` starts at 0 (`util.c:552`), so `1.1`
     and `t.co` are refused.
6. **Range numbers wrap.** `range.c:320` accumulates digits without an
   overflow check. `bytes=16-` (with W = 4) becomes `bytes=0-`, and the whole
   file is served.
7. **Lone hyphen.** `bytes=-,0-1` is accepted (`range.c:272`). The `-` element
   is submitted with both ends unset and dropped by fixup, instead of aborting
   as spec section 4.2 requires.
8. **Empty file.** With S = 0, `filesize - 1` wraps (`range.c:186`), and
   `bytes=0-` is kept as 0..ULONG_MAX. The spec assumes S ≥ 1.
9. **stderr closed by its own redirection.** When boa is started with 0
   and 2 closed, `/dev/null` takes 0 and the error log opens at 2.
   - `dup2(2, 2)` then does nothing, and `close(error_log)` closes stderr
     itself (`log.c:73`).
   - The server socket then takes 2, so error messages are written to the
     listening socket.
10. **stderr never checked.** `main` puts `/dev/null` on 0 and 1 only
    (`boa.c:60`). Started with 0 and 2 closed and no error log, the socket
    becomes descriptor 2, with the same effect as finding 9.
11. **Failed fork reports success.** `if (fork()) exit(0)` (`boa.c:125`)
    treats −1 as the parent, so boa exits 0 and no server runs.
12. **Unknown User may exit 0.** `getpwuid` need not set errno, and
    `drop_privs` exits with `errno` (`boa.c:192`), which may be 0.
13. **`close(0)` in `create_temporary_file`.** When the name does not fit in
    the caller's storage, the function closes its descriptor and sets
    `fd = 0`. If the `unlink` then fails, `close(fd)` closes descriptor 0
    (`util.c:474`), the `/dev/null` that `main` put on stdin. The caller is
    told 0, "failed, nothing changed".
14. **Success reported as failure.** With 0 free, the next `mkstemp`
    returns 0 (`util.c:451`). The file is created and open, but the
    function returns its failure value. So the descriptor is never closed,
    and a file the caller wanted kept is never used or removed.

Three more departures from the spec are recorded as hazards in `PROJECT.json`.
No run checks them, because each is harmless or out of practical reach:

- The escape routines commit the units they emitted before they detect
  overflow (`buffer.c:97`, `buffer.c:175`), although spec section 7 says an
  overflow commits nothing. `WireFaithful` shows that those bytes never reach
  the client.
- `http_escape_string` prefixes `./` at the first colon (`escape.c:168`), so
  spec section 8's literal round trip fails for `a:`. `ListingLinkResolves`
  shows that the link still resolves to the same file.
- A year of five digits makes both time stamps write `buf[-1]` (`util.c:385`,
  `util.c:134`). The `http_date` run stops at 9999.

## Bounds and why they are enough

**OutputBuffer.**
- C = 6, so one `%XX` or `&quot;` fits next to a few raw bytes, and a second
  unit overflows.
- The messages are `a`, ` a`, `"` and `<&`. Together they reach:
  - an escape that stops mid-message (the partial commit);
  - a raw write that overflows;
  - an html unit exactly at the guard band.
- Three write calls allow write, partial flush, write, then drain.
- 17,841 distinct states.

**Ranges.**
- Two connections and four node addresses. Two ranges of each of two requests
  can be live at once, and the pool both grows and is reused.
- W = 4, so ULONG_MAX = 15 and `20-` wraps to 4. S is 2 or 3.
- The seven header values of the passing run cover these cases:
  - a stop past the end;
  - an open range and a suffix in one value;
  - an inverted pair after a good one, which makes fixup unlink a node in the
    middle of a list;
  - a suffix longer than the file;
  - empty elements;
  - a syntax error after a submitted range (abort);
  - a number that overflows W bits but still lands past the end.
- The four values of `ranges_spec` use one connection, since the property is
  about one request at a time. Each alone violates the property, which was
  checked one value at a time.
- SYMMETRY over nodes and connections is sound: addresses and connections are
  interchangeable model values, and no property names one of them.
- A VIEW ignores the stale contents of free nodes. The code overwrites them on
  the next pop, so no behaviour can observe them.
- 220,665 distinct states, in under a minute.

**UriCodec.**
- Names use the bytes `a`, space, `"`, `&`, `<`, `#`, `%`, `:`, `?`, 0x01 and
  0xC8, up to 3 bytes long. Together they reach:
  - every HTML entity but `&gt;`;
  - the colon with and without a preceding byte;
  - both delimiters;
  - a control byte and a high byte.
- URIs use `/`, `.`, `a`, `%`, `0`, `2`, `E`, `U`, `#` and `?`, up to 4 bytes
  long. Together they reach:
  - `/../`;
  - a legal `%2E`;
  - the NUL escape `%00`;
  - non-hex escapes;
  - a truncated escape;
  - a query string after a fragment.
- 66,888 distinct states.

**Decimal.**
- int is 8 bits and long is 12 bits. Four digits from 0, 1, 2, 7 and 8 reach
  INT_MAX (127) and 128. They also reach a value that wraps to 0 (1280) and one
  above LONG_MAX (8888).
- Space and `a` give non-digit starts and trailing garbage.
- These bounds are now checked on the `decimal` route of `request_text`.

**TimeFormat.**
- All 12 months and all 7 weekdays.
- Days 1, 10 and 31, and clock times 00:00:00, 09:05:38 and 23:59:60.
- Years 1970, 1999, 2000 and 9999, the widest that fits.
- Offsets 0, +5:30, −5:00, +14:00 and −3:30, covering both signs, half hours
  and two-digit hours.

**IfModifiedSince.**
- Header dates on days 6 and 16 in 1994 and 1999, in all four layouts, in the
  months 2, 5, 6 and 8. Month names differ in length and share letters.
- File times around those dates, differing in each field.
- Two garbage values, one of which gets past the first word.

**HostCheck.**
- MaxHostLen scales 63 down to 5, and names are enumerated up to 6 bytes, so
  names on both sides of the limit occur.
- One letter, one digit, `-`, `.` and `/` reach every branch of the loop.

**HttpDate (revalidate route).**
- Served times fall in 1999 and 2000, in months 0, 2, 4, 5 and 6, on days 1
  and 30, at 00:00:00 and 23:59:59. The weekday is computed from the date.
- The file's time at the request is any of those times. So it is the same,
  older or newer than at the response. The pairs differ first in the year,
  the month, the day or the clock.
- 91,936 distinct states for the three routes.

**RequestText.** The UriCodec, HostCheck and Decimal bounds above. 111,554
distinct states.

**Server (Startup and TempFile).**
- MaxFd = 6. Seven descriptors hold 0 to 2, `/dev/null`, the error log when
  it lands above 2, the cgi log and the socket, so the table never fills
  by accident.
- `server` and `temp_file` start with 0, 1 and 2 open. `startup_env` starts with every
  subset of them open.
- Start uids are 0 and 1000, and the User is 33 or root. This reaches a
  root drop, a non-root start, and the refused root-to-root case.
- Each run meets one of the 13 (or 15) failures, or none. Combinations
  of two are not explored (see the plan).
- Two temporary-file calls. With every log configured, start-up leaves
  only descriptor 6 free, so the second call meets EMFILE. With a name
  that does not fit, it meets a reused number.
- In `server`, `mkstemp` may fail (fault `mkstemp`). In `temp_file`,
  `unlink` may fail. Either may fail on each call, or not.
- 20,064 distinct states for `server`.

The RequestText, HttpDate and IfModifiedSince runs turn off deadlock
checking. Each behaviour is one finite computation on one input, and it
ends. So do the Server runs: the process either exits, or enters
`select_loop` and makes its bounded temporary-file calls. The rest of
the loop is not modelled.

## Fairness

`WF_vars(ReqFlush)` is the only fairness assumption.

- The select loop adds every connection with pending output to the write set
  and calls `req_flush` whenever it is writable.
- A socket that never becomes writable again is reaped by the keepalive or
  request timeout. That case is `Kill`, which needs no fairness because
  `DrainEventually` allows it.
- Callers of `req_write` have no fairness: a response may stop at any point.

`ByteStream`'s `WF_vars(Deliver)` is not assumed. It is checked, as part of
`ImplementsByteStream`, to follow from `WF_vars(ReqFlush)`.

`Startup`'s specification has `WF_vars(Next)`. Start-up is one process
that runs its calls in order with no waiting, except on the kernel, until
it exits or enters the loop. `StartsUnlessFault` relies on it.

`Server` keeps that fairness for start-up only, as `WF_vars(StartupStep)`.
Temporary files are made when requests ask for them, which may be never,
so `TempFileStep` has no fairness.

The Ranges runs check only safety.

## Not modelled, and why

- **Not covered by a property:**
  - `numranges` (`range.c:116`), which is never decremented. It is read only
    outside `src/`.
  - The abort marker (`range.c:91`), which equals the node `bytes=0-` produces.
  - `month2int` on names shorter than three letters (`util.c:171`).
  - The 63-byte limit applied to the whole host name rather than per label.
  All of these are listed as hazards in `PROJECT.json` with a note.
- **Left out:**
  - `range_pool_empty`, a shutdown-only free of the pool;
  - malloc failure. It calls `DIE`, which ends the process, and the model
    simply bounds the addresses.
- **Left out of `Startup`:**
  - `log_access` and the `log_error_*` functions. They only format a line
    onto stdout or stderr, and where that line goes is what `Startup`
    checks. Their time stamp is `get_commonlog_time` (`HttpDate`).
  - `umask`, `time`, `getrlimit` and the status counters, which change
    nothing a property reads.
  - `read_config_files`, `init_signals` and `create_common_env`, which are
    not under `src/`. The configuration they read is part of the initial
    state.
  - `defines.h` holds constants, and `access.h` only declares an interface.
    The `set_nonblock_fd` macro that `create_server_socket` uses is a plain
    `fcntl`. Its failure is the fault `socket_setup`.
- **Left out of `util.c`:**
  - `real_set_block_fd` and `real_set_nonblock_fd`. They are compiled
    only with `BOA_USE_GETFL`, and they only change a file's flags.
  - `to_upper` and `strlower`, byte maps with no state. Their callers are
    outside `src/`, and no property reads them.
  - `parse_debug` and `print_debug_usage`. The debug levels they use are
    defined outside `src/`.
  - The log lines that `create_temporary_file` writes on failure.

## Plan for the next sittings

1. **`Connection`.** Compose `OutputBuffer` and `Ranges` under one request
   status, serving each range through the buffer.
2. **Start-up with two faults.** Two faults per run, for example a cgi log
   failing after the error log landed on 2.
3. **Temporary files and `select_loop`.** Callers that close the
   descriptors they hold, so that numbers are reused across requests.
