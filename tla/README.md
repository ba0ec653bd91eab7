# fast-mcp-jobvite: TLA+ models, checks and proofs

fast-mcp-jobvite is an MCP server in front of the Jobvite applicant-tracking
API. It offers read tools (jobs, candidates, the job feed) and one write tool,
`create_candidate`, which creates a real person's record and may mail them.
These modules model the code that decides who may call, when Jobvite is called
and how often, with whose approval, what its answers mean, what the caller is
told, and what survives when the process stops. Paths below are relative to
the repository; the package is `src/fast_mcp_jobvite/`.

## 1. The system

| Part | Code | State it keeps | Operations |
|---|---|---|---|
| Outbound request path | `services/jobvite_client.py` (`request`, `_through_breaker`, `_attempt_with_retry`, `_attempt`, `outbound_budget_scope`) | one circuit breaker per process and the state its log last announced; per task: the deadline in a ContextVar, the retry state | request, retry, sleep, time out, cancel |
| Paging | `services/jobvite_client.py` (`scan`, `_scan_pages`) | start offset, seen ids, kept records, last total | next page, stop, truncate, verdict |
| Write tool | `tools/candidates.py` (`create_candidate`) | one audit event per call | approve, record, POST, record, answer |
| Approval | `approval.py` | none: two legs of one MCP call | first leg, second leg, elicitation, refusal |
| Audit emission | `audit.py` | the event, the sink | `emit` in three phases |
| Read tools | `tools/jobs.py`, `tools/candidates.py` | one audit event per call | GET, record, answer |
| Response rule | `services/jobvite_client.py` (`evaluate_response`) | none | body and HTTP status to verdict |
| Problem objects | `errors.py` | none | exception to problem |
| Request-id correlation | `utils/correlation.py`, `http_hardening.py` | a ContextVar | set, reset, read |
| Body size limit | `http_hardening.py` | bytes seen, response started | receive, send, refuse |
| Process lifecycle | `__main__.py`, `server.py` | main's position and status, the output streams, the lifespan | start, serve, be signalled, crash, flush, exit |
| Configuration and tool gates | `config.py`, `server.py`, each tool's `register` | settings, registered tools | validate, register |
| HTTP auth, scopes, rate limit | `http_hardening.py`, `server.py` | tokens, a bucket per client | verify, charge, list, call |
| Fencing and redaction | `utils/redaction.py`, `models/fencing.py` | none | walk a payload, walk arguments |
| Record models | `models/`, `utils/normalise.py`, `utils/constraints.py` | none | shape and convert |
| Repository tooling | `scripts/`, `docs/reviews/*.py`, CI | none | checkers and probes; not part of the server |

**How they interact.** The framework runs each tool call as an asyncio task. A
tool opens an audit scope, the write tool asks the host for approval (by
returning a first leg, or by awaiting `ctx.elicit`), and both kinds open a
client and await `request`. `scan` is a client operation that no tool calls today
(`tools/jobs.py` says why; the tests and `scripts/probe-scan-bounds.py` call it):
it opens one budget scope and awaits `request` once per page, so its pages share
a deadline. All tasks share the breaker, the logger and the audit sink and
nothing else. On HTTP a request passes the body limit, then the framework, then
`RequestIdMiddleware` and the rate limiter, then the tool's own audit scope.
All of it runs in one thread that `main` started, with one log sink on stderr
for the audit records and everything else.

**What is hard.** Tasks interleave at every await, so calls admitted before the
breaker tripped answer after it. Timers fire late when the event loop is busy.
Callers cancel. A POST whose answer is lost may still have created its row.
The audit sink can fail on either side of a write. SIGTERM raises
KeyboardInterrupt wherever the thread happens to be, also in the code that is
already ending the process. Which tools exist and who reaches them is decided in
four files that trust each other. Hosts differ in how they
approve and whether they can be asked. Jobvite's base offset, its totals and
its `Retry-After` are not under our control, and its data changes under a scan.
`PROJECT.json` lists each hazard at its line with the properties that watch it.

**What makes each part correct.**

- Request path: a POST is sent at most once, and a GET no more often than the
  cap; nothing is sent after the deadline; `Retry-After` is honoured in full or
  not at all; only evidence of an outage opens the breaker and only a success
  closes it; every request ends once Jobvite falls silent; the breaker always lets
  callers in again.
- Paging: work is bounded whatever the server does; no record is lost without
  the result saying so; no identified record comes twice; no gap under either
  base; a bounded call returns at most what was asked for.
- Writes: no row without an approval and its record; what the caller is told of
  a row is true and stays true; a success is never reported as a failure; the
  two audit records agree.
- Process: no row without a record that has left the process; an exit status the
  run earned; teardown before a forced exit; a stop that was asked for happens.
- Admission: a deployment that is unsafe does not start, and any other does; a
  caller reaches and sees exactly what it was granted; nobody is throttled for
  another's requests.
- Responses: no failure is taken for a success, each failure has one meaning in
  whatever encoding it came, and a retry hint is Jobvite's own.
- Payloads: what a candidate typed is fenced and cannot close its fence, nothing
  else is changed, and an audit record shows no value it was not allowed to.
- HTTP boundary: no body over the limit reaches the application, and no other is
  refused; a request has one response; its log lines and its answer carry one
  id, the caller's if it sent a valid one, and nobody else's.

## 2. The modules

| Module | What it is |
|---|---|
| `CallContract` | abstract specification: what `request` promises its callers |
| `Resilience` | the request path: breaker around retry around timed attempts under a budget |
| `MCResilience` | instances of it for TLC |
| `ResilienceProofs` | its theorems, among them that it implements `CallContract` |
| `ToolCalls` | the tool calls with approval and audit, over `CallContract` |
| `MCToolCalls` | instances of it for TLC |
| `ToolCallsProofs` | its theorems |
| `Scan` | the paging loop over an unknown server |
| `MCScan` | instances of it for TLC |
| `ScanProofs` | its theorems |
| `HttpBoundary` | the request-body limit and the request id of the HTTP transport |
| `MCHttpBoundary` | an instance of it for TLC |
| `HttpBoundaryProofs` | its theorems |
| `Process` | `main`: from the settings to the exit status, under signals, crashes and failing streams |
| `MCProcess` | instances of it for TLC |
| `ProcessProofs` | its theorems |
| `Admission` | settings, tool gates, tokens, scopes and the rate limit, up to the answer of one request |
| `MCAdmission` | deployments for TLC |
| `AdmissionProofs` | its theorems |
| `Verdicts` | from Jobvite's response to the tool's answer |
| `Payloads` | the walks over JSON values: fencing a record, redacting arguments |
| `MCDecisions` | responses, records and arguments for TLC |
| `DecisionsProofs` | the theorems of `Verdicts` and `Payloads` |
| `Induction` | the principle of the least counterexample, for the proofs |

`ToolCalls` EXTENDS `CallContract` and takes its actions as the client, so it
relies on exactly what `Resilience` is proved to keep and on no detail of it.
`Scan` sees a request as one step that answers or raises; `Verdicts` sees one
response and what may be made of it, and leaves to `Resilience` when a request is
repeated or abandoned. `Process` keeps of a write call only its two records, its
POST and its row, which `ToolCalls` has in full.

### Resilience

asyncio runs a task without interruption between two awaits, so one action is
everything the code does between two awaits.

| State | Code |
|---|---|
| `pc[i]` | where invocation *i*'s coroutine is suspended: `sending` is the await of the HTTP exchange, `backoff` tenacity's sleep, `scoped` between two requests inside a scope the caller opened |
| `scope[i]` | `outbound_deadline_var`: who opened it, and `outbound_budget_remaining()`; `age` is history |
| `req[i]` | method, tenacity's attempt number, outcome and `retry_after` |
| `await[i]` | the timer the coroutine waits on, of one socket operation or of a sleep; `bound` is the budget left when the attempt began, `ops` and `owed` are history |
| `brk` | `_JOBVITE_BREAKER`: stored state, failure count, remaining window |
| `reported` | `_breaker_reported_state` |

| Action | Code |
|---|---|
| `OpenScope`, `CloseScope` | a caller's `with outbound_budget_scope` |
| `Request` | `request` through `_through_breaker`: to the refusal (`Refused`) or to the first await (`Admitted`) |
| `NextPhase` | the exchange enters its next phase (pool, connect, write, read) |
| `NextOperation` | the phase goes on with another socket operation: a further chunk written or read |
| `HttpReply`, `TransportFailure`, `PhaseExpires` | the attempt ends; `Conclude` then decides, as the retry loop does, between a sleep and an answer, and an answer includes the breaker's step, the transition's log line and the end of the scope |
| `Wake` | the sleep is over; the deadline is checked again |
| `Cancel` | CancelledError at the await |
| `Tick` | time passes on every running timer |

Time is kept as ticks left on timers, never as a clock, so the state space is
finite without a bound on behaviours. `half_open` is derived from the expired
window when it is read, as in the library. The code reads the clock once to admit or
refuse and again for what it says about it, so a refusal takes its hint from this
tick or the next (`BreakerRetryAfter` leaves it out when the window has ended by
then), and an admission may come with an announcement that is one reading old. httpx
applies a timeout to one socket operation and not to the phase: each operation
starts a timer of its own (`Operation`), of the length `_attempt_timeout` computed
when the attempt began. The failure count saturates at the
threshold because the code only ever asks whether it has been reached. The
breaker library, tenacity and httpx are modelled from how the code uses them
and marked external in the map.

### ToolCalls

`pc[c]` is the await a call is at: `eliciting`, `requesting`, or `closing` (the
client's `__aexit__`). `host[c]` is the protocol era and the response the host
gave, `trail[c]` the record in each audit phase, `reply[c]` what the caller
received, and `landed[c]` whether Jobvite has a row for this call's POST.
`Land` is Jobvite's own step: at any time after the POST was sent, before or
after the answer, and not when it answered 409. A sink's failure is a choice
`written \in BOOLEAN` at every emission. The MRTR first leg is a complete call;
its second leg is another call that arrives with the response. A caller that
leaves ends the call at its await, with nothing more recorded, because
`except Exception` does not catch CancelledError. The read tools share one
skeleton. A failing `aclose` of the HTTP client is not modelled.

### Scan

The catalog, the server's base (0-based, 1-based with 0 clamped, or ignoring
`start`), and the total it reports (true, absent, wrong) are chosen in the
initial state; `Drift` changes the catalog between pages. `NextPage` is one
turn of the loop and all that follows it when it is the last: filtering, the
seen set, the exits in the code's order, truncation and the verdict. The code's two
loops over a page, the comprehension that drops what is no object and the one that
consults and fills the seen set, are written as the positions they keep
(`Entries`, `New`): an entry is new if it has no id, or an id that was not kept
before and does not occur earlier on the page.

### HttpBoundary

A worker is the context of a task that serves one request after another. The
application between the two layers of middleware is the framework's: it reads
the body when it likes and may begin its response while it reads.

| Action | Code |
|---|---|
| `Arrive` | `BodySizeLimitMiddleware.__call__` up to the first await, refusal by `Content-Length` included |
| `Receive` | one message through `counting_receive`; over the limit, what `__call__` does with `_BodyTooLarge` |
| `BeginResponse` | `watching_send` sees the head of the application's response |
| `OnRequest` | `RequestIdMiddleware.on_request` binds the id |
| `OpenAudit` | `audit_scope`, which is given no header and so keeps the bound id |
| `Log` | a line under the tool: from the variable (retry, breaker, scan) or from the event (audit) |
| `Answer` | the tool's answer, with the event's id; both scopes are left |
| `Abort` | a cancellation or an exception at any await; `finally` leaves the scopes |

`Resolve` has the three arms of `resolve_request_id`. A `uuid4` is any id that
nobody holds. That `_BodyTooLarge` travels out through the real application
stack, and is not answered inside it, is what the repository's own
`test_the_mounted_stack_refuses_a_CHUNKED_oversized_body_end_to_end` establishes
(`tests/test_body_cap.py`); the model takes it from there. An id that is not a
UUIDv4 and no id at all are one value, since the code treats them alike.

### Process

| State | Code |
|---|---|
| `phase` | where `main` is: loading the settings, building, serving, unwinding the framework, in an except clause (`reporting`), in the finally (`flushing`, `exiting`), or out of it by an exception (`leaving`, and `hung` when the reader thread holds the interpreter) |
| `ended`, `reported`, `status`, `flush` | how the serving path ended, what became of main's last log line, main's local `status`, the outcome of the flushes |
| `lifespan`, `reader` | the lifespan; the stdin reader thread, which is no daemon |
| `works` | whether a flush of stdout or stderr succeeds; it may change at any time |
| `stage`, `rows`, `buffered`, `durable` | per write call: its two records and its POST; Jobvite's rows; lines in stderr's buffer and lines that have left the process |

`Sink` is `_redacting_sink` with `catch=False`: write, flush, raise if either
fails. A signal may come between its write and its flush. `Sigterm` is one
action with a disjunct per place it may find the thread: before the handler is
installed it kills; in `build_server` the KeyboardInterrupt leaves `main`; on
stdio it interrupts the serving loop; on HTTP uvicorn captures it and raises it
again later; and once the process is stopping it cuts short the teardown, the
except clause or the finally (`Overtake`). On HTTP the teardown straddles the
moment at which uvicorn gives the handler back, so that a signal then is either
captured or cuts it short. `Sigkill` may come at any time.

### Admission

A behaviour begins with one deployment's settings. `Boot` is `load_settings` and
`build_server`: every reason for refusal, the registration of each tool behind
its gate, the scopes laid over what was registered, and the ValueErrors kept for
settings that should have been refused (`phase = "raised"`, which only a token that
UTF-8 cannot encode reaches).
Then requests come: `Stranger` is turned away before any middleware, `Throttle`
finds its bucket empty, `List` and `CallTool` spend a token. `owed` is history:
each caller's own unrefilled requests, against which its bucket is compared. The
verifier, the scope check and the token bucket are FastMCP's; the model takes
them as `http_hardening.py` configures and documents them. `token_client_id`, 64
bits of a SHA-256, is taken to be injective.

### Verdicts and Payloads

`Evaluate` is `evaluate_response` with all it calls. A body is its form (a JSON
object, other JSON, JSON too deep for the decoder, text, XML with an `Error`
element, other markup) with the code it carries, whether its text can be quoted
(`redact_text` raises on a URL that `urlsplit` refuses), and whether its records
fit the models. `Reply` composes what stands between the verdict and the answer:
`public_error`, `conflict_or_original`, `problem_from_exception`.

In `Payloads` a JSON value is a tree and a text a sequence of pieces, so that a
delimiter can be split, spelled otherwise, or wrapped around another. Each
recursive function of the code is one recursive function of the model, from a
value to what becomes of it, given what becomes of the values directly inside:

| Function | Code |
|---|---|
| `FencingPaths`, by `PathsOfModel` | `fencing_paths`, down the output models |
| `FencePayload`, by `FenceObject` | `fence_payload` and `_fence_list` |
| `Measured`, by `WithinLimits` | `_measure` |
| `RedactArguments`, by `RedactOne` | `redact_arguments` |

What there is to walk are the constants: `Trees`, the values `json.loads` may
return with everything inside them, `Depth`, and `Strings`, the names and pieces
of text. The registry has the shape of the shipped one with fewer fields: `title`
at two depths with opposite decisions, a text two objects down, a date, an
identifier. None of the shipped paths holds a wildcard. A path of the model is a
sequence of names; in the code it is these names joined with dots, so that a key
which holds a dot may be taken for a longer path. Such a key is admitted at most
under its own name, and `to_candidate` reads no such name. The shipped input
models are flat; nested arguments exercise the general contract of the two walks.

## 3. The runs

| Run | Question | Expectation |
|---|---|---|
| `resilience` | safety of the request path and its refinement of `CallContract` | holds |
| `resilience_live` | does every request end, does the breaker always reopen | holds |
| `resilience_timed` | how far can an exchange of so many operations outlive the budget | holds |
| `tool_calls` | approval, audit, POST and answer of two calls | holds |
| `scan` | what a scan returns, admits and costs | holds |
| `http_boundary` | what reaches the application, and whose id is on what | holds |
| `process` | what survives the process, its exit status, and whether it stops | holds |
| `admission` | what is refused at boot, which tool a caller reaches, whose bucket it spends | holds |
| `decisions` | what a response means, what of a record is fenced, what an audit record shows | holds |
| `scan_page_of_one`, `crash_is_not_a_clean_stop`, `http_calls_are_attributed` | see section 5 | violated |

**Bounds, and why they are enough.**

- `resilience`: two invocations, because every interaction goes through the one
  breaker, and one invocation's late answer against another's trip needs two.
  Budget 3 ticks, phase timeouts 1 and 2, backoff up to 1, `Retry-After` 2:
  a first attempt may leave 0 to 3 ticks, so a hint is affordable, exactly
  unaffordable and out of reach. Two attempts reach the cap; threshold 2 lets
  one failure be forgiven; window 2 can be renewed halfway. The event loop may
  be arbitrarily late (`Prompt = FALSE`). Two phases stand for four: what
  matters is that a later operation starts with the attempt's clamp. Operations
  of one phase may follow each other without end; `OpsCap` only saturates their
  count, which no property of this run reads.
- `resilience_live`: one phase, threshold 1, no symmetry (it is unsound for
  liveness).
- `resilience_timed`: three attempts of up to four operations each (`OpsCap` 5 stands
  for any more, which the theorem covers) and a punctual event loop, since a late
  one makes any bound on an exchange's length meaningless. One invocation, since an
  exchange shares nothing with another; `AgeCap` is above every age the bound
  speaks of.
- `tool_calls`: two calls, each of any kind. Calls meet only at the gate; two
  are enough for one to change what the other is told. One request may be sent
  twice (`MaxSends = 2`), the smallest number at which a read is repeated.
- `scan`: all catalogs of up to 4 entries over 3 ids, entries without ids and
  malformed entries; one change of the catalog; caps 1 and 2; limits absent,
  -1, 0, 1, 3; ceiling 5. Four entries at two per page give two full pages, an
  overlap and a short page. With the ceiling above the catalog, only a server
  that ignores `start` and serves records without ids reaches it. `MaxPages`
  (6) exceeds the ceiling, and `WorkBounded` shows that it never binds.

- `http_boundary`: two workers, since an id leaks from one request to the next or
  from one worker to another; limit 1 and bodies of 0, 1 and 2 bytes are below,
  at and over it, in one chunk or two, with any declared length or none. One
  caller's id, which both workers may be sent; three minted ids, one more than
  two workers bind at a time, so an old answer's id is there to be confused with
  (where none is left to mint, that worker can only abort).

- `process`: two write calls, so that one's record can sit in the buffer while
  another's is written; two signals, since the second is what overtakes a
  teardown; two stream changes, so that a stream can break and recover.
- `admission`: two tokens (whose bucket, whose scopes), a burst of 2 (a bucket
  can be partly spent), 8 tool lists, 4 sets of credentials, and token maps with
  every malformation (an unencodable token among them), each with the write switch
  on and off. On stdio, where no token is read, every combination; on HTTP every combination of tool list, bind
  address, proxy and token map with credentials that are complete or lack the
  feed's.
- `decisions`: for responses, a status and a code on each side of every
  threshold (200, 400, 409, 429, 5xx; one code the HTTP line never has) in each
  of the six forms. For records, 6 texts (a delimiter, one in capitals, one
  wrapped around another, a half) and every other kind of value at each field.
  For arguments, objects of up to three keys, three levels deep, with each limit
  reached and passed. The two machines share no variable; a behaviour runs one.

`AgeCap` saturates a history counter above every value a property compares it
with. Invocations, calls and ids are symmetric sets where symmetry is declared.

**Deadlock** is checked for `Resilience` and `HttpBoundary`. It is off for the others:
a tool call, a scan and a process end, a refused deployment serves nobody, and a
decision is made once.

**Fairness.** `FairSpec` assumes that time passes (`WF` on `Tick`) and that the
event loop eventually runs a task whose timer is due (`WF` on each
invocation's `PhaseExpires` and `Wake`): asyncio's scheduling of expired
timers. Jobvite, the network and callers owe nothing: they may fall silent anywhere.
What `RequestTerminates` cannot do is end a request whose Jobvite never falls
silent. A response that arrives byte by byte starts the read timer again with each,
and no timeout of the code surrounds the whole; so the property says that a request
ends if its `NextOperation` steps do, and without that premise it is false.
`FairPSpec` assumes of the process only that `main`'s thread runs on once it is
stopping (`WF` on `Stopping`): nothing it does then waits for a peer. It rests on
two simplifications. A stream fails or takes what it is given, but does not
block for ever; and the process may receive no more signals once it hangs. Hosts,
calls, Jobvite and signals owe nothing, and `StopsWhenTold` names the two ways
in which a stop that was asked for may still not happen.
`BreakerReopens` needs no probe to succeed: it says that an open breaker comes
to be half-open or closed, although callers keep calling it meanwhile.

**What the properties rest on.** Each property of a passing run has a mutant in
`PROJECT.json`: one definition of the model changed the way a plausible bug
would change the code, under which TLC finds that property violated. The
mutants stand beside the definition they replace.

## 4. The proofs

The theorems hold for every set of invocations, every budget, every phase table,
backoff, hint set, threshold and window, every attempt cap, and for a punctual
and a late event loop. They assume `ResilienceAssumption` and
`ContractAssumption`: the constants are numbers of the right kind, positive
where zero would switch a mechanism off, and `AgeCap` is above the budget.
`config.py` validates the budget as positive; the attempt cap, the breaker's
threshold and its window are constants of the module (4, 5, 30 s). `BoundaryAssumption`
says that caller-sent and minted ids differ (a `uuid4` does not hit one) and that
sizes are naturals. `ProcessAssumption` bounds nothing but the two counters.
`AdmissionAssumption` says that the deployments are settings an operator may
write, and that a blank token and no token are nobody's token.
`VerdictsAssumption` says that statuses, codes and hints are naturals.
`PayloadsAssumption` says what a JSON value is: its names and texts are made of
`Strings`, what is inside it is a JSON value and nests less deep, and none nests
deeper than `RecursionLimit`. The first two are `json.loads`, which returns a
finite tree; the last is that it raises RecursionError on a deeper text, as the
docstring of `_measure` records. Nothing bounds the width of a value, the length of
a text or the number of records and arguments, and the limit is any natural.
`ScanAssumption` says that caps and the ceiling are positive (`config.py` validates
the cap, the ceiling is a constant), a limit is an integer or absent, and the
three bounds of the instance are naturals, of any size.

**`ResilienceProofs`.** None of the properties is inductive alone:
`WriteSentOnce` depends on every sleeper being a GET, `NoSendPastDeadline` on
the code's remainder agreeing with the history counter, `RetryAfterHonoured` on
the clamp never having shortened the sleep. `IInv` says this per invocation:

- `ScopeInv`: an idle invocation has no scope, any other has one, and what is
  left of the budget and the scope's age account for each other;
- `ReqInv`: a POST was sent at most once, and a hint has a legitimate source and
  is never zero from the breaker;
- `AwaitInv`: a sleeper is a GET with attempts left that sleeps no longer than
  the budget, less than that if Jobvite asked for the wait, and no less than it was
  asked to;

and adds `TypeOK`, `BreakerConsistent` and `TransitionsAnnounced` for the shared
state. One lemma per way a step leaves an invocation (answered, sent, asleep,
next phase, a tick) shows it preserved; every property follows in one step.
`NoSendPastDeadline`, `RetryAfterHonoured` and `OnlyEvidenceMovesBreaker` are
action properties that use the invariant before, and where needed after, the
step.

**Refinement.** `Refinement` shows that `Resilience` implements `CallContract`
with `gate` mapped to the derived breaker state, `waiting` to being in flight,
and method, sent and answer to the request's fields. A refusal maps to
`Refuse`, the first send to `Start`, a send after a sleep to `Resend`, an answer
to `Finish`, the tick in which the window ends to `HalfOpen`, and everything
else to a stutter.

**`ExchangesBounded`** assumes `Prompt`: a tick passes only while no timer is due. Then
`age + timer <= Budget - bound + ops * Least(LongestTimeout, bound)` is kept by every
step of a sending invocation: an attempt starts with `age = Budget - bound` and one
operation, the next operation adds at most one more clamped timeout to both sides
(`Proceeds`), and a tick moves the age up and the timer down (`TickWithin`). That there
is a longest timeout (`Longest`) is the finiteness of `1..NPhases`. The theorem says
nothing of how many operations an exchange has, because the code does not.

**`ToolCallsProofs`.** `One(c)` ties the call's method to its approval: until a
call has been settled its method is not POST, and only an approved and recorded
decision makes it one. A row belongs to a POST that was sent, so it has that
approval behind it (`RowsAuthorised`); what the caller was told is tied to the
request's answer, and that to the row (`CallersToldTheTruth`). The conjunct that
matters is that no row appears after a reply that denies it. `RecordInv(c)` adds
what the second record says once there is one and what the caller was told when
there is none; it gives `SuccessKept` and `RecordsAgree`.

**`HttpBoundaryProofs`.** `BodyInv` says that a running request's count is what
the application was given, `IdInv` that the variable is unbound outside
`on_request` and the event's id under a tool, and `FreshInv` that a minted id is
nobody else's while it is bound. Only the last speaks of two workers; a step of
one keeps it for another because what the step binds or answers with is a
caller's id, or new, or its own. All five properties of the run follow for any
number of workers.

**`ProcessProofs`.** `PInv` adds three parts to the types. `Recorded`: a call that
got as far as its POST has its first record outside the process, which is what
`Sink` returning means, and no step takes a line back. `Earned` ties `status` to
the phase: it is "software" only after a crash, and a crash with status "ok" that
has reached the finally was either unreported or overtaken. `Left` says the same
of the lifespan: past the unwinding it is open only after a second signal.

**`AdmissionProofs`.** `Settled` says that a serving process has exactly the tools
its settings register and refused nothing; `Balanced` that a caller's bucket and
its own debts add up to the burst, which is what makes an empty bucket its own
doing. That boot can raise comes down to a token it cannot encode
(`Buildable`). `AdmissionGranted` and `AdmissionBoot` then compare the code's
decisions, made in four places, with the one definition of `Granted` and
`Unsafe`, for every deployment.

**`DecisionsProofs`**, on responses. `Judged` says that the verdict is `Evaluate` of
the last response, or that the budget ended the retries of a retryable read. The two
lemmas that carry the proof compare the code's nested decision with the
reference: it returns a payload exactly for a successful response, and any other
verdict names what the response says of itself.

On payloads, where the invariant is only that the output is what the walk makes of
the input, the work is in the walks.

*They are what they say.* A recursive function is a CHOOSE, and says nothing until a
function that solves its equation is shown to exist. For each walk the least depth
to which none exists leads to a contradiction (`LeastNat`), because one step looks
at smaller values only (`RedactOneLocal`, `MeasureOneLocal`, `FenceObjectLocal`);
`FencingPaths` goes down models and not values, and three rounds settle it
(`RoundsEnough`). Then `RedactArgumentsIs`, `MeasuredIs`, `FencePayloadIs` and
`FencingPathsIs` give the equations, and `FencingRegistry` and `Decisions` what is
decided at the eight paths.

*Fencing.* `OneField` says what is left of one name of an object, by the decision of
its path; the four objects on the way give `PayloadsFenced`. That a text cannot
close its fence is `FenceTextEncloses`, for a text of any length: after each piece,
what has been written holds the opening delimiter and no other, and ends in a piece
that makes none with the next (`Stripping`), which is why a delimiter is replaced
and not removed. Every other piece is kept, so no word is lost.

*The audit record.* `ShownAtEveryLevel` relates the record to the arguments level by
level: whatever stands in the record stands for a value of the arguments at the same
level, and is either nothing of it or its redaction with allowed names above it
(`ShownFor`, kept by `ShownBelow`). `MeasuredBelow` counts the levels that
`_measure` accepted, so nothing is as deep as the limit. The two give
`PayloadsRecordShows`.

**`ScanProofs`.** Three layers.

*What a page contributes.* How many entries a page keeps, which, and in which order
is a statement about sequences of every length and needs induction. The library's
induction theorems take an operator as parameter, which the provers cannot
instantiate; but that the finite subsets of `Nat` are well founded under strict
inclusion is a closed theorem, and `LeastNat` in `Induction` gets from it the least
counterexample. `Ordered` uses it to show that `InOrder` lists every set of
positions, `FirstPlace` that every value of a page has a first occurrence; `PageOf`
and `KeepOf` then say what is dropped and kept. `Turn` and `Took` restate one turn of
the loop by positions of the catalog, and the rest of the proof uses only these.

*How far the scan has come.* `SInv` adds to the properties themselves:

- `Bounded`: between two pages every page has brought a record, and neither the
  ceiling nor the limit is reached;
- `OnceEach`: no identified record is kept twice;
- `Covered`: while the catalog holds still, there are no more records than positions
  asked for. A 0-based server has served exactly the positions up to `start`
  (from the second, when the base was declared wrongly); a clamping 1-based one at
  least those before `start` and nothing beyond it, since its first page may have
  been one position short; one that ignores `start` a full page of objects.

*What a returned scan has.* If a page reaches the end of the catalog, everything
has been seen (`Reached`). `CountTells` is the converse that `NoSilentLoss` rests
on: if it does not, entries were passed over or a position was skipped, and then
fewer records were kept than the catalog has entries, so the comparison with the
total fails. `NeverStalls` shows that a full page of two and more ends at a position
nothing kept comes from; for pages of one that is false on a clamping server, which
is what `scan_page_of_one` finds.

`Covered` and `Bounded` were checked by TLC as invariants before they were proved.

**Proved, and in no run.** `AdmissionTyped` and `VerdictsTyped` state the types
that the other theorems of their modules rest on.

**Only model-checked.** Liveness (`RequestTerminates`, `BreakerReopens`,
`StopsWhenTold`): the prover has no rules for ENABLED and fairness. Every
other property of a passing run is a theorem.

## 5. Where the code and its documents disagree

Each of these is a run that TLC ends with a counterexample; `PROJECT.json`
quotes the text.

- **`crash_is_not_a_clean_stop`**: on a crash, `main` logs first and sets its
  status after. If stderr cannot take the line, the sink raises, the assignment
  is skipped, and `os._exit(0)` reports a clean stop. `StatusEarned` states what
  does hold.
- **`http_calls_are_attributed`**: on HTTP the client that called is to be in the
  audit record. `audit_scope` takes the id and none of the five tools passes one.
- **`scan_page_of_one`**: with a page size of 1 on a clamping 1-based server, the
  zero-progress break fires on healthy paging. An exhaustive scan returns one
  record. It is marked incomplete, so nothing is lost silently (`NoSilentLoss`
  holds at that size too).

Others were met while reading the code for the models. No run is spent on them;
most show in the definition named.

- The outbound budget is described as bounding all attempts (`DESIGN.md` 4.3), and
  its clamp as keeping a timeout from outliving it (`_attempt_timeout`). But each
  socket operation gets what was left when the attempt began and nothing bounds
  their sum: an attempt sent with one tick left may connect for that tick and read
  for another, and one that is answered byte by byte has no end (`PhaseTimer`,
  `NextOperation`); `ExchangeBounded` states what does hold.
- `build_token_verifier` says that it never refuses, since `validate_settings` did.
  A token that `token_client_id` cannot encode (half a surrogate pair, which JSON
  can write) passes the one and raises in the other, so that the boot ends as a
  crash (`Garbled`); `BootRefusesUnsafe` says that this is the only way to one.
- Three breaker transitions are documented (`DESIGN.md` 5.2). A late success logs
  `open->closed` and a failed probe `half_open->open` (`Report`).
- A request abandoned on the budget is not counted by the breaker, on the ground
  that its timeout has already been; but that timeout is inside the retry and is
  replaced before the breaker sees it (`PublicOutcome`).
- A host with no elicitation handler makes `ctx.elicit` raise: the call leaves no
  record, where `approval.py` documents the state `unavailable` (`ElicitRaises`).
- An audit failure before the write leaves the tool as an exception; `audit.py`
  says that the tool boundary makes a problem of it (`End`).
- The forced exit is called unconditional. A flush that fails, or a second signal
  in the finally, leaves `main` before it, and on stdio the interpreter then
  waits for the reader thread (`FlushStreams`, `Overtake`, `Leave`).
- `enabled_tools` says that naming the write without its switch leaves the reads
  registered; naming it alone leaves nothing, and the server starts with no tool
  (`EnabledTools`).
- A token whose scopes are all unknown is accepted, though a token that can
  authorise nothing is refused when its list is empty (`TokenMapProblem`).
- `_raise_from_markup` says that "either way the caller gets a
  JobviteUpstreamError". A code such as a superscript digit passes `isdigit` and
  fails `int`, a URL in the text may make `redact_text` raise, and a deep enough
  JSON body raises RecursionError: the caller gets internal-error (`FromErrorElement`,
  `Quoting`, `Undecodable`).
- `constraints.py` counts five levels of nesting as accepted; `_measure` counts a
  scalar as a level, so five objects around a scalar are refused (`Measured`).
- A date out of the calendar's range, or a value of another type in a field that
  is passed through, fails the whole read and not the field (`ToCandidate`).

## 6. Not modelled

- Text, character by character: URL, header and free-text redaction, the logging
  filter, the character classes of `constraints.py`, wording of problems and log
  lines. They keep no state and the repository's unit tests reach them. That
  redaction may raise is modelled where it matters.
- Request bodies and the query of each tool; the job and feed models, which go
  through the functions that `Payloads` models for candidates; page caps and
  totals a tool reports; `date_to_epoch_ms`, `read_identifier`.
- The framework beyond what the code configures: JSON-RPC, HTTP sessions, allowed
  hosts, the schema of tools.
- A record's fields on the audit line beyond approval, mechanism, status, client
  and arguments: latency, trace ids.
- Two second legs for one approval: nothing in the code ties a second leg to a
  first (the repository's open question C4-D2), so there is no promise to state.
- An outbound rate limit: ADR-0025 records that there is none.
- `scripts/` and the checkers under `docs/reviews/`, some three quarters of the
  repository's Python: one-shot programs that read sources and print findings,
  with no state, concurrency or failure handling of the server's. They are why
  the map covers a small share of the repository though it covers most of the
  package's control.

## 7. Plan

The order was by what a mistake would cost: the request path and its contract,
tool calls over the contract, paging, the HTTP boundary, the process, admission,
and the decisions on responses and payloads; with the proofs of section 4.

What is left is small. `ToolCalls` and `Process` could be composed, so that a
process that stops takes running calls with it in all their detail; today
`Process` has a write call's skeleton only. The job and feed models could join
`Payloads`, whose theorems would then have longer registries and the same proofs.
