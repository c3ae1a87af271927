# Nano-Claw voice loop in TLA+

This directory holds a TLA+ model of the concurrent core of the voice server: what one browser
conversation does while the agent speaks, what one phone call does, how sentences are synthesized
ahead of playback, how the history of a signed-in user is written and deleted, how a login is
verified and its sockets are closed with it, how the appointment scheduler takes its turns; and of
the agent process its sessions with their memory and tools, and the choice among language models.
TLC checks the models on small instances; TLAPS proves the main safety properties for all instances.

Paths below are relative to the repository root.

## 1. The system

A Node process (`src/`) holds the agent: an HTTP API with server-sent events, the agent loop with
its tools, per-session memory files, and the clients of the language models. A Python process
(`voice/`) holds everything that listens and speaks: the browser's WebSocket, the phone's media
WebSocket, speech synthesis in executor threads or over HTTP, transcription, the login sessions and
the conversation history in SQLite. The browser client (`voice/web/`) records, plays and detects a
listener who talks over the agent. Each of the Python handlers is a coroutine of one event loop, so
code between two `await`s is atomic; what makes it hard is what happens *during* an `await`.

### Inventory

| component | state | operations | talks to | what is hard |
|---|---|---|---|---|
| Browser reply (`voice/server.py`, `webrtc.py`, `ws_audio.py`, `audio/audio_queue.py`) | per socket: the session with its `_stream_task`, audio queue, generator, pause flag, turn buffer; the mic gate in the browser | user turn, tool decision, stop, barge-in (start, commit, false), disconnect; the reply's request, its stream of deltas, `end_stream`; the 20 ms pump | agent API (SSE), synthesis thread, history runtime, browser | a stop cancels the task but not the thread; unwinding of a cancelled reply; resume timers; every exit must free the mic |
| History runtime (`voice/server.py` 204-219, 795-1067, 1858-1980; `voice/webauth/sqlite_store.py`) | active sockets, tombstones, blocked owners, failure markers, a lock; rows; the agent's memory files | register, capture user and agent turns, delete one conversation or all, tear down a socket | SQLite in a thread, agent API | the DELETE statements run outside the lock; a barge-in cancels captures; statements fail; deletions overlap |
| Sentence pipeline (`voice/sentence_pipeline.py`) | the pending task, closed flag, close lock | `__anext__`, `aclose` | phone call's speaker, hangup, synthesis service | two tasks await and cancel the same third task |
| Phone call (`voice/phone.py`) | speaking, interrupted, endpointer, inbound buffer, turn task, tail extension, idle clock | frame of audio, turn, speech, prompt, hangup | Telnyx, STT/TTS services, agent API, scheduler flow | several speakers share one set of flags; an interrupted speaker unwinds late |
| Phone audio (`voice/phone_audio.py`, `silero_vad.py`) | endpointer, barge window, noise floor, gain | `feed`, `prime`, `reset`, resampling | phone call | thresholds at frame boundaries |
| Phone webhook and log (`voice/phone.py` 1009-1215, `metrics_db.py`, `phone_tap.py`) | calls answered so far, the call log | webhook, media socket, statistics | Telnyx | a retry after a failed answer; a second `start` event |
| Scheduler flow (`flow_session.py`, `goal_region.py`, `region_providers.py`) | slots, transcript, turns used; a turn lock and the turn in the executor | one turn; validation of slots; exits | language model, both voice front ends | a cancelled caller leaves a turn that books |
| Login sessions (`voice/webauth/aiohttp_adapter.py`, `sqlite_store.py`) | sessions in SQLite, sockets bound to tokens, one watcher per token, a lock | log in with rotation, resolve (touches), log out, bind, unbind, sweep | browser, history runtime | binding against revocation; handlers, watchers and sweep close the same sockets |
| Login verification (`voice/webauth/policy.py`, `google_verifier.py`) | login challenges under two indexes, the key cache with its gate and lock, the rate limiter's stamps | issue and consume a challenge, get a key, check a limit | browser, Google | two logins with one challenge; retries while Google fails; stamps out of order |
| Agent API (`src/api/server.ts`, `src/agent/loop.ts`, `memory.ts`) | sessions, memory objects and files, pending tool requests | chat, approve, reject, delete, clean-up, restart | models, tools, reasoning service, voice server | deletion against a request in flight; a decision that comes twice; files nobody knows after a restart |
| Reasoning tasks (`src/agent/deep-reasoning.ts`) | one task per request, at a service | submit, poll, cancel | agent API | given up while the service goes on |
| Language models (`src/providers/`) | configuration; the attempt a call is at | route, try, time out, fall back | agent API | a model that has spoken must not be followed; a model that hangs must be left |
| Channels, cron, heartbeat, cost ledger, speech services, presentation, scripts | see `PROJECT.json` | | | |

### What makes each part correct

* Browser reply: at most one reply is alive; what was stopped or talked over is neither played nor
  saved; a finished reply is saved once; the microphone is muted only while somebody speaks and is
  always freed; a paused session is silent, loses no audio, and is not resumed by the timer of an
  earlier false alarm.
* History: what a deletion took never comes back, neither its rows nor the agent's memory; a turn
  that could not be written shows; requests and sockets end.
* Sentence pipeline: sentences in order and without gaps, no task left behind.
* Phone call: caller audio keeps its order and is not held without need; the line is deaf only
  while somebody speaks; an interruption survives and silences; prompts only in silence.
* Scheduler flow: what is booked can be done, at most the budget of turns, one turn at a time
  although replies are cancelled.
* Login sessions: no socket stays open on a session that was ended, none is opened on one.
* Login verification: a challenge is good for one login and only the latest of its browser; Google
  is not stormed; no subject gets past its limit without a window going by, however slow requests are.
* Agent API: a tool runs once, and not at all once its call is rejected; what was deleted stays
  deleted; a transcript keeps results with their
  calls; nobody's file stays for ever and none of a session the process serves is taken.
* Language models: one voice per reply, every model is tried before a failure.

The hazards behind these properties, each at its line, are the `hazards` of `PROJECT.json`.

## 2. Modules

| module | what it is |
|---|---|
| `BrowserReply` | one browser conversation: the message loop, its reply tasks, synthesis threads, playback |
| `HistoryPromise` | abstract: rows only disappear when a deletion names them, and do not come back |
| `HistoryRuntime` | the sockets, captures and delete requests of one owner |
| `SentenceStream` | abstract: sentences in order, each spoken or reported as failed |
| `SentencePipeline` | the look-ahead with its speaker and the hangup |
| `PhoneCall` | one phone call |
| `FlowSession` | the scheduler's replies, their executor turns and the validators |
| `AuthSessions` | the session table, the sockets bound to it, requests, watchers and sweep |
| `LoginGate` | challenges, Google's keys and the rate limit: what a login passes first |
| `AgentApi` | requests, sessions, memory objects and files, tool decisions, reasoning tasks |
| `ModelCall` | routing: the chain of models a configuration lets one call ask, and what its caller may rely on |
| `ModelFallback` | one call of a language model with its fallbacks |
| `..._proofs` | the theorems about the module of that name; those about `ModelFallback` are in `AgentApi_proofs`, where it is `Fallback` |
| `MC...` | the instances for TLC: model values and, where it is sound, symmetry |

How they fit together: `AuthSessions` takes a verified login as its input, which `LoginGate`
describes; a socket it closes is the disconnect of `BrowserReply` and of `HistoryRuntime`. The
answers of the agent that `BrowserReply` and `PhoneCall` choose from are what `AgentApi` gives; the
model's answer in `AgentApi` is a call of `ModelFallback`. The scheduler's outcomes in
`BrowserReply` and `PhoneCall` are replies of `FlowSession`. The speaker of `PhoneCall` plays what
`SentencePipeline` yields. The models are composed by these choices and not by one product: each
process hands the next only outcomes, and every outcome of one is a choice of the other.

`PROJECT.json` maps every definition to its source lines. An operator whose name has a suffix after
`_` is a mutation: the operator before the suffix with one mistake in it, used by no specification.
Each property is known to notice at least one of them.

### BrowserReply

One action is one iteration of the message loop, or one step of a reply task from one `await` to
the next (`pc` names the `await`, `mode` the coroutine). A cancelled task's `CancelledError` is
delivered before any task created later runs, so the unwinding up to the first further `await` is
part of the cancelling action; `Unwind` is what remains after it. `job` is the executor call of
`enqueue_chunk`, which survives a cancellation. The queue holds, for each chunk, the reply it
belongs to; `onAir` is the last one sent. The turn buffer records whose text it holds.

Left out: the text itself, the WebRTC offer path (the client uses WebSocket audio), settings, the
upload of microphone audio, transcription before the turn. The answers of the agent API are
choices: deltas, a final event, a tool request, a JSON answer, an error, an end without a final.

### HistoryRuntime

The model has one owner; other owners only contend for the lock, which is modelled as a FIFO queue
that may always be contended. Tasks are pairs: `<<c, 0>>` is the handler of conversation `c`,
`<<c, n>>` its n-th reply; `Singles` and `Wipes` are delete requests. A capture waits for the lock,
passes the gate, and holds the lock across its shielded statement; a DELETE statement takes no lock.
A cancelled waiter leaves the queue; a cancelled task inside a statement finishes it first. The
deletion of the agent's memory always succeeds (a failed one is left to the API's 24 h sweep);
closing the collected sockets is one step; a client can name a conversation only once it started.

### SentencePipeline

`task` lists the prefetch tasks ever created, `pending` is the pipeline's reference and `mine` the
task `__anext__` awaits. The places in `Between` are between two `await`s: nobody else moves there.
`closing` has the `aclose()` of the speaker's context manager and the one of the hangup, `lock` the
close lock. A cancelled speaker passes its cancellation on to the task it awaits, leaves the queue
of the lock, or loses the cancellation if `aclose()` awaits the task. The source is a list or an
async generator (`Async`), which may end early, raise, or be closed.

### PhoneCall

A frame is a stretch of caller audio, numbered by arrival; `ear` is what the endpointer holds,
`barge` what the barge detector holds, `buffer` what is held during a turn. Speakers are the
greeting, the watchdog and the turns; `pc` says at which `await` each is. What the endpointer makes
of a stretch is a choice, with the constraint that one stretch may be dropped as a cough and two
are always enough. The window of the barge detector is not cut. The greeting's task runs before a
stretch of audio can be over. A speaker that is cancelled while its `aclose()` awaits the look-ahead
loses the cancellation (`Dropped`) and goes on with what follows its text, which may be the hangup. Silence is counted in stretches of the prompt interval.

### FlowSession

Each caller utterance is a task (`pc`, with `_turn_lock` and `_inflight_turn`) and a turn in the
executor (`turn`). A cancelled task gives the lock back and leaves its turn behind; the next one
drains it. A turn reads the transcript when it asks (`seen`) and writes at its end. A nomination is
any record of a job, a start, a duration and an exit, each absent, well formed or malformed; the
validators are pure operators over a small calendar, in which a day, business hours and free windows
are units of time, so that a visit can end after hours, on the next day, or across two windows that
touch. Both attempts of a turn are one step, since nothing is changed between them.

### AuthSessions

The table is `live` with owner and deadlines; each of its operators is one transaction. The lock is
`_socket_lock`; the registry is `_bound_tokens`, `_socket_token_hashes` and the watchers. A handler
runs login, logout or me, whose common end closes the entries of `todo` one after the other, waiting
for the sockets (`dying`) of each. `known` are the tokens a browser has received. Every request is
dated by the `now` it read first, although the clock may go on. The store may fail at any call
(`MayFail`). Left out: cookies, headers and origin checks, digests, more than one tenant, and the
shutdown.

### LoginGate

A request is dated by its arrival, and its body may take any time (`Arrive`, `BodyRead`). Then it
looks its challenge up by the cookie, gets the key, waits for a thread, and consumes the challenge
by the nonce: each `await` lets others in, and the clock goes on meanwhile without any bound. `byPre` and `byNonce`
are the two indexes of the challenges. `FetchAnswered` and `FetchFails` end a fetch under the refresh
lock. `admitted` and `fetched` are histories the code does not keep. Signature, issuer, audience and
the other claims are one choice between acceptance and refusal. The limit by address has the same
code as the one by subject and is left out.

### AgentApi

A request handler is at one of its `await`s (`pc`) and holds a `Memory` object. Objects are numbered,
so that the object of a deleted session and its successor of the same id are told apart; a message
carries the object that wrote it. Every `Memory.save` may fail, an `unlink` may fail, and a restart
may find a file torn (`Faults`). `issued`, `ran` and `rejected` are histories of tool calls. One tick of the
clock is the granularity at which `PENDING_TTL` and the 24 h of idle sessions are told apart. A
reasoning task runs at its service (`task`) and is polled, given up or cancelled.

### ModelFallback

One call, whole or streamed, under any set of keys and any list of fallbacks. The routing is in
`ModelCall`: `Chain` is `resolveModelChain`, `Detected` the provider a model is sent to. Only the provider decides whether
it answers, fails or hangs: there is no fairness for it. An async generator that is inside `next()`
cannot be closed, which is why `Closed` has to wait for the provider.

## 3. Runs

Deadlock is not checked: every one of these systems ends (a conversation closes, a text is over),
and every counter is bounded.

| run | question | bounds |
|---|---|---|
| `BrowserReply` | mic gate, one reply's audio in the queue, turns saved once, nothing lost while paused, no timer fires into a later barge-in, the mic is freed | 2 replies, 2 chunks, 2 barge-ins |
| `PhoneCall` | order of caller audio, deafness, one turn, an interruption is kept, a silent caller is hung up on | 2 turns, 4 stretches, buffer of 2, 1 extension |
| `HistorySafety` | a lost turn shows, no memory of a deleted conversation | 2 conversations with a reply each, one single deletion, one of everything, 2 failures |
| `HistoryTwoWipes` | implements `HistoryPromise`; requests end | 1 conversation with a reply, 3 overlapping deletions, 1 failure |
| `HistoryZombie` | finding 1 | 1 conversation, 2 delete-alls |
| `Pipeline` | implements `SentenceStream`, no orphan, an ended call is left | 4 sentences, 2 cancellations, 1 hangup |
| `AuthSessions` | the registry agrees with itself; no socket on an ended session, opened or left; it is closed in the end | 2 sockets, 1 handler beside watchers and sweep, 2 tokens, 1 tick, a store that may fail |
| `LoginGate` | a challenge is spent once and is the latest; fetches are spaced; the limit holds though stamps come out of order; logins are answered | 2 requests, 3 cookies, 3 challenges, a store of 2, 1 key, 2 ticks, a limit of 2 in a window of 1 |
| `AgentApi` | tools run once, those of a rejected call never; deleted is deleted; results follow calls; files of sessions served stay, others go; a request waits for ever for nothing but the model | 2 requests, 1 session, 2 memory objects, 1 call of 2 tools, 5 messages |
| `FlowSession` | visits are possible; the budget; turns one after the other; replies end | 3 utterances, 2 turns, 2 windows that touch |
| `ModelFallback` | one voice; every model is tried; a whole answer gives way | 3 models, 4 providers, 2 fallbacks, 2 tokens |
| `ModelFallbackHang` | finding 2 | the same |

Why the bounds are enough: the hazards are between a reply, request or task and its *successor* or a
*rival*, so two of each reach them; three deletions let two overlap beside a third, and three
utterances let one be cancelled while it drains another. Two chunks give a queue with a front and a
rest, two barge-ins a timer that a later one supersedes, a buffer of two an order in which it is
replayed (it is filled, but four stretches do not overrun it); four sentences let a failure fall before, in and
after the look-ahead. The two-wipe run has one conversation, since nothing in the code compares
conversations except the sets `HistorySafety` has two of; its one reply is captured, interrupted or
lost in every order with the deletions. In `AuthSessions` a second handler would be a second actor
that closes; watcher and sweep already are. For safety alone, without fairness, larger instances
were also checked once: two handlers with a store that answers, and
in `PhoneCall` five stretches, which overrun the buffer. A challenge carries one login, so three of them, each on a
cookie of its own, are one more than the limit of two; two live ones at a time, of which the second
may be the older request's, put stamps out of order. `MaxUnknown` is not reached with one key id: a
full cache of unknown ids only costs a fetch, which the throttle bounds. One
tick passes an idle deadline of one; the absolute one of two is passed by none, and differs from the
idle one only in the number. `AgentApi` has one session because sessions share nothing but the
housekeeping, and two objects because a successor needs a predecessor; a text, a call and both its results fit
into its five messages, so order and uniqueness are examined before the trim excuses anything. The
theorems of section 5 have no bounds at all.

`TombstoneCloses` and `LostTurnShows` hold with one delete-all at a time and fail with two
overlapping ones (finding 1 and section 4): the first is how the code is used by one browser tab,
the second by two.

### Fairness

The event loop runs every task that is ready, executor threads return, timers fire: weak fairness
of each task's step. `asyncio.Lock` serves its waiters in order; where the model has no queue for
that (`FlowSession`, `AuthSessions`, `LoginGate`) it is strong fairness of the waiter, and the FIFO
queue of `HistoryRuntime` needs none. Beyond that:

* `BrowserReply`: the 20 ms pump runs and the browser's detector decides within its confirmation
  time while the agent speaks (it has a timer); not that a listener speaks, that a tool request is
  ever decided or that anyone disconnects.
* `PhoneCall`: requests have an outcome (they have timeouts) and the line delivers frames; the
  caller need not hang up.
* `HistoryRuntime`: statements return, not that they succeed.
* `SentencePipeline`: synthesis returns or fails and a sentence's playback ends; not that anyone
  hangs up or cancels.
* `AuthSessions`: the store answers or fails, `ws.close()` ends (it has a timeout); nothing of the
  clock, of browsers or of the watchers.
* `LoginGate`: Google answers or the request times out, the decoding thread returns. Not that the
  body of a request ever comes; `LoginsAnswered` is about those whose body has come.
* `FlowSession`: the supervisor answers or times out.
* `AgentApi`: the calls of retrieval and of the reasoning service have timeouts, tools end, the
  clean-up's timer fires, and the file system does not fail for ever. Not that the model answers:
  a stream has no deadline after its headers (finding 2), so `RequestsGoOn` says that a request is
  always free again, or waits for the model (`Works` is fair, `Speaks` is not).
* `ModelFallback`: calls are made and timers fire; no provider has to answer.

## 4. Findings

1. `HistoryZombie` (`voice/server.py:1962`): of two overlapping delete-alls the first unblocks the
   owner; a socket that registers then has its conversation deleted, stays open and drops
   every turn.
2. `ModelFallbackHang` (`src/providers/fallback.ts:135`): a stream without a first token is timed
   out, and then the helper awaits the generator's `return()`, which is queued behind the hanging
   `next()`: the next model is asked only when the first one ends, if it ever does. The run has
   OpenRouter, which does not stream and ends after its 60 s timeout; a native stream of Anthropic
   or OpenAI has no such limit (`src/providers/base.ts:513-526`, `620-628`).

`PROJECT.json` quotes for each the sentence of a comment or document it disagrees with.

The models also reach the following behaviours; no run asserts their opposite.

* A chunk of a stopped reply that the executor was still synthesizing is enqueued after the next
  `begin_stream` and is played (`voice/webrtc.py:241`, against the comment at
  `voice/server.py:706-708`).
* A reply cancelled within its request abandons the turn buffer only when its connection has been
  closed (`voice/server.py:1134`); if the next reply has text in it by then, that text is missing
  from its turn, and a turn that is finished at that moment is not saved.
* A barge-in while a finished turn waits for the history lock loses it without a trace
  (`voice/server.py:1062`, against `docs/AUTH.md:253-254`).
* An interrupted speaker of a phone call that wakes late plays its stale sentence over the next turn
  (`voice/phone.py:560`, `961`, `984`, against `docs/PHONE-QUALITY.md:296-297`).
* The idle prompt interrupts the caller's utterance and throws it away (`voice/phone.py:421`,
  against its docstring at 414-415).
* The sweep of expired sockets resolves every bound session, which counts as use: a session whose
  socket stays open never becomes idle (`voice/webauth/aiohttp_adapter.py:790`, against the comment
  at 695-698).
* Of two overlapping delete-alls the second clears the failure marker of a conversation that began
  after its DELETE and survives (`voice/server.py:1973`).
* The scheduler's first answer calls `begin_stream` (`voice/server.py:1194`), which forgets a
  barge-in of the greeting and speaks over the listener.
* A pipeline that a hangup has just closed takes up the next sentence of a list if a synthesis
  failed at that moment, because `__anext__` looks at `_closed` only when it is called
  (`voice/sentence_pipeline.py:105`).
* An interruption that comes while the speaker's `aclose()` awaits the look-ahead is dropped by it
  (`voice/sentence_pipeline.py:129`): the interrupted turn goes on to its end, and hangs up if its
  answer said so, beside the turn of the interruption.
* The watchdog hangs up on a caller who answers its goodbye (`voice/phone.py:433`).
* A tail extension whose audio was thrown away stays in force, and the next short utterance is
  answered with the old text (`voice/phone.py:590`). When its turn was replayed beside an idle
  prompt, the extension also overwrites what an interruption has put into the endpointer;
  `InterruptionKept` excepts that step.
* The rate limiter is given the time at which a request arrived; one that arrived later and is
  checked first removes stamps which an earlier one would still count
  (`voice/webauth/google_verifier.py:792`), so a full window can hold more than the limit; what
  holds is `SubLimited`.
* A login collects the sockets to close after its session is issued, all of the subject
  (`voice/webauth/aiohttp_adapter.py:768`); if a second login of the same subject has been answered
  meanwhile and its browser has connected, that new socket is closed with the old ones.
* Models of `aihubmix` and `vllm` are routable, but `getProviderInstance` cannot build those
  providers (`src/providers/index.ts:28-107`): such a fallback costs an attempt that always fails.

## 5. Proofs

`BrowserReply_proofs`, for every number of replies, chunks and barge-ins:

* `TypeCorrect`, `InductiveHolds`, and from the latter `NoRacingReplies`, `MicMutedOnlyBySpeech`,
  `BargeInSilences`, `CancelledTextDropped`, `QueueIsOneReply`; separately `OnlyFinishedTurnsSaved`,
  the action properties `PausedAudioKept` and `TimerDropped` (`ListenerHeard`, from `TimerWaits`: no
  timer is pending while a barge-in is undecided), and `TextSavedOnce` (`SavedOnce`).
* The properties are not inductive by themselves. That the queue holds one live reply's audio rests
  on who may still enqueue: a synthesis call belongs to a cancelled reply or to the current one,
  which waits for it (`JobOwner`); the other entries of a speaking reply's queue are cancelled
  (`QueueOwner`); and a cancelled reply has only its unwinding left (`CancelledIsOver`), so none of
  its steps touches the gate, the buffer or the queue. `InductiveInv` is the conjunction.
* `TextSavedOnce` rests on `Unspent`: a fragment in the buffer, and a reply whose outcome is still to
  come (`Unsettled`: it asks, plans, speaks its greeting, or reads events before the final one), is in
  no saved turn. `Streams` says that only the coroutine of an event stream reads events.
* Assumption: `BoundsAssumption` (the bounds are natural numbers).

`HistoryRuntime_proofs`, for any number of conversations, turns, failures and delete requests:

* `TypeCorrect`; `OneWriter`: whoever is inside a capture's statement is at the head of the lock's
  queue, so there is one, although tasks are cancelled while they wait and while they hold it;
  `Implements`: the runtime implements `HistoryPromise`; `BlockedOnlyMeanwhile`.
* The invariant `IInv` adds to the types: `Exclusive` (a capture's statement means holding the lock),
  `Tombstoned` (nobody writes in a conversation that has a tombstone: the gate was passed under the
  lock, and the tombstone is put down under the lock before the statement), and `Named` (rows are of
  started conversations, what a deletion will name or has taken is started or has a tombstone, and
  nothing taken is in the rows). `Implements` then maps each writing statement to `Save`, each
  DELETE to `Erase` and every other step to a stutter.
* `QueueHolds`: the lock's queue is exactly who holds it or waits for it, once each (`Queue`), although
  a cancelled task leaves it from the middle or, in a shielded statement, queues again for its marker.
* `NothingRemembered` (`DeletedIsForgotten`), from `Forgetting`: an erased conversation has its
  tombstone, or a request under way will put it; and its agent memory will be taken by that request, or
  by the handler, which sees the tombstone when it leaves. It needs `Current` (a reply that runs or
  waits is the one its handler will cancel) and `OneEach` (a single request names one conversation).
* `LossesShow` (`LostTurnShows`), under the hypothesis `[]Apart`: no two delete-alls overlap between
  collecting the sockets and noting the deletion. Any number may come one after the other, and any
  number of single deletions at any time. The hypothesis is needed: with two, the first takes the owner
  out of `blocked_owners`, a socket registers and loses a turn, and the second clears `failures` with
  that turn in it (TLC finds this when `Wipes` has two elements). The invariant is `Known` (a lost turn
  is noted, or its conversation has no row and will have none) with `Barred`: from collecting to noting
  nobody writes, first because the owner is blocked, then because all who are ahead of the request in
  the lock's queue have a tombstone.

`FlowSession_proofs`, for any number of utterances, any calendar and any durations:

* `TypeCorrect`; `Serialised`: a turn writes to the transcript it read, from the invariant `Serial`
  (a turn under way is the one in flight, and whoever launches holds the lock with nothing in
  flight); `Visits`: whatever several turns leave in the slots can be done, by the lemma `TakenFits`
  about the validators; `Budget`, from `Accounted`: each question is an exchange of the transcript, a
  turn that raised, or the one being asked while the budget had room.

`LoginGate_proofs`, for any number of requests, cookies, keys and subjects:

* `TypeCorrect`; `Indexes`: the two indexes hold the same challenges
  and no more than their limit; `Once`: a challenge is spent once; `Latest`: and only while it is the
  one its browser holds, both from `Indexes`; `Spaced`, from `Gate`: whoever fetches holds the lock,
  and the gate is never before the last fetch plus the throttle.
* `Limited` (`SubLimited`), for any limit and window and however slow the requests are: the stamps the
  limiter keeps are the last ones it let pass, and each one it has let go of is `Outlived`: at most
  `SubLimit` attempts after it came one that arrived a window later (`Recorded`). A purge lets the
  front go for the attempt that is being checked, whose stamp is therefore such a one if it is let
  pass; if it is not, nothing was purged, since a full bucket is one that kept `SubLimit` stamps.

`AuthSessions_proofs`, for any number of subjects, sockets, handlers and tokens:

* `TypeCorrect`, with `HasToken`: whoever acts on a session has its token. `RegistryHolds`: the two
  maps and the watchers agree; its invariant adds that a socket being bound is in no entry yet.
  `UpgradesHold`: no upgrade is completed on a session that was logged out or rotated away, since
  the lock is held from the look at the store until the socket is open (`LockHeld`, `Upgrading`).
  `EndedSocketsClose`: an open socket whose session has left the store has somebody on the way to
  close it. Its invariant says for every such session who that is; the lemma `OneActs` reduces each
  step to its own actor, because what the others were going to close they still are.

`PhoneCall_proofs`, for calls of any length, any buffer and any number of extensions:

* `TypeCorrect`; `OneAtATime` (`OneTurn`), from `Started`: only turns that were started are under way
  or cancelled; `DeafOnlyInSpeech` (`NeverDeaf`): the line is deaf only while somebody speaks.
* `AudioStaysInOrder` (`AudioInOrder`), from `Ordered`: what endpointer, detector and buffer hold is
  each in the order of arrival, the buffer holds newer audio than the endpointer, and both hold newer
  audio than a turn could still give back, as long as no interruption has broken the line.
  `NothingHeldForNobody`: the buffer is only filled while a turn will empty it.
* `InterruptionsSurvive` (`InterruptionKept`): until the caller says something new, nothing but the
  extension named in section 4 takes from the endpointer what an interruption put there.

`SentencePipeline_proofs`, for any number of sentences, cancellations and failures:

* `TypeCorrect` and `InductiveHolds`: the invariant `IInv` says who knows the task that runs
  (`Known`), the four shapes of the close lock's queue (`LockShape`), that the speaker is where its
  own `aclose()` is (`Roles`), that only the newest task is awaited (`Awaited`) or was taken by an
  `aclose()` (`Taken`), and that the newest task has the sentence after those yielded (`Line`).
* From it `NothingLeftBehind` (`NoOrphan`), and `Implements`: the pipeline implements
  `SentenceStream`, whoever cancels or closes it at whichever `await`.

`AgentApi_proofs`, for any number of handlers, sessions, objects and calls, transcripts of any
length, and whatever the file system does (`Faults`):

* `TypeCorrect`, with `Holders`: the objects that handlers, sessions and pending decisions hold exist,
  and a session's object is one of that session.
* `NothingReturns` (`ErasedStaysGone`), from `Erasure`. A handler may hold a deleted object through
  any of its `await`s, so it is not enough to look at what sessions know: `Known` says that an object
  that is not deleted is the one its session knows (so no second one can write the session's file),
  `Emptied` that a deleted object holds no text, and `Written` that every message, in an object or a
  file, was written by an object of that session which is not erased.
* `RunOnce` (`ToolsRunOnce`), from `Tickets`: a call is either not issued, or an entry in
  `pendingRequests`, or one handler's; nobody else has it, and none of its tools from the
  handler's own on has run. `Refused` adds that a rejected call is nobody's any more, and that none of
  its tools has run.
* `ResultsInOrder` (`ResultsFollowCalls`), from `Order`: every transcript, also of a file, is `Sound`
  (what the property says, at every length: the trim is the only excuse for a result without its
  call); no message is of a call that was not issued yet; and the transcript of an `Open` call is as
  far as its handler, which is what makes the next result fit. A save that fails leaves an earlier
  transcript on disk, and that one is sound because each is a beginning of the next.
* `FileStays` (`LiveFileStays`): a step takes the file of a session only if its object goes too.
* `OneModelSpeaks` (`OneVoice` of `ModelFallback`, for any models, providers and replies), from
  `Committed`: an attempt that has spoken is the only one that has, and the helper never goes on from
  it to another.
* `AllModelsAsked` (`EveryModelTried`), from `Tried`: up to the attempt the helper is at, every model
  that somebody can be asked for was asked, and beyond it none; and from what `ChainAfter` computes for
  any number of fallbacks (`ChainComplete`: it begins with the model asked for, the rest is routable,
  and every routable fallback is in it). That is an induction over a recursive function, done by
  hand: the function exists (`ChainDefined`), and a least place where it is wrong has a predecessor
  that is right. Its hypotheses are the two parts of `FallbackAssumption` that it needs.
* `TypeOK`, `Holders`, `Written`, `Tickets` and `Order` were checked by TLC before they were proved.

All rest on the named assumptions about the constants of the module they are about, and on nothing
else (`LossesShow` also on its stated hypothesis). Every safety invariant and action property of the
passing runs is proved. Only model-checked: all liveness (fairness is beyond the provers), and
`TombstoneCloses` and `StreamGivesWay`, which the code breaks.

To repeat: `tlc -config BrowserReply.cfg MCBrowserReply.tla` (each cfg starts with its
module's name), `tlapm BrowserReply_proofs.tla`.

## 6. Plan

Done: the modules of section 2, all of them proved about. Next, most important first:

1. The browser's barge-in detector and audio player against the pump (`barge-in.js`,
   `ws-audio-player.js`, `ws_audio.py`), composed with `BrowserReply`'s gate.
2. The phone webhook and the media handler's second `start`.
3. The endpointer and barge detector as pure functions checked against reference definitions.
4. The WebRTC offer path with its second session; cron, heartbeat and the message bus; paging of the
   history; the cost ledger's prices.
5. Proofs: the safety of the modules of this plan.

## 7. Not modelled

Signal processing, codecs and resampling; speech and language models; the cryptography and claims of
Google's tokens; HTTP framing, cookies and headers; HTML and rendering; configuration and command
line; scripts and evaluations. They are calculations without interaction, I/O, or external services
whose outcomes the models choose. Within modelled components: the map of topics beside an agent's
transcript, the analysis endpoints, retrieval and prompts, what tools do, the schema of the
databases, listing and paging. The memory files of phone sessions are not ephemeral, so no sweep
takes them; `OrphansSwept` is about the browser's only. What is planned but not yet modelled is
section 6.
