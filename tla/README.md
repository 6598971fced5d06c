# voxstate in TLA+

voxstate is a server for telephone calls held by voice agents: it places and
accepts calls through Twilio, streams their audio through speech recognition,
a language model and speech synthesis, transfers live calls, keeps an event
ledger of everything that happens, and runs durable workflows that place
calls. The server (`src/server/app`) is Python, asyncio over PostgreSQL. This
directory holds TLA+ models of its stateful parts, the TLC configurations that
check them and proofs that TLAPS checks.

All paths below are under `src/server/app/`.

## 1. Inventory

| Component | State | Operations | What is hard about it |
|---|---|---|---|
| Workflow runtime (`workflows/service.py`, `repository.py`, `models.py`) | runs, attempts, timers, event subscriptions, external events | start, advance, complete a call, fire due timers, cancel, pause, resume, ingest an event | service calls of several transactions with a telephone call between them; concurrent calls on one run; crashes between transactions; wake-ups that may be lost or come late |
| Workflow definitions (`workflows/definition.py`, `state.py`) | none | validation, branch and retry decisions, run status machine | graphs may be cyclic |
| Outbound calls (`calls/outbound.py`, `lifecycle.py`, `lifecycle_service.py`, `repository.py`) | `calls` rows | initiate, status callback | a provider call between two transactions; callbacks repeated, reordered, early, misaddressed |
| Event ledger (`events/`) | `events` rows, a dense sequence per call | append | max + 1 without a lock, two unique constraints |
| Live conversation (`voice/conversation/`) | turn state, generation, history, response task, playback mark | transcripts, response task, barge-in, reconfigure, playback completion, close | five tasks of an event loop share unlocked state across awaits; every append may fail |
| Media sessions and registry (`voice/sessions/service.py`, `api/routes/twilio_media.py`) | two in-memory indexes, one session per stream | start, register, stop, disconnect, close | check and registration apart; a session may be closed by three parties |
| Speech-to-text stream (`voice/providers/cartesia_stt.py`) | reader task, failure | read, send, close | the reader can die unnoticed |
| Call transfers (`calls/transfers.py`) | `call_transfers` rows, the session's transfer lock | to an agent, to a human, provider status | database, memory and provider change one after another; unlocked read then write |
| Inbound calls (`calls/inbound.py`) | `calls` rows | accept | look up, route and insert in three transactions, for webhooks that may be delivered twice |
| Agents and routing (`agents/`) | agents, phone routes, rules | CRUD, resolve | three tables read by three statements while operators change them; ties, ranks, disabled agents |
| Cases (`cases/`) | cases with a version | CRUD, attach a call | optimistic versions beside an unlocked attachment |
| Tools (`tools/`) | none | validate, execute with a timeout | - |
| Telephony gateway, runtime factory, language and speech providers, media messages (`voice/`) | none | conversions and SDK calls | environment of the models |
| Routes, dependencies, settings, database wiring (`api/`, `core/`, `db/`, `main.py`) | engine, registry | mapping of requests and errors | `Database.session` commits or rolls back |
| Operator console (`src/client`), migrations | - | - | - |

How they interact:

- A route calls a service; a service opens one or several `Database.session`
  transactions and talks to the provider between them.
- Workflows place calls through `CallService.initiate_call`. Nothing in the
  repository calls `WorkflowService` itself: the embedding application does.
- The provider calls back: call status, transfer status, and the media
  WebSocket, whose task starts an `ActiveCallSession` and feeds it audio.
- A session owns a transcriber, whose reader task calls
  `ConversationSession.on_transcript`, which starts response tasks; these send
  audio back over the socket. All of them append to the ledger through
  `DatabaseEventSink`, each append a transaction of its own.
- A transfer reaches into a live session of the registry, from a request.

What makes each part correct is stated with the runs in section 4; what is
hard to test about each is the list `hazards` of `PROJECT.json`, line by line.

## 2. Modules

| Module | Models | Uses |
|---|---|---|
| `RunStatus` | `workflows/state.py` | |
| `CallStatus` | `calls/lifecycle.py` | |
| `WorkflowDefinition` | `workflows/definition.py`, branch and retry decisions of the service | `CallStatus` |
| `Workflow` | `WorkflowService` and its repository | `RunStatus`, `WorkflowDefinition` |
| `WorkflowDriver` | `Workflow` under an application that polls | `Workflow` |
| `WorkflowFlows`, `MCWorkflow`, `MCWorkflowDriver` | instances | |
| `RunWalk` | abstract: a run as its client sees it, a walk through the definition | `RunStatus`, `WorkflowDefinition` |
| `WorkflowProofs`, `RunWalkProofs` | theorems of `Workflow` | `TLAPS` |
| `WorkflowDriverProofs` | theorems of `WorkflowDriver` | `WorkflowProofs` |
| `EventLedger` | `events/repository.py`, constraints of `events/models.py` | |
| `CallLifecycle`, `MCCallLifecycle` | initiation, callbacks, concurrent appends | `CallStatus`, `EventLedger` |
| `CallRecord` | abstract: a call's status and log as a reader sees them | `CallStatus` |
| `CallLifecycleProofs` | theorems of `CallLifecycle` | `TLAPS` |
| `Cases`, `MCCases` | `CaseService`, its repository and payloads, `calls/outcomes.py` | |
| `CasesProofs` | theorems of `Cases` | `TLAPS` |
| `TurnState` | `voice/conversation/turns.py` | |
| `Conversation` | the inside of one session: conversation, observer, reader, close | `TurnState` |
| `ConversationProofs` | theorems of `Conversation` | `TLAPS` |
| `MediaSessions` | the sessions of several streams and the registry | |
| `Transfers`, `MCTransfers` | `TransferService` over the sessions | `MediaSessions` |
| `TransfersProofs` | theorems of `Transfers` and, through it, of `MediaSessions` | `TLAPS` |
| `Routing` | `RoutingService.resolve` as an operator on what it has read | |
| `Inbound`, `MCInbound` | the voice webhook, and operators who edit agents, routes and rules | `Routing` |
| `InboundProofs` | theorems of `Inbound` | `TLAPS` |

A definition whose comment says "Mutant" is not part of a model: it is a
plausible bug, put in the place of the definition it stands before to see that
a property notices. `PROJECT.json` lists which property notices which.

## 3. How the models correspond to the code

### Workflow

Variables are the five tables, keyed by idempotency key where the code looks
rows up by it (`timers`, `events`), and by run and step where a unique
constraint makes that the key (`subs`). `calls` is what the provider has
accepted. A worker is one service call in flight with the Python locals that
survive a transaction; its `queue` holds the runs it still has to advance
(`fire_due_timers` and `ingest_external_event` commit first and advance then).

Every transaction of the service takes the run's row `FOR UPDATE` first
(`repository.py:65`), and a raised exception rolls back, so one transaction is
one action and `UNCHANGED store` is what a raise does. `advance_run` is
`Prepare...`, `Dial` or `DialFails`, `Bind` or `Unwind`. A request that fails may
have placed the call nevertheless (a time-out, an unreadable answer), so `DialFails`
takes either branch; the run ends as failed and its attempt names no call. Who
waits for a lock is a disabled action, except where the code looks at rows without
waiting. Claiming timers skips locked rows. The event lookup skips them too and has no
`LIMIT`: it locks every subscription to the topic with its run, so any of them may be
hidden from a concurrent ingest, which then finds nothing (`IngestUnmatched`).

Abstractions: a pending timer may be due at any moment (due times and
`created_at` order are nondeterministic choices); definitions are constants
whose validators are `DefinitionAssumption` (`create_definition` only inserts
rows nobody updates); errors are an action that ends the service call.

`WorkflowDriver` adds what the code leaves to its embedder, as the integration
tests do it: advance a run that is pending or running and in nobody's hand,
poll timers, report calls. It neither pauses nor cancels.

### CallLifecycle and EventLedger

Initiation is two transactions around the provider's API, callbacks are one
each; both lock the call's row, so there is one such transaction per call,
kept in `tx` from `Begin...` (which evaluates the handler) to `Commit`. Two steps
are needed because conversation appends (`sink`) take no row lock: they read the
highest sequence number at any time. Their insert, however, takes a key-share
lock on the call through its foreign key, so it waits while the row is locked
`FOR UPDATE`. If the sink has already inserted the number the locked
transaction wants, each waits for the other; the database ends one of the two
(`Abort` or `SinkRefused`), which the model leaves open.

The provider is external. It may place a call though the request timed out, and
delivers any report it has made in any order, any number of times or never. A
callback may carry the id of a foreign call (`ForeignSids`). "canceled", which
Twilio reports and `PROVIDER_STATUS_MAP` does not know, is among the reports.

`CallRecord` is what a reader may rely on: a status that only moves forward (a
recorded refusal apart), a log that grows by one entry per step, each change of
status together with its entry. `CallLifecycle` implements it (`CallKeepsRecord`):
the status is the row's, the log is the sequence of the statuses that the events
name, by sequence number. `Log` yields an entry only for a number that exactly one
event has, so a gap or a repetition would be seen as a step the record does not
allow.

### Cases

A client is code of the embedding application that reads cases and writes them
later, with the version it read. `UpdateState` is one UPDATE: `Consistent` is the
validator of the payload, `Changed` the SET clause, `Found` the WHERE clause. The
database evaluates the WHERE clause again after waiting for a concurrent UPDATE,
so the statement is atomic. Its answer may be lost, and then the client still
holds the row it read before; it may also hold that row for as long as it
likes. `attach_call` reads the call without a lock (`AttachReads`) and writes the
pointer at its commit (`AttachWrites`); the check that decides is in between the
two for everybody else. Requests that raise change nothing and are left out,
apart from the refused update, after which the client reads again.

### Conversation

Between two awaits a task of the event loop runs alone, so an action is what a
task does from one await to the next. Tasks: the transcript reader (at most one
event in hand), the transfer that calls `reconfigure`, the response task (and a
`stray` one that `_response_task` has forgotten), the socket task that completes
playback, the closer. `_turn_lock` is `lock`. `_interrupt_active_turn` is `append`,
`clear` and `gather` of the actor that interrupts. The history is the sequence of
generations whose exchange it holds; the provider's audio queue and marks are
sets of generations. Every append may raise, as may model, synthesizer and the
socket.

Partial, eager-end and resumed transcripts only append; their failure is the
same as the stream's (`ReaderFails`). The `mark_name is None` branch of the
observer is dead where the production sinks are wired and is left out, latency
markers too.

### MediaSessions and Transfers

A socket is identified with its stream and the session it starts. `start` is
four steps with awaits between them. The registry's lock is never held over an
await, so its operations are atomic. If the append after registration fails,
the session stays registered (`StartFails`), as in the code.

A handler of `Transfers` is a request or provider callback being served, with
what it keeps between transactions: the session it found, the outcome it will
record. Inserting the pending row is decided by the unique constraint;
`_finish` reads the row without a lock and writes in a second step. That a
target agent is selectable is nondeterministic. `MemoryLost` is a restart: what
is in memory is gone, rows stay. Errors of the database are not modelled here
apart from restarts.

### Routing and Inbound

`Resolve` is `resolve` after its reads: exact route, best rules, fallback. A
signal that is None is `Unset`; languages and categories are values that already
compare as `casefold` makes them. Priorities are integers; a rule defines at least
one signal, as `require_signal` demands. Rows with `enabled` false are never
candidates and are left out, and no operation changes a row once created.

A delivery of the webhook is the lookup (`ArrivesAgain`, `ArrivesMismatched`,
`Arrives`), the reads of `resolve`, the insertion. `candidates` and the agent list
are three SELECTs of one READ COMMITTED transaction, so `ReadsRoutes`,
`ReadsRules` and the deciding step (`Routed`, `TurnedAway`) are three actions,
between which operators act. The unique constraint on `provider_call_id` decides
between `Inserts` and `InsertRefused`; nothing catches the error of the latter, so
the provider is told that the server failed and may deliver again. `Dialled`
holds outbound calls whose provider id a webhook may carry. `since` is a history
variable: the routes and rules that stood when a request began to route, and the
agents that have been selectable ever since. The properties of routing are
stated with it, and against their own definitions of serving and weight, not
against `Matches` and `Outranks`.

## 4. Runs

Bounds are constants named in the modules: `MaxCalls`, `MaxAttemptRows`,
`MaxCrashes`, `MaxConversation`, `MaxRequests`, `MaxRestarts`, `MaxEdits`, `MaxVersion`;
`BatchLimit` is the `limit` argument of `fire_due_timers`. Symmetry is used only in
runs without liveness properties. Deadlock is not checked: runs end, calls end
and bounds are reached.

| Run | Instance | Shows |
|---|---|---|
| `run_race` | two runs of a flow that waits for an event; the event leads to a wait, the timeout to a call with a retry and a callback; 2 service calls, 2 calls, 2 events, crashes, pause, cancel | `ScheduledAttemptIsLast`: however `advance_run` calls interleave, a completion is matched with the last attempt. `DialledStepHasAttempt`: the missing-attempt branches are dead. `EventXorTimeout`, `EventMatchesOneWait`, `CancelledRunIsSilent`, `PauseBlocksTimersAndEvents`: what may wake a run. `RunIsAWalk`: `Workflow` implements `RunWalk` |
| `driven` | two driven runs through a retried call, a wait and an event wait, whose timers may be claimed in one batch; 1 crash | `WaitingRunHasWaker`: no wake-up is missing. `RetryPolicyBoundsCalls`: the policy's attempts, one more for a crash. `LostCallsAreAccountedFor`: a call that no attempt knows was lost by a crash or belongs to a run given up when its request failed, one each. `StartedRunSettles`: the run ends, although an error or crash drops the rest of a batch |
| `call_ledger` | one call, a foreign call, repeated and reordered callbacks, two conversation appends, 1 restart | `LedgerTracksStatus`: the ledger tells the call's state, one event per reported status. `InitiatedCallIsRecorded`: the initiated call carries its provider id or stays failed. `CallKeepsRecord`: row and ledger implement `CallRecord` |
| `cases` | two cases, one call, two clients, two times, two kinds of outcome, versions up to 3 | `UpdateBuildsOnWhatItRead`: no update is lost and none applied twice. `RequestedCallbackIsKept`: outcome and callback time agree although one update may leave out what an earlier one wrote |
| `conversation` | three turns or transfers in any mixture, every interleaving and failure | `OneWriterOfHistory`, `HistoryOnlyGrows`, `TurnHasOneAgent`, `BargeInSilencesTurn`; `DeafCallEnds`, `TurnEnds`, `TurnLockIsFreed` under fairness. Three turns are what it takes for a late playback completion to let a turn begin beside a forgotten response |
| `transfers` | one call, two streams for it, two requests or callbacks with shared keys, two agents, 1 restart | `OneSessionPerCall`, `TranscriberIsOwned`, `NoAgentSpeaksTwice`, `TransferIsMadeOnce`, `AgentTransferIsToldTruly`, `MediaClosesOnAcceptance`, `TransferLockIsServed` |
| `inbound` | two deliveries with either of two provider ids, one of them an outbound call's; an exact route, a fallback, three rules (an urgent one, a specific one, a tie with it) created at any time; agents enabled at first (`AgentsAtFirst`), one edit of one of them | `InboundCallIsOne`: one record per call, and it is the one every answer names; `StandingRouteWins`, `StandingRuleIsNotOutranked`, `RejectionIsEarned`: what has stood all the while is honoured although no moment need exist at which everything read was current. Two deliveries suffice for the race on one id; one edit, to disable or delete an agent, suffices to tear the reads; one enabled meanwhile serves as if it had been enabled before, and only takes away from what has stood (the proofs cover any start and any edits) |

`run_race` has two service calls in flight: that lets two dial for one attempt, and
lets a claim of timers meet a report, a pause or a cancellation; its event step
comes first so that both runs meet one topic and the dialling branch is still
reached. Its timers are claimed one by one; batches are in `driven`, and in the proofs,
which cover every property of `run_race` for any `BatchLimit`. `driven` has enough calls for either run to be retried, to lose one
to the crash and to be given up with one placed, so that `MaxCalls` itself never decides. Two clients in `cases`
suffice for a lost or repeated update: a third only changes the row in between,
which either of the two may do as well; three versions let one client come back
with a row that is two changes old. `callback_at` set by one update and an
outcome by another need two times to contradict one another.

One call suffices in `call_ledger` and `transfers`: rows, ledgers and indexes of
different calls meet only in the provider's ids (a foreign id stands for them) and
in stream ids, which are unique.

### Runs that refute what the repository says

| Run | Refuted | How |
|---|---|---|
| `loop_wait` | "A durable timer step that wakes a run" (`definition.py:53`) | a cyclic flow returns to a wait; the timer's key is that of the first visit, whose row is already fired; the run waits for ever |
| `lost_append` | "Append one event" (`events/repository.py:19`) | two transactions read the same highest number; one event is refused and lost |
| `double_attachment` | the second attachment raises (`test_case_service.py:54`) | both attachments read the call before either writes; the later one moves it to its case |
| `mark_race` | speech during playback interrupts (`test_conversation.py`) | the playback mark completes while the interruption appends; the transition to interrupted is illegal and ends the reader |
| `settled_transfer` | "Mark a transfer terminal or accepted while making repeats idempotent" (`transfers.py:208`) | the acceptance overwrites the final status a callback has written since it was read |

### Seen in the models, promised nowhere

No text of the repository claims the opposite, so these are no findings. Two
concurrent `advance_run` calls each add an attempt and dial, whatever
`max_attempts` says. A request that times out ends the run as failed; if the provider
placed the call all the same, it is live and no attempt names it. A caller may be turned away although at every moment some
route would have served it (its route was read, a better one was created, and
then the first one's agent was disabled); `RejectionIsEarned` says what is true
instead. Of two concurrent deliveries of one webhook the second gets a server
error rather than the accepted call. A refusal recorded late makes a call failed that the provider has meanwhile moved
on or ended (`mark_failed` looks at no status). A completion reported for a
paused run makes it run. An event that comes early, or whose oldest subscription
belongs to a failed run, stays unmatched. Audio already sent when synthesis fails
plays on. A playback completion that awaited its append may move the next turn
to listening. A superseded response still adds its exchange to the history.
`active_agent_id` may name an agent other than the one that speaks, after two
transfers that commit in the other order. A failed append after registration
leaks the session until the server stops. A restart leaves transfers pending and
calls whose provider reported nothing live for ever.

## 5. Fairness

`DriverFairness`: service calls proceed and the application polls. It is a
premise about the embedder, not about `src/`. Events need not come: the property
exempts a run that waits for an event without a timeout. No fairness is assumed
for crashes, and the provider may refuse.

`Fairness` of `Conversation`: the event loop runs every task that is ready
(asyncio guarantees that); a language model or synthesizer answers or fails in
the end (`bedrock.py:70` and `cartesia_tts.py:80` set timeouts); a socket that is up delivers audio frames
several times a second, so a failure recorded for the session is noticed or the
socket closes. The caller owes nothing: no fairness on speech, marks,
transfers or failures. The other specifications state no fairness, and only
safety is checked of them.

## 6. Proofs

For every definition that meets `DefinitionAssumption`, and any sets of runs,
workers and events, `WorkflowProofs` proves of `Spec`:

| Theorem | States |
|---|---|
| `TypeCorrect` | `TypeOK` |
| `DialledStepKnown` | `DialledStepHasAttempt` |
| `ScheduledAttemptIsAlwaysLast` | `ScheduledAttemptIsLast` |
| `EventAlwaysMatchesOneWait` | `EventMatchesOneWait` |
| `EventAlwaysXorTimeout` | `EventXorTimeout` |
| `CancelledRunIsAlwaysSilent` | `CancelledRunIsSilent` |
| `CompletedRunAlwaysStandsAtEnd` | `CompletedRunStandsAtEnd` |
| `TerminalRunIsAlwaysFinal` | `TerminalRunIsFinal` |
| `PauseAlwaysBlocks` | `PauseBlocksTimersAndEvents` |

Assumptions: `WorkflowAssumption` (bounds are naturals, topics are given to
events) and `DefinitionAssumption` (what the validators of `definition.py`
enforce). TLC evaluates both in every workflow run.

The argument. `TypeOK` alone is not inductive: `Bind` and `Unwind` rewrite the last
attempt row of the step they hold, which is well typed only if there is one.
`Base` adds `DialledStepHasAttempt` and is inductive (`BaseInit`, `BaseNext`); the
tables and the workers are treated apart. Every other property is inductive
relative to `Base` and, for some, to another:

- `ScheduledAttemptIsLast` on its own: rewriting the last row, or a row into one
  that is not scheduled, keeps it (`ScheduledKept`).
- `EventMatchesOneWait` on its own: no action but a match touches a consumed
  subscription or a matched event (`WaitsFrame` and the frame lemmas).
- `TerminalRunIsFinal` follows from `EndedRunNext`, one step per action; the
  actions that change a run require it not to have ended, directly or through
  the legal transitions.
- `CompletedRunStandsAtEnd` and `CancelledRunIsSilent` rest on the same lemma for
  runs that have ended already and on `EndedBy` for the step that ends a run.
- `EventXorTimeout` needs `TimeoutInv`: a timeout is armed exactly with the
  subscription it guards, and one that has fired has closed it unless the run had
  ended. Without that a new subscription could meet an old timer.

For any agents, routes, rules, contexts and number of deliveries, `InboundProofs`
proves of `Inbound`'s `Spec`:

| Theorem | States |
|---|---|
| `TypeCorrect` | `TypeOK` |
| `InboundCallIsAlwaysOne` | `InboundCallIsOne` |
| `StandingRouteAlwaysWins` | `StandingRouteWins` |
| `StandingRuleIsNeverOutranked` | `StandingRuleIsNotOutranked` |
| `RejectionIsAlwaysEarned` | `RejectionIsEarned` |

Assumptions: `RoutingAssumption` and `InboundAssumption` (rows name agents,
priorities are integers, outbound calls have different provider ids), which TLC
evaluates in `inbound`. `InboundCallIsOne` is inductive with the type invariant: by
`Results`, which says what a step does to calls and results, calls are only added,
and an added one has found none with its id. The last three need `StandingOK`: what
stood when a request began is among what it has read, what it has read still
stands, and no two routes have one number. `ResolveFindsOrRefuses` bounds what
`Resolve` returns, `WeightOrders` says that ranks are the order of weights. That something
served is found needs a best one among the matching rules (`BestRuleExists`): the
rules are finitely many at any time (`RulesStayFinite`), strict inclusion is
well-founded on the finite sets of rules that outrank a rule, and one with the
least such set is outranked by none.

`RunWalkProofs` proves `RunAlwaysWalks`, `Spec => RunIsAWalk`: `Workflow` implements
`RunWalk`. A late timer moves its run to a successor of the step that armed it,
wherever the run stands, so the walk holds because of `WalkInv`: timers and
subscriptions only exist for steps the run had come to, and service calls work on
started runs only. `NextWalks` has one lemma per kind of operation; each action is a
walk of one run (of several, for a batch of timers) or leaves what a client sees
alone.

For any runs, service calls, events and crashes, `WorkflowDriverProofs` proves of
`DriverSpec`:

| Theorem | States | For |
|---|---|---|
| `LostCallsBounded` | `LostCallsAreAccountedFor` | any definition |
| `WaitingRunIsWoken` | `WaitingRunHasWaker` | a definition that meets `NoWaitTwice` |
| `CallsAreBounded` | `RetryPolicyBoundsCalls` | a definition that meets `NoCallTwice` |

Assumptions: those of `Workflow`, and `DriverAssumption`. None of the three
holds of `Workflow` alone, where two service calls may work on one run (section 4).
What the driver changes is `DrivenInv`, which all three need:

- `HandsInv`: a run is in one place of one service call at most, and one in
  somebody's hand is pending or running. A batch of timers takes only runs
  that wait, which nobody has in hand.
- `RowsInv`: a pending timer, an open subscription or a scheduled attempt belongs
  to the step its run waits at; there is one pending timer at most, and none beside
  a scheduled attempt.
- `DialInv`: between its transactions a service call finds the run where it left
  it, at the call it dials for, whose last attempt has no call yet.

`DrivenNext` proves it of every action. On top of it:

- `LostCallsBounded` compares the calls before and after a step: one that an attempt
  knows, or a service call is about to record (`Tracked`), stays so (`UntrackedNext`).
  Two steps lose one: `Die`, that of the service call that dies, and `DialFails`, the
  one placed by its request. The latter gives up a run that had lost nothing to a
  failed request before, and a run given up remains so unless its service call dies
  before it has recorded the failure, when the crash pays (`GivenUpNext`).
- `WaitingRunIsWoken` needs that arming a timer or opening a subscription
  has an effect, that is, that no row with its key exists: `AheadInv` says so of
  every wait the run has ahead. `RecordedInv` gives every call one attempt, and
  `ReportedInv` ties a retry or a callback to an attempt that was reported, so that their keys
  are new as well.
- `CallsAreBounded` counts twice. `CountInv`: a step has as many calls as attempts
  at most, one less while a service call is about to dial. `LenInv`: it has no
  attempts while it is ahead, and one less than policy and crashes allow while another may
  be made, because a retry is pending or the run will be advanced.

The two hypotheses rank the steps. `NoWaitTwice`: no cycle goes through a wait or an
event wait. It cannot be dropped: `loop_wait` is the counterexample. `NoCallTwice`: no cycle
goes through a call (its own retry aside), and if the provider reports callbacks,
a call has a branch for them. Without the first, the attempts
of one visit count for the next, and the policy, which looks at the attempt's
number, allows one more with every visit; without the second, a callback
returns to the call for as long as callbacks are reported, whatever the policy says. The flow of
`driven` meets both (call 0, wait 1, event wait 2, end 3), so the theorems
speak of what that run checks, and of every definition like it.

For any cases, calls, clients, times and versions, `CasesProofs` proves of `Cases`'s
`Spec`:

| Theorem | States |
|---|---|
| `TypeCorrect` | `TypeOK` |
| `RequestedCallbackIsAlwaysKept` | `RequestedCallbackIsKept` |
| `UpdateAlwaysBuildsOnWhatItRead` | `UpdateBuildsOnWhatItRead` |

Assumptions: `CaseAssumption` and `MarkerAssumption` (markers differ from values).
The second is inductive with the type invariant, by what `Consistent` guarantees
of the payload. The third is not: that equal versions are equal rows needs `HeldInv`, that every
row a client holds is either the current one or has a lower version.

For any calls, foreign ids, sinks, reports and bounds, `CallLifecycleProofs`
proves of `CallLifecycle`'s `Spec`:

| Theorem | States |
|---|---|
| `TypeCorrect` | `TypeOK` |
| `LedgerAlwaysTracksStatus` | `LedgerTracksStatus` |
| `InitiatedCallIsAlwaysRecorded` | `InitiatedCallIsRecorded` |
| `CallAlwaysKeepsRecord` | `CallKeepsRecord` |

Assumption: `CallAssumption` (ids of calls and foreign calls are apart, markers are
none of the values). The inductive invariant is `Inv`. Beside the properties it
says what an open transaction knows, which is the crux, because the row it will
write and the event it will insert were computed in an earlier step:

- `TxInv`: what an open transaction will write is what its handler computes from
  the row and the ledger as they are now: the lock keeps the row, and a
  conversation append waits for it with its insert.
- `SinkInv`: an append in flight has a number that is at most one above the
  highest; so it is the next one or taken, and a taken one is refused.
- `LedgerInv`: the numbers run from 1 to the highest without repetition.
- `KeyInv`: what each kind of event proves. One of a callback names a status that
  does not move the call any more, so no status can be reported twice; one of
  the end of the initiation exists only once the initiation is through.
- `InitiationInv`: which phases of the initiation go with which row.

The refinement then is one lemma per action: an insertion is `Append` on the log
(`Log` of a dense ledger and the next event is the log with the event's status at
the end), and every other step leaves row status and log alone.

For any number of transcripts and agent transfers (`MaxRequests` is any natural
number), `ConversationProofs` proves of `Conversation`'s `Spec`:

| Theorem | States |
|---|---|
| `TypeCorrect` | `TypeOK` |
| `TurnKeepsItsAgent` | `TurnHasOneAgent` |
| `OneWriter` | `OneWriterOfHistory` |
| `HistoryGrows` | `HistoryOnlyGrows` |
| `BargeInSilences` | `BargeInSilencesTurn` |

Assumption: `ConversationAssumption`. The inductive invariant is `ConversationInv`:

- `Budget`: a generation, a turn and an agent each take a request, and the actors
  in the middle of a handler hold the ones they have not used yet. Without it
  the counters would leave their types in a state nobody reaches.
- `ResponseInv`: which turn states, which history and which agent go with each
  stage of the response task; an earlier (`stray`) response is past its last
  write. It makes `OneWriterOfHistory` and `HistoryOnlyGrows` facts of one step.
- `SilenceInv`: what an actor between the steps of an interruption has already
  stopped, so that at its return nothing of the turn is left.

For any calls, streams, agents, handlers, keys and restarts, `TransfersProofs`
proves of `Transfers`'s `Spec`:

| Theorem | States |
|---|---|
| `TypeCorrect` | `TypeOK` |
| `OneSession` | `OneSessionPerCall` |
| `TranscriberOwned` | `TranscriberIsOwned` |
| `NoAgentTwice` | `NoAgentSpeaksTwice` |
| `TransferLockServed` | `TransferLockIsServed` |
| `MadeOnce` | `TransferIsMadeOnce` |
| `AgentTransferTold` | `AgentTransferIsToldTruly` |
| `MediaClosed` | `MediaClosesOnAcceptance` |

Assumptions: `SessionAssumption` and `TransferAssumption` (markers differ from what
they mark: `NoSocket` is no stream, `NoTarget` no agent, `Free` no handler). None of
the properties is inductive by itself. `TransfersInv` conjoins

- `RegistryInv`: the two indexes mirror one another and the live sessions. Two
  starts of one call may both have found it unregistered; the one that registers
  second is turned away by the same index it would have overwritten.
- `StartInv`: what a start already owns at each of its awaits.
- `LockInv`: the transfer that swaps the agent holds its session's lock, and its
  target has not spoken there; with it `NoAgentSpeaksTwice` is inductive.
- `FoundInv`: a session that a handler has found is one of the handler's call,
  even if it has been closed since.
- `RowInv`: who has a claim on a row. Only the handler that inserted the pending
  row carries the transfer out, it has done so at most once, and the row of an
  agent transfer has no other writer; a callback may write the row of a human one.
- `CloseInv`: a session that has ended while its socket still streams was handed
  over.

Only model-checked: liveness (fairness and ENABLED are beyond the prover:
`StartedRunSettles`, `DeafCallEnds`, `TurnEnds`, `TurnLockIsFreed`). Every invariant
and action property of a passing run is a theorem. No module uses a RECURSIVE operator.

## 7. Not modelled

- Tools (`tools/`): validation and one sequential call with a timeout, no state,
  and nothing in the application calls the executor.
- Gateways, language and speech providers, media messages, the runtime factory:
  SDK calls and conversions. What they answer and how they fail is the environment
  of the models; the frames of the media protocol are the inputs of
  `Conversation` and `MediaSessions`.
- Routes other than the media socket and the voice webhook: signature checks,
  validation and the mapping of errors to codes; they keep no state. Dependency
  wiring, settings, logging.
- Partly modelled: speech-to-text without its wire format, `calls/outcomes.py`
  without the other payloads and response shapes of `calls/`, `Database.session`
  without engine and settings. Of the event envelope only the number, the key and
  the status in the payload are kept.
- `create_definition` (inserts rows without a protocol), schema migrations (they
  create the tables whose constraints the models use), the operator console.
- Time: a pending timer may be due at any moment, a timeout may strike at any
  moment, latencies are not measured.

## 8. Plan

Done: the workflow runtime and its driver with their proofs, and the refinement of
`RunWalk`; calls and ledger with their proofs and their refinement of `CallRecord`;
cases, routing and inbound calls, the conversation, media sessions and transfers
with their proofs.

Proved: every invariant, every action property and both refinements that the
passing runs check. Next, abstract specifications of the other components with proofs
that they implement them: a case as a register that is only changed from its
current version, a transfer as one attempt per key, a session as one writer of a
growing history.

Later, if state space allows: `CallLifecycle` composed with `Transfers` on the
call's row, and with `Inbound` on provider ids.
