# A verification project for PC3

PC3 is a call centre: an Asterisk PBX, four NestJS services behind a gateway, a
browser phone, midPoint for identities, PostgreSQL and MinIO for data.  This
directory holds TLA+ models of its stateful parts, the TLC runs that check them on
small instances, and TLAPS proofs of what matters most for every instance. Paths
below are relative to `src/`.

## 1. The system

| part | state | operations | talks to |
|---|---|---|---|
| recorder (`backend/recorder/src/recorder.service.ts`) | `uploadedLog`, `pendingUploads`, the watcher; uploads under way | boot scan, fs.watch timers, 15 s poller, `uploadFile` | the recordings volume (read), MinIO (PUT, HEAD), CDR service (`recording.uploaded`) |
| CDR service (`backend/cdr/src`) | tables `recordings`, `cdr` | `saveRecording`; queries | PostgreSQL; Asterisk writes `cdr` too |
| asterisk service (`backend/asterisk/src`) | none of its own: edits `pjsip.conf` over SSH | create, remove, list, reload, status | Asterisk's container |
| gateway (`backend/gateway/src`) | Prometheus metrics; requests under way | REST endpoints behind guards, each one or two messages to services with a 10 s timeout; the list of recordings | all services, MinIO |
| auth service (`backend/auth/src`) | table `users`; objects in midPoint | login, register, import loop | PostgreSQL, midPoint |
| web session (`backend/gateway/frontend/js/app.js`) | token, profile, web password, forms, the SimpleUser | web login, restored session, SIP form, logout, reload | gateway |
| web phone (the same file) | call flags, timers, button states, SIP.js's sessions | call, answer, reject, hang up, mute, hold | Asterisk (SIP over WebSocket) |

What makes it hard: every `await` lets another request, timer or callback in; none
of the read-then-write sequences (a table row, `pjsip.conf`, a file's size, the
page's globals) is protected; a client's timeout does not stop the service; a
service's restart forgets what was in memory; and the recorder's writer is another
process.

What makes each part correct:

- **recorder**: finished recordings reach MinIO, whole; the log the poller trusts is
  right.
- **recorder and CDR service**: rows and URLs are about stored objects; failures
  multiply nothing; a recording is listed in the end.
- **list of recordings**: it loses none that was stored, and what it says of a
  recording is about that recording.
- **from login to phone**: what a login told is what Asterisk lets register.
- **provisioning**: an extension whose creation ended well can register; its
  sections are unique, as Asterisk loads no section of a type of which one is
  doubled; an endpoint is never without its auth section; a removal removes one
  extension, all of it.
- **gateway requests**: every handler with a time limit and every wait for an answer
  ends; the metrics account for all handlers; the time limits of browser, gateway
  and auth service fit.
- **users**: extensions are unique; what a client was answered is what is stored,
  and what is stored a client was answered, or would have been but for an error.
- **import loop**: it ends, unless an answer is cut off within its body, and then
  everything is imported that was not given up.
- **web session**: page, token and phone are one user's; a logout ends the phone;
  register-sip provisions the SIP password of the row where there is one.
- **web phone**: the flags agree with the sessions, the panel with the ringing call,
  the history with the calls, the colour of the buttons with what SIP.js does.

## 2. Modules

| module | models | checked by | proved in |
|---|---|---|---|
| `Recorder` | recorder service, its writer, MinIO | `MCRecorder` | `RecordingProofs` |
| `RecordingPipeline` | `Recorder` composed with `saveRecording` | `MCRecordingPipeline` | `RecordingProofs` |
| `RecordingArchive` | abstract: what the two promise together | refinement in `RecordingPipeline` | `RecordingProofs` |
| `RecordingsPage` | `listRecordings` of the gateway beside the recorder's uploads | `MCRecordingsPage` | `GatewayProofs` |
| `Provisioning` | gateway's extension endpoints, asterisk service, `pjsip.conf`, what Asterisk has loaded | `MCProvisioning` | `ProvisioningProofs` |
| `GatewayRequests` | a request's guards, interceptor, handler and time limits; the metrics | `MCGatewayRequests` | `GatewayProofs` |
| `AuthService` | login, register, role synchronisation | `MCAuthService` | `AuthServiceProofs` |
| `Registration` | `AuthService` composed with `Provisioning` through register-sip | `MCRegistration` | `RegistrationProofs` |
| `MidpointImport` | `backgroundImport` and all it calls | `MCMidpointImport` | `MidpointImportProofs` |
| `WebSession` | login, restored session, SIP form, logout; register-sip behind them | `MCWebSession` | `WebSessionProofs` |
| `WebPhone` | the phone over SIP.js's SimpleUser | `MCWebPhone` | `WebPhoneProofs` |

Conventions.  An action is the code from one `await` (or event) to the next. `pc`,
`step`, `at` say at which await a task or call is.  `Fault` counts injected failures
up to `MaxFaults`.  Operators whose comment begins *Mutant of* are plausible bugs,
used by no specification: each one put in the place of the definition it names
breaks the property it is recorded with.  The constants `Races` of the two browser
modules and the variable `turns` of `Provisioning` name the overlaps that may happen
in a behaviour; each behaviour chooses among them in `Init`, so that a property can
name the ones that break it.

### Recorder

A task is the boot scan, a debounce callback or a poller tick; `WatchTasks` and
`PollTasks` bound how many run at once (the code has no bound, and ticks do
overlap).  `uploadFile` is `ReadSize1`, `ReadSize2` (2 s later), `ReadLocalSize`,
`StatObject`, `PutObject`, `StoreObject`, `PutReturns` or `PutFails`,
`NotifyReturns`.  Sizes are chunks; 0 stands for "44 bytes at most".  Time is the
age of a file's last write in three classes, the only thing the code compares (2 s
for stability, 5 s for the debounce and the mtime check).  `WriterPauses` says
whether MixMonitor may write nothing for that long during a call.  Between two reads
of one size a file that is still written has been quiet for 2 s; a closed one need
not have been, since the close touches the file and adds nothing
(`TwoSecondsPassed`).

`StatFails` follows the code's three outcomes of a failing stat: ignored in the
mtime and stability checks; the scan or tick abandoned, or the process ended (an
unhandled rejection in a timer), at `localSize`.

### RecordingPipeline

Adds handlers of `recording.uploaded`.  The message leaves in the step that logs the
upload; the handler then lives its own life, also past the recorder's 5 s timeout or
restart.  `InsertRow` and `UpdateCdr` are the two statements. Asterisk writes the
`cdr` row at any time after hang-up (`PostCdr`); `CdrPrompt` says that it does so
within 2 s.  The watcher and the poller wait longer than that after the close, the
boot scan does not: its UPDATE may come before the row.  `uniqueid` identifies the
call, so a recording has one `cdr` row.

### RecordingsPage

One listing of the bucket, then a callback per item that waits for a URL
(`Presigned`) and for the object's first bytes (`HeaderRead`); callbacks interleave,
and `Upload` stores or replaces objects between any two steps. `Turn` is one turn of
the loop of `getWavDuration` over the chunks of a WAV file and `WavDuration` what
its turns return, compared with `TrueDuration`, which says what the duration is
without walking.  Objects of one time are listed in any order.  `Parties` splits a
name from its front, as this controller does; `NotifiedParties` from its end, as the
recorder does.  `since` remembers the files an item's header may be from.  Its
specification is `PageSpec`, and its types are `PageTypeOK`: the names leave those
of `GatewayRequests`, the other part of the gateway, to the proofs about both.

### Provisioning

`pjsip.conf` is a sequence of endpoint, auth and aor sections and blank lines; blank
lines matter because the `sed` range ends at one.  `SedDelete` keeps the lines that
no range has (`InRange`); `MCProvisioning` compares it with a scan from line to line
(`SedIsTheScan`).  A command is a step; `sed -i` is two (read, rename).  A command
can fail (`SshFails`), executed or not, or lose its connection (`SshCut`): then
`executeCommand` sees neither an exit code nor stderr and resolves, and the service
goes on as after a success. `GatewayTimeout` answers the client while the service
goes on.  `loaded` has, for each type of object, the sections Asterisk read last: of
a type with a doubled section a reload keeps the old ones (`Reloaded`) and a start
has none (`Started`). `turns` says whether a call waits for all others, for those
about its extension, or for none; `cut` remembers which calls lost a connection.

### GatewayRequests

A route is known by its guards, its requests to services and the metrics it touches
(`Kinds`): `relay` is any guarded route with one request and no body to check,
`create` the one guarded route with a body to check, `recordings` the two routes
that ask MinIO and have no time limit (`Limited`), `metrics` the one that Prometheus
reads.  The interceptor runs after the guards and around the ValidationPipe
(`Enters`, `AtOnce`, `Leaves`): a body that the pipe refuses is counted. A guard's
own request to the auth service has no time limit.  Time is counted in ticks, the
same for all timers; a tick comes only when no timer is due, and an answer at any
time or never.  The browser's timer ends when an answer's headers are there; its
body may never come (`told` is "body").  `login` and `asked` follow the auth
service's own wait for midPoint, which outlasts the gateway's, and which ends
neither with an answer nor with an error when the answer is cut off
(`AnswerCutOff`).

### AuthService

A row is the extension, the role, the SIP password (named after the call that drew
it) and whether there is a hash.  Extensions are numbers in the textual order of
`MAX` (four and five digits).  `MidpointAccepts` includes the gaps login fills;
`Save` writes the entity as read, because TypeORM's `save` makes the row equal to
the entity.  A save or an insert that rejects has been executed or not (`Reject`).
`seedHasSip`, chosen in `Init`, says whether the first rows have passwords or are
for a login to complete.  The column `enabled` is always TRUE: nothing changes it.

### Registration

A login of the auth service and the register-sip its browser sends afterwards are
one call, so an auth section named after a call holds the SIP password which that
call was told.  Registrations of new users go on beside, and so do the calls made by
hand (`Others`): removals, `POST /api/asterisk/extensions`, which any logged-in user
may send for any extension, and register-sip with a password typed into the SIP
form.  The section of such a call holds what the call brought.  Accounts, roles and
failures of the auth service are left to `auth_calls`, the gateway's timeout to
`provisioning_calls`.

### MidpointImport

One HTTP request a step, any other answer than the expected one a fault: an error
status, a lost answer (the change made or not), an unreadable file.  `httpRequest`
hears only the end of an answer, an error of the request and 30 s of silence: when
the connection closes within an answer its promise never settles, and the loop is
`hung` (`AnswerCutOff`).

### WebSession

A call of `webLogin`, `checkExistingSession` or `sipRegister` is a flow that waits
for one answer at a time and then goes on with whatever the page's globals have
become.  An answer comes or `apiRequest` gives up; either way the request may still
be at work in the gateway (`request`), where `createExtension` reads the file and
appends a section to it (`section`: nobody's, one password, or doubled).
`apiRequest` stops its timer when the headers are there, so a body that stalls
leaves its flow waiting (`BodyStalls`).  A user may have no extension (`lacking`):
then a login registers nothing, and the page it leaves has no form.  A row may have
no SIP password until a login that midPoint confirms draws one (`stored`, `Draws`):
a login by the local password passes the web password on instead
(`result.sip_password || password`).  `Types` is a user who fills the SIP form with
another extension or password.  A page load keeps the stored token and drops the
flows.  The races are a logout while a flow waits, a second login by the Enter key,
a login while the stored session is being restored, a typed SIP form and a stalled
body.  The phone is only the connection here; its calls are `WebPhone`'s, where
logins and logouts may come at any time.

### WebPhone

A step is one browser event with the callbacks it runs.  Of SIP.js it models what
the phone depends on: `simpleUser.session` is the last session made or received and
is forgotten when any session ends; a third session is refused; `call()` resolves
when the INVITE is sent; `call()` and `answer()` wait for the microphone, and settle
after the callbacks of a session that ended meanwhile; mute and hold do nothing
unless the call is established, a hold is a re-INVITE that the other party may
refuse, and only one is under way.  The races are call waiting, a slow microphone, a
logout whose sessions end later, a second registration, and the buttons.  A button
has a colour (`lit`) and a text (`said`): `endCall` and `onCallAnswered` take the
colour away, and nothing but the next click changes the text.

## 3. Runs

| run | instance | shows | states |
|---|---|---|---|
| `pipeline_archive` | one file, one handler, a writer that may pause, one fault; fair | the inductive invariant; the log; every step is the archive's, and so is the liveness | 637,595 |
| `pipeline_listed` | one file, two handlers, a steady writer, two faults; fair | objects are whole; rows, URLs and sizes; every finished recording is stored, and listed if nothing failed | 57,640 |
| `recordings_page` | three names, seven WAV files, three uploads, one fault | a duration is that of a stored file, and the parties are those the recorder notified | 1,391,161 |
| `provisioning_calls` | two extensions, four calls of which up to two at once, one fault | created extensions stay usable; endpoints keep their auth section; calls in turn keep sections unique | 2,016,972 |
| `gateway_requests` | two requests of any route; limits of 2, 3 and 6 ticks; restarts; fair | metrics account for every handler; who gives up on what; every handler with a limit and every wait ends | 25,764 |
| `auth_calls` | three users, one with a row; three calls; one fault or change in midPoint | extensions are unique, a refusal has its reason, what was answered is stored | 888,088 |
| `registration_logins` | two users, one with a row; three logins or registrations, a call by hand, two calls at once, one fault | an auth section holds the password of its extension's row, or what was sent by hand; who logged in registers | 3,178,652 |
| `import_loop` | the code's three configs, four users, three and five attempts; four faults or restarts; fair | the loop ends or hangs on a cut-off answer; ended, only what it gave up or misread is missing | 45,810 |
| `web_session` | two users, two flows, the races alone and two pairs of them, a user without extension or SIP password; fair | page, token and phone are one user's; what register-sip provisions; no page stays blank | 1,870,362 |
| `phone_races` | three sessions, any of the five races | panel, flags, history and the buttons' colours agree with the sessions | 1,690,634 |

Bounds.  One recording is enough for the recorder's races, which are between sources
for one name; that names do not mix is in the proofs, for any number of them.  Two
chunks give a part and a whole.  Two handlers give every race of two rows.  Three
names, two of them recordings, give an order; three uploads a replacement during a
listing and a new object beside it; the WAV files have every branch of the walk: odd
chunks, no format or data, another encoding, a header past the window of 80 bytes
(4096 in the code), a rate of 0.  Two extensions give a neighbour; four calls two
creations, a removal and another creation or removal; two at once every race of a
pair.  The three limits keep the order 10 s < 15 s < 2 x 10 s < 30 s of the code,
the only thing the proofs use of them.  Three calls for three users give
registrations that race for a number and for a name, or with a login or a
synchronisation that saves a stale row.  Two flows and two users give every overlap
of a pair; the unusual user (`Unusual`) comes with at most one race, and not with a
typed form.  Three sessions exceed the two SIP.js admits.  One fault shows every
error path once, in every place; the liveness results hold for it after any finite
number, as each fault is one counted step.

Symmetry is used in safety runs only, for sets whose members differ in name.
Deadlock is checked in all runs but `recordings_page`, whose one request is answered
in the end.  `Done` and `Ended` are stuttering steps for the states in which calls
that are bounded have all ended.

Conditions.  Some properties hold only under a condition that they state
themselves.  Except for the writer's pauses, a constant that `pipeline_archive`
sets, the same run goes beyond the condition too:

- `SteadyWriterStoredWhole` and `RowsAreRight` (the exact sizes) need a writer that
  does not pause; `FinishedIsListed` no fault, and for the URL in the `cdr` row that
  Asterisk has written it, or is prompt and the boot scan is over;
- `CreatedStaysUsable` needs that nobody removes, that no section is doubled and
  that the creation itself lost no connection; `SerialCallsKeepUnique` that calls
  wait for each other and no connection was lost;
- `AnswersAreStored`, of the password, needs rows that had one before any login, as
  those of `init.sql` and of `register` do; of the others, that no synchronisation
  saves the row, and then only says that what is stored was answered, or drawn by a
  login whose save was executed and rejected;
- `RegisterTakesMaxPlusOne` needs extensions below 10000, `RefusedLostToAnother` no
  fault, and as a theorem that those of the start are below 10000;
- `ProvisionedIsStored` is about the sections that no call by hand brought, and
  needs rows with a password before their first login; `LoggedInRegisters` also that
  nobody removes or sends another password for that extension, that calls about one
  extension wait for each other and that no command fails;
- `RequestsEnd` is not about the handlers of `recordings`, nor about bodies;
- `PageIsOneUsers`, `LoggedOutHasNoPhone`, `SectionsHoldStored` and the properties
  of the phone need that the races they name do not happen;
- `BlankPageEnds` excepts a failed connection, a stalled body of register-sip and a
  user without an extension.

What happens without the condition, or beside the properties:

- a pause of 5 s lets a part of a recording through the debounce and the stability
  check (`docs/architecture-guide.md:389` promises otherwise);
- the UPDATE of a recording that the boot scan uploads may find no `cdr` row yet:
  the recording is listed, its call has no URL, and nobody tries again;
- two creations of one extension that overlap append it twice, as grep and append
  are two sessions; a lost connection does the same to one creation, or reports one
  that was not made.  Asterisk then loads no endpoint at all after a restart, and
  nothing new after a reload;
- a removal leaves the `[ext-auth]` section and its password in the file, since the
  `sed` range starts at `[ext]` and ends at a blank line; creating the extension
  again doubles that section, without any race;
- from extension 10000 on `MAX`, which compares text, stays 9999: every registration
  takes the same number and is refused (`auth.service.ts:163`;
  `docs/architecture-guide.md:485` says the largest plus 1);
- the import takes any error status but 404 of the user check for a user that is
  there (`auth.service.ts:71`) and ends without it; `README.md:478` says that it
  repeats until all users are confirmed;
- two first logins of a row without SIP password draw two, answer both and store
  one; a synchronisation that read the row before may store none.  register-sip may
  have provisioned the other one: later logins are told the stored password,
  register-sip meets the old section and hides that, and the phone is refused until
  somebody removes the extension;
- a save that is executed and still rejects stores a password that its login was not
  answered; the next login is;
- `POST /api/asterisk/extensions`, or a password typed into the SIP form, provisions
  an extension with a password that no row has: later logins of its user are refused
  by Asterisk until somebody removes the extension.  The web password does the same
  when a login by the local hash finds a row without a SIP password;
- an answer of midPoint that is cut off within its body stops the import loop for
  good, and a login never falls back: the gateway's limit answers for it;
- when midPoint hangs, the auth service falls back on the local password after 30 s
  (`auth.service.ts:368`), 20 s after the gateway has answered with an error: the
  fallback of `README.md:459` helps only when midPoint refuses or fails sooner;
- the gauge keeps the handlers of the recordings routes that MinIO never answers; a
  login that the ValidationPipe refuses is a request of the metrics, but neither a
  session nor a failure;
- a request whose guard gets no answer is in no metric; `active_sessions` is raised
  by each login and never lowered (`app.controller.ts:51`);
- register-sip may take 20 s and its guard, and the browser gives up after 15: the
  section is then appended although the page shows the SIP form;
- a logout during the registration lets `autoRegisterSip` connect a phone on the
  login page; a stored token that is refused after a new login was answered wipes
  the new token (`app.js:325`); the SIP form, while the web password is remembered,
  uses it for its REGISTER in place of the field's (`app.js:419`), which Asterisk
  refuses;
- a body that stalls after its headers is waited for without limit (`app.js:121`):
  after a login the page stays blank; it does so too for a user without an
  extension, whose message is written into the form that has just been hidden
  (`app.js:290`);
- a second INVITE takes `simpleUser.session` although `onCallReceived` returns early
  (`app.js:378`): the established call cannot be hung up any more, which
  `README.md:213` says of both ends;
- a CANCEL while `answer()` waits for the microphone leaves `isInCall` set without a
  session, and later calls are dropped at line 378;
- `call()` resolves when the INVITE is sent, so an unanswered call enters the
  history as answered; a second press of the button forgets a timer that later hangs
  up whatever call is on;
- a mute or hold pressed before the call is established, or refused by the other
  party, leaves a button that shows what is not so;
- the texts of the mute and hold buttons are never reset: after a call that was
  muted the next one begins with a button that says so and has no colour;
- of a recording's name with a "-" within a part, the page and the table name
  different parties: one counts from the front, the other from the end.

### Disagreements the runs show

Each is a run that ends in a counterexample; `PROJECT.json` quotes the lines.

| run | the code |
|---|---|
| `recorder_missed` | never replaces a part the boot scan stored, if the call ended before the watcher was open |
| `provisioning_neighbour` | removing an extension deletes the endpoint section of the one created after it |

### Fairness

- Recorder: weak fairness of start-up, of timers, of each poller task, of the next
  await of each upload, and of time passing for a closed file.  Node's event loop
  runs every settled promise and due timer; MinIO's client and the 5 s timeout
  settle every request.  Nothing is assumed of the writer: a call may last for
  ever.  `FinishedIsStored` assumes that the bucket exists: `ensureBucket` gives up
  after 30 attempts.
- Pipeline: also that statements of the CDR service end and that Asterisk writes the
  `cdr` row.  `FinishedIsListed` is for no faults: a lost notification is not sent
  again.
- Import: weak fairness of the next request, since each ends by an answer, an error
  or 30 s of silence; the answer that is cut off is a step of its own, after which
  no request follows.
- Gateway requests: time passes, due timers run, and a request that no guard holds
  goes on; no answer has to come, of a guard, a service or MinIO, nor the body of
  one.
- Web session: a flow's answer or error comes unless its body has stalled, as
  `apiRequest` gives up after 15 s on headers; SIP.js's transport connects or gives
  up.  The user need not do anything.
- The other modules have safety properties only.

## 4. Proofs

All proofs are for arbitrary constants under the named assumptions on them (disjoint
task names, natural bounds, finite sets where something is counted), with any number
of files, tasks, handlers, extensions, requests, users, flows, sessions and faults.
Each module proves an inductive invariant, a step per action, and the properties
from it; most are not inductive by themselves.  A few theorems have a hypothesis of
their own, stated in them: `FourDigits`, `AnyExtension` or `WellFormedFiles`.

Every safety invariant that a passing run checks is a theorem, and so is the action
property `RegisterTakesMaxPlusOne`.  Five more properties of steps are theorems that
no run checks by name: `NothingIsLost`, `RemovedIsGone`, `IdentityIsKept`,
`EveryStepCounts` and `TimeRunsOut`.

- **Recorder.**  `RecorderInv` is inductive.  That a logged name has an object needs
  `PutInFlight` (a PUT sends at least a chunk, and when its answer is awaited the
  object is there), which needs that the stability check refuses an empty file and
  that a task at an await has a file (`HasFile`).  That a steady writer is stored
  whole needs `SteadyTasks`: past the check the file is closed, since equal sizes 2
  s apart mean 2 s without a write or a closed file, and such a writer's file is
  quiet for 2 s only when closed.
- **Pipeline.**  `PipeInv` adds what handlers know (`PipeKnowledge`).  A step of the
  recorder keeps every object (`ObjectsStay`), so rows, URLs and messages stay about
  stored objects; the row is there before the URL since a handler that has inserted
  knows its row.  From it, `PipelineImplementsArchive`: the initial state maps to
  the archive's, and every step of the two services to a step of the archive or a
  stutter.  What any archive promises is proved of the abstract specification alone
  (`ArchivePromises`: `ArchiveSafe`, `NothingIsLost`) and holds of the two services
  by the refinement (`PipelineKeepsPromises`).
- **Rows.**  `RowsInv` says that rows and messages not yet handled are together at
  most as many as PUTs that were answered: such an answer sends one message, and a
  handler that inserts leaves one unhandled less for one row more.  For the exact
  sizes, `SteadyCopies`: behind a writer that does not pause, a task past its check,
  a message and a row all have the size of the closed file.
- **Provisioning.**  `CreationInv` is about behaviours in which nobody removes.  The
  file then only grows (`BlocksAreKept`): a creation past its append has its
  sections in it, so the reload it ends with loads them, and later reloads and
  starts do as well.  `StepKeeps` says what any step does in terms of the file; the
  lemmas before it, what appending a block does to a file (`FileGrows`,
  `AppendKeepsUnique`).  If calls about one extension wait for each other,
  `SectionsAreUnique`: a creation at its append has a name that is new to the file,
  which another one's append leaves so, and `CreationsInTurnRegister` follows, the
  condition on doubled sections gone.  `SectionsHaveCreations` adds that without
  failures every section is of a creation that goes on to its reload, so that a call
  which meets a section of its extension can rely on it
  (`UndisturbedCreationsRegister`).  `AuthSectionsHaveCreations` is for all
  behaviours: an auth section, in the file or in Asterisk, is of the call it is
  named after.
- **Removals.**  `SedKeeps` says of any file that the lines left are those in no
  range, in their order; it is by induction over the lines (the least line it would
  fail at), since the recursive function in `SedDelete` has to be shown to exist
  first (`KeptExists`).  An endpoint is written with a blank line and its auth
  section after it; a range cannot reach the section past the blank line, and takes
  the blank line only with the endpoint: `AuthFollows`, of the file and of sed's
  temporary ones, is inductive, and gives `EndpointHasAuth`.  `HeadersAreUnique` is
  the same for calls in turn: a creation at its append knows that its headers are
  new, and nobody else is at work.  Every line with a header of the extension starts
  a range, so what sed keeps has none (`RemovalInv`), and the reload of a removal in
  turn takes the extension out of Asterisk, although `removeExtension` does not look
  at what sed has left (`RemovedIsGone`).  That the ranges are what sed finds in one
  pass is `SedScansTheFile`: for every file there is a scan that deletes or prints
  line by line, and what any such scan has printed at the end is `SedDelete`.
- **Registration.**  Both services' proofs are used as they are, through instances
  of their modules: a step of the composition is a step of each service or leaves it
  alone.  What is new is `CallsInv`, that a register-sip is about the extension its
  login was told and that this is the row's, after it as well, since extensions of
  rows never change.  Sections then hold stored passwords, but for those of calls by
  hand: each is of a call about its extension (`AuthSectionsHaveCreations`), and
  `AnswersAreStored` says that what a login was told is stored; `LoggedInRegisters`
  is `UndisturbedCreationsRegister` for the section that serves the login.  The
  composition implements each service: `RegistrationImplementsUsers`, and
  `RegistrationImplementsProvisioning`, which needs that `register` never draws an
  extension that provisioning does not know.  Both this and `LoggedInRegisters` have
  the hypothesis `AnyExtension`: the set of extensions of the instance has every
  number `register` can draw, as Asterisk's sections do.
- **Gateway requests.**  `TimersAgree`: of a login or a registration that is waited
  for, the browser's timer and the gateway's began together, and the gateway's is
  the shorter; so are the auth service's and the gateway's.  `MetricsExact` is
  inductive by counting: a step moves one request from one set to another, those
  that the pipe refuses or that ask no service in one step. `TimeRunsOut`: the
  limits before a handler (`TimeLeft`) are never raised, not by the second request
  of `registerSip` either, and every tick lowers them; the handlers of recordings
  have none, and a body has none.
- **List of recordings.**  `PageInv`: from the listing on, the items are one for
  each name whose callback runs, sorted; a permutation of finitely many rows has
  each of them (`PermutationsHaveAll`), and no callback touches another one's item.
  The duration is in two parts.  `LoopFindsDuration`, about the reader alone: after
  k turns it stands at the chunk k + 1 with the rate of the format chunk it has
  passed, if any, or has returned `TrueDuration` (`Passed`, by induction over the
  turns, from offsets that grow by induction over the chunks); each turn passes 8
  bytes, so the loop ends.  It is for files of any length under `WellFormedFiles`,
  what the WAV format says of the format chunk: one at most, of an even size and 16
  bytes at least.  `DurationInv`, about the races: a listed name stays stored, and
  what the header is read from is one of the files in `since`.
- **Users.**  `UsersInv` says what a call holds between its reading and its writing:
  the extension of its row, and its password where the row had one (`EntityOfRow`),
  so saving a stale entity changes neither; where it had none, an entity that a
  login has yet to complete is not older than what is accounted for
  (`ReadOrAnswered`): answered, or drawn by a login whose save rejected although it
  was executed.  `RefusalInv` is about refusals: an extension that a registration
  took as the largest plus 1, and that a row has by the time it inserts, was not
  there when it asked, so another registration has been answered it.  The hypothesis
  `FourDigits`, that the extensions of the start are below 10000, is needed: with
  9999 and 10000 both in the table the textual maximum is taken. `IdentityIsKept`
  needs `EntityOfRow` only: a save writes back the extension, and the password there
  was, whatever else the entity has missed.
- **Import.**  `PassSoFar` says what the pass under way has dealt with; at the end
  of the loop it is all configs and users.  `EveryStepCounts` has the measure
  `StepsLeft`: the requests to the end of the pass, another import and pass when a
  user will be found missing, and all of that again for each failure, cut-off answer
  or restart that may come.  Deleting and posting a config that is there does not
  raise it.
- **Web session.**  `PasswordsStored`: whatever races but typing, register-sip is
  given what a login passes on (`Passed`: the row's password, or the web one after a
  login that brought none), by the form too, since without a remembered login its
  fields and its token are the restored session's.  `LoginPageIsBare`,
  `RestoreIsAlone` and `OneUser` say what cannot happen without each of the races.
- **Phone.**  `InHandIsLive`: the session in hand is one of this SimpleUser and not
  over.  `SingleCall`: without call waiting and slow logouts it is the only live
  one; `PromptStates`: a prompt microphone never settles after its session's end;
  `EntriesAreOver`: the history counts calls that are over; `MediaIsEstablished`:
  SIP.js mutes and holds established calls only.

The type invariants of the gateway's requests and of the web session are theorems
that no run checks by name; `PageTypeOK` is part of `PageInv`.  `Registration` has
the two services' types (`UsersTypes`, `FileTypes`) and those in `CallsInv`.  TLC
has checked the inductive invariants on the runs' instances before they were proved.

Only model-checked:

- liveness (`FinishedIsStored`, `FinishedIsListed`, the archive's fairness,
  `ImportEnds`, `RequestsEnd`, `BlankPageEnds`), because fairness and ENABLED are
  out of the prover's reach.  `PipelineImplementsArchive` is the safety part of
  `ImplementsFairArchive`, `EveryRequestCounts` of `ImportEnds`, and
  `TimeAlwaysRunsOut` of `RequestsEnd`; that a step is taken at all is the runs';
- that the scan of `SedScansTheFile` is the fold `Scan` of `MCProvisioning`, by
  `SedIsTheScan` on short files: `FoldLeft` is recursive over data.

Neither checked nor proved are the durations of files outside `WellFormedFiles`: the
code adds no padding after a format chunk of an odd size
(`recordings.controller.ts:54`), and of several format chunks takes the last before
the data.

## 5. Not modelled

- A PUT that reaches MinIO after the recorder has died; the header rewrite at close
  as a write of its own size.
- The recorder's file access check (a file is not deleted here).
- Queries of the CDR service: single SELECTs that PostgreSQL computes.
- Of the gateway: the histograms and labels of the metrics; `calls_processed_total`,
  which is raised by each query by all the calls it finds, and so counts no calls.
- `enabled`; the contents of tokens and their expiry.
- Of the browser: DTMF, a lost WebSocket, contacts, the pages that render history
  and recordings.
- Which of two stale roles stays when a login and a synchronisation save one row:
  both steps are modelled, but neither source of the role has a stated priority, so
  there is no right answer to check.
- SIP, SQL and MinIO themselves beyond what the services use of them.
- Deployment, monitoring and midPoint's own configuration.

## 6. What is left

1. The liveness of a login that is answered in `Registration`, under fairness of
   both services, as a run.
2. A lost WebSocket in `WebPhone`: SIP.js's reconnection, with the flags the page
   keeps meanwhile.
