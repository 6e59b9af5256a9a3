# A TLA+ verification of logos-cpp-sdk

logos-cpp-sdk is the C++ SDK of the Logos platform. It has two halves:

* a **header-only runtime** (`src/cpp/`) that a module links: the client through
  which it calls other modules (`logos_lp_client.h`), the context it is given
  (`logos_module_context.h`), the identity of its callers (`logos_caller.h`) and
  the host side of the module runtime (`logos_host_core.h`);
* a **code generator** (`src/cpp-generator/`) that turns a module's interface
  (a `.lidl` file or a C++ header) into the C-ABI export unit of the module and
  into typed wrappers for its consumers.

Below both lies logos-protocol, a C ABI (`lp_*`, `logos_module_*`) whose
sources are not in this repository. The models say what they assume of it and
`PROJECT.json` marks those definitions as external.

The hard part of this code is at run time: clients created by whichever thread
calls first, callbacks that cross a C ABI in a heap box, cancellation that races
destruction, an export unit entered by several host threads, a per-thread stack
of callers under re-entrant event loops. The second hard part is that a value
crosses three tables of types, kept in three files, on its way from a caller to a
handler. The third is the generator's own run: two hand-written scanners that
must not lose their place in a C++ header, and a command line that leaves many
files behind and may stop between any two. The project models these three.

## Contents

| file | what it is |
|---|---|
| `LpClient.tla`, `CreateOnce.tla` | the lazy client, and the abstract promise it implements |
| `LpInvoke.tla` | one remote call: blocking, asynchronous, with and without an error channel |
| `Subscription.tla`, `SoleOwner.tla` | event subscriptions, tickets, moves, destructors, delivery, and the abstract promise they implement |
| `ModuleExports.tla` | the generated export unit: context latch, emit callback, dispatch entry |
| `Teardown.tla` | about_to_unload and unloadFinished, composed with ModuleExports |
| `CallerDocument.tla`, `CallerStack.tla` | parseCaller, and the per-thread stack of callers |
| `SubStatus.tla` | status watchers of a target, the restart policy, rearming |
| `Terms.tla`, `TypeRules.tla`, `WrapperRules.tla`, `HeaderRules.tla` | the words of types and values; one level of each recursion over them, the provider's, the caller's and the header parser's |
| `Lidl.tla`, `Codec.tla` | the recursions themselves: types and their spellings, values on the wire |
| `Exchange.tla`, `TypedCall.tla`, `AnyDepth.tla` | a call or event from gate to answer, for any conversions; the same with the generated ones, value for value; and with any that follow the generated ones' rules |
| `CppTypes.tla` | the recursions of the header parser: the type a spelling declares, and what is reported of it |
| `Header.tla`, `HeaderScan.tla` | what C++ makes of a header's lines, and what the two scanners make of them |
| `Generator.tla` | runs of the command line over one output directory, composed with HeaderScan |
| `MC*.tla`, `*.cfg` | instances for TLC |
| `*_proofs.tla` | theorems and their proofs for TLAPS |
| `PROJECT.json` | components, runs, mutants, the map to source lines, hazards, theorems |

Each model is followed by its properties in the same module. An operator whose
comment starts with "Fault:" is a mutated form of the definition below it. No
specification uses it; `PROJECT.json` pairs it with the property it violates.

## Inventory

For each component: its state, its operations, who it interacts with, what is
hard, and what makes it correct.

### LpClient: the lazy client (`cpp/logos_lp_client.h:503-517`)
*State*: one atomic pointer `m_client`. *Operations*: the constructor, `ensure()`
(entered by every method), the destructor. *Interacts with* `lp_client_create`,
which for a Qt transport posts the construction to the Qt main thread and blocks.
*Hard*: several threads make the first call; each may build a client; a
construction may fail; the main thread may itself be in `ensure()`.
*Correct if* all callers use one live client, losers free exactly their own,
a failure is not cached, nobody deadlocks. **Modelled: LpClient, CreateOnce.**

### LpClient: calls (`logos_lp_client.h:259-371, 519-557`, `generator_lib.cpp:940-972, 1705-1800`)
*State*: per call, the boxed callback (`new std::function`) and two C strings.
*Operations*: `invoke`, `invokeAsync`, `invokeAsyncResult`, two trampolines, and
the rejection fold in the generated wrappers. *Hard*: the ABI refuses
synchronously and then never calls back, or accepts and may call back before it
returns; a provider's rejection comes as a successful result; an error may not
be JSON; a caller reuses one `CallError`; the arguments are dumped when the callback
is in its box, and that may throw. *Correct if* each call completes once,
is told what happened, and gives its memory back. **Modelled: LpInvoke.**

### LpClient: subscriptions (`logos_lp_client.h:120-239, 373-398, 559-569`)
*State*: a shared cell with an atomic handle, the owner `LpSubscription` with the
callback's box, weak tickets (`SubHandle`). *Operations*: subscribe, move,
move-assign, destroy, `cancel()` of the object and of a ticket, delivery.
*Hard*: tickets on any thread against the owner's destructor; a callback that
cancels its own subscription, or ends its owner. *Correct if* one thread unsubscribes, no handle is
lost or owned twice, tickets expire for good, the box outlives the callbacks.
**Modelled: Subscription, SoleOwner.**

### LpClient: target status (`logos_lp_client.h:400-502, 571-626`)
*State*: a status callback under a mutex; in the runtime, the target's current
transition, its generation and the restart policy. *Operations*:
`onSubscriptionStatus`, `statusTrampoline`, `setRestartPolicy`,
`rearmSubscriptions`; `subscriptionGeneration` only reads. *Hard*: a watcher
installed or replaced while transitions are delivered; a watcher that calls the
client from inside its callback; a status code of a newer runtime; a client
destroyed while its trampoline runs. *Correct if* the installed watcher ends up
knowing where the target is, an unnamed status is never taken for an arm, and
nothing blocks. **Modelled: SubStatus** (the last of the hazards is the runtime's).

### Module exports (`lidl_gen_cdylib.cpp:640-1110`, `logos_module_context.h`)
*State*: the stored context, the emit callback, the `g_hookFired` flag, two
mutexes, two `call_once` flags; in the module its context and emitter.
*Operations*: `set_context`, `set_emit_callback`, `dispatch`, events, and for
teardown `set_unload_done_callback`, `about_to_unload`. *Interacts with* the host
(which calls in any order, from any thread) and the module's own code. *Hard*:
the latch tests and sets its flag in two steps; the hook may emit; the emit
callback is called under its mutex; the module may finish its unload inline.
*Correct if* the hook finds everything wired, is not lost, fires once and before
the handlers; events reach only the installed callback; exports return; a
finished module is heard. **Modelled: ModuleExports, Teardown.**

### Dispatch table (`lidl_gen_cdylib.cpp:100-280, 365-430, 700-720, 780-912`)
*State*: none of its own; one call. *Operations*: look the method up, check the
number of arguments, decode each, call the handler, encode its result, answer an
error. *Interacts with* the caller's generated wrapper, which may come from
another version of the contract. *Hard*: optional parameters that are absent or
null; numbers that do not fit; bytes inside containers; refusals that look like
results. *Correct if* the handler runs exactly on well-typed arguments, values
arrive as they were meant, refusals are told. **Modelled: Exchange, TypedCall,
Codec, over TypeRules.**

### Caller identity (`logos_caller.h`)
*State*: a `thread_local` vector of parsed identities. *Operations*:
`parseCaller`, `setCallCaller` (push and pop), `currentCaller`. *Hard*: a handler
that blocks spins an event loop and is re-entered by another dispatch; the hook
runs inside the dispatch that fires it; documents from newer protocols.
*Correct if* a handler always reads its own caller and a document never grants
more than it says. **Modelled: CallerDocument, CallerStack.**

### Host side (`logos_host_core.h`, `logos_host_services.h`)
*State*: none. `LogosCore` forwards each method to one `lp_core_*` function and
converts its result; the order of start, load and unload is kept, and its
misuse answered, by logos-protocol. The host services are requests to the host's
own modules, one `LpClient` call each, and such a call is `LpInvoke`. **Not
modelled**: what could be said of them would be a model of the other repository.

### Values (`logos_json.h`, `logos_result.h`, `logos_lp_client.h:20-110`)
Conversions of one JSON value, with defaults for a value of another type. No
state. **Modelled in WrapperRules and Codec** as far as Qt-free wrappers use them.

### Type mapping and gate (`lidl_emit_common.cpp`, `lidl_compat.h`, `lidl_to_json.cpp`, tables of `generator_lib.cpp` and `lidl_gen_cdylib.cpp`)
Which types a provider may use, and four spellings of each: the provider's C++,
the contract's flat Qt names, and from those the Qt and the Qt-free caller's C++;
and a fifth table reads a header's C++ back into types (`cppTypeToLidl`).
*Hard*: the tables never see each other. *Correct if* a value means the same in
all of them. **Modelled in TypeRules, WrapperRules, HeaderRules, Lidl and CppTypes**,
but for the Qt-typed caller's.

### Impl header parser (`experimental/impl_header_parser.cpp`)
*State*: for the class scanner, where it is, a brace depth, a pending doc
comment, a flag for a block comment; for the struct scanner, the struct and the
depth it is at and a declaration it is joining; for both, the lists of what was
unsupported or unreadable. *Operations*: one line, and at the end the closure of
the records that the API reaches and a verdict. *Hard*: braces and parentheses in
comments, declarations over several lines, scopes inside scopes, and that what
is not understood is skipped without a word. *Correct if* an accepted header is
published as it stands and a refused one has a reason. **Modelled: Header,
HeaderScan, HeaderRules, CppTypes**, but for events declared in `metadata.json`.

### Generator command line (`main.cpp`, `plugin_introspect.cpp`, `lidlGenerateClientStubs`, umbrella of `generator_lib.cpp`)
*State*: the output directory, a synthetic metadata file, and what the command
line asked for. *Operations*: eight modes, each a fixed order of checks,
scans and writes; the umbrella names what the command line, the metadata or the
directory itself lists. *Hard*: a failure between two files of a pair, runs over
the files of earlier ones, names given twice. *Correct if* a refusal
leaves no half of a pair, the umbrella names each wrapper once and only
wrappers there are, and no temporary stays. **Modelled: Generator.** What a
loaded plugin answers about itself, in a child process, is left out: only
whether it answered is a step.

### Emitted text (`generator_lib.cpp`, `experimental/lidl_gen_client.cpp`)
The generator's output is modelled by what it does when it runs: the export unit
in ModuleExports and Exchange, the Qt-free wrapper in LpInvoke, Subscription
and Exchange, their conversions in Codec. The bodies of Qt-typed wrappers, and with
them all the text of the LIDL client emitter, are left out.

## The modules and the code

An action is one step that no other thread can cut in two: what lies between two
atomic operations, two lock regions, or two calls of the C ABI.

**LpClient.** `mClient` is `m_client`; `pc` is a thread's place in `ensure()`;
`fresh` its local variable; `heap` the lives of the clients, each name used once,
so that a use after destruction is visible. `Load` is the acquire load, `Construct`
and `ConstructFails` the two results of `lp_client_create`, `Publish` the
compare-exchange, `Discard` the loser's `lp_client_destroy`, `Destroy` the
destructor, which C++ allows only when no member call runs. `CanConstruct` says
that a worker's construction needs the main thread's event loop, which turns
only while that thread is outside any call.
`CreateOnce` states the promise (answers are Null or *the* published client,
published once) and `ImplementsCreateOnce` is the refinement: `published` is
`mClient`, and a thread's answer is `got` unless it is inside `ensure()`.

**Header.** The text is the module author's, so it is modelled as what the
scanners can tell apart in a line: its `kind` (a method, a field, a comment, what
opens or closes a scope...), a section specifier on it (`spec`), `who` it
declares, the types it mentions (`sig`: a record, something plain, or something
LIDL does not have) and the braces in a comment on it (`junk`). `WellFormed` says
which lines a header may go on with; `Scope` and `Means` say what C++ makes of
them, in variables whose names start with t. The *plain style* is defined above
`AllQuirks`: a declaration has its line to itself, from its type to its semicolon,
except that its parentheses may run on over lines; a parameter is a type and then a
name; comments stand between lines. `Quirks` is the set of forms beyond it that the
header uses, each one of `AllQuirks`; `Forms` says what the class scanner makes of a
method written in one. `Faults` is what a contract cannot express.

**HeaderScan.** The code runs one scanner over all lines and then the other;
they share nothing, so the module lets them read each line together. The class
scanner's actions are one per branch of its loop (`Looking`, `FindClass`, ...)
with `st`, `depth`, `doc` and `block` for its locals; the struct scanner's are one
per place it can be in. `Merged` is the joining of a line whose parentheses are
open. `parseMethodLine` cuts names and types out of a line's text; `SigRead` is what it
gets, the signature as written for the plain forms and another one (or one that is
refused) for the others. `Verdict` is the end: `Reachable` is the closure of the records that the API
mentions, and the order of the refusals is the code's.

**Generator.** A run is a sequence `todo` of the steps `check`, `scan`, `temp` and
`write`, each with the exit codes that it may end the run with; `Plan` gives the
sequence of each mode in the code's order and `ModeOf` the mode of a command line.
`Pass` and `Refuse`, `WriteFile` and `WriteFails`, `ScanHeader` and `WriteTemp` take the
next step. Umbrella mode fills its sequence as it collects names (`Interface`,
`Dependency`, `TakeMembers`); its loops over wrappers keep in `left` the specs they have
still to come to (`Loop`, `NextWrapper`, `LoopEnds`). `disk` stays from run to run. The
header is read by HeaderScan before the first run; of what was read only the contract's
outcome is kept.

**LpInvoke.** A call goes `Begin`, then `NoClient` or the ABI: `CallAsync` boxes
the callback, and the ABI's `Accept`/`Refuse`, `Trampoline` and `DeleteBox`
interleave with the caller's `ReturnAccepted`/`ReturnRefused`. `CallBlocking` and
`Decode` are the blocking path with its two C strings. Replies are abstracted to
the six kinds of `Bodies`, the ones that some branch of the code tells apart.
`truth` is a history variable: what really happened, to be compared with
`outcome`, what the callback was told. The operation "invoke" is
`LpClient::invoke` with a reused `CallError`, the others are generated methods.
`ArgsThrow` is `args.dump()` on a string that is not UTF-8: the caller has the
exception instead of a call, and an asynchronous one has boxed its callback by then.
`LosesItsBox` names this and the refusal of `invokeAsync`, the two cases in which the
code loses a box; `NothingElseLeaks` says that a box is left over in exactly these.

**Subscription.** `cell` is the atomic `lp_subscription*`, `dropped` says that the
owner's `shared_ptr` is gone (tickets that locked it keep it alive: `CellAlive`),
`slot` the `LpSubscription` objects, `box` the callback's allocation, `lp` the
ABI's handle. `Exchange` is the one atomic exchange of `lpSubCellRelease`;
`Unsubscribe` and `Drained` are the beginning and the end of `lp_unsubscribe`;
`DropCell` and `FreeBox` the rest of `reset()`. A callback may do all that any other
thread may: nothing in `reset()` asks where it is called from. The variable `caution`,
chosen at the start, is how carefully the program uses this: "apart" (no cancel overlaps
the owner's end, and no callback ends, by destroying or assigning over it, the
subscription it is called from), "inside" (cancels are kept apart, but callbacks may end
their own), "tickets" (callbacks do not end their own, but tickets race the end, as
their comment allows), "none" (all of it, and `cancel()` on the object itself races its
destructor).
`SoleOwner` states the promise: a registration is taken, kept by one holder, handed on
but never shared, given up once, closed once, and freed only when nobody but who
closes it is inside its callback. `ImplementsSoleOwner` is the refinement: an object
holds its subscription while the cell is armed (`Holds`), and the winner of the
exchange has given it up for whoever that is (`Stage`).

**ModuleExports.** The steps of `lidlTryFireContext` are `LoadFlag` (after both
`call_once`), `CopyContext` (under `g_ctxMutex`), `EmitCheck` (under `g_emitMutex`),
`Latch` (the store), `EnterHook` and `LeaveHook`. An emission waits for the mutex
(`WantEmit`) and calls the host under it (`EnterEmit` to `LeaveEmit`). The variable
`overlaps`, chosen at the start, says whether the host overlaps exports before
the hook has run. `due` is a history variable: a context had been delivered when
the dispatch began.

**Teardown.** Composes ModuleExports with the unload: each step is one of the
exports (`Exports`) or one of the teardown, on the same threads and the same
module. The host listens, announces, waits, hears or gives up, and takes its
callback back; the module's threads finish at any point, the hook's own thread
included. `CopyOut` copies under `g_unloadMutex`, `CallOutside` calls.

**CallerStack.** `stack` is the vector of each thread, `frames` the module code
that runs on it, so that "the caller of this handler" has a meaning that does not
depend on the stack: a frame carries the document its dispatch came with. `level`
in a frame is a history field used by the proofs. `Arrives` is a dispatch on a
free thread or inside the event loop of a handler or hook; `FindsHookDue` and
`FireInDispatch` keep the latch's test apart from its set. `CallerDocument!Parse`
is `parseCaller`; a field is absent, not a string, empty, or a name.

**SubStatus.** `status` is `m_status`, `mutex` is `m_statusMu`. `Install`,
`LockToStore`, `Store` and `Register` are the steps of `onSubscriptionStatus`;
`Deliver`, `CopyOut`, `Call` and `WatcherReturns` those of the trampoline, which
drops a notice if nothing is installed or its code has no name (`Dropped`). The
runtime is external: it delivers in order on one thread (`queue`), and replays the
current transition to whoever registers (`Replay`). The delivering thread may call
the client from inside a watcher (`Free`). `told` is a history variable.

**Exchange.** An exchange is `Generate` (the gate), then `Pack`, one of
`UnknownMethod`, `InvalidArgs`, `DecodeFails` and `CallHandler`, then
`HandlerReturns` or `HandlerThrows`, and `Tell`; an event is `Emit` and `Hear`. What
becomes of a value is left to constant operators (`Encode`, `Decode`, `Read`, ...);
`CodecIsLawful` is what the exchange needs of them. `meant` is a history variable.

**Terms, TypeRules, WrapperRules, HeaderRules, Lidl, CppTypes, Codec, TypedCall.** A type is the
frontend's TypeExpr; a spelling is a tuple of a template and its arguments. The
generated code's recursions over types are written in two layers. A *rule* is one
level of a recursion, with an operator parameter for what the recursion makes of the
parts: `SupportedRule` is the gate, `SpellingRule` the provider's C++, `FromJsonRule` the
strict codec, `ArgumentRule` its use for arguments, `EncodeRule` the encoding on both
sides; in WrapperRules `QtRule` is the contract's flat name, `TypeForLp` the caller's C++,
`FromWireRule` the lenient reads of a wrapper; in HeaderRules `CppTypeRule` is the type of
a header's spelling, `UnsupportedRule` and `UnmappableRule` what is reported of it. Lidl,
Codec and CppTypes close the rules with recursive operators named for the code's
functions (`TypeSupported`, `TypeToStdCdylib`, `FromJson`, `JsonArgToStd`,
`CppTypeToLidl`, ...). TypedCall is Exchange with these for its constants (`TypedCall.cfg` names
them) and the generated gate. A caller whose wrapper leaves a type untyped may pass any
JSON, once in a call (`MadeUp`). `Inhabits` and `IsHeld` are the reference definitions of
a type's JSON and of its C++ values, written from what the types mean, not from the codec.

**AnyDepth.** The same exchange with unknown operators in the place of the recursive
ones. Of each the module assumes that it closes its rule, over a set of types, of wire
values and of C++ values that contains the parts of its members (`CodecIsRecursive`,
`GateIsRecursive`, ...); records may hold themselves. It also assumes what contracts and
values are: a provider's types passed the gate, a caller's records their check
(`ContractsAreGated`), an author's code holds values of the declared types (`HeldIsTyped`),
record names are not Qt type names (`RecordNamesAreTheirOwn`). `SpellingsAgree` compares
the gate with the provider's spellings and these with what the header parser makes of
them, and what an author may write with what is published: `ReadsBack` and
`PublishedAsWritten` are the two directions. In the run `TypedCall` the
unknown operators are the recursive ones, and TLC evaluates every assumption. No
recursive declaration is reachable from AnyDepth, so that proofs may use it.

## Runs

| run | instance | question |
|---|---|---|
| `LpClient` | main thread, 2 workers, 3 clients, Qt transport, fair | one live client, none leaked, refinement, `ensure()` waits for no other thread and returns |
| `LpInvoke` | 2 calls, any operation, any reply, arguments that throw, fair | completes once, truthfully, memory sound, nothing sticks, completes in the end |
| `Subscription` | 2 threads, 2 subscriptions, 2 objects, every caution, fair | one unsubscribe, one owner, expiry with it, everything released, refinement; and the guarantees of careful programs |
| `Teardown` | host and worker, 1 context, 2 callbacks, fair | the latch, the emit mutex, the unload; all exports return |
| `CallerStack` | 2 threads, depth 2, 8 documents | own caller, whole, never wider |
| `SubStatus` | 1 installer and the delivering thread, 2 watchers, 2 installs, 2 generations, fair | watcher not misled, waits for the mutex alone, no block |
| `TypedCall` | all types two constructors deep, callers of other contracts, lists of 2 parameters, all spellings two templates deep | who is called with what, what is told, whether the spellings agree, the law of the conversions, and the assumptions of AnyDepth |
| `Generator` | headers that keep to the plain style with at most one fault, 2 records, 2 modules, 2 runs | the contract is the header or is refused for a reason; what a run leaves is whole |
| `LpInvoke_refusal`, `Subscription_uaf`, `TypedCall_null`, `HeaderScan_comment` | as the run before the underscore, or smaller | documented statements that the code does not keep (below) |

**Bounds, and why they suffice.** In `LpClient` three threads are a winner, a loser and
a third that sees the result. In `Subscription` two are the owner's and the canceller's,
and either may be inside a callback; its documented race needs a third that delivers
meanwhile, which `Subscription_uaf` has. `LpClient` has a client for each thread, so
that every racer can build one; constructions beyond that can only fail. Two calls share
nothing but a caller's `CallError`. Two slots give a move its source and its
destination, two subscriptions an assignment over a live object. Two threads overlap two
exports in every way the two-step latch distinguishes, and two callbacks let one replace
the other; a second context would only be delivered like the first (it wins or loses
under the same mutex). Nesting depth 2 lets an inner dispatch return to an outer one; a
hook adds a frame on top of it. The eight documents hold one of each form that
`parseCaller` distinguishes (complete, incomplete, mistyped, foreign, not an object).
Two installs let one watcher replace the other, a watcher reinstall itself or be
removed; two generations are a loss between two arms. Every recursion over types treats
the type inside a constructor like any other, or asks only whether it is a scalar, `any`
or a record, so two constructors over those reach every pair of rules; three record
declarations hold optional fields in both spellings, bytes, a container, and the
`_bytes` field alone and accompanied. A header has two records, so that one may be
reached through the other, in either order, or not at all; one name serves a method, an
event or a free function; one field suffices, as a struct's fields are read
independently of each other; one fault shows each refusal alone. `Quirks` is empty in
`Generator`: what the forms beyond the plain style do is listed below. In the generator
two modules are one wrapper and one other, two runs let one find what another left, a
command line has at most two of the mode flags, so that every mode is reached and every
pair is resolved, and a list in the metadata has at most two entries, so that one may
come twice. Integers are scaled to 4 bits (`Width`), which only the wrap of a negative
number depends on. The theorems remove the bounds for the safety of the modules they
cover.

**Deadlock** is checked where the system never stops (`CallerStack`). The others reach
states where everything has been done (the client destroyed, all calls over, all
subscriptions used, the module gone, the target abandoned, the one exchange told, the
last run ended). There the absence of deadlock is an invariant that says, of each place
where a thread can be, what its next step waits for: `NobodyBlocks` (nothing, in
`ensure()`), `NoCallSticks` (a call waits for the ABI's decision only),
`OnlyTheMutexBlocks` (`m_statusMu`) and `OnlyEmissionsBlock` (`g_emitMutex`), each of
the two mutexes held over nothing that waits for it.

**Fairness.**
`LpClient`: a thread inside `ensure()` runs on, calls return (weak); a posted
construction is served even if the main thread keeps calling in between (strong:
the event queue is served in order between calls).
`LpInvoke`: a calling thread runs on, and the ABI answers what it accepted (its
timeout sees to that).
`Subscription`: a begun operation runs on (weak); a callback returns even if it
cancels or ends subscriptions now and then (strong). `OwnerReleasesAll` has the premise
that callbacks cancel or end no other subscription than their own.
`Teardown`: hooks and handlers return and a contended mutex is granted in the end
(strong: a hook may emit again and again); the host's emit callback returns, so that
whoever holds `g_emitMutex` gives it back (weak); a thread that has begun to signal its
end goes on (weak).
`SubStatus`: whoever holds the status mutex goes on (weak) and it is granted to who
keeps asking (strong); a begun call runs on (weak), notices are delivered and watchers
return (strong: a watcher may install for a while, but not for ever).
No fairness is assumed for beginning anything. `CallerStack`, `TypedCall` and
`Generator` state no liveness and assume none.

## Where documentation and code differ

Each is a run that finds the quoted statement violated; `PROJECT.json` has the
quotations.

* `LpInvoke_refusal`: `invokeAsync` says that its callback fires exactly once. It
  drops the result of `lp_invoke_async`, so after a synchronous refusal it never
  fires and the box is never freed. `invokeAsyncResult` handles the refusal, and
  `CompletesOnce` and `AsyncResultCompletes` hold for it. (A call whose arguments throw
  is not counted against the statement; see the weak spots.)
* `Subscription_uaf`: a ticket's `cancel()` is documented as safe to race the
  owner's destructor. The destructor that loses the exchange frees the box while
  the ticket may not have reached `lp_unsubscribe`; an event delivered in between
  runs a freed callback (`RacedCallbackHasItsBox`, the claim for such programs).
  `CareIsEnough` shows that a program is safe which keeps the two apart and whose
  callbacks do not end their own subscription; they may cancel it.
* `TypedCall_null`: null and absent are documented as empty in every optional slot.
  For `?[any]` and `?{tstr: any}` the decoder of the required type is used, which
  refuses null, and so a trailing argument that was left out: `dispatch_failed`.
  `HandledIffWellTyped` shows that this is the only such case (`NullRefusedRule`).
* `HeaderScan_comment`: a module's ordinary public methods are documented to be its
  API, with no marker of any kind (`src/README.md:349`). The class scanner takes a
  line for a declaration only if it ends in a semicolon, so a method with a comment
  after it is left out of the contract, without a warning.

Weak spots without a run of their own:

* An asynchronous call boxes its callback before it dumps its arguments
  (`logos_lp_client.h:306-307`, `:343-344`). `args.dump()` throws on a string that is not
  UTF-8 (`type_error.316`): the exception reaches the caller, the box is never freed, and
  the callback never runs, though the comments (`:298`, `:318`) promise one call of it.
  A blocking `invoke` throws as well (`:282`), before anything is allocated, and leaves
  the caller's `CallError` as it was. `NothingElseLeaks` and `CompletesOnce` name the
  case. User callbacks are assumed not to throw inside a trampoline, which would leave
  through a C ABI frame.
* An event callback that destroys its own `LpSubscription`, or moves another over it,
  frees the `std::function` it is running in: `lp_unsubscribe` cannot wait for the thread
  it is called on, and `reset()` then deletes the box (`logos_lp_client.h:208-214`,
  `:235-239`). `CallbackHasItsBox` fails with the caution "inside", that is, without any
  overlapping cancel; `FreedOnlyFromInside` says that then nobody else is hit: no other
  thread is in that callback. Cancelling it from inside, by ticket or `cancel()`, leaves
  the box alone.
* Each form of `AllQuirks` alone makes the scanners publish something else than the
  header says, or refuse a header for no reason. Adding one to `Quirks` in
  `Generator.cfg` shows it; what the code does is below. `impl_header_parser.cpp` is
  where all lines are.

  | form | what becomes of it |
  |---|---|
  | trailing comment | a method is left out (`:1261`); a brace in the comment is counted (`:1130`) |
  | inline body | a method defined in the class is left out (`:1261`), and its statements are read as declarations |
  | nested members | functions and sections of a struct inside the class are taken for the class's |
  | closing field | a field on the line that closes its struct is lost (`:666`) |
  | parentheses | a field with parentheses before its name is taken for a function (`:695`) |
  | plain block | code inside a plain `/* */` block of several lines is read |
  | call as default | a data member whose default calls a function is read as a method, and refused |
  | class named before | `class Impl;`, a comment that says it, or a head with more lines before its brace: the scan starts, or ends, there (`:1091`) |
  | brace in a literal | is counted (`:1130`): the class seems to end early, or late |
  | leading comment | `/** text */ void f();` is taken for a comment: the method is left out and the text goes to the next one (`:1199-1208`; after a plain `/* */` it is left out likewise, `:1209`) |
  | default argument | the name is looked for at the end of the parameter: after `= ""` or `= {}` there is none and the parameter is dropped (`:901`); `= 5` is taken for a parameter called 5 whose type is refused |
  | unnamed parameter | `f(int64_t)` is a parameter called int64_t of an empty type, published as `any`; `f(const std::string&)` has no name and is dropped (`:901`) |
  | comment in parameters | a parameter is dropped, or renamed, or its type refused |
  | callback parameter | a method with a `std::function` parameter is passed over (`:1251`); a function pointer is dropped from the parameters |
  | return type apart | the method is published with a return type read from nothing, `any` |
  | tail apart | `const;` or `override;` on the next line: the method's own line has no semicolon, and it is left out (`:1261`) |
  | elaborated type | `struct R f();` is passed over as a struct (`:1224`) |
  | other declaration | `auto f() -> T;`, `noexcept(...)`, two declarations on a line: refused |
  | special member | `ctorDtorRe` (`:1094`, `:1217`) knows a constructor only by `Class(` or `~Class(` at the start of the line: `explicit C(...)`, `virtual ~C()` and `operator T()` are read as methods and refused |

  Beyond these, `Header` leaves out templates, macros, preprocessor conditionals, raw
  string literals, classes inside the class, enums of several lines and overloads, which
  neither the runs nor the theorems speak about.
* If every `--dep` names an interface, each is ignored, and the umbrella falls back
  to the metadata's dependencies as if no flag had been given. Names listed twice
  in the metadata are not merged, which `OneDeclarationPerName` therefore excludes.
* The generator ends with 0 whatever `f.write` returned: opening a file is
  checked, filling it is not. A run that fails between a wrapper's header and its
  source leaves the header, and a later client-stub run puts it into the umbrella (`GlobbedPairsMatch` has the
  premise `spoiled`). `skipWrappers` uses wrappers of an earlier run, whatever they
  were made from.
* `header-to-lidl` writes contracts that the checks of a consumer then refuse
  (`lidlCheckRecords` is not among its checks).
* The refusal of an unsupported type says that Qt types cannot appear in a
  universal header (`impl_header_parser.cpp:190`); QVariantMap, QVariantList and
  QStringList are accepted. `any` has no C++ spelling that is read back as `any` in a
  map (a LogosMap reads as `{tstr: any}`), and an optional untyped container loses its
  `?` (`SpellingsAgree` names these as the only ones).
* The provider's gate looks at parameters and returns, and not at the fields of records
  (`lidlCdylibSupported`, `lidl_gen_cdylib.cpp:559`), where its header says that it
  returns false "when the module uses types outside the cdylib-supported subset"
  (`lidl_gen_cdylib.h:34`) and that the backend "emits NO Qt" (`:20`): a record with a
  field `{int: tstr}` passes and the field is spelled `QVariantMap` in the Qt-free unit.
  `RecordsAreGated` assumes that fields are in the subset, and `SpellingsAgree` has it as
  the premise of its statement about fields.
* The umbrella's maps of bound modules and the vectors of generated subscriptions
  have no lock; a module that calls from several threads must bring its own.
* `LogosCore`: `allStats` throws on a field of another type than it expects
  (`logos_host_core.h:342`), and `drainCStringArray` leaks the array if a copy
  throws (`:135`).
* `plugin_introspect.cpp:336` constructs a list from `begin()` and `end()` of two
  different temporaries.
* A signal that the module copied out before the host takes its callback back is
  still delivered, where `logos_module_context.h:278` says that it is a no-op.
* Two callbacks on two threads that cancel each other's subscription wait for each
  other if `lp_unsubscribe` drains, which is logos-protocol's to decide.

* `onContextReady` is documented to fire exactly once and before any dispatch
  (`logos_module_context.h:246`). Two overlapping exports can both pass the flag,
  and a dispatch that finds the flag set does not wait for the hook.
  `OrderlyHostGetsTheHook` shows both for a host that does not overlap its exports
  until the hook has run; without that premise it fails.
* A context-ready hook is documented to read Unknown (`logos_caller.h:49`). Fired
  by a dispatch, it runs below that dispatch's pushed caller and reads it.
* `lidlCheckRecords` refuses a record that would read as bytes, but only where a
  caller's wrapper is generated (`main.cpp:166`, `plugin_introspect.cpp:83`,
  `lidl_gen_client.cpp:696`); both provider paths skip it. A record with a second,
  optional field passes, although the test that says a second field disambiguates
  (`test_lidl_gen_client.cpp:365`) has a required one: `RecordsAreNotBytes` states
  exactly what is left: an optional field that is empty, and a `_bytes` field of type any.
* The caller's reads are documented as lenient with a default for a mismatch
  (`generator_lib.cpp:1395`), but numbers are converted: a float is truncated and a
  negative integer wraps in an unsigned field.
* An empty field of an untyped container type is written as null, not omitted
  (`project.md:97` says omitted), because its C++ type has no empty state. The wrapper
  tests such a field with `contains` alone (`generator_lib.cpp:655`) and reads null as a
  mistyped value: a field `?[any]` or `?{tstr: any}` that was left empty arrives as `[]`
  or `{}`, where the comments say that the alias has the same two states (`:514`) and
  that absent and null are one (`:646`). `?any` is read as it is. `HoldsRule` leaves these
  empty fields out of the values that `ValuesArriveAtAnyDepth` is about: adding a record
  with such a field to `MCRecords` shows the value changed.
* A method the provider does not have is answered with NULL, which the caller
  reads as its type's default unless the glue intervenes.
* `LpSubscription::cancel()` racing its own destructor (excluded by the premise of
  `CareIsEnough`), and a reference from `currentCaller()` kept over a nested dispatch.

## Proofs

All theorems hold for every value of the constants under the named ASSUMEs, which
only say that distinguished values (null, none, absent) are not among the
others (for `Generator`: that having no exit code yet is not a number), that the
main thread is a thread, that inbound documents are documents, that a target has at
least one establishment, and that a declaration is a method's or an event's with a
finite list of parameters. The theorems about the conversions have the assumptions of
AnyDepth as well, which say what rule each recursion closes.

**LpClient_proofs.** The inductive invariant adds to the checked ones that the
published client is live, that a thread between construction and publication
owns a live client that nobody else has (`fresh` is injective and never published),
and that a thread that lost or is using implies a published client. From it
follow `TypeCorrect`, `CallersShareTheLiveClient`, `NeverLeaks`,
`PublicationIsStable`, and the refinement `EnsureImplementsCreateOnce` (initial
states map to initial states, every step to a step of CreateOnce or a stutter).

**LpInvoke_proofs.** Calls are independent but for a caller's `CallError`, so the
invariant is a conjunction over calls of `Life` (at each stage: who still owes what,
whether the box and the strings live, how often the callback ran), `Honest`
(an outcome that has been told is the truth) and `Recorded` (a refusal is on record
while it waits to be dealt with). From it follow the safety invariants of the run, for
any number of calls. `Life` includes the calls whose arguments threw, and
`CallsKeepMemorySound` says of a box that is left over that it was lost in one of the
two named ways, and of those ways that they do lose one.

**Subscription_proofs.** `OwnedOnce` needs to know who may hold a cell: the invariant
says for each subscription which stage of life its box, cell and handle are in together
(`Life`), what each kind of operation may refer to (`JobShape`), and that no two
operations own the same object (`SlotUse`: an object has one operation, a subscription
in hand is in no object, two objects differ). Then the exchange has one winner, whatever
the number of tickets. `SerialEnd` and `MemberKeeps` carry the conditional theorems about
`CareIsEnough`: where cancels are kept apart, a freed box has no callback in it but one
that ended its own subscription (`OnlyTheCallbackItself`), and so none where callbacks do
not do that (`SerialCallbacksAreSafe`); and `cancel()` on an object that is not being
destroyed finds its cell. `SubscriptionHasASoleOwner` is the refinement, with a lemma for each
step that SoleOwner sees: a subscription is taken by a successful `lp_subscribe`
(`AcceptedTakes`), kept by the store (`StoreKeeps`), handed on by a move or at the end
of an assignment (`Handing`, `FreeBoxHands`), given up by the exchange that wins
(`ExchangeGivesUp`), closed by `lp_unsubscribe` (`UnsubscribeCloses`, `DrainedFrees`)
and heard by callbacks. It needs no caution: what an overlapping cancel breaks is the
box, not the ownership.

**Teardown_proofs.** For the exports: `EmissionHoldsCallback` (who emits holds the
mutex and the callback it copied is the installed one), `Established` (what each place
in the latch implies of the wiring), `LatchIsDue` (context and callback delivered, flag
unset: some export is still on its way to the latch) and `Serial` (for an
orderly host at most one thread is inside before the hook is done).
`TeardownImplementsExports`: every step of the unload leaves the exports' variables
alone, or is a step of theirs, so all theorems about them hold of a module with its
unload as well (`Life...`). `Heard` says that nothing is finished before the host has
announced the unload, that from then on the module is wired, and that whoever finished
with the host listening has told it: `FinishedIsHeard`.

**CallerStack_proofs.** `LaidOut` relates a thread's vector to its frames: at the
level of each dispatch lies what its document parses to, levels grow by one
per dispatch and stay for a hook, and the vector is as long as the innermost
level. `EnterKeeps`, `LeaveKeeps` and `RelabelKeeps` show it for the three things
that happen to a thread; `ParseByArm` lists what `parseCaller` can return for
every document, so that identities are whole and never widen.

**SubStatus_proofs.** `Promised` says that what is on its way to the installed
watcher, in the trampoline's hands and in the queue, ends with the target's current
transition, unless somebody is about to register and be sent a replay of it.
`InOrder` says that in the queue an arm that is over has its loss behind it, and
`Followed` that the loss of an arm which the watcher was told of is still to come.
`Stages` and `Registration` say what each place of the trampoline and of an
installing thread implies. `WatcherIsCurrent` is `Promised` where nothing is on
its way, and `NoFalseArm` follows from `Followed`; together they are
`WatcherIsNotMisled`.

**Generator_proofs, of the scan.** For headers that keep to the plain style (`Quirks =
{}`: none of the forms in the table above, in each of which the statements are false), of
any length and with any number of faults: `PlainForms` says what such a header is written
in, `PlainMethodRead` that `parseMethodLine` gets these right, `Shape` is where a text can be, `InStep` says
that the class scanner is at the same place with the same depth and has published the
same, `Keeping` the same of the struct scanner, `Read` that of every struct it can read
it has read every field. `InStepStep` and `KeepingStep` show it line kind by line kind.
An accepted header is then the contract (`ContractIsTheHeaderHolds`) and a refused one
is beyond it (`RefusedForAReasonHolds`). That a published contract names no record it
does not declare (`NoDanglingNameHolds`) holds in every style: it needs only that
`Reachable` is the least set closed under use (`ReachableIsLeast`).

**Generator_proofs, of the runs.** None of the properties of a run is inductive:
whether a directory is whole when a run stops depends on the steps it had left. The
invariant `GenInv` therefore speaks of `todo` first. `InPairs` says that a header's
write is followed at once by its source's, the umbrella's two writes come last, and a
made-up metadata file is scanned, and removed, by the next step; `ChecksFirst` that
outside umbrella mode no check follows a write; `InPhases` that the umbrella's loops
come at the end, in order. `PlanIsSound` shows this of the plan of each mode,
`WrapperIsSound` of what a loop puts in front, and `TailIsSound` and `PiecesJoin` that
taking a step off and joining two plans keep it. `Written` then relates the plan to the
files: in what the run wrote, and in the directory while no run has failed, only the
source that is written next can be missing (`Matched`). `Collected` says that each name
collected so far is `Due`: written, planned, or still to come in a loop. `SdkIsCurrent`
says that the umbrella's names are still those it would be given now, and `Distinct`
that no name is collected twice. `StepTaken` is the common part of all steps that take
one off the plan. The theorems hold for any number of runs over any set of modules,
where the checked instance has two of each, and no step of the proof uses the bounds on
flags and on the metadata's lists. `GeneratorReadsTheHeader` and
`GeneratorNamesNoDangling` carry the theorems about the scan over to the one inside a
run: every step of the generator is a step of the scan, leaves it, or starts it again.

**Exchange_proofs.** The three promises about calls hold for parameter lists of any
length, with optional parameters anywhere, where the checked instance has at most two.
The arity gate needs the most: `MinArgsSpec` shows that there is a last required
parameter (or none is required) by counting, and `GateIsComplete` that the gate lets
through exactly the calls that leave out optional parameters only. `ExchangeInv` says of
each stage what has been packed (`Packed`), called and answered (`Unanswered`, and
`Answered`, which lists the five origins of an answer) and told (`Told`).
`RefusalsAreTold` follows for any conversions whatever. `HandlersAreWellTyped` and
`ValuesDoArrive` take `CodecIsLawful` as a premise, a law about the conversions of
single values: decoding refuses exactly what does not fit, a decoded argument is what
was meant, null in an optional slot is empty, a result that is read and handed back is
the same, and none reads as a rejection.

**Exchange_proofs, of the conversions.** The law itself is proved as well, over AnyDepth,
for types and values of any depth. Induction over data is out of the prover's reach
where it takes an operator as a parameter; so the proofs take the smallest
counterexample instead. The set of depths of wire values that break the claim, for
any type at all, is a set of naturals; if it is not empty it has a least member
(`WellFoundedInduction`'s fact about minimal elements), and the rules show that the value
at that depth, whose parts are less deep, keeps the claim. The depth is that of the value
and not of the type, because a record may hold itself; only an optional type is unwrapped
first, which its rank bounds. `GatedKinds` lists the types that pass the gate and
`Spells` how each is spelled: from then on codec, argument rule and reference are compared
kind by kind. `CodecIsStrict` and `ArgumentsAreStrict` give `HandledAtAnyDepth`: that a
handler runs exactly on well-typed arguments then rests on no law. `CodecKeepsValues` is
the round trip through the provider's codec, `ReadsKeepValues` the one through the
caller's wrapper, whose flat names keep only two levels of a type: `Wraps` lists what each
type becomes there, and what the name has lost is held as untyped JSON. From the two,
`ConversionsAreLawful` and `ValuesArriveAtAnyDepth`, for a return that is clear
(`ReturnIsClear`): the gate does not look at a map or list return (`jsonReturn`), and
a result with the three fields of a rejection is one to the caller. `NoRecordIsBytes`
needs that a record which reads as bytes has one field, that this is `_bytes`, and
that only a tstr is encoded as a string (`OnlyStringsAreStrings`).

**Exchange_proofs, of the spellings.** `SpellingsAgreeAtAnyDepth` takes the least
counterexample by the rank of a type in one direction and by the nesting of a spelling in
the other. From a type to a header: `SameSpelling` shows that a provider's unit spells a
gated type in one way, whichever records stand beside it; `Means` and `Spells` list what
it means and how it is spelled, `AtomIsRead`, `StructIsRead` and `ContainerIsRead` what
the header parser makes of the spelling, and `SpelledReadsBack` compares the two, kind
by kind. That an optional comes back as one needs `TypedMeaning`: what is not spelled as
untyped JSON does not mean it. From a header to a type: `LooseWhereSaid` is that only a
JSON alias brings `any` into a contract; so in a spelling without aliases no container
collapses into one, and `PlainIsAsWritten` follows. `HeadersAreRead` is both.

**Liveness.** Four of the five liveness properties are proved from the fairness stated
above, for every value of the constants: `EnsureAlwaysReturns`, `AsyncResultsComplete`,
`CallsAlwaysReturn` and `ExportsAlwaysReturn`. The prover does not look inside ENABLED,
so what a fair step needs in order to be possible is a premise of each,
`[]NobodyBlocks`, `[]NoCallSticks`, `[]OnlyTheMutexBlocks` and `[]OnlyEmissionsBlock`:
the invariants on deadlock that the runs check. The rest is proved. Each argument names
the places a thread passes through and shows, from the inductive invariant, that no
step of another thread moves it (`Positions`, `StepsOfACall`, `ThreadMoves`, ...) and
that its own step brings it on.
* `EnsureReturns`: a thread's own turn comes (`OwnTurn`), and a worker that waits for a
  construction waits until the main thread is out of `ensure()`, which it comes back to
  for ever (`MainComesBack`); a strongly fair event loop then serves the posted work.
* `AsyncResultCompletes`: the caller's thread gets as far as the ABI (`CallerMoves`),
  the ABI decides and calls back (`AbiMoves`), and a call that is begun has completed,
  is under way, or has been turned down, in which case its own thread completes it
  (`CompletedOrUnderWay`).
* `CallsReturn` and `ExportsReturn`: the mutex is held by one thread that is about to
  give it back (`MutexIsHeldBriefly`), so it comes free again and again
  (`MutexComesFree`, `EmitMutexComesFree`), and who asks for it under strong fairness
  gets it.
`OwnerReleasesAll` stays with TLC: an owner's `lp_unsubscribe` waits for all
callbacks that are running, and from each of them ending to all having ended is an
induction over a finite set inside a temporal formula, which the prover does not have.

**Only model-checked**: `OwnerReleasesAll`; the four premises of the liveness
theorems; and the assumptions of AnyDepth, that is, that the recursive definitions close
the rules.
`PublishedIsStable` and `ExpiryIsForGood` are stated and proved, and no run repeats
them.

## Assumptions about what is outside

* `lp_client_create` is a marshalled, blocking construction or a failure.
* `lp_invoke_async` refuses and never calls back, or calls back once, at any time.
* `lp_unsubscribe` is taken at its best: no callback starts after it begins, and
  it returns when those on other threads have ended.
* `CallError::ok()` is an empty code; whether an error object with an empty code
  (`logos_lp_client.h:545`) counts as ok is logos-protocol's.
* The glue around `logos_module_dispatch` pushes and pops one caller per call.
* The host of `Teardown` waits for the first signal up to a grace period.
* Status notices are delivered in order on one thread, and a registration is
  answered with the current transition.
* logos-protocol's codec is strict: integers take whole floats and refuse
  negative numbers where unsigned, a string or a bool takes nothing else, bytes
  take the tagged form, an object's absent field reads as null; a scalar bytes
  argument also takes a string, a number or an array.
* The frontend flags every map and list return (`jsonReturn`), and its accessors see
  through both spellings of an optional field.
* The host's emit callback returns and does not re-enter the exporting module.

## Plan

Done: the run-time core (client, calls, subscriptions, status, exports with their
unload, callers), the values and types of a Qt-free call, the header parser and
the generator's runs; proofs for all of it, but what "Only model-checked" names. What is
left, in the order of importance:

1. *Qt-typed wrappers*: their spellings and conversions, beside the Qt-free ones in
   `WrapperRules`; the client emitter's tables.
2. Events that `metadata.json` declares, merged with the header's.
3. Refinements: CallerStack to a call tree, and Exchange composed with LpInvoke.

## Not modelled

* `LogosCore` and the host services: stateless forwarding (see the inventory).
* Qt-typed wrapper bodies and the text of the LIDL client emitter.
* What a plugin answers when it is introspected, and the Qt plugin loader.
* The words of messages, the layout of emitted text, build descriptions, CI,
  doctests.
* Hazards without a property: a host whose emit callback re-enters the module, a
  signal that arrives after the grace period, and what becomes of an exception
  that leaves a C ABI function. Each depends on what the other side does, which this
  repository does not say.
* C++ rules that a model would only restate: the unguarded `std::function` that
  about_to_unload replaces (`logos_module_context.h:222`), a client destroyed under
  its running trampoline (`logos_lp_client.h:580`).
