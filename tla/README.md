# Verification of the Yuntu Android sample

The repository is the Android side of the "Yuntu" virtual-SIM SDK: a Java class
of modem operations (`YuntuHal`), a C++ layer that lets the closed C SDK
(`libiotlink.so`) call them through JNI (`android_wrapper.cpp`), a delay
measurement by timed connects (`NetPingManager`), and a vendored but locally
edited copy of cJSON that the wrappers parse answers with. Paths below are
relative to `src/app/src/main/`.

## Inventory

| component | state | operations | talks to | hard behaviour | what makes it correct |
|---|---|---|---|---|---|
| HAL wrappers, `cpp/android_wrapper/android_wrapper.cpp:33-345` | none of its own; output buffers of the caller | 20 `platform_ytcard_*` functions over 4 helpers; 16 of them registered in `sg_ytcard_api` | called by SDK threads; calls Java | error codes, lengths, dBm values and booleans share one `int` | a return code tells truthfully whether the output holds a result; no text copied without room for its NUL, but for the answer of `sendATCmd` |
| JNI bridge, `android_wrapper.cpp:88-171, 347-390`, `native-lib.cpp` | `class_obj`; which threads are attached; pending exceptions | `YuntuStart`, `thd_fn`, `_get_method`, the upcall of each helper | main thread starts it; SDK threads run it; VM | any number of SDK threads; restarts by a recreated activity; failed lookups and attachments; a loop that returns | class references stay alive while used, attachments are balanced, every call returns, the HAL contract is kept |
| `NetPingManager.java` | address list, listener, manager, handler thread, `RttTimes`; the looper's queue | `getDelay`, `getDelay2`, `release`, `handleMessage`, the diagnosis | `YuntuHal.getNetworkDelay`, `PintNet.checkNetwork`; looper; network | `release()` locks only against itself; messages outlive it; samples outlive a diagnosis | no exception without a release; rest after one; a delay is a mean of its own samples |
| cJSON tree, `cpp/android_wrapper/cJSON.c:192-278, 1828-2782` | items: `child`, `next`, `prev`, `string`, `type` flags | create, add, insert, reference, detach, delete, replace, duplicate | wrappers of JSON texts | `prev` of the first child is the last; names copied or constant; references share children | lists stay well formed, nothing freed twice or lost |
| cJSON parser, printer, minifier, `cJSON.c:92-158, 213-242, 291-1825, 2784-3104` | parse and print buffers, `global_error`, hooks | `cJSON_Parse*`, `cJSON_Print*`, `cJSON_Minify`, `cJSON_Set*`, `cJSON_Compare` | wrappers of JSON texts | nesting limit, buffer growth, cleaning up after an error in the middle | never outside the buffer; all or nothing |
| lite-list, `cpp/qcloud_iot_c_sdk/include/lite-list.h` | `next` and `prev` of each `list_head`; a loop's cursor and temporary | add, delete, replace, move, rotate, test, 14 loop macros | users of the SDK's headers | cells that coincide in one operation; a loop's body that changes the list | links mirror each other, a loop misses nothing that stays |
| Modem layer, `YuntuHal.java`, `MainActivity.java` | `teleManager`, `lastSignal` | one method per HAL entry; `onCreate` | bridge, main looper, telephony | `teleManager` is used on any thread before or while `deviceInit` sets it; `lastSignal` before its first callback | no use before initialisation; values in range |
| `PintNet`, `PingNetEntity`, `YunTuUtils` | none that lasts | shell ping, AT command | nobody calls them | process input and output | - |
| `YuntuApplication`, build files, resources | none | - | - | - | - |
| C SDK | closed | its threads call the HAL | bridge | - | modelled as freely as the HAL allows |

`cpp/qcloud_iot_c_sdk` holds only the SDK's headers; of them the modules use
`qcloud_iot_export_hasim.h` (the HAL), `qcloud_iot_export_error.h` (codes),
`qcloud_iot_import.h` (threads) and `lite-list.h`, the one that holds code. The hazards found while reading are listed, each
at its line, in `PROJECT.json`.

How the parts interact: `MainActivity.onCreate` calls `startYuntu`, which keeps a
global reference to the Java class and starts the SDK's loop on a thread of its
own. The SDK, on that thread and on others, calls the functions of
`sg_ytcard_api`. Each of them makes one upcall: it attaches its thread to the VM,
looks its method up in the class, calls it, copies the answer, detaches. One of
the Java methods runs a `NetPingManager`; two of the wrappers parse the answer
with cJSON.

## Modules

| module | models | checked by |
|---|---|---|
| `HalTable` | dispatch table, helpers and wrappers as operators | with `HalApi`, `JniBridge` |
| `HalApi` | abstract: what the HAL promises the SDK | `MCHalApi` |
| `HalApiProofs` | lemmas about the wrappers, theorems about `HalApi` | TLAPS |
| `JniBridge` | the upcall, thread by thread; starts, restarts, tear-downs | `MCJniBridge` |
| `JniBridgeProofs` | theorems about `JniBridge` | TLAPS |
| `NetPing` | the measurement, its looper and its release | `MCNetPing` |
| `NetPingProofs` | theorems about `NetPing` | TLAPS |
| `Reach` | what is met from a node | with `CjsonTree`, `JsonTree` |
| `JsonTree` | abstract: a forest of nodes with sequences of children | through `CjsonTree` |
| `CjsonTree` | cJSON's linked items and its public calls | `MCCjsonTree` |
| `CjsonTreeProofs` | theorems about `CjsonTree` | TLAPS |
| `CjsonText` | bytes: numbers, strings and escapes, read and written, as operators | with `Cjson` |
| `CjsonParse` | the parser, a machine with a stack | with `Cjson` |
| `CjsonPrint` | the printer over `ensure`, a machine with a list of things to do | with `Cjson` |
| `Cjson` | a caller: minify, parse, change, print, parse again; composes the two machines | `MCCjson` |
| `CjsonCompare` | `cJSON_Compare` | with `MCCjson` |
| `CjsonTextProofs` | what the operators of `CjsonText`, `CjsonParse`, `CjsonPrint` and `cJSON_Minify` make of every text | TLAPS |
| `CjsonProofs` | theorems about `CjsonParse` and `CjsonPrint` in `Cjson` | TLAPS |
| `Lists` | abstract: entries on sequences | through `LiteList` |
| `LiteList` | the links, operations and loops of `lite-list.h` | `MCLiteList` |
| `LiteListProofs` | theorems about `LiteList` | TLAPS |
| `ModemHal` | `YuntuHal` and `MainActivity`: SDK threads, main thread, modem | `MCModemHal` |
| `ModemHalProofs` | theorem about `ModemHal` | TLAPS |

Definitions named `X_...` whose comment starts with "A bug:" are seeded bugs:
`PROJECT.json` names, for each property, one that breaks it. They are used by no
specification.

**HalTable.** A wrapper is a function of the buffer length and of what its upcall
brought back (an int, a text, or nothing because no method was found) to a
return code and a stored output, `<<>>` where the output is left alone. A text is
its length and a kind of body, because the wrappers look at nothing else. The two
helpers that copy a text differ: `get_buffer_method_type1` measures it first,
`get_buffer_method_type3` copies it by `strcpy` whatever its length. `Overruns` says when
a copy with its NUL goes past the end of its buffer (`Room`: the caller's, or a local one).

**HalApi.** A thread calls a wrapper (`Invoke`) and the call returns what the
wrapper makes of one answer (`Return`), until the process dies (`Die`). `Die` is always
possible here: the contract says what a call that returns has done, not that it returns.
When the process can die is said of `JniBridge` (`CleanRunsSurvive`, `NullEnvExplained`).

**JniBridge.** One variable for each piece of shared state (`class_obj`, live
global references, attached threads, pending exceptions) and a program counter
per SDK thread; a step ends where another thread can act in between: after
`class_obj` is read, after attaching, after the lookup, in Java, after the answer.
`YuntuStart` and `CreateLoop` are the main thread's two steps. What goes wrong
around the code is a set, `Faults`, so that a run says which of them it admits.
Undefined behaviour that ends the process is a `crash` with a cause; where a build
may also survive it (a JNI call with an exception pending, a NULL `JNIEnv **`, an AT
answer too long for the local buffer it is copied to) both outcomes are steps. Calls into the VM that cannot change this state, logging
and the class name are left out.

**NetPing.** `release()` runs statement by statement, because it is synchronized
against itself only; on the ping thread each null test and the use it guards are
separate steps. A looper is two counters, messages due and messages delayed.
`Samples` are what one connect can store, so the sum and the mean are real ones.
`TIME_OUT` and `DELAY_TIME` only change waiting times and are left out. That
`getDelay2` and `release()` of a manager without a handler thread are called by one owner, one
at a time (`OwnerFree`), is a rule for the caller, which nothing in the code enforces and
`YuntuHal.getNetworkDelay`, the only caller, keeps: it makes a manager for each call.

**CjsonTree.** Operators with the names of the C functions take a heap to the heap
they leave, pointer by pointer and in the order of the code. The actions are the
public calls of a caller that obeys the API: it passes items it holds or can reach,
does not put an item below itself, and leaves the inside of references alone.
Indices are counted from 1 (from 0 in C). Values other than names are left
out. The calls that make several items (`cJSON_CreateIntArray` and its like,
`cJSON_CreateStringArray`, `cJSON_Duplicate`) take a sequence of the items malloc
gives before it fails, which may be too short; `cJSON_Duplicate` copies an item by
`CopyTree`, its children by `CopyKids`. The recursion of `cJSON_Delete` is what it
frees, everything met along `next` and the `child` of items that are no references
(`Met`). `JsonTree` says the same with sequences.

**CjsonText, CjsonParse.** A text is a sequence of bytes and whether a NUL ends it;
`cJSON_Parse` passes the NUL in its length, `cJSON_ParseWithLength` does not. The
recursion of `parse_value`, `parse_array` and `parse_object` is a stack of frames,
and a step is what the code does up to the next value; every allocation may
fail when the call is `short` of memory. A failure unwinds frame by frame, each
freeing the items it linked. `mem` counts blocks, so that a tree's size can be held
against it. All reads of the code but those of `parse_string` follow a test of the
offset, as they do in the model; `StringReads` is what `parse_string`, which runs through
a literal by pointers, looks at in its two passes, and `strays` remembers that it has
looked behind the text. Numbers are
integers with an exponent, and one value stands for those that overflow a double;
`IntMax` stands for `INT_MAX`, `NumberBuf` for the 64 bytes `parse_number` copies a
number into, `NestingLimit` for `CJSON_NESTING_LIMIT`.

**CjsonPrint.** The print functions are a list of pieces still to be written, each
with what it asks of `ensure`, what it writes and how far it moves the offset,
`update_offset` being a piece of its own because it looks for the NUL in what was
written. `ensure` fits, grows by `realloc` or by hand, refuses, or fails and frees.
`DefaultSize` stands for the 256 bytes a print starts with.

**Cjson.** One caller parses a text, perhaps minified before, perhaps with
`cJSON_SetValuestring` or `cJSON_SetNumberValue` between; prints the tree by one of the
three ways to print into some size of buffer with some hooks; and parses what was
printed. Trees that no text says (an infinity, raw text, an item without a
type) start at the print.

**LiteList.** `l` holds `next` and `prev` of every cell, and the operations write them
in the order of the code, so that a cell that appears twice in one call is read
after it is written. `loop` is an iteration under way; between two of its steps the
caller does anything the macro's comment allows. `due` remembers which entries
the loop found and still owes.

**ModemHal.** SDK threads call `deviceInit`, `getDbm` and the methods that only ask
(`Ask`, with or without a null test): the service answers, or an exception, of a null
field or of the service, ends the process, as it does in the bridge; the main thread has a queue of messages for
`onGranted`, the posted `listen()` and the listeners. Registering a listener makes the
system tell it the present signal.

## Runs

| run | instance | shows |
|---|---|---|
| `hal` | one thread, 20 wrappers, buffer sizes 0, 1, 15, 16; ints around every test (-1001, -1000, -999, -113, ... 85), texts one below, at and above each size | an error leaves the output alone; copied texts fit with their NUL, but for an AT answer of 256 bytes or more; a missing method is an error; dBm values pass; except for `get_iccid` and the two JSON wrappers success means a stored output |
| `hal_success` | the two JSON wrappers | finding: a good answer makes them return its length with nothing stored |
| `hal_network` | the registered wrappers | finding: the status is inverted |
| `jni_bridge` | two threads, one wrapper per JNI signature, a class that lacks an int method and `sendATCmd`, all faults, two starts | live class references, balanced attachments, causes of a NULL env, leaked threads never served again, refinement of `HalApi` |
| `jni_clean` | the same with a complete class and no faults | no crash, but by an AT answer of 256 bytes; every call returns |
| `jni_template` | the class of the readme | finding: it kills the process |
| `ping` | two measurements, samples -2, -1, 0, 3, hosts of one or two addresses | exceptions only in a release, harmless late messages, results from own samples, giving up, chains, rest after release |
| `ping_literal` | a host of one address that accepts every connect | finding: it is never measured |
| `tree` | four items, the names k and K to look for, one of them given, one reference at a time | well-formed lists, names, leaks (also of calls that fail: constructors of arrays run out of items in the middle, copies at the root or the first child), refinement of `JsonTree` |
| `json` | some 4800 texts: renderings of 25 trees, compact and with blanks, all their prefixes, each byte replaced by a quote, backslash, comma, bracket or NUL, escapes, numbers and texts with comments; 17 trees of other origin; printed in 3 ways, with and without format, into buffers of -1 to 14 bytes, with each kind of hooks | no leak, bounded recursion, no read or write outside but in the two places named under "What the runs found", error position, exact parse and print against a reference that reads tokens, round trip, `cJSON_Compare` |
| `lists` | two heads, three entries, one loop under way | mirrored links, tests and accessors agree with a walk, loops miss nothing, refinement of `Lists` |
| `modem` | two SDK threads, three signals, four messages, two listeners | what can end the process: a null field only before a deviceInit has stored the service, the service itself after it; when the stored signal is the present one |

**Bounds.** The wrappers keep no state, so one thread is enough for `hal`. Two
threads and two starts show an upcall overtaken by a restart and by a tear-down
of another loop; a thread's own history (leak, then call) needs one. The theorems
lift both bounds for safety. Two measurements let a diagnosis find the samples of
another and two chains meet; sample values stand for their sign and for a mean
that differs from its parts. Four items make a parent with a first, a middle and a last
child, or a tree with depth and a reference; they are too few for `cJSON_Duplicate` to fail behind
a first child, which the theorems cover for any number. One reference at a time (`MaxRefs`) is
enough, since references never point at references. Five bytes of a number and a limit
of two levels are passed by texts of a few bytes, and buffers from none to larger
than a text meet each test of `ensure`; an `IntMax` of 40 is reached by a tree of 18
items, where the doubling of the buffer saturates and then refuses. Two heads let
an entry move and a head be replaced, three entries are a first, a middle and a
last. Four messages let a grant, a `listen()` and a signal for each of two listeners wait.
`MaxStarts`, `MaxCalls`, `MaxRefs`, `MaxQueue`, `MaxListeners` and `Given` are the only
bounds in guards. Deadlock is not checked, except in `lists`, which never stops: a crash,
an SDK that makes no more calls, a released manager, a printed text and a full
queue are ends the model may reach. Symmetry is used for threads, items and cells,
never where a fairness property is checked.

**Fairness.** `JniBridge`: weak fairness of each thread's upcall steps: the scheduler
runs every thread, and the methods of `YuntuHal` end (`checkNetwork` waits at
most three seconds). Nothing is assumed of the SDK or of the main thread.
`NetPing`: the looper thread, its timer and a started `release()` go on; connects and
lookups have timeouts. It does not require that anything is ever released.

## Proofs

44 theorems in eight proof modules, for every value of the constants. They assume
the named assumptions of the modules alone (`HalAssumption`, `BridgeAssumption`,
`PingAssumption`, `TreeAssumption`, `CellsAssumption`, `ModemAssumption`, and
`TextAssumption`, `ParseAssumption`, `CallsAssumption`, `PrintAssumption` and `CallerAssumption` of cJSON's
modules: the constants have their types, and a caller's trees are items whose children
are among them), which TLC evaluates on every run.

`HalApiProofs` begins with the wrappers of `HalTable`, once for each what its result is
(`WrapperCases`), that it has its type (`WrapperResultType`, needed in `JniBridgeProofs`
too), and what the helpers promise of a return code and a stored output
(`Type1`, `Pair`, `IntWrappers`; `OverrunIsAtAnswer` for the copies). Its invariant is `TypeOK` with `AnsweredInv`: a finished call has
the result its wrapper makes of an answer that fits it. The promises are then facts
about `WrapperResult` and `Overruns` alone (`ErrorXorOutput`, `OverrunIsAtAnswer`).

The invariant of `JniBridgeProofs` is `TypeOK /\ ClassRefLive /\ LeakInv /\ CallInv`.
`ClassRefLive` is inductive as it stands, because nothing deletes a global
reference. `IdleDetached` is not: `LeakInv` adds that a thread that is attached
outside a lookup or a call has an exception pending and that some wrapper's
method is missing from the class. The refinement needs `CallInv`: a call is
running exactly while its thread is in an upcall, and an answer that is waiting to
be returned is one its wrapper can take. `CleanInv` is that the process lives, or was
ended by the copy of an AT answer, and that no thread is on a path that ends badly; it is
inductive when `Faults` is empty and no
method is missing (`Clean`), by `NullEnvInv`. There is one lemma per group of actions
(`StartPreserves`, `ThreadsPreserve`, `EnterPreserves`, `GetEnvPreserves`, ...),
joined in `NextIInv`.

The invariant of `NetPingProofs` has a part for each kind of state: `DiagnosisInv`
(what is known of the address list and the count of connects at each place),
`ChainInv` (messages never outnumber calls; `quit` says how far `release()` is),
`FieldInv` (the fields by the place in `release()`: untouched before it, gone behind it,
and what a null test that was passed before it still says) and `SampleInv` (the last
two samples, where connects go on and where they are over). That the mean lies
between its samples is `MeanIs`, over `TimeIs` and `CountIs`, which unroll the
recursion of the sum over the four connects.

The invariant of `CjsonTreeProofs` says that there is a family `K` of rows, a sequence of
children for every item, that the heap `Shows`:

- `Forest`: no item is twice in a row or in two rows (`Apart`), and nobody is below
  itself (`Founded`: a set of items that all have a parent in it is empty). Without
  `Founded` an item on a ring of parents would be lost to the caller and `cJSON_Delete`
  might not end; it is stated over sets, so that no path has to be followed.
- `Laid`: the children of every item lie in its row in the order of `next`, with `prev`
  backwards and around; references and free items have no row.
- `Rooted`: an item has a parent or the caller, never both, unless it is a reference
  that lost its name; a root has no `next`. Without this the loop of `cJSON_Delete`
  over `next` would free what is not below its argument.
- `Cleared`: a free item has no `child`, no `next`, no name and no flags: a new item starts from there.
- `Named`: nothing was freed twice, and the names on the heap are those that are copied.

Field lemmas say what each C function writes, in the cases of a row's first, middle and
last item. Lemmas about rows turn that into another row (`Row`), and lemmas about
`Shows` into another family: `ShowsAppended`, `ShowsPutBefore`, `ShowsUnlinked`,
`ShowsSwapped`, `ShowsDeleted`, `ShowsBorn`, and `NamedItem` for names.
What `cJSON_Delete` meets along pointers is what lies below in the rows, the
least set closed under children (`UnderIsLeast`, from the definition of `Met`, which stands still
after as many rounds as there are items). Then one lemma for each call shows that it keeps the
invariant and is a step of `JsonTree` on `K` (`Follows`), and `EveryStep` joins them.
`cJSON_Duplicate` is unrolled a level at a time (`DuplicateIs`, `CopiesWork`):
the copy of an item is laid out beside the rest whether its children's copies succeed
or not, and when they do, the copies correspond to what they are of, one to one
(`CopiesDiffer`, which needs `Founded`; `AllCopied`; `CloneExists`).

`LiteListProofs` goes up in three steps, each with an invariant over the one before.

- `IInv`: `TypeOK` with `Mirrored`, that an initialised entry on no list is alone, and
  `CursorRinged`: a loop will step from a linked cell. One lemma for each pointer
  operation says that it keeps rings, and what it does to `next` (`InitRings` and those
  behind it), for any links and any set of cells that is closed under them, so that
  nothing is said of how long a list is.
- `Standing`: `Contents`, what walking `next` from each head finds, is a family of
  sequences through which the links lead (`Rows`), without an entry in two places
  (`Apart`), which together hold the entries the callers have put there (`Hold`).
  `WalkIs` says that the recursion of `Walk` finds any injective sequence the links lead
  through (it is cut off at the number of cells, which `NoLongerThanCells` shows to be
  enough). `PrepareStands`, `InsertStands`, `RemoveStands`, `ReplaceStands` and
  `TakeOverStands` say what writing the few links of an operation does to the whole
  family, with the cases where cells coincide, and `AddStands`, `DelStands`,
  `ReplaceEntryStands`, `ReplaceHeadStands` that the functions of the header write those.
  `ListStep` then is the refinement of `Lists`, a step at a time, and `OneList` reads
  the constant-time tests off the same family.
- `DueInv`: the entries a loop found and has not come to lie in order ahead of its cursor
  (`Ahead`), for a loop in either direction (`Along`). Every operation leaves in order
  what it does not touch (`OrderKept`), so it keeps this unless it takes the cursor
  (`DueKept`); the steps of the loop keep it by `StepAhead` and `ComeTo`, and
  `list_safe_reset_next`, which does take the cursor, by both (`ResetDue`).

`CjsonTextProofs` is about operators alone. Most of them are recursive functions or
folds: CHOOSE picks a function with the right steps, so before anything can be said of
one, a function has to be shown to exist. `Recursion`, `RecursionBelow`, `FoldTotal`
and `FlattenTotal` do so once and for all, for a definition given as sets and functions
(where it ends, where it goes on, what it makes of what comes back), and `Upwards`
and `Backwards` are induction for a set in the place of a property; all of them rest on
the least element of a set of naturals (`Least`, from the library's well-founded `<`).
With them: `StringAt` (a literal ends in the text, and what `parse_string` writes fits the
block its first pass computed: `CountWithin` bounds the escapes, `PieceFits` the bytes of
a code point), `ReadsAt` (its two passes look at bytes of the text only: `QuoteInText`,
`PieceInText`), `StrtodFits`, `EscapedOf` and `QuotedLength` (`print_string_ptr` writes as
many bytes as it asked for), `SumOf` and its lemmas, `MinifyType`.

`CjsonProofs` has three invariants. `NestInv` is the type of the parser's frames with the
depth. `MemInv` says which block the printer owns at each place and that `ensure` and
the error paths of its callers agree on it. `CjsonInv` is that of the rest, in four parts:

- `CjsonType`: there is a set of items, closed under children (`Forest`), from which the
  parser's items and frames, the tree at hand and the printer's list of work are
  taken. A set that grows by an item at a time stands for the recursive type of trees,
  which needs no induction that way.
- `BoundsInv`: where in the text each of the parser's places may be. With `ReadsAt` it
  gives `StringInText`. `OneStray` alone is not inductive: in a loop over children there is a byte to read or a comma at the offset,
  and behind a value the offset is at most the length.
- `HeldInv`: what the parser has allocated is in the frames of its stack, one block
  more for an item that is begun and one for its name, and in the item at hand. Every
  action moves blocks between these (`HeldBegun`, `HeldOpen`, `HeldChild`), over `SumOf`.
- `Sound`: while printing, the buffer's length bounds what is written, the offset bounds
  what counts, and where `update_offset` is next there is a NUL behind the offset and
  none before it. It needs `Chain`: in the list of work, `update_offset` only follows
  something that ends with a NUL, which `WorkOf` shows of `print_value` for every item.

The invariant of `ModemHalProofs` is about the queue: a waiting `listen()` means the
field is set, so that of all uses of a null field this one never happens, and the last signal that waits is the present one.

| theorem | property |
|---|---|
| `CallsWellFormed` | `TypeOK` of `HalApi` |
| `ErrorsLeaveOutputs` | `OutputOnlyOnSuccess` |
| `MissingMethodsReported` | `MissingMethodReported` |
| `SuccessesStoreOutputs` | `SuccessWritesOutputElsewhere` |
| `TextsFitBuffers` | `TextFitsBuffer` |
| `DbmAlwaysDelivered` | `DbmDelivered` |
| `TypeCorrect` | `TypeOK` of `JniBridge` |
| `ClassRefAlwaysLive` | `ClassRefLive` |
| `AttachmentsBalanced` | `IdleDetached` |
| `NullEnvAlwaysExplained` | `NullEnvExplained` |
| `LeakIsForever` | `LeakedThreadDoomed` |
| `BridgeImplementsHal` | `ImplementsHal` |
| `CleanRunsAlwaysSurvive` | `CleanRunsSurvive` |
| `TypesHold` | `TypeOK` of `NetPing` |
| `OnlyReleaseKills` | `DiesOnlyInRelease` |
| `LateMessagesHarmless` | `LateMessageHarmless` |
| `DelaysFromOwnSamples` | `DelayFromOwnSamples` |
| `GivesUpExactly` | `GivesUpOnTwoInARow` |
| `ChainsAlwaysPersist` | `ChainsPersist` |
| `ListTypes` | `TypeOK` of `LiteList` |
| `ListsMirrored` | `Mirrored` |
| `LoopsStepInRings` | `CursorRinged` |
| `ListsImplemented` | `ImplementsLists` |
| `TestsAgree` | `TestsAgreeWithWalk` |
| `LoopsMissNothing` | `LoopMissesNothing` |
| `ForestShown` | - (the invariant of `CjsonTreeProofs`) |
| `TreeTypes` | `TypeOK` of `CjsonTree` |
| `ChildrenWellFormed` | `ListsWellFormed` |
| `NamesAlwaysOwned` | `NamesOwned` |
| `LeaksOnlyReferences` | `OnlyReferencesLeak` |
| `TreeRefines` | `ImplementsTree` |
| `RecursionBounded` | `NestingBounded` |
| `PrintLeavesNothing` | `PrintKeepsNothing` |
| `CjsonTyped` | - (types of `Cjson`) |
| `ParserStaysInBounds` | `ParserInBounds` |
| `ErrorsPointIntoText` | `ErrorInText` |
| `ParserLeaksNothing` | `NothingLeaks` |
| `PrinterStaysInBounds` | `PrinterInBounds` |
| `WorkOf` | - (what `print_value` asks of `ensure`) |
| `StringAt` | - (what `parse_string` writes) |
| `ReadsAt` | - (what `parse_string` looks at) |
| `QuotedLength` | - (what `print_string_ptr` writes) |
| `MinifyType` | - (`cJSON_Minify` ends, and leaves a text) |
| `ModemAlwaysConsistent` | `ModemConsistent` |

The refinement of the bridge maps `call` to itself with the answer hidden until the
call returns and `dead` to `crash # "no"`. `EnterWrapper` is `Invoke`, `Finish` and
`ReturnNoMethod` are `Return`, a crash is `Die`, everything else stutters.

The refinement of the lists maps the sequence of a head to what walking from it finds.
`Insert` is `Add`, `Unlink`, `TakeFirst` and `list_safe_reset_next` are `Unlink`, `Move` and
`list_rotate_left` are `Move`, `Replace` is `Replace` or, of a head, `TakeOver`; `Prepare` and
the loops stutter.

The refinement of cJSON's tree maps the children of an item to the walk along `next`, and
those of a reference to none. A call that adds is `Insert`, or `InsertReference` when it
makes the item itself; the constructors are `Create`, those that make several items and
`cJSON_Duplicate` are `Build`, and a call that fails leaves all that is mapped as it was, but
for the reference that loses its name (`InsertReference` without a place).

Only model-checked: `EveryCallReturns` and `RestsAfterRelease`, since liveness is beyond
the prover; and what compares whole texts and trees
with a reference (`ParsesExactly`, `PrintsExactly`, `RoundTrip`): the reference is
recursive, and RECURSIVE operators are beyond the prover.

## What the runs found

- A Java class written after the readme's template (no `getNetworkVendor`) ends the
  process on the call after the first `get_vendor` (`jni_template`).
- `get_lac_cellid` and `get_lon_lat` cannot succeed: they return a positive length as
  if it were an error, and the header calls that a success (`hal_success`).
- `check_network` reports a working network as false (`hal_network`).
- The delay to `119.29.29.29`, the host the application measures, is always -1
  (`ping_literal`).

Also seen, with no document to hold them against: `sendATCmd`'s answer is copied by
`strcpy` into the 256 bytes of `at_reply`, so that a longer one ends the process or
corrupts its stack (`TextFitsBuffer` and `CleanRunsSurvive` except it); a call of any method
of `YuntuHal` that asks the telephony service, `getImei` excepted, ends the process before
`deviceInit`, and with a `SecurityException` after it; `cJSON_Compare` finds an infinity equal
to every other number and not to itself (`compare_double`); `cJSON_Minify` takes the
quote behind an escaped backslash for an escaped one, so that it strips blanks
inside the strings that follow; an object whose text ends with a comma, given by its
length, is read one byte too far; `cJSON_PrintBuffered` with a prebuffer of 0 and
hooks copies a byte of an empty buffer; `onGranted` on a process whose SDK has not
called `deviceInit` ends it with a null pointer; `get_lon_lat` asks `getCellid`
for its text, not `getLocation`; a measurement whose failures alternate
between timeouts and IO errors answers 0; comments speak of three and of five
connects where there are four; `YuntuHal.java:168` lacks a semicolon.

## Not modelled

- `libiotlink.so` beyond its threads. The headers `qcloud_iot_import.h` (but for
  threads), `mqtt_client.h`, `coap_client.h`, `utils_*.h` and the `qcloud_iot_export_*.h`
  of shadow, MQTT, CoAP, OTA and gateway hold prototypes, constants and structures of
  that library; nothing in the repository defines or calls what they declare.
- Two threads in cJSON at once: `global_error` and the hooks are plain globals. Nothing
  here reads the error position or changes hooks while the SDK runs.
- Reading through a reference whose target has changed or is gone, and references
  that reach themselves: the library leaves both to its caller.
- In `cJSON_Minify`, texts with two backslashes before a quote (excepted by
  `ParsesExactly`, see above); in `cJSON_Compare`, trees with two members of the same
  name up to case (`RoundTrip` excepts them: the answer depends on their order), and
  trees with an infinity.
- Fractions, and the decimal point of a locale: numbers are integers.
- `TIME_OUT` and `DELAY_TIME`, which only change waiting times: `TIME_OUT` grows by four
  seconds with every timeout and never shrinks; an empty domain.
- What the telephony service answers, but for null and exceptions; memory ordering in
  Java (a field written by another thread is seen at once).
- Shell helpers without callers (`PintNet`, `PingNetEntity`, `YunTuUtils`),
  `YuntuApplication`, build files and resources.
