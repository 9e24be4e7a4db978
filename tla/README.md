# A verification development for DreamDSP

TLA+ models of DreamDSP, the TLC runs that check them on small instances, and
proofs checked by TLAPS for every instance. Paths are relative to the repository;
`PROJECT.json` maps each definition to the lines it translates. The C++ sources of
the GUI are in `src/` of the repository, of the audio engine in `apo/` and `dsp/`.

## 1. The system

A Qt program (the GUI) edits parameters. A COM object, `DreamApo`, loaded by
Windows into `audiodg.exe`, applies them to sound. The two never talk: they share a
directory, in which `params.bin` is replaced by a rename.

```
 GUI process                    |  audiodg.exe
                                |
 models -> AppController        |   LockForProcess / UnlockForProcess  (control threads)
    |                           |        | acquire, release under m_lock
 ParamPublisher -- params.bin --+-> ParamChannel: one watcher thread for all streams
    |              impulses     |        | publish             | offer, reclaim
    +-- <hash>.imp -------------+->  ParamSlots          ConvolutionStage
                                |        | read                | tick
 pollStatus <-- status.bin -----+-  APOProcess -> EffectChain -> 20 stages (audio threads)
```

| component | state it keeps | operations | what is hard | what makes it correct |
|---|---|---|---|---|
| `dsp/ParamSlots.h` | three slots, their stamps, the active index | `clear`, `publish` (one writer), `read` (any number of audio threads) | lock-free: the reader is overtaken while it copies | an accepted read is one block, and a fresh one; neither side waits for the other |
| `ConvolutionStage` (`dsp/Convolver`) | four pointers to kernels, the crossfade | `offerKernel`, `reclaimRetired`, `tick`, `setEnabled`, `prepare`, destructor | builder, audio thread and control thread exchange megabytes without a lock | one owner, nothing freed in use, silent swaps, every kernel taken is installed |
| `apo/ParamChannel` | owner table, reference count, watcher, dead flag, file stamp, what was built for each entry | `acquire`, `release`, `watch`, `reloadIfChanged`, `rebuildImpulseResponses`, `maybeWriteStatus` | the watcher reads what control threads change; it may hang; the file changes under it | the table, the count and the streams agree; one publisher; the last change arrives; `release` returns |
| `apo/DreamApo` | locked, channel held, pending block | `LockForProcess`, `APOProcess`, `Reset`, `GetLatency`, `UnlockForProcess` | one object is locked again and again; latency is asked once | transparent without parameters; latency honest |
| `dsp/EffectChain`, `dsp/ParamBlock` | parameters last installed, order, what each stage holds | `prepare`, `reset`, `apply`, `process`, `sanitise`, `clampForRate` | long sequences of edits made while something is off; any bytes on disk | what is enabled runs the latest parameters, once, and without an old tail |
| DSP stages | windows, envelopes, control loops, filter states, rings | `setParams`, `prepare`, `process` | rings and buffers of any length, parameters changed under a running state, a NaN let in | a ceiling kept, a wiring as asked, a loop that settles, no old state |
| `ParamPublisher` | pending write, generation, blob in use | `schedule`, `publishNow`, `publishImpulse`, `clearImpulse`, `load`, `pollStatus` | blob and parameters are two files; a stale status; older versions | parameters never name a missing blob; nothing is lost between versions |
| `AppController`, `ApoConfig` | who owns the equaliser, device profiles, session, three timers | toggles, device changes, presets, restore, quit | hand-over by two writes; three stores; variables that must move together | the curve is applied once; it is stored under the right device; what is shown is what runs |
| GUI models, presets | the numbers behind the controls, the list of files, the mark | setters, load, save, import | a value passes three clamps; formats hold less than the pages | what is saved comes back, the mark tells the truth |
| `ApoInstaller`, the elevated helper | registry slots, what was displaced, services | attach, detach, install, uninstall | fails half-way; two helpers; other products | nothing displaced is lost, the services come back |
| `UpdateChecker` | asset, expected hash, replies | check, download, verify | replies out of order | what is installed is what was hashed |
| `LoopbackCapture`, hotkeys, tray, single instance | a thread, a table, a socket, a window | start, stop, bind, raise, close, quit | queued signals of a thread that has ended; keys others hold; vetoed closes | dark when off; what is shown fires; asked to quit, it ends |
| `DllMain`, `IUnknown` of `DreamApo` | reference counts | `QueryInterface`, `AddRef`, `Release`, aggregation | two kinds of `IUnknown` | a pointer held points at something |
| meters, tones, offline tools, QML | small or none | | | thin, or presentation |

`PROJECT.json` lists every component with its status, and under `hazards` what is
hard to test, each at its line.

## 2. The modules

| module | models | composed with |
|---|---|---|
| `ParamRegister` | the abstract promise of the slots: a regular register with one writer | refined by `ParamSlots` |
| `ParamSlots` | `publish`, `read` and their use in `APOProcess`, each load, store and copied word a step | the implementation of `ParamRegister` |
| `KernelCustody` | the abstract promise of the hand-over: who may free a kernel, and when one may come into use | refined by `KernelHandoff` |
| `KernelHandoff` | a kernel's life in a `ConvolutionStage`: builder's side from `ParamChannel.cpp`, audio side from `EffectChain::apply` | the implementation of `KernelCustody` |
| `ParamChannel` | the channel, its watcher, several streams and the GUI's writes | takes slots and stage as single variables |
| `EffectChain` | operators: sanitise, clamp, prepare, apply, process, latency | used by `ApoStream` |
| `ApoStream` | one processing object driving its chain | extends `EffectChain` |
| `ParamPublisher` | the timer, the generations, the blobs and `params.bin` | extended by `AppController` |
| `AppController` | the window's process, `config.txt`, `dreamdsp.txt`, the session, and what the processing object runs | extends `ParamPublisher` |
| `ApoInstaller` | one endpoint's registry values, written one at a time | composed in `ApoSetup` |
| `AudioService` | the elevated helpers, the services, the staged DLL | composed in `ApoSetup` |
| `ApoSetup` | install, attach, detach and uninstall as the window drives them | extends both |
| `DeviceProfiles`, `Updates`, `Spectrum`, `Hotkeys`, `Lifecycle` | the parts of the application that react to the outside | side by side in `MCDesktop` |
| `Stages`, `Settings` | operators and tables: the stages of each version, the range of each control | used by `Controls` |
| `Controls` | the pages' models, `params.bin` as their store, the full preset | side by side in `MCPages` |
| `Bands` | operators: the bands in the model, a `.peace` file, an AutoEq record, the block | used by `Presets` |
| `Presets` | the store of curve presets and its bar | side by side in `MCPages` |
| `ApoConfig` | `config.txt` and its several editors | side by side in `MCPages` |
| `Samples` | operators: a number, or not one | used by the six below |
| `Limiter`, `Routing`, `Levelling`, `Filters`, `Convolution`, `Transients` | stages of the chain that have a discrete structure | side by side in `MCSignal` |
| `ComObject` | the class factory and the object's references | side by side in `MCSignal` |
| `MC*` | the constants and symmetry of the runs (`ParamChannel` states its own) | |
| `Lists` | operators: a list without some of its entries | used by `ApoInstaller`, `AudioService`, `ApoConfig`, `Bands` and `Presets` |
| `*Proofs` | the theorems of the module of that name | `AppControllerProofs` has the publisher too, `ApoSetupProofs` the installer, the services and the window, `DesktopProofs` the parts of `MCDesktop`, `PagesProofs` those of `MCPages`, `SignalProofs` those of `MCSignal` and `KernelHandoff` |

### ParamSlots
`slot`, `stamp` and `active` are the members; `wpc`, `wnext`, `wtodo` are where
`publish` is, `rpc`, `attempt`, `ri`, `rs0`, `rtodo` where `read` is. A block is its
number, written word by word in any order, so a copy overtaken by the writer is a
mixture of numbers. `PublishMark`, `PublishCopy`, `PublishSettle`, `PublishStore` and
`ReadBegin` to `ReadCheck` follow the lines of the two functions. The fences of the
code entitle the model to one order of those accesses; a removed fence is outside it.
`read` copies into `m_pending` itself, as `APOProcess` has it, also in an attempt that
fails. `got` and `floor` are history variables.

### KernelHandoff
`held` is one function from every pointer that can own a kernel (members, and the locals
of the builder and of `tick`) to kernels; `Move` is an exchange. `tick` is cut at each
exchange, and between them the builder runs. The crossfade goes in `FadeSteps` steps from
dry to wet. `Destroy` is the destructor. Which passes have a reason to build is left open.

`KernelCustody` has no pointers, geometries or program counters. A kernel is in transit or in use,
and one owner may free it. `KernelHandoff` implements it with `m_current` as the kernel in use, whatever any other
pointer holds as `InTransit`, a locked stream as `streaming` and the crossfade as `wet`. Most exchanges are then
stutters. `Lose` is the one step by which a kernel is left without an owner, and the code has it:
`tick` takes out an offer that does not fit and, when the place for what is retired is occupied, stores it back
(`dsp/Convolver.cpp:329`) over whatever was offered in the meantime, which nobody frees then.
`OnlyOffersAreLost` says that nothing else is.

### ParamChannel
Control threads move through `st`; each thread inside `reloadIfChanged` has its own program
counter and locals, as the function is run by the first `acquire` and by the watcher. `lock`
is `m_lock`, which the watcher never takes. `Stat`, `Open`, `Publish`, `Grab`, `Use`, `Offer`
and `Record` are the parts of a pass between which the GUI, control threads and audio threads
run. `Join` either finds the watcher ended or gives up after five seconds and leaves the
channel dead. `StartWatcher` may fail. The change notification and the two-second poll
are both `Poll`: a pass may begin at any time.

### EffectChain and ApoStream
A stage is a name and one number for its parameters. Constants say what matters of it:
the range `sanitise` allows, whether `clampForRate` bounds it, whether its number is a delay,
and what its `prepare` does to the parameters (keeps them, zeroes them, puts back those of
construction). A chain is a record: `mask`, `flags`, `value` are `m_applied`, `running` is
what each stage really holds, `memory` the age of the sound in it. `Lock` is
`LockForProcess` with the channel and the `GetLatency` after it, `LockAlone` the same when
`acquire` refuses. `APOProcess` takes any sanitised block, since anything may be
published between two callbacks; a buffer that is silent or not valid is a stutter. A read
that fails both attempts is left to `ParamSlots`. The convolution is the stage whose number
is the generation of its impulse response; its delay depends on the arming only.

### ParamPublisher and AppController
One window process. `ctl` holds the controller's fields, `pub` the publisher's; `pubTimer` (30 ms)
and `writeTimer` (150 ms) may fire in any order after any action. A handler that writes several
files is cut between the writes (`phase`, `job`), so that `Crash` can fall there; a write that may
fail comes in both outcomes. The equaliser's curve and everything else the pages hold are two version
numbers (`Body`). Outside are the registry slot, the audio service (`RestartAudio` makes the slot's
owner run) and the object's watcher, which is `Reload`, one step for what `ParamChannel` has in detail.
Not here: several endpoints, and the details of what a block keeps, which are `Controls`'.

### ApoInstaller, AudioService, ApoSetup
`attachApo` and `detachApo` have a program counter with one value per registry write; every write may
fail, the program may die between two, and other products (`OthersWrite`) write whenever they like.
`theirs` is a history variable: the slot as the others would have it. `excused` says that one of them
wrote under our hands or after the note of what was displaced was taken; the code cannot know, and no
property speaks of that case. A helper stops the services in the manager's order, replaces the DLL and
the keys, and starts what it had found running; a wait may time out and the stop land later. The window
waits two minutes (`gaveUp`) and may then start a second helper.

### DeviceProfiles, Updates, Spectrum, Hotkeys, Lifecycle
*Profiles*: a curve is the number of the edit that made it; `meant` remembers what was shown for
each device. *Updates*: replies are awaited one at a time, as `m_busy` has it, but a release may be
published between any two; the network is external. *Spectrum*: the thread, the interface's queue of its
signals, and the wait that may end in a termination. *Hotkeys*: `holder` is the window manager's table,
in which other programs take keys too. *Lifecycle*: processes probing for one another, the window, the
tray that may vanish, close and quit.

### Stages, Settings, Controls, Bands, Presets, ApoConfig
`Settings` has a row for each control with three ranges that the code has in three places: the
setter's, `sanitise`'s, and the values of a fresh model and of a fresh block. `Controls` sets,
publishes, restores and brings older blocks forward with these rows; `moveStage` and the migration of an
order are sequence operators. In `Bands` a frequency is a place on the axis and a text with two decimals
is a rounding, so that a save and a load are what the formatting does to a number. In `Presets` the
bar finds the loaded preset by name, as the code does. `ApoConfig` cuts `setEngaged` between reading
and writing, where another editor may write.

### The stages of the chain
Numbers are small integers, chosen for each stage so that every division the code does is exact: powers
of two in the limiter, whole decibels in the levellers and the shaper, products and sums in the
convolution. What needs a transcendental function is a constant: the loudness of a sum (`Lufs`), the
interpolated true peak (in the input), the coefficients of a filter (the band they are made from). A ring,
a window, a partition, an index and every branch on them is the code's. `Convolution` compares with the
definition of a convolution, `Routing` with the matrix product and the delayed past, `Filters` with a
design made from nothing.

### The runs that follow one part at a time
`MCDesktop`, `MCPages` and `MCSignal` put modules side by side whose variables are their own: `focus`, chosen at
first, says which one moves, and the others stay at the first of their initial states. The states of
such a run are the sum of the parts', not their product, and nothing is said of interactions: a
preset loaded into a device's profile is an `Edit` there, a stage's neighbours in the chain are its
inputs. Where the interaction is the point the parts are composed: `ParamPublisher` with
`AppController`, `ApoInstaller` with `AudioService`.

## 3. The runs

| run | asks | instance | distinct states |
|---|---|---|---|
| `ParamSlots` | whole, fresh reads; progress of each side without the other; refinement of `ParamRegister` | 3 slots, blocks of 2 words, 5 publications | 7,002 |
| `KernelHandoff` | ownership, nothing freed, fade; refinement of `KernelCustody`, so silent swaps; a kernel taken is installed | 3 kernels, 2 geometries, 2 fade steps | 750,816 |
| `ParamChannel` | table, count, watcher and streams agree; one publisher; no orphan | 3 streams, table of 2, 2 impulse responses (one refused), 1 rate, 1 write | 850,879 |
| `ParamChannelServe` | the last valid write reaches every served stream; `release` returns | 2 streams, no impulse response, 3 writes | about 138,000 |
| `ApoStream` | latest parameters, no old tail, each stage once, transparency, latency, quiet callbacks | 3 stages (one clamped by the rate, one zeroed by `prepare`, the convolution), 1 rate, raw values 0, too large and NaN, orders good and bad | 24,890 |
| `ApoStreamZero` | are parameters always installed? (violated) | the same with a matrix | |
| `AppController` | the curve applied once; no block names a missing blob; the status tells the truth; a quit loses nothing; changes reach the object | 1 impulse response, 2 operations, 2 starts, 1 fault | 907,677 |
| `ApoSetup` | nothing displaced is lost; others' values stay; the services come back; the message is true | 1 other product, 2 dependents in a row, 2 helpers, 2 operations, 1 fault, 1 timeout, 1 foreign write | 1,551,422 |
| `Desktop` | profiles, updates, spectrum, hotkeys, closing and quitting | 2 devices; 6 releases and 5 replies; 2 outputs and 4 switches; 2 actions and 2 keys; 3 processes | 211,813 |
| `Pages` | what is shown is applied; older files come forward; presets come back; the mark; other programs' files | every control, files of versions 2 to 6; 3 names in 2 directories; 4 texts of `config.txt` | 440,504 |
| `PagesFullPreset` | does a full preset bring back every control? (violated) | as `Pages` | |
| `Signal` | the limiter's ceiling; routing; the levellers' loops; filter states; the convolution; level independence; references | 2 to 6 channels, windows of 2 to 3, 5 to 8 samples, a setting changed under way | 470,799 |

Some of the checked formulas are conjunctions of parts that have names and comments of their own
(`SlotInv`, `HandoffInv`, `ChannelInv`, `Delivery`, `Safety`, `NothingIsLost`, `LeftAsSaid`,
`StartsKeep`, `ShownIsApplied`, `LoadedIsAsSaved`, `OthersKeepTheirs`, `CurvesKeepTheirDevice`,
`LimiterKeepsItsWord`, `GainsAreFollowed`, `FiltersAreCurrent`). Each property of a passing run is
paired in `PROJECT.json` with a plausible bug (an operator beside the one it replaces, marked
"Mutant of") under which TLC finds it violated; modules hold further mutants, for other parts of
a conjunction.

### Why the bounds are enough
*Slots*: five publications over three slots overwrite the slot
a reader is in and come round to it again within one read. *Kernels*: three let one be in use,
one wait and one be offered; one fade step strictly between dry and wet lets a toggle arrive
half-way; two geometries let a kernel be refused by `tick` and be put back. *Channel*:
three streams on a table of two give a refused `acquire`, an entry used again by another
stream, and `acquire` of one during `release` of another; one write suffices for the
bookkeeping, and three are needed for the race of stat, open and read. With one rate the
branch of `Callback` that hands back a kernel of another rate does not arise in these runs;
`KernelHandoff` has it, and the proofs hold for all rates. *Chain*: every stage kind occurs
once, one value is at the limit of the rate and one above the range; the states of the chain
are finite, so there is no bound on the length of the sequences. `MaxPublish` and `MaxWrites`
are the only bounds on counters there; stamps are modulo `StampMod`, and the assumption that none
wraps stands for two years of uninterrupted edits on one stream.

*Application*: every handler writes at most three files, and a fault needs one handler before it
(something to lose), one under it and a start after it: two operations, two starts, one fault. The
start's own greeting and the registry's changes are not counted as operations. *Setup*: the second
helper is the first that can meet another; a dependent of a dependent gives the two orders of stopping;
one foreign write falls between any two of ours. *Desktop*: two devices change places in the list
when one is unplugged; the releases differ in each field that is looked at; a queue of three holds a
failure, a spectrum and the next; a third process starts while the second leaves. *Pages*: a
control is moved at most twice, to either end of its range; no control depends on another's value but the two
crossovers, which move together; four bands meet the limit of three. *Signal*: each ring goes
round at least once with every window length, and a NaN, a change of settings and a reset fall at any
place in it; the levellers' `Enough` buffers and ticks cover the longest way at their slowest rates.

Symmetry is used in `ParamChannel` only, on the streams, and that run has no temporal property.
The deadlock check is off in `AppController`, `ApoSetup`, `Desktop`, `Pages` and `Signal`: there the
user's operations, the starts or the samples are bounded, and a program that is closed, or that
nobody uses, stops. In the other runs it is on.

### What the violated runs show
1. `ApoStreamZero`: `prepare` zeroes what the chain believes installed, but some stages then hold
   something else. All-zero parameters (a muting matrix, a mono widener) are not installed on a
   new stream.
2. `PagesFullPreset`: the full preset has no fields for the stages added after it was designed
   (limiter, dynamic bass, transient shaper, clipper, auto gain, night mode), though it has their
   switches: loading one switches them on with whatever the pages show.

### Stated and violated, not among the runs
These are stated beside the others, each from a sentence of the code or of its documents, and TLC
refutes each, most in seconds, when its name is put into the configuration of the module's run.

1. `AppliedIsWhole` (`ParamSlots`): two failed attempts of `read` leave a mixture in `m_pending`,
   and it is applied, where comments say the old copy is kept. Ranges hold field by field, but the
   stage order of a mixture need not be a permutation.
2. `WaitIsBounded` (`KernelHandoff`): a retired kernel is collected only when `params.bin` changes, so
   the "bounded wait" of the next one, and the dry stage, may last until the user edits something.
3. `InUseFits` (`KernelHandoff`): an instance locked again at another rate keeps a kernel built for
   the old one.
4. `EngagesOnNextStream` (`ParamChannel`; in `ParamChannel.cfg` without the symmetry): what the channel remembers of an entry outlives its stream; the next
   instance on it is armed for an impulse response and is never given it.
5. `NeverDismantled` (`ParamChannel`): with a second stream open, `release` does not wait for the
   watcher, which may hold the owner pointer of the first.
6. `InterfaceNamesWhatRuns` (`AppController`): an impulse response whose file could not be written
   is still the one the window names, and can be switched on there, while the block names none.
7. `SavesOverTheLoaded` (`Presets`): "Over the loaded preset only, and never over a Peace one"
   (`qml/components/PresetBar.qml:118`), but the bar finds the loaded preset by its name, and a
   curve imported from the database under the name of a saved preset is saved over that preset.
8. `ClosedExits` (`Lifecycle`): `qml/components/SettingsPane.qml:111` says that without a tray icon
   closing exits; `main.cpp:81` keeps the program from quitting with its last window, so it runs on unseen.
9. `EditsTheSelected` (`DeviceProfiles`, with `Careful = FALSE`): the box is said to choose the curve that is edited
   (`README.md:372` of the repository), but a refresh of the list, a start and the switch itself change the box without the
   key. `Careful = TRUE` keeps the user of the run from those three (he turns the mode on and off and
   leaves with "all devices" selected, and no hardware changes meanwhile), and then
   `CurvesKeepTheirDevice` holds; without it a curve can be stored under another device's key.

### Further remarks on the code
Seen while modelling, outside the properties or excluded by their premises:

* Limiter: `SlidingMin::n` is an `int` and wraps after 2^31 samples (12.4 h at 48 kHz), and around the
  wrap the look-ahead is lost; `settled` starts afresh there, so `DownBeforeThePeak` leaves it out, with `IntMax` for the greatest `int`. After a NaN the filters that
  estimate the true peak stay deaf.
* Transient shaper: the gate is an absolute level, so the shaper is independent of level only until
  it shuts. Auto gain: `max` lowered while the gate is shut leaves the gain above it
  until something is heard.
* `DllCanUnloadNow` looks at the lock count only (`apo/DllMain.cpp:184`), not at living objects.
* After a restart the mark "modified" is gone although the curve is not saved; a preset of Peace's with
  a band out of our range is shown as it is and applied as clamped.
* A graphic curve or a loudness of amount 0 comes back from a start as 1; a matrix switched on with the
  identity, and a delay of 0 ms, come back switched off.
* `loadFullPreset` carries neither the graphic curve nor the order; `saveFullPreset` uses the name as typed.
* Another editor that writes `config.txt` between our reading and writing it loses its change
  (`meanwhile` excludes it from `OthersLinesKept`).
* Two programs that start at the same instant may both find nobody (`platform/SingleInstance.cpp`);
  `Lifecycle` lets one probe at a time.
* `uninstallApo` says it has succeeded although a `detachApo` failed: `SaysWhatIs` speaks of runs
  without faults. A stop that lands after the wait for it has timed out leaves `Audiosrv` stopped:
  `AudioReturns` and `EverybodyBack` speak of waits that end.
* `UpdateChecker` ignores the result of writing the file and waits for a reply without limit.
* A failure of an old capture that is still queued switches the analyser off while the next capture runs
  (`overtaken`). A hotkey that clashes at a start is dropped and the next save of the session erases it.
* A failed `publishNow` is not tried again until the next change (`failed`).

### Fairness
*Slots*: weak fairness of the callback (the engine calls it every 10 ms and `read` has no
loop that depends on the writer); none for the writer. *Kernels*: the audio thread's
callback and the part of a builder's pass that has begun; nothing makes a new pass begin, so
`TakenIsInstalled` names the premise that the builder collects again and again. *Channel*: control
threads finish the `acquire` or `release` they are in and streams are called back; the
watcher is assumed to run only where a property says `WatcherRuns`, because a file system call
may hang; the five-second wait ends in any case; the engine and the GUI need do nothing.
*Application*: the event loop fires timers that are running and finishes the handler it is in,
and the object's watcher reloads; nobody need start or use the program, nothing need fail or crash.
*Setup*: a helper that has begun gets on (by a failing call if nothing else), and the service manager
completes a stop it has accepted. *Desktop*: the event loop takes what is queued, fires the idle timer
and ends its wait for the capture thread; it looks at a connection that asks for the window; a start is
answered; `main` returns once the loop has. Nobody need click anything. `Pages` and
`Signal` have safety properties only.

## 4. The proofs

Nothing is assumed but the named assumptions on the constants, which TLC evaluates in the runs. They
say of the code's own constants what they are (more than one slot; version numbers in their order; a default
order that is a permutation; a delay of at least one sample; a hard floor that the shaper's gains stay above; a look-ahead and an
`int` of some size), and of the environment that it is what its type says: no stamp wraps, instances and
stages are finitely many, services and bands are what their fields can hold, what comes in is a number or
NaN, and what stands for "none" is nothing else.

Those of the pages say what is in the files before the program meets them. A `params.bin` of an older
version was published by that version: its numbers had been through `sanitise()`, its switches through
`enableBits`, its order was a permutation of the stages it knew (`OldFilesAssumption`). Peace's files and
AutoEQ's records hold numbers, with gains within 40 dB and a quality of at most 100
(`PresetsAssumption`): neither reader bounds those, while the block does, so a preset of Peace's with 60 dB would be
shown as 60 and played as 40. A line of `config.txt` is a command and a name, and nothing else.

* **`ParamSlotsProofs`**. `AcceptedIsWhole` is not inductive: whether a read is accepted
  depends on a stamp taken earlier. `SlotInv` adds where the writer has got to (`WriterInv`:
  every slot it is not in is settled and whole, and the active one holds the last block finished)
  and the reader (`ReaderInv`: while the stamp it took is still there, what it has copied is what
  the slot holds). Stamps only grow and none wraps, so an unchanged even stamp means an
  unchanged slot. Results: `SlotInv`, `TypeOK`, `AcceptedIsWhole`, and `ImplementsRegister`,
  the refinement: a finished `publish` or an accepted `read` is a step of the register, all else
  a stutter.
* **`ParamChannelProofs`**. `ChannelInv` adds who is inside `acquire` or `release` and what this
  says of the watcher and the control thread's pass (`LockInv`), and what a pass holds in its
  locals (`PassInv`). The count is a cardinality: lemmas say what registering and
  releasing do to it. Steps of a pass leave the bookkeeping alone, shown once for all of them.
  Results: `TypeOK`, `TableMatchesStreams`, `SingleWriter`, `NoOrphanWatcher`.
* **`ApoStreamProofs`**. `StreamInv`, defined there, relates the block last ingested to the
  chain: what is remembered as applied to an enabled stage is what was wanted of it, and what a
  stage runs is what is remembered, or it is remembered as zero and was never installed; memory
  agrees with mask and arming. `ApplySettles` (after `apply`, the chain agrees with the block)
  and `PrepareSettles` carry it over the actions. `OrderInv` says that the order in use is a permutation
  as soon as a block has been sanitised, and `PositionsCounted` that a stage then has one position.
  Results: `TypeOK`, `EnabledRunsLatest`, `NoOldTail`, `EachOnce`, `TransparentWithoutChannel`,
  `NeverUnderReported`, together `Safety`, and the action property `QuietWhenUnchanged`.

* **`AppControllerProofs`**. A handler is cut between its writes, so what holds of the files holds only
  together with what `job` still has to write. `ControllerInv` says which remainders there are and what
  each means: which of the slot, `config.txt` and the switches has been moved already, that a blob is
  written before the block that names it, which generation a pending write will have. Crashes and
  failing writes fall anywhere in a job. Results: `AppliedOnce`, `NamedBlobExists`, `InSyncTellsTruth`, the
  type invariants of the window and of its publisher, and the action property `NothingLostOnQuit`.
* **`ApoSetupProofs`**. `SetupInv` ties each helper's program counter to what it has read and noted (the slot, the
  note of what was displaced, what it found running), with a list of what is displaced that survives every
  write, failure, crash and foreign write that the code can know of; and the stopped services to the
  helper that will start them. `LeftAsSaid` follows from what each exit leaves. That taking an entry out of a list
  leaves the others in their order is proved by induction on the length, as a least counterexample of
  the naturals (`WFMin`). Results: `NothingIsLost`, `LeftAsSaid`, and the action property
  `OthersAreLeftAlone`.
* **`DesktopProofs`**. Small invariants over many interleavings: the release, asset and hash held belong to
  one reply and no reply of an older request can come (`OneRelease`); what the table of the window
  manager holds, the saved settings name, and what is shown is one of them (`ShownIsWhatFires`); the
  curve shown is the one meant for the device selected (`CurvesKeepTheirDevice`, with `Careful`, the same
  hypothesis as in the run), and an edit goes to that device and to no other (`TheSelectedIsEdited`).
* **`PagesProofs`**. `PagesInv` is one invariant for each part, and a step of one leaves the others alone. *Controls*
  (`ControlInv`): the block on disk is what the models hold, sanitised; the models hold numbers, and
  no negative delay; the order is a permutation; the full preset on disk is what was kept when it was saved. The rows of the
  table enter once, by lemmas on what each row is (`RowsAreSound`, `NamedRows`) and on what `Sanitised`, `Restored`
  and `Clamped` do to a number; that sanitising twice is sanitising once, and that restoring undoes it, is what makes a start
  lose nothing. For a version-5 file, each stage put in keeps the places of the others in their
  order, and the four insertions leave a permutation of all twenty with the newcomers beside their anchors. Results: `ShownIsApplied`,
  `StartsKeep`, `LoadedIsAsSaved`. *Presets* (`PresetsInv`): a file of the user's is what `WriteFile` made of the curve that was
  saved, unless it was deleted; every curve has 1 to `kMaxBands` bands whose fields the writer can write;
  the session stored is the curve at the quit. Reading what was written gives the curve to two decimals (`WrittenIsRead`) and
  rounding twice is rounding once. Reading AutoEQ's lines yields records of lines that are there, by induction on
  their number. Results: `UnmarkedIsOnDisk`, the rest of `ShownIsApplied` and `LoadedIsAsSaved`.
  *config.txt* (`ConfigInv`): what is about to be written is made of the text that is there, unless
  somebody wrote meanwhile. That leaving lines out of a list commutes with adding one, and with the
  blank ones at the end that go, is proved once for any list. Result: `OthersKeepTheirs`.
* **`SignalProofs`**. *Kernels*: `HandoffInv` adds to ownership what the two program counters imply
  of the locals that hold kernels, and that no stream ends inside a tick. One lemma says that an
  exchange keeps ownership, one that a destruction does; each action has a lemma: `OneOwner`, `NothingFreed`,
  `FadeConverges`, and the action properties `SwapIsInaudible` and `OnlyOffersAreLost`, which no run checks by itself:
  the refinement `ImplementsCustody` has them. It goes action by action: moving from one place in transit to another changes
  nothing that `KernelCustody` sees, taking one away shrinks the transit by what the place held, because no other place holds it,
  and an overwritten offer has the two others that `Lose` asks for. *Object*: every pointer held is counted, in the count its `IUnknown` uses (`CountsAgree`), so
  `PointersAreGood`. *Shaper*: two shapers that hear the same sound at two levels have envelopes that far apart and
  the same gain, as long as neither is shut (`Alike`): `LevelIndependent`. *Equaliser*: a section is designed from its band at
  the current rate or is cleared, and its history is of that design; that the sections that run are
  those of the enabled bands, in order, needs lemmas on `FlattenSeq`: `FiltersAreCurrent`. *Routing*: a delay
  line is the tape of what its channel was fed, each place as old as its distance from the cursor says;
  what is read `d` samples behind is what went in then, over the end of the ring and of a buffer; the
  sum the code makes and the one of the definition are equal term by term: `WiredAsAsked`. *Limiter*: the entries of the
  sliding minimum were each pushed when some number of frames had come (`born`); their values rise
  from head to tail, a full ring drops only what is too old to matter, an entry younger than the settings
  has its age as the distance of its index from the count, and so, while the count does not wrap,
  expiry takes only what has left the window (`Windowed`). Therefore every frame still to come out has an
  entry no higher than its target: the minimum is under it, the envelope under the minimum, and
  the product under the threshold. The line holds what was fed and no peak is under its level, so the
  clamp does the rest when the envelope does not: `LimiterKeepsItsWord`, for every look-ahead, any settings changed at
  any time, and every `IntMax`. *Convolution*: a sum over a set is a recursion over its subsets in the order that `CHOOSE` gives; that
  every term may be taken out first is shown by building the table of all its partial sums (`Adds`), and then sums split
  into blocks (`SumOfBlocks`). What the stage stores is the past, each place as old as it says (`StoredIsPast`), so the
  partitions' products with the windows in the ring are the terms of the definition, block by block (`BlockIs`), for
  the kernel of the old tick as for one just installed: `ConvolvesExactly`.

* *Auto volume* (in `SignalProofs`): the sum the meter keeps by difference is the sum of its ring
  (`MeterTypes`), and no block is louder than the loudest programme (`Bounded`). A programme that has been on for `n` buffers
  is all there is in the blocks that began since: once `n` reaches what is in the accumulator and `j` blocks more, the
  newest `j` places of the ring, counted backwards over its end, hold its energy (`HeardSo`). At `n` for a whole
  window the target is where the settings want it or the gain is behind the gate and stays, and what
  is left of the way and `n` together stay under a bound, since each buffer takes at least one decibel off
  (`AtRest`, which the end of a block establishes and each later one finds true again). *Night mode*: what smoothing leaves of
  the way is halved by each tick but for the rounding, from 39 dB to one in six (`Halved`); each curve is five straight pieces
  whose slopes are whole numbers in units of 1/2280 dB, so that its order is proved for every level (`LouderStaysLouder`),
  as is what the gain can be (`GainIsBounded`).
  Result: `GainsAreFollowed`.

`LevellerAssumption` and `NightAssumption`, stated for this, say of the constants of `Levelling` what the
setters clamp them to (a rate and a creep that are not nothing, a gate above what "unknown" is), that the loudness of every
sum the window can hold is a number, and that `Enough` buffers are a window, a block and the way between two
settings' bounds. A tick of night mode is one in which every time constant keeps at most half of the old value: these
constants are half-lives.

Only model-checked: the liveness properties (`Delivery`, `TakenIsInstalled`,
`ParamsReachStreams`, `ReleaseReturns`, `ChangesReachTheObject`, `AudioReturns`, `GoesDark`, `QuitEnds`,
`SecondStartShows`), since fairness and ENABLED are out of the prover's reach. Every invariant and every
action property of the passing runs is a theorem.

## 5. Not modelled, and why

* Arithmetic without a discrete structure: the coefficient formulas, FFT, resampling and K-weighting,
  the dynamics of the compressors and the tube, reverb, bass, exciter, widener, crossfeed and clipper,
  the analyser's spectrum. TLC has no real numbers. What the pages let through to these stages is followed by `Settings`.
* Memory order weaker than what the fences give.
* Several audio threads reading the same slots: readers share nothing they write, so one stands
  for all.
* The bytes of files: layout, magic, checksum, escapes. A file is valid or not, and what a field can
  hold is modelled where it is less than what the pages can show. The parser of graphic curves.
* Bypass leaves the stages as they are, by design of `activeMask`; `NoOldTail` is about
  switching effects off. While bypassed the alignment delay is absent though reported:
  `NeverUnderReported` is the direction the documents promise.
* Format negotiation and the registration of the COM server: conversions and calls to Windows in a fixed order.
* QML other than `Main` and the preset bar, curve items, translations: presentation.
* Test tones, meters, autostart, the list of endpoints, the system report: thin wrappers of Windows calls.
* The offline tools, the harness (the tests) and the scripts.

## 6. The plan

Done: the path from `params.bin` to the sound; the window's side of it, the installer, the desktop
parts, the pages and their files, and the stages with a discrete structure, checked by TLC and, but for
what is said above to be out of reach, proved.

Left, in this order:

1. `ParamChannel` over `KernelCustody`, which `KernelHandoff` implements, in place of its single variable for the stage.
2. The parser of graphic curves as a pure function.
