# A verification development of libfprint-syna0082

The repository is an experimental stack for the Synaptics/PQI `06cb:0082`
fingerprint reader: a libfprint image driver with its own small-area matcher
(`patches/libfprint/`), changes to libfprint's image-device framework
(`patches/*.patch`), C probes that talk to the reader through libusb
(`probe/`), and tools that prepare the private records the driver needs,
decode captures, enroll and verify images, and examine vendor files (`tools/`).

These TLA+ modules model the parts that keep state and can go wrong in an order
nobody tested. TLC checks them on small instances; TLAPS proves the theorems
listed below for every value of the constants.

## 1. Inventory

### The driver's state machine: `patches/libfprint/syna0082.c`

State: the two private records (`config_06`, `scan_02`), `init_stage`,
`rearm_stage`, `capture_count`, `deactivating`, `awaiting_release`,
`wake_retry_used`; and, outside the struct, the USB transfers in flight and the
retry's timer.

Operations: `dev_open`, `dev_close`, `dev_activate`, `dev_deactivate`,
`dev_change_state`, `dev_extract_print`, `dev_append_print`, `dev_match_print`,
and the callbacks of operation control, init write and read, interrupt, capture
write and read, rearm write and read, and the wake-retry timer.

An activation is one vendor control request and seven command/response
exchanges. Then an interrupt read waits for a finger; a finger event starts the
image read and its command; after the image the driver waits for a quiet
period of 600 ms (a read that *should* time out) to conclude that the finger left; then two
rearming exchanges prepare the next touch. A sensor that has been idle drops off
the bus during the first transfers of an activation; that disconnect is absorbed
once, by a timer that starts over.

### The image-device framework, as patched by `patches/0002`

State: the framework's state (`INACTIVE`, `ACTIVATING`, `IDLE`,
`AWAIT_FINGER_ON`, `CAPTURE`, `AWAIT_FINGER_OFF`, `DEACTIVATING`), `active`,
`action_error`, `enroll_stage`, the action in progress with its cancellation,
its result and the idle sources. libfprint itself is not in the repository; what
the patches change is modelled from the patches and the rest is **external**,
modelled from how the driver and the patches use it.

### How the two interact

Everything runs on one main loop, and the driver and the framework call each
other synchronously and re-entrantly: `capture_read_cb` reports an image;
*inside that call* the framework extracts the print (the driver's
`dev_extract_print`, which may report the finger as gone), appends it, counts
the stage, perhaps deactivates the device (the driver's `dev_deactivate`) and
completes the action; and then the callback goes on and listens once more. What
interleaves is the loop's sources: completions, timers, idle sources, the client
and the finger.

### The matcher: `patches/libfprint/syna0082-matcher.cpp`, `dev_match_print`

Extraction of features into an encoded print, decoding with its checks, the
score of one geometric fit, the gallery an enrollment collects, and the decision
over all prints of a gallery. State: the stored template and the locals of the
comparison loop.

### The reference matcher: `tools/syna0082_matcher.py`

The same decision in Python, with one difference, and three commands around it:
`enroll` extracts samples from images and saves them as a template, `verify` and
`evaluate` load a template and compare images with it. State: the template file,
the temporary files of enrollments in progress, and each process's locals and
exit status. Commands run concurrently on one file, each of their steps may fail,
and a process may be killed. A template is written under a temporary name and
renamed; the check that there is none yet is made long before.

### The acquisition probe: `probe/syna0082-scan.c`, `probe/syna0082-protocol.c`

A sequential program around one asynchronous libusb transfer: options, records,
opening, the exchanges (with experiments that omit or alter the configuration),
a bounded wait for a touch, the frame read with its cancellation, an output file
created exclusively, a common way out.

### The query probe: `probe/syna0082-query.c`

Opens the reader as the acquisition probe does, sends three queries, checks each
answer and prints the partitions a flash answer declares. It shares nothing with
the acquisition probe but the reader, whose interface only one of them can claim.

### The provisioning tool: `tools/syna0082_provision.py`

Selects the two records from a capture (and optionally a vendor DLL), and writes
them and a manifest one after the other. Nothing is atomic across the three
files, and the driver reads the same directory.

### The capture tools

`tools/syna0082_protocol.py` reads a normalized capture (one JSON record per
line), puts it in frame order, pairs each command with its responses, and
decodes, validates, compares and counts them; it also generates the commands
whose contents are known. `tools/syna0082-extract-init.py` and
`tools/syna0082-image-summary.py` read the same captures with code of their own,
as the provisioning tool does, and write what they find file by file. State: the
records and transactions of one run, and the output directory, where an earlier
run may have left files and which may lie in a Git worktree. Four readers of one
format can disagree, and a run that fails leaves what it has written.

### The vendor-file tools

`tools/syna0082_descriptor_catalog.py` walks a table of pointers in a vendor file
to a null pointer; `config_from_dll` of the provisioning tool tries every known
place of the table and takes the one configuration they offer;
`tools/syna0082_container_map.py` compares the catalog's payloads block by block
and checks their prefixes against a table of keys. State: the position in the
table, what was parsed so far, the counts. The file is one nobody controls.

### Parts that are not modelled

| Part | Reason |
|---|---|
| `probe/syna0082-info.c` | prints descriptors, keeps no state |
| `tools/syna0082_calibration_map.py`, `-calibration-summary.py`, `_driver_inventory.py`, `-fp3-summary.py`, `usbpcap-summary.py` | one pass over a file that prints what it finds; no state outlives a line or record, nothing is written |
| `tools/syna0082-image-transform.py`, `-correlation.py` | numerics over the pixels of an image |
| Windows scripts, C#, Ghidra scripts | drive vendor software that is not in the repository |
| shell runners, `prepare-libfprint-source`, packaging, udev rule | run other programs; no state of their own |
| tests, the legacy patch | read as evidence; the regression test is the source of `VerifyAfterEnroll` |

### Hard behaviours

`PROJECT.json` lists every hazard at its line. The main ones:

- an interrupt read that **outlives its action** and completes in the next one,
  whose `awaiting_release` it then reads;
- `capture_count`, which counts images and is compared with a number of *stages*;
- errors that mean success (the quiet timeout), and a disconnect that is either
  expected or fatal;
- a cancellation that fails two transfers of one capture, each reporting;
- re-entrant calls: the state before `image_captured` is not the state after it;
- `rearm_stage` and `init_stage`, shared by all conversations with the device;
- a frame callback that may run inside a synchronous libusb call, or after the
  function that owns its buffer wants to return;
- a provisioning run that is killed between two files, an enrollment that is
  killed between writing and renaming, an extraction that fails half-way;
- two enrollments that both see no template;
- four readers of one capture format, and two implementations of one decision;
- captured lines out of order, with frame numbers that repeat or are missing;
- a broken or foreign table at one of several guessed addresses.

## 2. Modules

| Module | Models | Role |
|---|---|---|
| `Syna0082` | driver, framework, bus, client, finger | the core specification |
| `ActionContract` | what a client is promised | abstract specification, refined by `Syna0082` |
| `Syna0082Properties` | | invariants, action properties, liveness, the refinement mapping |
| `Syna0082Proofs` | | TLAPS: what holds for every client |
| `ConversationProofs` | | TLAPS: what holds for a patient client, and the refinement |
| `Matcher`, `MatcherProperties`, `MatcherProofs`, `MCMatcher` | extraction, gallery, comparison loop and decision of the driver | |
| `Decision` | the Python decision | shared by `MatcherProperties` and `TemplateStore` |
| `TemplateStore`, `TemplateProperties`, `TemplateProofs`, `MCTemplates` | the Python commands as processes on one template file | uses `Decision` |
| `ProbeScan`, `ProbeScanProperties` | the acquisition probe as a process, libusb's events, the bus | component |
| `ProbeQuery` | the query probe as a process | component |
| `Probes`, `ProbesProofs` | both probes on one reader | composition of the two, with their fairness |
| `Provision`, `ProvisionProperties`, `ProvisionProofs`, `MCProvision` | the writes of the provisioning tool, the directory, `dev_open` | |
| `Decoder` | reading, ordering and pairing of a capture | component, with the pairing said of the file |
| `Commands` | the command schema, the generated messages, what a record and an image look like | pure definitions |
| `CaptureTools` | the other readers of the same capture, and the tools that write | composes `Decoder` and `Commands` |
| `CaptureReports` | validation, diff and coverage | operators on a finished decoding |
| `CaptureProperties`, `CaptureProofs`, `MCCaptures` | | properties, TLAPS and instance of the decoder and the capture tools |
| `Catalog` | the walk of a catalog, the configuration taken from it | component |
| `Containers` | identification of a message, the container map | extends `Catalog` |
| `VendorProperties`, `VendorProofs`, `MCVendor` | | properties, TLAPS and instance of the vendor-file tools |

Definitions that begin with another's name and an underscore
(`Best_Last`, `InitReadCb_FallsThrough`) are mutants: a plausible bug in that
definition. Every checked property has one that breaks it.

### `Syna0082`: correspondence with the code

A step is one callback of the main loop with every synchronous call it makes.
Because driver and framework call each other inside a callback, each C function
is an **operator from a device record to a device record**, composed in the
order of the calls: `capture_read_cb` is `CaptureReadCb(s, e, image)`, which
applies `ImageCaptured` (the framework's, with `ExtractPrint`, `AppendPrint`,
`ProcessPrint` and possibly `Deactivate` in it) and then goes on as the C code
does. The action of a callback is `dev' = Callback(Reap(dev, ...))`. Function
names are the code's in CamelCase, field names are the code's.

- `dev.flight` counts transfers by kind and by *tag*: `own` belongs to the
  action in progress, `stale` to an action that has returned (nobody can cancel
  it any more), `doomed` to a cancelled one. This is what
  `fpi_device_get_cancellable` at submission amounts to.
- `Outcomes(tag)` is what the bus may answer: success, an element of `Faults`,
  or (doomed) cancellation. `CheckedOutcomes` adds the length check of the
  callbacks.
- Images are abstracted to what the framework tells apart: `features`,
  `noFeatures` (a retry) and `badGallery`.
- `credited`, `rejects`, `controls`, `exchanges`, `warnings` are history
  variables for properties; no guard of the driver reads them. `rejects` bounds
  unusable images.
- Framework warnings and criticals are recorded in `warnings` and not treated as
  the end of the program; the regression harness makes them fatal.

The finger repeats its event while it rests (the driver relies on it), so the
quiet read ends with a timeout only when no finger is there.

### `Matcher` and `Decision`

A print is its header, feature count, rows and finiteness: what
`decode_features` tells apart. A comparison is OpenCV's answer (matches, fit,
inliers, scale, coverage), taken from a set; the acceptance test and the decision
are the code's. Scale is in hundredths, coverage in thousandths. A verification
compares one entry per step. The clamp to 700 features is modelled because SIFT
may return more than it was asked for.

### `TemplateStore`

A process runs one command line: `step` says where it is, `exit` how it ended
(-1 while it runs, 1 for a traceback, 9 for a signal). One action is one system
call or one extraction or comparison; `Kill` may follow any of them. The
template's *name* leads to the *file* of some process, or to a `foreign` file
found there, or to none; that is what a rename does, and it is why a reader that
has opened the file keeps its contents whatever happens to the name
(`held`). An image is what `load_image` and `extract` look at: readable, shape,
deviation, keypoints. What OpenCV finds is an input.

### `ProbeScan`

`pc` ranges over the stages of `main` and `capture_image`; the bus ends the
transfer at any moment after its submission, and `BulkReadCallback` may run
wherever the code handles libusb's events, the synchronous write of the command
included. A refusal by the device is a two-byte status, which the code takes for
the answer exactly where the answer has two bytes.

### `ProbeQuery` and `Probes`

One step of `ProbeQuery` is a call of `main`, and one a whole `run_query`: the
write, the read and the checks of the answer. Answers are records of a length,
whether the prefix matches, and a declared partition count. `Probes` lets the two
processes interleave freely; `Exclusive` is the only thing they share, the claim
of the interface, which the kernel refuses to a second process.

### `Provision`

A file is absent, cut short or complete. The tool may stop before any write; the
driver may load between any two. The user removes outputs by hand (the tool
refuses to overwrite), all of them, and not in the instant between the two reads
of one `dev_open`.

### `Decoder`, `Commands`, `CaptureTools`, `CaptureReports`

A line of a capture is what the four readers look at: whether it is a record, its
frame number, the occurrences of the endpoint, a control request, how the bytes
are spelled, and the payload. A payload is a message of `Commands`: opcode,
length, the first bytes a tool compares, the mode byte, an image header.
`ReadLine` inserts a line where a stable sort puts it; `Command`, `Response` and
`Other` are the branches of `transactions`. An invalid line ends a reading with
an error, which drops everything read, so the model goes on reading and decides at
the end of the file. `Collect` is what the other readers make of the same line.
Writing is one file per two steps, opened and written, and may fail between
them; the tools run one after the other on one directory.

### `Catalog`, `Containers`

A file is a table of entries per address: a null pointer, one that leads nowhere,
or a descriptor with its payload (a header, blocks of 16 bytes, a tail and its
values as numbers in the two byte orders). The walk takes one entry per step. The
container map's report is printed in one step, from operators that follow the
code's definitions; the properties say the same of the payloads in another way.
`pow` is a function nothing is assumed of: `Encoded` gives number, exponent and
modulus of each interpretation of a prefix their own encoding, so that in one
report some interpretations match and others do not.

## 3. Runs

| Run | Question | States |
|---|---|---|
| `driver_cancel` | does a cancellation at any moment, or an unusable image, followed by another action, ever overlap conversations, report an error nobody had, or fail to end? | 45,485 |
| `driver_storm` | with every fault, cancellation and unusable image: one outcome per action, reached; never stranded; the retry happens once and starts over | 97,884 |
| `driver_eager` | when the next action starts with old transfers in flight: does a held finger still count once, and does enrolling take all its stages? | 50,312 |
| `matcher_gallery` | is the verdict that of all comparisons, in any order, and none for a damaged gallery? Is the Python reference never laxer? | 16,136 |
| `templates` | what may a verification find while enrollments run, fail and are killed, and does its exit status tell its decision? | 193,972 |
| `probes` | are the exit statuses true, is everything freed, once and late enough, an answer never read past its end; does no query reach the reader during an acquisition; do both end? | 326,412 |
| `provision` | what may the driver find while runs are killed and repeated? | 391 |
| `captures` | are responses paired with their commands, do the readers agree, are the reports true, what may be on the disk however runs end? | 831,419 |
| `vendor` | is the configuration taken from a vendor file the one it offers, and is the container map's report true? | 33,664 |
| `driver_final_stage_not_idle`, `driver_verify_after_enroll`, `matcher_rejected_strong` | what comments, documents and tests say and the code does not do | (violated) |

### Properties

Driver: `ConversationMatchesState` (exactly one of handshake, rearming,
interrupt read and image read, and the one the framework's state calls for),
`NeverStranded` (an active device has something that will call back),
`IdleMeansInactive`, `HeldFingerOnce`, `CountedTouchWatched`,
`DelayedFingerOff`, `EnrollNeedsAllStages`, `NoDeviceRetriedFirst`,
`ActiveAfterFullHandshake`, `FaultsExplainErrors`, `NoFrameworkWarnings`,
`EveryActionFinishes`, `CancelledActionEnds`, and `ImplementsContract`: the
driver implements `ActionContract` under the mapping `Promise`. `TypeOK` is its
type invariant.

Matchers: `OwnPrintsDecode`, `VerdictWeighsAllEntries`,
`DamagedGalleryDecidesNothing`, `PythonMatchesOnlyWithDriver`. Template file:
`ReadersSeeOneEnrollment` (what a reader holds is one whole enrollment, and no
file of these processes is refused), `OnlyTheKilledLitter`,
`LateEnrollmentFails`, `StatusTellsDecision`.

Probes: `FreedAfterCallback`, `CleanExit`, `SuccessIsTrue`,
`PartitionsInsideResponse`, `QueryExitIsTrue`, `NoQueryDuringAcquisition`,
`BothEnd`. Provisioning: `DriverLoadsOnePair`, `ManifestVouchesForRecords`.

Captures: `PairingIsTrue` (against a definition of the pairing on the file, with
no sorting and no pending command), `ToolsAgree` (`ReadersAgree`,
`GeneratedIsKnown`), `ReportsAreTrue` (`DiffIsTrue`, `ValidationIsTrue`),
`OutputsAreSound` (`OutputsAreABeginning`, `OutsideWorktrees`),
`WholeFilesStay`. Vendor files: `ProvisionedIsTrue` (`ConfigIsTheOnlyOffer`,
`ProvisionedIsIdentified`), `RunsAreMaximal` and `ReportIsTrue` (`CountsFit`,
`MatchesArePadded`).

### Where the properties hold, and where not

`ConversationMatchesState`, `NeverStranded` and `ImplementsContract` are checked
for a client that waits until the transfers of the last action have ended. For an
**eager** client they are not claimed: the release read submitted after the last
stage (`syna0082.c:199`) may end during the next action. What survives even
there, `CountedTouchWatched`, `HeldFingerOnce`, `EnrollNeedsAllStages`, is
checked by `driver_eager` and proved in general.

An **unusable image** (one in which SIFT finds too little) makes
`dev_extract_print` mistake a later stage for the last one, and what follows is a
finding. `ConversationMatchesState`, `FaultsExplainErrors`, `DelayedFingerOff`
and `NoFrameworkWarnings` therefore speak of actions without one
(`dev.rejects = 0`), while `NeverStranded`, `IdleMeansInactive`,
`NoDeviceRetriedFirst`, `ActiveAfterFullHandshake` and `ImplementsContract` hold
with as many as there may be. `ConversationMatchesState` says nothing of an
action that has been cancelled, whose transfers come back one by one.
`NoFrameworkWarnings` needs a bus without faults; the first remark under
Findings says why.

`LateEnrollmentFails` is about an enrollment that begins when there is a
template. Of two that have both seen none, both succeed, and the later rename
wins: readers still see one whole enrollment, and no property claims that the
first one survives. `ConfigIsTheOnlyOffer` allows the
uncaught error of a negative `--descriptor-index`.

### Bounds, and why they are enough

- `NrEnrollStages` is 2 or 3: one final stage and at least one earlier one; with
  3 there is a stage that is neither first nor last.
- `MaxSessions` is 2 or 3 actions: a stale transfer needs two actions, a stale
  transfer of a cancelled action and a third action need three.
- `MaxRejects` is 1: one unusable image already separates `capture_count` from
  the stage. The theorems are for any number.
- All four bus errors at every transfer in `driver_storm`; the transfers in
  flight are not bounded by the model.
- Galleries have up to three prints: two accepted and one other in each order.
  Fits lie on both sides of every threshold, counts at 7, 8, 700 and 701. In
  `templates` a rejected fit of 7 inliers ranks between accepted ones of 8 and 6.
- Two template processes: any pair of enrollment and reader, or of two
  enrollments. The theorems are for any number. Images have every defect, one at
  a time; files found there are cut short, of another version, or have more or
  fewer samples than they declare.
- `Attempts` is 2 instead of 20: the loop's body is the same every time.
- Lengths of an answer lie on both sides of the header (15), of one and two
  partitions (27, 28, 40) and of the two fixed lengths (38, 68); partition counts
  go from none to the largest a 16-bit field holds.
- Three provisioning runs: interrupted, refused or repeated, successful.
- Captures have up to four lines (`MaxLines`) out of fourteen kinds: enough for a
  command, two responses and something between them, and for the three records
  of an extraction with a fourth line that spoils or repeats one; two images
  (`MaxImages`). A line that some reader refuses is the last one explored. The
  properties are proved for any length.
- Two candidate addresses, catalogs of up to two entries for provisioning and
  four for the container map (`Maximum`), payloads of up to three blocks of two
  values. `ConfigBlocks` is 2 instead of 656, `PrefixBlocks` 1 instead of 16, and
  `MaximumKeys` 3 instead of 256: every comparison with them is met on both sides.
- Prefixes and keys are numbers up to 9 (`MCNumbers`). `MCEncoded` gives blocks
  with and without padding, by number, exponent and modulus: one catalog has both,
  also under one key and byte order, where only the exponent differs.

`CHECK_DEADLOCK FALSE` is set for the probes, the template processes, the
capture tools and the vendor-file tools, whose programs exit, and for
provisioning, whose number of runs is bounded.

### Fairness

`LoopFairness` is weak fairness of each callback: GLib dispatches a source that
stays ready, and every transfer but the finger read has a timeout. Of a read
without a timeout nothing is assumed except that it ends when it is cancelled.
`UserFairness` is the user: fingers come and go, and strongly fair finger events
and quiet periods say that they rest and stay away long enough now and then.
`EveryActionFinishes` needs both; `CancelledActionEnds` is checked under
`LoopFairness` alone. `ProbesSpec` assumes that both programs run, that
the bus ends a transfer with a timeout, and that handling events delivers the
callback. The other modules assume no fairness and claim no liveness: their
programs may be killed anywhere.

## 4. Findings

Each is a run that TLC finds violated; `PROJECT.json` quotes the text.

1. **`driver_final_stage_not_idle`**. `dev_extract_print` recognises the final
   stage by `capture_count`, which also counts images that gave no print. After
   one unusable touch the early finger-off comes one stage too soon, and the last
   stage deactivates a device that is not idle, the warning the comment promises
   to avoid. By the same cause a stage that is not the last is reported as
   finger-off while the finger rests on the sensor, where the comment says that
   earlier stages keep the delayed one (`DelayedFingerOff` and
   `ConversationMatchesState` are false without their condition on `rejects`, as
   TLC shows). The framework awaits the next touch at once, so the driver rearms, and `image_capture_read_cb` starts its
   release read beside that: two conversations share `rearm_stage` and
   `awaiting_release`. When rearming ends, the next interrupt read is a second
   release read; one of the two ends the touch, and the quiet period of the other
   can fail the enrollment with `TIMED_OUT` on a bus without faults.
   `HeldFingerOnce` holds nevertheless.
2. **`driver_verify_after_enroll`**. The read submitted after the last stage may
   outlive the enrollment and become the error of a verification started at
   once, which is what the regression test does.
3. **`matcher_rejected_strong`**. The strong fit may be a rejected one: one
   moderate accepted fit and one rejected fit of eight inliers match.

Noticed beside them, without a run:

- A `NO_DEVICE` answer to that same read (`syna0082.c:199`, `:270`) is reported as
  a session error of an inactive device, which `patches/README.md:22` says patch
  0007 stopped.
- Rearming writes the enroll mode into `scan_02` (`syna0082.c:590`), and the next
  activation sends it in its handshake, where `docs/protocol.md:168` gives the
  initial mode.
- The Python reference requires its *best* fit to be accepted, so two accepted
  fits beside a larger rejected one match in the driver and not in the reference,
  although the comment above its decision says that two moderate fits accept.
- `docs/matcher.md:24` says the writer refuses to replace an existing template;
  of two concurrent enrollments the later one replaces the earlier one's.
- `evaluate` promises to "always return success" (`syna0082_matcher.py:331`) and
  does so whatever it decides, but not when an image or the template is unusable.
- `tools/prepare-libfprint-source` expects four patches where `patches/` holds
  nine.

## 5. Proofs

`tlapm` checks `Syna0082Proofs`, `ConversationProofs`, `MatcherProofs`,
`ProvisionProofs`, `CaptureProofs`, `ProbesProofs`, `TemplateProofs` and
`VendorProofs`, from the assumptions on the constants alone
(`ConstantsAssumption`, `MatcherAssumption`, `ProvisionAssumption`,
`DecoderAssumption`, `CaptureToolsAssumption`, `AttemptsAssumption`,
`QueryAssumption`, `TemplateStoreAssumption`, `CatalogAssumption`,
`ContainersAssumption`) and, for `ConversationProofs`, `~EagerClient`. The
assumptions say what kinds of things the inputs are: lines carry messages of
`MessageType`, fits are of `FitType`, a payload's blocks and a key table are
sequences, the numbers of prefixes and keys are in `Numbers`, and exponentiation
gives each number, exponent and modulus a sequence of numbers. Every safety invariant and
every action property of the runs is a theorem.

### The driver, for every client

`Syna0082Proofs!Invariance` proves `Spec => []IInv` for every set of actions,
every number of stages and sessions, all faults, eager or patient clients.
`TypeOK`, `CountedTouchWatched` and `SettledBetweenCallbacks` (no callback leaves
a deactivation half done; no run checks it) are invariants that follow;
`HeldFingerOnce` and `EnrollNeedsAllStages` are action properties from the same
invariant.

The difficulty is the nesting: a callback is a composition of a dozen operators.
The proof therefore states once what **every** synchronous call does to a device
record:

- `Carries(s, t)`: the record keeps its type, the action, the touch's credit,
  `awaiting_release` and the stage; no call enters `CAPTURE`; an enrollment does
  not complete with `ok` short of its stages. It is reflexive and transitive, and
  one lemma per operator shows it, bottom up.
- `Keeps(s, t)`: the same, and the action is not completed.

The few operators that count a stage or enter `CAPTURE` (`ProcessPrint`,
`ImageCaptured`, the finger's event) have lemmas of their own. `IInv` adds what
`TypeOK` and the safety properties lack to be inductive: that an action which
could complete now is *excused* (cancelled, failed, or has its stages), and that
a counted touch under a resting finger keeps `awaiting_release`. Then each
callback takes one short step.

### The driver's conversation, for a patient client

`ConversationProofs` assumes `~EagerClient`: the client starts an action when the
transfers of the last one have ended, as one does that waits for more than the
idle source. It is what the properties need and what
`driver_verify_after_enroll` shows them to need; nothing else is assumed of
faults, cancellations, unusable images or the number of actions.

`CInv` adds to `IInv` which of four **phases** the device is in, and what each
leaves in flight:

- `Resting`: no action, or one that has returned; only old transfers, none of
  which can disturb anything (`Clean`, `Tagged`);
- `Shaking(s, 1)`: exactly one step of the handshake, with the stage, the
  retry's flag and the count of exchanges that go with it;
- `Serving`: a touch is awaited, read, or watched until it ends; `Agrees` says
  which stage, flags and error go with the framework's state, `Idles` which
  transfers that state rules out, `Attended` which one will call back unless the
  action is cancelled;
- `Detecting`: a capture action whose image is being examined after the device
  has been deactivated.

`ConversationMatchesState` alone is not inductive: what a callback does depends
on `rearm_stage`, `init_stage` and `awaiting_release`, on the tags of the transfers
and on what a cancelled action has left, all of which the phases carry.
After an unusable image a weaker form of `Attended` remains (`Listening1`: the
read that waits for the finger to leave may still be out while the driver
rearms), from which `NeverStranded` follows all the same. The proof has one lemma per C function about the
record it returns, one per callback and phase about the phase it leads to
(`Lawful` says what the step may do with the action meanwhile), and one per
action of `Next`. Trying it with unusable images is what brought up the
second half of the first finding: two properties were false of them, for which no
run had looked.

The refinement, `DriverKeepsContract`, is the last theorem: `Promise` maps a
device record to the variables of `ActionContract`, initial states to initial
states, and each step to a step of the contract (`Start`, `Refuse`, `Ask`,
`Touch`, `Step`, `Finish`, `Return`) or a stutter. What the contract asks is
`Lawful`, which the lemmas carry beside the phase: a callback advances a running
action by one fresh touch or its one result (`Advances`), finishes it with an
outcome that is justified, `cancelled` only when the client asked and `ok` only
with its progress made (`Outcome`), and no longer touches a finished one.

### The matcher

The invariant says that `accepted` and `best_inliers` summarize the scores seen
so far, that there is one score per entry passed and that each of those decoded,
and that the driver's own prints decode. From it: `OwnPrintsDecode` (the clamp
and the refusal of the extraction match the decoder's checks for *every* number of
keypoints), `VerdictWeighsAllEntries` for galleries of any size,
`DamagedGalleryDecidesNothing`, `PythonMatchesOnlyWithDriver`.

### The template file

The invariant has three parts. `Own` says what a process has made so far: as many
samples as images passed, each of its image, and from the rename on a file that
holds them all. `template \in Processes => Published(template)`: only a process
that has ended with success can own the template's name, so the file behind the
name is never written again. `Holding` follows a reader: its file is that of a
published process, and what it has loaded is that process's samples; this needs
`PublishedIsRead`, that such a file passes every check of `load_template` and
that its declared count cuts nothing off. `LateEnrollmentFails` needs one more
predicate, `Late(p)` (there is a template, and `p` is not yet saving), which no
step of any process ends: a rename never takes the name away, and `p` can begin
to save only when there is none. `StatusTellsDecision` says what the scores are under either decision: at status 0
a highest one is accepted, and has eight inliers or a second accepted one beside
it; at status 3 that is not so, or a rejected score is ranked below *none* of the
accepted ones. It needs a highest score to exist in every sequence of scores,
which the least-number principle gives once scores are ranked by a number. All of it holds for any number of processes, every
command line and every foreign file.

### The probes

`ScanInv` says what the acquisition probe holds at each stage (`HeldByStage`),
when its transfer is allocated, in flight or may be freed (`TransferByStage`),
and what the reader has been sent by then (`ProgressByStage`); `QueryInv` does
the same for the query probe, and `OneClaim` is the exclusive claim. A step of one
program leaves the variables of the other alone, so each action is taken once.
`FreedAfterCallback`, `CleanExit`, `SuccessIsTrue`, `PartitionsInsideResponse`,
`QueryExitIsTrue` and the action property `NoQueryDuringAcquisition` follow, for
every number of attempts, every length of an answer and every declared count.

### Provisioning

The tool starts in an empty directory and writes in one order; so the files before
the one it writes hold its records and those after it are absent (`Progress`), and
whatever complete records an interrupted run leaves are of one selection
(`Leftovers`). With what the driver remembers between its two reads (`DriverOK`)
this gives the two checked properties and `DriverLoadsWholeRecords`, for any
captures and any number of runs.

### The decoder

`Read` says that the records are the payload lines of the file in the order
`Before`; `Progress`, that the transactions finished and pending are those the
*definition* of the pairing gives for the records seen so far. The definition
(`Owner`: the last command before a line) knows no order of processing, so the
proof shows that the next record lies behind all seen, that its owner is the last
command among them (`NextRecord`), and that what was seen before keeps its owner.
That a stable insertion keeps an ordered sequence ordered is `Insertion` and
`SortedInsertion`.

### The capture tools

`DecodersSteps` shows that the tools read a file as the decoder does, so its
invariant is theirs. `ToolInv` adds what each reader has selected of the lines
read (`ReadersOk`) and how far each writer has come with its files
(`WritersOk`): what lies before the file being written is whole, that file is cut
short, and what lies behind is as it was found. `OutputsAreSound`,
`WholeFilesStay` and `ToolsAgree` follow, for captures of any length and every
write that may fail.

`ReportsAreTrue` compares `Chosen`, which goes through a sequence and is
recursive, with a definition on the set of lines. The library's induction cannot
be instantiated here, so what `Chosen` returns is shown by the **least-number
principle** (`Least`, from the well-foundedness of `<`): were it wrong anywhere,
there would be a first place where it is. That a group's first command differs
from some command wherever any two differ, and that the lengths in frame order
are those listed, then follow from `Ranks`.

### The configuration from a vendor file

`Walk` says that the descriptors parsed are the entries passed over, each well
formed; so where the walk ends at a null pointer they are the whole catalog
(`ThisCatalog`), and where it breaks off there is none (`NoCatalog`), because a
table has one first null pointer (`OneEnd`). `Found` says that the successes are
what the candidates seen offer and that the first success is of the first that
offers anything. From both, `ProvisionedIsTrue`: for every file, every list of
candidate addresses and every index, one configuration offered, however often, is
taken, and none or several are refused.

### The report of the container map

`ReportInv` says that payloads and key table keep their shape, that the keys read
are exactly the opaque records of the table passed over, and that a printed report
is right. The step that reads a key extends the second (`KeysAreOpaqueRecords`), the
step that prints has to show the third.

- *Runs*: `Extent` is a `CHOOSE`, so `ExtentIs` shows that there is exactly one
  such number: the least extension at which the payloads differ. `RunsAreThose`
  is the equality of the two sets of runs.
- *Counts*: the places of blocks are finitely many (`PlacesAreFinite`); those
  whose value occurs once correspond one to one to the values that occur once
  (`Counting`). With whole prefixes nothing counts negatively, and a run gives
  one value two places (`Counts`).
- *Signatures*: the code looks for the first zero, the definition says what the
  encoding is; the place of the separator gives the number of 255s
  (`PaddingIsFound`). `MatchesAre` shows for each interpretation on its own that it
  is reported exactly if its own encoding is padded; of exponentiation nothing is
  used but that it gives a sequence of numbers.

### Only model-checked

Liveness (`EveryActionFinishes`, `CancelledActionEnds`, `BothEnd`), which the
prover cannot do. The runs also check what the theorems leave to their
hypothesis: `driver_eager` the properties of an eager client.

## 6. What the models leave out

- Contents of messages and images, image processing, the geometry of a fit.
- Destruction of the device while the retry's timer is pending: the client holds
  the device as long as its action lasts.
- The lifetime of a buffer handed to libusb after a cancellation in the driver
  (`dev_close`); the probe's is modelled.
- Identification over several templates: its loop is the framework's, of which
  the repository has a few changed lines only.
- Status bytes of responses in the driver, which it does not look at either. What
  the reader does after it has refused a message of the handshake is not known, so
  no property covers that hazard.
- Digests, selectors, several key tables in one call and the PE format in the
  vendor-file tools. A file that is not in that format ends the provisioning with
  an uncaught `PEFormatError`; `ConfigIsTheOnlyOffer` is about files that are.
- Decoded texts in the capture tools, and other spellings of an endpoint: the
  decoder reads it as an integer, the other readers compare the text `0x01` or
  `0x81`. The model has the number, so `ToolsAgree` holds of captures as TShark
  spells them.
- Two provisioning runs at once: `StartTool` begins only when no run is under way,
  as the tool is used. The two provisioning properties are about runs that follow one
  another, each of which may be killed.
- Power failures: a file that was written stays written.

## 7. Plan

Done, in this order: `Syna0082` with `ActionContract` and its proofs; `Matcher`,
`ProbeScan`, `Provision`, `ProbeQuery`, `Probes`, with proofs; `Decoder` with its
proof, `CaptureTools` and its reports; `Catalog` and `Containers`;
`TemplateStore` with its proofs; the proof about `Catalog`; the conversation of a
patient client and the refinement, the capture tools and their reports, the
decision of the reference matcher, the container map's report, all proved.

What would come next: a theorem about the second conversation after an unusable
image (how many transfers it can leave, and for how long), and the refinement of
`ActionContract` for an eager client, whose actions can fail with an error of the
one before. The parts listed as not modelled keep no state a model could say more
of than their code does.
