# Formal model of structure_core (ROS 2 driver for the Occipital Structure Core)

This directory holds TLA+ specifications of the driver and its scan tool, TLC
configurations that check them on small instances, and TLAPS proofs of their
safety properties for every value of the constants. Source paths below are
relative to the package directory (`src/structure_driver.cpp`,
`src/vendor_protocol_libusb.cpp`, ...).

Run a model check with `tlc -config <X>.cfg <Module>.tla`, a proof with
`tlapm <Module>.tla`. Runs, mutants, the map from definitions to source lines,
hazards, findings and theorems are listed in `PROJECT.json`.

## 1. Inventory: the system and its parts

| part | source | state it keeps | operations |
|---|---|---|---|
| driver controller | `structure_driver.cpp` (node class) | `hardware_mode_active_`, `vendor_protocol_active_`, profile index, three timestamps, two captures, the protocol object | constructor (`configureIoMode`), `onTimer` with `tryRecoverVendorProtocol`, `publishVendorProtocol`, `publishHardware`, `publishSynthetic`; `reconnectVendorProtocol`, `sendVendorStartCommand`, `sendVendorStartRetryBurst` |
| start profiles and sequences | `structure_driver.cpp` 212-530 | the list built by the constructor | build the list, build the transfers of a profile, send them, advance the index |
| image pipeline | `structure_driver.cpp` 741-1110, 1180-1500 | buffers of one callback | bytes to image, split stereo, resize, pseudo-depth, colour and grey, publish six images and their camera infos |
| libusb protocol | `vendor_protocol_libusb.cpp` | context, handle, claimed interfaces, `open`, last read and write error | `open`, `close`, `isOpen`, `poll`, `sendRawTransfer`, `sendCommandFrame`, destructor |
| UVC capture | `uvc_capture_apple.mm` | session, output, delegate, `is_open`, latest frame under a mutex | `open` (choice of camera and format), `close`, `getLatestFrame`, delegate callback, destructor |
| burst scan tool | `tools/vendor_burst_scan.cpp` | its own libusb session, candidate list, top results, counters | scan candidates, reopen, rank |
| backend stubs | `*_stub.cpp` | none | `open()` returns false |
| build, environment | `CMakeLists.txt`, `local_setup.*` | none | none |

How they interact: the node is one thread (`rclcpp::spin`). Its timer callback
calls `VendorProtocol` and two `UvcCapture` objects synchronously; on macOS
AVFoundation calls the delegate of a capture on a dispatch queue, and the mutex
`UvcCaptureImpl::lock` is the only synchronisation in the repository. The node
duplicates the state of its protocol object in `vendor_protocol_active_`. The
scan tool is a separate program with its own session class; what links it to the
node is that its result, a candidate, is meant to be repeated by the node as a
start profile.

What is hard:

* the device leaves and returns between any two libusb calls, and every libusb
  call can fail after others succeeded (partial acquisition, order of release, resets
  whose failure is ignored), in the node and in the tool;
* five places open or close the node's session, and several move the timestamps
  that decide on resending, reopening and retrying, which are times of a clock
  that can be set back;
* the profile index is advanced on two paths that can meet, in a list that is
  built from overlapping sweeps;
* the hardware mode is only ever turned on, so silence or synthetic frames can
  become permanent unless a source can come back;
* frames are stored and copied on two threads, and neither `close()` nor the
  destructor waits for a delegate call that is running;
* an image goes through up to four sizes, payloads of any length, odd widths and
  stand-ins for missing frames, all by index arithmetic;
* the tool learns of the loss of its device in one function and acts on it in
  another, after bookkeeping and possibly a second run.

What makes each part correct:

* protocol: nothing leaks whatever fails, a setting is only left behind where the device
  refused to take it back, a poll's verdict is about the error it reports, every call returns;
* controller: its flag agrees with the session, sources are chosen as the
  parameters allow, a device that returns is used again, limits measure what
  they say, every profile gets its turn (within the limits of finding 3);
* start sequences: no profile twice and no combination lost, every target gets
  every payload, the verdict is true, a scan result can be repeated;
* pipeline: no index leaves its buffer, headers are not shown, images show their own
  camera, depth stays where its infrared pixel was, no topic is silent without need;
* capture: the camera and format asked for are taken, frames are handed out whole,
  no frame crosses a `close()` and no call outlives the destructor except by the one
  race the code leaves open, no call blocks;
* scan tool: the same all-or-nothing session, no test on a lost device, a true
  summary, a ranking that keeps the best, an end.

## 2. Modules and how they correspond to the code

```
VendorSession            abstract: a session is acquired all or nothing
   ^ implemented by             ^ implemented by
VendorProtocol               BurstScan  -----------+   <- VendorProtocolProofs,
   : its open() is one step of                     |      BurstScanProofs
StructureDriver              the controller        |   <- StructureDriverProofs
   ^ extended by                                   | extends
StructureDriverHistory   + history variables       |
StructureDriverClock     + a clock set back        v
StartProfiles, StartCommand  -- extend -->  StartSequences  <- StartProfilesProofs,
                                                      StartCommandProofs
FramePipeline            one callback's images             <- FramePipelineProofs
PixelValues              the values of pixels              <- FramePipelineProofs
UvcSelect                camera and format                 <- UvcSelectProofs
FrameSlot                abstract: a capture holds one frame, whole
   ^ implemented by
UvcCapture               capture object and delegate queues <- UvcCaptureProofs
```

**VendorSession** is what the node may assume of the class: `open()` returns with
everything or with nothing, `close()` with nothing, and a poll, which only runs
on an open session, changes nothing.

**VendorProtocol** translates the class. `pc` names the next libusb call of the
running method and `cont` who called `close()` (a direct call, `open()` at its
beginning, a failing `open()`, the destructor). A failing step of `open()` goes
through the whole of `close()`, as in the code. The loops over interfaces and
endpoints take one step per iteration, so the device can leave inside them
(`Unplug`, `Plug`). The object's fields (`ctx`, `handle`, `claimed`, `open`, the
error fields) are separate from what exists outside (`ctxCount`, `handleCount`,
`osClaims`, `alt`): the properties relate the two. A handle on a device that left
is `"stale"`: not null, and every transfer on it fails. `sendCommandFrame` is
`sendRawTransfer` with a frame built from its arguments, and the bytes of
payloads are left out. The interface counts are the constants `LastIf` and
`LastEp` (both 4 in the code: interfaces 0 to 4 and the five endpoints 0x81 to 0x85).

libusb itself is external: contexts and handles are counted, a claim lasts until
it is released or the device leaves, and a call on a device that left fails. A device that
is there can refuse any call, the reset of a setting in `close()` too, whose result the code
ignores; `refused` (history) remembers which settings were left at 1 for this reason.

**StructureDriver** is the controller, with one action per stretch of code between
two calls that take time. The validated parameters are the variable `cfg`, chosen
in `Init` from the constant `Configs`. Timestamps are represented by their ages,
which stop at `Cap`: the code only compares ages with thresholds, and `Cap` is
above all of them (`CapAssumption`), so nothing is lost. Time passes
(`Elapse`) between any two steps, since a poll, a sequence and a reopen take
from milliseconds to seconds. A call of `VendorProtocol` is one step;
`VendorProtocol` refining `VendorSession` is the reason that this is a fair
view of it. The device is absent, refusing (present, and answering with `ACCESS`
or `BUSY`), quiet, sending status bytes only, or streaming, and changes at any time. A session on
a device that left is `"dead"`: its polls fail, or come back empty when the
errors are not among the fatal ones. `noDataDue` keeps a comparison the code
makes with a clock value read before the burst.

**StructureDriverHistory** adds what the code does not record (the age of the
session, of the last start command, of the last reopen attempt made anywhere, whether
the session was started, the profile sent last). It only observes, so properties can
speak of what happened and not of what the code's own timestamps say.

**StructureDriverClock** adds a clock that is set back: all timestamps move into the future
at once, by the same amount, and ages become negative. The timer is a wall timer
and goes on.

**StartSequences** holds the transfers as data: `buildVendorStartSequence` of the node,
`buildSteps` and the 240 candidates of the tool. A payload is known by its kind.
**StartProfiles** is `buildVendorStartProfiles`: the code's nested loops propose
profiles one by one, and the action `Propose` is `addVendorStartProfileIfMissing`.
**StartCommand** is `sendVendorStartCommand`: one action per transfer, which may
fail, and per pause.

**BurstScan** is the tool: `DeviceSession` with one action per libusb call,
`runCandidate` with one per transfer, and `main`'s loop with the reopen that skips a
candidate, the second run whose result is dropped, `keepTopResults` and all exits.
A result is its score, what it received and whether a fatal error ended it. Its
session implements `VendorSession` too.

**FramePipeline** follows where each pixel comes from: an image is a function from
places to (endpoint, byte) or (frame, pixel), so that splitting, header skipping,
repetition and both resizes can be compared with what they should be. Topics are
published in the order of `onTimer`, each only if somebody subscribes, and
subscribers come and go between two topics. A read outside a buffer gives `Garbage`.
**PixelValues** holds what happens to the value, as operators: grey, pseudo-depth and the
unsigned arithmetic of the synthetic depth.

**UvcSelect** is the choice `open()` makes before it builds a session: the loops of
`selectDevice` and `tryConfigureFormat`, over any list of cameras and formats.
**UvcCapture** begins where a camera was found or not, and interleaves the node's calls, the
destructor among them, with one delegate queue per session. Geometry and data of the latest frame
are written and copied in separate steps, so that the mutex matters. A delegate call
that is running is not stopped by `close()`: nothing in the class waits for it.
**FrameSlot** is what the node relies on: a slot for one frame, into which a frame goes whole and
the frames of a session in order, which `open()` and `close()` empty before `isOpen()` changes,
and which `getLatestFrame()` reads in one step. Its fields are read off `UvcCapture` (`settlingBar`,
`capturedBar`, `answerBar`); the two steps that store a frame and the two that copy it each become one.

MC modules hold parameter sets only. Definitions commented `Mutant` are plausible
bugs used to show that a property can fail; no specification uses them.

## 3. What is checked

| run | distinct states | what it shows |
|---|---|---|
| `vendor_protocol` | 610 000 | no leak, no setting left behind but by a refused reset, order of release, poll verdict, refinement of `VendorSession`, every call returns |
| `driver_safety` | 531 000 | `SessionAgreement`, `SyntheticOnlyWhenAllowed`, `HardwareModeHasSource` for every mode, backend, fallback and camera setting |
| `driver_liveness` | 263 000 | `Recovery`, `StreamPriority`, also after the clock was set back |
| `driver_history` | 555 000 | `FullNoDataWindow`, `StartedBeforePolled`, `ResendSpacing`, `CycleCoverage` |
| `driver_retry_period` | violated | finding 1 below |
| `driver_rotation` | violated | finding 2 below |
| `driver_starvation` | violated | finding 3 below |
| `start_commands` | 39 000 | `NoProfileTwice`, `SweepsComplete` on the whole lists; `VerdictTrue`, `WholeSequence`, and `ScanRepeatable` for all 240 candidates |
| `burst_scan` | 2 670 000 | `TopIsBest`, `NoTestOnLostSession`, `SummaryTrue`, `SettingsMatchSession`, `EveryStepAdvances`, refinement of `VendorSession` |
| `burst_scan_reopen` | 974 000 | `GivesUpInTime`, `ScanEnds` |
| `frame_pipeline` | 274 000 | whole images, `NothingOutOfBounds`, `HeaderHidden`, `OwnStreamShown`, `StereoApart`, `AlignedWithIr`, `AllTopicsServed` |
| `uvc_capture` | 19 000 | refinement of `FrameSlot`, `StaleFrameOnlyByRace`, `FreedOnlyByRace`, `CallsReturn` |

Bounds and why they are enough:

* `VendorProtocol`: `LastIf = 3` (4 in the code), which gives three settings, so that a
  refused reset can come before, between and after others, and `LastEp = 3`, which has both
  control endpoints and two streams. The state space is otherwise finite; the proofs
  of the safety properties cover every other value, the code's included.
* `StructureDriver`: thresholds of 0, 1 and 2 units and `Cap = 3`, so that every order
  of two ages and a threshold occurs, including "limit disabled"; three profiles in
  the list, so that bursts of 1, 2 and 4 are shorter and longer than it. With auto-cycle the
  resend interval is below, equal to and above the no-data limit; `CycleCoverage` has
  "not above" as a premise, and finding 3 is the rest. `ModeConfigs`
  has all 64 combinations of mode, backend, fallback and camera, with the values the
  constructor rejects.
* `StructureDriverClock`: the clock is set back once, by one unit, less and more than
  the age of a timestamp; the properties are about what holds from some time on, so
  setting it back again restarts the same argument.
* `StartProfiles`: the full lists of the code, from configured profiles that coincide with a
  priority profile, with a sweep or with nothing. `StartCommand`: all modes, primary
  endpoints inside and outside the broadcast range, one and three repetitions. `MCStart` runs
  one after the other, as constructor and callback do; what is sent depends on its profile
  alone, so every list goes with one command and every command with one list.
* `BurstScan`: three candidates with `TopN = 2`, so that results are cut and ties
  occur, two interfaces with settings; in the second run five candidates with
  `MaxOpenFails = 2`, so that a row of misses can be broken and begun anew. One pass of reads
  in a time window (`MaxPasses`), since a further pass only adds to the score.
* `FramePipeline`: five triples of sizes that are equal, divide each other or do not, and
  camera frames of odd and even widths up to 5 x 2; payloads shorter than an image, of exactly
  a header, and longer than two bytes per pixel. The proofs cover all sizes.
* `UvcCapture`: two sessions, which is one crossing of a `close()`, of two frames
  each, so that a frame can overwrite another of its session.

Fairness:

* `VendorProtocol`: weak fairness of each method's own steps (`CloseStep`,
  `OpenStep`, `PollStep`). Transfers have timeouts and libusb calls return. Nothing makes the
  caller call or the device move.
* `BurstScan`: weak fairness of the program as one thread, for the same reason.
* `StructureDriver` and `StructureDriverClock`: weak fairness of the constructor and the
  callback as one thread, and of time, which passes again after the clock was set back.
  The timer fires again after a callback, and every call in it
  returns. None of the device, of a camera or of the end of the process. `Recovery`, `StreamPriority`
  and `CycleCoverage` have the stability of the device as their premise and the
  end of the process as a way out; the first two need `noData > 0`,
  since with the limit disabled a dead handle whose polls
  return nothing is never given up, as the parameter's documentation says;
  `CycleCoverage` needs a resend interval no longer than the limit, if there is one.
* `UvcCapture`: weak fairness of a method that was entered and of a delegate call
  that was entered. The node thread and each queue run on; AVFoundation need not
  deliver anything. Weak fairness is enough for the mutex because
  queues deliver finitely many frames here; with endless contention it would take
  the mutex's own progress guarantee.

Deadlock is checked except where the program ends by itself: `start_commands` (the list is
built and the call returned) and `uvc_capture` (the object is destroyed).

### Findings

1. **Retry period** (`driver_retry_period`). `README.md:49` documents
   `vendor_reconnect_retry_sec` as the "retry period after backend reopen failure".
   The time of an attempt is recorded only in `tryRecoverVendorProtocol` (line 699).
   When the reopen in `publishVendorProtocol` fails (after a failed poll, 1116, or for
   want of data, 1153), the next callback sees no session and an old attempt time
   and reopens again at once. Only from then on is the period kept.
2. **Rotation** (`driver_rotation`). `README.md:54` says that auto-cycle "rotates
   through known start profiles on no-data". A burst leaves the index on the
   profile after the last one sent. A poll failure advances it again (1114), and
   the reopened session sends from there: one profile is passed over. `CycleCoverage`
   shows that this costs nothing on a device that stays and is silent.
3. **Starvation** (`driver_starvation`). The same line of `README.md` is also not kept on a device
   that stays and is silent when `vendor_start_retry_sec` is longer than
   `vendor_no_data_reconnect_sec`. The no-data limit (1144) is then exceeded before a resend is due
   (1132); the reopen sends the current profile without advancing the index
   (664-667) and starts both times anew (667, 675). No burst is ever sent, and one
   profile of the list is sent for ever. The counterexample is fair: time passes, callbacks run,
   and each sees the limit exceeded before the resend is due. With the defaults (1.5 s and 6 s) `CycleCoverage`
   holds.

Observations that are no contradiction of a document a property can quote: the comment
at `structure_driver.cpp:260` calls the first priority profiles those with the strongest responses in
standalone scans, but the tool has no template for two of the shapes in that
list (preface with a broadcast, and the broadcast of frame and payload);
`ScanRepeatable` holds in the direction that matters, from tool to node. The rate of a
camera is tested before it is rounded (`RateChosen` below needs whole numbers).

## 4. What is proved

All theorems hold for every value of the constants under the named `ASSUME`s of the
modules, which TLC evaluates in every run. In each module the properties alone are
not inductive; the invariant says what the running code has established so far.

* **VendorProtocolProofs** (every `LastIf >= 1`, `LastEp >= 2`). That an idle, closed object holds
  nothing depends on what every step of `close()` had to do before. `IInv` therefore
  says, for each libusb call, what the
  method knows when it makes it (`AtAlt0`: settings below `i` are 0 or their reset was refused;
  `AtRelease`: so are all, and interfaces below `i` are released; `AtSetAlt`: everything is claimed
  and settings below `i` are 1; ...), and that the object's fields agree with
  the counts outside (`Bookkeeping`). `TypeCorrect`, `SessionAllOrNothing`,
  `SettingsRestored`, `HandleInsideContext` and `PollReportsItsError` follow, and
  `ImplementsSession`: every step is a step of `VendorSession`
  or a stutter under the mapping `callBar`, `sessionBar`, `heldBar`.
* **BurstScanProofs** (every number of candidates, interfaces, endpoints and retries). The invariant
  has five parts, each proved with the ones before: `SessionInv` as above;
  `LossIsNoted`, a fatal error of a test stays on its way from `runCandidate` to the
  close in `main`; `MissesCounted`, the counter of failed opens in a row is the number of skipped
  candidates at the end of the scan so far; `TallyInv`, the counters count what was recorded
  and a candidate about to be tested is later than every result; `RankInv`, the list is the best of the
  results and holds all of them while there is room. `TestsNeedADevice`,
  `GivesUpByTheRule`, `SettingsRestored`, `SummaryIsTrue`, `ListIsBest` and `ImplementsSession`
  follow. `SummaryTrue` is not inductive because it is silent inside a pass of the loop, where
  `tested` and the results are updated; `TopIsBest` is not because an entry can only be cut
  from a list that was full. That the scan ends is a matter of fairness and stays with TLC, but what it
  rests on is proved: by `ScanIsFinite` the candidate, the attempts, the rounds and the indices
  stay within limits (`WithinLimits`), and by `ScanAdvances` every step of the tool
  is ahead of the one before in the order of candidate, stage, round and index (`Placed` says which stage is
  where). In particular no candidate is tried twice, whatever the device does.
* **StructureDriverProofs** (every set of parameters, list length and thresholds below
  `Cap`). `DriverInv` adds to the properties where the session and the mode must
  be on (`ControlInv`), that a session exists only where the parameters allow
  libusb (`ModeInv`), and that an unfinished callback has published nothing
  (`OutputInv`). For the history, no-data time is never older than the session
  (`DataYoungerThanSession`), a decision to reopen was taken in the session it ends
  (`DueInSession`), and the recorded time of a start command is never
  before the time it was begun (`CommandAfterStart`), which gives `NoEarlyReopen`, `StartPrecedesPoll` and `ResendsSpaced`.
  The invariant falls into a part about ages (`Aged`) and the rest (`FlowInv`), and the rest is kept whatever the
  ages are: `SafeUnderAnyClock` concludes that the three safety properties also hold when
  the clock is set back, any number of times and any distance.
* **StartProfilesProofs** (every configured profile). The list so far holds exactly the
  profiles proposed so far, each once. `NeverTwice` and `NoneLost` (nothing proposed is missing in the
  end) follow. `RotationCovers` adds that the proposals span the three sweeps: each nested loop,
  read off the number of the pass, reaches every combination of its ranges, and the priority
  profiles add the ones the result names.
* **StartCommandProofs** (every mode, primary endpoint, repeat count and interval, and the 240 candidates
  of the tool). The place of a transfer in the sequence is written as whole rounds: so many
  repetitions of so many steps, so many payloads of so many targets. `IInv` says that what was
  sent is the plan up to there (`Progress`, `AsPlanned`), how many pauses that took
  (`SetApart`) and what the verdict is so far (`Judged`). `VerdictIsTrue` follows. `AllIsSent` counts the transfers
  of one payload to one target: they are the images of `1..repeat` under a bijection,
  as no target occurs twice in a broadcast. `ScanIsRepeated` shows that with one repetition the
  plan of a candidate is the list `buildSteps` makes of it.
* **FramePipelineProofs** (all image sizes, frame sizes and payload lengths). After lemmas on products and
  remainders (a place is its row and its column; `resizeNearest` stays inside the source;
  a half of a stereo frame stays in its row) the invariant says of every buffer
  that it is whole and what its pixels may come from (`Allowed`), and of every image
  shown that it is the buffer of its topic (`Linked`, `ShownInv`). `ReadsInside`, `HeadersStripped`,
  `OwnStreams` follow; `DepthStaysAligned` adds that resizing
  there and back moves a pixel by less than the rounded ratio of the sizes.
  A second invariant looks back (`BackInv`): the buffers are the conversions of
  what was received (`Filled`), and a topic that was passed shows its image if it had one
  (`Served`). `EveryTopicServed` is its last case. `HalvesPublishedApart` needs in addition that the two infrared
  images go out together (`InfraredPaired`), and that two halves of a row cover it without
  overlap. Of the operators of `PixelValues` it is shown that grey levels and depths stay in their ranges for every
  input (`GreyFits`, `PseudoDepthFits`), that pseudo-depth keeps the order, and that the infrared picture made of a
  synthetic depth grows with it and never wraps below zero (`SyntheticGreyFollowsDepth`).
* **UvcCaptureProofs** (any number of sessions and frames). The invariant says who holds the mutex, that
  both halves of the latest frame agree whenever nobody does, how far `open()` and
  `close()` have got, and which delegate calls a `close()` has overtaken. `FramesWhole`,
  `OpenIsWired`, `StaleOnlyByRace` and `UseAfterFreeOnlyByRace` follow. With `AnswerInv` (the flag
  says whether there is a frame; a copy is only made of an open capture with a frame; outside a
  copy the last answer is whole) every step is a
  step of `FrameSlot` or a stutter (`ImplementsSlot`), and from the steps of the slot alone
  follows `AnswersForward`: of one session no older frame is handed out after a newer one.
* **UvcSelectProofs** (every list of cameras and formats, every request). Each loop knows what the part of
  the list it has passed holds: the number of matches, the least score. `CameraChosen`: the
  camera opened is the `match_index`-th that matches. `FormatChosen`: a score with a
  penalty of a million prefers the rate to any size less than a million pixels away, and then takes
  the closest. `RateChosen`: the rounded rate is supported when the request or the
  limits are whole numbers of frames per second; without this premise it need not be.

Every invariant of every passing run is stated by a theorem, and so are the three refinements. Model-checked only are the
liveness properties (`CallsReturn` twice, `Recovery`, `StreamPriority`, `CycleCoverage`,
`ScanEnds`), as fairness is beyond the prover, and the three runs that end in a
counterexample. `PixelValues` and `UvcSelect` have no run: their inputs are all integers and all
lists, which the theorems cover. `NoTornFrame`, which `SlotSpec` implies, and `OpenCanDeliver` are proved
and in no run.

## 5. What is not modelled

* The stubs: `open()` returns false. `StructureDriver` covers them as a device that is always absent
  and captures that never open.
* Build files and environment scripts: no behaviour.
* The bytes of command frames and payloads (`buildCommandFrame`), which only the device reads;
  arguments and printing of the tool; log messages; the intrinsics in camera infos and the colours
  of synthetic frames.
* The conversion of a pixel buffer to RGB in the delegate, and AVFoundation's lists of cameras and formats, which
  are inputs of `UvcSelect`.
* Two `UvcCapture` objects: the node never uses one to decide about the other, so
  `uvc` in `StructureDriver` says whether any is open and has a frame. Once a
  session has stored a frame there always is one; how old it is, nothing in the
  repository limits.
* Int overflow of the tool's score (about 21 MB of stream data in one time window); it is a hazard
  without a property. The index products of the pipeline are unbounded integers too: in the
  code they would overflow an `int` only for sides of tens of thousands of pixels.
* The controller composed with the steps of `VendorSession`: while a call of the node's protocol object runs,
  the callback waits for it and reads none of its state, so the call is one step of
  `StructureDriver`, and a device that leaves in the middle is a call that returns either way.

## 6. Plan

Done: every module of section 2 and its proofs. What could come next:

1. A composition of `StructureDriver` with `VendorSession`, which would replace the argument at
   the end of section 5 by a refinement.
2. Properties for the remaining hazards: the age of the latest frame, status bytes that count as
   data, a burst and a reopen in one callback, the dropped result of the second run.
