# FDCxCapSense in TLA+

A verification development for the Arduino library FDCxCapSense: TLA+ modules of
its drivers, of the algorithms that work on top of them, of the way from a reading to
a sensing profile's answer, and of its stored calibration, model-checked with TLC,
with theorems checked by TLAPS.

The library reads TI capacitance-to-digital converters over I2C. Two drivers, one
for the FDC1004 and one for the four chips of the FDC2x1x family, share an I2C
transport. On top of the FDC1004 driver there is a search for the best CAPDAC
setting; above both there are helpers that take samples: a baseline tracker,
temperature and reference compensation, diagnostics, and "profiles" that turn a
feature vector into a state such as *near*, *far* or *wet*. Calibration profiles
can be stored with a checksum.

All of it runs on one thread, one call at a time. What makes it hard is the other
side of the bus: the chip converts on its own, may finish between any two
transactions, may lose its supply without anybody being told, and any transaction
may fail - before or after it took effect. `millis()` wraps around.

Paths below are relative to `src/`, the root of the repository.

## Contents

1. Inventory
2. Modules and the code they model
3. Runs
4. Fairness
5. Theorems
6. Findings
7. What is only model-checked, and what is not modelled
8. Plan

## 1. Inventory

| Component | State | Operations | Correct when |
| --- | --- | --- | --- |
| **FDC1004 driver** `src/fdcx/FDC1004.cpp` | bus, wait limit, cached `FDC_CONF`, per slot: configured, channel, CAPDAC | `begin`, `configureMeasurement`, `setSampleRate`, `setRepeatMode`, `idle`, `triggerSingleMeasurement`, `waitForMeasurement`, `readRaw24`, `readCapacitancePf`, `readSingleMeasurement`, raw register access | caches agree with the chip; a single shot is one fresh conversion, converted with the offset it was made with; `idle` really stops conversions; waits end on time |
| **FDC1004 chip** (external) | `FDC_CONF`, done bits, measurement configurations, results, conversions in progress | complete a conversion, lose power | - |
| **FDC2x1x driver** `src/devices/fdc2x1x/FDC2x1x.cpp` | bus, variant, wait limit; no register cache | `begin`, `reset`, mode and source setters, per-channel setters, `configureSingleChannel`, `startContinuous`, `stop`, reads, waits, raw access | a running chip is never reconfigured, `HIGH_CURRENT_DRV` and `AUTOSCAN_EN` exclude each other, success is complete, failure is safe, a refusal changes nothing |
| **FDC2x1x chip** (external) | `CONFIG`, `MUX_CONFIG`, timing and drive registers | convert while awake, reset, lose power | - |
| **I2C transport** `src/core/FDCxI2C.h` | none | 16-bit register read and write | an error is reported; whether the write took effect is unknown |
| **Auto-CAPDAC** `src/fdcx/FDC1004AutoCapdac.cpp` | locals of one call | `autoTuneCapdac` | best usable code, never a saturated one; the slot is left with it |
| **Baseline tracker** `src/fdcx/FDCxBaseline.cpp` | configuration, learned, counters, baseline | `update`, `reset` | learns only from quiet samples; once learned, does not jump |
| **Debounce** `src/fdcx/profiles/FDCxDebounce.cpp` | counter | `update`, `reset` | fires after the required number in a row |
| **Proximity profile** `src/fdcx/profiles/FDCxProximityProfile.cpp` | near, two debounce counters | `update` | every switch is earned, and every earned switch happens |
| **Automotive proximity profile** `src/fdcx/profiles/FDCxAutomotiveProximityProfile.cpp` | latest timestamp, latest candidate, two debounce counters | `update` | no false reject at a wrap-around, stale stamps refused, events earned and spaced |
| **Surface, liquid, granular, material profiles** `src/fdcx/profiles/` | liquid: the latest percentage | `update` (two forms), `evaluate` | guards precede decisions, bands are ordered, the percentage is the level |
| **Samples and feature vector** `src/core/FDCxSample.h`, `FDCxFeatureVector.h` | none | `toSample`, `fromSample` | a failed reading is not answered as a measurement |
| **Diagnostics** `src/fdcx/FDCxDiagnostics.cpp` | none | the flags of a sample | a flagged sample is refused where the documents say so |
| **Temperature and reference compensation** `src/fdcx/FDCxTemperatureCompensation.cpp` | none | a line, a table, a difference | the table is followed, nothing is extrapolated |
| **Calibration profiles** `src/fdcx/FDCxProfile.cpp`, `src/calibration/fdc2x1x/` | the profile; a stored image | validate, checksum, serialise, load | what was saved is loaded, or nothing is |
| FDC2x1x conversions, processing helpers, umbrella headers, examples, scripts | none | - | - |

How they interact: a sketch calls one driver; the driver makes bus transactions;
the sketch corrects the reading for the temperature, hands it (with the driver's
status) to the baseline tracker or not, and packs both into a feature vector, with or
without diagnostic flags, which it hands to a profile. A calibration profile is the
only thing that outlives a restart. There are no
callbacks, threads or interrupts. Auto-CAPDAC is a member of the FDC1004 driver and
uses only its public calls.

Hard behaviours, each listed with its line under "hazards" in `PROJECT.json`: the
chip acting between two transactions of a call, a cache and a register drifting
apart, a trigger or an old result surviving longer than the sketch thinks, guards
that read one register to protect another, calls of up to twenty transactions
failing in the middle, counters at their limits, everything `millis()` does when it wraps,
samples that are refused in the middle of a run, and a storage that was damaged.

## 2. Modules and the code they model

`PROJECT.json` "map" gives the source lines of every definition.

### Deadline
The do-while loop both drivers poll with, `millis() - start < timeoutMs`, in the
unsigned arithmetic of the code: `MayPollAgain`. `ClockMod` is 2^32 in the code and
small for TLC.

### FDC1004
The driver object and the chip it talks to. Variables `bound`, `timeoutMs`, `conf`,
`cfg` are the driver's members (`_bus`, `_timeoutMs`, `_fdcConfig`, and the three
per-slot arrays); `chip`, `fdc`, `done`, `meas`, `pend`, `res` are the device. A call
that makes one transaction is one action. A call that makes several is the record
`call`: its `stage` says which transaction comes next and its other fields are the
locals of the function. `readSingleMeasurement`, for example, goes through the
stages `trigger`, `poll`, `msb`, `lsb`, and between any two of them the chip may
`Complete` a conversion or go through a `PowerCycle`.

A write has three outcomes: acknowledged; refused and without effect (`nack`); taken
by the chip but reported as failed (`unacked`), which `FDCxI2C.h` cannot tell apart
from the second. `uncertain` records the registers that may have changed behind the
driver's back; the coherence properties are stated for the others. `quiet` records
that `idle()` has succeeded and nothing was asked for since.

The chip's behaviour is that of the repository's own register simulator,
`extras/tests/fake_i2c/FakeI2C.h`, with conversions that take time. A measurement
configuration (channel, CAPDAC on or off, code) is one element of `Configs`, and a
reading one of `Values`: no decision of the driver looks inside.

### FDC2x1x
The same for the other family, in a different form because the driver is different:
it keeps no cache, so every call is a sequence of reads, decisions and writes. A call
is a list of steps, `call.todo`; executing its first step is one transaction, which
may fail, end the call, or put more steps in front of the rest, as the helper
functions of the code call one another. `CONFIG` and `MUX_CONFIG` are records of
their fields; the reserved bits of `CONFIG` are one Boolean, `wellFormed`. Not
modelled: the contents of the data registers, the output gain in `RESET_DEV`, and
raw writes of `OFFSET` and `ERROR_CONFIG`, which no call of the driver reads back.

### SingleShot
The abstract specification of `readSingleMeasurement`: a call asks for a slot, the
chip makes at most one conversion for it, and the call returns that conversion whole,
with the offset of the configuration it was made with, or fails. It has none of the
driver's registers, stages or faults but one, that the chip may lose its supply.
`FDC1004` implements it (`ImplementsSingleShot`) with the mapping

| SingleShot | FDC1004 |
| --- | --- |
| `asked` | the slot of a single shot in progress |
| `made` | the result register of that slot, once the call's trigger has been followed by a conversion |
| `lost` | `call.lost`, a history of the call |
| `known` | the slot's registers are not in `uncertain` |
| `outcome`, `reading` | the result of the latest single shot |

### AutoCapdac
`autoTuneCapdac` on top of FDC1004, which it EXTENDS: `tune` is the call in progress,
and its steps are calls of the driver (`Configure`, `ReadSingleMeasurement`) and the
decisions between them. A reading is the residual it stands for, and because one
channel is tuned, a configuration is its CAPDAC code. While no tune is in progress
the sketch may call `begin` and switch repeat mode; other calls of the driver cannot
interleave with a tune (one thread) and leave nothing a tune relies on.

### Baseline
`FDCxBaselineTracker`. The update moves the baseline by a rate in (0, 1] of its
distance to the sample, so the new baseline is *any* value between the two: the
properties hold for every rate. Both counters saturate at `CountMax` and
`StableMax`, as `uint32_t` and `uint16_t` do in the code.

### Debounce, Proximity, AutomotiveProximity
`Debounce` is the counter as operators. `Proximity` is the near/far switch with two
thresholds, as an abstract specification: an update is refused by a guard and leaves
everything alone, or takes a change of capacitance. `AutomotiveProximity` is the
timestamp gate, the two debounced decisions and the minimum interval; `clock` is
`millis()` starting anywhere, and true elapsed times are history variables, capped
where the properties no longer distinguish them. Its update is refused by a guard for
any of the reasons the code lists before the decision; which field of the input is to
blame is left open.

### Compensation, Features, Profiles
Operators, because this code keeps no state: the temperature line and table and the
reference electrode; the samples of both families, the diagnostic flags and
`fromSample`; the guards every profile takes in order, and the decisions of the
surface, liquid, granular and material profiles. Capacitances, temperatures and noise
are integers on a grid, with one value more, `NotFinite`, for NaN and infinities, which
every guard of the code looks for. `TableValid`, `Covers` and `Above` are the loop of
the table look-up: the first point at or above the temperature.

### Pipeline
The composition: Baseline, the operators above and Proximity. `setup` is the sketch:
its profile and that profile's configuration, its temperature compensation, whether it
computes diagnostics, and whether it uses the older overloads that take bare numbers
(`bare`). An action is either a step of the tracker (`Track`) or one update of the
profile (`Feed`, `FeedBare`) with an input put through every function in between; the
sketch may show the tracker other readings than the profile, so the two are not tied.
`Prox == INSTANCE Proximity` with the answers of a proximity profile as its `result`
gives both the actions of the switch and the specification the pipeline is compared
with: `ImplementsProximity`. The changes of capacitance it takes are the constant
`Deltas`; `DeltasAssumption` says that it holds every change a proximity setup's inputs
can make from any baseline.

### Calibration
Both calibration profiles, with `kind` telling which one the sketch was built for: the
profile in memory, the stored image, and as history what was saved and whether it was
damaged since. A sketch sets a profile up, changes single fields, computes the
checksum, saves, loads, and is switched off and on, perhaps with a sketch for the
other family, while adjacent bytes of the storage change. A byte is the set of its bits
that are one, so that the checksum's exclusive-or is a symmetric difference. A field is
the sequence of its bytes, an array of floats that of all its elements; the widths of
the fields, of the checksum and of a byte are parameters, and so are which floats
are finite and within each bound.

### Proof modules
`DeadlineProofs`, `FDC1004Proofs` (with the refinement of `SingleShot`),
`FDC2x1xProofs`, `AutoCapdacProofs`, `ProximityProofs`, `AutomotiveProximityProofs`,
`PipelineProofs` (the tracker alone, then what is built on it) and `CalibrationProofs`.
Section 5.

### MC modules
`MCFDC1004` adds symmetry; `MCAutoCapdac`, `MCAutomotiveProximity`, `MCPipeline` and
`MCCalibration` define constant values a configuration file cannot write. `FDC2x1x` is
run directly.

Several definitions are marked "A bug the runs must notice". They are plausible
mistakes that no action uses; `PROJECT.json` "mutants" says which definition each
one replaces and which property must then fail.

## 3. Runs

| Run | Question | Distinct states |
| --- | --- | --- |
| `fdc1004_slots` | Two slots share `FDC_CONF`: are the caches right, are single shots fresh, does `idle` stop every slot? | 479,288 |
| `fdc1004_faults` | One slot, all faults, a wrapping clock: is the offset the one measured with, do waits end on time, does every call return? | 191,894 |
| `fdc1004_repeat` | Does a single-shot trigger keep repeat mode, as a test asserts? (No.) | violation |
| `fdc2x1x_switch` | All calls on two channels, with raw writes of `CONFIG` and `MUX_CONFIG`, faults, power loss, restarts: do the guards hold? | 1,595,090 |
| `fdc2x1x_configure` | `configureSingleChannel` and `startContinuous` failing anywhere, on the right and the wrong chip: complete, safe, and always returning? | 1,045,355 |
| `fdc2x1x_refusal` | Does `configureSingleChannel` refuse before it changes anything, as the change log says? (No.) | violation |
| `capdac` | Tuning over every mix of saturated, near-limit and good readings with every fault, power loss and restarts: is the choice the best, is its reading its own, does every tune end? | 1,064,517 |
| `pipeline` | Every profile behind the tracker and the compensation, fed good, noisy, failed and non-finite readings of both families: is learning earned and kept, is an answer made from a measurement, are switches, bands and levels right? | 405,188 |
| `pipeline_unstable` | Does every profile refuse a sample flagged unstable, as the documents say? (The liquid one does not.) | violation |
| `automotive_gate` | Timestamps from every position of the clock, pauses, stale stamps, noise: gating, debounce, spacing | 184,878 |
| `automotive_zero` | Are events spaced even after one stamped 0? (No.) | violation |
| `calibration` | Profiles of both families saved, damaged, loaded by either family's sketch: is what is loaded what was saved, is a stale checksum noticed, does a refused load harm nothing? | 299,827 |

### Bounds, and why they are enough

* **FDC1004.** Two slots are what sharing a register needs: every property speaks of
  one slot and of the bits of the others. Two configurations tell the configuration
  measured with from the present one; two readings tell halves of different
  conversions apart. Faults and power loss multiply the states and are checked with
  one slot. `Limits` {0, 3} with `Delays` {1, 2} and `ClockMod` 5: no wait at all, a
  wait over several turns, and a wrap-around inside the wait. Symmetry is used in
  `fdc1004_slots` only, a pure safety run.
* **FDC2x1x.** Channels 0 and 2, with a two-channel and a four-channel variant: the
  channel `HIGH_CURRENT_DRV` is allowed for, another one, and one that is invalid for
  some declared variant. In `fdc2x1x_configure` two filters, two clock sources and
  settings that differ from the reset value tell "as asked", "as before" and "reset"
  apart, and the chip is of the declared family, of the other one, or unknown.
* **AutoCapdac.** Three codes give a first, a middle and a last one; readings are
  saturated, near a limit, on the target and off it. One slot, since a tune touches no
  other.
* **Pipeline.** The tracker's counters saturate at 7 and 3, well beyond the warm-up, so
  runs pass their limits. The tracker alone is taken with every configuration, the
  limits including a negative one and the counts zero; behind it stands a tracker of one
  usual configuration for each of the profiles' setups. Those have a band, equal
  thresholds and impossible ones, rising and falling tanks and one that is too short,
  temperature needed or not, lines and tables of numbers, ones with an entry that is no
  number, a table that does not rise, and a confidence scale that is negative or no
  number. The inputs lie on,
  around and between the thresholds, and there is one for every guard to refuse.
* **AutomotiveProximity.** A clock of eleven ticks with a largest gap of four lets a
  stamp be older, newer and ambiguous; debounce 0 (treated as 1) and 2.
* **Calibration.** Bytes of two bits, floats of two bytes and a checksum of two bytes: every burst no wider
  than the checksum at every place of the image, every value of every field. Two
  channels, of which one variant uses one, tell the elements that are checked from
  those that need only be finite. One damage between a save and a load, and one edit
  after a checksum: two can cancel each other out in any checksum. Damage wider than the checksum is
  noticed with high probability only, so nothing is claimed of it.

Deadlock is checked in every run: there is always something a sketch may do.

## 4. Fairness

Only the code of a call in progress is assumed to keep running: `WF_vars(Continue)`
for the FDC1004, the next step of `call.todo` for the FDC2x1x, and the steps of a
tune together with those of the driver calls it makes. The library runs on one
thread and every call is straight-line code or the bounded polling loop, so this is
what the processor does. Nothing is assumed of the sketch, of the bus or of the
chip: conversions may never finish, transactions may fail for ever. The liveness
properties (`CallReturns`, `TuneReturns`) therefore rest on the polling limit alone,
and their mutants break exactly that. The tracker, the profiles and the calibration
profiles do their work within one call without a loop that waits, so nothing about
them is a matter of fairness.

## 5. Theorems

Each theorem holds for every value of the constants the assumptions of its module
allow. Assumptions are named, stated in the module that declares the constant, and
evaluated by TLC in the runs.

**DeadlineProofs.** `ElapsedIsWaited`: `(millis() - start) mod ClockMod` is the time
really waited, wherever the wait began, as long as it is shorter than one turn of
the clock. Proved from division with remainder: the two sides are residues that
differ by a multiple of the modulus.

**FDC1004Proofs.**
* `TypeCorrect`. The types alone are not inductive: a call in a late stage must have a
  slot. `CallShape` says so.
* `CacheIsCoherent` (`ConfigCoherent`). Inductive as it stands, thanks to
  `uncertain`: an acknowledged write makes a register certain and the cache equal to
  it, a refused one changes neither, every other way a register can change makes it
  uncertain.
* `QuietAfterIdle` (`IdleIsQuiet`). Needs more than "nothing converts": the *cached*
  trigger bits must be clear too (`QuietInv`), since `setSampleRate` and
  `setRepeatMode` write the cached word back and would start those slots again.
* `SingleShotIsFresh` (`SingleShotFresh`) and `SingleShotHasOffset`
  (`SingleShotOffset`). `FreshInv` carries the argument through the stages: from the
  trigger on repeat mode is off, so the one conversion in progress is the last of its
  slot; once its done bit is seen nothing is pending, so both halves are read from
  the same result. `OffsetInv` follows the configuration the same way.
* `DeadlinesAreKept` (`DeadlineKept`). `WaitInv`: a polling call has not yet waited
  its limit out, so one more turn stays below the modulus and `ElapsedIsWaited`
  applies. The assumption used is that a limit plus one turn does not exceed the
  clock's range. For limits near 2^32 ms it would fail, and so would the code.
* `DriverImplementsSingleShot` (`ImplementsSingleShot`). Beside the invariants above it
  needs `OneConversion`: within one call the chip finishes no second conversion of the
  slot, even when the supply is lost and a conversion is never finished at all. Then
  every step of driver and chip is one step of `SingleShot` or a stutter (`CallStep`,
  `ContinueStep`, `ChipStep`).

**FDC2x1xProofs.** A call is the list of steps it still has to make, `call.todo`, so
the invariant (`Guarded`) speaks of that list. A step that needs something of the
registers - that the chip sleeps, that `AUTOSCAN_EN` or `HIGH_CURRENT_DRV` is clear -
either follows directly on a step that makes sure of it (`Chain`), or is the next one
and the registers are as it needs them (`Ready`). Every `CONFIG` word waiting to be
written is one the guards allow (`SafeStep`). As only the first step of the list writes
registers, and a power-on reset leaves them as every step needs them, this is kept
until the step is taken. It gives
* `TypeCorrect`,
* `HighCurrentIsExclusive` (`HighCurrentExclusive`): `HIGH_CURRENT_DRV` only with channel
  0 and never with autoscan, across two registers written in separate transactions;
* `RunningChipIsLeftAlone` (`NoLiveReconfiguration`);
* `ChipIsStartedDeliberately` (`StartedDeliberately`).

What a call leaves behind when it returns needs a second invariant, `Progress`, about
the steps already made. Every call but `startContinuous` and `configureSingleChannel`
looks first and writes last, so a refusal finds the registers as they were. For these
two, as long as the supply holds: each register is as it will be in the end, or the
write that makes it so is still in the list; the chip sleeps from the first write on,
and only the last step of the list may wake it; once `startContinuous` has found nothing
to refuse, no later check of it refuses. It gives
* `SuccessMeansComplete` (`SuccessIsComplete`): success is reported by the last step only,
  when the list holds no other write;
* `FailuresAreSafe` (`FailureIsSafe`): a chip awake after a failure is one not written to,
  or one written to completely;
* `RefusalsAreHarmless` (`RefusalIsHarmless`).

**AutoCapdacProofs.**
* `TuneImplementsDriver`: `TuneSpec => Spec`, every step of a tune is a call of the
  driver or a stutter. Everything above holds while tuning; `TuneIsCoherent` is the
  corollary for the caches.
* `TuneTypeCorrect`.
* `TuneLeavesItsCode` (`TunedSlot`): success is reported by one step only, the last
  configuration write (`OkIsEarned`); the chip's half follows from coherence.
* `TunedChoiceIsBest` (`TunedIsBest`): `ScanInv` says that until the scan ends the
  codes below the present one are exactly those scanned, none was good enough to end
  it, and the result is the closest usable one so far, or none was usable.
* `TunedReadingsAreOwn` (`TunedReadingIsOwn`): `ReadingInv` says that while a tune reads
  a slot the driver holds the present code for it, so the offset that `OffsetInv` gives
  the single shot is that code's.
* `NotReadyMeansSaturated` (`NotReadyIsSaturated`): a single shot of a configured slot
  never returns `MeasurementNotReady` itself, so only a range scanned to its end without
  a usable reading can (`EndsSaturated`).

**ProximityProofs.** `TypeCorrect`, `SettledIsReported`, `SwitchesAreEarned` for the
hysteresis and the debounce alone. The code's counter starts anew with every switch,
the runs of samples the properties speak of do not: the invariant is that the counter
is never ahead of its run, and equal to it when the thresholds leave a band.

**AutomotiveProximityProofs.** `TypeCorrect`, `WrapCausesNoReject` (`NoFalseReject`),
`BackwardIsRefused` (`OutdatedIsRefused`), `EventsAreEarned` (`EventIsEarned`) and
`EventsAreSpaced` (`EventsSpacedUnlessZero`). The profile knows stamps modulo
`ClockMod`, the properties speak of the time that passed. The invariant ties them
together: while an age is within the limit it is compared with, the clock is the stamp
plus that age, modulo `ClockMod`. The arithmetic comes from DeadlineProofs.

**PipelineProofs.** First the tracker alone: `TypeCorrect`, `LearningIsEarned`
(`LearnedIsEarned`), `LearningIsQuiet` (`LearnedWhenQuiet`), `LearnedBaselineHolds`
(`LearnedNeverJumps`), `BaselineStaysInRange` (`BaselineInRange`). The invariant
`LearnInv` relates the stable counter to the run of quiet samples and to the sample
counter; that the latter cannot saturate first is the assumption
`2 * StableMax < CountMax`, true of `uint16_t` and `uint32_t`. Then the composition:
* `PipelineKeepsTracker`: whatever a sketch feeds its profile, the tracker behaves as
  Baseline, so all of the above holds in the pipeline, where the runs check it.
* `PipelineImplementsProximity` (`ImplementsProximity`): behind its guards the profile
  implements Proximity, for every tracker, compensation and input. The argument is one of
  types: what passes the guards is a number and not a NaN, a temperature inside of a
  valid table has a next point (well-foundedness), the compensated value is a number
  again, and its distance from the baseline is one of `Deltas` (`ChangesAreDeltas`).
  Corollaries: `PipelineReportsSettled` (`ReportedWhenSettled`) and
  `PipelineSwitchesAreEarned` (`SwitchIsEarned`).
* `AnswersComeFromMeasurements` (`AnsweredFromMeasurement`). Its half about proximity
  rests on `NearIsAChange`: a reading that is not a number is given the change zero, and
  zero lies below every near threshold the guards accept.
* `TablesAreFollowed` (`LookupFollowsTable`): the points of a valid table rise altogether
  and not only from each to the next (`TableRises`), so the neighbours the loop finds are
  the ones around the temperature; the offset between them lies between theirs, rounded
  down to the grid (`OffsetIsInterpolated`, `QuotientBetween`).
* `SurfaceStaysOrdered` (`SurfaceIsOrdered`): two readings of one temperature are
  corrected by the same amount (`CorrectionKeepsOrder`), so their changes are in order;
  then the bands are, also where a doubtful answer becomes *unknown* (`BandsAreOrdered`). The
  half about frost and ice is an invariant of the answers, `ColdEnough`, kept since an
  update reports the temperature it decided with.
* `FillFollowsTheLevel` (`FillIsTheLevel`): the percentage, times the span of the tank,
  is the place of the compensated capacitance cut off at the ends (`NearestIsCut`,
  `LevelIsThePlace`), for rising and falling tanks. `FillIsCurrent` carries it from the
  update that answered to the state a sketch asks `fillPercent()` in.

**CalibrationProofs.** For every width of bytes, fields and checksum and every
polynomial with its top bit:
* `StorageTheorem` (`LoadsWhatWasSaved`): a sketch of the same family loads what was
  saved or, after damage to adjacent bytes no more than the checksum has, possibly nothing;
  never something else, nor the image of the other family.
* `StaleTheorem` (`StaleCrcIsNoticed`): a profile changed since its checksum was computed
  is not valid, if the bytes changed are no further apart than the checksum is wide.
* `ValidTheorem` (`ValidStaysValid`).

The invariant says that the storage is blank, or the image of the profile saved last, or
differs from it in one such burst (`StorageIsKnown`), and that the profile sealed last
is valid (`SealedIsKnown`). That a burst is noticed rests on one fact: a
polynomial with its top bit makes a shift reversible, since that bit tells whether a one
was shifted out (`ShiftedBack`). Two checksums that agree at the end, over bytes that are
the same from some point on, hence agreed at that point; going back through the burst,
byte by byte, their difference can only have bits the remaining bytes of the burst
have put there (`CrcBack`), so that none is left at its first byte, which must then be the
same in both (`FirstChangeIsNoticed`). The inductions over bits and bytes
are arguments by the least counterexample (`LeastElement`). What is left is the layout: an image
is read back as the profile it was made of (`ProfileImage`), and bytes read as a profile have
those bytes as the body its checksum is computed over (`ParsedImage`). Assumed of
the known values: no magic number looks like a blank storage, and the headers of the
families differ in two places a burst cannot reach both of.

## 6. Findings

1. **A single-shot trigger clears repeat mode** (`src/fdcx/FDC1004.cpp:156`), while
   `extras/tests/test_fdc1004_phase2_1/test_fdc1004_phase2_1.ino:13` asserts the
   cached repeat bit survives `triggerSingleMeasurement`. Another test of the
   repository expects what the code does. Run `fdc1004_repeat`.
2. **`configureSingleChannel` can refuse after it has acted**: with
   `HIGH_CURRENT_DRV` set and a channel other than 0 it enters Sleep Mode, rewrites
   timing, drive current and `MUX_CONFIG`, and only then returns `InvalidArgument`
   from `startContinuous` (`src/devices/fdc2x1x/FDC2x1x.cpp:393`). `CHANGELOG.md:17`
   says arguments are validated before Sleep Mode. Run `fdc2x1x_refusal`.
3. **An event stamped 0 is forgotten**
   (`src/fdcx/profiles/FDCxAutomotiveProximityProfile.cpp:53`): 0 is the mark for "no
   candidate yet" and also a time `millis()` takes, so the next event may follow at
   once. Run `automotive_zero`; `automotive_gate` shows that this is the only way the
   spacing fails.
4. **The liquid profile answers from an unstable sample**
   (`src/fdcx/profiles/FDCxLiquidLevelProfile.cpp:42`): it never looks at the
   `SignalUnstable` flag. `docs/family_aware_profiles.md:7` and `:13` say that each
   current profile rejects a sample flagged unstable. Run `pipeline_unstable`.

Smaller disagreements met on the way, with no run of their own:
* `docs/fdc1004_register_map.md:81` calls the repeat bit not enabled by the helpers;
  `setRepeatMode` enables it.
* `docs/fdc1004_notes.md:46` says write failures do not silently diverge the cache from
  the device, which is true of writes the chip refuses and not of those it takes
  without the acknowledge arriving.
* The comment at `src/fdcx/FDC1004.cpp:209` speaks of the latest completed measurement,
  but `Ok` is also returned when none has completed.
* `docs/surface_state_profile.md:27` says a warm temperature must not produce frost or
  ice candidates; with `requireTemperatureInput` false the surface profile ignores a
  temperature it is given, and reports them when it is warm.
* `docs/family_aware_profiles.md:13` also asks that an unavailable measurement be rejected.
  A reading that is not finite (`compensateTemperatureLinear` answers NaN when one of its
  arguments is not) gets the change 0 from `fromSample` and the flag `InvalidInput` from
  the diagnostics; the proximity profile looks at `SignalUnstable` only
  (`src/fdcx/profiles/FDCxProximityProfile.cpp:32`) and answers `Ok`, with `Far` when
  nothing was near. `AnsweredFromMeasurement` shows that such a reading never makes it
  switch to near.
* The comment at `src/core/FDCxFeatureVector.h:38` says that profiles validate status and
  model again. The proximity, granular and automotive profiles do not look at
  `baselineLearned`, which `fromSample` clears for a reading that is not finite: for all
  three it is a change of 0.

Promises of the documents that the runs confirm: `docs/fdc2x1x_conversion.md:95` (a
request `startContinuous` refuses does not stop the running channel,
`RefusalIsHarmless`), `docs/fdc2x1x_register_map.md:53` and `:57` (exclusion of high
current and autoscan, `HighCurrentExclusive`; setters need Sleep Mode,
`NoLiveReconfiguration`), `docs/calibration.md:17` (a saturated reading is not
returned as success, `TunedIsBest`) and `:21` (a learned baseline is not quickly
overwritten, `LearnedNeverJumps`), `CHANGELOG.md:16` (wrap-safe timestamps,
`NoFalseReject`), `docs/automotive_proximity_demo.md:31` (backward timestamps are
rejected, `OutdatedIsRefused`).

## 7. What is only model-checked, and what is not modelled

*Only model-checked:* liveness under fairness (`CallReturns` of both drivers,
`TuneReturns`), which TLAPS cannot prove. Every invariant and every action property of
the passing runs is stated by a theorem of section 5.

*Abstracted:* picofarads and frequencies (integers or opaque values; rounding and
overflow of floating point are not modelled, a value that is not finite is one value);
the table's interpolation, rounded down to the grid; bit positions of registers (records
of fields); log and error texts, the reasons and the names of states; the value of a
confidence, of which only the comparison with its minimum is kept; the encoding of a
float in a calibration profile, of which only finiteness and bounds are kept.

*Not modelled:*
* the FDC2x1x conversions and the material signature's quotients: floating-point
  formulas without state, out of the reach of both tools, which have no floating point;
* the data registers of the FDC2x1x and raw writes of `OFFSET`, `ERROR_CONFIG` and the
  output gain, which no guard of the driver depends on;
* what a driver would have to know to do better when registers change behind its back:
  after a raw write of a measurement configuration, a write without acknowledge or a lost
  supply, the properties about the registers concerned hold again from the next
  acknowledged write on, and a single shot during which the supply is lost may return
  anything;
* a write of the stored image that stops half-way: damage is one burst of bytes after a
  complete save;
* null pointers and short buffers given to the calibration profiles, and damage wider
  than their checksum, which a checksum notices with high probability only;
* processing helpers nothing calls, `FDCxThreshold.h`, headers that only include others;
* examples, tests and scripts.

*External:* the chips, the supply and the microcontroller's restart, modelled from
how the code and its register simulator use them.

## 8. Plan

Done, in this order: Deadline, FDC1004, FDC2x1x, AutoCapdac, Baseline, Debounce,
Proximity, AutomotiveProximity; then SingleShot and its refinement, Compensation,
Features, Profiles, Pipeline, Calibration; the proofs of section 5.

Next:

1. **Data of the FDC2x1x:** a result read as two registers in two transactions, once the
   conversions are wanted in the model.
2. **Hazards without a property** (`PROJECT.json`): an offset of the present configuration
   added to a reading of an earlier one, a variant declared too small for the channel that
   runs, and the automotive profile after a pause longer than its limit. Each is what the
   code does and no document rules out.
