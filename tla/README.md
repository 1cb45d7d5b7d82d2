# game-of-life-webgpu: models, checks and proofs

TLA+ modules that follow the source of this repository, TLC configurations
that check them on small instances, and proofs that TLAPS checks for every
value of the constants. `PROJECT.json` is the index: components, runs, the
source lines of every definition, mutants, findings, hazards and theorems.
Paths below are relative to the repository.

    tlc -config EngineSafety.cfg MCEngine      # a run
    tlapm EngineProofs.tla                     # a proof

## 1. The system

| Component | State | Operations | Model |
|---|---|---|---|
| `GolEngine` (`engine/src/engine.rs`), with `Grid` (`buffers.rs`) | backend, size, two storage buffers, `generation`, CPU shadow, `pending_to_cpu`, `last_stats` | `set_backend`, `resize`, `clear`, `randomize`, `stamp`, `step` (`step_gpu`, `step_cpu`), `render` | `GolEngine`; `last_stats` in `Panel`, the bytes of `stamp` in `Painting` |
| `PendingReadback` (`readback.rs`) | a MAP_READ buffer, an atomic state, the data | `new`, `needs_record`, `mark_recorded`, `try_start_map` and its callback, `take_if_done` | `Readback`, `EngineHistory` |
| `Timing` (`timing.rs`) | an atomic state, the last sample | `try_start_pass`, `finish_pass`, `poll_readback` and its callback, `latest` | `GpuTiming`, `Panel` |
| compute kernel (`shader/src/lib.rs`) and the pass that runs it | the two buffers | `gol_step`, dispatches | `LifeRule`, `GpuPass` |
| `CpuSim` (`cpu.rs`) | `front`, `back` | `step`; the others as the engine uses them | `LifeRule`, `CpuStep`, `GolEngine` |
| app (`app/src/app.rs`, `callback.rs`) | the user's picks, playback, one-shot `pending_*` fields, the engine's backend as last seen | `ui` (`sample_diagnostics`, `tab_sim`, `show_grid`), `prepare`, `paint`, `try_load_rle` | `GolApp`, `Panel`, `Loading`, `Painting` (not the widgets) |
| presets (`patterns.rs`) | none; five tables | `cells`, `extent`, `stamp_centred`, `glider_seed` of `buffers.rs` | `Patterns`, `Stamping`, `Loading` |
| RLE import (`rle.rs`) | the parser's count, pen and cells | `parse`, `stamp_centred` | `Rle`, `Stamping`, `Loading` |
| diagnostics (`StepStats` of `engine.rs`, `fps_graph.rs`) | `last_stats`, a window of samples | the end of `step`, `push_step`, `p99_ms`, `avg_cpu_ms` | `Panel` |
| render shader (`gol_render.wgsl`) | none | `fs_main` | `Painting` (the cell it samples) |
| pipelines, build script, web entry point | none that changes | construction, I/O | not modelled |

How they interact. Once per animation frame the app reads the engine's stats
and backend, runs its panel, and drains its `pending_*` fields into one
`GolCallback`. egui calls the callback's `prepare`, which plays the work to the
engine in a fixed order (`set_backend`, `resize`, `clear`, `randomize`,
`stamp`, `step`), records GPU commands into egui's encoder, and submits the
encoder after `prepare` has returned. Results come back only through
`map_async` callbacks, which the browser runs when it pleases, between frames.
The callbacks share atomics and a mutex with the engine through `Arc`s, so
they may outlive the object that started them.

What is hard here: a switch from the GPU to the CPU spans at least three
frames and one callback, and edits, ticks, resizes, cancellations, lost frames
and failed maps fall in between; two buffers alternate by the parity of a
wrapping counter that is also reset; the same call records work that runs later
and does work that runs now; and thousands of GPU invocations run in any order.
`PROJECT.json` lists these hazards at their lines, with the properties that
watch them.

## 2. Modules

    GridData ──┬─ Readback ─┐
               │  GpuTiming ┴─ GolEngine ── EngineProperties ─┬─ EngineRefinement ── MCEngine
               │                                              ├─ EngineHistory ── MCEngineHistory
               │                                              ├─ MCBoards  (BoardGrids)
               │                                              ├─ GolApp ── MCApp
               │                                              │    └─ Panel ── MCPanel
               │                                              └─ EngineProofs ─┬─ RefinementProofs (EngineRefinement, EngineHistory)
               │                                                               └─ AppProofs (GolApp, Panel)
               └─ Simulation  (instance in EngineRefinement)
    LifeRule ──┬─ LifeGeneration  (instance in GpuPass and CpuStep)
               ├─ GpuPass ── MCGpuPass
               ├─ CpuStep ── MCCpuStep
               ├─ Stamping ─┬─ Patterns ─┼─ BoardGrids  (also used by LoadingProofs)
               │            └─ Painting ─┼─ Loading ── MCLoading
               │                   Rle ──┴─ RleProofs ─┐
               └─ LifeProofs ─┬────────────────────────┴─ LoadingProofs
                              └─ GpuPassProofs, CpuStepProofs

**GridData.** The engine never looks inside a grid: it blanks, fills, stamps,
copies it whole and asks for generations of it. A grid is a value with an edge
length, and what is done to it are constant operators under one assumption
(`GridAssumption`, which says `GridsBehave`): no operation but resize changes the
edge length, and zero generations change nothing. The engine is thus checked on
a four-picture fragment of Life and proved for every grid type; cells are the
business of `LifeRule`, `GpuPass` and `CpuStep`. **BoardGrids** brings the two
together: a grid is an edge length and a board, a tick is the rule, a stroke and
a soup write cells. `BoardsAreGrids` proves that such grids behave, for every
edge length, and `MCBoards` runs the engine on them.

**GpuTiming, Readback.** The two small state machines, written as operators on
their own variables for `GolEngine` to use. `Readbacks` is a pool of
`PendingReadback` objects: an object stays alive while the engine or a map
callback in flight holds it, so a dropped readback can call back while its
successor is under way. The bytes handed to `take_if_done` are the buffer's:
nothing writes it between the map and the take.

**GolEngine.** One action per engine operation, one for `step` with three cases
(the readback lands, CPU mode, GPU mode), and the environment: `Submit`,
`LoseFrame`, and the four callback outcomes. Decisions worth knowing:

- `queue.write_buffer` takes effect at once. WebGPU orders it before the next
  submit, and no engine operation writes between `step` and the submit, so no
  command of the frame can observe the difference.
- Commands in the encoder take effect at `Submit`, in their order: the ticks,
  then the copy. `Executed` is the buffers as that submit will leave them, and
  `Shown` is what `render`, whose pass is in the same submit, draws.
- `generation` counts modulo `GenModulus`, 2^64 in the code. What the code needs
  of it is that it is even.
- `LoseFrame` is egui_wgpu giving a frame up after `prepare` because the surface
  has no texture: the encoder is dropped unsubmitted.
- A failed map stores `NeedsRecord`, as the callback does.
- Bind groups and the params buffer are rebuilt or rewritten with the buffers in
  `Grid::resize` and add no state. `CpuSim.back` is scratch at this level.
- `last_stats` is added in `Panel`: only the app's panel reads it.

**EngineProperties** holds the inductive invariant by parts, the safety and
liveness properties, and (last section) statements of the repository that the
code does not keep. **EngineHistory** adds a history variable for one of those.

**Simulation** is what the engine promises: one grid, edited and advanced, and
a switch that is requested, captures the grid, and lands with what it captured
unless it is cancelled, replaced or sent back. It has no buffers, counter,
encoder or callbacks. It states what the code does and no more, which takes two
further pictures: the one the GPU keeps beside the grid (`hidden`; a `clear` in
GPU mode may put it in the grid's place, finding 1), and both as they will be
should the frame be lost (`undo`). Losing the frame takes its ticks back, and a
switch that was to capture the grid goes on with what it held before, a blank
(`Lose`, finding 5). Landing brings back the captured grid (finding 2).
**EngineRefinement** maps the engine to it: the grid is the current buffer once
recorded work has run, or the CPU grid, and the hidden picture the other buffer;
a switch holds what its readback buffer holds, and has captured once the frame
with the copy has ended, however it ended, which the engine does not learn.

**LifeRule** has the rule by counting live neighbours, and the arithmetic of the
two kernels; **LifeGeneration** is the abstract step (the whole board at once).
**GpuPass** has one process per invocation with a load and a store (all loads of
an invocation are one step: nothing writes the source buffer during a dispatch),
workgroups that overhang the grid, and a barrier between dispatches. **CpuStep**
is the loop, one cell at a time, with the reused back buffer.

**GolApp** puts the app around the engine: `Ui` is a whole `ui` call (read the
engine's backend, let the user pick, drain), then `prepare` call by call, then
the end of the frame; callbacks run between frames, as the page has one thread.
The ticks of a frame are an input here, and decided in `Panel`. Each callback is
prepared once.

**Panel** is `GolApp` with playback and diagnostics: every action is one of
`GolApp` with what it does to the rest (`PanelRunsApp` proves it). `Playback` is
the play button, the step button drawn after it, the slider, and the ticks that
`show_grid` makes of them; `StatsAfter` is the end of `step`; `Pushed`, `Cut` and
`Kept` are the window, `p99_ms` and what `avg_cpu_ms` averages. A time is a
natural number. The entry at a place of the sorted list is written without
sorting: no more figures than the place says are smaller, and more than that are
no greater (`SortedAt`). Three histories say what happened: whether Step was
clicked in this frame; the time, ticks and backend of the latest step that ran
any ticks (`WorkOf`, which reads them off the encoder where the GPU ran them and
not off the statistics); and how far the latest timed pass is. The slider is an
input of the frame: no frame reads where an earlier one left it.

**Rle** is `parse`, one action for each arm of its match, reading a text that is
chosen as it is read; a header line is what `parse` takes from it. The counters
are words that wrap, as in a release build (a debug build panics there).
`Meaning` is the other reading of the same text, from the format's description
at the top of `rle.rs`: no pen and no counters that wrap; a tag's line is the
number of line ends before it, its column the number of cells before it in the
line, every tag counted as often as it is repeated. `Plain` says which texts the
two readings are compared on: no tag is repeated zero times (`parse` reads that
as once) and no number leaves a word.

**Stamping**, **Patterns**, **Painting**: from a pattern to the grid
(`stamp_centred`, `CpuSim::stamp`), the five tables, and from the pointer to the
cells (the brush) and from the cells to a pixel (the fragment shader), with the
byte offsets that `GolEngine::stamp` uses on the GPU. Coordinates of the pointer
are exact fractions where the code has `f32`: on a large grid a rounding may
move a dab by a cell.

**Loading** composes them: the engine's first glider, the import button with its
size check, the preset button, a dab of the brush, and the generations after.
The backend is picked at the start and stays. On the GPU there are the two
buffers and the parity of `generation`: a tick writes the other buffer, and the
`clear` before a loaded pattern blanks the current buffer and then makes buffer 0
current (`LeftByClear`), so at an odd generation the pattern lands on what that
buffer held. A text may be loaded on a blank grid or over a preset that runs;
presets and dabs are put on the blank grid that a resize leaves, so that what is
on the grid can be compared with what was meant.

## 3. Runs

Passing:

| Run | Question | Bounds | Distinct states |
|---|---|---|---|
| `EngineSafety` | types; `EngineInv`; nothing mapped is submitted; a landing fits; the CPU display keeps up | two sizes, four pictures, two readback objects, counter modulo 4, one tick a step; frames lost, maps failing | 1.9 million |
| `EngineImplements` | the engine implements `Simulation` | as above, two ticks a step, no timer; frames lost, maps failing | 485 thousand |
| `GpuDispatch` | a dispatch is a generation | edge 2, workgroups of 3 by 3, all boards | 79 thousand |
| `CpuLoop` | the CPU loop is a generation, the shader's and the rule's | edge 3, all boards | 7 thousand |
| `Loading` | the parser against the format; what fits is stamped whole, and when alone; a dab shows; what the presets do | both backends; words of 4 bits (`WordSize` 16), 8 headers, all bodies up to 4 characters over 9 and three longer ones on blank grids of 2 and 5, the hint over every preset aged up to 3; grids of 2, 5, 17 and 38; 60 generations; a square of 10 pixels | 128 thousand |
| `Panel` | the panel's figures belong together; timed passes do not overlap; a pause holds; a measurement is shown | one size and the pictures of the engine runs, edited by clears, up to two ticks a step, one time for a step with ticks and one for a step without, one measurement, a window of 2 samples cut at 50%; lost frames, failing maps | 812 thousand |
| `App` | a GPU pick is final; stamps fit; a pick is carried out; a readback resolves; the timer returns | two sizes, a grid is its edge length, counter modulo 2, lost frames, failing maps | 233 thousand |

Why the bounds are enough. Two sizes give every size mismatch. Two readback
objects give a held readback and one that was dropped with its map in flight
(the bound shows as a guard: no new readback while none is free). A counter
modulo 4 wraps within a run and has two generations for each slot. The
pictures have period 1 and 2 and one that an edit makes, so a blank grid, the
previous generation and an edited one all differ; with two ticks a pass
overwrites both slots. `EngineImplements` leaves the timer out, which touches no
state the refinement reads. Edge 3 is the smallest torus on which the eight
neighbours of a cell are eight cells, and edge 2 the hardest for the wrap: some
neighbours are counted twice. The workgroup of 3 over a grid of 2 has
invocations off both edges. The app's properties are about backends, sizes and
switches, not about cells, so there a grid is its edge length.

A body of four characters holds every pair of tags with a count between them,
the longer ones are the import tab's own glider and two whose column or line
passes the word. The four grids are smaller than a preset, just larger than the
glider, the pulsar and the gun, and 60 generations are 15 of the glider's
periods, 20 of the pulsar's and two of the gun's. The hint is loaded at ages of
both parities, so over a blank grid and, on the GPU, over the generation before.
With 10 pixels the brush's two
radii (`WideFrom` 38) just reach from one sampled cell to the next on grids 17
and 38, and all 441 positions of the pointer are tried. A window of two fills,
drops and has a cut between its ends. Steps without ticks, with one and with two
differ in their time or their number, so figures of an idle step beside those of
a busy one show, and so do ticks of one busy step beside those of another; that
no time is mixed up either, whatever the times are, is proved (`StatsSafe`).

Every property of a passing run has a mutant: an edit of the model such a bug
in the code would make (the operators marked `Fault:`), under which TLC must
find the property violated.

Fairness is stated in `GolApp`. The app requests a repaint in every frame
(`app/src/app.rs:515`), so `Ui` happens again and again, and a frame that began
ends, submitted or lost: weak fairness. WebGPU settles every `map_async`, but
callbacks run only between frames, so their turn comes again and again and not
continuously: their fairness is strong. For the readback it also says that a map
tried again and again succeeds in the end: the code retries without a limit
(`readback.rs:100`), and if every map failed the switch would indeed never
complete. Nothing obliges the user to click: picks, edits and ticks are chosen
freely within `Ui`, and a user who pauses for ever, or resizes for ever, is among
the behaviours checked.

## 4. Where the repository says otherwise

Five runs expect a violation; each counterexample is what the code does. The
first three are on boards of Life of edge 3 (`MCBoards`), from the glider that
the engine starts with.

1. `ClearStale`: `clear` blanks the current slot, then resets `generation`
   (`engine.rs:184`). After an odd number of GPU generations slot 0 becomes
   current with the previous generation still in it, where `app.rs:125` and
   `:149` say the grid is cleared. Loading an RLE pattern goes through this:
   `LoadedWhole` says what holds, that the pattern is whole at all times and
   alone on the CPU and after an even number of generations.
2. `SwitchLosesEdit`: edits and ticks between the copy and the landing are
   lost, where `engine.rs:125` says the switch preserves the current grid.
3. `LandingStale`: landing in a frame without ticks uploads nothing, so CPU mode
   shows an old slot 0, where `engine.rs:333` says slot 0 is where CPU mode
   uploads. `CpuDisplayKeepsUp` is what does hold: once right, it stays right.
4. `AppSwitchDropped`: a resize drops the switch (`engine.rs:169`) and the app
   waits for it for ever, where `app.rs:27` says the two backends differ
   briefly. But for a resize on the way the switch does complete
   (`SwitchCompletes`).
5. `LostCopyMapped`: the map starts whether or not the copy was submitted, where
   `readback.rs:70` says it starts if it was; after a lost frame a blank grid is
   adopted. Lost frames are all that is wrong: without them nothing else lands
   than copies that reached a submit (`LandsCopiesUnlessLost`).

Smaller differences met while modelling, without a run of their own: a failed
map is retried, where `readback.rs:98` says the engine drops it; a switch keeps
the grid, where `callback.rs:11` says it clears; `p99_cpu_ms` is called the p99
of the CPU dispatch (`fps_graph.rs:99`) and is the cut over both series; a
sample's GPU time is the latest one known, also in frames that brought none
(`fps_graph.rs:40`); `#` lines after the header are refused, where `rle.rs:8`
calls them comments; a count of zero is read as one; and the pulsar has 48
cells, where `patterns.rs:13` says 13. A dab may not show at all on a grid of
more than `2 * pixels * radius` cells (8096 on a square of fewer than 2024
pixels): the shader samples one cell for a pixel and may step over the brush.

## 5. What is proved

With `tlapm`, for every value of the constants under the named assumptions
(`TimingAssumption`, `ReadbackAssumption`, `GridAssumption`, `EngineAssumption`;
`NothingAssumption`, `PanelAssumption`; `PassAssumption`, `CpuAssumption`;
`SnapshotAssumption`, `RleAssumption`, `PaintingAssumption`,
`LoadingAssumption`), each of which TLC
also evaluates.

**Engine** (`EngineProofs`). `TypeCorrect`, then `EngineInvariant`:

- `SizesAgree` (every picture has the grid's size) is what makes a landing fit;
- `HeldReadback` (the readback held is live and of the grid's size, anything
  else is free or waits for its callback) is what keeps a dropped readback from
  reaching the engine, and is why `resize` has to drop it;
- `CpuModeSettled` (in CPU mode nothing is pending and `generation` is 0) is why
  "the current buffer" and slot 0 are the same in CPU mode;
- `EncoderOwned` (the copies in an encoder belong to a readback and a timer that
  wait for that submit) is what poll-before-record is there for.

None of the safety properties is inductive alone; `SubmitSafe`, `LandingSafe`
and `DisplaySafe` follow from these. That holds with lost frames and failing
maps too.

**Refinement** (`RefinementProofs`, also under `SnapshotAssumption`).
`EngineImplementsSimulation`: the engine implements `Simulation`, frames lost and
maps failing included. Beside `EngineInv` it needs `CopyIsCurrent` (a copy is
recorded from the slot its frame leaves current), and that the counter's modulus
is even, so that the current slot alternates across a wrap. Every engine
operation maps to the operation of the same name, `Submit` to `Carry`,
`LoseFrame` to `Lose`, a failed map to `Recapture` and the other callbacks to
nothing. The second picture is what makes `Lose` exact: after an odd number of
lost ticks the counter has moved and the buffers have not, so the two pictures
have changed places (`Unsubmitted`). `LandsCopiesUnlessLost`: if no frame is lost,
only copies that reached a submit land, by an invariant over the history of
`EngineHistory`; it is what finding 5 leaves standing.

**Grids** (`LoadingProofs`). `BoardsAreGrids`: `GridsBehave` holds of the boards of
`BoardGrids` for every set of edge lengths, so the constants that the engine's
theorems range over can be boards of Life. Generations are a recursive function
on the numbers; that its recursion has a solution is proved by joining the
solutions up to each number (`GenerationsAre`). `KernelsRunGrids`: each of them is
what the shader's kernel computes cell by cell, and what the CPU's does, which
ties the engine's abstract `LifeN` to `GpuPass` and `CpuStep`.

**Rule** (`LifeProofs`). `KernelsCompute`: for every
edge length and board, both kernels compute the rule. The sum of eight reads is
shown to count the live neighbours by building the set of live offsets one
offset at a time. `GenerationMoves`: the rule does not know where it is; a
generation of a board moved across the torus is the moved generation. With it
the generations of a pattern need computing in one place only
(`GliderGenerations`, `PulsarGenerations`: the phases of the two patterns, on
every torus on which they do not touch themselves).

**GPU pass** (`GpuPassProofs`). `PassInvariant`: whatever the interleaving, what
is loaded or stored is the next generation of the source. `PassImplementsLife`:
since the workgroups cover the grid (`GroupsCover`), a dispatch with all
invocations finished has written every cell, so the slot the next one reads is
the next generation.

**CPU loop** (`CpuStepProofs`). `LoopInvariant`: the back buffer holds the next
generation up to the loop's position. `LoopImplementsLife`: at the swap that is
the whole board. `AlwaysAgree`: on every board it reaches, the shader would
compute the same. `LoopTypeCorrect`: its types.

**App** (`AppProofs`, also under `NothingAssumption`). `AppRunsEngine`: every
step of the app is a step of the engine or leaves it alone, so the engine's
theorems are theorems about the app. `PickSafe` and `StampSafe` need `AppInv`:
between the frame's draining and the call that delivers it, the size and the
backend picked are in the callback; afterwards they are with the engine, and no
later call of `prepare`, no submit and no callback takes the GPU away, because
nothing is pending that could land.

**Panel** (`AppProofs`). `PanelRunsApp` carries the theorems about the app and
the engine over. `StatsSafe`: the time, the ticks and the
backend of the panel are of one step, the latest that ran any tick; it rests on
where a step leaves its work (`StepWork`: all ticks in the encoder and the GPU in
charge, or none and the CPU, also in the frame a readback lands). `TimerSafe` needs `MeasuringFollows`, which ties the history
of the latest pass to the timer's state and the phase of the frame. `PauseSafe`
needs `PauseInv`: in pause no click is pending when the panel is drawn, so the
callback of a frame that was not stepped has no ticks; and a pass in the encoder
was counted when it was recorded. `AverageSafe`: a window of any length, with any
times, has an entry at the place of the cut (`SortedHas`), and since the share
is at least a half and there are at least as many CPU times as GPU times, the cut
is no less than some CPU time (`KeptOfWindow`).

**Parser** (`RleProofs`, for words and texts of every length). `ParsesMeaning`
is not inductive: it says nothing of the pen and the count. `ParserInv` adds that
the count is the number before the next character, wrapped, and that the pen is
where the next tag of a plain body starts. The lemmas say what a character adds to
the number, the place and the meaning of a text and that it changes nothing of
what was read before (`NumberAfter`, `PlaceAfter`, `MeaningAfter`); that wrapping
at every digit is wrapping once (`WrappedDigits`); and that on a tag of a plain
body nothing wraps (`PlainTag`). `CharMeans` is the step. TLC checked `ParserInv`
on the instance of `Loading` first.

**Loading** (`LoadingProofs`, for words, texts, grids and squares of every size).
`ParsedMeaning`: `parse` and the format agree on every plain body, also when the
texts come one after another.
`ParsedInBox`: also where counters wrap, no cell is outside the declared box.
`LoadWhole`: from it and the size check, `stamp_centred` drops nothing, whatever
the parities of the sizes, and stamping only adds to what is alive (`StampAdds`).
`generation` has the parity of the pattern's age on the GPU and is 0 on the CPU
(`ParityKept`), so the `clear` on the way blanks the grid on the CPU and after an
even number of generations, and the pattern is then alone. `PresetSafe`: `extent`
gives each of the five tables its true size, so they too are on the grid whole and
centred, and so is the engine's first glider. `StampsAgree`: the
two sides of `stamp` write the same cells. `PaintSafe`: the cell the shader
samples at the pointer's pixel and the cell under the pointer differ by at most
the radius, if the grid is no larger than `2 * Pixels * Radius`. `GliderSafe` and
`PulsarSafe`: at every age, on every torus wide enough, the glider has moved
and the pulsar has its period. They need the phases in between, which the
properties do not name: `GliderOnCourse` and `PulsarOnCourse` say which phase is on
the grid at which age, and a tick is a generation (`GliderTick`, `PulsarCourse`).

How induction is done. The library's induction theorems take a predicate, which
the provers cannot instantiate; a set they can. So the least element of a set of
numbers (`LeastNumber`) and a set of numbers closed under successor
(`AllNumbers`) are proved from the library's well-foundedness of `<`, and the
inductions over texts, windows and positions are about the set of numbers for
which the statement holds. The numbers a text spells are a recursive function;
that it has a solution is proved (`NumberValue`) before it is used.

Only model-checked:

- `SwitchCompletes`, `ReadbackResolves`, `TimerReturns` and `MeasurementShown`:
  liveness under fairness, which TLAPS 1.4.5 does not do.
- `GunFires`: the gun's 30 phases and its gliders are tables too large to expand
  in a proof. It is stated for ages up to twice the edge: on a torus the gliders
  come back, and on a grid of 38 the gun is hit before generation 150.

## 6. Hazards no property covers

`show_grid` drains the pending fields before it is known whether egui will
prepare the callback; egui is outside this repository and the model prepares
each callback once. A timer that maps the sample of a lost frame reads the
buffer's old content and shows it as new: the order of the passes is right
(`OneSampleAtATime`), and nothing in the code tells the contents apart.

## 7. Not modelled

Pipelines and bind group layouts (immutable), `gol_step.wgsl` (loaded by
nothing), the build script and its test, the web entry point, the shader's
triangle and colours, tabs, text and plot layout, the frame-time average, and
the drag flag of the brush (a drag is dabs in successive frames). Cell values
other than 0 and 1 never arise: every writer stores 0 or 1. What is left of the
repository is construction and presentation, without decisions to check.
