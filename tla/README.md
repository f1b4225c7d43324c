# Formal models of qt6-for-zephyr

TLA+ modules, TLC configurations and TLAPS proofs for the code this repository
adds to Qt 6 so that it runs on Zephyr: the Stage 2 glue in
`zephyr-module/src`, and the module synchronisation of `cmake/`. The
`qt*` directories are empty submodules here; qtbase with its qzephyr QPA,
YakoGL, Zephyr and the SoC display drivers are external, and are modelled only
as far as the code here and `docs/qt-yakogl-am62p.md` say how they behave.

    tlc -workers 2 -config DssGlHealthy.cfg DssGl.tla
    tlapm DssGlProofs.tla

## 1. Inventory

### Scan-out display glues (modelled)

One of three files is compiled per board. Each owns `CONFIG_QT_SCANOUT_BUFFERS`
buffers and serves two producers: QPainter, through `qzephyr_display_write`
(copy a flush into a buffer, flip to it), and the GPU, through the
`qzephyr_gl_*` hooks that the QPA's swap chain calls.

| file | state | flips | vsync counter | wait |
|---|---|---|---|---|
| `qzephyr_display_dss.cpp` (AM62P) | `s_plane_on`, `s_raster_next` | one to three driver calls on shadow registers, latched at the next sync when GO is armed | counted by the display | polls every 200 us, gives up after more than 500 polls |
| `qzephyr_display_imx8mp.cpp` | `s_on`, `s_latched`, `s_raster_next` | writes the address, returns when it is latched | successful flips | none |
| `qzephyr_display_rpi4_v3d.cpp` | `s_shown`, `s_period`, `s_edge`, `s_edge_count`, `s_last_sync_ms`, `s_resync_off` | a firmware pan, taking effect at the next edge | predicted from a measured period | sleeps to the predicted edge, no other way out |

Everything here is called from one thread (`ThreadedOpenGL` is false), but that
thread runs against a GPU that finishes frames in its own time and a display
that latches flips in its own time, and every driver call can fail. What makes
the glues correct:

* nobody writes the buffer the panel reads or is about to read, for either
  producer, also across a wrap of the 32-bit counter;
* a frame that was flipped to reaches the panel, the first and the last one
  included; a swap ends whatever the display does;
* failed flips do no lasting harm;
* the predicted counter never goes back, its period does not get worse by being
  corrected, and a wait lasts until its count.

### The rest

| component | files | state and operations | hard behaviour | status |
|---|---|---|---|---|
| frame dumps, debug timer | `qzephyr_display_dss.cpp:229-364, 403-448` | `s_dumping`, `s_idle_dumped`, `s_idle_index`; present on the main thread, `idle_watch` on its own, a timer | check-then-act between threads | `FrameDumps`, `DebugTimer` |
| touch input | `qzephyr_touch_zephyr.cpp`, `qzephyr_dispatcher_glue.cpp` | `g_state`; events from the input thread, synthetic taps, a queue drained by the main thread | two producers, a bounded queue, no window yet, press/release balance | `Touch`, `PointerStream` |
| TLS socket | `qzephyr_tls_socket.cpp` | hostname, tags, handlers; connect and its failures | reuse after failure | `TlsSocket` |
| dependency resolution, sync | `cmake/QtTopLevelHelpers.cmake`, `QtSynchronizeRepo.cmake` | seen list, ordered list, checked-out revisions | fixpoint that must end, cycles, re-runs | `DependencyWalk`, `SyncTo` (partly) |
| heartbeat | `qzephyr_keepalive.c` | previous counters | 32-bit differences | not modelled |
| Zephyr display API glue | `qzephyr_display_zephyr.cpp` | a ready flag | none | not modelled |
| start-up, stubs, font | the other files of `zephyr-module/src` | environment set-up, link anchors | none | not modelled |
| super-build | `CMakeLists.txt`, `ECMOptionalAddSubdirectory.cmake` | the modules of a partial checkout | missing modules | planned |
| init-repository | `cmake/QtIR*.cmake` | selected, initialised, cloned and dirty submodules | interruption and re-run | planned |
| init-repository in Perl, configure, build scripts, host tools, Kconfig, CI | | | one-shot sequential programs and configuration | not modelled |

What makes the modelled ones correct:

* dumps of two threads never share their row buffer; the picture the host
  decodes ends as the last frame; a debug switch that is on has a timer;
* every touch report becomes one event of the window, with presses and releases
  in turn, a finger's at the point the user sees;
* no descriptor is lost in a failed connect, no handshake runs on the stack's
  defaults after an option was refused, no connect has its `encrypted()` lost or
  emitted twice (though that of a failed one comes with a later connection);
* the sync ends, at revisions that depend on the pins only.

`PROJECT.json` lists every component with its files, and every hazard with the
line where it bites and the properties that cover it.

## 2. Modules

    ScanoutContract          what a scan-out display owes its producers
    VsyncCounter             the wrapping counter and its signed comparison
      ScanoutBuffers         the buffers, and the ring over them
        SwapChain            the QPA's swap chain (external)
        DssGlue              show() of the DSS glue and the display under it
          DssGl              = DssGlue + SwapChain      refines ScanoutContract
          DssRaster          = DssGlue + raster flush
        Imx8mpGlue           show() of the LCDIF glue
          Imx8mpGl           = Imx8mpGlue + SwapChain
          Imx8mpRaster       = Imx8mpGlue + raster flush
        Rpi4Glue             show() by pans, a counter that is off by `offset`
          Rpi4Gl, MCRpi4Gl          = Rpi4Glue + SwapChain
          Rpi4Raster, MCRpi4Raster  = Rpi4Glue + raster flush
          GlImage, MCGlImage        Imx8mpGl or Rpi4Gl  refines ScanoutContract
          RasterImage, MCRasterImage  DssRaster, Imx8mpRaster or Rpi4Raster
                                                        refines ScanoutContract
      Rpi4Vsync              calibration, prediction, resync, waits
    DebugTimer               qzephyr_gl_debug_set against its timer
      FrameDumps             = DebugTimer + sample_frame + idle_watch
    PointerStream            what a window is owed by its touch input
      Touch, MCTouch         process_event, tap_thread, queues   refines PointerStream
    TlsSocket                QZephyrTlsSocket over the network
    DependencyWalk           the depth-first walk, call by call
      SyncTo, MCSyncTo       = DependencyWalk + checkouts and clones

Proofs, each over the module it is named after: `DssGlProofs`, `GlImageProofs`,
`RasterImageProofs`, `Rpi4VsyncProofs`, `FrameDumpsProofs`, `TouchProofs`,
`TlsSocketProofs`, `SyncToProofs`.

**ScanoutContract.** `scan`, `queued` and the set `writing`. A producer begins a
write only in a buffer that is none of the three, a flip queues a buffer nobody
writes, a sync turns to the queued one. Its promise, `NoTear`, is proved.

**SwapChain.** `qzephyrwindow.cpp` is not in the repository. The document
(section "Swap chain") and the glue headers give its steps: `wait` for the stamp
of the buffer about to be rendered into, `submit` it (`eglSwapBuffers`), wait for
the previous frame to `complete`, `present` it, stamp the buffer it replaces with
counter + 1, rotate. From the event loop a fence presents the frame of a scene
that stopped. `qshown` is what the QPA believes is on screen: `qzephyr_gl_present`
returns nothing, so a failed flip leaves it wrong. With fewer than three buffers
the current and the pending one would leave none for the panel
(`RingAssumption`); the GL boards are configured with three.

**DssGlue.** `show()` is cut at its driver calls: `call` says which one is next
(`CallAfter` is the order, which depends on `s_plane_on`), and each action makes
one call with its effect on the shadow registers (`shBuf`, `shOn`), on the output
(`out`) and on `go`, which is armed only when the output is on
(`qzephyr_display_dss.cpp:65-72`). `DriverFails` is the error return of any of
them. `Vsync` counts, and latches when `go` is set. `device_is_ready` is constant
after boot; a device that is not ready is refused by `query_caps` before anything
here runs.

**DssGl.** The wait loop is `WaitReached`, `Poll` and `GiveUp`. `PollsPerSync`
says how many polls fit between two syncs of a display that works (about 85),
`GuardPolls` how many the code allows (500); the models need only
`GuardPolls > PollsPerSync`. `Stall` makes the display stop syncing for good.
The guard is a local of the wait: `WaitEnds` forgets it.

**Imx8mpGlue.** `imx8mp_display_set_fb` is cut where it has written the address:
`SetFb`, then `Latched` or `LatchTimeout`. `s_latched` is the counter. The raster
model has the errors the driver returns before it touches the display and not
`LatchTimeout`: a flush after a timeout copies into the buffer the panel is about
to turn to, so `ImplementsContract` would not hold, and the sources here do not
say that the driver times out.

**Rpi4Glue.** Time in ticks, `Period` of them to a refresh. The counter turns
`offset` ticks after (or before) the display's edge; `show()` is cut before its
pan, which the edge may precede or follow.

**GlImage, RasterImage.** What `choice QT_DISPLAY_GLUE` does: an image has one
glue. `board` picks it in `Init`, the actions are those of the modules instanced,
and what the other glues keep is constant, so one specification states each
property once for all boards. Nothing in a raster flush waits for the panel, so
`Flush` of `RasterImage` may come at any time. `Spec` has a caller that flushes at
most once per refresh on the AM62P and the Pi (`PacedFlush`); `FreeNext` has not, and
`FlushWaitsForLatch` says apart from it what such a caller owes. In `GlImage` an
image either has flips that fail (`faults`) or a prediction that is off, not both.

**Rpi4Vsync.** The arithmetic behind that counter, line by line, in cycles.
`SET_VSYNC` returns at an edge of a display with period `TruePeriod`, up to
`Jitter` cycles late, may skip edges while calibrating, and may fail. The 32-bit
counter is `% Wrap`; the times are 64 bits in the code, whose range no run of
the board reaches, and are natural numbers here. `want`, the argument of the
wait, is one or two edges ahead, as the comment at 376 says of its caller.
The conversions between cycles, microseconds
and milliseconds are left out: every quantity is in cycles. A wait returns in
one step (`WaitReturns`); the sleep in pieces inside the loop changes no state.

**DebugTimer, FrameDumps.** `sample_frame` (main thread, inside every present)
and `idle_watch` (a thread of the lowest priority) share `s_dumping`,
`s_idle_dumped`, `s_idle_index` and the two times; each access of `idle_watch` is
a step of its own, its prints one row at a time. The board runs one core, so
`idle_watch` makes a step only while the main thread is blocked (`MainBlocked`),
but may lose the core between any two. On several cores the test of `s_dumping`
and its setting would race on both sides. `picture` is what `fbdump2png.py`
decodes: per row the frame last printed. `debug_dump_expired` runs in the timer
interrupt and may come between the three calls of `qzephyr_gl_debug_set`.
Between the two calls of `Expired` nothing of the program runs.

**Touch.** Events of a report go one by one into Zephyr's input queue (`Put` waits
for a slot: `input_report` with `K_FOREVER`), whose reader is the input thread:
`ProcessEvent` is the whole of `process_event`, `g_state` its state. Two
reporters use the device, a finger through the driver and `tap_thread`, so the
events of two reports interleave. `rotated` is the `#if` at 72: all boards but
the AM62P rotate. `at` is the point the reporter means, carried along for the
properties: a point of the panel for a finger, a point of the screen for a tap.
Before `WindowReady` events are posted with a null target, which
the QPA resolves when it delivers them.

**TlsSocket.** One thread calls; the network answers. `open` and `tls` are the
system's descriptors and their options, `engine` is the descriptor QTcpSocket
owns. `Start` is `setSocketDescriptor`, `QTcpSocket::connectToHost` and the
handler that is connected after it, in this order: a connection made within the
call finds no handler of its own. `handlers` counts the single-shot handlers.
The system may refuse any of the options (`refused`), which stops the connect
(`Accepted`); what a descriptor has of the others, in `tls`, is what a new one has.
`asked` and `named` are the properties' own records of the settings and the names.

**DependencyWalk, SyncTo.** The recursion of
`qt_internal_resolve_module_dependencies` is a stack of `frames`, one per call
under way, with the pin it was asked for and the place of its loop. A module met
before is skipped, whatever revision it is asked for now (`SkipSeen`); a new one
is a call (`Descend`); a call that is through lists its module after what it
needs and returns (`Return`). `dependencies` is the list of all calls together:
the code appends the list of each call to that of its caller, which gives the
same order. The walk reads the `dependencies.yaml` of the worktrees as they are
(`File`). `SyncTo` is the loop: walk, visit the list from its end, acquire what is
missing, check out the first that is elsewhere and walk again. `pins` (what each
commit's file says), `ref` and the worktrees at the start are any; a clone or a
new worktree starts at any commit. A failing git command is fatal (`Stop`) and the
script can be run again. What the outcome is compared with is a walk over the pins
alone: `WalkStart`, `WalkStep` and `Walked` in `SyncTo`, one entry of a file per step, since a
theorem cannot use a recursive operator. `MCSyncTo` has that walk a second time, as
the recursion of the code, and its assumption `StepsAreTheRecursion` has TLC compare
the two for every history of the run.

Left out of the raster paths are the guards that return before any state changes
(empty rectangle, pixel size, no buffer): a flush of the model is one that passes
them.

## 3. What TLC shows

| run | shows | expected |
|---|---|---|
| `DssGlHealthy` | no tearing, refinement of the contract, the last frame reaches the panel; counter wraps every 4 | pass |
| `DssGlFaults` | with failing calls and a display that stops syncing at any step, every swap ends; once calls stop failing on a live display the tearing stops | pass |
| `DssGlFlipFails` | `DisplayHasLeft`, the document's claim, fails after one failed flip | violation |
| `GlImage` | i.MX8MP: no tearing although nothing waits. Pi: no tearing with an exact prediction, buffers handed back at most d early with one early by d. Both: the last frame is shown, swaps end, tearing from failed flips heals | pass |
| `RasterImage` | two buffers do not tear on any of the boards, failing calls included; every successful flip reaches the panel. AM62P and Pi with one flush per refresh, i.MX8MP with any | pass |
| `Rpi4GlLate` | a late prediction hands a buffer back nearly a period early | violation |
| `Rpi4RasterFast` | on the Pi without that pacing a flush copies into the buffer on screen | violation |
| `Rpi4Vsync` | the counter never goes back, corrections do not worsen the period, the median survives skipped edges, waits last until their count | pass |
| `FrameDumps` | dumps exclude each other on one core, the decoded picture is whole and ends as the last frame, a debug switch that is on has its timer | pass |
| `Touch` | refinement of the pointer stream; a finger's events land where it is on boards that rotate and boards that do not, a tap's where it was asked for on boards that do not; every report reaches the window | pass |
| `TlsSocket` | no descriptor is lost, no handshake falls back to the defaults of the stack, `encrypted()` and waiting handlers account for the connects | pass |
| `SyncTo` | the walk lists all that is needed, dependencies first, cycles apart; what is needed ends at a commit that is pinned; the outcome is that of one walk over the pins, so it depends on them only; the sync ends | pass |

The violations are disagreements between the code and what its comments or
`docs/` say; `PROJECT.json` quotes both under "findings".

* *Failed flips* (`DssGlFlipFails`). The QPA is not told, so it takes the buffer
  the panel still reads for a free one. `TearingHeals` (`DssGlFaults`, `GlImage`)
  bounds the damage: once flips stop failing, tearing stops, because every later
  successful flip makes `qshown` true again. A display that has stalled is left
  out of it: it reads the same buffer for ever, and the wait's guard lets the QPA
  render into that buffer. The i.MX8MP comment "Nothing to wait for that show()
  has not already waited for" (`qzephyr_display_imx8mp.cpp:175`) has the same
  gap: a flip that failed was not waited for.
* *Late predictions* (`Rpi4GlLate`). A frame presented between the real edge and
  a predicted edge that is late by d is stamped with a count that comes d after
  the real edge; the pan is latched only a period after that edge.
* *Raster on the Pi* (`Rpi4RasterFast`). `s_shown` is the last pan asked for. The
  AM62P glue has the same need of a caller that flushes at most once per refresh
  (`PacedFlush`); its header does not promise otherwise.

Observations from the four later modules, none of them a run:

* *Frame dumps.* The comment at `qzephyr_display_dss.cpp:411-412` says that the
  dump ends after 3 s; line 437 says 300. A present in the middle of an idle dump
  mixes two frames in the decoded picture; `StaleIsRedumped` shows that it is
  then dumped again.
* *Touch.* The comment at `qzephyr_touch_zephyr.cpp:129-131` gives taps in screen
  pixels. On boards that rotate they land elsewhere: tap_thread reports (x, y) as it
  is, and `process_event` turns it into (y, 719 - x) as it turns a finger's panel
  point. `HitsWhatIsSeen` claims nothing of taps on those boards. While a finger and
  a tap report at the same time an event may combine the x of one with the y of the
  other (`HitsWhatIsSeen` leaves that case out too: the taps are for "when nobody is
  at the panel"), yet presses and releases still alternate. The input thread reads
  the list of windows, which the main thread owns, without a lock.
* *TLS socket.* The name of the first host stays: a second `connectToHost` to
  another host verifies against the first one unless `setTlsHostname` is called.
  (`NoHandshakeByDefault` says no more of the name than that the application has
  given it.) After a failed connect its handler waits on, and the next connection emits
  `encrypted()` for both; a connection made within the call emits it only with
  the next one.
* *Sync.* When two repositories pin different commits of a third, the first met
  in the walk wins, silently. A pin that is a branch or a tag would make the loop
  check it out for ever (line 1340 compares it with a hash). In a super-repository
  a submodule whose initialisation fails is not cloned instead, against the
  comment at `cmake/QtTopLevelHelpers.cmake:1109`: its empty directory satisfies
  the test at 1129.

Two remarks on the prediction, outside what `Rpi4Vsync` is run for. A rejected
resync does recover, against the comment at
`qzephyr_display_rpi4_v3d.cpp:92-93`, when the drift comes round to about a whole
period: the phase error (line 286) is taken modulo the period and resyncs are
retried every 30 s. The number of edges is then misjudged by one, and the period
may be corrected the wrong way: `PeriodNeverWorsens` ends where `Drift` comes that
far, 9/10 of a period in the code. And `BlocksUntilCount` is claimed for
an anchor less than half a counter range of edges old (it fails in the same run
without that condition): after 2^32 edges and no accepted resync, about two years,
the product at line 387 and the counter part company, and waits return at once.

### Bounds

| constant | value | why it is enough |
|---|---|---|
| `NBuf` | 3 for GL (the configured number), 2 for raster (the least that can work) | with fewer buffers a reuse comes sooner; the proofs for `DssGl` have it as a parameter |
| `Half` | 2; 4 in `Rpi4Vsync` | half the counter's range. A stamp is at most one ahead of the counter, so a range of 4 tells reached, next and wrapped apart, and the counter wraps several times |
| `PollsPerSync`, `GuardPolls` | 1 and 3; 1 and 2 with faults | only their order matters; the proofs have them as parameters |
| `Period` | 3 ticks; 4 in `Rpi4GlLate` | a tick before, at and after an edge that is off by one |
| `Offsets` | 0 and -1; 1 in `Rpi4GlLate` | exact, early by d, late by d |
| `MaxNow` | 240 cycles | bounds the clock of `Rpi4Vsync`; a calibration, a first resync and two or three later ones fit, as do a counter that has wrapped past its anchor and a prediction that has drifted by a whole edge |
| `Samples`, `Needed`, `MaxSkips` | 4, 3, 1 | as 17, 8 and a few skipped edges: the middle of the intervals is an unskipped one |
| `EnoughPeriods`, `Tolerance` | 2 (30 in the code), 4 (10 in the code) | resyncs above and below the number of periods, phase errors inside and outside the tolerance |
| `MaxPresents`, `ThumbAt`, `CropAt` | 4; 2 and 4; 2 | a present before, between and after those that print; a buffer is reused while it is dumped |
| `IdleAfter`, `RedumpAfter` | 2 and 3 ticks (3 s and 10 s) | an idle period ends before and after a second dump is allowed |
| `ThumbRows`, `CropRows` | 2 and 1 | a present between two rows, and between thumbnail and crop |
| `MaxCalls` | 2 (`FrameDumps`), 3 (`TlsSocket`) | on and off, on and on; a connect after a failed one and after one that was made |
| `QueueLen`, `MaxReports`, `MaxTaps` | 3, 2, 1 | a queue shorter than a report, so it fills; a finger put down, moved and lifted across a tap |
| `PanelMaxX`, `Points` | 2; two points | points of a panel of 3 by 3, both moved by the rotation and by its inverse |
| `Dep`, `Rev`, `Histories` | 3 repositories of 2 commits; 48 histories | a repository needed at two depths, by two others that disagree, in a cycle, and pinning the one synchronised |
| `MaxStops` | 1 | the worktrees a run starts from are any, those of an interrupted run included |

`Rpi4Vsync` stops at `MaxNow`; in `Touch` and `TlsSocket` the actors may have
nothing more to do, and the script of `SyncTo` ends: these four run with deadlock
checking off, every other run has it on.

### Fairness

* `Render`: the render thread makes its next step when it can. It is one thread
  that nothing outranks for ever; the wait is a loop of busy waits or sleeps.
* `IdlePresent`: the event loop goes on polling the fence.
* `Gpu`: the GPU finishes what it was given. A GPU that hangs is YakoGL's to
  recover.
* `Sync` (`Time` on the Pi): the display syncs while it has not stalled; the
  i.MX8MP refreshes.
* `Rpi!WaitVsync` is strongly fair in `GlImage`: the predicted count passes the stamp for
  half the counter's range, and the wait looks each time it wakes, at most 100 ms
  apart. In a model whose range is 4 the count can come round, so weak fairness
  would let the thread oversleep 2^31 edges.
* `FrameDumps`: the main thread finishes a dump or a call it has begun, the
  dumping thread runs while the main thread is blocked, time passes. Weak
  fairness of `IdleWatch` is enough because presents are bounded: a main thread
  that never blocks starves the lowest priority.
* `Touch`: a reporter that is in the middle of a report goes on, the input thread
  and the main thread serve their queues, a tap is released, the application gets
  its window. No finger has to touch or lift.
* `SyncTo`: the script runs on. Nobody has to run it again.

Nothing makes the application swap, and nothing makes a driver call fail.

`HandedBackAtMostDEarly` starts with the first present (`qshown # NoBuf`): before
it the panel shows the cleared buffer 0, into which the first frame is drawn in
full view. That is the start-up of the code, not a reuse. The refinement in
`GlImage` says the same with `FirmwarePicture`: until the first pan the panel
counts as dark, and that pan is the contract's `PowerUp`.

## 4. What is proved

Modules `*Proofs`, for every value of the constants the assumptions admit. Every
invariant the passing runs check is a theorem, and so is every action property and
every refinement; what remains for TLC alone is liveness.

| module | theorem | statement |
|---|---|---|
| `DssGlProofs` | `TypeCorrect`, `NoTearing` | `HealthySpec => []TypeOK`, `HealthySpec => []NoTear` |
| | `ContractImplemented` | `HealthySpec => ImplementsContract` |
| | `ContractNoTear` | the scan-out contract implies `[]NoTear`, for any set of buffers |
| | `BeliefNeverTorn` | with faults: `Spec => [](TypeOK /\ qshown \notin rendering ...)` |
| | `AgreementIsSafe`, `OnlyFaultsDisagree` | with faults: `[](Agrees => NoTear)`; `Agrees` ends only with a failed call or a stall |
| | `GoodFlipCommits`, `AgreementRegained` | with faults: what a successful flip leaves, and when `Agrees` holds again |
| `GlImageProofs` | `TypeCorrect` | `Spec => []TypeOK` |
| | `HandedBackEarly` | `Spec => []HandedBackAtMostDEarly`, if no prediction is late |
| | `ContractImplemented` | `Spec => ImplementsContract` |
| | `NeverTears` | `Spec => [](Claimed /\ ~FirmwarePicture => NoTear)` |
| | `BeliefNeverTorn` | failed flips and late predictions included: `Spec => [](qshown \notin rendering ...)` |
| `RasterImageProofs` | `TypeCorrect`, `StaysOneBehind`, `ShownStaysScanned` | `Spec => []TypeOK`, `[]OneBehind` (AM62P and i.MX8MP), `[]ShownIsScanned` (Pi) |
| | `ContractImplemented` | `Spec => ImplementsContract`, with two buffers or more |
| | `NeverTears` | `Init /\ [][FreeNext]_vars /\ [][FlushWaitsForLatch]_vars =>` no copy into a buffer read or queued, with two buffers or more |
| `Rpi4VsyncProofs` | `TypeCorrect` | `Spec => []TypeOK` |
| | `CounterMonotone` | `Spec => CounterNeverGoesBack` |
| | `CalibrationExact` | `Spec => CalibratedPeriod`, if fewer than half of the needed intervals have an edge skipped in them |
| | `PeriodStaysExact` | `Spec => PeriodNeverWorsens` |
| | `WaitsForCount` | `Spec => BlocksUntilCount` |
| | `ComparisonIsRight` | `Reached(a % Wrap, b % Wrap) <=> a >= b`, for numbers less than half a range apart |
| | `CounterTracksDisplay` | how far the counter is ahead of or behind the display's edges, from the error of the period |
| `FrameDumpsProofs` | `TypeCorrect`, `OneDump`, `Redumped`, `DumpBounded` | `Spec => []TypeOK`, `[]OneDumpAtATime`, `[]StaleIsRedumped`, `[]DumpIsBounded` |
| `TouchProofs` | `TypeCorrect`, `HitsTheTarget` | `Spec => []TypeOK`, `[]HitsWhatIsSeen` |
| | `PointerStreamDelivered` | `Spec => DeliversPointerStream` |
| `TlsSocketProofs` | `TypeCorrect`, `DescriptorsOwned`, `NoDefaultHandshake`, `EncryptedAccounted` | `Spec => []TypeOK`, `[]NoDescriptorLeaks`, `[]NoHandshakeByDefault`, `[]EncryptedPerConnect` |
| `SyncToProofs` | `TypeCorrect`, `WalkOrdered`, `FinishedAsPinned` | `Spec => []TypeOK`, `[]DependenciesFirst`, `[]SyncedAsPinned` |
| | `OutcomeIsCanonical`, `OneOutcome` | `Spec => []SyncedSetIsCanonical`; a walk over given files ends with one list only |
| | `WorktreesMovedAsPinned` | `Spec => [][MovedAsPinned]_vars` |

### Assumptions

* Buffers: at least one (`NBufAssumption`); at least three under the swap chain
  (`RingAssumption`) and for the dumps (`BufferAssumption`), as the GL boards have.
* Counters: `Half >= 1` (`HalfAssumption`), 2^31 in the code; at least 2 for the
  prediction.
* `PollsAssumption`: `GuardPolls > PollsPerSync >= 1`, so that a live display syncs
  before the guard of the wait runs out (500 polls of 200 us against 17 ms).
* `PeriodAssumption`, `VsyncAssumption`: periods are positive, the jitter is less
  than one, the tolerance is at least 2 (10 in the code).
* `RowAssumption`, `TimeAssumption`, `PresentAssumption`, `CallAssumption`,
  `BoundAssumption`, `StopAssumption`: sizes, delays and bounds are natural numbers.
* `PointAssumption`: points are pairs of integers. `NameAssumption`,
  `FdAssumption`: the empty name is no host, the absent descriptor no descriptor.
* `RevisionAssumption`, `HistoryAssumption`: HEAD and an absent worktree are no
  commits, and a `dependencies.yaml` says any sequence of pins.

A few theorems have a hypothesis of their own. `ContractImplemented` and `NeverTears`
of `RasterImageProofs` take two buffers, because a flush into the only buffer writes
what the panel reads (Kconfig allows 1: single buffering). Both are about a
caller that, on the AM62P and the Pi, begins no flush while a flip waits for its
latch. No code here sees to that: `ContractImplemented` has it in `Spec`, `NeverTears`
as a hypothesis of its own, and `Rpi4RasterFast` shows what happens on the Pi without.
`HandedBackEarly` takes predictions that are not late, since late ones break it:
`Rpi4GlLate` is that counterexample.
`CalibrationExact` takes `MaxSkips < Needed - Needed \div 2`: with more skipped
edges the middle interval is one of them, and the calibration is wrong as it would
be in the code (8 needed: up to 3 skipped of the least number that is accepted).

### Arguments

**DssGl.** `NoTear` is not inductive: that the GPU is not writing what the panel
reads depends on the stamp of the buffer the panel is leaving. `IndInv` adds

* `Ring`: shown, pending and current are consecutive buffers of the ring, so with
  three or more they differ;
* `Place`: what `pc`, `swapping`, `pending` and `call` say of each other;
* `Writes`: the GPU writes at most the pending and the current buffer, and the
  current one only late in a swap;
* `Registers`: the shadow registers name the pending buffer once `show()` has
  told the display, and the shown one before; the panel reads that buffer or a
  latch is due;
* `Leaving`: a buffer the panel still reads although it was flipped away will be
  left at the next sync, and its stamp is exactly the count of that sync;
* `Elsewhere`: past the wait the panel is not on the current buffer, and while
  the wait is for the buffer the panel reads, its polls are at most the polls
  since the last sync, which is why the guard cannot run out first.

`Leaving` and `Elsewhere` carry the argument: the wait ends when the counter
reaches the stamp, the counter moves only with syncs, and the first sync after
the flip takes the panel away. The counter can wrap: the stamp is never more than
one ahead, and `Reached` of the successor is false for any range of two or more.
`ContractImplemented` uses the same invariant to map each step: `Submit` to
`BeginWrite`, `GpuDone` to `EndWrite`, the driver call that commits with the plane
on to `Flip`, a sync that latches to `Sync`. (`PowerUp` is the i.MX8MP's first
show, which puts its buffer on the panel at once, and the Pi's first pan.)
`ContractNoTear` is about variables of its own, so it holds of every refinement of
the contract: with it, each `ContractImplemented` says that its board does not tear,
which `NeverTears` of `GlImageProofs` and `RasterImageProofs` spell out.

Under faults (`Spec`: any driver call may fail, the display may stop at any step)
`NoTear` is false, and `IndInv` is taken apart. `Books` (types, `Ring`, `Track`,
`Writes`) is the QPA's own bookkeeping; no fault touches it (`BooksInvariance`), so
the GPU never writes what the QPA *believes* is on screen. `Agrees` (`Registers`,
`Leaving`, `Elsewhere`, no fault standing) says that the belief is right; `NoTear`
follows from the two. `Agrees` is kept by every step but a failing call and a stall,
from wherever it holds, since `StepInv` starts from any state of `IndInv`. `Panel`,
which faults do not touch either, orders the driver calls of a cold display, and
shows that a flip which succeeds commits the display to what the QPA then believes;
once the panel reads it, `Agrees` holds again. That these things eventually happen is
`TearingHeals`, which is checked.

**GlImage.** What the swap chain keeps by itself (`Ring`, `Place`, `Writes`) is
proved once, for steps of either board, flips failing or not. On the i.MX8MP
`ImxShown` says that outside `show()` the panel reads the buffer the QPA believes
in, which is what stands in for the wait that is empty. On the Pi, with no flip
failing and no late prediction, `RpiShown` relates `s_shown` to the panel and the
QPA, and `Leaving` and `Elsewhere` are those of `DssGl` in the time of a
prediction: a buffer the panel still reads has a stamp the counter has not reached,
or the counter has turned ahead of the edge and the edge is `Near`, no further away
than the prediction is early. A tick is the step of weight: counter and edge turn at
different ticks of a period, and both remainders have to be followed.

**RasterImage.** One invariant per board: a flush copies only while no flip is
waiting; the last flip accepted is what the panel reads or turns to next; and the
target of the next flush is the buffer after it, which with two buffers is another.
A driver error anywhere leaves the first two true and the target where it was. On the
AM62P and the Pi the first of them is what the caller's pacing gives, on the i.MX8MP
what `show()` does by returning after the latch.

**Rpi4Vsync.** `TypeOK` is inductive; its weight is in a resync, where the new
period must be positive (`CorrectedPeriodPositive`: the correction is less than
the period) and the anchor not in the future. `CounterMonotone` has one
hard case, an accepted resync: with `SET_VSYNC` back after the predicted edge
`before`, the rounded k is at least -1 (`ResyncNumbers`), so the counter at the
new anchor is `before` or later (`ResyncMonotone`), and it moves by at most one
per cycle otherwise (`TickMonotone`).

`CalibrationExact` rests on `MedianExists` (the middle of the sorted intervals is
one of them, by the least number with enough intervals at or below it),
`Calibrating` (an interval is a period or more, up to the jitter of its ends, and at
most `MaxSkips` are of more than one period) and `MedianExact`, which counts: too
few are long for the middle one to be. `PeriodStaysExact`: `Anchored` says that the
anchor is at an edge of the display until resyncing is given up; `JudgedRight`, that
the number of edges the rounding gives is then the true one, because the error to
any other is more than the tolerance lets through; `CorrectionExact`, that the
truncated quotient misses by at most the jitter over that number of edges, rounded
up. `WaitsForCount`: `DueIsReached`, the multiplication at line 387 agrees with the
division in `vsync_now()`. `CounterTracksDisplay` measures the distance between the
periods counted and the edges made since the anchor: the error of the period, once
per period, and the rounding of the two divisions. With an exact period the counter
is right or one behind. `ComparisonIsRight` holds for every glue, since they share the
comparison: the remainders of two numbers differ by what the numbers do, up to whole
turns (`ModDiff`), and within half a range the sign tells.

**FrameDumps.** `OneDumpAtATime` becomes inductive with `DumpingSaysSo`:
`s_dumping` is set exactly while one of the threads is inside a dump.
`DumpIsBounded` needs `SettingOff`: a call that turns the dump off has turned off
what it has come past, whether or not the timer expires in between. For
`StaleIsRedumped`, `PictureInv`: `s_idle_index` is the buffer of the last present, a
buffer holds the last frame rendered into it, and with three buffers or more the GPU
is not yet back in the one presented last; while `s_idle_dumped` is set nothing has
been presented since the dump began, so every row it has come past shows that frame.

**Touch.** `TypeInv` counts: reports made are those with their sync in the queue,
those posted and those delivered, so none is lost. `StreamInv`: every event
posted follows the button of the one before it, the last of them is what
`g_state.sent_press` remembers, and so each `Drain` is a step of the pointer stream.
`AimInv` looks along the queue and what the reporter has yet to put into it: with one
reporter at work that is one sequence, in which a Y follows the X of its point and
the button the Y, so that `g_state` holds the point when the event is posted (`Unmixed`).
Turned back, a finger's event is then at the panel point of the finger on any board;
a tap's is at the point asked for where nothing is turned.

**TlsSocket.** `IndInv` is the three properties together with the types, `Owned` (a
connection has a descriptor) and `NameGiven` (the name remembered is one the
application has given). The step of weight is `Start`, where the new descriptor takes
the place of the old one before the connection begins: `AcceptedAsSet` has its options
all as set, since none that was called for was refused and one that was not called for
is as it is on a new descriptor; `NameOfConnect` has the name never empty.

**SyncTo.** Depth-first search, step by step, for any set of repositories.
`Found` is what holds of a walk under way: seen are the modules listed and those of
the calls (`Met`), none twice (`Once`); a call is for something the calls below it
need (`Chain`); everything a file says up to the place of its call has been seen
(`Explored`); and what a listed module needs is listed before it or needs it in
turn (`Ordered`). When the first call returns, what is listed is closed under
`Needs`, so it is `Needed` (`NeededIsLeast`). `AskedFor` has each pin in a file of a
module seen, `Settled` what the loop has come past at its pin; at the end nothing
was checked out since the walk, so the files that ask are those checked out now.

`OutcomeIsCanonical` compares two walks, the one of the script, whose files may
change under it between two walks, and the one over the pins. `Retraced`: the list and
the frames of the walk under way are those of `Steps` over the files as they are
(`Now`), one step of the script being one `WalkStep`. When the script is finished the
files of what was walked are those of the commits pinned, and a walk reads no other
files (`WalkStepReads`, `WalksAgree`), so the same number of steps over the pins ends
with the same list. `Walked` is a recursive function, defined by induction on the
number of steps (`WalkedSteps`); that no walk goes on past its end makes the outcome
one (`OneOutcome`). `WorktreesMovedAsPinned` needs `StillAskedFor`: the list a loop
goes by was made before the latest clones, and what it says is needed still is, since
a clone only adds files (`NeededGrows`) and a checkout ends the loop.

### Only model-checked

* All liveness: fairness and `ENABLED` are out of reach of the installed provers.
  `SwapEnds`, `TearingHeals`, `LastFrameReachesPanel`, `FlushedFrameReachesPanel`,
  `LastFrameIsDumped`, `ReportsAreDelivered` and `SyncEnds` are checked by TLC.
* That the stepwise walk of `SyncedSetIsCanonical` is the recursion of the code
  (`StepsAreTheRecursion`): an induction over what a recursive operator computes.
  TLC evaluates it for every history and starting commit of the run.
* That tearing does stop after the last failed flip (`TearingHeals`): proved are the
  steps of it, in `DssGlProofs`.

## 5. Not modelled

* `embedded_font.c` is 29121 of the 31257 lines of C and C++ here: a font as a
  byte array, generated. The models cover the program that remains.
* `qzephyr_display_zephyr.cpp`: one blocking `display_write` per flush behind a
  ready flag that is set once; no state outlives a call.
* `qzephyr_keepalive.c` prints differences of counters; only the next beat reads
  what it keeps. The 32-bit difference of a phase of the GPU may wrap within a beat.
* `qzephyr_main_wrap.c`, the stubs, shims and plug-in imports: straight-line code
  before Qt starts, or none.
* `qsb2glsl`, the harvesting and build scripts, Kconfig, configure and the CI
  files: sequential conversions and configuration.
* A window destroyed while events for it are queued: the event queue is in
  qtbase.
* Of the module synchronisation: the module `.`, shallow fetches, optional and
  skipped modules, the `.gitmodules` variant of the walk.
* Raster flushes and GL presents in one image: the applications here use one.
* A latch timeout under the raster path of the i.MX8MP (see Imx8mpGlue).
* init-repository and the super-build: next.

## 6. Plan

1. `ModuleSubset` and `InitRepository`: subset selection against its reference
   definition; clone, update, remove and branch with interruption and re-run.
2. `Superbuild`: the modules a partial checkout configures, over `DependencyWalk`.
3. Proofs: that a synchronisation which has to check out nothing leaves every
   worktree alone; when `GlImage` agrees with its panel again after a failed flip, as
   for `DssGl`.
