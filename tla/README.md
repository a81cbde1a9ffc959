# Formal models of the nowplus HALs

This directory holds TLA+ models of the hardware abstraction layers (HALs) of the
Samsung i8320 "nowplus" Android device, the TLC configurations that check them, and
TLAPS proofs. Sources are quoted by path below `src/hardware/`.

| module | what it models | checked by | proved in |
|---|---|---|---|
| `AudioHardware` | libaudio: streams, calls, mutexes, references, radio | `MCAudioHardware`, `audio_*.cfg` | `AudioHardwareProofs`, `AudioResourceProofs` |
| `Overlay` | liboverlay: two processes, the object they share, the V4L2 device | `MCOverlay`, `overlay*.cfg` | `OverlayProofs` |
| `StreamSwitch` | what an overlay promises (abstract) | property of `overlay` | `OverlayProofs` |
| `CameraHal` | libcamera: the preview thread, its queues, the frames and who has them | `MCCameraHal`, `camera.cfg` | `CameraHalProofs` |
| `AutoFocus` | libcamera: the detached focus and cancel threads | `MCAutoFocus`, `autofocus.cfg` | `AutoFocusProofs` |
| `EventRing` | libsensors: the ring between `read()` and a sensor (pure operators) | through `SensorsPoll` | `EventRingProofs` |
| `SensorsPoll` | libsensors: `pollEvents()` and `activate()` over the drivers and their rings | `MCSensors`, `sensors*.cfg` | `SensorsPollProofs` |
| `SensorStream` | what the poll loop promises (abstract) | property of `sensors` | `SensorsPollProofs` |
| `RilTrigger` | libh1-ril: the wrapper's requests, completions and its one trigger | `MCRilTrigger`, `ril.cfg` | `RilTriggerProofs` |

`PROJECT.json` lists the components, runs, the mutant of each property, the source lines
of each definition, the findings, the hazards and the theorems.

To check: `tlc -workers 2 -config overlay.cfg MCOverlay.tla`, and likewise for the
others; `tlapm OverlayProofs.tla`, and likewise. The longest run takes three minutes
with two workers, the longest proof about five.

Each model has the same form. A thread has a place, `pc[t]`; a step goes from one point
where another thread can matter to the next: a mutex, a blocking call, a callback, or
a shared field read or written without a lock. Where a call reads something and acts on
it later without a lock, these are two steps. Client behaviour that the code relies on,
and does not enforce, is a guard with a name; a constant, `Races`, opens it.

## 1. Inventory

Every HAL is a shared library that an Android service loads and calls from several
threads. They do not call each other, except the camera, which feeds the overlay.

### libaudio (`libaudio`)

*State.* `AudioHardware`: `mMode`, `mInCallAudioMode`, the output and the inputs, the
shared PCM and mixer with their open counts, the FM radio's descriptor and
`mFmResumeAfterCall`, under `mLock`. Each `AudioStreamOutALSA` and
`AudioStreamInALSA`: `mStandby`, `mStandbyCnt`, its handles, under its own `mLock`,
and `mSleepReq`.
*Operations.* open/close stream, `setMode`, `write`, `read`, `standby`,
`setParameters` (routing, input source, FM on/off), destructors.
*Interaction.* AudioFlinger has one playback or record thread per stream and calls
`setMode` and open/close from binder threads. The mixer threads, mode changes and the
radio share the two counted devices.
*Hard.* `setMode`, `write` and `read` must silence a stream whose mutex comes before
`mLock` in the lock order: they release `mLock`, take the stream's, take `mLock` again
and recheck. Streams are reference counted and a destructor takes both mutexes. Opens
may fail half way. The FM calls take no mutex.
*Correct when* the lock order is kept, the rechecks settle on an active stream, counts
match holders, data threads use open handles, wake locks follow activity, a call keeps
its path, and every call returns.

`alsa_pcm.c`/`alsa_mixer.c` wrap the kernel's devices; `DownSampler` and
`ChannelMixer` convert captured frames; `AudioPolicyManager.cpp` only instantiates the
platform's policy; `amix`, `aplay`, `arec` are tools.

### liboverlay (`liboverlay/TIOverlay.cpp`)

*State.* `overlay_object`, in ashmem shared by two processes: `refCnt`, a
process-shared mutex, `controlReady`, `dataReady`, `streamEn`, `qd_buf_count`, staged
and committed attributes.
*Operations.* control side: create, setPosition, setParameter, stage, commit,
destroy; data side: initialize, resizeInput, setCrop, queueBuffer, dequeueBuffer, close.
*Interaction.* SurfaceFlinger is the control side; the media server, with the camera HAL
or the video decoder, is the data side. Both have the same V4L2 device open.
*Hard.* each flag is written by one side and read by the other, sometimes outside the
mutex; each side stops the other's stream to change an attribute and writes back what
it has read; either side may leave first; device calls fail half way.
*Correct when* the count matches the driver's queue, nobody blocks in the driver with the
mutex held, the mutex is released, and destroyed by the last side only, no side undoes
what the other has set, and the stream is on only for a source that has frames there.

### libcamera (`libcamera/CameraHal.cpp`)

*State.* the preview thread's command and answer pipes, `mPreviewRunning`, who holds
each preview buffer (driver, overlay, encoder) in flags and counters, `mAutoFocusRunning`
and `mAutoFocusUsed`, recording flags.
*Operations.* start/stop preview, `nextPreview`, autofocus and its cancel (threads of
their own), take picture, start/stop recording, releaseRecordingFrame, setOverlay,
destructor.
*Interaction.* the camera service's binder thread asks, the preview thread answers; the
encoder returns frames on a thread of its own; SurfaceFlinger may stop the overlay's
stream under the preview.
*Hard.* a buffer may be in two queues at once, counts are repaired after errors, all
callers share the answers, a release comes late after a restart, the focus polls sleep.
*Correct when* a frame the encoder reads is in nobody else's queue to be written, flags
follow the queues, each command that is waited for is answered once and always, and
autofocus reports one result and does not stay busy.

JPEG, EXIF, colour conversion and scaling are pure functions of images.

### libsensors (`libsensors`)

*State.* a ring of input events per driver, enabled flags, pending events and flags, poll
descriptors, a wake pipe.
*Operations.* `pollEvents`, `activate`, `setDelay`; `fill`, `readEvent`, `next`.
*Interaction.* the sensor service polls on one thread and activates on others; no lock.
*Hard.* wrap-around, leftovers between polls, activation racing a blocked poll.
*Correct when* the ring is a queue, every report reaches the caller once and in order, and
the caller comes to know the value a sensor settles at.

### libh1-ril (`libh1-ril`)

*State.* one completion trigger (token, action), the wrapped RIL's callbacks.
*Operations.* `onRequest` on libril's thread, `RIL_onRequestComplete` on libsec-ril's.
*Hard.* the trigger is shared without a mutex, and its action talks to the modem.
*Correct when* a request is answered once, and the 3G fix follows the completion of every
power-on request whose trigger is still there.

### liblights (`liblights/lights.c`)

*State.* the LEDs' sysfs files, `g_lock`. *Operations.* set backlight, buttons,
notifications, attention. *Hard.* two clients of one LED; descriptors.

### Not components of a model

`gps/gps.c` is not built; libril, libsecril, libgps and the vendor files are binaries;
`*-r3d4`, `*-m100s`, `*-iuss`, `*--old` and `*~` are older copies that are not built;
init scripts, key maps, overlays and makefiles are declarative. Section 11 says of each
part that is left out why it is.

The hazards of all of these, with their lines and the properties that would notice, are in
`PROJECT.json`.

## 2. Plan

Done, in this order: AudioHardware; Overlay with StreamSwitch; CameraHal; AutoFocus;
EventRing and SensorsPoll with SensorStream; RilTrigger; and the proofs of section 10.

To come:

1. *Weaker hypotheses.* `CountsAgree` for a radio that is used outside calls only (for the
   radio as it is it fails, finding 2); `CallPathKept` for radio calls that do not overlap a
   mode change, rather than for one control thread; `WakeLocksHeld` for outputs that are
   destroyed before the next is opened.
2. *SharedDevice*, an abstract counted device (a set of holders; open exactly while it is
   not empty) that AudioHardware implements when opens succeed: `CountInv` is what its proof
   needs; a finer radio whose unlocked `mPcmOpenCnt++` is a read and a write.
3. *Lights*, and the arithmetic of `DownSampler` and `ChannelMixer` as functions.
4. *Video telephony* in CameraHal, whose frames are copied and never lent.

## 3. AudioHardware

### State and code

| module | code (`libaudio/AudioHardware.cpp`, `.h`) |
|---|---|
| `mMode`, `mInCallAudioMode`, `mOutput`, `mInputs` | fields of the same name |
| `hw` | `mPcm`, `mPcmOpenCnt`, `mMixer`, `mMixerOpenCnt`; `unmatched` once a close has logged a count of zero |
| `path` | what `setOutputRoute()` last selected, `"off"` after "Amp Enable" OFF |
| `fm` | `mFmFd` (open or not), `mFmResumeAfterCall` |
| `stream[s]` | `mStandby`, `mStandbyCnt`, `mPcm`, `mMixer` of a stream |
| `mLock`, `sLock[s]` | owners of the hardware's and the streams' mutexes |
| `mSleepReq[s]`, `wakeLocks` | the flag; the kernel's wake locks |
| `pc[t]`, `side[t]`, `sp[t]`, `cnt[t]`, `arg[t]` | thread `t`'s place in its call, its `spOut`/`spIn`, the count from `prepareLock()`, the mode asked for |
| `calls`, `fmCalls` | bounds on the number of calls, no state of the code |

A thread is a control thread (`Controls`: mode changes, open, close, radio) or the data
thread of a stream, which has the stream's name. A step runs from one point where another
thread can matter to the next: taking or releasing a mutex, or a transfer. Everything
under `mLock` up to its release is one step, with all the calls it makes.

The common loop of `setMode()`, `write()` and `read()` is a chain of steps: `ChaseNone`
(nothing to silence), `ChasePrepare` (`prepareLock()`, release `mLock`; `read()` releases
its own mutex too), `LockStream`, `RelockSelf` (`read()` only), then `RecheckFound` or
`RecheckLost`. `setMode()` runs it for the output, then the input (`EndLoop`), then
`CallStarts`, `CallEnds` or `ModeOnly`; `write()` and `read()` end in `OpenPath`, then
`Transfer`. An error falls into `standby()`: `LockSelf`, `StandbyHw`. A reference that
goes out of scope is `Drop`; the last one runs `DtorLock`, `DtorHw`. The overwritten
reference of a failed recheck goes from `RecheckLost` to `DtorLock` with `mLock` held, as
in the code, and there the thread waits for itself.

### Abstractions

Samples, volumes, device and route names, sample rates, mic mute and `dump()` are left
out. `mSleepReq` only makes a thread sleep 10 ms: timing, kept as a flag. `setInputRoute()`
does nothing where it gets `mInputSource`, which it compares with itself. A
`setParameters()` call that carries the input source and a route is two calls. `pcm_write()`
and `pcm_read()` may fail at any time. `AudioHardwareBase::setMode()` (outside the
repository) sets `mMode`; a mode it refuses is a `ModeOnly` step. The helpers that the
FM calls use without a mutex are one step each.

Clients are outside the HAL and are modelled from how the code depends on them:

- a stream's calls come from one thread, and it is closed when that thread is idle;
- `RacyClient`: may it be closed while *other* threads' calls are under way;
- one input is recording at a time (`OnlyRecorder`; the comment at line 950 relies on
  it, nothing enforces it);
- one radio application turns the radio on, then off, in turn, with an output open
  (`enableFMRadio()` dereferences `mOutput`).

Deadlock is checked where the runs allow it: a state in which a thread is inside a call
must have a step (`ClientsDone` is enabled only when all are idle). `audio_faults`, with
`RacyClient = TRUE`, switches it off, as the destructor's self-deadlock (finding 1, section 9) is
reachable.

### Fairness

`FairSpec` has weak fairness of `Step(t)` for each thread: a thread inside the HAL that
can run, runs. The scheduler and the mutexes give that. Starting a call is never fair.
Weak fairness does not promise a mutex to a thread that finds it taken again each time it
looks; `CallsReturn` holds nevertheless in the bounded instance, as calls are finite in
number. It says that the recheck loops are no livelock by themselves, not that a mutex
is fair against clients that never stop.

### Properties and runs

| run | instance | shows |
|---|---|---|
| `audio_streams` | 1 output, 1 input, 2 interchangeable control threads (`SYMMETRY`); 2 calls per data thread, 1 per control thread; opens succeed; closes not racy | `TypeOK`, `LockOrder`, `CountsMatch`, `TransferOnOpenHandle`, `CallPathKept`, no deadlock; 1.0 million states |
| `audio_faults` | 2 inputs, 1 control thread with 2 calls; opens may fail, closes race | `ClaimedActive`, `PeerRegistered`, `SleepRequested`, `WakeLockHeld`; 1.3 million states |
| `audio_radio` | `FairSpec`, 1 control thread with 2 mode changes, radio on and off; opens succeed | `FmNotForgotten`, `FmDelayed`, `CallsReturn`, no deadlock; 83 thousand states |
| `audio_close_race` | closes race | `LockOrder` violated (finding 1) |
| `audio_fm_in_call` | radio and calls | `NoCloseTooMany` violated (finding 2) |

*Bounds.* The loops have at most three parties: a mode change, playback and capture. Two
control threads give a call that starts and one that ends, or a mode change and a
close, inside one recheck; two calls of a data thread let it leave standby, be put back
and leave it again, which is what `mStandbyCnt` is there to notice. Two inputs let one be
opened while the other is being destroyed. The control threads are symmetric: they
differ in nothing but their name, and the properties of that run are safety properties.

*Where the properties stop.* Outside these instances TLC shows that some do not hold:

- `CountsMatch` and `TransferOnOpenHandle` fail when opens fail, and so does `NoCloseTooMany`: `setMode()`
  drops the answers of its opens (302-303) and closes at the end of the call what it never
  opened (316-317), which takes a stream's reference, and the stream writes on a closed PCM
  after 29 steps; `setParameters(input source)` closes a mixer that it could not open
  (1718-1720), five steps from the start;
- `LockOrder` fails when closes race (finding 1);
- `WakeLockHeld` fails with two output objects alive: the late destructor of a closed,
  active output releases `AudioOutLock` under the new one;
- `FmDelayed`, `CallPathKept` and `FmNotForgotten` assume that radio calls and mode changes
  do not overlap: `enableFMRadio()` reads `mMode` (667) with no mutex, and selects its path or
  sets `mFmResumeAfterCall` in a later step. With two control threads a call that ends in
  between forgets the radio.

## 4. Overlay

### State and code (`liboverlay/TIOverlay.cpp`, `.h`)

| module | code |
|---|---|
| `obj` | `overlay_object`: `refCnt`, `controlReady`, `dataReady`, `streamEn`, `qd_buf_count`, `num_buffers`, `optimalQBufCnt`, `attributes_changed`, the size, `mappedbufcount`; `alive` is the marker, TRUE until the mutex is destroyed |
| `data`, `stage` | `mCtl` with `mData`'s crop window, and `mCtlStage` |
| `lock` | who has the process-shared mutex |
| `drv` | the V4L2 device: streaming, the queued buffers, its position, rotation and crop |
| `slot`, `ctx` | the control context's `mOmapOverlays` entry; the data side: without a handle, offered one, attaching, attached |
| `pc`, `arg`, `saved` | a thread's place in its call, its argument, the attributes it has read back from the device |
| `overtaken` | history: a same-size resize has overlapped another thread's step on the stream |

`Ctl` is SurfaceFlinger's thread; `Users` are the threads of the data side's process, which
share a data context. A call takes the mutex in one step (`Acquire`), works in one or two
(`...Begin`, `...Set`: it stops the stream and reads back, then sets everything up again),
and releases it in the last. `dequeueBuffer()` is `DequeueRefused`, or `DequeuePoll` and
then `Dequeued` or `DequeueFails`: `poll()` and `VIDIOC_DQBUF` are two calls, and the second
blocks. `queueBuffer()` is `Queued`, then `EnableStreaming` when the stream was off.

`resizeInput()` with the size it has takes no mutex (1735-1743): it clears `dataReady` and calls
`disable_streaming_locked()` all the same. Its five accesses are five steps (`ResizeSame`,
`SameTest`, `SameOff`, `SameEn`, `SameCount`), and every other thread runs between them. What the
code promises about the stream does not survive that, so `Watch` notes in `overtaken` when such a
resize overlaps a step on the stream of another thread (one that holds the mutex while the resize
steps, or that steps while the resize has seen the stream on and has not finished stopping it).
Three properties end there, each with its counterexample:

| an overtaken resize breaks | how |
|---|---|
| `CountMatchesDriver` | it clears `dataReady` between a `queueBuffer()` and its `enable_streaming_locked()`: the buffer stays queued with the stream off. Or it clears the count after the next buffer has been queued; the next dequeue then makes it -1 |
| `ReallocateQuiet` | another `queueBuffer()` starts the stream between `VIDIOC_STREAMOFF` and `streamEn = 0`: the object says off, the device is on, and no later stop turns it off |
| `ImplementsSwitch` | a client that closes after the first case leaves its buffer with the display |

The others hold whatever it overlaps: in particular it takes no buffer away, so a thread that has
polled finds its buffer or a stopped stream.

`Faults` names the device calls that may fail: starting and stopping the stream, queueing,
dequeueing, setting attributes, requesting buffers. `Races` opens two more windows in which
the code works without the mutex:

| window | code | what is let in | breaks |
|---|---|---|---|
| `commit` | 1366 to 1374 | any thread, between `commit()`'s two unlocks | `DqNeverBlocks` (finding 3) |
| `attach` | 277 to 281 | `destroyOverlay()`, between the marker's test and `refCnt++` | `MutexOutlivesUse` |

With the windows shut and no resize overtaken, what failures break is, on the instance with one user:

| call that may fail | breaks | because |
|---|---|---|
| `on` | `CountMatchesDriver`, `ImplementsSwitch` | `queueBuffer()` ignores that streaming has not started; no later stop gives the buffers back |
| `off` | `AttributesApplied`, `ImplementsSwitch` | `commit()` has copied the stage already; `data_close()` ignores the failure |
| `set` | `AttributesApplied` | the refused attributes count as set |
| `req` | nothing | |
| `q`, `dq` | nothing | |

### StreamSwitch

What somebody who looks at the screen is promised: a source connects, gives frames and
takes them back; the stream is on only while a connected source has frames there;
stopping it gives all of them back; a source leaves only when nothing is left. `Overlay`
implements it with `source <- ctx = "attached"`, `on <- drv.on`, `held <- drv.queued`.
The control side's `commit()`, `destroyOverlay()` and a failed dequeue are all `Stop`; that
no call of either side is anything else is what the run and the theorem show, up to the first
step in which a same-size resize is overtaken: after it a step of any kind is let pass, until the
next `createOverlay()`.

### Runs

| run | instance | shows |
|---|---|---|
| `overlay` | `FairSpec`; SurfaceFlinger and 2 data side threads, one of which only queues and dequeues (`Feeders`); 2 buffers, 1 queued for performance; 1 size, 2 positions and one off the screen, 2 rotations, 2 crop windows; `q` and `dq` may fail | `TypeOK`, `MutexOutlivesUse`, `CountMatchesDriver`, `DqNeverBlocks`, `AttributesApplied`, `ReallocateQuiet`, `LockReleased`, `ImplementsSwitch`, no deadlock; 810 thousand states |
| `overlay_commit` | 3 buffers, window `commit` | `DqNeverBlocks` violated (finding 3) |

*Bounds.* Two data threads and the control side are the most that one mutex tells apart;
two buffers give an empty, a partly full and a full queue, and the test `> 1` of the
device its boundary. One data thread makes every call and the other feeds the display, as the
camera HAL's preview and a thread of its commands do; two resizes at once, a second size and an
`OPTIMAL_QBUF_CNT` other than the default are left to the proofs, which lift all these bounds.
`SetPosition` and `SetParameter` do not go back to the first position and rotation, in the proofs
neither. The overlay may be created, used and destroyed any number of times. *Fairness*: a thread
that has the mutex and can run, runs; nothing more is asked of the scheduler. `LockReleased` needs no more, as no thread
waits for anything while it has the mutex.

*Left out*: overlays linked by `clone`, which no client asks for; colour key, alpha and panel
changes of `commit()`; a buffer that cannot be mapped; `getBufferAddress()`, which reads.

## 5. CameraHal

### State and code (`libcamera/CameraHal.cpp`, `.h`, `MessageQueue.cpp`)

| module | code |
|---|---|
| `mPreviewRunning`, `mFalsePreview`, `mOverlay` | fields of the same name |
| `rec` | `mRecordEnabled`, `mRecorded`, `mVideoBufferCount` (`counted`: not zero), the mapped `mVideoBuffer`s and `iOutStandingBuffersWithEncoder` |
| `mode` | `mCamMode`: `"third"` is `Trd_PART` |
| `cam` | the V4L2 camera: open, streaming, its queue; `"stuck"` after a stop it has refused. `cam.lost` is history: the buffers nobody is left to queue to it |
| `disp` | the overlay's stream and queue, as `mOverlay->queueBuffer()` and `dequeueBuffer()` show them |
| `dss`, `nOverlayBuffersQueued`, `mDSSActive`, `driver` | `buffers_queued_to_dss[]`, its counter, the flag of the repair, `buffers_queued_to_camera_driver[]` |
| `cmdQ`, `ackQ`, `app` | the two pipes, and what the calling thread waits for |
| `pc`, `frame` | the preview thread, and the frame it handles |
| `enc`, `rel`, `pic` | the frames the encoder reads, the one it gives back, the picture thread |

The preview thread loops: a frame (`DqFrame`, then `CountFrame` and `SendFrame` for the
encoder, `ShowFrame` or `ShowNothing`, `HideFrame` or `HideFails`, `FrameBack`), then at most
one command. Each command has its success, its refusals and its failures as actions;
`Refuse` is their common end: Samsung's application gets an answer of "yes" and an error
callback, a third party's a "no" and a destroyed camera. `StartReset` and `StartQueue` are
`CameraStart()` before and after `VIDIOC_REQBUFS`, with `StartStops(k)` for a buffer the
driver refuses or, with the last of them queued, a `VIDIOC_STREAMON` that fails. `DisplayOff` is SurfaceFlinger's side, which may stop the stream at any time:
this is the camera's view of module Overlay.

`MayCall` says what callers outside the HAL wait for: an answer before the next call, every
frame back and the picture taken. Two windows undo parts of it:

| window | what is let in | breaks |
|---|---|---|
| `late` | a call while a frame of the last recording is still out | `EncoderKeepsFrames` (its buffer is queued to the camera while the encoder reads it), `ReleaseFindsFrame` (a null entry is followed) |
| `overlay` | `setOverlay()` between two uses of the overlay | `OverlayThere` |

### Run

`camera`: `FairSpec`, 2 buffers, an encoder that keeps 1, both modes, every failure (`configure`,
`start`, `stop`, `thread`, `dq`, `qbuf`, `show`, `on`, `hide`, `map`, `picture`), display off at any
time; 403 thousand states, no deadlock. It shows `TypeOK`; `OneAnswer` (no command is answered twice
or by another's answer, whatever fails); `OverlayThere`; `FlagsFollowOverlay` (after any mix of
failed queues, dequeues, display off and restarts, the flags contain the overlay's queue and
the counter counts them); `EncoderKeepsFrames`; `NoBufferMissing`; `ReleaseFindsFrame`; and
`Answered`.

*What starves the camera.* A buffer goes round only while somebody is to queue it to the camera.
Two things end that until the next start, and `NoBufferMissing` shows that nothing else does:

- `VIDIOC_QBUF` fails, in `nextPreview()` (1786-1789) or `releaseRecordingFrame()` (2348-2351): the
  HAL logs it. `stopRecording()` tries once more (2286), and may fail as well;
- the overlay has the buffer when `CameraStart()` runs: it counts as the overlay's, and when the
  overlay gives it back `nextPreview()` only drops its flag. An overlay whose stream does not start
  (`on`) keeps all it has been given, so a restart may find none for the camera.

A camera without a buffer leaves the preview thread in `VIDIOC_DQBUF` (1512), where it hears no
command (`Starved`). When the encoder has a frame the thread waits for it; when every buffer is
lost it waits for ever, and so does its caller. `Answered` therefore has the premise that the
camera has not lost all its buffers (`[]<>(cam.lost # Buffers)`), and fails without it.

*Fairness.* The threads run, a camera that has a buffer delivers a frame, and the encoder gives back
what it has. Nobody has to call, and a `VIDIOC_DQBUF` with no buffer to wait for is not taken to
fail: the preview thread's fairness leaves out its steps in a `Starved` state.

*Bounds.* Two buffers let one be with the encoder while the other goes round, and are lost one by
one; `Optimal` 2 of 2 stands for the code's 3 of 6 (`overlay_common.h:28-29`), which the proofs
cover. The invariants also hold with 3 buffers, 2 frames at the encoder and `Optimal` 2 (8.7 million
states; too long for a run that is repeated often). A camera refuses to stop at most once in a row, which keeps the model from a state nothing
leaves.

*Left out*: video telephony (its frames are copied), `setParameters()` and what it passes to
the driver, zoom, commands that no call sends.

## 6. AutoFocus

### State and code (`libcamera/CameraHal.cpp`)

`autoFocus()` and `cancelAutoFocus()` each start a detached thread; these, the preview
thread and the camera service share `mAutoFocusRunning`, `mAutoFocusUsed`,
`mPreviewRunning` and the lens, with no lock. `pc[t]` and `count[t]` are a thread's place and
its polls; `verdicts`, `excused` and `stuck` are history. A thread polls at most `Retries`
(`RETRY_CNT`) times with the driver's answer any of its three; then it gives up: it cancels,
through yet another thread, and reports. `CameraDestroy()` is three steps, at any time and
whatever threads are alive: it looks whether the lens was used (`LookAtLens`), sends `AF_STOP` and
`AF_RELEASE` (`Park`) and closes the device (`CloseDevice`). `camera_device` is 0 then, which the
tests at 2035 and 2132 take for a device: the threads go on and every `ioctl` fails.

The model is the life of one `CameraHal` whose device opened. The destructor does not wait for the
threads (there is nothing to wait for: they are detached); what one of them does in the memory
that is gone is not modelled.

### Run

`autofocus`: `FairSpec`, at most 3 threads at once, 3 polls, every refusal, preview and message
types switched and the device closed at any time; 452 thousand states. It shows `TypeOK`;
`BusyIsWorked` (`mAutoFocusRunning` is left set only by a refusal the code ignores); `LensAtRest`
(the device is closed with the lens in its save position, the comment at 1026; two exceptions:
`AF_RELEASE` refused, and a focus thread that starts the lens after `CameraDestroy()`'s last word to
it and before the close, which no lock prevents); `OneVerdict` (with the two exceptions the code
has: `AF_START` refused, or a result on the last poll, which is reported twice); `FocusEnds`. Three
threads are a focus, the cancel of another call, and the cancel that a focus starts when it gives
up; the proofs lift both bounds. *Fairness*: a thread that has been created runs.

## 7. EventRing, SensorsPoll, SensorStream

### State and code (`libsensors`)

`EventRing` is `InputEventCircularReader` as operators on a record (`buf`, `head`, `curr`,
`free`): `Filled(r, es)` is `fill()` when `read()` has answered `es`, `Advanced(r)` is `next()`,
`Available` and `Event` are `readEvent()`. The array is twice the ring: a read may run past the
ring's end, and what it wrote there is copied to the start. `Contents(r)` is the queue the
ring stands for.

`SensorsPoll` has the poll thread (`pollEvents()`: scan the drivers, read one, `poll()`), the thread
of `activate()` (enable, `setInitialState()`, the wake byte), and the kernel, which makes
reports of two events each and sends them to the driver's queue.

| module | code |
|---|---|
| `ring`, `last`, `pending`, `enabled` | `mInputReader`, `mPendingEvent`'s value, `mHasPendingEvent`, `mEnabled` |
| `revents`, `pipe` | `mPollFds[].revents`, bytes in the wake pipe |
| `dev`, `on`, `queue` | the value of the event device, whether its driver measures, its unread events |
| `pc`, `at`, `got` | the poll thread, the driver it looks at, the reports in the caller's array |
| `act` | the thread in `activate()` and, after `EVIOCGABS`, the value it has read |
| `told`, `known` | history: the last value the caller was given of each sensor, now and when its call began |

No lock guards what the two threads share, and no guard of the model does. `Level` is what
`mPendingEvent` may hold: a value as `readEvents()` converts it; `"unscaled"`, what the light
sensor's initial state (the raw `absinfo.value`, `LightSensor.cpp:57`) and the accelerometer's
(another scale, `kxsd9.cpp:48-56`) are; `"unset"`, where `EVIOCGABS` has failed. `Sampled` is
this conversion. `EVIOCGABS` may fail in a constructor and in `activate()` (`SampleFails`), and
`poll()` may fail at any time (`PollFails`): -1 in `got` is the error, and the caller's knowledge
falls back to `known`, since reports that the failing call had taken from the rings are lost
(`nusensors.cpp:162-165`). The accelerometer's initial value is never told: it has no flag.

`SensorStream` is the promise: the reports of a sensor reach the caller in order, none twice
and none forgotten, but for those of a call that fails, and except that a disabled proximity
sensor keeps them. A report is taken up (`Take`), then delivered (`Deliver`). An activation looks
at the sensor (`Look`) and stores what it saw in the same place (`Store`): a report that has been
taken up and not delivered goes out with that value, and a report of the initial state
(`DeliverInitial`) has the value that stands there, be it an older one. These are the two
outcomes of the race between lines 56 to 60 of the drivers and `readEvents()`; nothing else may
change a report. `ImplementsStream` maps the ring, the device's queue, a split report and the
leftovers of a call to one sequence per sensor: `Unread` is what the ring still gives and then
the device's queue, `Whole` puts the value of a half read report (`HalfRead`: the value is in
`mPendingEvent`, and "syn" is next) back in front, `Pairs` takes the values two by two.

### Runs

| run | instance | shows |
|---|---|---|
| `sensors` | proximity, with a ring of 2, and the accelerometer switched on and off; two values, a call with room for 2, one report queued, a wake pipe of one byte | `RingsSound`, `ImplementsStream`, no deadlock; 525 thousand states |
| `sensors_settle` | `FairSpec`; the light sensor with a ring of 4, the code's own size, two reports queued, a call with room for 3 | `TypeOK`, `CallerCatchesUp`, no deadlock; 182 thousand states |

The ring of 2 wraps on every second read; the ring of 4 takes two reports in one read, so that an
activation may store between them. Section 10 has the ring and the refinement for every size.

`CallerCatchesUp` is two promises. `SettledTold`: a value that is measured while the sensor works,
enabled, and that stays, is what the caller is told last. `InitialTaken`: the poll thread never
sleeps over a state that an activation leaves to be reported. Their premises are where the code
stops keeping them:

- `[](got < Count)`: no call fills the caller's array. A sensor that fills it stays marked as
  ready, and the next `pollEvents()` waits in its `read()` for events that may not come, with
  every other sensor unserved;
- `~Sampling(s)`: the value is measured when no activation of the sensor is under way. Otherwise
  it may be reported before `activate()` stores the older value it saw, which is then told last;
  and a value from before an activation may be told in the raw scale, or not at all;
- `got >= 0`: `poll()` does not fail from then on.

TLC refutes the property without either of the last two. *Fairness*: a poll thread that can
take a step does, and polls again when it has been answered; the activation ends. `PollFails` is
in no fairness condition.

*Left out*: `setDelay()`, timestamps, what the conversions compute, the accelerometer's axes one by
one, a `read()` that fails.

## 8. RilTrigger

### State and code (`libh1-ril/libril-h1.c`, `libril-h1_ipc.c`)

`onRequest()` sends each request one of three ways (`Case`): an SMS acknowledgement is
answered by the wrapper (`Acknowledge`), a power-on installs the trigger and is handed to
libsec-ril (`Install`, `HandOver`), the rest are handed over. `RIL_onRequestComplete()` runs on
any thread of libsec-ril, or on libril's own inside `onRequest()`: it tells libril
(`Complete`), looks at the trigger (`Compare`), runs the 3G fix (`Act`) and erases the trigger
(`Clear`), with no lock. `fix` are the two properties that enable the fixes.

The trigger holds `pRI->token`, the number the Java side gave the request (not the `RIL_Token`,
which is the address of libril's record: `libril-h1.h:61`); the model takes these numbers never to
come back, so that such a request is its own token. `Local` are the requests libril makes for
itself: they all have the token `0xffffffff` (`libril-h1.c:64`), and as an `int` that is
`NO_TRIGGER`. So the completion of a local request passes the test of line 167 when no trigger is
installed and calls the action: one 3G fix too many, or, before the first trigger was installed, the
call of a null pointer, which ends the process (`Act`, `null call`). libril makes such requests for
its debug port only. A power-on may also arrive between an action and the erasure of the trigger:
its trigger is deleted with the other one and its fix never tried (`erased`).

### Run

`ril`: 3 requests of the Java side and a local one, of any kind, 2 completing threads besides
libril's, both fixes on or off; 154 thousand states up to symmetry. It shows `TypeOK`, `OneOwner`
(libril frees a request when it is told, so it must be told once, by one owner) and `FixOnPowerOn`:
the fix was tried on the completion of every power-on request, except where a later one took the one
trigger or another request's completion deleted it, on no completion of another request but a local
one, and the action is called as null for a local request only. Three requests are one that owns the
trigger, one that replaces it and one of another kind. Deadlock is not checked: the number of
requests is bounded, so the system stops when they are used up, and a null call ends it. Whether the
modem gets the fix is not in the model: `ipcFix3G()`'s result is dropped (170).

## 9. Findings

1. *Lock order.* "Mutex acquisition order is always out -> in -> hw" (`AudioHardware.cpp:247`). If a
   stream is closed in the window between the release of `mLock` and the recheck, the
   loop holds the last reference; `spOut = mOutput` (263; also 282, 1100, 1492) runs the
   destructor with `mLock` held, and its `standby()` takes the stream's mutex and then
   `mLock` again: the thread blocks on itself.
2. *Radio off in a call.* After "Call is active. Delaying FM enable." (668) the radio holds
   nothing; `disableFMRadio()` closes the call's references (711-712) and leaves
   `mFmResumeAfterCall` set, so that the end of the call turns the radio on.
3. *Unlocked twice.* `commit()` unlocks the shared mutex once its settings are made ("unlock the
   mutex here as the subsequent operations are file operations", `TIOverlay.cpp:1364`) and
   again at its common exit (1374). The second unlock releases the mutex of whichever data side
   thread has taken it in between. Two `dequeueBuffer()` calls can then pass the test of
   `qd_buf_count` together, and one waits in `VIDIOC_DQBUF` with the mutex: what the count is
   there to prevent ("Need to count Qd buffers to be sure we don't block DQ'ing when exiting",
   `TIOverlay.h:131`).

## 10. Proofs

Every theorem is about all values of the constants that satisfy the module's `ASSUME`; no
instance is fixed and, but for AutoFocus's bound on threads, nothing is assumed finite. The
strengthened invariants were checked with TLC first, as invariants of a run.

### AudioHardwareProofs

From `ThreadsAssumption` (outputs, inputs, control threads and `None` are distinct) and
`BoundsAssumption` (the types of the other constants).

| theorem | statement | argument |
|---|---|---|
| `TypeCorrect` | `Spec => []TypeOK` | one lemma per group of actions, over lemmas on the counters |
| `StreamsClaimed` | `Spec => []ClaimedActive` | `IInv` is inductive (`InvInit`, `InvStep`) |
| `PeersStayRegistered` | `Spec => []PeerRegistered` | `IInv`; the registry changes only with `mLock` free, a thread opens its path with `mLock` held since its recheck |
| `LocksInOrder` | `RacyClient = FALSE` proves `Spec => []LockOrder` | `LInv`, an inductive strengthening of `IInv` |

`ClaimedActive` is not inductive: it says what holds when the loop has ended, and that
depends on what the thread saw before it released `mLock`. `IInv` adds, for each thread,
which mutexes it owns at each point (`OwnsHardware`, `OwnsStream`, `OwnsTarget`), that the
stream it waits for was active at the count it read, and still is if the count has not
moved (`Snapshot`: this is the reason the recheck is enough), and that only a stream's own
thread takes it out of standby, at the end of `OpenPath` (`LeavesStandby`).

The proof is rely/guarantee. `Frame(t)` bounds what a step of `t` does to the others: it
leaves their locals alone, it changes only mutexes that are free or its own, and it
changes a stream only if nobody else has `mLock`, wakes none but its own, and changes one
that is referenced only with that stream's mutex, moving the counter when it puts the
stream in standby. `Interference` shows once that `ThreadInv(u)` of every other thread
survives such a step; the `...Keeps` lemmas show that each action is a `Frame(t)` step and
keeps `ThreadInv(t)`.

`LocksInOrder` needs the discipline of the clients. `Disciplined(t)` says that `t` owns
`mLock` only inside the loops, owns only the stream mutexes its place in the code
accounts for, and that every reference it holds is to a registered stream, so that no
assignment of the loop runs a destructor. The last part fails for racy clients, which is
finding 1.

### AudioResourceProofs

| theorem | statement | hypothesis |
|---|---|---|
| `SleepersWaitedFor` | `[]SleepRequested` | none |
| `RadioRemembered`, `VoiceStays`, `RadioDelayed` | `[]FmNotForgotten`, `CallPathKept`, `FmDelayed` | `OneCaller`: no radio calls, or one control thread |
| `CountsAgree`, `TransfersOnOpenHandle` | `[]CountsMatch`, `[]TransferOnOpenHandle` | `Reliable`: opens succeed, no radio calls |
| `WakeLocksHeld` | `[]WakeLockHeld` | `OneOutput`: one output object |

None of them asks clients not to close a stream during another call. The hypotheses stand where
the properties stop (section 3): `enableFMRadio()` looks at `mMode` with no mutex (667), so that
a call may start before it selects its path, or end before it sets the flag; an open that fails, or a radio that is turned off in
a call, ends in a reference of somebody else (section 3); an output whose last reference is
a loop's is destroyed after a new one has become active, and releases its `AudioOutLock`. The
runs that check these properties satisfy them.

- *Path and radio.* `RadioOutsideCall`: what a radio call has seen of the mode still holds when
  it selects its path, or sets the flag; then only `setMode()` leaves the voice path, and the flag
  is set in a call.
- *Sleep requests.* `SleepRequested` is inductive with `IInv`: `prepareLock()` sets the flag of a
  stream whose mutex its caller goes on to wait for, and the wait ends in `lock()`, which clears it.
- *Who has a stream.* `OwnInv`: a stream that is in a call is registered; one that is active is
  registered or referred to, by a loop or by the thread that destroys it (`ActiveOwned`). So an
  object is made anew only when its device is closed.
- *Counts.* `CountInv` adds `Balanced`: each count is the number of streams that have a handle,
  plus the call's own, and the device is open exactly when that is not zero; a stream has its
  handles exactly while it is active (`HandlesKept`). A lemma for each call that changes a count
  (`OpenPcmCounts`, `ClosePcmCounts`, the mixer's) and one for each way they are put together: a
  stream takes or gives, a call takes or gives, the input source borrows the mixer.
- *Wake locks.* They are two flags and no counts. `WakeInv`: one stream of each kind works at a
  time (`OneWorker`; the policy sees to it for inputs), it holds the lock of its kind, and no
  other stream does (`Held`); no data thread destroys a stream (`NoDestroyer`).

### OverlayProofs

From `OverlayAssumption`, with the windows shut (`Races = {}`), for any number of data side
threads and buffers.

| theorem | statement | device calls that may fail |
|---|---|---|
| `MutexOutlives` | `[]MutexOutlivesUse` | all |
| `DequeueNeverBlocks` | `[]DqNeverBlocks` | all |
| `ReallocatedQuietly` | `ReallocateQuiet` | all |
| `CountFollowsDriver` | `[]CountMatchesDriver` | all but `on` |
| `TypeCorrect` | `[]TypeOK` | all |
| `OverlayImplementsSwitch` | `ImplementsSwitch` | all but `on` and `off` |
| `AttributesKept` | `[]AttributesApplied` | all but `set` and `off` |

The proof has layers, one for each set of failures that TLC had shown to be the right
one (section 4). `IInv` is inductive whatever fails and whatever a same-size resize overlaps: `Owner`
(the mutex excludes, and `commit()` finds it free at its second unlock, which is what the shut
window gives), `Counted` (`refCnt` is the number of sides, and the mutex lives exactly while there is
one), `Clients` (data side threads are in a call only while their context is there), `Bounded` (the
count stays in range; the thread that `poll()` has answered still finds its buffer, or a stream that
has been stopped) and, until one is overtaken, `Streams` (`streamEn` is what the device does, but
between a resize's `VIDIOC_STREAMOFF` and its `streamEn = 0`; a thread about to allocate or start
has seen it off). `Counting` adds the number of queued buffers; it is not inductive when
`VIDIOC_STREAMON` may fail, since `queueBuffer()` then leaves a buffer queued that no stop gives back.
`Quiet`, for the refinement, says that a client about to leave has left an empty device, which needs
the stop to succeed. A step is the creation of an overlay or of a kind (`NextKinds`): it leaves the
stream alone (`LeftAlone`), is one of the calls that may stop it (`Stops`), or one of nine more that
`OwnKind` lists field by field; a layer is proved for the kinds (`KindStreams`, `KindCounting`, ...),
and `Undisturbed` gives each of them what `~overtaken'` says of the other threads. `KindSwitched` maps
a kind to a step of `StreamSwitch` or a stutter.

`Attributed`, for `AttributesKept`, is about the calls under way: only `commit()` has the object's
attributes ahead of the device's (`Shown`), and what a client has read back is what the device still
has (`ReadBack`). A refused set breaks it, since `commit()` copies the staged attributes before it
sets them, and so does a refused stop.

### CameraHalProofs

From `CameraAssumption`, for any numbers of buffers and of frames at the encoder, both modes
and any failing calls.

| theorem | statement | windows shut |
|---|---|---|
| `AnsweredOnce` | `[]OneAnswer` | none |
| `OverlayKept` | `[]OverlayThere` | `overlay` |
| `EncoderKeeps` | `[]EncoderKeepsFrames` | `late` |
| `ReleaseFinds` | `[]ReleaseFindsFrame` | `late` |
| `TypeCorrect` | `[]TypeOK` | `late` |
| `FlagsFollow` | `[]FlagsFollowOverlay` | none |
| `BuffersLocated` | `[]NoBufferMissing` | none |
| `StarvedNoOther` | `[](Starved => enc # {} \/ rel.at = "queue")`, if neither `qbuf` nor `on` fails and `Optimal <= NumBuffers` | none |

`Asked` is what makes `OneAnswer` inductive: a command in the queue is the one its caller waits
for, so that the preview thread never finds another one, and it works on a start only for a
caller that waits for it. `Overlaid` adds that who waits for a start has an overlay until the
answer. The twenty-five actions of the thread and the calls fall into a few kinds (a command
answered, a start begun or answered, a caller asking, an answer taken, or none of these), with
a lemma for each kind.

`FrameInv` follows a frame from `DqFrame` to `ReleaseQueue`: while a caller waits nothing is at the
encoder (`Alone`), frames stay mapped as long as one is out (`Mapped`), while recording a frame is
in one place only: with the thread, at the encoder, on its way back or in the camera's queue
(`Apart`), and `iOutStandingBuffersWithEncoder` counts those at the encoder and the one being sent
(`Counted`). `EncoderKeepsFrames` alone is not inductive: it says nothing of a frame between the
places it names.

`FlagInv` says how the flags (`dss`), their count and the overlay's queue may differ. In a preview
flags and count agree, and the queue is what is flagged, or is empty after the display has
stopped (`Flagged`); otherwise the count is never too low, and too high with one flag at most
(`Enough`), and the queue is shorter than `Optimal`, except right after a frame has been queued
(`Room`, as long as the overlay's `VIDIOC_STREAMON` does not fail).

`Located`, for `BuffersLocated`, says where each buffer is, and that the thread has a frame to give
back only from `VIDIOC_DQBUF` to `VIDIOC_QBUF`. `StarvedNoOther` adds `Spared`: not every buffer is
lost, since a start leaves the camera at least one (`CameraFed`) as long as `Room` holds: the overlay
gives one back when it has `Optimal`, which is 3 of 6 in the code (`overlay_common.h:28-29`).

### AutoFocusProofs

From `FocusAssumption`, for any number of threads and any `Retries`. `TypeCorrect` and
`AnsweredOnce` (`[]OneVerdict`) rest on `Rounds`: at each place of a thread, how often it has polled
and reported, so that it reports at most three times and polls at most `Retries` times.
`BusyOnlyWhileWorked` (`[]BusyIsWorked`) is inductive with the types. `LensParked` (`[]LensAtRest`) needs
`LensKnown`: while `AF_RELEASE` is still to come, a lens that is out, or about to be started, has been
counted as used; after it the lens is in place, or one of the two exceptions has happened. From
`FocusAssumption`, for any number of threads and polls and any refusals.

### EventRingProofs, SensorsPollProofs

`FilledContents`: `fill()` appends to the ring's contents exactly what it has read, wherever the
read lands and whether or not the tail is copied. `AdvancedContents`: `next()` drops the oldest
event and nothing else. Both for any sound ring of any size; they are why the ring is a queue.
`RingsStaySound` (`Spec => [](TypeOK /\ RingsSound)`) lifts soundness to the poll loop, for any
drivers and sizes, from `ParamsAssumption`; `TypeCorrect` is its part `[]TypeOK`.

`PollImplementsStream` (`Spec => ImplementsStream`) assumes no more. Its invariant is `Streams`:
what a ring and its device hold, with the value that has been read put back in front, is whole
reports (`Paired`), of which only the first may hold what an activation has stored; and a sensor whose present state is being asked for is enabled. Without the
first, a "syn" could come with the value of another report; without the second,
`setInitialState()` could report for a sensor that is off. `PairsAppend`, `PairsDrop` and
`PairsSwap` say what becomes of the values when a report is made, delivered, or taken over by a
sample; `MeasureReports`, `FillReports`, `ValueReports`, `SynReports` and `SampleReports` say it of
the actions, from the lemmas about the ring. `fill()`, wherever it wraps, leaves the stream as it
is: it is a stutter. A failing `poll()` is `Fail`, the reading of a value `Take`, the two halves of
`setInitialState()` are `Look` and `Store`.

### RilTriggerProofs

`AnsweredByOneOwner` (`Spec => [](TypeOK /\ OneOwner)`), with `Places`: which requests a thread may be
busy with at each place, and that one that is held or being answered has not been answered.
`FixFollowsPowerOn` (`[]FixOnPowerOn`): `Armed` says whose completion an action runs on, `Pending`
that a power-on request which has been handed over and whose fix is not yet tried is the trigger's
or has been replaced or erased. From `RilAssumption`, for any requests and threads. `TypeCorrect` is the first
part of `AnsweredByOneOwner`.

### Only model-checked

Every invariant, action property and refinement of a passing run is the statement of a theorem,
under the hypotheses above. With TLC stay

- deadlock freedom (it is about ENABLED), and the liveness properties `CallsReturn`,
  `LockReleased`, `Answered`, `FocusEnds` and `CallerCatchesUp`: both are out of the prover's
  reach.

## 11. Not modelled

| part | why |
|---|---|
| `liblights` | four calls under one mutex, a map from the last two requests to a file; its hazards (two clients of one LED, descriptors that stay open) need no interleaving |
| `DownSampler`, `ChannelMixer` | arithmetic on one buffer in one thread |
| `alsa_pcm.c`, `alsa_mixer.c` | ioctl wrappers; whether an open or a transfer succeeds is in AudioHardware |
| `AudioPolicyManager.cpp` | a constructor |
| `amix`, `aplay`, `arec` | command line tools |
| JPEG, EXIF, colour conversion, scaling | pixel arithmetic; what a capture asks of the camera is in CameraHal |
| formats, windows and 3D settings of `v4l2_utils.c` | data passed to the device |
| `gps.c`, older and alternative HALs | not built |
| libril, libsecril, libgps, vendor files | no source |
| init scripts, key maps, makefiles, overlays | declarative |

The older copies (`*-r3d4`, `*-m100s`, `*-iuss`, `*--old`) are most of the repository's lines. They
are earlier or other versions of the HALs modelled here, and no definition stands for their
lines. What each modelled component leaves out is said in its section and in
`PROJECT.json`.
