---------------------------- MODULE Camera2Impl -----------------------------
(***************************************************************************)
(* Camera2Impl.java, as CameraPriviewView uses it: surfaceCreated sets the *)
(* surface, opens the camera and starts the preview on the UI thread;      *)
(* surfaceDestroyed stops the preview and closes.  The camera service,     *)
(* which is external, answers on the background thread, in callbacks that  *)
(* run between the statements of the UI thread.  No lock protects the      *)
(* fields.                                                                 *)
(*                                                                         *)
(* Opening number n gives device n and at most one capture session, which  *)
(* is named n too.                                                         *)
(***************************************************************************)
EXTENDS Naturals, Sequences

CONSTANTS
    MaxOpenings,    \* bound: how often the view is shown
    NULL            \* the null reference

Devices == 1 .. MaxOpenings

ASSUME CameraAssumption ==
    /\ MaxOpenings \in Nat
    /\ NULL \notin Devices

VARIABLES
    view,               \* where the UI thread is
    openings,           \* the number of calls of open
    mCameraDevice,
    mCaptureSession,
    mImageReader,       \* TRUE when it is not null
    previewSurface,     \* TRUE when it is not null
    looper,             \* mHandlerThread: "none", "running" or "quitting"
    inbox,              \* the callbacks posted to mBackgroundHandler
    configuring,        \* the session of the running onConfigured, or NULL
    device,             \* external: the state of each device
    session,            \* external: the state of each capture session
    crashed,            \* an exception nobody catches has ended the process
    late,               \* history: devices delivered too late for close
    torn,               \* history: onConfigured stores a session after close
                        \* has looked for one
    gone                \* history: a device was disconnected or had an error

fieldVars == <<mCameraDevice, mCaptureSession, mImageReader, previewSurface>>
threadVars == <<looper, inbox, configuring>>
serviceVars == <<device, session>>
raceVars == <<late, torn, gone>>
cameraVars == <<view, openings, fieldVars, threadVars, serviceVars, crashed,
                raceVars>>

Views == {"hidden", "opened", "createSession", "shown", "closeSession",
          "testDevice", "closeDevice", "closeReader", "join"}
DeviceStates == {"none", "opening", "open", "lost", "closed"}
SessionStates == {"none", "configuring", "ready", "repeating", "closed"}
Callback == [what : {"onOpened", "onLost", "onConfigured"}, of : Devices]

CameraInit ==
    /\ view = "hidden"
    /\ openings = 0
    /\ mCameraDevice = NULL
    /\ mCaptureSession = NULL
    /\ mImageReader = FALSE
    /\ previewSurface = FALSE
    /\ looper = "none"
    /\ inbox = << >>
    /\ configuring = NULL
    /\ device = [n \in Devices |-> "none"]
    /\ session = [n \in Devices |-> "none"]
    /\ crashed = FALSE
    /\ late = {}
    /\ torn = FALSE
    /\ gone = FALSE

Show(from, to) ==
    /\ ~crashed
    /\ view = from
    /\ view' = to

Crash ==
    /\ crashed' = TRUE
    /\ UNCHANGED <<fieldVars, serviceVars>>

-----------------------------------------------------------------------------
(***************************************************************************)
(* The UI thread: surfaceCreated.                                          *)
(***************************************************************************)

\* open starts the background thread and asks for the camera.  Without the
\* permission, or when the service throws, there is no device and no reader.
Open(granted) ==
    /\ openings < MaxOpenings
    /\ Show("hidden", "opened")
    /\ openings' = openings + 1
    /\ previewSurface' = TRUE
    /\ looper' = "running"
    /\ IF granted
         THEN /\ device' = [device EXCEPT ![openings'] = "opening"]
              /\ mImageReader' = TRUE
         ELSE UNCHANGED <<device, mImageReader>>
    /\ UNCHANGED <<mCameraDevice, mCaptureSession, inbox, configuring, session,
                   crashed, raceVars>>

\* startPreview right after open, whether or not the device is there yet.
StartPreview ==
    /\ Show("opened", IF previewSurface /\ mCameraDevice # NULL
                        THEN "createSession" ELSE "shown")
    /\ UNCHANGED <<openings, fieldVars, threadVars, serviceVars, crashed,
                   raceVars>>

\* The device may have been set to null since it was tested, and there may be
\* no reader.  An access error is only logged: the session is as good as closed.
CreateSession(accessible) ==
    /\ Show("createSession", "shown")
    /\ IF mCameraDevice = NULL \/ ~mImageReader
         THEN Crash
         ELSE /\ session' = [session EXCEPT ![mCameraDevice] =
                                IF accessible THEN "configuring" ELSE "closed"]
              /\ UNCHANGED <<fieldVars, device, crashed>>
    /\ UNCHANGED <<openings, threadVars, raceVars>>

-----------------------------------------------------------------------------
(***************************************************************************)
(* The UI thread: surfaceDestroyed.                                        *)
(***************************************************************************)

\* stopRepeating throws when the session has been closed with its device.
StopPreview ==
    /\ Show("shown", "closeSession")
    /\ IF mCaptureSession # NULL /\ session[mCaptureSession] = "closed"
         THEN Crash
         ELSE /\ session' = IF mCaptureSession = NULL THEN session
                              ELSE [session EXCEPT ![mCaptureSession] = "ready"]
              /\ UNCHANGED <<fieldVars, device, crashed>>
    /\ UNCHANGED <<openings, threadVars, raceVars>>

CloseSession ==
    /\ Show("closeSession", "testDevice")
    /\ session' = IF mCaptureSession = NULL THEN session
                    ELSE [session EXCEPT ![mCaptureSession] = "closed"]
    /\ mCaptureSession' = NULL
    /\ torn' = (torn \/ configuring # NULL)
    /\ UNCHANGED <<openings, mCameraDevice, mImageReader, previewSurface,
                   threadVars, device, crashed, late, gone>>

\* A device that has not been delivered yet escapes.
TestDevice ==
    /\ Show("testDevice",
            IF mCameraDevice = NULL THEN "closeReader" ELSE "closeDevice")
    /\ late' = late \cup {n \in {openings} \ {mCameraDevice} :
                             device[n] \in {"opening", "open"}}
    /\ UNCHANGED <<openings, fieldVars, threadVars, serviceVars, crashed, torn,
                   gone>>

\* Slip: the reference is dropped, the device stays open.
ShutForgotten(n) == UNCHANGED serviceVars

\* close of CameraDevice closes its sessions as well.
Shut(n) ==
    /\ device' = [device EXCEPT ![n] = "closed"]
    /\ session' = [session EXCEPT ![n] = "closed"]

CloseDevice ==
    /\ Show("closeDevice", "closeReader")
    /\ IF mCameraDevice = NULL
         THEN Crash
         ELSE /\ Shut(mCameraDevice)
              /\ mCameraDevice' = NULL
              /\ UNCHANGED <<mCaptureSession, mImageReader, previewSurface,
                             crashed>>
    /\ UNCHANGED <<openings, threadVars, raceVars>>

\* Slip: the looper is not told to quit.
QuitSafelyForgotten == UNCHANGED looper

QuitSafely == looper' = "quitting"

CloseReader ==
    /\ Show("closeReader", "join")
    /\ mImageReader' = FALSE
    /\ previewSurface' = FALSE
    /\ QuitSafely
    /\ UNCHANGED <<openings, mCameraDevice, mCaptureSession, inbox, configuring,
                   serviceVars, crashed, raceVars>>

JoinBackgroundThread ==
    /\ Show("join", "hidden")
    /\ looper = "none"
    /\ UNCHANGED <<openings, fieldVars, threadVars, serviceVars, crashed,
                   raceVars>>

CloseStep ==
    \/ StopPreview \/ CloseSession \/ TestDevice \/ CloseDevice
    \/ CloseReader \/ JoinBackgroundThread

-----------------------------------------------------------------------------
(***************************************************************************)
(* The background thread: the callbacks.  A looper that quits safely still *)
(* runs the callbacks already posted.                                      *)
(***************************************************************************)

Receive(what, n) ==
    /\ ~crashed
    /\ configuring = NULL
    /\ inbox # << >>
    /\ Head(inbox) = [what |-> what, of |-> n]
    /\ inbox' = Tail(inbox)

OnOpened(n) ==
    /\ Receive("onOpened", n)
    /\ mCameraDevice' = n
    /\ UNCHANGED <<view, openings, mCaptureSession, mImageReader,
                   previewSurface,
                   looper, configuring, serviceVars, crashed, raceVars>>

\* onDisconnected or onError.  mCaptureSession keeps its session.
OnLost(n) ==
    /\ Receive("onLost", n)
    /\ Shut(n)
    /\ mCameraDevice' = NULL
    /\ UNCHANGED <<view, openings, mCaptureSession, mImageReader,
                   previewSurface,
                   looper, configuring, crashed, raceVars>>

\* Slip: the session is used without a look at the device.
DeviceThereUnchecked == TRUE

DeviceThere == mCameraDevice # NULL

OnConfigured(n) ==
    /\ Receive("onConfigured", n)
    /\ configuring' = IF DeviceThere THEN n ELSE NULL
    /\ torn' = \/ torn
               \/ mCameraDevice # NULL /\ view \in {"testDevice", "closeDevice"}
    /\ UNCHANGED <<view, openings, fieldVars, looper, serviceVars, crashed,
                   late, gone>>

\* setRepeatingRequest throws when the device has been closed in the meantime.
StartRepeating ==
    /\ ~crashed
    /\ configuring # NULL
    /\ configuring' = NULL
    /\ IF session[configuring] = "closed"
         THEN Crash
         ELSE /\ mCaptureSession' = configuring
              /\ session' = [session EXCEPT ![configuring] = "repeating"]
              /\ UNCHANGED <<mCameraDevice, mImageReader, previewSurface,
                             device, crashed>>
    /\ UNCHANGED <<view, openings, looper, inbox, raceVars>>

Quit ==
    /\ ~crashed
    /\ looper = "quitting"
    /\ inbox = << >>
    /\ configuring = NULL
    /\ looper' = "none"
    /\ UNCHANGED <<view, openings, fieldVars, inbox, configuring, serviceVars,
                   crashed, raceVars>>

CallbackStep ==
    \/ \E n \in Devices : OnOpened(n) \/ OnLost(n) \/ OnConfigured(n)
    \/ StartRepeating
    \/ Quit

-----------------------------------------------------------------------------
(***************************************************************************)
(* The camera service.  A callback posted to a looper that has been told   *)
(* to quit is dropped, as is one for the looper of an earlier opening.     *)
(***************************************************************************)

Post(what, n) ==
    inbox' = IF looper = "running" /\ n = openings
               THEN Append(inbox, [what |-> what, of |-> n])
               ELSE inbox

Service ==
    /\ ~crashed
    /\ UNCHANGED <<view, openings, fieldVars, looper, configuring, crashed,
                   late, torn>>

DeviceOpens(n) ==
    /\ device[n] = "opening"
    /\ device' = [device EXCEPT ![n] = "open"]
    /\ Post("onOpened", n)
    /\ Service
    /\ UNCHANGED <<session, gone>>

DeviceLost(n) ==
    /\ device[n] \in {"opening", "open"}
    /\ device' = [device EXCEPT ![n] = "lost"]
    /\ Post("onLost", n)
    /\ gone' = TRUE
    /\ Service
    /\ UNCHANGED session

\* Configuring may fail: onConfigureFailed only logs.
SessionConfigured(n, ok) ==
    /\ session[n] = "configuring"
    /\ session' = [session EXCEPT ![n] = IF ok THEN "ready" ELSE "closed"]
    /\ IF ok THEN Post("onConfigured", n) ELSE UNCHANGED inbox
    /\ Service
    /\ UNCHANGED <<device, gone>>

CameraNext ==
    \/ \E granted \in BOOLEAN : Open(granted)
    \/ StartPreview
    \/ \E accessible \in BOOLEAN : CreateSession(accessible)
    \/ CloseStep
    \/ CallbackStep
    \/ \E n \in Devices :
         \/ DeviceOpens(n) \/ DeviceLost(n)
         \/ \E ok \in BOOLEAN : SessionConfigured(n, ok)

CameraSpec == CameraInit /\ [][CameraNext]_cameraVars

\* Callbacks run, surfaceCreated and surfaceDestroyed run to their end.  When
\* the service answers, and whether the view is ever hidden, is left open.
CameraFairness ==
    /\ WF_cameraVars(CallbackStep)
    /\ WF_cameraVars(StartPreview)
    /\ WF_cameraVars(\E accessible \in BOOLEAN : CreateSession(accessible))
    /\ WF_cameraVars(view # "shown" /\ CloseStep)

CameraFairSpec == CameraSpec /\ CameraFairness

-----------------------------------------------------------------------------
(***************************************************************************)
(* Properties.                                                             *)
(***************************************************************************)

\* Every variable keeps its type, and a looper does not end with work to do.
CameraTypeOK ==
    /\ view \in Views
    /\ openings \in 0 .. MaxOpenings
    /\ {mCameraDevice, mCaptureSession, configuring} \subseteq Devices \cup {NULL}
    /\ {mImageReader, previewSurface, crashed, torn, gone} \subseteq BOOLEAN
    /\ looper \in {"none", "running", "quitting"}
    /\ inbox \in Seq(Callback)
    /\ looper = "none" => inbox = << >> /\ configuring = NULL
    /\ device \in [Devices -> DeviceStates]
    /\ session \in [Devices -> SessionStates]
    /\ late \subseteq Devices

\* A closed camera is closed: no thread, no callback, no reader and no capture
\* session are left, and no device except one that was delivered, or would have
\* been, after close had looked for it.
ClosedCameraIsQuiet ==
    view = "hidden" /\ ~crashed =>
        /\ looper = "none"
        /\ ~mImageReader
        /\ \A n \in Devices : device[n] \in {"opening", "open"} => n \in late
        /\ mCameraDevice # NULL => mCameraDevice \in late
        /\ mCaptureSession # NULL => session[mCaptureSession] = "closed" \/ late # {}

\* The process is brought down only by a race the code does not handle: the
\* device was lost, it was delivered too late for close, or close came between
\* the test and the use in onConfigured.  A callback that simply comes after
\* close does no harm.
CrashNeedsRace == crashed => gone \/ torn \/ late # {}

\* surfaceDestroyed returns: the background thread always ends.
CloseIsResolved == view = "closeSession" ~> view = "hidden" \/ crashed

\* Claimed by the comment at Camera2Impl.java:274 ("This method is called when
\* the camera is opened.  We start camera preview here."): a device that has
\* been delivered to a view with a surface gets a capture session.
PreviewFollowsOpening ==
    \A n \in Devices :
        mCameraDevice = n /\ previewSurface ~>
            \/ session[n] # "none"
            \/ device[n] # "open"
            \/ ~previewSurface
            \/ crashed
=============================================================================
