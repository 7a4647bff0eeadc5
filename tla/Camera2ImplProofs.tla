-------------------------- MODULE Camera2ImplProofs --------------------------
(***************************************************************************)
(* Proofs about Camera2Impl for any number of openings.  The inductive     *)
(* invariant CameraInv says what a reference stands for (RefInv), what a   *)
(* posted callback promises (InboxInv), in which views thread and reader   *)
(* exist (ViewInv), where an open device or session can be (DeviceInv,     *)
(* SessionInv), and why nothing throws as long as there is no race         *)
(* (CalmInv).                                                              *)
(***************************************************************************)
EXTENDS Camera2Impl, TLAPS

(***************************************************************************)
(* The inductive invariant, in parts.                                      *)
(***************************************************************************)

\* The device has been delivered, whatever happened to it since.
Delivered(n) == device[n] \notin {"none", "opening"}

\* No reference leads to what was never there.
RefInv ==
    /\ \A n \in Devices : n > openings => device[n] = "none"
    /\ \A n \in Devices : session[n] # "none" => Delivered(n)
    /\ mCameraDevice # NULL => Delivered(mCameraDevice)
    /\ mCaptureSession # NULL => session[mCaptureSession] # "none"
    /\ configuring # NULL => session[configuring] # "none"

IsPosted(what) == \E k \in 1 .. Len(inbox) : inbox[k].what = what

LostLater(k) == \E l \in 1 .. Len(inbox) : l > k /\ inbox[l].what = "onLost"

\* What a posted onOpened promises: it is the first news of its device, and
\* unless that is still open, or known to be late, its end is posted as well.
OpenedInv(k) ==
    /\ mCameraDevice # openings
    /\ \A l \in 1 .. Len(inbox) : l # k => inbox[l].what # "onOpened"
    /\ \/ device[openings] = "open"
       \/ openings \in late
       \/ LostLater(k)

EntryInv(k) ==
    /\ inbox[k].of = openings
    /\ Delivered(openings)
    /\ inbox[k].what = "onConfigured" => session[openings] # "none"
    /\ inbox[k].what = "onLost" => gone /\ device[openings] # "open"
    /\ inbox[k].what = "onOpened" => OpenedInv(k)

InboxInv == \A k \in 1 .. Len(inbox) : EntryInv(k)

UpViews == {"opened", "createSession", "shown", "closeSession", "testDevice"}
LooperViews == UpViews \cup {"closeDevice", "closeReader"}

ViewInv ==
    /\ view # "hidden" => openings \in Devices
    /\ view \in LooperViews => looper = "running"
    /\ view = "join" => looper # "running"
    /\ view = "hidden" => looper = "none"
    /\ mImageReader => view \in LooperViews
    /\ view \in LooperViews /\ device[openings] # "none" => mImageReader

\* An open device is that of this opening, and close will find it, or it was
\* noticed as late; the same goes for the field.
DeviceInv ==
    /\ \A n \in Devices :
         device[n] \in {"opening", "open"} =>
            \/ n \in late
            \/ n = openings /\ view \in UpViews
            \/ n = openings /\ view = "closeDevice" /\ mCameraDevice = n
    /\ mCameraDevice # NULL =>
         \/ mCameraDevice \in late
         \/ mCameraDevice = openings /\ view \in UpViews \cup {"closeDevice"}
         \/ mCameraDevice = openings /\ IsPosted("onLost")

\* Unless a device was late, a session belongs to the device in the field.
SessionInv ==
    late = {} =>
      \A n \in Devices : session[n] \notin {"none", "closed"} => mCameraDevice = n

Calm == ~gone /\ ~torn /\ late = {}

Ready == {"ready", "repeating"}

\* Without a race, no null is used and no closed session.
CalmInv ==
    Calm =>
      /\ ~crashed
      /\ view \in {"createSession", "closeDevice"} => mCameraDevice # NULL
      /\ view \in {"opened", "createSession"} => session[openings] = "none"
      /\ view \notin {"shown", "closeSession"} =>
            mCaptureSession = NULL /\ configuring = NULL
      /\ view \in {"shown", "closeSession"} =>
            /\ mCaptureSession # NULL => session[mCaptureSession] \in Ready
            /\ configuring # NULL => session[configuring] \in Ready
            /\ IsPosted("onConfigured") => session[openings] \in Ready

CameraInv ==
    CameraTypeOK /\ RefInv /\ InboxInv /\ ViewInv /\ DeviceInv /\ SessionInv /\ CalmInv

-----------------------------------------------------------------------------

\* A callback is taken from the head of the inbox, and is one of this opening.
LEMMA ReceiveTakesHead ==
  ASSUME CameraInv, NEW what, NEW n \in Devices, Receive(what, n)
  PROVE  /\ Len(inbox) \in Nat \ {0} /\ inbox[1].what = what /\ n = openings
         /\ Len(inbox') = Len(inbox) - 1 /\ inbox' \in Seq(Callback)
         /\ \A k \in 1 .. Len(inbox') :
              k + 1 \in 1 .. Len(inbox) /\ inbox'[k] = inbox[k + 1]
         /\ \A l \in 1 .. Len(inbox) :
              l > 1 => l - 1 \in 1 .. Len(inbox') /\ inbox'[l - 1] = inbox[l]
         /\ ~crashed /\ configuring = NULL /\ inbox # << >> /\ Delivered(openings)
<1>1. inbox \in Seq(Callback)
  BY DEF CameraInv, CameraTypeOK
<1>2. /\ ~crashed /\ configuring = NULL /\ inbox # << >> /\ inbox' = Tail(inbox)
      /\ Head(inbox) = [what |-> what, of |-> n]
  BY DEF Receive
<1>3. /\ Len(inbox) \in Nat \ {0} /\ inbox[1] = [what |-> what, of |-> n]
      /\ Len(inbox') = Len(inbox) - 1 /\ inbox' \in Seq(Callback)
      /\ \A k \in 1 .. Len(inbox') :
           k + 1 \in 1 .. Len(inbox) /\ inbox'[k] = inbox[k + 1]
      /\ \A l \in 1 .. Len(inbox) :
           l > 1 => l - 1 \in 1 .. Len(inbox') /\ inbox'[l - 1] = inbox[l]
  BY <1>1, <1>2
<1>4. n = openings /\ Delivered(openings)
  BY <1>3 DEF CameraInv, InboxInv, EntryInv
<1>5. QED
  BY <1>2, <1>3, <1>4

\* The callback was added at the end of the inbox of a running looper.
PostedAtEnd(what, n) ==
    /\ looper = "running" /\ n = openings
    /\ Len(inbox') = Len(inbox) + 1
    /\ inbox'[Len(inbox) + 1] = [what |-> what, of |-> n]
    /\ \A k \in 1 .. Len(inbox) : inbox'[k] = inbox[k]

\* A callback is added at the end of the inbox, or dropped.
LEMMA PostAppends ==
  ASSUME CameraInv, NEW n \in Devices,
         NEW what \in {"onOpened", "onLost", "onConfigured"}, Post(what, n)
  PROVE  /\ inbox' \in Seq(Callback) /\ Len(inbox) \in Nat
         /\ inbox' = inbox \/ PostedAtEnd(what, n)
<1>1. inbox \in Seq(Callback) /\ [what |-> what, of |-> n] \in Callback
  BY DEF CameraInv, CameraTypeOK, Callback
<1>2. QED
  BY <1>1 DEF Post, PostedAtEnd

\* Only a looper that does not run, or is another's, drops it.
LEMMA PostDrops ==
  ASSUME CameraInv, NEW n \in Devices,
         NEW what \in {"onOpened", "onLost", "onConfigured"}, Post(what, n),
         looper = "running", n = openings
  PROVE  PostedAtEnd(what, n)
<1>1. inbox \in Seq(Callback) /\ [what |-> what, of |-> n] \in Callback
  BY DEF CameraInv, CameraTypeOK, Callback
<1>2. QED
  BY <1>1 DEF Post, PostedAtEnd

\* open makes a device that has no number yet.
LEMMA OpenKeepsInv ==
  ASSUME CameraInv, NEW granted \in BOOLEAN, Open(granted)
  PROVE  CameraInv'
<1> USE CameraAssumption DEF CameraInv, Open, Show, fieldVars, threadVars,
        serviceVars, raceVars
<1>0. /\ openings + 1 \in Devices /\ openings' = openings + 1 /\ openings \in Nat
      /\ inbox = << >> /\ configuring = NULL /\ looper = "none"
      /\ device' \in {device, [device EXCEPT ![openings + 1] = "opening"]}
  BY DEF Devices, CameraTypeOK, ViewInv
<1>1. CameraTypeOK'
  <2>1. device' \in [Devices -> DeviceStates]
    BY <1>0 DEF CameraTypeOK, DeviceStates
  <2>2. /\ UNCHANGED <<mCameraDevice, mCaptureSession, inbox, configuring, session,
                       crashed, late, torn, gone>>
        /\ view' \in Views /\ looper' = "running" /\ previewSurface' = TRUE
        /\ mImageReader' \in {TRUE, mImageReader}
    BY DEF Views
  <2>3. openings' \in 0 .. MaxOpenings
    BY <1>0 DEF Devices
  <2>4. QED
    BY <2>1, <2>2, <2>3 DEF CameraTypeOK
<1>2. RefInv'
  <2>1. \A n \in Devices : n # openings + 1 => device'[n] = device[n]
    BY <1>0 DEF CameraTypeOK
  <2>2. \A n \in Devices : Delivered(n) => Delivered(n)'
    BY <1>0, <2>1 DEF RefInv, Delivered, Devices
  <2>3. \A n \in Devices : n > openings' => device'[n] = "none"
    BY <1>0, <2>1 DEF RefInv, Devices
  <2>4. UNCHANGED <<session, mCameraDevice, mCaptureSession, configuring>>
    OBVIOUS
  <2>5. QED
    BY <2>2, <2>3, <2>4 DEF RefInv, CameraTypeOK
<1>3. InboxInv'
  BY <1>0 DEF InboxInv
<1>4. ViewInv'
  BY <1>0 DEF ViewInv, RefInv, UpViews, LooperViews, Delivered
<1>5. DeviceInv'
  BY <1>0 DEF DeviceInv, CameraTypeOK, IsPosted, UpViews, EntryInv,
     OpenedInv
<1>6. SessionInv'
  BY <1>0 DEF SessionInv
<1>7. CalmInv'
  <2>1. device[openings + 1] = "none" /\ session[openings + 1] = "none"
    BY <1>0 DEF RefInv, Delivered, Devices
  <2>2. /\ UNCHANGED <<session, mCaptureSession, configuring, gone, torn, late,
                       crashed, inbox>>
        /\ view = "hidden" /\ view' = "opened"
    OBVIOUS
  <2>3. QED
    BY <1>0, <2>1, <2>2 DEF CalmInv, Calm
<1>8. QED
  BY <1>1, <1>2, <1>3, <1>4, <1>5, <1>6, <1>7

\* startPreview only tests the device.
LEMMA StartPreviewKeepsInv ==
  ASSUME CameraInv, StartPreview
  PROVE  CameraInv'
<1> USE CameraAssumption DEF CameraInv, StartPreview, Show, fieldVars, threadVars,
        serviceVars, raceVars
<1>1. CameraTypeOK'
  BY DEF CameraTypeOK, Views, DeviceStates, SessionStates, Callback
<1>2. RefInv'
  BY DEF RefInv, Delivered
<1>3. InboxInv'
  BY DEF InboxInv, EntryInv, Delivered, OpenedInv, LostLater
<1>4. ViewInv'
  BY DEF ViewInv, UpViews, LooperViews
<1>5. DeviceInv'
  BY DEF DeviceInv, IsPosted, UpViews, EntryInv, OpenedInv
<1>6. SessionInv'
  BY DEF SessionInv
<1>7. CalmInv'
  BY DEF CalmInv, InboxInv, Calm, Ready, IsPosted, EntryInv, OpenedInv
<1>8. QED
  BY <1>1, <1>2, <1>3, <1>4, <1>5, <1>6, <1>7

\* A session is created for the device in the field.
LEMMA CreateSessionKeepsInv ==
  ASSUME CameraInv, NEW accessible \in BOOLEAN, CreateSession(accessible)
  PROVE  CameraInv'
<1> USE CameraAssumption DEF CameraInv, CreateSession, Show, Crash, fieldVars, threadVars,
        serviceVars, raceVars
<1>1. CameraTypeOK'
  BY DEF CameraTypeOK, Views, DeviceStates, SessionStates, Callback
<1>2. RefInv'
  BY DEF RefInv, CameraTypeOK, Delivered
<1>3. InboxInv'
  BY DEF InboxInv, CameraTypeOK, ViewInv, EntryInv, Delivered, OpenedInv,
     LostLater, LooperViews, UpViews
<1>4. ViewInv'
  BY DEF ViewInv, UpViews, LooperViews
<1>5. DeviceInv'
  BY DEF DeviceInv, IsPosted, UpViews, EntryInv, OpenedInv
<1>6. SessionInv'
  BY DEF SessionInv, CameraTypeOK
<1>7. CalmInv'
  <2>1. SUFFICES ASSUME Calm'
                 PROVE  CalmInv'
    BY DEF CalmInv
  <2>2. /\ Calm /\ view = "createSession" /\ view' = "shown"
        /\ UNCHANGED <<mCaptureSession, configuring, inbox, openings, mCameraDevice>>
    BY <2>1 DEF Calm, Crash
  <2>3. /\ mCameraDevice # NULL /\ mCaptureSession = NULL /\ configuring = NULL
        /\ session[openings] = "none"
    BY <2>2 DEF CalmInv
  <2>4. mCameraDevice = openings /\ device[openings] # "none"
    <3>1. mCameraDevice \in Devices /\ Delivered(mCameraDevice)
      BY <2>3 DEF CameraTypeOK, RefInv
    <3>2. ~IsPosted("onLost")
      BY <2>2 DEF Calm, IsPosted, InboxInv, EntryInv
    <3>3. mCameraDevice = openings
      BY <2>2, <2>3, <3>2 DEF DeviceInv, Calm
    <3>4. QED
      BY <3>1, <3>3 DEF Delivered
  <2>5. mImageReader
    BY <2>2, <2>4 DEF ViewInv, LooperViews, UpViews
  <2>6. ~crashed'
    BY <2>3, <2>5
  <2>7. ~IsPosted("onConfigured")'
    BY <2>2, <2>3 DEF IsPosted, InboxInv, EntryInv
  <2>8. QED
    BY <2>2, <2>3, <2>6, <2>7 DEF CalmInv
<1>8. QED
  BY <1>1, <1>2, <1>3, <1>4, <1>5, <1>6, <1>7

\* stopPreview throws only on a session that was closed with its device.
LEMMA StopPreviewKeepsInv ==
  ASSUME CameraInv, StopPreview
  PROVE  CameraInv'
<1> USE CameraAssumption DEF CameraInv, StopPreview, Show, Crash, fieldVars, threadVars,
        serviceVars, raceVars
<1>1. CameraTypeOK'
  <2>1. session' \in [Devices -> SessionStates]
    BY DEF CameraTypeOK, SessionStates
  <2>2. UNCHANGED <<openings, fieldVars, threadVars, device, raceVars>>
    OBVIOUS
  <2>3. view' \in Views /\ crashed' \in BOOLEAN
    BY DEF Views, CameraTypeOK
  <2>4. QED
    BY <2>1, <2>2, <2>3 DEF CameraTypeOK
<1>2. RefInv'
  BY DEF RefInv, CameraTypeOK, Delivered
<1>3. InboxInv'
  BY DEF InboxInv, CameraTypeOK, ViewInv, EntryInv, Delivered, OpenedInv,
     LostLater, LooperViews, UpViews
<1>4. ViewInv'
  BY DEF ViewInv, UpViews, LooperViews
<1>5. DeviceInv'
  BY DEF DeviceInv, IsPosted, UpViews, EntryInv, OpenedInv
<1>6. SessionInv'
  BY DEF SessionInv, CameraTypeOK, RefInv, Delivered
<1>7. CalmInv'
  BY DEF CalmInv, CameraTypeOK, ViewInv, Calm, Ready, IsPosted, EntryInv,
     OpenedInv, LooperViews, UpViews
<1>8. QED
  BY <1>1, <1>2, <1>3, <1>4, <1>5, <1>6, <1>7

\* close drops the session, and a callback that is about to store one is torn.
LEMMA CloseSessionKeepsInv ==
  ASSUME CameraInv, CloseSession
  PROVE  CameraInv'
<1> USE CameraAssumption DEF CameraInv, CloseSession, Show, fieldVars, threadVars,
        serviceVars, raceVars
<1>1. CameraTypeOK'
  BY DEF CameraTypeOK, Views, DeviceStates, SessionStates, Callback
<1>2. RefInv'
  BY DEF RefInv, Delivered
<1>3. InboxInv'
  BY DEF InboxInv, EntryInv, Delivered, OpenedInv, LostLater
<1>4. ViewInv'
  BY DEF ViewInv, UpViews, LooperViews
<1>5. DeviceInv'
  BY DEF DeviceInv, IsPosted, UpViews, EntryInv, OpenedInv
<1>6. SessionInv'
  BY DEF SessionInv
<1>7. CalmInv'
  BY DEF CalmInv, Calm, Ready, IsPosted, EntryInv, OpenedInv
<1>8. QED
  BY <1>1, <1>2, <1>3, <1>4, <1>5, <1>6, <1>7

\* A device that close does not find is late from here on.
LEMMA TestDeviceKeepsInv ==
  ASSUME CameraInv, TestDevice
  PROVE  CameraInv'
<1> USE CameraAssumption DEF CameraInv, TestDevice, Show, fieldVars, threadVars,
        serviceVars, raceVars
<1>1. CameraTypeOK'
  BY DEF CameraTypeOK, ViewInv, Views, DeviceStates, SessionStates,
     Callback, LooperViews, UpViews
<1>2. RefInv'
  BY DEF RefInv, Delivered
<1>3. InboxInv'
  BY DEF InboxInv, EntryInv, Delivered, OpenedInv, LostLater
<1>4. ViewInv'
  BY DEF ViewInv, UpViews, LooperViews
<1>5. DeviceInv'
  BY DEF DeviceInv
<1>6. SessionInv'
  BY DEF SessionInv
<1>7. CalmInv'
  BY DEF CalmInv, Calm, Ready, IsPosted, EntryInv, OpenedInv
<1>8. QED
  BY <1>1, <1>2, <1>3, <1>4, <1>5, <1>6, <1>7

\* The device in the field is closed, or a callback has taken it away.
LEMMA CloseDeviceKeepsInv ==
  ASSUME CameraInv, CloseDevice
  PROVE  CameraInv'
<1> USE CameraAssumption DEF CameraInv, CloseDevice, Show, Crash, Shut, fieldVars, threadVars,
        serviceVars, raceVars
<1>1. CameraTypeOK'
  BY DEF CameraTypeOK, Views, DeviceStates, SessionStates, Callback
<1>2. RefInv'
  BY DEF RefInv, CameraTypeOK, Delivered
<1>3. InboxInv'
  BY DEF InboxInv, CameraTypeOK, ViewInv, EntryInv, Delivered, OpenedInv,
     LostLater, LooperViews, UpViews
<1>4. ViewInv'
  <2>1. /\ view = "closeDevice" /\ view' = "closeReader"
        /\ UNCHANGED <<openings, mImageReader, looper>>
    OBVIOUS
  <2>2. device'[openings] # "none" => mImageReader
    <3>1. openings \in Devices /\ (device[openings] # "none" => mImageReader)
      BY <2>1 DEF ViewInv, LooperViews
    <3>2. CASE mCameraDevice = NULL
      BY <3>1, <3>2
    <3>3. CASE mCameraDevice # NULL
      <4>1. mCameraDevice \in Devices /\ device[mCameraDevice] # "none"
        BY <3>3 DEF CameraTypeOK, RefInv, Delivered
      <4>2. device' = [device EXCEPT ![mCameraDevice] = "closed"]
        BY <3>3
      <4>3. QED
        BY <3>1, <4>1, <4>2 DEF CameraTypeOK
    <3>4. QED
      BY <3>2, <3>3
  <2>3. QED
    BY <2>1, <2>2 DEF ViewInv, LooperViews
<1>5. DeviceInv'
  BY DEF DeviceInv, CameraTypeOK, IsPosted, UpViews, EntryInv, OpenedInv
<1>6. SessionInv'
  BY DEF SessionInv, CameraTypeOK
<1>7. CalmInv'
  BY DEF CalmInv, Calm, Ready, IsPosted, EntryInv, OpenedInv
<1>8. QED
  BY <1>1, <1>2, <1>3, <1>4, <1>5, <1>6, <1>7

\* The looper is told to quit.
LEMMA CloseReaderKeepsInv ==
  ASSUME CameraInv, CloseReader
  PROVE  CameraInv'
<1> USE CameraAssumption DEF CameraInv, CloseReader, Show, QuitSafely, fieldVars, threadVars,
        serviceVars, raceVars
<1>1. CameraTypeOK'
  BY DEF CameraTypeOK, Views, DeviceStates, SessionStates, Callback
<1>2. RefInv'
  BY DEF RefInv, Delivered
<1>3. InboxInv'
  BY DEF InboxInv, EntryInv, Delivered, OpenedInv, LostLater
<1>4. ViewInv'
  BY DEF ViewInv, UpViews, LooperViews
<1>5. DeviceInv'
  BY DEF DeviceInv, IsPosted, UpViews, EntryInv, OpenedInv
<1>6. SessionInv'
  BY DEF SessionInv
<1>7. CalmInv'
  BY DEF CalmInv, Calm, Ready, IsPosted, EntryInv, OpenedInv
<1>8. QED
  BY <1>1, <1>2, <1>3, <1>4, <1>5, <1>6, <1>7

\* The background thread has ended with nothing left to do.
LEMMA JoinBackgroundThreadKeepsInv ==
  ASSUME CameraInv, JoinBackgroundThread
  PROVE  CameraInv'
<1> USE CameraAssumption DEF CameraInv, JoinBackgroundThread, Show, fieldVars, threadVars,
        serviceVars, raceVars
<1>1. CameraTypeOK'
  BY DEF CameraTypeOK, Views, DeviceStates, SessionStates, Callback
<1>2. RefInv'
  BY DEF RefInv, Delivered
<1>3. InboxInv'
  BY DEF InboxInv, EntryInv, Delivered, OpenedInv, LostLater
<1>4. ViewInv'
  BY DEF ViewInv, UpViews, LooperViews
<1>5. DeviceInv'
  BY DEF DeviceInv, IsPosted, UpViews, EntryInv, OpenedInv
<1>6. SessionInv'
  BY DEF SessionInv
<1>7. CalmInv'
  BY DEF CalmInv, Calm, Ready, IsPosted, EntryInv, OpenedInv
<1>8. QED
  BY <1>1, <1>2, <1>3, <1>4, <1>5, <1>6, <1>7

\* A delivered device is that of this opening.
LEMMA OnOpenedKeepsInv ==
  ASSUME CameraInv, NEW n \in Devices, OnOpened(n)
  PROVE  CameraInv'
<1> USE CameraAssumption DEF CameraInv, OnOpened, fieldVars, threadVars,
        serviceVars, raceVars
<1>0. /\ Len(inbox) \in Nat \ {0} /\ inbox[1].what = "onOpened" /\ n = openings
      /\ Len(inbox') = Len(inbox) - 1 /\ inbox' \in Seq(Callback)
      /\ \A k \in 1 .. Len(inbox') :
           k + 1 \in 1 .. Len(inbox) /\ inbox'[k] = inbox[k + 1]
      /\ \A l \in 1 .. Len(inbox) :
           l > 1 => l - 1 \in 1 .. Len(inbox') /\ inbox'[l - 1] = inbox[l]
      /\ ~crashed /\ configuring = NULL /\ inbox # << >> /\ Delivered(openings)
  BY ReceiveTakesHead DEF OnOpened
<1>1. CameraTypeOK'
  BY <1>0 DEF CameraTypeOK
<1>2. RefInv'
  BY <1>0 DEF RefInv, Delivered
<1>3. InboxInv'
  <2>1. UNCHANGED <<openings, device, session, gone>>
    OBVIOUS
  <2>2. \A l \in 1 .. Len(inbox) : l # 1 => inbox[l].what # "onOpened"
    BY <1>0 DEF InboxInv, EntryInv, OpenedInv
  <2>3. ASSUME NEW k \in 1 .. Len(inbox')
        PROVE  EntryInv(k)'
    <3>1. k + 1 \in 1 .. Len(inbox) /\ inbox'[k] = inbox[k + 1] /\ k + 1 # 1
      BY <1>0
    <3>2. EntryInv(k + 1)
      BY <3>1 DEF InboxInv
    <3>3. QED
      BY <2>1, <2>2, <3>1, <3>2 DEF EntryInv, Delivered
  <2>4. QED
    BY <2>3 DEF InboxInv
<1>4. ViewInv'
  BY <1>0 DEF ViewInv
<1>5. DeviceInv'
  <2>1. /\ UNCHANGED <<view, openings, device, late>> /\ mCameraDevice' = openings
        /\ OpenedInv(1)
    BY <1>0 DEF InboxInv, EntryInv
  <2>2. LostLater(1) => IsPosted("onLost")'
    BY <1>0 DEF LostLater, IsPosted
  <2>3. \/ openings \in late \/ view \in UpViews \cup {"closeDevice"}
        \/ IsPosted("onLost")'
    BY <1>0, <2>1, <2>2 DEF OpenedInv, DeviceInv
  <2>4. QED
    BY <1>0, <2>1, <2>3 DEF DeviceInv, OpenedInv
<1>6. SessionInv'
  BY <1>0 DEF SessionInv, DeviceInv
<1>7. CalmInv'
  BY <1>0 DEF CalmInv, Calm, Ready, IsPosted, EntryInv, OpenedInv
<1>8. QED
  BY <1>1, <1>2, <1>3, <1>4, <1>5, <1>6, <1>7

\* A lost device takes its session with it.
LEMMA OnLostKeepsInv ==
  ASSUME CameraInv, NEW n \in Devices, OnLost(n)
  PROVE  CameraInv'
<1> USE CameraAssumption DEF CameraInv, OnLost, Shut, fieldVars, threadVars,
        serviceVars, raceVars
<1>0. /\ Len(inbox) \in Nat \ {0} /\ inbox[1].what = "onLost" /\ n = openings
      /\ Len(inbox') = Len(inbox) - 1 /\ inbox' \in Seq(Callback)
      /\ \A k \in 1 .. Len(inbox') :
           k + 1 \in 1 .. Len(inbox) /\ inbox'[k] = inbox[k + 1]
      /\ \A l \in 1 .. Len(inbox) :
           l > 1 => l - 1 \in 1 .. Len(inbox') /\ inbox'[l - 1] = inbox[l]
      /\ ~crashed /\ configuring = NULL /\ inbox # << >> /\ Delivered(openings)
  BY ReceiveTakesHead DEF OnLost
<1>1. CameraTypeOK'
  BY <1>0 DEF CameraTypeOK, Views, DeviceStates, SessionStates, Callback
<1>2. RefInv'
  BY <1>0 DEF RefInv, Delivered
<1>3. InboxInv'
  <2>1. /\ UNCHANGED <<openings, late, gone>> /\ gone /\ mCameraDevice' = NULL
        /\ device' = [device EXCEPT ![openings] = "closed"]
        /\ session' = [session EXCEPT ![openings] = "closed"]
    BY <1>0 DEF InboxInv, EntryInv
  <2>2. /\ device[openings] # "open" /\ openings # NULL /\ openings \in Devices
        /\ device'[openings] = "closed" /\ session'[openings] = "closed"
    BY <1>0, <2>1 DEF InboxInv, EntryInv, CameraTypeOK
  <2>3. ASSUME NEW k \in 1 .. Len(inbox')
        PROVE  EntryInv(k)'
    <3>1. /\ k + 1 \in 1 .. Len(inbox) /\ inbox'[k] = inbox[k + 1]
          /\ EntryInv(k + 1)
      BY <1>0 DEF InboxInv
    <3>2. ASSUME inbox'[k].what = "onOpened"
          PROVE  OpenedInv(k)'
      <4>1. OpenedInv(k + 1)
        BY <3>1, <3>2 DEF EntryInv
      <4>2. ASSUME NEW l \in 1 .. Len(inbox'), l # k
            PROVE  inbox'[l].what # "onOpened"
        BY <1>0, <3>1, <4>1, <4>2 DEF OpenedInv
      <4>3. LostLater(k + 1) => LostLater(k)'
        BY <1>0 DEF LostLater
      <4>4. openings \in late' \/ LostLater(k)'
        BY <2>1, <2>2, <4>1, <4>3 DEF OpenedInv
      <4>5. QED
        BY <2>1, <2>2, <4>2, <4>4 DEF OpenedInv
    <3>3. QED
      BY <2>1, <2>2, <3>1, <3>2 DEF EntryInv, Delivered
  <2>4. QED
    BY <2>3 DEF InboxInv
<1>4. ViewInv'
  <2>1. /\ UNCHANGED <<view, openings, mImageReader, looper>> /\ n = openings
        /\ device[openings] # "none"
    BY <1>0 DEF Delivered
  <2>2. QED
    BY <2>1 DEF ViewInv
<1>5. DeviceInv'
  BY <1>0 DEF DeviceInv, CameraTypeOK
<1>6. SessionInv'
  BY <1>0 DEF SessionInv, CameraTypeOK, DeviceInv, UpViews
<1>7. CalmInv'
  BY <1>0 DEF CalmInv, InboxInv, Calm, Ready, IsPosted, EntryInv, OpenedInv
<1>8. QED
  BY <1>1, <1>2, <1>3, <1>4, <1>5, <1>6, <1>7

\* A configured session is used later only if there is a device, and a race is
\* noticed.
LEMMA OnConfiguredKeepsInv ==
  ASSUME CameraInv, NEW n \in Devices, OnConfigured(n)
  PROVE  CameraInv'
<1> USE CameraAssumption DEF CameraInv, OnConfigured, DeviceThere, fieldVars, threadVars,
        serviceVars, raceVars
<1>0. /\ Len(inbox) \in Nat \ {0} /\ inbox[1].what = "onConfigured" /\ n = openings
      /\ Len(inbox') = Len(inbox) - 1 /\ inbox' \in Seq(Callback)
      /\ \A k \in 1 .. Len(inbox') :
           k + 1 \in 1 .. Len(inbox) /\ inbox'[k] = inbox[k + 1]
      /\ \A l \in 1 .. Len(inbox) :
           l > 1 => l - 1 \in 1 .. Len(inbox') /\ inbox'[l - 1] = inbox[l]
      /\ ~crashed /\ configuring = NULL /\ inbox # << >> /\ Delivered(openings)
  BY ReceiveTakesHead DEF OnConfigured
<1>1. CameraTypeOK'
  BY <1>0 DEF CameraTypeOK
<1>2. RefInv'
  <2>1. UNCHANGED <<openings, device, session, mCameraDevice, mCaptureSession>>
    OBVIOUS
  <2>2. session[openings] # "none" /\ configuring' \in {openings, NULL}
    BY <1>0 DEF InboxInv, EntryInv
  <2>3. QED
    BY <2>1, <2>2 DEF RefInv, Delivered
<1>3. InboxInv'
  <2>1. UNCHANGED <<openings, late, gone, mCameraDevice, device, session>>
    OBVIOUS
  <2>2. ASSUME NEW k \in 1 .. Len(inbox')
        PROVE  EntryInv(k)'
    <3>1. /\ k + 1 \in 1 .. Len(inbox) /\ inbox'[k] = inbox[k + 1]
          /\ EntryInv(k + 1)
      BY <1>0 DEF InboxInv
    <3>2. ASSUME inbox'[k].what = "onOpened"
          PROVE  OpenedInv(k)'
      <4>1. OpenedInv(k + 1)
        BY <3>1, <3>2 DEF EntryInv
      <4>2. ASSUME NEW l \in 1 .. Len(inbox'), l # k
            PROVE  inbox'[l].what # "onOpened"
        BY <1>0, <3>1, <4>1, <4>2 DEF OpenedInv
      <4>3. LostLater(k + 1) => LostLater(k)'
        BY <1>0 DEF LostLater
      <4>4. QED
        BY <2>1, <4>1, <4>2, <4>3 DEF OpenedInv
    <3>3. QED
      BY <2>1, <3>1, <3>2 DEF EntryInv, Delivered
  <2>3. QED
    BY <2>2 DEF InboxInv
<1>4. ViewInv'
  BY <1>0 DEF ViewInv
<1>5. DeviceInv'
  <2>1. UNCHANGED <<openings, view, late, mCameraDevice, device>>
    OBVIOUS
  <2>2. IsPosted("onLost") => IsPosted("onLost")'
    <3>1. ASSUME NEW l \in 1 .. Len(inbox), inbox[l].what = "onLost"
          PROVE  IsPosted("onLost")'
      <4>1. l > 1
        BY <1>0, <3>1
      <4>2. QED
        BY <1>0, <3>1, <4>1 DEF IsPosted
    <3>2. QED
      BY <3>1 DEF IsPosted
  <2>3. QED
    BY <2>1, <2>2 DEF DeviceInv
<1>6. SessionInv'
  BY <1>0 DEF SessionInv
<1>7. CalmInv'
  <2>1. SUFFICES ASSUME Calm'
                 PROVE  CalmInv'
    BY DEF CalmInv
  <2>2. /\ UNCHANGED <<openings, view, late, gone, mCameraDevice, mCaptureSession,
                       device, session, crashed>>
        /\ Calm /\ (mCameraDevice # NULL => view \notin {"testDevice", "closeDevice"})
        /\ configuring' = IF mCameraDevice # NULL THEN openings ELSE NULL
    BY <1>0, <2>1 DEF Calm
  <2>3. IsPosted("onConfigured") /\ session[openings] # "none"
    BY <1>0 DEF IsPosted, InboxInv, EntryInv
  <2>4. IsPosted("onConfigured")' => IsPosted("onConfigured")
    BY <2>3
  <2>5. view \notin {"opened", "createSession"}
    BY <2>2, <2>3 DEF CalmInv
  <2>6. view \notin {"shown", "closeSession"} => mCameraDevice = NULL
    <3>1. ~IsPosted("onLost")
      BY <2>2 DEF Calm, IsPosted, InboxInv, EntryInv
    <3>2. mCameraDevice # NULL => view \in UpViews \cup {"closeDevice"}
      BY <2>2, <3>1 DEF DeviceInv, Calm
    <3>3. QED
      BY <2>2, <2>5, <3>2 DEF UpViews
  <2>7. QED
    BY <2>2, <2>3, <2>4, <2>5, <2>6 DEF CalmInv
<1>8. QED
  BY <1>1, <1>2, <1>3, <1>4, <1>5, <1>6, <1>7

\* A session that was closed meanwhile makes onConfigured throw.
LEMMA StartRepeatingKeepsInv ==
  ASSUME CameraInv, StartRepeating
  PROVE  CameraInv'
<1> USE CameraAssumption DEF CameraInv, StartRepeating, Crash, fieldVars, threadVars,
        serviceVars, raceVars
<1>1. CameraTypeOK'
  <2>1. session' \in [Devices -> SessionStates]
    BY DEF CameraTypeOK, SessionStates
  <2>2. UNCHANGED <<view, openings, mCameraDevice, mImageReader, previewSurface,
                    looper, inbox, device, raceVars>>
    OBVIOUS
  <2>3. /\ mCaptureSession' \in Devices \cup {NULL} /\ configuring' = NULL
        /\ crashed' \in BOOLEAN
    BY DEF CameraTypeOK
  <2>4. QED
    BY <2>1, <2>2, <2>3 DEF CameraTypeOK
<1>2. RefInv'
  BY DEF RefInv, CameraTypeOK, Delivered
<1>3. InboxInv'
  BY DEF InboxInv, CameraTypeOK, ViewInv, EntryInv, Delivered, OpenedInv,
     LostLater, LooperViews, UpViews
<1>4. ViewInv'
  BY DEF ViewInv
<1>5. DeviceInv'
  BY DEF DeviceInv, IsPosted, UpViews, EntryInv, OpenedInv
<1>6. SessionInv'
  BY DEF SessionInv, CameraTypeOK, RefInv, Delivered
<1>7. CalmInv'
  BY DEF CalmInv, CameraTypeOK, ViewInv, Calm, Ready, IsPosted, EntryInv,
     OpenedInv, LooperViews, UpViews
<1>8. QED
  BY <1>1, <1>2, <1>3, <1>4, <1>5, <1>6, <1>7

\* The looper ends.
LEMMA QuitKeepsInv ==
  ASSUME CameraInv, Quit
  PROVE  CameraInv'
<1> USE CameraAssumption DEF CameraInv, Quit, fieldVars, threadVars,
        serviceVars, raceVars
<1>1. CameraTypeOK'
  BY DEF CameraTypeOK
<1>2. RefInv'
  BY DEF RefInv, Delivered
<1>3. InboxInv'
  BY DEF InboxInv
<1>4. ViewInv'
  BY DEF ViewInv
<1>5. DeviceInv'
  BY DEF DeviceInv, IsPosted, UpViews, EntryInv, OpenedInv
<1>6. SessionInv'
  BY DEF SessionInv
<1>7. CalmInv'
  BY DEF CalmInv, Calm, Ready, IsPosted, EntryInv, OpenedInv
<1>8. QED
  BY <1>1, <1>2, <1>3, <1>4, <1>5, <1>6, <1>7

\* The service opens a device.
LEMMA DeviceOpensKeepsInv ==
  ASSUME CameraInv, NEW n \in Devices, DeviceOpens(n)
  PROVE  CameraInv'
<1> USE CameraAssumption DEF CameraInv, DeviceOpens, Service, fieldVars, threadVars,
        serviceVars, raceVars
<1>0. /\ inbox' \in Seq(Callback) /\ Len(inbox) \in Nat
      /\ inbox' = inbox \/ PostedAtEnd("onOpened", n)
  BY PostAppends DEF DeviceOpens
<1>1. CameraTypeOK'
  <2>1. device' \in [Devices -> DeviceStates]
    BY DEF CameraTypeOK, DeviceStates
  <2>2. /\ UNCHANGED <<view, openings, fieldVars, looper, configuring, crashed, late,
                       torn, session>>
        /\ gone' \in {TRUE, gone}
    OBVIOUS
  <2>3. looper = "none" => inbox' = << >>
    BY <1>0 DEF CameraTypeOK, PostedAtEnd
  <2>4. QED
    BY <1>0, <2>1, <2>2, <2>3 DEF CameraTypeOK
<1>2. RefInv'
  BY <1>0 DEF RefInv, Delivered
<1>3. InboxInv'
  <2>1. /\ UNCHANGED <<openings, late, gone, mCameraDevice, session>>
        /\ device[n] = "opening" /\ device' = [device EXCEPT ![n] = "open"]
        /\ device'[n] = "open"
    BY DEF CameraTypeOK
  <2>2. \A k \in 1 .. Len(inbox) : Delivered(openings) /\ n # openings
    BY <2>1 DEF InboxInv, EntryInv, Delivered
  <2>3. CASE inbox' = inbox
    <3>1. Len(inbox) # 0 => device'[openings] = device[openings]
      BY <1>0, <2>1, <2>2 DEF CameraTypeOK
    <3>2. QED
      BY <1>0, <2>1, <2>3, <3>1 DEF InboxInv, EntryInv, OpenedInv, LostLater,
         Delivered
  <2>4. CASE PostedAtEnd("onOpened", n)
    <3>1. Len(inbox) = 0 /\ Len(inbox') = 1 /\ n = openings
      BY <1>0, <2>2, <2>4 DEF PostedAtEnd
    <3>2. inbox'[1] = [what |-> "onOpened", of |-> n]
      BY <2>4, <3>1 DEF PostedAtEnd
    <3>3. mCameraDevice # openings
      BY <2>1, <3>1 DEF RefInv, Delivered, CameraTypeOK
    <3>4. EntryInv(1)'
      BY <2>1, <3>1, <3>2, <3>3 DEF EntryInv, Delivered, OpenedInv
    <3>5. QED
      BY <3>1, <3>4 DEF InboxInv
  <2>5. QED
    BY <1>0, <2>3, <2>4
<1>4. ViewInv'
  BY <1>0 DEF ViewInv
<1>5. DeviceInv'
  <2>1. /\ UNCHANGED <<view, openings, late, mCameraDevice>>
        /\ device[n] = "opening" /\ device' = [device EXCEPT ![n] = "open"]
    OBVIOUS
  <2>2. \A m \in Devices : device'[m] \in {"opening", "open"} =>
                             device[m] \in {"opening", "open"}
    BY <2>1 DEF CameraTypeOK
  <2>3. IsPosted("onLost") => IsPosted("onLost")'
    BY <1>0 DEF IsPosted, PostedAtEnd
  <2>4. QED
    BY <2>1, <2>2, <2>3 DEF DeviceInv
<1>6. SessionInv'
  BY <1>0 DEF SessionInv
<1>7. CalmInv'
  <2>1. UNCHANGED <<view, openings, late, gone, torn, crashed, mCameraDevice,
                    mCaptureSession, configuring, session>>
    OBVIOUS
  <2>2. IsPosted("onConfigured")' => IsPosted("onConfigured")
    <3>1. CASE inbox' = inbox
      BY <3>1 DEF IsPosted
    <3>2. CASE PostedAtEnd("onOpened", n)
      <4>1. ASSUME NEW k \in 1 .. Len(inbox'), inbox'[k].what = "onConfigured"
            PROVE  k \in 1 .. Len(inbox) /\ inbox[k].what = "onConfigured"
        BY <1>0, <3>2, <4>1 DEF PostedAtEnd
      <4>2. QED
        BY <4>1 DEF IsPosted
    <3>3. QED
      BY <1>0, <3>1, <3>2
  <2>3. QED
    BY <2>1, <2>2 DEF CalmInv, Calm
<1>8. QED
  BY <1>1, <1>2, <1>3, <1>4, <1>5, <1>6, <1>7

\* A device is lost.
LEMMA DeviceLostKeepsInv ==
  ASSUME CameraInv, NEW n \in Devices, DeviceLost(n)
  PROVE  CameraInv'
<1> USE CameraAssumption DEF CameraInv, DeviceLost, Service, fieldVars, threadVars,
        serviceVars, raceVars
<1>0. /\ inbox' \in Seq(Callback) /\ Len(inbox) \in Nat
      /\ inbox' = inbox \/ PostedAtEnd("onLost", n)
  BY PostAppends DEF DeviceLost
<1>1. CameraTypeOK'
  <2>1. device' \in [Devices -> DeviceStates]
    BY DEF CameraTypeOK, DeviceStates
  <2>2. /\ UNCHANGED <<view, openings, fieldVars, looper, configuring, crashed, late,
                       torn, session>>
        /\ gone' \in {TRUE, gone}
    OBVIOUS
  <2>3. looper = "none" => inbox' = << >>
    BY <1>0 DEF CameraTypeOK, PostedAtEnd
  <2>4. QED
    BY <1>0, <2>1, <2>2, <2>3 DEF CameraTypeOK
<1>2. RefInv'
  BY <1>0 DEF RefInv, Delivered
<1>3. InboxInv'
  <2>1. /\ UNCHANGED <<openings, late, mCameraDevice, session>> /\ gone' = TRUE
        /\ device' = [device EXCEPT ![n] = "lost"] /\ device'[n] = "lost"
        /\ device[n] \in {"opening", "open"}
    BY DEF CameraTypeOK
  <2>2. Delivered(openings) /\ openings \in Devices => Delivered(openings)'
    BY <2>1 DEF Delivered, CameraTypeOK
  <2>3. CASE PostedAtEnd("onLost", n)
    <3>1. /\ n = openings /\ Len(inbox') = Len(inbox) + 1
          /\ inbox'[Len(inbox) + 1] = [what |-> "onLost", of |-> n]
          /\ \A k \in 1 .. Len(inbox) : inbox'[k] = inbox[k]
      BY <2>3 DEF PostedAtEnd
    <3>2. ASSUME NEW k, k = Len(inbox) + 1
          PROVE  EntryInv(k)'
      <4>1. /\ inbox'[k].what = "onLost"
            /\ inbox'[k].of = openings
        BY <3>1, <3>2
      <4>2. QED
        BY <2>1, <3>1, <4>1 DEF EntryInv, Delivered
    <3>3. ASSUME NEW k \in 1 .. Len(inbox)
          PROVE  EntryInv(k)'
      <4>1. EntryInv(k) /\ inbox'[k] = inbox[k]
        BY <3>1 DEF InboxInv
      <4>2. LostLater(k)'
        BY <1>0, <3>1 DEF LostLater
      <4>3. OpenedInv(k) => OpenedInv(k)'
        <5>1. \A l \in 1 .. Len(inbox') :
                l \in 1 .. Len(inbox) \/ inbox'[l].what = "onLost"
          BY <1>0, <3>1
        <5>2. QED
          BY <2>1, <3>1, <4>2, <5>1 DEF OpenedInv
      <4>4. device'[openings] = "lost"
        BY <2>1, <3>1
      <4>5. QED
        BY <2>1, <4>1, <4>3, <4>4 DEF EntryInv, Delivered
    <3>4. ASSUME NEW k \in 1 .. Len(inbox')
          PROVE  EntryInv(k)'
      <4>1. k \in 1 .. Len(inbox) \/ k = Len(inbox) + 1
        BY <1>0, <3>1
      <4>2. QED
        BY <3>2, <3>3, <4>1
    <3>5. QED
      BY <3>4 DEF InboxInv
  <2>4. CASE inbox' = inbox /\ ~PostedAtEnd("onLost", n)
    <3>1. n = openings => looper # "running"
      BY <2>4, PostDrops DEF DeviceLost
    <3>2. n = openings => n \in late
      <4>1. n = openings => view \notin UpViews \cup {"closeDevice"}
        BY <3>1 DEF ViewInv, LooperViews
      <4>2. QED
        BY <2>1, <4>1 DEF DeviceInv
    <3>3. ASSUME NEW k \in 1 .. Len(inbox)
          PROVE  EntryInv(k)'
      <4>1. EntryInv(k) /\ inbox' = inbox
        BY <2>4 DEF InboxInv
      <4>2. device'[openings] # "open" \/ device'[openings] = device[openings]
        BY <2>1 DEF CameraTypeOK
      <4>3. openings \in Devices
        <5>1. inbox # << >>
          BY <1>0
        <5>2. looper # "none"
          BY <5>1 DEF CameraTypeOK
        <5>3. QED
          BY <5>2 DEF ViewInv
      <4>4. n # openings => device'[openings] = device[openings]
        BY <2>1, <4>3 DEF CameraTypeOK
      <4>5. OpenedInv(k) => OpenedInv(k)'
        BY <2>1, <3>2, <4>1, <4>4 DEF OpenedInv, LostLater
      <4>6. Delivered(openings)'
        BY <2>2, <4>1, <4>3 DEF EntryInv
      <4>7. QED
        BY <2>1, <4>1, <4>4, <4>5, <4>6 DEF EntryInv
    <3>4. QED
      BY <2>4, <3>3 DEF InboxInv
  <2>5. QED
    BY <1>0, <2>3, <2>4
<1>4. ViewInv'
  BY <1>0 DEF ViewInv
<1>5. DeviceInv'
  <2>1. /\ UNCHANGED <<view, openings, late, mCameraDevice>>
        /\ device' = [device EXCEPT ![n] = "lost"]
    OBVIOUS
  <2>2. \A m \in Devices : device'[m] \in {"opening", "open"} =>
                             device[m] \in {"opening", "open"}
    BY <2>1 DEF CameraTypeOK
  <2>3. IsPosted("onLost") => IsPosted("onLost")'
    BY <1>0 DEF IsPosted, PostedAtEnd
  <2>4. QED
    BY <2>1, <2>2, <2>3 DEF DeviceInv
<1>6. SessionInv'
  BY <1>0 DEF SessionInv
<1>7. CalmInv'
  BY <1>0 DEF CalmInv, Calm, Ready, IsPosted, EntryInv, OpenedInv
<1>8. QED
  BY <1>1, <1>2, <1>3, <1>4, <1>5, <1>6, <1>7

\* The service configures a session, or fails to.
LEMMA SessionConfiguredKeepsInv ==
  ASSUME CameraInv, NEW n \in Devices, NEW ok \in BOOLEAN, SessionConfigured(n, ok)
  PROVE  CameraInv'
<1> USE CameraAssumption DEF CameraInv, SessionConfigured, Service, fieldVars, threadVars,
        serviceVars, raceVars
<1>0. /\ inbox' \in Seq(Callback) /\ Len(inbox) \in Nat
      /\ inbox' = inbox \/ PostedAtEnd("onConfigured", n)
  <2>1. CASE ok
    <3>1. Post("onConfigured", n)
      BY <2>1, Zenon DEF SessionConfigured
    <3>2. QED
      BY <2>1, <3>1, PostAppends
  <2>2. CASE ~ok
    <3>1. inbox' = inbox
      BY <2>2, Zenon DEF SessionConfigured
    <3>2. inbox \in Seq(Callback) /\ Len(inbox) \in Nat
      BY DEF CameraTypeOK
    <3>3. QED
      BY <3>1, <3>2
  <2>3. QED
    BY <2>1, <2>2
<1>1. CameraTypeOK'
  <2>1. session' \in [Devices -> SessionStates]
    BY DEF CameraTypeOK, SessionStates
  <2>2. /\ UNCHANGED <<view, openings, fieldVars, looper, configuring, crashed, late,
                       torn, device>>
        /\ gone' \in {TRUE, gone}
    OBVIOUS
  <2>3. looper = "none" => inbox' = << >>
    BY <1>0 DEF CameraTypeOK, PostedAtEnd
  <2>4. QED
    BY <1>0, <2>1, <2>2, <2>3 DEF CameraTypeOK
<1>2. RefInv'
  BY <1>0 DEF RefInv, Delivered
<1>3. InboxInv'
  <2>1. /\ UNCHANGED <<openings, late, gone, mCameraDevice, device>>
        /\ session[n] = "configuring" /\ session'[n] # "none"
        /\ \A m \in Devices : session[m] # "none" => session'[m] # "none"
    BY DEF CameraTypeOK
  <2>2. ASSUME NEW k \in 1 .. Len(inbox), inbox'[k] = inbox[k], Len(inbox') \in Nat,
               \A l \in 1 .. Len(inbox) : l \in 1 .. Len(inbox') /\ inbox'[l] = inbox[l],
               \A l \in 1 .. Len(inbox') :
                  l \in 1 .. Len(inbox) \/ inbox'[l].what = "onConfigured"
        PROVE  EntryInv(k)'
    <3>1. EntryInv(k)
      BY DEF InboxInv
    <3>2. openings \in Devices
      <4>1. inbox # << >>
        BY <1>0
      <4>2. looper # "none"
        BY <4>1 DEF CameraTypeOK
      <4>3. QED
        BY <4>2 DEF ViewInv
    <3>3. OpenedInv(k) => OpenedInv(k)'
      BY <2>1, <2>2 DEF OpenedInv, LostLater
    <3>4. QED
      BY <2>1, <2>2, <3>1, <3>2, <3>3 DEF EntryInv, Delivered
  <2>3. CASE inbox' = inbox
    BY <1>0, <2>2, <2>3 DEF InboxInv
  <2>4. CASE PostedAtEnd("onConfigured", n)
    <3>1. /\ n = openings /\ Len(inbox') = Len(inbox) + 1
          /\ inbox'[Len(inbox) + 1] = [what |-> "onConfigured", of |-> n]
          /\ \A k \in 1 .. Len(inbox) : inbox'[k] = inbox[k]
      BY <2>4 DEF PostedAtEnd
    <3>2. ASSUME NEW k, k = Len(inbox) + 1
          PROVE  EntryInv(k)'
      <4>1. /\ inbox'[k].what = "onConfigured"
            /\ inbox'[k].of = openings
        BY <3>1, <3>2
      <4>2. Delivered(n)
        BY <2>1 DEF RefInv
      <4>3. QED
        BY <2>1, <3>1, <4>1, <4>2 DEF EntryInv, Delivered
    <3>3. ASSUME NEW k \in 1 .. Len(inbox)
          PROVE  EntryInv(k)'
      <4>1. Len(inbox') \in Nat /\ inbox'[k] = inbox[k]
        BY <1>0, <3>1
      <4>2. \A l \in 1 .. Len(inbox) : l \in 1 .. Len(inbox') /\ inbox'[l] = inbox[l]
        BY <1>0, <3>1
      <4>3. \A l \in 1 .. Len(inbox') :
               l \in 1 .. Len(inbox) \/ inbox'[l].what = "onConfigured"
        BY <1>0, <3>1
      <4>4. QED
        BY <4>1, <4>2, <4>3, <2>2
    <3>4. ASSUME NEW k \in 1 .. Len(inbox')
          PROVE  EntryInv(k)'
      <4>1. k \in 1 .. Len(inbox) \/ k = Len(inbox) + 1
        BY <1>0, <3>1
      <4>2. QED
        BY <3>2, <3>3, <4>1
    <3>5. QED
      BY <3>4 DEF InboxInv
  <2>5. QED
    BY <1>0, <2>3, <2>4
<1>4. ViewInv'
  BY <1>0 DEF ViewInv
<1>5. DeviceInv'
  <2>1. UNCHANGED <<view, openings, late, mCameraDevice, device>>
    OBVIOUS
  <2>2. IsPosted("onLost") => IsPosted("onLost")'
    BY <1>0 DEF IsPosted, PostedAtEnd
  <2>3. QED
    BY <2>1, <2>2 DEF DeviceInv
<1>6. SessionInv'
  BY <1>0 DEF SessionInv
<1>7. CalmInv'
  BY <1>0 DEF CameraTypeOK, RefInv, InboxInv, ViewInv, DeviceInv,
     SessionInv, CalmInv, Calm, Ready, IsPosted, EntryInv, OpenedInv
<1>8. QED
  BY <1>1, <1>2, <1>3, <1>4, <1>5, <1>6, <1>7

-----------------------------------------------------------------------------
\* CameraInv holds in every reachable state, for any number of openings.
THEOREM CameraInvariant == CameraSpec => []CameraInv
<1>1. CameraInit => CameraInv
  <2> SUFFICES ASSUME CameraInit
               PROVE  CameraInv
    OBVIOUS
  <2> USE CameraAssumption DEF CameraInit
  <2>1. Len(inbox) = 0
    OBVIOUS
  <2>2. CameraTypeOK
    <3>1. inbox \in Seq(Callback) /\ openings \in 0 .. MaxOpenings
      OBVIOUS
    <3>2. /\ device \in [Devices -> DeviceStates]
          /\ session \in [Devices -> SessionStates]
      BY DEF DeviceStates, SessionStates
    <3>3. QED
      BY <3>1, <3>2 DEF CameraTypeOK, Views
  <2>3. RefInv /\ InboxInv /\ DeviceInv /\ SessionInv
    BY <2>1 DEF RefInv, InboxInv, DeviceInv, SessionInv, Delivered
  <2>4. ViewInv /\ CalmInv
    BY <2>1 DEF ViewInv, LooperViews, UpViews, CalmInv, IsPosted
  <2>5. QED
    BY <2>2, <2>3, <2>4 DEF CameraInv
<1>2. CameraInv /\ [CameraNext]_cameraVars => CameraInv'
  <2> SUFFICES ASSUME CameraInv, [CameraNext]_cameraVars
               PROVE  CameraInv'
    OBVIOUS
  <2>1. ASSUME NEW granted \in BOOLEAN, Open(granted)
        PROVE  CameraInv'
    BY <2>1, OpenKeepsInv
  <2>2. CASE StartPreview
    BY <2>2, StartPreviewKeepsInv
  <2>3. ASSUME NEW accessible \in BOOLEAN, CreateSession(accessible)
        PROVE  CameraInv'
    BY <2>3, CreateSessionKeepsInv
  <2>4. CASE CloseStep
    BY <2>4, StopPreviewKeepsInv, CloseSessionKeepsInv, TestDeviceKeepsInv,
       CloseDeviceKeepsInv, CloseReaderKeepsInv, JoinBackgroundThreadKeepsInv
       DEF CloseStep
  <2>5. CASE CallbackStep
    BY <2>5, OnOpenedKeepsInv, OnLostKeepsInv, OnConfiguredKeepsInv,
       StartRepeatingKeepsInv, QuitKeepsInv DEF CallbackStep
  <2>6. ASSUME NEW n \in Devices, DeviceOpens(n) \/ DeviceLost(n)
        PROVE  CameraInv'
    BY <2>6, DeviceOpensKeepsInv, DeviceLostKeepsInv
  <2>7. ASSUME NEW n \in Devices, NEW ok \in BOOLEAN, SessionConfigured(n, ok)
        PROVE  CameraInv'
    BY <2>7, SessionConfiguredKeepsInv
  <2>8. CASE UNCHANGED cameraVars
    BY <2>8 DEF CameraInv, CameraTypeOK, RefInv, InboxInv, EntryInv, OpenedInv,
       LostLater, ViewInv, DeviceInv, SessionInv, CalmInv, Calm, IsPosted, Delivered,
       cameraVars, fieldVars, threadVars, serviceVars, raceVars
  <2>9. QED
    BY <2>1, <2>2, <2>3, <2>4, <2>5, <2>6, <2>7, <2>8 DEF CameraNext
<1>3. QED
  BY <1>1, <1>2, PTL DEF CameraSpec

-----------------------------------------------------------------------------
\* Every variable keeps its type, and the looper does not end with work to do.
THEOREM CameraTypeCorrect == CameraSpec => []CameraTypeOK
<1>1. CameraInv => CameraTypeOK
  BY DEF CameraInv
<1>2. QED
  BY <1>1, CameraInvariant, PTL

\* A closed camera keeps no thread, no reader, and no session or device but those
\* of a device that came too late for close.
THEOREM ClosedCameraIsAtRest == CameraSpec => []ClosedCameraIsQuiet
<1>1. ASSUME CameraInv, view = "hidden"
      PROVE  /\ looper = "none"
             /\ ~mImageReader
             /\ \A n \in Devices : device[n] \in {"opening", "open"} => n \in late
             /\ mCameraDevice # NULL => mCameraDevice \in late
             /\ mCaptureSession # NULL =>
                  session[mCaptureSession] = "closed" \/ late # {}
  <2> USE <1>1 DEF CameraInv
  <2>1. looper = "none" /\ ~mImageReader
    BY DEF ViewInv, LooperViews, UpViews
  <2>2. \A n \in Devices : device[n] \in {"opening", "open"} => n \in late
    BY DEF DeviceInv, UpViews
  <2>3. mCameraDevice # NULL => mCameraDevice \in late
    <3>1. inbox = << >>
      BY <2>1 DEF CameraTypeOK
    <3>2. ~IsPosted("onLost")
      BY <3>1 DEF IsPosted
    <3>3. QED
      BY <3>2 DEF DeviceInv, UpViews
  <2>4. mCaptureSession # NULL => session[mCaptureSession] = "closed" \/ late # {}
    BY <2>3, CameraAssumption DEF SessionInv, RefInv, CameraTypeOK
  <2>5. QED
    BY <2>1, <2>2, <2>3, <2>4
<1>2. CameraInv => ClosedCameraIsQuiet
  BY <1>1 DEF ClosedCameraIsQuiet
<1>3. QED
  BY <1>2, CameraInvariant, PTL

\* The process ends only where a device was lost or late, or close came between
\* the test and the use in onConfigured.
THEOREM CrashesNeedRaces == CameraSpec => []CrashNeedsRace
<1>1. CameraInv => CrashNeedsRace
  BY DEF CameraInv, CalmInv, Calm, CrashNeedsRace
<1>2. QED
  BY <1>1, CameraInvariant, PTL

=============================================================================
