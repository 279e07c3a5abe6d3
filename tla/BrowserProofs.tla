---------------------------- MODULE BrowserProofs ---------------------------
(***************************************************************************)
(* Proofs about the browser's side of a terminal, for any number of        *)
(* sockets, sizes and frames, and about the browser script as the runs     *)
(* check it, with the reader of job output behind it.                      *)
(***************************************************************************)
EXTENDS MCBrowser, OutputView, DialogProofs, JobOutputProofs

-----------------------------------------------------------------------------
(* TerminalClient *)

\* While the POST is in flight there is no socket and nothing on the screen.
CreatingIsAlone == creating => terminalSocket = Nil /\ screen = {}

\* The button is disabled for the POST, so that there is one at a time.
ButtonFollowsPost == openDisabled = creating

\* A resize that is to come has its frame.
FrameIsQueued == resizeFrame => frames > 0

\* Without xterm.js and its add-on nothing is ever fitted.
UnfittedIsDefault ==
  loaded # Assets => emulator = Default /\ \A s \in Sockets : pty[s] = Default

\* The inductive invariant of TerminalClient.
ClientInv ==
  /\ ClientTypeOK /\ OneLiveSocket /\ DeadOnlyByLateClose /\ SizeAgrees
  /\ CreatingIsAlone /\ ButtonFollowsPost /\ FrameIsQueued /\ UnfittedIsDefault

\* The page was loaded, with or without its scripts.
LEMMA ClientInitInv == ClientInit => ClientInv
<1> SUFFICES ASSUME ClientInit PROVE ClientInv
  OBVIOUS
<1>0. frames = 0 /\ MaxFrames \in Nat
  BY TerminalClientAssumption DEF ClientInit
<1>1. ClientTypeOK
  <2>0. frames \in 0 .. MaxFrames
    BY <1>0
  <2>1. /\ loaded \subseteq Assets /\ console \in Sizes \cup {Nil}
        /\ screen \subseteq Sockets /\ terminalSocket \in Sockets \cup {Nil}
        /\ terminalStatus \in {"", "connecting", "connected", "disconnected", "failed"}
    BY DEF ClientInit
  <2>2. emulator \in Sizes
    BY TerminalClientAssumption DEF ClientInit, Fitted
  <2>3. /\ sock \in [Sockets -> {"free", "connecting", "open", "closing"}]
        /\ pty \in [Sockets -> Sizes]
    BY TerminalClientAssumption DEF ClientInit
  <2>4. /\ creating \in BOOLEAN /\ openDisabled \in BOOLEAN /\ stdin \in BOOLEAN
        /\ observed \in BOOLEAN /\ resizeFrame \in BOOLEAN /\ lateClose \in BOOLEAN
    BY DEF ClientInit
  <2> QED
    BY <2>0, <2>1, <2>2, <2>3, <2>4 DEF ClientTypeOK
<1>2. OneLiveSocket /\ CreatingIsAlone
  BY DEF ClientInit, OneLiveSocket, CreatingIsAlone
<1>3. DeadOnlyByLateClose /\ SizeAgrees
  BY DEF ClientInit, DeadOnlyByLateClose, SizeAgrees, IsOpen
<1>4. ButtonFollowsPost /\ FrameIsQueued
  BY DEF ClientInit, ButtonFollowsPost, FrameIsQueued
<1>5. UnfittedIsDefault
  BY DEF ClientInit, UnfittedIsDefault, Fitted
<1> QED
  BY <1>1, <1>2, <1>3, <1>4, <1>5 DEF ClientInv

\* resizeTerminal makes the emulator, and the remote terminal of an open socket, fit.
LEMMA ResizeFits ==
  ASSUME ClientInv, NEW sk, ResizeTerminal(sk), UNCHANGED <<loaded, console, terminalSocket>>,
         sock' = sk
  PROVE  /\ emulator' \in Sizes /\ pty' \in [Sockets -> Sizes] /\ resizeFrame' = FALSE
         /\ UnfittedIsDefault' /\ SizeAgrees'
<1> USE TerminalClientAssumption
<1>1. /\ console \in Sizes \cup {Nil} /\ emulator \in Sizes /\ pty \in [Sockets -> Sizes]
      /\ terminalSocket \in Sockets \cup {Nil} /\ UnfittedIsDefault
  BY DEF ClientInv, ClientTypeOK
<1>2. CASE loaded = Assets /\ console # Nil
  <2>1. /\ resizeFrame' = FALSE /\ emulator' = console
        /\ pty' = IF IsOpen(sk) /\ console \notin TooLarge
                    THEN [pty EXCEPT ![terminalSocket] = console] ELSE pty
    BY <1>2 DEF ResizeTerminal, Fitted
  <2>2. pty' \in [Sockets -> Sizes] /\ emulator' \in Sizes
    BY <1>1, <1>2, <2>1
  <2>3. IsOpen(sk) /\ console \notin TooLarge => pty'[terminalSocket] = console
    BY <1>1, <2>1 DEF IsOpen
  <2>4. IsOpen(sock)' => IsOpen(sk)
    BY DEF IsOpen
  <2>5. SizeAgrees'
    BY <1>2, <2>1, <2>3, <2>4 DEF SizeAgrees
  <2> QED
    BY <1>2, <2>1, <2>2, <2>5 DEF UnfittedIsDefault
<1>3. CASE ~(loaded = Assets /\ console # Nil)
  <2>1. resizeFrame' = FALSE /\ emulator' = emulator /\ pty' = pty
    BY <1>3 DEF ResizeTerminal
  <2>2. UnfittedIsDefault'
    BY <1>1, <2>1 DEF UnfittedIsDefault
  <2>3. IsOpen(sock)' => terminalSocket' \in Sockets
    BY <1>1 DEF IsOpen
  <2>4. SizeAgrees'
    BY <1>1, <1>3, <2>1, <2>3 DEF SizeAgrees, UnfittedIsDefault
  <2> QED
    BY <1>1, <2>1, <2>2, <2>4
<1> QED
  BY <1>2, <1>3

\* closeTerminal leaves no live socket and no keyboard.
LEMMA CloseLeavesNone ==
  ASSUME ClientInv, CloseTerminal
  PROVE  /\ sock' \in [Sockets -> {"free", "connecting", "open", "closing"}]
         /\ terminalSocket' = Nil /\ stdin' = FALSE
         /\ \A s \in Sockets : sock'[s] \notin {"connecting", "open"}
<1>1. /\ sock \in [Sockets -> {"free", "connecting", "open", "closing"}]
      /\ terminalSocket \in Sockets \cup {Nil}
      /\ \A s \in Sockets : sock[s] \in {"connecting", "open"} => s = terminalSocket
  BY DEF ClientInv, ClientTypeOK, OneLiveSocket
<1> QED
  BY <1>1, TerminalClientAssumption DEF CloseTerminal

\* Each step of the terminal keeps the invariant.
LEMMA ClientStepInv == ClientInv /\ [ClientNext]_clientVars => ClientInv'
<1> SUFFICES ASSUME ClientInv, [ClientNext]_clientVars PROVE ClientInv'
  OBVIOUS
<1> USE TerminalClientAssumption
<1>0. /\ ClientTypeOK /\ OneLiveSocket /\ DeadOnlyByLateClose /\ SizeAgrees
      /\ CreatingIsAlone /\ ButtonFollowsPost /\ FrameIsQueued /\ UnfittedIsDefault
  BY DEF ClientInv
<1>1. CASE Submit
  <2>1. /\ sock' \in [Sockets -> {"free", "connecting", "open", "closing"}]
        /\ terminalSocket' = Nil /\ stdin' = FALSE
        /\ \A s \in Sockets : sock'[s] \notin {"connecting", "open"}
    BY <1>1, CloseLeavesNone DEF Submit
  <2>2. UNCHANGED <<loaded, console, emulator, pty, observed, resizeFrame, frames, lateClose>>
    BY <1>1 DEF Submit
  <2>3. \/ screen' = {} /\ openDisabled' = TRUE /\ creating' = TRUE
           /\ terminalStatus' = "connecting"
        \/ terminalStatus' = "failed" /\ UNCHANGED <<screen, openDisabled, creating>>
    BY <1>1 DEF Submit
  <2>4. ~IsOpen(sock)'
    BY <2>1 DEF IsOpen
  <2>5. ClientTypeOK'
    <3>1. openDisabled' \in BOOLEAN /\ creating' \in BOOLEAN /\ stdin' \in BOOLEAN
      BY <1>0, <2>1, <2>3 DEF ClientTypeOK
    <3>2. /\ screen' \subseteq Sockets
          /\ terminalStatus' \in {"", "connecting", "connected", "disconnected", "failed"}
      BY <1>0, <2>3 DEF ClientTypeOK
    <3> QED
      BY <1>0, <2>1, <2>2, <3>1, <3>2 DEF ClientTypeOK
  <2>6. OneLiveSocket' /\ DeadOnlyByLateClose' /\ SizeAgrees'
    BY <2>1, <2>4 DEF OneLiveSocket, DeadOnlyByLateClose, SizeAgrees
  <2>7. CreatingIsAlone' /\ ButtonFollowsPost'
    <3>1. CASE screen' = {} /\ openDisabled' = TRUE /\ creating' = TRUE
      BY <2>1, <3>1 DEF CreatingIsAlone, ButtonFollowsPost
    <3>2. CASE UNCHANGED <<screen, openDisabled, creating>>
      BY <1>0, <2>1, <3>2 DEF CreatingIsAlone, ButtonFollowsPost
    <3> QED
      BY <2>3, <3>1, <3>2
  <2>8. FrameIsQueued' /\ UnfittedIsDefault'
    BY <1>0, <2>2 DEF FrameIsQueued, UnfittedIsDefault
  <2> QED
    BY <2>5, <2>6, <2>7, <2>8 DEF ClientInv
<1>2. CASE CreateFails
  <2>1. /\ creating /\ creating' = FALSE /\ openDisabled' = FALSE /\ terminalStatus' = "failed"
        /\ UNCHANGED <<loaded, sock, terminalSocket, stdin, console, emulator, pty,
                       observed, resizeFrame, frames, screen, lateClose>>
    BY <1>2 DEF CreateFails
  <2>2. terminalSocket' = Nil /\ ~IsOpen(sock)'
    BY <1>0, <2>1 DEF CreatingIsAlone, IsOpen
  <2>3. ClientTypeOK'
    <3>1. creating' \in BOOLEAN /\ openDisabled' \in BOOLEAN
      BY <2>1
    <3> QED
      BY <1>0, <2>1, <3>1 DEF ClientTypeOK
  <2>4. OneLiveSocket' /\ FrameIsQueued' /\ UnfittedIsDefault'
    BY <1>0, <2>1 DEF OneLiveSocket, FrameIsQueued, UnfittedIsDefault
  <2>5. DeadOnlyByLateClose' /\ SizeAgrees'
    BY <1>0, <2>1, <2>2 DEF DeadOnlyByLateClose, SizeAgrees
  <2>6. CreatingIsAlone' /\ ButtonFollowsPost'
    BY <2>1 DEF CreatingIsAlone, ButtonFollowsPost
  <2> QED
    BY <2>3, <2>4, <2>5, <2>6 DEF ClientInv
<1>3. CASE BeforeUnload
  <2>1. /\ sock' \in [Sockets -> {"free", "connecting", "open", "closing"}]
        /\ terminalSocket' = Nil /\ stdin' = FALSE
        /\ \A s \in Sockets : sock'[s] \notin {"connecting", "open"}
    BY <1>3, CloseLeavesNone DEF BeforeUnload
  <2>2. UNCHANGED <<loaded, creating, openDisabled, terminalStatus, console, emulator, pty,
                    observed, resizeFrame, frames, screen, lateClose>>
    BY <1>3 DEF BeforeUnload
  <2>3. ~IsOpen(sock)'
    BY <2>1 DEF IsOpen
  <2>4. ClientTypeOK'
    <3>1. stdin' \in BOOLEAN
      BY <2>1
    <3> QED
      BY <1>0, <2>1, <2>2, <3>1, ZenonT(30) DEF ClientTypeOK
  <2>5. OneLiveSocket' /\ DeadOnlyByLateClose' /\ SizeAgrees'
    BY <2>1, <2>3 DEF OneLiveSocket, DeadOnlyByLateClose, SizeAgrees
  <2>6. CreatingIsAlone' /\ ButtonFollowsPost' /\ FrameIsQueued' /\ UnfittedIsDefault'
    BY <1>0, <2>1, <2>2 DEF CreatingIsAlone, ButtonFollowsPost, FrameIsQueued, UnfittedIsDefault
  <2> QED
    BY <2>4, <2>5, <2>6 DEF ClientInv
<1>4. CASE ConsoleResizes
  <2>1. /\ console' \in Sizes \cup {Nil} /\ observed' = TRUE
        /\ UNCHANGED <<loaded, creating, openDisabled, sock, terminalSocket, stdin, terminalStatus,
                       emulator, pty, resizeFrame, frames, screen, lateClose>>
    BY <1>4 DEF ConsoleResizes
  <2>2. ClientTypeOK'
    <3>1. observed' \in BOOLEAN
      BY <2>1
    <3> QED
      BY <1>0, <2>1, <3>1, ZenonT(30) DEF ClientTypeOK
  <2>3. OneLiveSocket' /\ DeadOnlyByLateClose' /\ CreatingIsAlone'
    BY <1>0, <2>1 DEF OneLiveSocket, DeadOnlyByLateClose, CreatingIsAlone, IsOpen
  <2>4. ButtonFollowsPost' /\ FrameIsQueued' /\ UnfittedIsDefault' /\ SizeAgrees'
    BY <1>0, <2>1 DEF ButtonFollowsPost, FrameIsQueued, UnfittedIsDefault, SizeAgrees
  <2> QED
    BY <2>2, <2>3, <2>4 DEF ClientInv
<1>5. CASE ObserverFires
  <2>1. /\ frames < MaxFrames \/ resizeFrame
        /\ observed' = FALSE /\ resizeFrame' = TRUE
        /\ frames' = IF resizeFrame THEN frames ELSE frames + 1
        /\ UNCHANGED <<loaded, creating, openDisabled, sock, terminalSocket, stdin, terminalStatus,
                       console, emulator, pty, screen, lateClose>>
    BY <1>5 DEF ObserverFires
  <2>2. frames' \in 0 .. MaxFrames /\ frames' > 0
    <3>1. frames \in 0 .. MaxFrames
      BY <1>0 DEF ClientTypeOK
    <3>2. CASE resizeFrame
      <4>1. frames' = frames /\ frames > 0
        BY <1>0, <2>1, <3>2 DEF FrameIsQueued
      <4> QED
        BY <3>1, <4>1
    <3>3. CASE ~resizeFrame
      <4>1. frames' = frames + 1 /\ frames < MaxFrames
        BY <2>1, <3>3
      <4> QED
        BY <3>1, <4>1
    <3> QED
      BY <3>2, <3>3
  <2>3. ClientTypeOK'
    <3>1. observed' \in BOOLEAN /\ resizeFrame' \in BOOLEAN
      BY <2>1
    <3> QED
      BY <1>0, <2>1, <2>2, <3>1, ZenonT(30) DEF ClientTypeOK
  <2>4. OneLiveSocket' /\ DeadOnlyByLateClose' /\ CreatingIsAlone' /\ UnfittedIsDefault'
    BY <1>0, <2>1 DEF OneLiveSocket, DeadOnlyByLateClose, CreatingIsAlone, UnfittedIsDefault, IsOpen
  <2>5. FrameIsQueued' /\ ~(frames' = 0)
    BY <2>2 DEF FrameIsQueued
  <2>6. SizeAgrees' /\ ButtonFollowsPost'
    BY <1>0, <2>1, <2>5 DEF SizeAgrees, ButtonFollowsPost
  <2> QED
    BY <2>3, <2>4, <2>5, <2>6 DEF ClientInv
<1>6. CASE AnimationFrame
  <2>1. /\ frames > 0 /\ frames' = frames - 1 /\ ResizeTerminal(sock)
        /\ UNCHANGED <<loaded, creating, openDisabled, sock, terminalSocket, stdin, terminalStatus,
                       console, observed, screen, lateClose>>
    BY <1>6 DEF AnimationFrame
  <2>2. /\ emulator' \in Sizes /\ pty' \in [Sockets -> Sizes] /\ resizeFrame' = FALSE
        /\ UnfittedIsDefault' /\ SizeAgrees'
    BY <2>1, ResizeFits
  <2>3. ClientTypeOK'
    <3>1. resizeFrame' \in BOOLEAN
      BY <2>2
    <3>2. frames' \in 0 .. MaxFrames
      <4>1. frames \in 0 .. MaxFrames /\ MaxFrames \in Nat
        BY <1>0 DEF ClientTypeOK
      <4> QED
        BY <2>1, <4>1
    <3> QED
      BY <1>0, <2>1, <2>2, <3>1, <3>2, ZenonT(30) DEF ClientTypeOK
  <2>4. OneLiveSocket' /\ DeadOnlyByLateClose' /\ CreatingIsAlone' /\ ButtonFollowsPost'
    BY <1>0, <2>1 DEF OneLiveSocket, DeadOnlyByLateClose, CreatingIsAlone, ButtonFollowsPost, IsOpen
  <2>5. FrameIsQueued'
    BY <2>2 DEF FrameIsQueued
  <2> QED
    BY <2>2, <2>3, <2>4, <2>5 DEF ClientInv
<1>7. ASSUME NEW s \in Sockets, CreateSucceeds(s)
      PROVE  ClientInv'
  <2>1. /\ creating /\ creating' = FALSE /\ openDisabled' = FALSE /\ terminalSocket' = s
        /\ sock' = [sock EXCEPT ![s] = "connecting"] /\ pty' = [pty EXCEPT ![s] = Default]
        /\ UNCHANGED <<loaded, stdin, terminalStatus, console, emulator, observed, resizeFrame,
                       frames, screen, lateClose>>
    BY <1>7 DEF CreateSucceeds
  <2>2. terminalSocket = Nil /\ screen = {}
    BY <1>0, <2>1 DEF CreatingIsAlone
  <2>3. ~stdin
    BY <1>0, <2>2 DEF DeadOnlyByLateClose
  <2>4. /\ sock \in [Sockets -> {"free", "connecting", "open", "closing"}]
        /\ pty \in [Sockets -> Sizes]
    BY <1>0 DEF ClientTypeOK
  <2>5. sock'[s] = "connecting" /\ \A o \in Sockets \ {s} : sock'[o] = sock[o]
    BY <2>1, <2>4
  <2>6. ~IsOpen(sock)'
    BY <2>1, <2>5 DEF IsOpen
  <2>7. ClientTypeOK'
    <3>1. creating' \in BOOLEAN /\ openDisabled' \in BOOLEAN
      BY <2>1
    <3>2. /\ sock' \in [Sockets -> {"free", "connecting", "open", "closing"}]
          /\ pty' \in [Sockets -> Sizes] /\ terminalSocket' \in Sockets \cup {Nil}
      BY <2>1, <2>4
    <3> QED
      BY <1>0, <2>1, <3>1, <3>2 DEF ClientTypeOK
  <2>8. OneLiveSocket'
    BY <1>0, <2>1, <2>2, <2>5 DEF OneLiveSocket
  <2>9. DeadOnlyByLateClose' /\ SizeAgrees'
    BY <2>1, <2>3, <2>6 DEF DeadOnlyByLateClose, SizeAgrees
  <2>10. CreatingIsAlone' /\ ButtonFollowsPost'
    BY <2>1 DEF CreatingIsAlone, ButtonFollowsPost
  <2>11. FrameIsQueued' /\ UnfittedIsDefault'
    BY <1>0, <2>1, <2>4 DEF FrameIsQueued, UnfittedIsDefault
  <2> QED
    BY <2>7, <2>8, <2>9, <2>10, <2>11 DEF ClientInv
<1>8. ASSUME NEW s \in Sockets, SocketOpens(s)
      PROVE  ClientInv'
  <2>1. /\ sock[s] = "connecting" /\ sock' = [sock EXCEPT ![s] = "open"]
        /\ stdin' = TRUE /\ ResizeTerminal(sock') /\ terminalStatus' = "connected"
        /\ lateClose' = FALSE
        /\ UNCHANGED <<loaded, creating, openDisabled, terminalSocket, console, observed, frames,
                       screen>>
    BY <1>8 DEF SocketOpens
  <2>2. /\ emulator' \in Sizes /\ pty' \in [Sockets -> Sizes] /\ resizeFrame' = FALSE
        /\ UnfittedIsDefault' /\ SizeAgrees'
    BY <2>1, ResizeFits
  <2>3. s = terminalSocket /\ terminalSocket # Nil
    BY <1>0, <2>1 DEF OneLiveSocket
  <2>4. sock \in [Sockets -> {"free", "connecting", "open", "closing"}]
    BY <1>0 DEF ClientTypeOK
  <2>5. sock'[s] = "open" /\ \A o \in Sockets \ {s} : sock'[o] = sock[o]
    BY <2>1, <2>4
  <2>6. ClientTypeOK'
    <3>1. stdin' \in BOOLEAN /\ lateClose' \in BOOLEAN /\ resizeFrame' \in BOOLEAN
      BY <2>1, <2>2
    <3>2. sock' \in [Sockets -> {"free", "connecting", "open", "closing"}]
      BY <2>1, <2>4
    <3> QED
      BY <1>0, <2>1, <2>2, <3>1, <3>2 DEF ClientTypeOK
  <2>7. OneLiveSocket'
    BY <1>0, <2>1, <2>3, <2>5 DEF OneLiveSocket
  <2>8. DeadOnlyByLateClose'
    BY <2>1, <2>3, <2>5 DEF DeadOnlyByLateClose
  <2>9. CreatingIsAlone' /\ ButtonFollowsPost' /\ FrameIsQueued'
    BY <1>0, <2>1, <2>2 DEF CreatingIsAlone, ButtonFollowsPost, FrameIsQueued
  <2> QED
    BY <2>2, <2>6, <2>7, <2>8, <2>9 DEF ClientInv
<1>9. ASSUME NEW s \in Sockets, Disconnected(s)
      PROVE  ClientInv'
  <2>1. /\ sock' = [sock EXCEPT ![s] = "free"] /\ stdin' = FALSE /\ terminalStatus' = "disconnected"
        /\ UNCHANGED <<loaded, creating, openDisabled, terminalSocket, console, emulator, pty,
                       observed, resizeFrame, frames, screen>>
    BY <1>9 DEF Disconnected
  <2>2. lateClose' = (lateClose \/ s # terminalSocket)
    BY <1>9 DEF Disconnected
  <2>3. sock \in [Sockets -> {"free", "connecting", "open", "closing"}]
    BY <1>0 DEF ClientTypeOK
  <2>4. sock'[s] = "free" /\ \A o \in Sockets \ {s} : sock'[o] = sock[o]
    BY <2>1, <2>3
  <2>5. IsOpen(sock)' => s # terminalSocket /\ IsOpen(sock)
    <3>1. terminalSocket \in Sockets \cup {Nil}
      BY <1>0 DEF ClientTypeOK
    <3> QED
      BY <2>1, <2>4, <3>1 DEF IsOpen
  <2>6. ClientTypeOK'
    <3>1. stdin' \in BOOLEAN
      BY <2>1
    <3>2. lateClose' \in BOOLEAN
      BY <2>2
    <3>3. sock' \in [Sockets -> {"free", "connecting", "open", "closing"}]
      BY <2>1, <2>3
    <3> QED
      BY <1>0, <2>1, <3>1, <3>2, <3>3 DEF ClientTypeOK
  <2>7. OneLiveSocket'
    BY <1>0, <2>1, <2>4 DEF OneLiveSocket
  <2>8. DeadOnlyByLateClose'
    BY <2>1, <2>2, <2>5 DEF DeadOnlyByLateClose
  <2>9. SizeAgrees'
    BY <1>0, <2>1, <2>5 DEF SizeAgrees
  <2>10. CreatingIsAlone' /\ ButtonFollowsPost' /\ FrameIsQueued' /\ UnfittedIsDefault'
    BY <1>0, <2>1 DEF CreatingIsAlone, ButtonFollowsPost, FrameIsQueued, UnfittedIsDefault
  <2> QED
    BY <2>6, <2>7, <2>8, <2>9, <2>10 DEF ClientInv
<1>10. ASSUME NEW s \in Sockets, ServerCloses(s)
       PROVE  ClientInv'
  <2>1. /\ sock[s] = "open" /\ sock' = [sock EXCEPT ![s] = "closing"]
        /\ UNCHANGED <<loaded, creating, openDisabled, terminalSocket, stdin, terminalStatus,
                       console, emulator, pty, observed, resizeFrame, frames, screen, lateClose>>
    BY <1>10 DEF ServerCloses
  <2>2. sock \in [Sockets -> {"free", "connecting", "open", "closing"}] /\ s = terminalSocket
    BY <1>0, <2>1 DEF ClientTypeOK, OneLiveSocket
  <2>3. sock'[s] = "closing" /\ \A o \in Sockets \ {s} : sock'[o] = sock[o]
    BY <2>1, <2>2
  <2>4. ~IsOpen(sock)'
    BY <2>1, <2>2, <2>3 DEF IsOpen
  <2>5. ClientTypeOK'
    <3>1. sock' \in [Sockets -> {"free", "connecting", "open", "closing"}]
      BY <2>1, <2>2
    <3> QED
      BY <1>0, <2>1, <3>1, ZenonT(60) DEF ClientTypeOK
  <2>6. OneLiveSocket'
    BY <1>0, <2>1, <2>3 DEF OneLiveSocket
  <2>7. DeadOnlyByLateClose' /\ SizeAgrees'
    BY <1>0, <2>1, <2>2, <2>3, <2>4 DEF DeadOnlyByLateClose, SizeAgrees
  <2>8. CreatingIsAlone' /\ ButtonFollowsPost' /\ FrameIsQueued' /\ UnfittedIsDefault'
    BY <1>0, <2>1 DEF CreatingIsAlone, ButtonFollowsPost, FrameIsQueued, UnfittedIsDefault
  <2> QED
    BY <2>5, <2>6, <2>7, <2>8 DEF ClientInv
<1>11. ASSUME NEW s \in Sockets, Message(s)
       PROVE  ClientInv'
  <2>1. /\ sock[s] = "open" /\ screen' = screen \cup {s}
        /\ UNCHANGED <<loaded, creating, openDisabled, sock, terminalSocket, stdin, terminalStatus,
                       console, emulator, pty, observed, resizeFrame, frames, lateClose>>
    BY <1>11 DEF Message
  <2>2. s = terminalSocket /\ terminalSocket # Nil
    BY <1>0, <2>1 DEF OneLiveSocket
  <2>3. ClientTypeOK' /\ OneLiveSocket' /\ CreatingIsAlone'
    BY <1>0, <2>1, <2>2, ZenonT(30) DEF ClientTypeOK, OneLiveSocket, CreatingIsAlone
  <2>4. DeadOnlyByLateClose' /\ SizeAgrees'
    BY <1>0, <2>1 DEF DeadOnlyByLateClose, SizeAgrees, IsOpen
  <2>5. ButtonFollowsPost' /\ FrameIsQueued' /\ UnfittedIsDefault'
    BY <1>0, <2>1 DEF ButtonFollowsPost, FrameIsQueued, UnfittedIsDefault
  <2> QED
    BY <2>3, <2>4, <2>5 DEF ClientInv
<1>12. CASE UNCHANGED clientVars
  <2>1. UNCHANGED <<loaded, creating, openDisabled, sock, terminalSocket, screen, stdin,
                    terminalStatus, console, emulator, pty, observed, resizeFrame, frames, lateClose>>
    BY <1>12 DEF clientVars
  <2>2. ClientTypeOK' /\ OneLiveSocket' /\ CreatingIsAlone'
    BY <1>0, <2>1, ZenonT(60) DEF ClientTypeOK, OneLiveSocket, CreatingIsAlone
  <2>3. DeadOnlyByLateClose' /\ SizeAgrees'
    BY <1>0, <2>1 DEF DeadOnlyByLateClose, SizeAgrees, IsOpen
  <2>4. ButtonFollowsPost' /\ FrameIsQueued' /\ UnfittedIsDefault'
    BY <1>0, <2>1 DEF ButtonFollowsPost, FrameIsQueued, UnfittedIsDefault
  <2> QED
    BY <2>2, <2>3, <2>4 DEF ClientInv
<1> QED
  BY <1>1, <1>2, <1>3, <1>4, <1>5, <1>6, <1>7, <1>8, <1>9, <1>10, <1>11, <1>12
     DEF ClientNext, SocketFails, SocketCloses

\* At most one socket is alive, the keyboard works unless a late close event turned
\* it off, and the remote terminal has the size the user sees, for any number of
\* sockets, sizes and queued frames.
THEOREM TerminalClientCorrect ==
  ClientSpec => [](ClientTypeOK /\ OneLiveSocket /\ DeadOnlyByLateClose /\ SizeAgrees)
<1>1. ClientInv => ClientTypeOK /\ OneLiveSocket /\ DeadOnlyByLateClose /\ SizeAgrees
  BY DEF ClientInv
<1> QED
  BY ClientInitInv, ClientStepInv, <1>1, PTL DEF ClientSpec

\* At most one socket of the page is alive, for any sockets.
THEOREM SocketIsUnique == ClientSpec => []OneLiveSocket
BY TerminalClientCorrect, PTL

\* The keyboard of a live terminal is off only through a late close event.
THEOREM KeyboardFollowsSocket == ClientSpec => []DeadOnlyByLateClose
BY TerminalClientCorrect, PTL

\* The remote terminal has the size the user sees, for any sizes and frames.
THEOREM SizeFollowsWindow == ClientSpec => []SizeAgrees
BY TerminalClientCorrect, PTL

-----------------------------------------------------------------------------
(* MCBrowser *)

\* The dialogs of jobs are opened on the page of jobs.
JobParts == part # "forms" => page = "jobs"

\* The browser's parts side by side: each step is a step of the page, of the
\* terminal and of the reader, or leaves them alone.
LEMMA BrowserStep ==
  JobParts /\ [BrowserNext]_browserVars
    => JobParts' /\ [PageNext]_pageVars /\ [ClientNext]_clientVars /\ [Next]_vars
<1> SUFFICES ASSUME JobParts, [BrowserNext]_browserVars
             PROVE  JobParts' /\ [PageNext]_pageVars /\ [ClientNext]_clientVars /\ [Next]_vars
  OBVIOUS
<1>1. CASE part = "reader" /\ Next /\ part' = part
           /\ UNCHANGED <<dialogVars, formVars, previewVars, pollVars, clientVars>>
  BY <1>1 DEF JobParts, pageVars, formVars
<1>2. CASE part = "forms" /\ FormsNext /\ part' = part
           /\ UNCHANGED <<vars, previewVars, pollVars, clientVars>>
  BY <1>2 DEF JobParts, PageNext
<1>3. CASE part = "preview" /\ PreviewNext /\ part' = part
           /\ UNCHANGED <<vars, formVars, pollVars, clientVars>>
  BY <1>3 DEF JobParts, PageNext, formVars
<1>4. CASE part = "polling" /\ PollNext /\ part' = part
           /\ UNCHANGED <<vars, formVars, previewVars, clientVars>>
  BY <1>4 DEF JobParts, PageNext, formVars
<1>5. CASE part = "terminal" /\ ClientNext /\ part' = part
           /\ UNCHANGED <<vars, dialogVars, formVars, previewVars, pollVars>>
  BY <1>5 DEF JobParts, pageVars, formVars
<1>6. CASE UNCHANGED browserVars
  BY <1>6 DEF browserVars, JobParts, pageVars, formVars
<1> QED
  BY <1>1, <1>2, <1>3, <1>4, <1>5, <1>6 DEF BrowserNext

\* What the runs check of the browser is an instance of what holds of the page, the
\* terminal and the reader: all types and every safety invariant.
THEOREM BrowserCorrect ==
  BrowserSpec => [](/\ BrowserTypeOK /\ LockFollowsDialogs /\ SubmitsWhatIsShown
                    /\ EditorStartsFromPartition /\ OnlyScrollMisleads /\ FetchAccounting
                    /\ OnePollLoop /\ OneLiveSocket /\ DeadOnlyByLateClose /\ SizeAgrees
                    /\ SlotAccounting /\ AuditTruthful /\ ChartsFaithful)
<1>1. BrowserInit => JobParts /\ PageInv /\ ClientInv /\ IInv
  BY InitIInv, IdleReader, PageInitInv, ClientInitInv DEF BrowserInit, PageInit, JobParts
<1>2. IInv /\ [Next]_vars => IInv'
  BY StepTypeOK, StepHandOff, StepReadContext, StepSlotAccounting, StepAuditTruthful DEF IInv
<1>3. JobParts /\ PageInv /\ ClientInv /\ IInv /\ [BrowserNext]_browserVars
        => (JobParts /\ PageInv /\ ClientInv /\ IInv)'
  BY <1>2, BrowserStep, PageStepInv, ClientStepInv
<1>4. PageInv /\ ClientInv /\ IInv
        => /\ BrowserTypeOK /\ LockFollowsDialogs /\ SubmitsWhatIsShown
           /\ EditorStartsFromPartition /\ OnlyScrollMisleads /\ FetchAccounting
           /\ OnePollLoop /\ OneLiveSocket /\ DeadOnlyByLateClose /\ SizeAgrees
           /\ SlotAccounting /\ AuditTruthful
  BY DEF BrowserTypeOK, PageInv, DialogInv, FormsInv, PreviewInv, PollInv, ClientInv, IInv
<1>5. PageInv => ChartsFaithful
  BY HistoryInFrame DEF PageInv, PollInv, PollTypeOK
<1> QED
  BY <1>1, <1>3, <1>4, <1>5, PTL DEF BrowserSpec

\* Beside the browser's parts the reader's slots are a pool all the same.
THEOREM BrowserRefinesPool == BrowserSpec => ImplementsPool
<1>1. BrowserInit => JobParts /\ IInv /\ Pool!Init
  BY InitIInv, IdleReader DEF BrowserInit, JobParts, Init, ReaderIdle, Pool!Init, HandlerHolds,
                              ReaderHolds
<1>2. IInv /\ [Next]_vars => IInv' /\ [Pool!Next]_<<Held, slots>>
  BY StepPool, StepTypeOK, StepHandOff, StepReadContext, StepSlotAccounting, StepAuditTruthful DEF IInv
<1>3. JobParts /\ IInv /\ [BrowserNext]_browserVars
        => (JobParts /\ IInv)' /\ [Pool!Next]_<<Held, slots>>
  BY <1>2, BrowserStep
<1> QED
  BY <1>1, <1>3, PTL DEF BrowserSpec, ImplementsPool, Pool!Spec, Held

\* The browser implements JobViewer in every part.
THEOREM BrowserRefinesViewer == BrowserSpec => ImplementsViewer
<1>1. BrowserInit => JobParts /\ PageInit
  BY DEF BrowserInit, JobParts, PageInit
<1>2. JobParts /\ [BrowserNext]_browserVars => JobParts' /\ [PageNext]_pageVars
  BY BrowserStep
<1>3. BrowserSpec => PageSpec
  BY <1>1, <1>2, PTL DEF BrowserSpec, PageSpec
<1> QED
  BY <1>3, PageRefinesViewer
-----------------------------------------------------------------------------
(* OutputView *)

\* Of a fetch that may still be shown, the buttons are in the document.
CurrentIsAttached == current # None /\ request[current].phase = "sent" => request[current].attached

\* A success that is on its way to the dialog is in the trail.
SuccessInTrail ==
  \A r \in Requests \cap Fetches :
    request[r].phase = "sent" /\ request[r].attached /\ audit[r] = "success"
      => request[r].stream \in trail

\* What a scroll may bring back is in the trail.
HandlerInTrail == onscroll # None => onscroll.of \in trail

TrailInv == CurrentIsAttached /\ SuccessInTrail /\ HandlerInTrail /\ DisplayedIsAudited

OutputInv == DialogInv /\ PreviewInv /\ IInv /\ TrailInv

\* A step of OutputView is one of the preview and one of the reader, or leaves them alone.
LEMMA OutputStep ==
  [OutputNext]_outputVars
    => /\ PreviewNext \/ UNCHANGED <<previewVars, dialogVars>>
       /\ [Next]_vars
<1> SUFFICES ASSUME [OutputNext]_outputVars
             PROVE  (PreviewNext \/ UNCHANGED <<previewVars, dialogVars>>) /\ [Next]_vars
  OBVIOUS
<1>1. CASE ShowJob
  BY <1>1 DEF ShowJob, PreviewNext
<1>2. CASE Browse
  BY <1>2 DEF Browse, PreviewNext
<1>3. ASSUME NEW r \in Requests \cap Fetches, NEW s \in Streams, AskForOutput(s, r)
      PROVE  PreviewNext /\ Next
  BY <1>3 DEF AskForOutput, PreviewNext, Next
<1>4. ASSUME NEW r \in Requests \cap Fetches, ResponseArrives(r) \/ ConnectionFails(r)
      PROVE  PreviewNext /\ UNCHANGED vars
  BY <1>4 DEF ResponseArrives, ConnectionFails, PreviewNext
<1>5. ASSUME NEW r \in Requests, ServerStep(r)
      PROVE  Next /\ UNCHANGED <<previewVars, dialogVars>>
  BY <1>5 DEF ServerStep, Next
<1>6. ASSUME NEW r \in Requests \ Fetches, NextRequest(r), UNCHANGED <<dialogVars, previewVars, trail>>
      PROVE  Next /\ UNCHANGED <<previewVars, dialogVars>>
  BY <1>6 DEF Next
<1>7. CASE UNCHANGED outputVars
  BY <1>7 DEF outputVars
<1> QED
  BY <1>1, <1>2, <1>3, <1>4, <1>5, <1>6, <1>7 DEF OutputNext

\* What the server does can only add to the trail, and adds each success that a
\* fetch of the dialog is waiting for.
LEMMA ServerStepTrail ==
  ASSUME OutputInv, NEW r \in Requests, ServerStep(r)
  PROVE  TrailInv'
<1>1. UNCHANGED <<current, controller, request, disabled, view, onscroll>>
  BY DEF ServerStep, previewVars
<1>2. trail \subseteq trail'
  BY DEF ServerStep, Trail
<1>3. ASSUME NEW q \in Requests, q # r PROVE audit'[q] = audit[q]
  BY <1>3 DEF ServerStep, HandlerStep, Reject, Admit, RateLimited, LookupFails, StartRead, TakeResult,
              TakeDone, Return, Answer, Read, ReaderReturns, ClientLeaves, Deadline, OutputInv,
              IInv, TypeOK
<1>4. CurrentIsAttached' /\ HandlerInTrail' /\ DisplayedIsAudited'
  BY <1>1, <1>2 DEF OutputInv, TrailInv, CurrentIsAttached, HandlerInTrail, DisplayedIsAudited
<1>5. SuccessInTrail'
  <2> SUFFICES ASSUME NEW q \in Requests \cap Fetches, request[q].attached, audit'[q] = "success",
                      request[q].phase = "sent"
               PROVE  request[q].stream \in trail'
    BY <1>1 DEF SuccessInTrail
  <2>1. CASE q = r
    BY <2>1 DEF ServerStep, Trail
  <2>2. CASE q # r
    BY <1>2, <1>3, <2>2 DEF OutputInv, TrailInv, SuccessInTrail
  <2> QED
    BY <2>1, <2>2
<1> QED
  BY <1>4, <1>5 DEF TrailInv

\* A click makes a fetch of the dialog's, with a request nothing is known of yet.
LEMMA AskForOutputTrail ==
  ASSUME OutputInv, NEW r \in Requests \cap Fetches, NEW s \in Streams, AskForOutput(s, r)
  PROVE  TrailInv'
<1>0. PreviewInv /\ None \notin Fetches
  BY PreviewAssumption DEF OutputInv
<1>1. /\ current' = r /\ trail' = trail /\ onscroll' = onscroll /\ view'.kind = "loading"
      /\ request' = [AfterCancel EXCEPT
           ![r] = [phase |-> "sent", stream |-> s, aborted |-> FALSE, attached |-> TRUE]]
  BY DEF AskForOutput, OutputClick
<1>2. AfterCancel \in [Fetches -> Record]
  BY <1>0, AllAborted
<1>3. request'[r].attached
  BY <1>1, <1>2
<1>4. audit'[r] = "none" /\ \A q \in Requests : q # r => audit'[q] = audit[q]
  BY DEF AskForOutput, NextRequest, OutputInv, IInv, TypeOK
<1>5. SuccessInTrail'
  <2> SUFFICES ASSUME NEW q \in Requests \cap Fetches, request'[q].phase = "sent",
                      request'[q].attached, audit'[q] = "success"
               PROVE  request'[q].stream \in trail
    BY <1>1 DEF SuccessInTrail
  <2>1. q # r /\ audit[q] = "success"
    BY <1>4
  <2>2. request'[q] = AfterCancel[q]
    BY <1>1, <1>2, <2>1
  <2> QED
    BY <1>0, <2>1, <2>2, AllAborted DEF OutputInv, TrailInv, SuccessInTrail
<1> QED
  BY <1>1, <1>3, <1>5 DEF OutputInv, TrailInv, CurrentIsAttached, HandlerInTrail, DisplayedIsAudited

\* Whatever ends a fetch, what is shown of it is in the trail.
LEMMA SettleTrail ==
  ASSUME OutputInv, NEW r \in Requests \cap Fetches, ResponseArrives(r) \/ ConnectionFails(r)
  PROVE  TrailInv'
<1>0. /\ PreviewTypeOK /\ SuccessInTrail /\ HandlerInTrail /\ DisplayedIsAudited
      /\ CurrentIsAttached /\ AuditTruthful /\ None \notin Fetches
  BY PreviewAssumption DEF OutputInv, PreviewInv, TrailInv, IInv
<1>1. /\ request[r].phase = "sent" /\ Settle(r) /\ UNCHANGED <<audit, trail, current>>
      /\ request' = [request EXCEPT ![r] = Free]
  BY DEF ResponseArrives, ConnectionFails, Deliver, FetchFails, Settle, vars
<1>2. request' \in [Fetches -> Record] /\ request'[r].phase = "free"
  BY <1>0, <1>1 DEF PreviewTypeOK, Record, Free
<1>3. \A q \in Fetches : q # r => request'[q] = request[q]
  BY <1>0, <1>1 DEF PreviewTypeOK
<1>4. CurrentIsAttached' /\ SuccessInTrail'
  BY <1>0, <1>1, <1>2, <1>3 DEF CurrentIsAttached, SuccessInTrail, PreviewTypeOK
<1>5. CASE FetchFails(r)
  <2>1. onscroll' = onscroll /\ (view' = view \/ view'.kind = "error")
    BY <1>0, <1>5 DEF FetchFails, PreviewTypeOK
  <2> QED
    BY <1>0, <1>1, <1>4, <2>1 DEF TrailInv, HandlerInTrail, DisplayedIsAudited
<1>6. ASSUME NEW total \in LogSizes, served[r], Deliver(r, total)
      PROVE  TrailInv'
  <2>1. CASE ~MayRender(r)
    <3>1. UNCHANGED <<view, onscroll>>
      BY <1>6, <2>1 DEF Deliver, RenderLazyLog
    <3> QED
      BY <1>0, <1>1, <1>4, <3>1 DEF TrailInv, HandlerInTrail, DisplayedIsAudited
  <2>2. CASE MayRender(r)
    <3>1. audit[r] = "success" /\ request[r].attached
      BY <1>0, <1>1, <1>6, <2>2 DEF AuditTruthful, MayRender, CurrentIsAttached
    <3>2. request[r].stream \in trail
      BY <1>0, <1>1, <3>1 DEF SuccessInTrail
    <3>3. view'.of = request[r].stream /\ onscroll'.of = request[r].stream
      <4>1. RenderLazyLog(r, total)
        BY <1>6, SMTT(30) DEF Deliver
      <4>2. PICK t \in BOOLEAN :
              view' = [view EXCEPT !.truncated = t, !.kind = "log", !.of = request[r].stream,
                                   !.lines = Batch(0, total)]
        BY <2>2, <4>1 DEF RenderLazyLog
      <4>3. onscroll' = [of |-> request[r].stream, total |-> total, rendered |-> Batch(0, total)]
        BY <2>2, <4>1 DEF RenderLazyLog
      <4>4. view'.of = request[r].stream
        BY <1>0, <4>2 DEF PreviewTypeOK
      <4> QED
        BY <4>3, <4>4
    <3> QED
      BY <1>1, <1>4, <3>2, <3>3 DEF TrailInv, HandlerInTrail, DisplayedIsAudited
  <2> QED
    BY <2>1, <2>2
<1> QED
  BY <1>5, <1>6 DEF ResponseArrives, ConnectionFails

\* Another job is shown with nothing of the last one; a scroll shows what the trail has.
LEMMA BrowseTrail ==
  ASSUME OutputInv, ShowJob \/ Browse
  PROVE  TrailInv'
<1>0. PreviewInv /\ PreviewTypeOK /\ TrailInv
  BY DEF OutputInv, PreviewInv
<1>1. CASE ShowJob
  <2>1. /\ current' = None /\ view' = Blank /\ onscroll' = None
        /\ \A r \in Fetches : ~request'[r].attached
    BY <1>0, <1>1, AllAborted DEF ShowJob, DetailClick, Record
  <2> QED
    BY <2>1 DEF TrailInv, CurrentIsAttached, SuccessInTrail, HandlerInTrail, DisplayedIsAudited, Blank
<1>2. CASE Browse
  <2>1. UNCHANGED <<audit, trail>>
    BY <1>2 DEF Browse, vars
  <2>2. CASE Scroll
    <3>1. /\ onscroll # None /\ UNCHANGED <<current, request>>
          /\ view'.of = onscroll.of /\ onscroll'.of = onscroll.of
      BY <1>0, <2>2 DEF Scroll, PreviewTypeOK
    <3> QED
      BY <1>0, <2>1, <3>1
         DEF TrailInv, CurrentIsAttached, SuccessInTrail, HandlerInTrail, DisplayedIsAudited
  <2>3. CASE DismissDetail
    BY <1>0, <2>1, <2>3
       DEF DismissDetail, previewVars, TrailInv, CurrentIsAttached, SuccessInTrail, HandlerInTrail,
           DisplayedIsAudited
  <2>4. CASE DetailCloses
    <3>1. current' = None /\ request' = AfterCancel /\ UNCHANGED <<view, onscroll>>
      BY <2>4 DEF DetailCloses, CancelOutputRequest
    <3>2. CurrentIsAttached' /\ HandlerInTrail' /\ DisplayedIsAudited'
      BY <1>0, <2>1, <3>1 DEF TrailInv, CurrentIsAttached, HandlerInTrail, DisplayedIsAudited
    <3>3. SuccessInTrail'
      BY <1>0, <2>1, <3>1, AllAborted DEF TrailInv, SuccessInTrail
    <3> QED
      BY <3>2, <3>3 DEF TrailInv
  <2> QED
    BY <1>2, <2>2, <2>3, <2>4 DEF Browse
<1> QED
  BY <1>1, <1>2

\* The trail keeps up with every step.
LEMMA TrailStepInv == OutputInv /\ [OutputNext]_outputVars => TrailInv'
<1> SUFFICES ASSUME OutputInv, [OutputNext]_outputVars PROVE TrailInv'
  OBVIOUS
<1>1. ASSUME NEW r \in Requests \ Fetches, NextRequest(r), UNCHANGED <<dialogVars, previewVars, trail>>
      PROVE  TrailInv'
  <2>1. \A q \in Requests \cap Fetches : audit'[q] = audit[q]
    BY <1>1 DEF NextRequest, OutputInv, IInv, TypeOK
  <2> QED
    BY <1>1, <2>1
       DEF previewVars, OutputInv, TrailInv, CurrentIsAttached, SuccessInTrail, HandlerInTrail,
           DisplayedIsAudited
<1>2. CASE UNCHANGED outputVars
  BY <1>2 DEF outputVars, vars, previewVars, OutputInv, TrailInv, CurrentIsAttached, SuccessInTrail,
              HandlerInTrail, DisplayedIsAudited
<1> QED
  BY <1>1, <1>2, ServerStepTrail, AskForOutputTrail, SettleTrail, BrowseTrail DEF OutputNext

\* The preview and the handler together, for any streams, fetches, requests and
\* slots: what the dialog displays as a log it asked for itself, for the job on
\* display, and the audit log has the success; the guarantees of both parts hold.
THEOREM DisplayedOutputIsAudited ==
  OutputSpec => [](/\ DisplayedIsAudited /\ OnlyScrollMisleads /\ FetchAccounting
                   /\ SlotAccounting /\ AuditTruthful)
<1>1. OutputInit => OutputInv
  <2> SUFFICES ASSUME OutputInit PROVE OutputInv
    OBVIOUS
  <2>1. DialogInv /\ PreviewInv /\ IInv
    BY DialogInit, PreviewInitInv, IdleReader DEF OutputInit
  <2>2. TrailInv
    BY DEF OutputInit, PreviewInit, TrailInv, CurrentIsAttached, SuccessInTrail, HandlerInTrail,
           DisplayedIsAudited, Free, Blank
  <2> QED
    BY <2>1, <2>2 DEF OutputInv
<1>2. OutputInv /\ [OutputNext]_outputVars => OutputInv'
  <2> SUFFICES ASSUME OutputInv, [OutputNext]_outputVars PROVE OutputInv'
    OBVIOUS
  <2>1. IInv'
    BY OutputStep, StepTypeOK, StepHandOff, StepReadContext, StepSlotAccounting, StepAuditTruthful
       DEF OutputInv, IInv
  <2>2. DialogInv' /\ PreviewInv'
    <3>1. {"detail"} \subseteq Dialogs
      BY DEF Dialogs
    <3>2. CASE PreviewNext
      BY <3>1, <3>2, PreviewStepInv, DialogStepInv DEF OutputInv
    <3>3. CASE UNCHANGED <<previewVars, dialogVars>>
      BY <3>1, <3>3, PreviewBystander, DialogStepInv DEF OutputInv, DialogStep
    <3> QED
      BY <3>2, <3>3, OutputStep
  <2> QED
    BY <2>1, <2>2, TrailStepInv DEF OutputInv
<1>3. OutputInv => /\ DisplayedIsAudited /\ OnlyScrollMisleads /\ FetchAccounting
                   /\ SlotAccounting /\ AuditTruthful
  BY DEF OutputInv, TrailInv, PreviewInv, IInv
<1> QED
  BY <1>1, <1>2, <1>3, PTL DEF OutputSpec
=============================================================================
