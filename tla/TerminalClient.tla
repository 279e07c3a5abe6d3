--------------------------- MODULE TerminalClient ---------------------------
(***************************************************************************)
(* The browser's side of an SSH terminal (static/app.js): the form creates *)
(* a session with a POST, a WebSocket attaches to it, xterm.js displays    *)
(* it.  TerminalSessions is the server's side.                             *)
(*                                                                         *)
(* A socket is a name that is free again once its close event has run.     *)
(* The WebSocket is the browser's: after close() it delivers no message,   *)
(* and its close event comes when the other side has answered, which may   *)
(* be long after the next socket was opened; a connection that fails has   *)
(* its error and its close event in one task.                              *)
(***************************************************************************)
EXTENDS Naturals

CONSTANTS Nil,
          Sockets,   \* names of WebSockets whose close event is still to come
          Sizes,     \* sizes of the console element, in rows and columns
          TooLarge,  \* sizes the server refuses: over 200 rows or 500 columns
          Default,   \* 24 rows, 100 columns
          MaxFrames  \* animation frames that may be queued

ASSUME TerminalClientAssumption ==
  /\ TooLarge \subseteq Sizes
  /\ Default \in Sizes \ TooLarge
  /\ Nil \notin Sizes \cup Sockets
  /\ MaxFrames \in Nat \ {0}

VARIABLES
  loaded,          \* window.Terminal and window.FitAddon, as far as they loaded
  creating,        \* the POST is in flight
  openDisabled,    \* terminalOpen.disabled
  sock,            \* readyState of each WebSocket
  terminalSocket,
  stdin,           \* not terminalEmulator.options.disableStdin
  terminalStatus,
  console,         \* the size of terminalConsole, Nil while it is not displayed
  emulator,        \* the rows and columns of terminalEmulator
  pty,             \* the size of each session's pseudo terminal
  observed,        \* the ResizeObserver has something to report
  resizeFrame,     \* terminalResizeFrame !== null
  frames,          \* animation frames queued
  screen,          \* the sockets whose output is on the screen
  lateClose        \* ghost: an old socket's close event ran since the last open

clientVars == <<loaded, creating, openDisabled, sock, terminalSocket, stdin, terminalStatus,
                console, emulator, pty, observed, resizeFrame, frames, screen, lateClose>>

Assets == {"Terminal", "FitAddon"}

ClientTypeOK ==
  /\ loaded \subseteq Assets
  /\ creating \in BOOLEAN /\ openDisabled \in BOOLEAN /\ stdin \in BOOLEAN
  /\ sock \in [Sockets -> {"free", "connecting", "open", "closing"}]
  /\ terminalSocket \in Sockets \cup {Nil}
  /\ terminalStatus \in {"", "connecting", "connected", "disconnected", "failed"}
  /\ console \in Sizes \cup {Nil}
  /\ emulator \in Sizes
  /\ pty \in [Sockets -> Sizes]
  /\ observed \in BOOLEAN /\ resizeFrame \in BOOLEAN
  /\ frames \in 0 .. MaxFrames
  /\ screen \subseteq Sockets
  /\ lateClose \in BOOLEAN

\* terminalFitAddon.fit(), and the rows that do not fit cut off.
Fitted(size) == IF loaded = Assets /\ size # Nil THEN size ELSE Default

ClientInit ==
  /\ loaded \in SUBSET Assets
  /\ console \in Sizes
  /\ emulator = Fitted(console)
  /\ observed = TRUE  \* observe() reports the first size
  /\ creating = FALSE /\ openDisabled = FALSE
  /\ sock = [s \in Sockets |-> "free"]
  /\ terminalSocket = Nil
  /\ stdin = FALSE
  /\ terminalStatus = ""
  /\ pty = [s \in Sockets |-> Default]
  /\ resizeFrame = FALSE /\ frames = 0
  /\ screen = {}
  /\ lateClose = FALSE

IsOpen(sk) == terminalSocket # Nil /\ sk[terminalSocket] = "open"

----------------------------------------------------------------------------
\* Mutant of ResizeTerminal: the handle of the frame is kept.
ResizeTerminalKeeping(sk) ==
  LET size == IF loaded = Assets /\ console # Nil THEN console ELSE emulator IN
  /\ UNCHANGED resizeFrame
  /\ emulator' = size
  /\ pty' = IF loaded = Assets /\ console # Nil /\ IsOpen(sk) /\ size \notin TooLarge
              THEN [pty EXCEPT ![terminalSocket] = size] ELSE pty

(* Fits the emulator to the console and tells the server, whose Resize     *)
(* ignores what it finds too large.  sk: the sockets when it is called.    *)
ResizeTerminal(sk) ==
  LET fits == loaded = Assets /\ console # Nil IN
  /\ resizeFrame' = FALSE
  /\ emulator' = IF fits THEN Fitted(console) ELSE emulator
  /\ pty' = IF fits /\ IsOpen(sk) /\ Fitted(console) \notin TooLarge
              THEN [pty EXCEPT ![terminalSocket] = Fitted(console)] ELSE pty

ConsoleResizes ==
  /\ \E size \in (Sizes \cup {Nil}) \ {console} : console' = size
  /\ observed' = TRUE
  /\ UNCHANGED <<loaded, creating, openDisabled, sock, terminalSocket, stdin, terminalStatus,
                 emulator, pty, resizeFrame, frames, screen, lateClose>>

\* The ResizeObserver calls queueTerminalResize.
ObserverFires ==
  /\ observed
  /\ frames < MaxFrames \/ resizeFrame
  /\ observed' = FALSE
  /\ frames' = IF resizeFrame THEN frames ELSE frames + 1
  /\ resizeFrame' = TRUE
  /\ UNCHANGED <<loaded, creating, openDisabled, sock, terminalSocket, stdin, terminalStatus,
                 console, emulator, pty, screen, lateClose>>

AnimationFrame ==
  /\ frames > 0
  /\ frames' = frames - 1
  /\ ResizeTerminal(sock)
  /\ UNCHANGED <<loaded, creating, openDisabled, sock, terminalSocket, stdin, terminalStatus,
                 console, observed, screen, lateClose>>

----------------------------------------------------------------------------
\* Mutant of CloseTerminal: the socket is forgotten and not closed.
CloseTerminalForgetting ==
  /\ UNCHANGED sock
  /\ terminalSocket' = Nil
  /\ stdin' = FALSE

CloseTerminal ==
  /\ sock' = IF terminalSocket # Nil /\ sock[terminalSocket] \in {"connecting", "open"}
               THEN [sock EXCEPT ![terminalSocket] = "closing"] ELSE sock
  /\ terminalSocket' = Nil
  /\ stdin' = FALSE

\* A disabled button keeps the form from being submitted.
Submit ==
  /\ ~openDisabled
  /\ CloseTerminal
  /\ IF "Terminal" \in loaded
       THEN /\ screen' = {}  \* terminalEmulator.reset()
            /\ openDisabled' = TRUE /\ creating' = TRUE
            /\ terminalStatus' = "connecting"
       ELSE /\ terminalStatus' = "failed"
            /\ UNCHANGED <<screen, openDisabled, creating>>
  /\ UNCHANGED <<loaded, console, emulator, pty, observed, resizeFrame, frames, lateClose>>

\* Mutant of CreateFails: the button is not enabled after an error.
CreateFailsDisabled ==
  /\ creating
  /\ creating' = FALSE
  /\ terminalStatus' = "failed"
  /\ UNCHANGED <<loaded, openDisabled, sock, terminalSocket, stdin, console, emulator, pty,
                 observed, resizeFrame, frames, screen, lateClose>>

\* The server refuses the session or the connection is lost.
CreateFails ==
  /\ creating
  /\ creating' = FALSE
  /\ terminalStatus' = "failed"
  /\ openDisabled' = FALSE
  /\ UNCHANGED <<loaded, sock, terminalSocket, stdin, console, emulator, pty,
                 observed, resizeFrame, frames, screen, lateClose>>

CreateSucceeds(s) ==
  /\ creating
  /\ sock[s] = "free"
  /\ creating' = FALSE
  /\ openDisabled' = FALSE
  /\ terminalSocket' = s
  /\ sock' = [sock EXCEPT ![s] = "connecting"]
  /\ pty' = [pty EXCEPT ![s] = Default]
  /\ UNCHANGED <<loaded, stdin, terminalStatus, console, emulator, observed, resizeFrame, frames,
                 screen, lateClose>>

\* window.onbeforeunload: the page may stay, for a link that is a download.
BeforeUnload ==
  /\ CloseTerminal
  /\ UNCHANGED <<loaded, creating, openDisabled, terminalStatus, console, emulator, pty,
                 observed, resizeFrame, frames, screen, lateClose>>

----------------------------------------------------------------------------
SocketOpens(s) ==
  /\ sock[s] = "connecting"
  /\ sock' = [sock EXCEPT ![s] = "open"]
  /\ stdin' = TRUE
  /\ ResizeTerminal(sock')
  /\ terminalStatus' = "connected"
  /\ lateClose' = FALSE
  /\ UNCHANGED <<loaded, creating, openDisabled, terminalSocket, console, observed, frames, screen>>

\* Mutant of Disconnected: the keyboard is left on.
DisconnectedTyping(s) ==
  /\ sock' = [sock EXCEPT ![s] = "free"]
  /\ terminalStatus' = "disconnected"
  /\ lateClose' = (lateClose \/ s # terminalSocket)
  /\ UNCHANGED <<loaded, creating, openDisabled, terminalSocket, stdin, console, emulator, pty,
                 observed, resizeFrame, frames, screen>>

\* The close event, whichever socket it is of.
Disconnected(s) ==
  /\ sock' = [sock EXCEPT ![s] = "free"]
  /\ stdin' = FALSE
  /\ terminalStatus' = "disconnected"
  /\ lateClose' = (lateClose \/ s # terminalSocket)
  /\ UNCHANGED <<loaded, creating, openDisabled, terminalSocket, console, emulator, pty,
                 observed, resizeFrame, frames, screen>>

SocketFails(s) == sock[s] = "connecting" /\ Disconnected(s)

SocketCloses(s) == sock[s] = "closing" /\ Disconnected(s)

\* The other side ended the connection; the close event is still to come.
ServerCloses(s) ==
  /\ sock[s] = "open"
  /\ sock' = [sock EXCEPT ![s] = "closing"]
  /\ UNCHANGED <<loaded, creating, openDisabled, terminalSocket, stdin, terminalStatus, console,
                 emulator, pty, observed, resizeFrame, frames, screen, lateClose>>

Message(s) ==
  /\ sock[s] = "open"
  /\ screen' = screen \cup {s}
  /\ UNCHANGED <<loaded, creating, openDisabled, sock, terminalSocket, stdin, terminalStatus,
                 console, emulator, pty, observed, resizeFrame, frames, lateClose>>

ClientNext ==
  \/ Submit \/ CreateFails \/ BeforeUnload
  \/ ConsoleResizes \/ ObserverFires \/ AnimationFrame
  \/ \E s \in Sockets :
       \/ CreateSucceeds(s) \/ SocketOpens(s) \/ SocketFails(s)
       \/ ServerCloses(s) \/ SocketCloses(s) \/ Message(s)

(* The server answers every create request (TerminalSessions), a WebSocket *)
(* handshake and a closing handshake end, by a timeout if not by an answer. *)
ClientFairness ==
  /\ WF_clientVars(CreateFails \/ \E s \in Sockets : CreateSucceeds(s))
  /\ \A s \in Sockets : /\ WF_clientVars(SocketOpens(s) \/ SocketFails(s))
                        /\ WF_clientVars(SocketCloses(s))

ClientSpec == ClientInit /\ [][ClientNext]_clientVars /\ ClientFairness

----------------------------------------------------------------------------
(* At most one WebSocket is alive, it is terminalSocket, and what is on    *)
(* the screen since the last connect came through it (app.js:621-634).     *)
OneLiveSocket ==
  /\ \A s \in Sockets : sock[s] \in {"connecting", "open"} => s = terminalSocket
  /\ terminalSocket # Nil => screen \subseteq {terminalSocket}

(* While the current socket is open the user can type and is told so,      *)
(* unless the close event of an earlier socket ran since: the handler      *)
(* (app.js:659-662) does not ask whose socket it was.                      *)
DeadOnlyByLateClose ==
  /\ IsOpen(sock) => (stdin /\ terminalStatus = "connected") \/ lateClose
  /\ stdin => terminalSocket # Nil /\ sock[terminalSocket] \in {"open", "closing"}

(* Once the observer and the frames have run, the remote pseudo terminal   *)
(* has the size the user sees, unless the server refused it                *)
(* (app.js:596-614, 654).                                                  *)
SizeAgrees ==
  IsOpen(sock) /\ ~observed /\ frames = 0 =>
    \/ pty[terminalSocket] = emulator /\ (loaded = Assets /\ console # Nil => emulator = console)
    \/ emulator \in TooLarge
    \/ console = Nil

(* The button comes back and "Connecting..." is not the last word          *)
(* (app.js:659-666).                                                       *)
ConnectingEnds ==
  /\ openDisabled ~> ~openDisabled
  /\ terminalStatus = "connecting" ~> terminalStatus # "connecting"
=============================================================================
