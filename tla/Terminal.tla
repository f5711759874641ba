------------------------------ MODULE Terminal ------------------------------
(***************************************************************************)
(* A terminal in the browser: the shell of a container                     *)
(* (api/infrastructure/kubernetes/pod_terminal_handler.go) or of a server  *)
(* over SSH (api/infrastructure/cluster/server_terminal_handler.go).  Two  *)
(* goroutines share a web socket and a remote shell: the reader takes      *)
(* frames from the browser and writes them to the shell, the relay (the    *)
(* handler itself) sends the shell's output back.  Each may block, and     *)
(* each learns that the other side is gone only where it looks next.       *)
(***************************************************************************)
EXTENDS Naturals

CONSTANTS
    Sizes,       \* window sizes a browser may ask for
    Default,     \* 80 x 24
    MaxFrames,   \* bound: frames the browser sends
    MaxOutput,   \* bound: pieces of output of the shell
    None

VARIABLES
    kind,        \* "pod" or "server"
    client,      \* the browser: "open" or "gone"
    conn,        \* the server's end of the web socket is open
    shell,       \* the remote shell: "none", "running" or "exited"
    session,     \* pod: the context is not cancelled; server: the SSH session is open
    relay,       \* the handler: "setup", "relay", "send" or "done"
    reader,      \* "none", "read", "write", "push" or "done"
    queue,       \* the window size waiting in the channel of capacity one, or None
    pushing,     \* the size the reader is about to put into the channel
    applied,     \* the size the shell was told
    last,        \* the size the browser asked for last
    frames, output

vars == <<kind, client, conn, shell, session, relay, reader, queue, pushing, applied, last, frames, output>>

TypeOK ==
    /\ kind \in {"pod", "server"} /\ client \in {"open", "gone"}
    /\ conn \in BOOLEAN /\ session \in BOOLEAN
    /\ shell \in {"none", "running", "exited"}
    /\ relay \in {"setup", "relay", "send", "done"}
    /\ reader \in {"none", "read", "write", "push", "done"}
    /\ {queue, pushing, applied, last} \subseteq Sizes \cup {Default, None}
    /\ frames \in 0 .. MaxFrames /\ output \in 0 .. MaxOutput

\* The web socket is upgraded once the Pod is running and its container known,
\* or the server found.
Init ==
    /\ kind \in {"pod", "server"}
    /\ client = "open" /\ conn = TRUE /\ shell = "none" /\ session = TRUE
    /\ relay = "setup" /\ reader = "none"
    /\ queue = None /\ pushing = None /\ applied = Default /\ last = Default
    /\ frames = 0 /\ output = 0

\* newPodTerminalSizeQueue holds the first size for the stream to take.
newPodTerminalSizeQueue == IF kind = "pod" THEN Default ELSE None

\* PodTerminal: the executor is made, the reader started, the stream opened.
PodTerminal ==
    /\ kind = "pod" /\ relay = "setup"
    /\ relay' = "relay" /\ reader' = "read" /\ shell' = "running" /\ queue' = newPodTerminalSizeQueue
    /\ UNCHANGED <<kind, client, conn, session, pushing, applied, last, frames, output>>

\* ServerTerminalHandler.Terminal: credentials, dial, session, pty, shell.
ServerTerminal ==
    /\ kind = "server" /\ relay = "setup"
    /\ relay' = "relay" /\ reader' = "read" /\ shell' = "running"
    /\ UNCHANGED <<kind, client, conn, session, queue, pushing, applied, last, frames, output>>

\* Any of these may fail; the handler returns before there is a reader.
SetupFails ==
    /\ relay = "setup" /\ relay' = "done" /\ conn' = FALSE
    /\ UNCHANGED <<kind, client, shell, session, reader, queue, pushing, applied, last, frames, output>>

-----------------------------------------------------------------------------
(* The reader.                                                             *)

\* ReadFrame fails: the socket was closed by either side.
Disconnected == client = "gone" \/ ~conn

\* The reader ends the session on its way out: cancel() for a Pod,
\* session.Close() for a server.
LeaveSession == UNCHANGED session
EndSession == session' = FALSE

ReadFails ==
    /\ reader = "read" /\ Disconnected
    /\ reader' = "done" /\ EndSession
    /\ UNCHANGED <<kind, client, conn, shell, relay, queue, pushing, applied, last, frames, output>>

\* podTerminalSizeQueue.Resize, first select: take out the size that waits.
Undrained(old) == old
Drained(old) == None

\* A frame that asks for a window size: a Pod's goes through the size queue,
\* a server's straight to the session.
Resize(size) ==
    /\ reader = "read" /\ ~Disconnected /\ frames < MaxFrames
    /\ frames' = frames + 1 /\ last' = size
    /\ IF kind = "pod"
       THEN reader' = "push" /\ pushing' = size /\ queue' = Drained(queue) /\ UNCHANGED applied
       ELSE applied' = size /\ UNCHANGED <<reader, pushing, queue>>
    /\ UNCHANGED <<kind, client, conn, shell, session, relay, output>>

\* podTerminalSizeQueue.Resize, second select: put the new size in if there is room.
PushSize(old, new) == IF old = None THEN new ELSE old

Push ==
    /\ reader = "push"
    /\ queue' = PushSize(queue, pushing)
    /\ reader' = "read" /\ pushing' = None
    /\ UNCHANGED <<kind, client, conn, shell, session, relay, applied, last, frames, output>>

\* A frame of input: written to the pipe, which blocks until the shell takes it.
\* A Pod's reader looks at the context first.
Input ==
    /\ reader = "read" /\ ~Disconnected /\ frames < MaxFrames
    /\ frames' = frames + 1
    /\ reader' = IF kind = "pod" /\ ~session THEN "done" ELSE "write"
    /\ UNCHANGED <<kind, client, conn, shell, session, relay, queue, pushing, applied, last, output>>

\* The shell takes the input.
InputTaken ==
    /\ reader = "write" /\ shell = "running" /\ relay # "done"
    /\ reader' = "read"
    /\ UNCHANGED <<kind, client, conn, shell, session, relay, queue, pushing, applied, last, frames, output>>

\* The write fails once the pipe is closed or the remote side is gone.
readPodTerminalInput ==
    /\ reader = "write" /\ (relay = "done" \/ ~session \/ (kind = "server" /\ shell = "exited"))
    /\ reader' = "done" /\ EndSession
    /\ UNCHANGED <<kind, client, conn, shell, relay, queue, pushing, applied, last, frames, output>>

Reader == ReadFails \/ (\E size \in Sizes : Resize(size)) \/ Push \/ Input \/ InputTaken \/ readPodTerminalInput

-----------------------------------------------------------------------------
(* The relay.                                                              *)

\* The stream asks for the next window size.
NextSize ==
    /\ relay \in {"relay", "send"} /\ queue # None
    /\ applied' = queue /\ queue' = None
    /\ UNCHANGED <<kind, client, conn, shell, session, relay, reader, pushing, last, frames, output>>

\* The shell writes something and the relay takes it.
Output ==
    /\ relay = "relay" /\ shell = "running" /\ session /\ output < MaxOutput
    /\ output' = output + 1 /\ relay' = "send"
    /\ UNCHANGED <<kind, client, conn, shell, session, reader, queue, pushing, applied, last, frames>>

\* WriteFrame ends when the browser takes the frame or is gone.  A server's
\* relay stops on the error; a Pod's stream goes on and waits to be cancelled.
WriteFrame ==
    /\ relay = "send"
    /\ relay' = IF client = "gone" /\ kind = "server" THEN "done" ELSE "relay"
    /\ conn' = (conn /\ relay' # "done")
    /\ session' = (session /\ relay' # "done")
    /\ UNCHANGED <<kind, client, shell, reader, queue, pushing, applied, last, frames, output>>

\* The stream is over, or was cancelled; the deferred calls close the pipe, the
\* session and the socket.
RelayEnds ==
    /\ relay = "relay" /\ (shell = "exited" \/ ~session)
    /\ relay' = "done" /\ conn' = FALSE /\ session' = FALSE
    /\ UNCHANGED <<kind, client, shell, reader, queue, pushing, applied, last, frames, output>>

Relay == PodTerminal \/ ServerTerminal \/ NextSize \/ WriteFrame \/ RelayEnds

-----------------------------------------------------------------------------
BrowserLeaves ==
    /\ client = "open" /\ client' = "gone"
    /\ UNCHANGED <<kind, conn, shell, session, relay, reader, queue, pushing, applied, last, frames, output>>

ShellExits ==
    /\ shell = "running" /\ shell' = "exited"
    /\ UNCHANGED <<kind, client, conn, session, relay, reader, queue, pushing, applied, last, frames, output>>

Next == SetupFails \/ Reader \/ Relay \/ Output \/ BrowserLeaves \/ ShellExits

\* Goroutines are scheduled; a shell reads its input and a browser takes its
\* frames for as long as they live.
ReaderStep == ReadFails \/ Push \/ InputTaken \/ readPodTerminalInput
Fairness == WF_vars(ReaderStep) /\ WF_vars(Relay)
Spec == Init /\ [][Next]_vars /\ Fairness

-----------------------------------------------------------------------------
\* podTerminalSizeQueue keeps the latest size: between two requests the channel
\* holds the size the browser asked for last, or the shell has it already.
LatestSize ==
    (relay \in {"relay", "send"} /\ reader # "push") =>
        IF queue # None THEN queue = last ELSE applied = last

\* Neither goroutine outlives the terminal: when the browser leaves or the
\* shell exits, the relay and the reader both come to an end.
TerminalEnds ==
    (client = "gone" \/ shell = "exited") ~> (relay = "done" /\ reader \in {"none", "done"})
=============================================================================
