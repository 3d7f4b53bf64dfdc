-------------------------- MODULE ContainerStreams -------------------------
(***************************************************************************)
(* A page that follows a container: the web terminal, a shell in the       *)
(* container joined to a WebSocket, or the stream of the container's log.  *)
(* Each is a handler, which reads what the client types or the lines that  *)
(* arrive, and a goroutine it starts, the copier, which reads what the     *)
(* container puts out.  This is one such page.                             *)
(*                                                                         *)
(* The log's copier writes into a pipe that holds nothing: its write       *)
(* returns when the handler's scanner has taken all of it.                 *)
(***************************************************************************)
EXTENDS Naturals

CONSTANT MaxPieces   \* bound: reads of the scanner one write of the copier takes

StreamsAssumption == MaxPieces \in Nat \ {0}

VARIABLES
    kind,       \* "terminal" or "log"
    handler,    \* what the handler does
    copier,     \* what the copier does
    pieces,     \* what is left of the copier's write into the pipe
    client,     \* the browser: "there" or "gone"
    container,  \* the shell, or the container whose log it is: "running" or "over"
    flowing,    \* the shell takes what is typed
    cancelled   \* the context of the request has ended

vars == <<kind, handler, copier, pieces, client, container, flowing, cancelled>>

Init ==
    /\ kind \in {"terminal", "log"}
    /\ handler = "none" /\ copier = "none" /\ pieces = 0
    /\ client = "there" /\ container = "running" /\ flowing = TRUE /\ cancelled = FALSE

Terminal == kind = "terminal"
Ended == handler = "over" /\ copier \in {"none", "over"}

----------------------------------------------------------------------------
(* What goes on outside: the request arrives, the client leaves (and the   *)
(* server notices, unless the connection is a WebSocket's), the container  *)
(* ends, the shell stops and starts to read, the client types.             *)
Arrive ==
    /\ handler = "none" /\ handler' = "attach"
    /\ UNCHANGED <<kind, copier, pieces, client, container, flowing, cancelled>>

Leave ==
    /\ handler # "none" /\ client = "there" /\ client' = "gone"
    /\ UNCHANGED <<kind, handler, copier, pieces, container, flowing, cancelled>>

Notice ==
    /\ ~Terminal /\ client = "gone" /\ ~cancelled /\ cancelled' = TRUE
    /\ UNCHANGED <<kind, handler, copier, pieces, client, container, flowing>>

ContainerEnds ==
    /\ handler # "none" /\ container = "running" /\ container' = "over"
    /\ UNCHANGED <<kind, handler, copier, pieces, client, flowing, cancelled>>

ShellStalls ==
    /\ Terminal /\ handler # "none" /\ flowing' = ~flowing
    /\ UNCHANGED <<kind, handler, copier, pieces, client, container, cancelled>>

(* A resize only calls Docker; anything else is written to the shell.      *)
Type ==
    /\ Terminal /\ handler = "read" /\ client = "there" /\ ~cancelled
    /\ handler' = "stdin"
    /\ UNCHANGED <<kind, copier, pieces, client, container, flowing, cancelled>>

----------------------------------------------------------------------------
(* ExecTTY, with its fallback to /bin/sh, or ContainerLogs; an error is    *)
(* reported and ends the request.                                          *)
Attach ==
    /\ handler = "attach"
    /\ \/ handler' = "read" /\ copier' = "read"
       \/ handler' = "over" /\ UNCHANGED copier
    /\ UNCHANGED <<kind, pieces, client, container, flowing, cancelled>>

(* Mutant: the reader is not closed when the handler returns.              *)
NeverClosed == cancelled /\ ~Terminal

(* Reads of the copier end when the handler has returned, which closes its *)
(* reader, and for the log when the request's context has ended.           *)
ReaderClosed == handler = "over" \/ (cancelled /\ ~Terminal)

(* The container puts something out, or there is more of it in the buffers *)
(* after the end.                                                          *)
CopierReads ==
    /\ copier = "read"
    /\ copier' = "write" /\ pieces' \in IF Terminal THEN {0} ELSE 1..MaxPieces
    /\ UNCHANGED <<kind, handler, client, container, flowing, cancelled>>

(* The copier returns: the terminal's cancels the context, the log's closes*)
(* the pipe.                                                               *)
CopierReturns ==
    /\ copier' = "over" /\ cancelled' = (cancelled \/ Terminal)
    /\ UNCHANGED <<kind, handler, pieces, client, container, flowing>>

CopierEOF == copier = "read" /\ (container = "over" \/ ReaderClosed) /\ CopierReturns

(* The terminal's write to the WebSocket returns within 5 s; it fails when *)
(* the handler has closed it, the client is gone, or is too slow.          *)
CopierSends ==
    /\ Terminal /\ copier = "write"
    /\ \/ /\ handler # "over" /\ client = "there" /\ copier' = "read"
          /\ UNCHANGED <<kind, handler, pieces, client, container, flowing, cancelled>>
       \/ CopierReturns

(* The terminal's handler.                                                 *)
ReadFails ==
    /\ Terminal /\ handler = "read" /\ (client = "gone" \/ cancelled) /\ handler' = "over"
    /\ UNCHANGED <<kind, copier, pieces, client, container, flowing, cancelled>>

WriteStdin ==
    /\ handler = "stdin"
    /\ \/ flowing /\ container = "running" /\ handler' = "read"
       \/ container = "over" /\ handler' = "over"
    /\ UNCHANGED <<kind, copier, pieces, client, container, flowing, cancelled>>

(* The log's handler: scanner.Scan takes a piece of the copier's write, or *)
(* gives up on a line that is too long; after each line the context is     *)
(* looked at; at the end of the pipe "done" is sent.                       *)
Scan ==
    /\ ~Terminal /\ handler = "read" /\ copier = "write"
    /\ \/ /\ handler' = "line" /\ pieces' = pieces - 1
          /\ copier' = IF pieces = 1 THEN "read" ELSE "write"
       \/ handler' = "over" /\ UNCHANGED <<copier, pieces>>
    /\ UNCHANGED <<kind, client, container, flowing, cancelled>>

ScanEOF ==
    /\ ~Terminal /\ handler = "read" /\ copier = "over" /\ handler' = "over"
    /\ UNCHANGED <<kind, copier, pieces, client, container, flowing, cancelled>>

SendEvent ==
    /\ handler = "line" /\ handler' = IF cancelled THEN "over" ELSE "read"
    /\ UNCHANGED <<kind, copier, pieces, client, container, flowing, cancelled>>

Next ==
    \/ Arrive \/ Leave \/ Notice \/ ContainerEnds \/ ShellStalls \/ Type
    \/ CopierReads \/ CopierEOF \/ CopierSends
    \/ Attach \/ ReadFails \/ WriteStdin \/ Scan \/ ScanEOF \/ SendEvent

(* The handler and the copier are goroutines of their own; the HTTP server *)
(* watches the connection of a request that is not hijacked.               *)
HandlerStep == Attach \/ ReadFails \/ WriteStdin \/ Scan \/ ScanEOF \/ SendEvent

Fairness ==
    /\ WF_vars(HandlerStep) /\ WF_vars(CopierEOF \/ CopierSends) /\ WF_vars(Notice)

Spec == Init /\ [][Next]_vars
LiveSpec == Spec /\ Fairness

----------------------------------------------------------------------------
(* The types of the variables.                                             *)
TypeOK ==
    /\ kind \in {"terminal", "log"} /\ pieces \in 0..MaxPieces
    /\ handler \in {"none", "attach", "read", "stdin", "line", "over"}
    /\ copier \in {"none", "read", "write", "over"}
    /\ client \in {"there", "gone"} /\ container \in {"running", "over"}
    /\ flowing \in BOOLEAN /\ cancelled \in BOOLEAN

(* The two places where a page can stay for ever: the terminal's handler   *)
(* in a write to a shell that does not read, and the log's copier in a     *)
(* write to a pipe whose handler has returned and did not close it.        *)
Stuck ==
    \/ Terminal /\ handler = "stdin"
    \/ ~Terminal /\ handler = "over" /\ copier = "write"

(* A page whose client has left ends, handler and copier both, unless it is*)
(* stuck in one of those two places (TerminalHandler.ContainerTerminalWS,  *)
(* deployments.Handler.StreamContainerLogs).                               *)
PagesEnd == client = "gone" ~> (Ended \/ []Stuck)
=============================================================================
