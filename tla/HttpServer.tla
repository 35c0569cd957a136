----------------------------- MODULE HttpServer -----------------------------
(***************************************************************************)
(* The life of "open-aspm server": server.Run and Serve, with the exit     *)
(* code of the command, the goroutine that shuts the server down, and the  *)
(* connections of clients.                                                 *)
(*                                                                         *)
(* net/http is external: Shutdown closes the listener, whereupon the call  *)
(* of http.Server.Serve returns at once, and then waits for the open       *)
(* connections until its context ends; Close drops them.  A connection is  *)
(* accepted and registered in one step.                                    *)
(***************************************************************************)
EXTENDS Naturals

CONSTANT Clients

VARIABLES
    cancelled,      \* the context of the process (a signal)
    listening,      \* the listener is open
    main,           \* where Run is
    serveError,     \* what http.Server.Serve returned
    helper,         \* where the shutdown goroutine is
    finished,       \* the channel serveFinished is closed
    shutdownResult, \* the buffered channel: "empty", "nil" or "error"
    exit,           \* the exit code of the process
    clients

serverVars ==
    <<cancelled, listening, main, serveError, helper, finished, shutdownResult, exit, clients>>

ServerInit ==
    /\ cancelled = FALSE /\ listening = FALSE
    /\ main = "listen" /\ serveError = "none" /\ helper = "none"
    /\ finished = FALSE /\ shutdownResult = "empty" /\ exit = "none"
    /\ clients = [c \in Clients |-> "away"]

Open == {c \in Clients : clients[c] = "open"}
Dropped == [c \in Clients |-> IF clients[c] = "open" THEN "dropped" ELSE clients[c]]

-----------------------------------------------------------------------------
(* Run and Serve                                                           *)

\* The process ends and takes its connections along.
Exit(code) ==
    /\ main' = "returned" /\ exit' = code
    /\ clients' = Dropped
    /\ listening' = FALSE

\* net.Listen succeeds, and the goroutine starts, or fails.
Listen ==
    /\ main = "listen"
    /\ \/ /\ main' = "serve" /\ listening' = TRUE /\ helper' = "select"
          /\ UNCHANGED <<exit, clients>>
       \/ Exit("failure") /\ UNCHANGED helper
    /\ UNCHANGED <<cancelled, serveError, finished, shutdownResult>>

\* http.Server.Serve returns, because it was shut down or by its own error, and
\* serveFinished is closed.
ServeEnds ==
    /\ main = "serve"
    /\ \/ ~listening /\ serveError' = "none"
       \/ listening /\ serveError' = "error"
    /\ listening' = FALSE
    /\ finished' = TRUE /\ main' = "wait"
    /\ UNCHANGED <<cancelled, helper, shutdownResult, exit, clients>>

\* Mutant: the result of the shutdown is taken only if it is there already.
ServeReturnsEarly ==
    /\ main = "wait"
    /\ Exit(IF shutdownResult = "error" \/ serveError = "error" THEN "failure" ELSE "ok")
    /\ UNCHANGED <<cancelled, serveError, helper, finished, shutdownResult>>

\* The result of the shutdown is awaited; its error is reported first.
ServeReturns ==
    /\ main = "wait" /\ shutdownResult # "empty"
    /\ Exit(IF shutdownResult = "error" \/ serveError = "error" THEN "failure" ELSE "ok")
    /\ shutdownResult' = "empty"
    /\ UNCHANGED <<cancelled, serveError, helper, finished>>

-----------------------------------------------------------------------------
(* The goroutine                                                           *)

\* Mutant: it waits for the context alone.
SelectContext ==
    /\ helper = "select" /\ cancelled
    /\ helper' = "drain" /\ listening' = FALSE
    /\ UNCHANGED <<cancelled, main, serveError, finished, shutdownResult, exit, clients>>

\* Either channel may be chosen when both are ready.
Select ==
    /\ helper = "select"
    /\ \/ cancelled /\ helper' = "drain" /\ listening' = FALSE /\ UNCHANGED shutdownResult
       \/ finished /\ helper' = "ended" /\ shutdownResult' = "nil" /\ UNCHANGED listening
    /\ UNCHANGED <<cancelled, main, serveError, finished, exit, clients>>

\* Shutdown succeeds once no connection is open, or its time is up and Close drops
\* those that are.
Drain ==
    /\ helper = "drain" /\ helper' = "ended"
    /\ \/ Open = {} /\ shutdownResult' = "nil" /\ UNCHANGED clients
       \/ shutdownResult' = "error" /\ clients' = Dropped
    /\ UNCHANGED <<cancelled, listening, main, serveError, finished, exit>>

-----------------------------------------------------------------------------
(* The environment                                                         *)

Cancel ==
    /\ ~cancelled /\ cancelled' = TRUE
    /\ UNCHANGED <<listening, main, serveError, helper, finished, shutdownResult, exit, clients>>

Connect(c) ==
    /\ main = "serve" /\ listening /\ clients[c] = "away"
    /\ clients' = [clients EXCEPT ![c] = "open"]
    /\ UNCHANGED <<cancelled, listening, main, serveError, helper, finished, shutdownResult, exit>>

Answer(c) ==
    /\ clients[c] = "open"
    /\ clients' = [clients EXCEPT ![c] = "answered"]
    /\ UNCHANGED <<cancelled, listening, main, serveError, helper, finished, shutdownResult, exit>>

ServerNext ==
    \/ Listen \/ ServeEnds \/ ServeReturns \/ Select \/ Drain \/ Cancel
    \/ \E c \in Clients : Connect(c) \/ Answer(c)

\* Goroutines run and timers fire.  Nothing is assumed of clients, of handlers
\* returning, of signals, or of the listener failing.
ServerSpec ==
    /\ ServerInit /\ [][ServerNext]_serverVars
    /\ WF_serverVars(Listen) /\ WF_serverVars(ServeEnds /\ ~listening)
    /\ WF_serverVars(ServeReturns) /\ WF_serverVars(Select) /\ WF_serverVars(Drain)

-----------------------------------------------------------------------------
(* Properties                                                              *)

\* The command exits with success only after a requested shutdown in which every
\* connection it had accepted was answered.
SuccessMeansDrained ==
    exit = "ok" => cancelled /\ \A c \in Clients : clients[c] # "dropped"

\* A signal, or a failure of the listener, ends the command, whichever of its
\* channels the goroutine chooses and however long handlers take; and neither of
\* the two goroutines is left behind waiting for the other.
ServerStops ==
    (cancelled \/ finished) ~> (main = "returned" /\ helper \in {"none", "ended"})
=============================================================================
