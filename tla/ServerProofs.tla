---------------------------- MODULE ServerProofs ----------------------------
(***************************************************************************)
(* The safety properties of three components around the server, for every  *)
(* value of their constants: the drain of HttpServer, the tokens of Access *)
(* and the storage of BlobAdapters with its refinement of BlobStore.  They *)
(* share no state; each has a section, an inductive invariant and theorems *)
(* of its own.                                                             *)
(***************************************************************************)
EXTENDS HttpServer, Access, BlobAdapters, TLAPS

-----------------------------------------------------------------------------
(***************************************************************************)
(* HttpServer, for any number of clients.                                  *)
(***************************************************************************)

ClientStates == {"away", "open", "answered", "dropped"}

ServerTypes ==
    /\ cancelled \in BOOLEAN /\ listening \in BOOLEAN /\ finished \in BOOLEAN
    /\ main \in {"listen", "serve", "wait", "returned"}
    /\ serveError \in {"none", "error"}
    /\ helper \in {"none", "select", "drain", "ended"}
    /\ shutdownResult \in {"empty", "nil", "error"}
    /\ exit \in {"none", "ok", "failure"}
    /\ clients \in [Clients -> ClientStates]

(* Serve returns without an error only after the goroutine has begun to     *)
(* drain, and the goroutine drains only because the context ended: its      *)
(* other choice, serveFinished, is ready only once Serve has returned.      *)
(* Until the process ends, connections are dropped only by a Close whose    *)
(* error is in shutdownResult, and a drain that succeeded leaves none open. *)
ShutdownInv ==
    /\ ServerTypes
    /\ main \in {"listen", "serve"} => ~finished /\ serveError = "none"
    /\ main = "listen" => helper = "none" /\ shutdownResult = "empty" /\ ~listening
    /\ main = "wait" => ~listening
    /\ main = "serve" => (listening <=> helper = "select")
    /\ helper \in {"none", "select", "drain"} /\ main # "returned" => shutdownResult = "empty"
    /\ helper = "drain" => cancelled
    /\ helper = "ended" /\ serveError = "none" => cancelled
    /\ helper = "select" /\ main # "serve" => serveError = "error"
    /\ main # "returned" /\ shutdownResult # "error" => \A c \in Clients : clients[c] # "dropped"
    /\ main # "returned" /\ shutdownResult = "nil" /\ serveError = "none" =>
          \A c \in Clients : clients[c] # "open"
    /\ main = "returned" => ~listening /\ \A c \in Clients : clients[c] # "open"
    /\ main # "returned" => exit = "none"
    /\ SuccessMeansDrained

(* A process that has not listened yet owes nothing. *)
LEMMA ShutdownStarts == ServerInit => ShutdownInv
  BY Zenon DEF ServerInit, ShutdownInv, ServerTypes, ClientStates, SuccessMeansDrained

(* Closing the server drops the open connections and touches no other. *)
LEMMA DroppedClients ==
    ASSUME clients \in [Clients -> ClientStates]
    PROVE  /\ Dropped \in [Clients -> ClientStates]
           /\ \A c \in Clients : Dropped[c] # "open"
           /\ \A c \in Clients : Dropped[c] = "dropped" => clients[c] \in {"open", "dropped"}
  BY DEF Dropped, ClientStates

(* Every step of Serve, of the shutdown goroutine and of a client keeps     *)
(* the invariant.                                                           *)
LEMMA ShutdownKeeps ==
    ASSUME ShutdownInv, [ServerNext]_serverVars
    PROVE  ShutdownInv'
  <1>1. CASE Listen
    <2>1. CASE main' = "serve"
      BY <1>1, <2>1 DEF Listen, Exit, ShutdownInv, ServerTypes, SuccessMeansDrained
    <2>2. CASE main' # "serve"
      BY <1>1, <2>2, DroppedClients, Zenon DEF Listen, Exit, ShutdownInv, ServerTypes,
         SuccessMeansDrained
    <2>3. QED
      BY <2>1, <2>2
  <1>2. CASE ServeEnds
    <2>1. CASE ~listening /\ serveError' = "none"
      BY <1>2, <2>1, Zenon DEF ServeEnds, ShutdownInv, ServerTypes, SuccessMeansDrained
    <2>2. CASE listening /\ serveError' = "error"
      BY <1>2, <2>2, Zenon DEF ServeEnds, ShutdownInv, ServerTypes, SuccessMeansDrained
    <2>3. QED
      BY <1>2, <2>1, <2>2 DEF ServeEnds
  <1>3. CASE ServeReturns
    BY <1>3, DroppedClients, Zenon DEF ServeReturns, Exit, ShutdownInv, ServerTypes,
       SuccessMeansDrained
  <1>4. CASE Select
    <2>1. CASE helper' = "drain"
      BY <1>4, <2>1, Zenon DEF Select, ShutdownInv, ServerTypes, SuccessMeansDrained
    <2>2. CASE finished /\ helper' = "ended" /\ shutdownResult' = "nil" /\ UNCHANGED listening
      BY <1>4, <2>2 DEF Select, ShutdownInv, ServerTypes, SuccessMeansDrained
    <2>3. QED
      BY <1>4, <2>1, <2>2 DEF Select
  <1>5. CASE Drain
    <2>1. CASE Open = {} /\ shutdownResult' = "nil" /\ UNCHANGED clients
      BY <1>5, <2>1 DEF Drain, Open, ShutdownInv, ServerTypes, SuccessMeansDrained
    <2>2. CASE shutdownResult' = "error" /\ clients' = Dropped
      BY <1>5, <2>2, DroppedClients DEF Drain, ShutdownInv, ServerTypes, SuccessMeansDrained
    <2>3. QED
      BY <1>5, <2>1, <2>2 DEF Drain
  <1>6. CASE Cancel
    BY <1>6 DEF Cancel, ShutdownInv, ServerTypes, SuccessMeansDrained
  <1>7. ASSUME NEW c \in Clients, Connect(c) PROVE ShutdownInv'
    BY <1>7 DEF Connect, ShutdownInv, ServerTypes, ClientStates, SuccessMeansDrained
  <1>8. ASSUME NEW c \in Clients, Answer(c) PROVE ShutdownInv'
    BY <1>8 DEF Answer, ShutdownInv, ServerTypes, ClientStates, SuccessMeansDrained
  <1>9. CASE UNCHANGED serverVars
    BY <1>9 DEF serverVars, ShutdownInv, ServerTypes, SuccessMeansDrained
  <1>10. QED
    BY <1>1, <1>2, <1>3, <1>4, <1>5, <1>6, <1>7, <1>8, <1>9 DEF ServerNext

(* Exit code 0 means that Shutdown waited for every connection: no client   *)
(* was cut off (internal/platform/httpserver, Serve).                       *)
THEOREM ServerSuccessMeansDrained == ServerSpec => []SuccessMeansDrained
  <1>1. ShutdownInv => SuccessMeansDrained
    BY DEF ShutdownInv
  <1>2. QED
    BY <1>1, ShutdownStarts, ShutdownKeeps, PTL DEF ServerSpec

-----------------------------------------------------------------------------
(***************************************************************************)
(* Access, for any number of operators, requests and failures, any skew    *)
(* and any bound on time.                                                  *)
(***************************************************************************)

Token == [created : Nat, revoked : Nat]
Operator == [pc : {"init", "token", "install", "lock", "rotate", "done"},
             stale : BOOLEAN, at : Nat, answer : Nat]
ApiRequest == [pc : {"call", "use", "authorize", "allowed", "denied"},
               token : Nat, used : Nat, decided : Nat]

AccessTypes ==
    /\ now \in Nat /\ now > Skew
    /\ installed \in {0, 1}
    /\ tokens \in Seq(Token)
    /\ operators \in [Operators -> Operator]
    /\ requests \in [Requests -> ApiRequest]

(* One unrevoked token, the newest. *)
Newest == \A t \in DOMAIN tokens : Live(t) <=> t = Len(tokens)
Installation == (installed = 0) = (tokens = <<>>)

(* A rotation in progress has an installation and a time to revoke with,    *)
(* and an answer names a token that exists.                                 *)
OperatorInv(o) ==
    /\ operators[o].pc \in {"lock", "rotate"} => operators[o].at > 0 /\ installed # 0
    /\ operators[o].answer <= Len(tokens)
AnswersDiffer ==
    \A o, p \in Operators :
        operators[o].answer # 0 /\ operators[o].answer = operators[p].answer => o = p

RequestInv(q) ==
    /\ requests[q].pc # "call" => requests[q].token \in DOMAIN tokens
    /\ requests[q].pc \in {"call", "use"} => requests[q].used = 0
    /\ requests[q].pc \in {"call", "use", "authorize"} => requests[q].decided = 0
    /\ requests[q].used # 0 => requests[q].used = requests[q].token
    /\ requests[q].decided # 0 => requests[q].decided = requests[q].token

AccessInv ==
    /\ AccessTypes /\ Newest /\ Installation /\ AnswersDiffer
    /\ \A o \in Operators : OperatorInv(o)
    /\ \A q \in Requests : RequestInv(q)

-----------------------------------------------------------------------------
(* One operator, or one request, moves. *)

(* Marking snapshots as stale changes nothing else of an operator. *)
LEMMA TouchedKeeps ==
    ASSUME NEW ops \in [Operators -> Operator]
    PROVE  /\ Touched(ops) \in [Operators -> Operator]
           /\ \A o \in Operators : /\ Touched(ops)[o].pc = ops[o].pc
                                   /\ Touched(ops)[o].at = ops[o].at
                                   /\ Touched(ops)[o].answer = ops[o].answer
  <1>1. ASSUME NEW o \in Operators
        PROVE  /\ [ops[o] EXCEPT !.stale = TRUE] \in Operator
               /\ [ops[o] EXCEPT !.stale = TRUE].pc = ops[o].pc
               /\ [ops[o] EXCEPT !.stale = TRUE].at = ops[o].at
               /\ [ops[o] EXCEPT !.stale = TRUE].answer = ops[o].answer
    BY Zenon DEF Operator
  <1>2. QED
    BY <1>1 DEF Touched

(* What the invariant says of an operator other than its own state. *)
SameOperator(p) ==
    /\ operators'[p].pc = operators[p].pc /\ operators'[p].at = operators[p].at
    /\ operators'[p].answer = operators[p].answer

(* One operator moves on; the others at most see their snapshot become      *)
(* stale.                                                                   *)
LEMMA OperatorMoves ==
    ASSUME AccessInv, NEW o \in Operators,
           NEW pc \in {"init", "token", "install", "lock", "rotate", "done"},
           \/ operators' = [operators EXCEPT ![o].pc = pc]
           \/ operators' = [Touched(operators) EXCEPT ![o].pc = pc]
    PROVE  /\ operators' \in [Operators -> Operator]
           /\ \A p \in Operators : p # o => SameOperator(p)
           /\ operators'[o].pc = pc /\ operators'[o].at = operators[o].at
           /\ operators'[o].answer = operators[o].answer
  <1>1. operators \in [Operators -> Operator]
    BY DEF AccessInv, AccessTypes
  <1>2. PICK ops \in [Operators -> Operator] :
          /\ operators' = [ops EXCEPT ![o].pc = pc]
          /\ \A p \in Operators : /\ ops[p].pc = operators[p].pc /\ ops[p].at = operators[p].at
                                   /\ ops[p].answer = operators[p].answer
    BY <1>1, TouchedKeeps
  <1> DEFINE moved == [ops[o] EXCEPT !.pc = pc]
  <1>3. ops[o] \in Operator
    OBVIOUS
  <1>4. /\ moved \in Operator /\ moved.pc = pc
        /\ moved.at = ops[o].at /\ moved.answer = ops[o].answer
    BY <1>3 DEF Operator
  <1>5. operators' = [ops EXCEPT ![o] = moved]
    BY <1>2
  <1> HIDE DEF moved
  <1>6. QED
    BY <1>2, <1>4, <1>5 DEF SameOperator

(* One operator gets its answer. *)
LEMMA OperatorAnswered ==
    ASSUME AccessInv, NEW o \in Operators, NEW answer \in Nat,
           \/ operators' = [operators EXCEPT ![o].pc = "done", ![o].answer = answer]
           \/ operators' = [Touched(operators) EXCEPT ![o].pc = "done", ![o].answer = answer]
    PROVE  /\ operators' \in [Operators -> Operator]
           /\ \A p \in Operators : p # o => SameOperator(p)
           /\ operators'[o].pc = "done" /\ operators'[o].answer = answer
  <1>1. operators \in [Operators -> Operator]
    BY DEF AccessInv, AccessTypes
  <1>2. PICK ops \in [Operators -> Operator] :
          /\ operators' = [ops EXCEPT ![o].pc = "done", ![o].answer = answer]
          /\ \A p \in Operators : /\ ops[p].pc = operators[p].pc /\ ops[p].at = operators[p].at
                                   /\ ops[p].answer = operators[p].answer
    <2>1. CASE operators' = [operators EXCEPT ![o].pc = "done", ![o].answer = answer]
      BY <1>1, <2>1, Zenon
    <2>2. CASE operators' = [Touched(operators) EXCEPT ![o].pc = "done", ![o].answer = answer]
      BY <1>1, <2>2, TouchedKeeps, ZenonT(60)
    <2>3. QED
      BY <2>1, <2>2, Zenon
  <1> DEFINE moved == [ops[o] EXCEPT !.pc = "done", !.answer = answer]
  <1>3. ops[o] \in Operator
    OBVIOUS
  <1>4. moved \in Operator /\ moved.pc = "done" /\ moved.answer = answer
    BY <1>3, Zenon DEF Operator
  <1>5. operators' = [ops EXCEPT ![o] = moved]
    BY <1>2, Zenon
  <1> HIDE DEF moved
  <1>6. QED
    BY <1>2, <1>4, <1>5 DEF SameOperator

(* Tokens are only appended, or revoked: requests keep what they know. *)
LEMMA RequestsKeep ==
    ASSUME AccessInv, UNCHANGED requests, tokens' \in Seq(Token), Len(tokens) <= Len(tokens')
    PROVE  \A q \in Requests : RequestInv(q)'
  <1>1. tokens \in Seq(Token)
    BY DEF AccessInv, AccessTypes
  <1>2. DOMAIN tokens \subseteq DOMAIN tokens'
    BY <1>1
  <1>3. QED
    BY <1>2 DEF AccessInv, RequestInv

(* An operator that moves without touching the tokens. *)
LEMMA OperatorRest ==
    ASSUME AccessInv, NEW o \in Operators, operators' \in [Operators -> Operator],
           \A p \in Operators : p # o => SameOperator(p),
           operators'[o].answer = operators[o].answer,
           operators'[o].pc \in {"lock", "rotate"} => operators'[o].at > 0 /\ installed # 0,
           UNCHANGED <<now, installed, tokens, requests>>
    PROVE  AccessInv'
  <1>1. AccessTypes' /\ Installation'
    BY DEF AccessInv, AccessTypes, Installation
  <1>2. Newest'
    BY DEF AccessInv, Newest, Live
  <1>3. AnswersDiffer'
    <2>1. \A p \in Operators : operators'[p].answer = operators[p].answer
      BY DEF SameOperator
    <2>2. QED
      BY <2>1 DEF AccessInv, AnswersDiffer
  <1>4. \A p \in Operators : OperatorInv(p)'
    BY DEF AccessInv, OperatorInv, SameOperator
  <1>5. \A q \in Requests : RequestInv(q)'
    BY DEF AccessInv, RequestInv
  <1>6. QED
    BY <1>1, <1>2, <1>3, <1>4, <1>5 DEF AccessInv

(* A token appears, and all the others are revoked. *)
LEMMA TokenAdded ==
    ASSUME AccessInv, NEW old \in Seq(Token), Len(old) = Len(tokens),
           \A t \in DOMAIN old : old[t].revoked # 0, NEW at \in Nat,
           tokens' = Append(old, [created |-> at, revoked |-> 0]),
           installed' = 1, UNCHANGED <<now, requests>>,
           NEW o \in Operators, operators' \in [Operators -> Operator],
           operators'[o].pc \notin {"lock", "rotate"},
           operators'[o].answer \in {operators[o].answer, Len(tokens')},
           \A p \in Operators : p # o => SameOperator(p)
    PROVE  AccessInv'
  <1>1. [created |-> at, revoked |-> 0] \in Token
    BY DEF Token
  <1>2. /\ tokens \in Seq(Token) /\ Len(tokens) \in Nat
        /\ tokens' \in Seq(Token) /\ Len(tokens') = Len(tokens) + 1
        /\ DOMAIN tokens' = 1..(Len(tokens) + 1)
        /\ \A t \in 1..Len(tokens) : tokens'[t] = old[t]
        /\ tokens'[Len(tokens) + 1] = [created |-> at, revoked |-> 0]
    BY <1>1 DEF AccessInv, AccessTypes
  <1>3. AccessTypes'
    BY <1>2 DEF AccessInv, AccessTypes
  <1>4. Newest'
    <2>1. \A t \in DOMAIN tokens' : tokens'[t].revoked = 0 <=> t = Len(tokens')
      BY <1>2
    <2>2. QED
      BY <2>1 DEF Newest, Live
  <1>5. Installation'
    BY <1>2 DEF Installation
  <1>6. \A p \in Operators : operators[p].answer <= Len(tokens) /\ operators[p].answer \in Nat
    BY DEF AccessInv, AccessTypes, OperatorInv, Operator
  <1>7. AnswersDiffer'
    <2>1. ASSUME NEW p \in Operators, p # o
          PROVE  operators'[p].answer = operators[p].answer /\ operators[p].answer # Len(tokens')
      <3>1. operators'[p].answer = operators[p].answer
        BY <2>1 DEF SameOperator
      <3>2. QED
        BY <1>2, <1>6, <3>1
    <2>2. CASE operators'[o].answer = operators[o].answer
      BY <2>1, <2>2 DEF AccessInv, AnswersDiffer
    <2>3. CASE operators'[o].answer = Len(tokens')
      BY <2>1, <2>3, ZenonT(60) DEF AccessInv, AnswersDiffer
    <2>4. QED
      BY <2>2, <2>3
  <1>8. \A p \in Operators : OperatorInv(p)'
    BY <1>2, <1>6 DEF AccessInv, OperatorInv, SameOperator
  <1>9. \A q \in Requests : RequestInv(q)'
    BY <1>2, RequestsKeep
  <1>10. QED
    BY <1>3, <1>4, <1>5, <1>7, <1>8, <1>9 DEF AccessInv

-----------------------------------------------------------------------------
(* The operator's commands. *)

(* The parts of the invariant that every step starts from. *)
LEMMA AccessFields ==
    ASSUME AccessInv
    PROVE  /\ operators \in [Operators -> Operator] /\ requests \in [Requests -> ApiRequest]
           /\ tokens \in Seq(Token) /\ installed \in {0, 1} /\ now \in Nat /\ now > 0
           /\ \A t \in HostClock : t \in Nat
  BY AccessConstants DEF AccessInv, AccessTypes, HostClock

(* Initialize reads before it writes. *)
LEMMA InitializeBeginSafe ==
    ASSUME AccessInv, NEW o \in Operators, InitializeBegin(o)
    PROVE  AccessInv'
  <1>1. PICK pc \in {"token", "done", "install"} : OperatorAt(o, pc)
    BY Zenon DEF InitializeBegin
  <1>2. /\ operators' \in [Operators -> Operator]
        /\ \A p \in Operators : p # o => SameOperator(p)
        /\ operators'[o].pc = pc /\ operators'[o].answer = operators[o].answer
    BY <1>1, AccessFields, OperatorMoves, Zenon DEF OperatorAt
  <1>3. QED
    BY <1>1, <1>2, OperatorRest DEF InitializeBegin

(* Initialize inserts its token only where no installation exists, so the   *)
(* first token is the newest.                                               *)
LEMMA InitializeCommitSafe ==
    ASSUME AccessInv, NEW o \in Operators, InitializeCommit(o)
    PROVE  AccessInv'
  <1>1. UNCHANGED <<now, requests>>
    BY DEF InitializeCommit
  <1>2. CASE OperatorAt(o, "init") /\ UNCHANGED <<installed, tokens>>
    <2>1. /\ operators' \in [Operators -> Operator]
          /\ \A p \in Operators : p # o => SameOperator(p)
          /\ operators'[o].pc = "init" /\ operators'[o].answer = operators[o].answer
      BY <1>2, AccessFields, OperatorMoves, Zenon DEF OperatorAt
    <2>2. QED
      BY <1>1, <1>2, <2>1, OperatorRest
  <1>3. CASE /\ installed = 0 /\ installed' = 1
             /\ \E at \in HostClock : tokens' = Append(tokens, [created |-> at, revoked |-> 0])
             /\ \/ operators' = [operators EXCEPT ![o].pc = "done", ![o].answer = Len(tokens')]
                \/ OperatorAt(o, "init")
    <2>1. PICK at \in HostClock : tokens' = Append(tokens, [created |-> at, revoked |-> 0])
      BY <1>3
    <2>2. tokens = <<>> /\ at \in Nat /\ tokens \in Seq(Token)
      BY <1>3, AccessFields DEF AccessInv, Installation
    <2>3. DOMAIN tokens = {} /\ Len(tokens') \in Nat
      BY <2>1, <2>2
    <2>4. /\ operators' \in [Operators -> Operator]
          /\ \A p \in Operators : p # o => SameOperator(p)
          /\ operators'[o].pc \in {"init", "done"}
          /\ operators'[o].answer \in {operators[o].answer, Len(tokens')}
      <3>1. CASE operators' = [operators EXCEPT ![o].pc = "done", ![o].answer = Len(tokens')]
        BY <2>3, <3>1, AccessFields, OperatorAnswered, Zenon
      <3>2. CASE OperatorAt(o, "init")
        BY <3>2, AccessFields, OperatorMoves, Zenon DEF OperatorAt
      <3>3. QED
        BY <1>3, <3>1, <3>2
    <2>5. QED
      BY <1>1, <1>3, <2>1, <2>2, <2>3, <2>4, TokenAdded, Zenon
  <1>4. QED
    BY <1>2, <1>3, Zenon DEF InitializeCommit

(* RotateToken takes its snapshot and the time it will revoke with. *)
LEMMA RotateBeginSafe ==
    ASSUME AccessInv, NEW o \in Operators, RotateBegin(o)
    PROVE  AccessInv'
  <1>1. UNCHANGED <<now, installed, tokens, requests>>
    BY DEF RotateBegin
  <1>2. CASE OperatorAt(o, "init")
    <2>1. /\ operators' \in [Operators -> Operator]
          /\ \A p \in Operators : p # o => SameOperator(p)
          /\ operators'[o].pc = "init" /\ operators'[o].answer = operators[o].answer
      BY <1>2, AccessFields, OperatorMoves, Zenon DEF OperatorAt
    <2>2. QED
      BY <1>1, <2>1, OperatorRest, Zenon
  <1>3. CASE /\ installed # 0
             /\ operators' = [operators EXCEPT ![o].pc = "lock", ![o].stale = FALSE,
                                               ![o].at = now]
    <2> DEFINE moved == [operators[o] EXCEPT !.pc = "lock", !.stale = FALSE, !.at = now]
    <2>1. operators \in [Operators -> Operator] /\ operators[o] \in Operator
      BY AccessFields
    <2>2. moved \in Operator /\ moved.at = now /\ moved.answer = operators[o].answer
      BY <2>1, AccessFields, Zenon DEF Operator
    <2>3. operators' = [operators EXCEPT ![o] = moved]
      BY <1>3, <2>1, Zenon
    <2> HIDE DEF moved
    <2>4. /\ operators' \in [Operators -> Operator] /\ operators'[o] = moved
          /\ \A p \in Operators : p # o => SameOperator(p)
      BY <2>1, <2>2, <2>3 DEF SameOperator
    <2>5. QED
      BY <1>1, <1>3, <2>2, <2>4, AccessFields, OperatorRest
  <1>4. QED
    BY <1>2, <1>3 DEF RotateBegin

(* RotateToken locks the installation record; one rotation holds it at a    *)
(* time.                                                                    *)
LEMMA RotateLockSafe ==
    ASSUME AccessInv, NEW o \in Operators, RotateLock(o)
    PROVE  AccessInv'
  <1>1. /\ operators' \in [Operators -> Operator]
        /\ \A p \in Operators : p # o => SameOperator(p)
        /\ operators'[o].answer = operators[o].answer /\ operators'[o].at = operators[o].at
    BY AccessFields, OperatorMoves, Zenon DEF RotateLock
  <1>2. operators[o].at > 0 /\ installed # 0
    BY DEF AccessInv, OperatorInv, RotateLock
  <1>3. QED
    BY <1>1, <1>2, OperatorRest, Zenon DEF RotateLock

(* Every token that was in force is revoked, at a time that is not NULL. *)
LEMMA RotateCommitSafe ==
    ASSUME AccessInv, NEW o \in Operators, RotateCommit(o)
    PROVE  AccessInv'
  <1> DEFINE at == operators[o].at
             old == [t \in DOMAIN tokens |->
                       IF Live(t) THEN [tokens[t] EXCEPT !.revoked = at] ELSE tokens[t]]
  <1>1. UNCHANGED <<now, installed, requests>>
    BY DEF RotateCommit
  <1>2. at \in Nat /\ at > 0 /\ installed = 1
    BY AccessFields DEF AccessInv, OperatorInv, RotateCommit, Operator
  <1>3. CASE OperatorAt(o, "token") /\ UNCHANGED tokens
    <2>1. /\ operators' \in [Operators -> Operator]
          /\ \A p \in Operators : p # o => SameOperator(p)
          /\ operators'[o].pc = "token" /\ operators'[o].answer = operators[o].answer
      BY <1>3, AccessFields, OperatorMoves, Zenon DEF OperatorAt
    <2>2. QED
      BY <1>1, <1>3, <2>1, OperatorRest
  <1>4. CASE /\ tokens' = Append(old, [created |-> at, revoked |-> 0])
             /\ \/ operators' = [Touched(operators) EXCEPT ![o].pc = "done",
                                                           ![o].answer = Len(tokens')]
                \/ operators' = [Touched(operators) EXCEPT ![o].pc = "token"]
    <2>1. tokens \in Seq(Token) /\ DOMAIN tokens = 1..Len(tokens) /\ Len(tokens) \in Nat
      BY AccessFields
    <2>2. ASSUME NEW t \in DOMAIN tokens
          PROVE  /\ [tokens[t] EXCEPT !.revoked = at] \in Token
                 /\ [tokens[t] EXCEPT !.revoked = at].revoked = at
                 /\ tokens[t] \in Token
      <3>1. tokens[t] \in Token
        BY <2>1
      <3>2. QED
        BY <1>2, <3>1 DEF Token
    <2>3. old \in [1..Len(tokens) -> Token] /\ \A t \in 1..Len(tokens) : old[t].revoked # 0
      BY <1>2, <2>1, <2>2 DEF Live
    <2> HIDE DEF old
    <2>4. old \in Seq(Token) /\ Len(old) = Len(tokens) /\ DOMAIN old = 1..Len(tokens)
      BY <2>1, <2>3
    <2>5. Len(tokens') \in Nat
      BY <1>4, <2>4
    <2>6. /\ operators' \in [Operators -> Operator]
          /\ \A p \in Operators : p # o => SameOperator(p)
          /\ operators'[o].pc \in {"token", "done"}
          /\ operators'[o].answer \in {operators[o].answer, Len(tokens')}
      <3>1. CASE operators' = [Touched(operators) EXCEPT ![o].pc = "done",
                                                         ![o].answer = Len(tokens')]
        BY <2>5, <3>1, OperatorAnswered, Zenon
      <3>2. CASE operators' = [Touched(operators) EXCEPT ![o].pc = "token"]
        BY <3>2, OperatorMoves, Zenon
      <3>3. QED
        BY <1>4, <3>1, <3>2
    <2>7. QED
      BY <1>1, <1>2, <1>4, <2>3, <2>4, <2>6, TokenAdded, Zenon
  <1>5. QED
    BY <1>3, <1>4, Zenon DEF RotateCommit

-----------------------------------------------------------------------------
(* Requests. *)

(* A step that moves one request leaves the rest of the invariant alone. *)
LEMMA RequestRest ==
    ASSUME AccessInv, NEW q \in Requests, NEW moved \in ApiRequest,
           requests' = [requests EXCEPT ![q] = moved], RequestInv(q)',
           operators' = operators \/ operators' = Touched(operators),
           UNCHANGED <<now, installed, tokens>>
    PROVE  AccessInv'
  <1>1. /\ operators' \in [Operators -> Operator]
        /\ \A p \in Operators : SameOperator(p)
    BY AccessFields, TouchedKeeps DEF SameOperator
  <1>2. /\ requests' \in [Requests -> ApiRequest]
        /\ \A r \in Requests : r # q => requests'[r] = requests[r]
    BY AccessFields
  <1>3. AccessTypes' /\ Installation'
    BY <1>1, <1>2 DEF AccessInv, AccessTypes, Installation
  <1>4. Newest'
    BY DEF AccessInv, Newest, Live
  <1>5. AnswersDiffer' /\ \A p \in Operators : OperatorInv(p)'
    BY <1>1 DEF AccessInv, AnswersDiffer, OperatorInv, SameOperator
  <1>6. \A r \in Requests : RequestInv(r)'
    BY <1>2 DEF AccessInv, RequestInv
  <1>7. QED
    BY <1>3, <1>4, <1>5, <1>6 DEF AccessInv

(* A request finds the token it presents. *)
LEMMA FindByPrefixSafe ==
    ASSUME AccessInv, NEW q \in Requests, FindByPrefix(q)
    PROVE  AccessInv'
  <1>1. PICK t \in DOMAIN tokens :
          requests' = [requests EXCEPT ![q].pc = "use", ![q].token = t]
    BY Zenon DEF FindByPrefix
  <1> DEFINE moved == [requests[q] EXCEPT !.pc = "use", !.token = t]
  <1>2. requests \in [Requests -> ApiRequest] /\ requests[q] \in ApiRequest /\ t \in Nat
    BY <1>1, AccessFields
  <1>3. /\ moved \in ApiRequest /\ moved.pc = "use" /\ moved.token = t
        /\ moved.used = requests[q].used /\ moved.decided = requests[q].decided
    BY <1>2, Zenon DEF ApiRequest
  <1>4. requests' = [requests EXCEPT ![q] = moved]
    BY <1>1, <1>2, Zenon
  <1> HIDE DEF moved
  <1>5. requests'[q] = moved /\ requests[q].used = 0 /\ requests[q].decided = 0
    BY <1>2, <1>4, Zenon DEF AccessInv, RequestInv, FindByPrefix
  <1>6. RequestInv(q)'
    BY <1>1, <1>3, <1>5 DEF RequestInv, FindByPrefix
  <1>7. QED
    BY <1>3, <1>4, <1>6, RequestRest, Zenon DEF FindByPrefix

(* The conditional UPDATE touches a token in force, the newest one. *)
LEMMA RecordUseSafe ==
    ASSUME AccessInv, NEW q \in Requests, RecordUse(q)
    PROVE  AccessInv'
  <1>1. /\ requests \in [Requests -> ApiRequest] /\ requests[q] \in ApiRequest
        /\ requests[q].token \in DOMAIN tokens /\ requests[q].pc = "use"
        /\ requests[q].used = 0 /\ requests[q].decided = 0
        /\ Len(tokens) \in Nat /\ UNCHANGED <<now, installed, tokens>>
    BY AccessFields DEF AccessInv, RequestInv, RecordUse
  <1>2. CASE /\ \E at \in HostClock : InForce(requests[q].token, at)
             /\ requests' = [requests EXCEPT ![q].pc = "authorize", ![q].used = Len(tokens)]
             /\ operators' = Touched(operators)
    <2> DEFINE moved == [requests[q] EXCEPT !.pc = "authorize", !.used = Len(tokens)]
    <2>1. requests[q].token = Len(tokens)
      BY <1>1, <1>2 DEF AccessInv, Newest, InForce
    <2>2. /\ moved \in ApiRequest /\ moved.pc = "authorize" /\ moved.used = Len(tokens)
          /\ moved.token = requests[q].token /\ moved.decided = requests[q].decided
      BY <1>1, Zenon DEF ApiRequest
    <2>3. requests' = [requests EXCEPT ![q] = moved]
      BY <1>1, <1>2, Zenon
    <2> HIDE DEF moved
    <2>4. requests'[q] = moved
      BY <1>1, <2>3
    <2>5. RequestInv(q)'
      BY <1>1, <2>1, <2>2, <2>4 DEF RequestInv
    <2>6. QED
      BY <1>1, <1>2, <2>2, <2>3, <2>5, RequestRest, Zenon
  <1>3. CASE /\ requests' = [requests EXCEPT ![q].pc = "call", ![q].token = 0]
             /\ UNCHANGED operators
    <2> DEFINE moved == [requests[q] EXCEPT !.pc = "call", !.token = 0]
    <2>1. /\ moved \in ApiRequest /\ moved.pc = "call" /\ moved.used = requests[q].used
          /\ moved.decided = requests[q].decided
      BY <1>1, Zenon DEF ApiRequest
    <2>2. requests' = [requests EXCEPT ![q] = moved]
      BY <1>1, <1>3, Zenon
    <2> HIDE DEF moved
    <2>3. requests'[q] = moved
      BY <1>1, <2>2
    <2>4. RequestInv(q)'
      BY <1>1, <2>1, <2>3 DEF RequestInv
    <2>5. QED
      BY <1>1, <1>3, <2>1, <2>2, <2>4, RequestRest, Zenon
  <1>4. QED
    BY <1>2, <1>3 DEF RecordUse

(* The query of IsAllowed looks at the token again. *)
LEMMA AuthorizeSafe ==
    ASSUME AccessInv, NEW q \in Requests, Authorize(q)
    PROVE  AccessInv'
  <1>1. /\ requests \in [Requests -> ApiRequest] /\ requests[q] \in ApiRequest
        /\ requests[q].token \in DOMAIN tokens /\ requests[q].pc = "authorize"
        /\ requests[q].decided = 0 /\ RequestInv(q)
        /\ Len(tokens) \in Nat /\ UNCHANGED <<now, installed, tokens, operators>>
    BY AccessFields DEF AccessInv, RequestInv, Authorize
  <1>2. CASE /\ \E at \in HostClock : InForce(requests[q].token, at)
             /\ requests' = [requests EXCEPT ![q].pc = "allowed", ![q].decided = Len(tokens)]
    <2> DEFINE moved == [requests[q] EXCEPT !.pc = "allowed", !.decided = Len(tokens)]
    <2>1. requests[q].token = Len(tokens)
      BY <1>1, <1>2 DEF AccessInv, Newest, InForce
    <2>2. /\ moved \in ApiRequest /\ moved.pc = "allowed" /\ moved.decided = Len(tokens)
          /\ moved.token = requests[q].token /\ moved.used = requests[q].used
      BY <1>1, Zenon DEF ApiRequest
    <2>3. requests' = [requests EXCEPT ![q] = moved]
      BY <1>1, <1>2, Zenon
    <2> HIDE DEF moved
    <2>4. requests'[q] = moved
      BY <1>1, <2>3
    <2>5. RequestInv(q)'
      BY <1>1, <2>1, <2>2, <2>4 DEF RequestInv
    <2>6. QED
      BY <1>1, <2>2, <2>3, <2>5, RequestRest, Zenon
  <1>3. CASE requests' = [requests EXCEPT ![q].pc = "denied"]
    <2> DEFINE moved == [requests[q] EXCEPT !.pc = "denied"]
    <2>1. /\ moved \in ApiRequest /\ moved.pc = "denied" /\ moved.used = requests[q].used
          /\ moved.decided = requests[q].decided /\ moved.token = requests[q].token
      BY <1>1 DEF ApiRequest
    <2>2. requests' = [requests EXCEPT ![q] = moved]
      BY <1>1, <1>3
    <2> HIDE DEF moved
    <2>3. requests'[q] = moved
      BY <1>1, <2>2
    <2>4. RequestInv(q)'
      BY <1>1, <2>1, <2>3 DEF RequestInv
    <2>5. QED
      BY <1>1, <2>1, <2>2, <2>4, RequestRest, Zenon
  <1>4. QED
    BY <1>2, <1>3 DEF Authorize

-----------------------------------------------------------------------------
(* The invariant and the theorems. *)

(* No token, no installation, no request in progress. *)
LEMMA AccessInitially ==
    ASSUME AccessInit PROVE AccessInv
  <1>1. /\ now \in Nat /\ now > Skew /\ installed \in {0, 1} /\ tokens \in Seq(Token)
        /\ Len(tokens) = 0 /\ DOMAIN tokens = {}
    BY AccessConstants DEF AccessInit
  <1>2. /\ operators \in [Operators -> Operator]
        /\ \A o \in Operators : operators[o].pc \in {"init", "token"} /\ operators[o].answer = 0
    <2> DEFINE first == {[pc |-> c, stale |-> FALSE, at |-> 0, answer |-> 0] :
                           c \in {"init", "token"}}
    <2>1. operators \in [Operators -> first]
      BY DEF AccessInit
    <2>2. \A r \in first : r \in Operator /\ r.pc \in {"init", "token"} /\ r.answer = 0
      <3>1. ASSUME NEW c \in {"init", "token"}, NEW b \in BOOLEAN
            PROVE  LET r == [pc |-> c, stale |-> b, at |-> 0, answer |-> 0] IN
                   r \in Operator /\ r.pc \in {"init", "token"} /\ r.answer = 0
        BY DEF Operator
      <3>2. QED
        BY <3>1, ZenonT(60)
    <2> HIDE DEF first
    <2>3. QED
      BY <2>1, <2>2
  <1>3. /\ requests \in [Requests -> ApiRequest]
        /\ \A q \in Requests : /\ requests[q].pc = "call"
                               /\ requests[q].used = 0 /\ requests[q].decided = 0
    BY DEF AccessInit, ApiRequest
  <1>4. AccessTypes /\ Newest
    BY <1>1, <1>2, <1>3 DEF AccessTypes, Newest
  <1>5. Installation
    BY DEF AccessInit, Installation
  <1>6. AnswersDiffer /\ \A o \in Operators : OperatorInv(o)
    BY <1>1, <1>2 DEF AnswersDiffer, OperatorInv
  <1>7. \A q \in Requests : RequestInv(q)
    BY <1>3 DEF RequestInv
  <1>8. QED
    BY <1>4, <1>5, <1>6, <1>7 DEF AccessInv

(* The invariant is inductive. *)
LEMMA AccessStep ==
    ASSUME AccessInv, [AccessNext]_accessVars
    PROVE  AccessInv'
  <1>1. ASSUME NEW o \in Operators, OperatorStep(o)
        PROVE  AccessInv'
    BY <1>1, InitializeBeginSafe, InitializeCommitSafe, RotateBeginSafe, RotateLockSafe,
       RotateCommitSafe DEF OperatorStep
  <1>2. ASSUME NEW q \in Requests, RequestStep(q)
        PROVE  AccessInv'
    BY <1>2, FindByPrefixSafe, RecordUseSafe, AuthorizeSafe DEF RequestStep
  <1>3. CASE Withdraw \/ Tick \/ UNCHANGED accessVars
    <2>1. UNCHANGED <<installed, tokens, operators, requests>>
      BY <1>3 DEF Withdraw, Tick, accessVars
    <2>2. now' \in Nat /\ now' > Skew
      BY <1>3, AccessConstants DEF AccessInv, AccessTypes, Withdraw, Tick, accessVars
    <2>3. AccessTypes' /\ Installation'
      BY <2>1, <2>2 DEF AccessInv, AccessTypes, Installation
    <2>4. Newest' /\ AnswersDiffer'
      BY <2>1, Zenon DEF AccessInv, Newest, AnswersDiffer, Live
    <2>5. (\A o \in Operators : OperatorInv(o)') /\ \A q \in Requests : RequestInv(q)'
      BY <2>1 DEF AccessInv, OperatorInv, RequestInv
    <2>6. QED
      BY <2>3, <2>4, <2>5 DEF AccessInv
  <1>4. QED
    BY <1>1, <1>2, <1>3 DEF AccessNext

(* The invariant of Access holds in every reachable state. *)
LEMMA AccessInvariant == AccessSpec => []AccessInv
  <1>1. AccessInit => AccessInv
    BY AccessInitially
  <1>2. AccessInv /\ [AccessNext]_accessVars => AccessInv'
    BY AccessStep
  <1>3. QED
    BY <1>1, <1>2, PTL DEF AccessSpec

(* One installation and one unrevoked token, the newest, however            *)
(* initializations and rotations race (bootstrap/postgres.go, Initialize    *)
(* and RotateToken).                                                        *)
THEOREM AccessOneLiveToken == AccessSpec => []OneLiveToken
  <1>1. AccessInv => OneLiveToken
    BY DEF AccessInv, Installation, Newest, AnswersDiffer, OneLiveToken
  <1>2. QED
    BY <1>1, AccessInvariant, PTL

(* A rotation cuts a request off between any two of its steps               *)
(* (authentication RecordUse, authorization IsAllowed).                     *)
THEOREM AccessRotationCutsOff == AccessSpec => []RotationCutsOff
  <1>1. AccessInv => RotationCutsOff
    BY DEF AccessInv, RequestInv, RotationCutsOff
  <1>2. QED
    BY <1>1, AccessInvariant, PTL

-----------------------------------------------------------------------------
(***************************************************************************)
(* BlobAdapters, for any number of concurrent calls and of faults, and its *)
(* refinement of BlobStore.                                                *)
(***************************************************************************)

PutCall == [pc : {"check", "stream", "verify", "publish", "cleanup", "done"},
            body : Bodies,
            result : {"none", "ok", "exists", "error", "too_large", "integrity"}]
OpenCall == [pc : {"manifest", "data", "done"}, version : Puts \cup {NoVersion},
             result : {"none", "not_found", "error", "integrity", "damaged",
                       "fits", "too_large", "mismatch"}]
DelCall == [pc : {"new", "check", "stopped", "data", "manifest", "done"},
            version : Puts \cup {NoVersion},
            result : {"none", "ok", "version", "error"}]

AdapterTypes ==
    /\ published \subseteq Puts /\ manifest \in published \cup {NoVersion}
    /\ puts \in [Puts -> PutCall]
    /\ opens \in [Opens -> OpenCall]
    /\ deletes \in [Deletes -> DelCall]

(* What holds of a Put: unverified bytes are not published, a published     *)
(* version is one whose call is over or is withdrawing it against its       *)
(* knowledge, and bytes and manifest are there unless someone took them     *)
(* away.                                                                    *)
PutInv(p) ==
    /\ puts[p].pc = "verify" => puts[p].body # "too_large"
    /\ puts[p].pc = "publish" => p \in data
    /\ puts[p].pc = "publish" \/ p \in published => puts[p].body = "fits"
    /\ p \in published => /\ puts[p].pc \in {"cleanup", "done"}
                          /\ p \in data \/ Deleting(p) \/ Misinformed(p)
                          /\ puts[p].pc = "cleanup" => Misinformed(p)
                          /\ manifest = p \/ Deleting(p) \/ Rivals
    /\ puts[p].result = "ok" => puts[p].pc = "done" /\ p \in published
OpenInv(o) ==
    LET v == opens[o].version IN
    /\ opens[o].pc # "done" => opens[o].result = "none"
    /\ opens[o].pc = "data" => v \in published
    /\ opens[o].result \notin {"damaged", "mismatch", "too_large"}
    /\ opens[o].result = "integrity" => Deleting(v) \/ v \in damaged \/ Misinformed(v)

(* A Delete past its check still has before it the manifest it has seen,    *)
(* unless a rival has been there.                                           *)
DeleteInv(d) ==
    /\ deletes[d].pc # "new" => deletes[d].version \in published
    /\ deletes[d].pc \in {"data", "manifest"} => manifest = deletes[d].version \/ Rivals

AdaptersInv ==
    /\ AdapterTypes
    /\ \A p \in Puts : PutInv(p)
    /\ \A o \in Opens : OpenInv(o)
    /\ \A d \in Deletes : DeleteInv(d)

-----------------------------------------------------------------------------
(* One call moves, the others stay. *)

(* One call of Put moves, with its type and its body kept. *)
LEMMA PutMoves ==
    ASSUME AdapterTypes, NEW p \in Puts,
           NEW pc \in {"check", "stream", "verify", "publish", "cleanup", "done"},
           NEW result \in {"none", "ok", "exists", "error", "too_large", "integrity"},
           \/ PutEnds(p, pc, result)
           \/ PutAt(p, pc) /\ puts[p].result = result
    PROVE  /\ puts' \in [Puts -> PutCall]
           /\ \A q \in Puts : q # p => puts'[q] = puts[q]
           /\ puts'[p].pc = pc /\ puts'[p].result = result /\ puts'[p].body = puts[p].body
  <1> DEFINE call == [puts[p] EXCEPT !.pc = pc, !.result = result]
  <1>1. puts \in [Puts -> PutCall] /\ puts[p] \in PutCall
    BY DEF AdapterTypes
  <1>2. call \in PutCall /\ call.pc = pc /\ call.result = result /\ call.body = puts[p].body
    BY <1>1, Zenon DEF PutCall
  <1>3. puts' = [puts EXCEPT ![p] = call]
    BY <1>1, ZenonT(60) DEF PutEnds, PutAt, PutCall
  <1> HIDE DEF call
  <1>4. QED
    BY <1>1, <1>2, <1>3

(* One call of Open ends. *)
LEMMA OpenMoves ==
    ASSUME AdapterTypes, NEW o \in Opens,
           NEW result \in {"none", "not_found", "error", "integrity", "damaged",
                           "fits", "too_large", "mismatch"},
           OpenEnds(o, result)
    PROVE  /\ opens' \in [Opens -> OpenCall]
           /\ \A r \in Opens : r # o => opens'[r] = opens[r]
           /\ opens'[o].pc = "done" /\ opens'[o].result = result
           /\ opens'[o].version = opens[o].version
  <1> DEFINE call == [opens[o] EXCEPT !.pc = "done", !.result = result]
  <1>1. opens \in [Opens -> OpenCall] /\ opens[o] \in OpenCall
    BY DEF AdapterTypes
  <1>2. /\ call \in OpenCall /\ call.pc = "done" /\ call.result = result
        /\ call.version = opens[o].version
    BY <1>1, Zenon DEF OpenCall
  <1>3. opens' = [opens EXCEPT ![o] = call]
    BY <1>1, Zenon DEF OpenEnds
  <1> HIDE DEF call
  <1>4. QED
    BY <1>1, <1>2, <1>3

(* One call of Delete moves, with the version it expects kept. *)
LEMMA DeleteMoves ==
    ASSUME AdapterTypes, NEW d \in Deletes, NEW pc \in {"data", "manifest", "done", "stopped"},
           NEW result \in {"none", "ok", "version", "error"},
           \/ DeleteEnds(d, result) /\ pc = "done"
           \/ DeleteStops(d, result) /\ pc = "stopped"
           \/ deletes' = [deletes EXCEPT ![d].pc = pc] /\ deletes[d].result = result
    PROVE  /\ deletes' \in [Deletes -> DelCall]
           /\ \A e \in Deletes : e # d => deletes'[e] = deletes[e]
           /\ deletes'[d].pc = pc /\ deletes'[d].version = deletes[d].version
  <1> DEFINE call == [deletes[d] EXCEPT !.pc = pc, !.result = result]
  <1>1. deletes \in [Deletes -> DelCall] /\ deletes[d] \in DelCall
    BY DEF AdapterTypes
  <1>2. call \in DelCall /\ call.pc = pc /\ call.version = deletes[d].version
    BY <1>1, Zenon DEF DelCall
  <1>3. deletes' = [deletes EXCEPT ![d] = call]
    BY <1>1, ZenonT(60) DEF DeleteEnds, DeleteStops, DelCall
  <1> HIDE DEF call
  <1>4. QED
    BY <1>1, <1>2, <1>3

(* What a Put that moves must show: the rest follows. *)
LEMMA PutRest ==
    ASSUME AdaptersInv, NEW p \in Puts, puts' \in [Puts -> PutCall],
           \A q \in Puts : q # p => /\ puts'[q] = puts[q]
                                    /\ q \in data => q \in data'
                                    /\ q \in published' => q \in published,
           published \subseteq published', published' \subseteq Puts, damaged' = damaged,
           manifest' \in published' \cup {NoVersion},
           manifest # NoVersion => manifest' = manifest,
           Misinformed(p) => Misinformed(p)', PutInv(p)',
           UNCHANGED <<backend, opens, deletes>>
    PROVE  AdaptersInv'
  <1>1. AdapterTypes'
    BY DEF AdaptersInv, AdapterTypes
  <1>2. (Rivals' <=> Rivals) /\ \A v \in Puts : Deleting(v)' <=> Deleting(v)
    BY Zenon DEF Deleting, PastCheck, Rivals
  <1>3. \A v \in Puts : Misinformed(v) => Misinformed(v)'
    BY Zenon DEF Misinformed, S3
  <1>4. ASSUME NEW q \in Puts, q # p PROVE PutInv(q)'
    <2>1. PutInv(q) /\ puts'[q] = puts[q]
      BY <1>4 DEF AdaptersInv
    <2>2. manifest = q => manifest' = q
      BY AdapterConstants, Zenon
    <2>3. QED
      BY <1>2, <1>3, <1>4, <2>1, <2>2 DEF PutInv
  <1>5. ASSUME NEW o \in Opens PROVE OpenInv(o)'
    <2>1. OpenInv(o) /\ opens[o] \in OpenCall /\ opens'[o] = opens[o]
      BY Zenon DEF AdaptersInv, AdapterTypes
    <2>2. CASE opens[o].version \in Puts
      BY <1>2, <1>3, <2>1, <2>2, Zenon DEF OpenInv
    <2>3. CASE opens[o].version = NoVersion
      BY <2>1, <2>3, AdapterConstants, Zenon
        DEF OpenInv, AdaptersInv, AdapterTypes, Deleting, PastCheck, Misinformed, S3
    <2>4. QED
      BY <2>1, <2>2, <2>3, Zenon DEF OpenCall
  <1>6. ASSUME NEW d \in Deletes PROVE DeleteInv(d)'
    <2>1. DeleteInv(d) /\ deletes'[d] = deletes[d]
      BY Zenon DEF AdaptersInv
    <2>2. deletes[d].pc # "new" => deletes[d].version # NoVersion
      BY <2>1, AdapterConstants, Zenon DEF DeleteInv, AdaptersInv, AdapterTypes
    <2>3. QED
      BY <1>2, <2>1, <2>2, Zenon DEF DeleteInv
  <1>7. QED
    BY <1>1, <1>4, <1>5, <1>6 DEF AdaptersInv

-----------------------------------------------------------------------------
(* The steps of Put. *)

(* What a step of Put starts from. *)
LEMMA PutFields ==
    ASSUME AdaptersInv, NEW p \in Puts
    PROVE  /\ AdapterTypes /\ PutInv(p) /\ puts[p].body \in Bodies
           /\ puts[p].result \in {"none", "ok", "exists", "error", "too_large", "integrity"}
           /\ published \subseteq Puts /\ manifest \in published \cup {NoVersion}
  <1>1. puts[p] \in PutCall
    BY Zenon DEF AdaptersInv, AdapterTypes
  <1>2. QED
    BY <1>1 DEF AdaptersInv, AdapterTypes, PutCall

(* A Put that ends without having published. *)
LEMMA PutGivesUp ==
    ASSUME AdaptersInv, NEW p \in Puts, p \notin published,
           NEW pc \in {"stream", "cleanup", "done"},
           NEW result \in {"none", "exists", "error", "too_large", "integrity"},
           PutEnds(p, pc, result) \/ (PutAt(p, pc) /\ puts[p].result = result),
           \A q \in Puts : q # p => (q \in data => q \in data'),
           UNCHANGED <<backend, manifest, damaged, published, opens, deletes>>
    PROVE  AdaptersInv'
  <1>1. AdapterTypes /\ PutInv(p)
    BY PutFields, Zenon
  <1>2. /\ puts' \in [Puts -> PutCall]
        /\ \A q \in Puts : q # p => puts'[q] = puts[q]
        /\ puts'[p].pc = pc /\ puts'[p].result = result /\ puts'[p].body = puts[p].body
    BY <1>1, PutMoves, SMTT(60)
  <1>3. PutInv(p)'
    BY <1>2, Zenon DEF PutInv
  <1>4. Misinformed(p) => Misinformed(p)'
    BY Zenon DEF Misinformed
  <1>5. QED
    BY <1>1, <1>2, <1>3, <1>4, PutRest, Zenon DEF AdapterTypes

(* A Put that has not got to its end has not published. *)
LEMMA EarlyPut ==
    ASSUME AdaptersInv, NEW p \in Puts, puts[p].pc \in {"check", "stream", "verify", "publish"}
    PROVE  p \notin published /\ puts[p].result # "ok"
  BY Zenon DEF AdaptersInv, PutInv

(* Put refuses a key that has a manifest, or begins to stage. *)
LEMMA PutCheckSafe ==
    ASSUME AdaptersInv, NEW p \in Puts, PutCheck(p)
    PROVE  AdaptersInv'
  <1>1. /\ p \notin published /\ puts[p].result # "ok"
        /\ UNCHANGED <<backend, manifest, data, damaged, published, opens, deletes>>
    BY EarlyPut, Zenon DEF PutCheck, store
  <1>2. puts[p].result \in {"none", "exists", "error", "too_large", "integrity"}
    BY <1>1, PutFields, Zenon
  <1>3. QED
    BY <1>1, <1>2, PutGivesUp, Zenon DEF PutCheck

(* Put stages the bytes it reads. *)
LEMMA PutStreamSafe ==
    ASSUME AdaptersInv, NEW p \in Puts, PutStream(p)
    PROVE  AdaptersInv'
  <1>1. /\ p \notin published /\ puts[p].result # "ok" /\ AdapterTypes
        /\ UNCHANGED <<backend, manifest, damaged, published, opens, deletes>>
        /\ \A q \in Puts : q # p => (q \in data => q \in data')
    BY EarlyPut, PutFields, Zenon DEF PutStream
  <1>2. CASE PutEnds(p, "done", "too_large") \/ PutEnds(p, "done", "error")
    BY <1>1, <1>2, PutGivesUp, Zenon
  <1>3. CASE puts[p].body # "too_large" /\ PutAt(p, "verify")
    <2>1. /\ puts' \in [Puts -> PutCall]
          /\ \A q \in Puts : q # p => puts'[q] = puts[q]
          /\ puts'[p].pc = "verify" /\ puts'[p].result = puts[p].result
          /\ puts'[p].body = puts[p].body
      BY <1>1, <1>3, PutFields, PutMoves, ZenonT(60)
    <2>2. PutInv(p)'
      BY <1>1, <1>3, <2>1, Zenon DEF PutInv
    <2>3. Misinformed(p) => Misinformed(p)'
      BY <1>1, Zenon DEF Misinformed
    <2>4. QED
      BY <1>1, <2>1, <2>2, <2>3, PutRest, Zenon DEF AdapterTypes
  <1>4. QED
    BY <1>2, <1>3, Zenon DEF PutStream

(* Put verifies size and digest before it publishes. *)
LEMMA PutVerifySafe ==
    ASSUME AdaptersInv, NEW p \in Puts, PutVerify(p)
    PROVE  AdaptersInv'
  <1>1. /\ p \notin published /\ puts[p].result # "ok" /\ AdapterTypes
        /\ UNCHANGED <<backend, manifest, damaged, published, opens, deletes>>
        /\ \A q \in Puts : q # p => (q \in data => q \in data')
    BY EarlyPut, PutFields, Zenon DEF PutVerify
  <1>2. CASE \/ PutEnds(p, "done", "integrity") \/ PutEnds(p, "cleanup", "integrity")
             \/ PutEnds(p, "done", "error")
    BY <1>1, <1>2, PutGivesUp, Zenon
  <1>3. CASE puts[p].body # "mismatch" /\ data' = data \cup {p} /\ PutAt(p, "publish")
    <2>1. /\ puts' \in [Puts -> PutCall]
          /\ \A q \in Puts : q # p => puts'[q] = puts[q]
          /\ puts'[p].pc = "publish" /\ puts'[p].result = puts[p].result
          /\ puts'[p].body = puts[p].body
      BY <1>1, <1>3, PutFields, PutMoves, ZenonT(60)
    <2>2. puts[p].body = "fits"
      BY <1>3, PutFields, AdapterConstants, Zenon DEF PutVerify, PutInv
    <2>3. PutInv(p)'
      BY <1>1, <1>3, <2>1, <2>2 DEF PutInv
    <2>4. Misinformed(p) => Misinformed(p)'
      BY <1>1 DEF Misinformed
    <2>5. QED
      BY <1>1, <2>1, <2>3, <2>4, PutRest, Zenon DEF AdapterTypes
  <1>4. QED
    BY <1>2, <1>3, Zenon DEF PutVerify

(* Put publishes only what it verified, and only if no manifest is there. *)
LEMMA PutPublishSafe ==
    ASSUME AdaptersInv, NEW p \in Puts, PutPublish(p)
    PROVE  AdaptersInv'
  <1>1. /\ p \notin published /\ AdapterTypes /\ PutInv(p) /\ puts[p].pc = "publish"
        /\ UNCHANGED <<backend, data, damaged, opens, deletes>>
    BY EarlyPut, PutFields, Zenon DEF PutPublish
  <1>2. CASE /\ PutEnds(p, "cleanup", "exists") \/ PutEnds(p, "cleanup", "error")
             /\ UNCHANGED <<manifest, published>>
    BY <1>1, <1>2, PutGivesUp, Zenon
  <1>3. CASE /\ manifest = NoVersion /\ manifest' = p /\ published' = published \cup {p}
             /\ \/ PutEnds(p, "done", "ok") \/ PutEnds(p, "done", "error")
                \/ S3 /\ \E e \in {"error", "exists"} : PutEnds(p, "cleanup", e)
    <2>1. /\ puts' \in [Puts -> PutCall]
          /\ \A q \in Puts : q # p => puts'[q] = puts[q]
          /\ puts'[p].body = puts[p].body
          /\ \/ puts'[p].pc = "done" /\ puts'[p].result \in {"ok", "error"}
             \/ S3 /\ puts'[p].pc = "cleanup" /\ puts'[p].result \in {"error", "exists"}
      BY <1>1, <1>3, PutMoves, ZenonT(60)
    <2>2. PutInv(p)'
      BY <1>1, <1>3, <2>1, Zenon DEF PutInv, Misinformed, S3
    <2>3. ~Misinformed(p)
      BY <1>1, Zenon DEF Misinformed
    <2>4. QED
      BY <1>1, <1>3, <2>1, <2>2, <2>3, PutRest, Zenon DEF AdapterTypes
  <1>4. QED
    BY <1>2, <1>3 DEF PutPublish

(* The clean-up takes away bytes of its own version only; when that one was *)
(* published, its Put has been misinformed.                                 *)
LEMMA PutCleanupSafe ==
    ASSUME AdaptersInv, NEW p \in Puts, PutCleanup(p)
    PROVE  AdaptersInv'
  <1>1. /\ AdapterTypes /\ PutInv(p) /\ puts[p].pc = "cleanup" /\ puts[p].result # "ok"
        /\ UNCHANGED <<backend, manifest, damaged, published, opens, deletes>>
        /\ \A q \in Puts : q # p => (q \in data => q \in data')
    BY PutFields, Zenon DEF PutCleanup, PutInv
  <1>2. /\ puts' \in [Puts -> PutCall]
        /\ \A q \in Puts : q # p => puts'[q] = puts[q]
        /\ puts'[p].pc = "done" /\ puts'[p].result = puts[p].result
        /\ puts'[p].body = puts[p].body
    BY <1>1, PutFields, PutMoves, ZenonT(60) DEF PutCleanup
  <1>3. /\ Misinformed(p) => Misinformed(p)'
        /\ Rivals' <=> Rivals
        /\ Deleting(p)' <=> Deleting(p)
    BY <1>1, <1>2, Zenon DEF Misinformed, S3, Deleting, PastCheck, Rivals
  <1>4. PutInv(p)'
    BY <1>1, <1>2, <1>3, Zenon DEF PutInv
  <1>5. QED
    BY <1>1, <1>2, <1>3, <1>4, PutRest, Zenon DEF AdapterTypes

(* A process that dies in Put leaves its staged bytes unpublished. *)
LEMMA PutCrashSafe ==
    ASSUME AdaptersInv, NEW p \in Puts, PutCrash(p)
    PROVE  AdaptersInv'
  <1>1. /\ AdapterTypes /\ PutInv(p) /\ puts[p].pc \in {"verify", "publish", "cleanup"}
        /\ UNCHANGED <<backend, manifest, data, damaged, published, opens, deletes>>
    BY PutFields, Zenon DEF PutCrash, store
  <1>2. /\ puts' \in [Puts -> PutCall]
        /\ \A q \in Puts : q # p => puts'[q] = puts[q]
        /\ puts'[p].pc = "done" /\ puts'[p].result = "error"
        /\ puts'[p].body = puts[p].body
    BY <1>1, PutMoves, Zenon DEF PutCrash
  <1>3. Misinformed(p) => Misinformed(p)'
    BY <1>1, <1>2, Zenon DEF Misinformed, S3
  <1>4. (Rivals' <=> Rivals) /\ \A v \in Puts : Deleting(v)' <=> Deleting(v)
    BY <1>1, Zenon DEF Deleting, PastCheck, Rivals
  <1>5. PutInv(p)'
    BY <1>1, <1>2, <1>3, <1>4, Zenon DEF PutInv
  <1>6. QED
    BY <1>1, <1>2, <1>3, <1>5, PutRest, Zenon DEF AdapterTypes

-----------------------------------------------------------------------------
(* The steps of Open. *)

(* What an Open that moves must show. *)
LEMMA OpenRest ==
    ASSUME AdaptersInv, NEW o \in Opens, opens' \in [Opens -> OpenCall],
           \A r \in Opens : r # o => opens'[r] = opens[r],
           OpenInv(o)', UNCHANGED <<backend, store, puts, deletes>>
    PROVE  AdaptersInv'
  <1>1. AdapterTypes'
    BY Zenon DEF AdaptersInv, AdapterTypes, store
  <1>2. /\ Rivals' <=> Rivals
        /\ \A v : (Deleting(v)' <=> Deleting(v)) /\ (Misinformed(v)' <=> Misinformed(v))
    BY Zenon DEF Deleting, PastCheck, Rivals, Misinformed, S3, store
  <1>3. \A p \in Puts : PutInv(p)'
    BY <1>2, Zenon DEF AdaptersInv, PutInv, store
  <1>4. \A r \in Opens : OpenInv(r)'
    BY <1>2, Zenon DEF AdaptersInv, OpenInv, store
  <1>5. \A d \in Deletes : DeleteInv(d)'
    BY <1>2, Zenon DEF AdaptersInv, DeleteInv, store
  <1>6. QED
    BY <1>1, <1>3, <1>4, <1>5, Zenon DEF AdaptersInv

(* Open reads the manifest, or finds none. *)
LEMMA OpenManifestSafe ==
    ASSUME AdaptersInv, NEW o \in Opens, OpenManifest(o)
    PROVE  AdaptersInv'
  <1>1. /\ AdapterTypes /\ OpenInv(o) /\ UNCHANGED <<backend, store, puts, deletes>>
        /\ opens \in [Opens -> OpenCall] /\ opens[o] \in OpenCall
    BY Zenon DEF AdaptersInv, AdapterTypes, OpenManifest
  <1>2. CASE OpenEnds(o, "not_found") \/ OpenEnds(o, "error")
    <2>1. /\ opens' \in [Opens -> OpenCall] /\ \A r \in Opens : r # o => opens'[r] = opens[r]
          /\ opens'[o].pc = "done" /\ opens'[o].result \in {"not_found", "error"}
      BY <1>1, <1>2, OpenMoves
    <2>2. QED
      BY <1>1, <2>1, OpenRest DEF OpenInv
  <1>3. CASE /\ manifest # NoVersion
             /\ opens' = [opens EXCEPT ![o].pc = "data", ![o].version = manifest]
    <2> DEFINE call == [opens[o] EXCEPT !.pc = "data", !.version = manifest]
    <2>1. manifest \in published /\ manifest \in Puts
      BY <1>1, <1>3 DEF AdapterTypes
    <2>2. /\ call \in OpenCall /\ call.version = manifest /\ call.result = opens[o].result
      BY <1>1, <2>1, Zenon DEF OpenCall
    <2>3. opens' = [opens EXCEPT ![o] = call]
      BY <1>1, <1>3, Zenon
    <2> HIDE DEF call
    <2>4. /\ opens' \in [Opens -> OpenCall] /\ \A r \in Opens : r # o => opens'[r] = opens[r]
          /\ opens'[o] = call
      BY <1>1, <2>2, <2>3
    <2>5. opens[o].result = "none"
      BY Zenon DEF AdaptersInv, OpenInv, OpenManifest
    <2>6. OpenInv(o)'
      BY <1>1, <2>1, <2>2, <2>4, <2>5, Zenon DEF OpenInv, store
    <2>7. QED
      BY <1>1, <2>4, <2>6, OpenRest
  <1>4. QED
    BY <1>2, <1>3 DEF OpenManifest

(* The bytes of a published version are those of a verified body, unless    *)
(* they are damaged; they are missing only for a reason.                    *)
LEMMA OpenDataSafe ==
    ASSUME AdaptersInv, NEW o \in Opens, OpenData(o)
    PROVE  AdaptersInv'
  <1>0. opens[o].version \in published /\ published \subseteq Puts
    BY DEF AdaptersInv, AdapterTypes, OpenInv, OpenData
  <1> PICK v \in published : v = opens[o].version
    BY <1>0, Zenon
  <1>1. /\ AdapterTypes /\ UNCHANGED <<backend, store, puts, deletes>>
        /\ v \in Puts /\ PutInv(v)
    BY <1>0, Zenon DEF AdaptersInv, OpenData
  <1>2. (Deleting(v)' <=> Deleting(v)) /\ (Misinformed(v)' <=> Misinformed(v))
    BY <1>1, Zenon DEF Deleting, PastCheck, Misinformed, S3, store
  <1>3. PICK result \in {"fits", "integrity", "error"} :
          /\ OpenEnds(o, result)
          /\ result = "integrity" => v \notin data \ damaged
    <2>1. v \in data \ damaged => Content(v) = "fits"
      BY <1>1, Zenon DEF PutInv, Content
    <2>2. QED
      BY <2>1, Zenon DEF OpenData
  <1>4. /\ opens' \in [Opens -> OpenCall] /\ \A r \in Opens : r # o => opens'[r] = opens[r]
        /\ opens'[o].pc = "done" /\ opens'[o].result = result /\ opens'[o].version = v
    BY <1>1, <1>3, OpenMoves, Zenon
  <1>5. result = "integrity" => Deleting(v) \/ v \in damaged \/ Misinformed(v)
    BY <1>1, <1>3, Zenon DEF PutInv
  <1>6. OpenInv(o)'
    BY <1>1, <1>2, <1>4, <1>5, Zenon DEF OpenInv, store
  <1>7. QED
    BY <1>1, <1>4, <1>6, OpenRest, Zenon

-----------------------------------------------------------------------------
(* The steps of Delete, and bit rot. *)

(* A Delete past its check stays there, and so does what it accounts for. *)
LEMMA DeletesStay ==
    ASSUME \A e \in Deletes : PastCheck(e) =>
               PastCheck(e)' /\ deletes'[e].version = deletes[e].version
    PROVE  (Rivals => Rivals') /\ \A v : Deleting(v) => Deleting(v)'
  <1>1. ASSUME NEW v, Deleting(v) PROVE Deleting(v)'
    BY <1>1, Zenon DEF Deleting
  <1>2. ASSUME Rivals PROVE Rivals'
    <2>1. PICK d \in Deletes, e \in Deletes :
            /\ d # e /\ deletes[d].version = deletes[e].version
            /\ PastCheck(d) /\ PastCheck(e)
      BY <1>2, Zenon DEF Rivals
    <2>2. /\ PastCheck(d)' /\ PastCheck(e)'
          /\ deletes'[d].version = deletes'[e].version
      BY <2>1, Zenon
    <2>3. QED
      BY <2>1, <2>2, Zenon DEF Rivals
  <1>3. QED
    BY <1>1, <1>2, Zenon

(* What a Delete that moves must show: what it takes away is accounted for. *)
LEMMA DeleteRest ==
    ASSUME AdaptersInv, NEW d \in Deletes, deletes' \in [Deletes -> DelCall],
           \A e \in Deletes : e # d => deletes'[e] = deletes[e],
           PastCheck(d) => PastCheck(d)' /\ deletes'[d].version = deletes[d].version,
           DeleteInv(d)',
           \A p \in Puts : p \in data => p \in data' \/ (p \in published /\ Deleting(p)'),
           manifest' = manifest \/ (manifest' = NoVersion /\ deletes[d].pc = "manifest"),
           damaged \subseteq damaged', UNCHANGED <<backend, published, puts, opens>>
    PROVE  AdaptersInv'
  <1>1. AdapterTypes'
    BY Zenon DEF AdaptersInv, AdapterTypes
  <1>2. (Rivals => Rivals') /\ \A v : Deleting(v) => Deleting(v)'
    <2>1. \A e \in Deletes : e # d => (PastCheck(e)' <=> PastCheck(e))
      BY Zenon DEF PastCheck
    <2>2. QED
      BY <2>1, DeletesStay, Zenon
  <1>a. deletes[d].pc = "manifest" => /\ PastCheck(d) /\ Deleting(deletes[d].version)
                                      /\ manifest = deletes[d].version \/ Rivals
    BY Zenon DEF AdaptersInv, DeleteInv, Deleting, PastCheck
  <1>3. \A v : Misinformed(v)' <=> Misinformed(v)
    BY Zenon DEF Misinformed, S3
  <1>4. ASSUME NEW p \in Puts PROVE PutInv(p)'
    <2>1. PutInv(p)
      BY Zenon DEF AdaptersInv
    <2>2. manifest = p => manifest' = p \/ Deleting(p)' \/ Rivals'
      BY <1>2, <1>a, Zenon
    <2>3. QED
      BY <1>2, <1>3, <2>1, <2>2, Zenon DEF PutInv
  <1>5. \A o \in Opens : OpenInv(o)'
    BY <1>2, <1>3, Zenon DEF AdaptersInv, OpenInv
  <1>6. ASSUME NEW e \in Deletes PROVE DeleteInv(e)'
    <2>1. CASE e = d
      BY <2>1
    <2>2. CASE e # d
      <3>1. DeleteInv(e) /\ deletes'[e] = deletes[e]
        BY <2>2, Zenon DEF AdaptersInv
      <3>2. ASSUME deletes[e].pc \in {"data", "manifest"}, manifest = deletes[e].version
            PROVE  manifest' = deletes[e].version \/ Rivals'
        <4>1. CASE deletes[d].pc = "manifest" /\ manifest = deletes[d].version
          <5>1. Rivals
            BY <1>a, <2>2, <3>2, <4>1, Zenon DEF Rivals, PastCheck
          <5>2. QED
            BY <1>2, <5>1
        <4>2. QED
          BY <1>2, <1>a, <3>2, <4>1, Zenon
      <3>3. QED
        BY <1>2, <3>1, <3>2, Zenon DEF DeleteInv
    <2>3. QED
      BY <2>1, <2>2
  <1>7. QED
    BY <1>1, <1>4, <1>5, <1>6, Zenon DEF AdaptersInv

(* What a step of Delete starts from. *)
LEMMA DeleteFields ==
    ASSUME AdaptersInv, NEW d \in Deletes
    PROVE  /\ AdapterTypes /\ DeleteInv(d) /\ published \subseteq Puts
           /\ deletes \in [Deletes -> DelCall] /\ deletes[d] \in DelCall
           /\ deletes[d].result \in {"none", "ok", "version", "error"}
  <1>1. deletes[d] \in DelCall
    BY Zenon DEF AdaptersInv, AdapterTypes
  <1>2. QED
    BY <1>1 DEF AdaptersInv, AdapterTypes, DelCall

(* A caller asks to delete a version it has seen published. *)
LEMMA DeleteCallSafe ==
    ASSUME AdaptersInv, NEW d \in Deletes, DeleteCall(d)
    PROVE  AdaptersInv'
  <1>1. PICK v \in published :
          deletes' = [deletes EXCEPT ![d].pc = "check", ![d].version = v]
    BY Zenon DEF DeleteCall
  <1> DEFINE call == [deletes[d] EXCEPT !.pc = "check", !.version = v]
  <1>2. call \in DelCall /\ call.version = v /\ call.pc = "check"
    BY DeleteFields, Zenon DEF DelCall
  <1>3. deletes' = [deletes EXCEPT ![d] = call]
    BY <1>1, DeleteFields, Zenon
  <1> HIDE DEF call
  <1>4. /\ deletes' \in [Deletes -> DelCall] /\ deletes'[d] = call
        /\ \A e \in Deletes : e # d => deletes'[e] = deletes[e]
    BY <1>2, <1>3, DeleteFields
  <1>5. UNCHANGED <<backend, store, puts, opens>> /\ deletes[d].pc = "new"
    BY DEF DeleteCall
  <1>6. DeleteInv(d)'
    BY <1>2, <1>4, <1>5 DEF DeleteInv, store
  <1>7. QED
    BY <1>4, <1>5, <1>6, DeleteRest, Zenon DEF store, PastCheck

(* A step of Delete takes nothing but the bytes of the version it expects,  *)
(* and the manifest last of all.                                            *)
LEMMA DeleteGoesOn ==
    ASSUME AdaptersInv, NEW d \in Deletes, NEW pc \in {"data", "manifest", "done", "stopped"},
           deletes[d].pc # "new", PastCheck(d) => pc # "stopped",
           NEW result \in {"none", "ok", "version", "error"},
           \/ DeleteEnds(d, result) /\ pc = "done"
           \/ DeleteStops(d, result) /\ pc = "stopped"
           \/ deletes' = [deletes EXCEPT ![d].pc = pc] /\ deletes[d].result = result,
           data' = data \/ (data' = data \ {deletes[d].version} /\ pc # "stopped"),
           manifest' = manifest \/ (manifest' = NoVersion /\ deletes[d].pc = "manifest"),
           pc \in {"data", "manifest"} =>
               manifest' = manifest /\ (manifest = deletes[d].version \/ Rivals),
           damaged' = damaged, UNCHANGED <<backend, published, puts, opens>>
    PROVE  AdaptersInv'
  <1>1. /\ deletes' \in [Deletes -> DelCall]
        /\ \A e \in Deletes : e # d => deletes'[e] = deletes[e]
        /\ deletes'[d].pc = pc /\ deletes'[d].version = deletes[d].version
    BY DeleteFields, DeleteMoves, Zenon
  <1>2. deletes[d].version \in published /\ deletes[d].version \in Puts
    BY DeleteFields DEF DeleteInv
  <1>3. PastCheck(d) => PastCheck(d)'
    BY <1>1, Zenon DEF PastCheck
  <1>4. DeleteInv(d)'
    <2>0. \A e \in Deletes : e # d => (PastCheck(e)' <=> PastCheck(e))
      BY <1>1, Zenon DEF PastCheck
    <2>1. Rivals => Rivals'
      BY <1>1, <1>3, <2>0, DeletesStay, Zenon
    <2>2. QED
      BY <1>1, <1>2, <2>1, Zenon DEF DeleteInv
  <1>5. \A p \in Puts : p \in data => p \in data' \/ (p \in published /\ Deleting(p)')
    <2>1. pc # "stopped" => \A p \in Puts : p = deletes[d].version => Deleting(p)'
      BY <1>1, Zenon DEF Deleting, PastCheck
    <2>2. QED
      BY <1>2, <2>1
  <1>6. QED
    BY <1>1, <1>3, <1>4, <1>5, DeleteRest, Zenon

(* Delete compares the manifest with the expected version. *)
LEMMA DeleteCheckSafe ==
    ASSUME AdaptersInv, NEW d \in Deletes, DeleteCheck(d)
    PROVE  AdaptersInv'
  <1>1. /\ deletes[d].pc # "new" /\ ~PastCheck(d)
        /\ UNCHANGED <<backend, manifest, data, damaged, published, puts, opens>>
    BY Zenon DEF DeleteCheck, PastCheck, store
  <1>2. CASE DeleteStops(d, "ok") \/ DeleteStops(d, "version") \/ DeleteStops(d, "error")
    BY <1>1, <1>2, DeleteGoesOn, Zenon
  <1>3. CASE manifest = deletes[d].version /\ deletes' = [deletes EXCEPT ![d].pc = "data"]
    BY <1>1, <1>3, DeleteFields, DeleteGoesOn, Zenon
  <1>4. QED
    BY <1>2, <1>3, Zenon DEF DeleteCheck

(* Delete removes the bytes. *)
LEMMA DeleteDataSafe ==
    ASSUME AdaptersInv, NEW d \in Deletes, DeleteData(d)
    PROVE  AdaptersInv'
  <1>1. /\ deletes[d].pc = "data" /\ deletes[d].pc # "new"
        /\ data' = data \/ data' = data \ {deletes[d].version}
        /\ UNCHANGED <<backend, manifest, damaged, published, puts, opens>>
    BY DEF DeleteData
  <1>2. CASE DeleteEnds(d, "error")
    BY <1>1, <1>2, DeleteGoesOn, Zenon
  <1>3. CASE deletes' = [deletes EXCEPT ![d].pc = "manifest"]
    <2>1. manifest = deletes[d].version \/ Rivals
      BY <1>1, DeleteFields, Zenon DEF DeleteInv
    <2>2. QED
      BY <1>1, <1>3, <2>1, DeleteFields, DeleteGoesOn, Zenon
  <1>4. QED
    BY <1>2, <1>3 DEF DeleteData

(* Delete removes the manifest. *)
LEMMA DeleteManifestSafe ==
    ASSUME AdaptersInv, NEW d \in Deletes, DeleteManifest(d)
    PROVE  AdaptersInv'
  <1>1. /\ deletes[d].pc = "manifest" /\ deletes[d].pc # "new"
        /\ manifest' = manifest \/ manifest' = NoVersion
        /\ UNCHANGED <<backend, data, damaged, published, puts, opens>>
    BY DEF DeleteManifest
  <1>2. DeleteEnds(d, "ok") \/ DeleteEnds(d, "error")
    BY DEF DeleteManifest
  <1>3. QED
    BY <1>1, <1>2, DeleteGoesOn, Zenon

(* Stored bytes that change do so under a published version. *)
LEMMA BitRotSafe ==
    ASSUME AdaptersInv, NEW v \in Puts, BitRot(v)
    PROVE  AdaptersInv'
  <1>1. /\ damaged \subseteq damaged'
        /\ UNCHANGED <<backend, manifest, data, published, puts, opens, deletes>>
    BY Zenon DEF BitRot, calls
  <1>2. AdapterTypes'
    BY <1>1, Zenon DEF AdaptersInv, AdapterTypes
  <1>3. /\ Rivals' <=> Rivals
        /\ \A w : (Deleting(w)' <=> Deleting(w)) /\ (Misinformed(w)' <=> Misinformed(w))
    BY <1>1, Zenon DEF Deleting, PastCheck, Rivals, Misinformed, S3
  <1>4. \A p \in Puts : PutInv(p)'
    BY <1>1, <1>3, Zenon DEF AdaptersInv, PutInv
  <1>5. \A o \in Opens : OpenInv(o)'
    BY <1>1, <1>3, Zenon DEF AdaptersInv, OpenInv
  <1>6. \A d \in Deletes : DeleteInv(d)'
    BY <1>1, <1>3, Zenon DEF AdaptersInv, DeleteInv
  <1>7. QED
    BY <1>2, <1>4, <1>5, <1>6, Zenon DEF AdaptersInv

-----------------------------------------------------------------------------
(* The invariant and the theorems. *)

(* An empty store, and no call in progress. *)
LEMMA AdaptersInitially ==
    ASSUME AdaptersInit PROVE AdaptersInv
  <1>1. puts \in [Puts -> PutCall]
    BY SMTT(60) DEF AdaptersInit, PutCall
  <1>2. opens \in [Opens -> OpenCall] /\ deletes \in [Deletes -> DelCall]
    BY Zenon DEF AdaptersInit, OpenCall, DelCall
  <1>3. AdapterTypes
    BY <1>1, <1>2, Zenon DEF AdaptersInit, AdapterTypes
  <1>4. \A p \in Puts : puts[p].pc = "check" /\ puts[p].result = "none"
    BY SMTT(60) DEF AdaptersInit
  <1>5. \A p \in Puts : PutInv(p)
    BY <1>4, Zenon DEF AdaptersInit, PutInv
  <1>6. (\A o \in Opens : OpenInv(o)) /\ \A d \in Deletes : DeleteInv(d)
    BY Zenon DEF AdaptersInit, OpenInv, DeleteInv
  <1>7. QED
    BY <1>3, <1>5, <1>6, Zenon DEF AdaptersInv

(* The invariant is inductive. *)
LEMMA AdaptersStep ==
    ASSUME AdaptersInv, [AdaptersNext]_adapters
    PROVE  AdaptersInv'
  <1>1. ASSUME NEW p \in Puts,
               \/ PutCheck(p) \/ PutStream(p) \/ PutVerify(p) \/ PutPublish(p)
               \/ PutCleanup(p) \/ PutCrash(p) \/ BitRot(p)
        PROVE  AdaptersInv'
    BY <1>1, PutCheckSafe, PutStreamSafe, PutVerifySafe, PutPublishSafe, PutCleanupSafe,
       PutCrashSafe, BitRotSafe, Zenon
  <1>2. ASSUME NEW o \in Opens, OpenManifest(o) \/ OpenData(o)
        PROVE  AdaptersInv'
    BY <1>2, OpenManifestSafe, OpenDataSafe, Zenon
  <1>3. ASSUME NEW d \in Deletes,
               DeleteCall(d) \/ DeleteCheck(d) \/ DeleteData(d) \/ DeleteManifest(d)
        PROVE  AdaptersInv'
    BY <1>3, DeleteCallSafe, DeleteCheckSafe, DeleteDataSafe, DeleteManifestSafe, Zenon
  <1>4. CASE UNCHANGED adapters
    <2>1. UNCHANGED <<backend, manifest, data, damaged, published, puts, opens, deletes>>
      BY <1>4, Zenon DEF adapters, store, calls
    <2>2. AdapterTypes'
      BY <2>1, Zenon DEF AdaptersInv, AdapterTypes
    <2>3. /\ Rivals' <=> Rivals
          /\ \A w : (Deleting(w)' <=> Deleting(w)) /\ (Misinformed(w)' <=> Misinformed(w))
      BY <2>1, Zenon DEF Deleting, PastCheck, Rivals, Misinformed, S3
    <2>4. \A p \in Puts : PutInv(p)'
      BY <2>1, <2>3, Zenon DEF AdaptersInv, PutInv
    <2>5. (\A o \in Opens : OpenInv(o)') /\ \A d \in Deletes : DeleteInv(d)'
      BY <2>1, <2>3, Zenon DEF AdaptersInv, OpenInv, DeleteInv
    <2>6. QED
      BY <2>2, <2>4, <2>5, Zenon DEF AdaptersInv
  <1>5. QED
    BY <1>1, <1>2, <1>3, <1>4, Zenon DEF AdaptersNext

(* The invariant of the adapters holds in every reachable state. *)
LEMMA AdaptersInvariant == AdaptersSpec => []AdaptersInv
  <1>1. AdaptersInit => AdaptersInv
    BY AdaptersInitially
  <1>2. AdaptersInv /\ [AdaptersNext]_adapters => AdaptersInv'
    BY AdaptersStep
  <1>3. QED
    BY <1>1, <1>2, PTL DEF AdaptersSpec

(* Open never yields bytes that no verified upload sent, and never blames   *)
(* intact bytes (filesystem.go and s3store.go, Open and the verified        *)
(* reader).                                                                 *)
THEOREM AdaptersOpenHonest == AdaptersSpec => []OpenHonest
  <1>1. AdaptersInv => OpenHonest
    BY Zenon DEF AdaptersInv, OpenInv, OpenHonest
  <1>2. QED
    BY <1>1, AdaptersInvariant, PTL

(* An acknowledged object leaves the store only through a Delete of its     *)
(* version, but for a manifest taken by the slower of two Deletes of one    *)
(* version (commitManifest, the clean-up after it, and Delete).             *)
THEOREM AdaptersKeepAcknowledged == AdaptersSpec => []AcknowledgedKept
  <1>1. AdaptersInv => AcknowledgedKept
    BY Zenon DEF AdaptersInv, PutInv, Misinformed, AcknowledgedKept
  <1>2. QED
    BY <1>1, AdaptersInvariant, PTL

(* The abstract state of each version. *)
Object == [v \in Puts |-> IF manifest = v THEN "committed"
                          ELSE IF v \in published THEN "removed" ELSE "staged"]

(* Only two steps change the abstract object: publishing and deleting the   *)
(* manifest.                                                                *)
LEMMA StoreStep ==
    ASSUME AdaptersInv, [AdaptersNext]_adapters
    PROVE  [Store!StoreNext]_(Object)
  <1>1. manifest \in published \cup {NoVersion} /\ published \subseteq Puts /\ NoVersion \notin Puts
    BY AdapterConstants DEF AdaptersInv, AdapterTypes
  <1>2. CASE UNCHANGED <<manifest, published>>
    BY <1>2 DEF Object
  <1>3. ASSUME NEW p \in Puts, PutPublish(p), manifest = NoVersion, manifest' = p,
               published' = published \cup {p}
        PROVE  Store!StoreNext
    <2>1. p \notin published
      BY <1>3, EarlyPut, Zenon DEF PutPublish
    <2>2. Object[p] = "staged" /\ \A w \in Puts : Object[w] # "committed"
      BY <1>1, <1>3, <2>1, Zenon DEF Object
    <2>3. Object' = [Object EXCEPT ![p] = "committed"]
      BY <1>1, <1>3, Zenon DEF Object
    <2>4. Store!Commit(p)
      BY <2>2, <2>3 DEF Store!Commit, Object
    <2>5. QED
      BY <2>4, Zenon DEF Store!StoreNext
  <1>4. ASSUME manifest # NoVersion, manifest' = NoVersion, UNCHANGED published
        PROVE  Store!StoreNext
    <2>1. PICK v \in Puts : v = manifest
      BY <1>1, <1>4
    <2>2. Object[v] = "committed"
      BY <2>1 DEF Object
    <2>3. Object' = [Object EXCEPT ![v] = "removed"]
      BY <1>1, <1>4, <2>1, Zenon DEF Object
    <2>4. Store!Remove(v)
      BY <2>2, <2>3 DEF Store!Remove, Object
    <2>5. QED
      BY <2>4 DEF Store!StoreNext
  <1>5. \/ UNCHANGED <<manifest, published>>
        \/ \E p \in Puts : /\ PutPublish(p) /\ manifest = NoVersion /\ manifest' = p
                           /\ published' = published \cup {p}
        \/ manifest # NoVersion /\ manifest' = NoVersion /\ UNCHANGED published
    BY ZenonT(60) DEF AdaptersNext, PutCheck, PutStream, PutVerify, PutPublish, PutCleanup,
       PutCrash,
           BitRot, OpenManifest, OpenData, DeleteCall, DeleteCheck, DeleteData,
           DeleteManifest, adapters, store, calls
  <1>6. QED
    BY <1>2, <1>3, <1>4, <1>5, Zenon DEF Object

(* Both adapters implement the write-once store. *)
THEOREM AdaptersImplementStore == AdaptersSpec => ImplementsBlobStore
  <1>1. AdaptersInit => Store!StoreInit
    BY AdapterConstants DEF AdaptersInit, Store!StoreInit
  <1>2. AdaptersInv /\ [AdaptersNext]_adapters => [Store!StoreNext]_(Object)
    BY StoreStep
  <1>3. QED
    BY <1>1, <1>2, AdaptersInvariant, PTL
      DEF AdaptersSpec, ImplementsBlobStore, Store!StoreSpec, Object
=============================================================================
