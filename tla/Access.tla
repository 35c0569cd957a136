------------------------------- MODULE Access -------------------------------
(***************************************************************************)
(* The initial operator's installation, its API tokens and the requests    *)
(* made with them: internal/bootstrap (with identity and tenancy), and     *)
(* internal/authentication and internal/authorization as each request      *)
(* passes them.                                                            *)
(*                                                                         *)
(* Initialize and RotateToken are SERIALIZABLE transactions: they see the  *)
(* snapshot of their first statement, and an update of a row that another  *)
(* transaction has changed since fails.  Every authentication updates the  *)
(* row of its token.  Tokens are numbered in the order of their creation.  *)
(* Capabilities and the rows of the role side, which nothing in the        *)
(* program changes after the installation, are one flag here.  Outside     *)
(* tests no code passes the token that Authenticate returns on to          *)
(* IsAllowed yet; a request here does.                                     *)
(***************************************************************************)
EXTENDS Naturals, Sequences, FiniteSets

CONSTANTS
    Operators,      \* people running "bootstrap init" and "bootstrap token"
    Requests,       \* API requests, each with a token that was handed out
    TTL,            \* how long a token is good for
    Skew,           \* how far a host's clock may be off the database's
    MaxTime,        \* bound on the database clock
    MaxFailures     \* bound on failing calls and lost answers

ASSUME AccessConstants ==
    /\ TTL \in Nat \ {0} /\ Skew \in Nat /\ MaxTime \in Nat /\ MaxFailures \in Nat

VARIABLES
    now,            \* the database clock
    occupied,       \* workspaces exist that no installation record accounts for
    installed,      \* the number of bootstrap_installations
    tokens,         \* api_tokens: created, revoked (0 is NULL)
    granted,        \* principal, membership, account and binding are in force
    operators, requests,
    failures

accessVars == <<now, occupied, installed, tokens, granted, operators, requests, failures>>

AccessInit ==
    /\ now = Skew + 1
    /\ occupied \in BOOLEAN
    /\ installed = 0 /\ tokens = <<>> /\ granted = FALSE
    /\ operators \in [Operators -> {[pc |-> c, stale |-> FALSE, at |-> 0, answer |-> 0] :
                                     c \in {"init", "token"}}]
    /\ requests = [q \in Requests |->
          [pc |-> "call", token |-> 0, used |-> 0, decided |-> 0]]
    /\ failures = 0

Failure == failures < MaxFailures /\ failures' = failures + 1
HostClock == {t \in (now - Skew) .. (now + Skew) : t <= MaxTime}
Live(t) == tokens[t].revoked = 0
InForce(t, at) == Live(t) /\ tokens[t].created <= at /\ at < tokens[t].created + TTL

OperatorAt(o, pc) == operators' = [operators EXCEPT ![o].pc = pc]

\* A token row has changed under every rotation that has taken its snapshot.
Touched(ops) ==
    [o \in Operators |-> IF ops[o].pc \in {"lock", "rotate"}
                         THEN [ops[o] EXCEPT !.stale = TRUE] ELSE ops[o]]

-----------------------------------------------------------------------------
(* The operator's commands                                                 *)

\* Initialize looks at the state of the installation.
InitializeBegin(o) ==
    /\ operators[o].pc = "init"
    /\ OperatorAt(o, CASE installed # 0 -> "token"
                       [] installed = 0 /\ occupied -> "done"
                       [] OTHER -> "install")
    /\ UNCHANGED <<now, occupied, installed, tokens, granted, requests, failures>>

\* It creates principal, workspace, role, binding, application and first token,
\* dated by the operator's host, and the singleton installation record, whose key
\* refuses a second one.
InitializeCommit(o) ==
    /\ operators[o].pc = "install"
    /\ \/ /\ installed = 0
          /\ installed' = 1 /\ granted' = TRUE
          /\ \E at \in HostClock : tokens' = Append(tokens, [created |-> at, revoked |-> 0])
          /\ \/ /\ operators' = [operators EXCEPT ![o].pc = "done", ![o].answer = Len(tokens')]
                /\ UNCHANGED failures
             \/ OperatorAt(o, "init") /\ Failure
       \/ /\ installed # 0
          /\ OperatorAt(o, "init") /\ UNCHANGED <<installed, tokens, granted, failures>>
    /\ UNCHANGED <<now, occupied, requests>>

\* Mutant: a failed rotation is repeated in the transaction it failed in.
RotateBeginAgain(o) ==
    /\ operators[o].pc = "token"
    /\ \/ installed = 0 /\ OperatorAt(o, "init")
       \/ /\ installed # 0
          /\ operators' = [operators EXCEPT ![o].pc = "lock", ![o].at = now]
    /\ UNCHANGED <<now, occupied, installed, tokens, granted, requests, failures>>

\* RotateToken's first statement takes the snapshot and the database's time, and
\* waits for the record if there is one.
RotateBegin(o) ==
    /\ operators[o].pc = "token"
    /\ \/ installed = 0 /\ OperatorAt(o, "init")
       \/ /\ installed # 0
          /\ operators' = [operators EXCEPT ![o].pc = "lock", ![o].stale = FALSE, ![o].at = now]
    /\ UNCHANGED <<now, occupied, installed, tokens, granted, requests, failures>>

\* The installation record is locked until the end of the transaction.
RotateLock(o) ==
    /\ operators[o].pc = "lock"
    /\ \A p \in Operators : operators[p].pc # "rotate"
    /\ operators' = [operators EXCEPT ![o].pc = "rotate"]
    /\ UNCHANGED <<now, occupied, installed, tokens, granted, requests, failures>>

\* Mutant: READ COMMITTED, with the tokens to revoke read before the lock.
RotateCommitStale(o) ==
    /\ operators[o].pc = "rotate"
    /\ tokens' = Append(IF operators[o].stale THEN tokens
                        ELSE [t \in DOMAIN tokens |->
                                IF Live(t) THEN [tokens[t] EXCEPT !.revoked = now]
                                ELSE tokens[t]],
                        [created |-> now, revoked |-> 0])
    /\ operators' = [Touched(operators) EXCEPT ![o].pc = "done", ![o].answer = Len(tokens')]
    /\ UNCHANGED <<now, occupied, installed, granted, requests, failures>>

\* Every unrevoked token is revoked and one is created.  It fails when a token has
\* changed since the snapshot, and when the revocation would precede the creation.
RotateCommit(o) ==
    LET at == operators[o].at IN
    /\ operators[o].pc = "rotate"
    /\ \/ /\ ~operators[o].stale
          /\ \A t \in DOMAIN tokens : Live(t) => tokens[t].created <= at
          /\ tokens' = Append([t \in DOMAIN tokens |->
                IF Live(t) THEN [tokens[t] EXCEPT !.revoked = at] ELSE tokens[t]],
                [created |-> at, revoked |-> 0])
          /\ \/ /\ operators' = [Touched(operators) EXCEPT ![o].pc = "done",
                                                           ![o].answer = Len(tokens')]
                /\ UNCHANGED failures
             \/ operators' = [Touched(operators) EXCEPT ![o].pc = "token"] /\ Failure
       \/ /\ operators[o].stale \/ \E t \in DOMAIN tokens : Live(t) /\ tokens[t].created > at
          /\ OperatorAt(o, "token") /\ UNCHANGED <<tokens, failures>>
    /\ UNCHANGED <<now, occupied, installed, granted, requests>>

-----------------------------------------------------------------------------
(* Requests                                                                *)

\* FindByPrefix and the verifier: the token is one that was handed out.
FindByPrefix(q) ==
    /\ requests[q].pc = "call"
    /\ \E t \in DOMAIN tokens : requests' = [requests EXCEPT ![q].pc = "use", ![q].token = t]
    /\ UNCHANGED <<now, occupied, installed, tokens, granted, operators, failures>>

\* RecordUse: one conditional UPDATE decides, at the server's time.
RecordUse(q) ==
    LET t == requests[q].token IN
    /\ requests[q].pc = "use"
    /\ \E at \in HostClock :
          \/ /\ InForce(t, at)
             /\ requests' = [requests EXCEPT ![q].pc = "authorize", ![q].used = Len(tokens)]
             /\ operators' = Touched(operators)
          \/ /\ ~InForce(t, at)
             /\ requests' = [requests EXCEPT ![q].pc = "call", ![q].token = 0]
             /\ UNCHANGED operators
    /\ UNCHANGED <<now, occupied, installed, tokens, granted, failures>>

\* Mutant: the decision relies on the authentication that preceded it.
AuthorizeAuthenticated(q) ==
    /\ requests[q].pc = "authorize" /\ granted
    /\ requests' = [requests EXCEPT ![q].pc = "allowed", ![q].decided = Len(tokens)]
    /\ UNCHANGED <<now, occupied, installed, tokens, granted, operators, failures>>

\* IsAllowed: one query decides on the role side and the token as they are now.
Authorize(q) ==
    /\ requests[q].pc = "authorize"
    /\ \E at \in HostClock :
          requests' = IF granted /\ InForce(requests[q].token, at)
                      THEN [requests EXCEPT ![q].pc = "allowed", ![q].decided = Len(tokens)]
                      ELSE [requests EXCEPT ![q].pc = "denied"]
    /\ UNCHANGED <<now, occupied, installed, tokens, granted, operators, failures>>

\* An administrator suspends the principal or ends its membership or binding.
Withdraw ==
    /\ granted /\ granted' = FALSE /\ Failure
    /\ UNCHANGED <<now, occupied, installed, tokens, operators, requests>>

Tick ==
    /\ now < MaxTime /\ now' = now + 1
    /\ UNCHANGED <<occupied, installed, tokens, granted, operators, requests, failures>>

OperatorStep(o) ==
    InitializeBegin(o) \/ InitializeCommit(o) \/ RotateBegin(o) \/ RotateLock(o) \/ RotateCommit(o)

RequestStep(q) == FindByPrefix(q) \/ RecordUse(q) \/ Authorize(q)

AccessNext ==
    \/ \E o \in Operators : OperatorStep(o)
    \/ \E q \in Requests : RequestStep(q)
    \/ Withdraw \/ Tick

\* Transactions run, operators repeat a command that failed, and time passes.
AccessSpec ==
    /\ AccessInit /\ [][AccessNext]_accessVars
    /\ \A o \in Operators : WF_accessVars(OperatorStep(o))
    /\ WF_accessVars(Tick)

-----------------------------------------------------------------------------
(* Properties                                                              *)

\* However initializations and rotations race, fail or lose their answers, there
\* is one installation, and it has one unrevoked token, the newest; an operator
\* who was told a token holds it until another rotation replaces it.
OneLiveToken ==
    /\ (installed = 0) = (tokens = <<>>)
    /\ \A t \in DOMAIN tokens : Live(t) <=> t = Len(tokens)
    /\ \A o, p \in Operators :
          operators[o].answer # 0 /\ operators[o].answer = operators[p].answer => o = p

\* A request gets past authentication, and past authorization, only with the
\* newest token of that moment: RotateToken revokes the old token in the transaction
\* that makes the new one, so a rotation cuts it off between any two steps of a
\* request, without the overlap that ADR-0004 speaks of.
RotationCutsOff ==
    \A q \in Requests :
        /\ requests[q].used # 0 => requests[q].used = requests[q].token
        /\ requests[q].decided # 0 => requests[q].decided = requests[q].token

\* An operator who repeats a failed command gets a token, or learns that the
\* database is not empty: neither other operators, nor lost answers, nor a first
\* token dated by a fast clock stands in the way for ever.
OperatorsConverge == \A o \in Operators : <>(operators[o].pc = "done")
=============================================================================
