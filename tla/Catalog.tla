------------------------------ MODULE Catalog ------------------------------
(***************************************************************************)
(* internal/catalog: repositories, created under an idempotency key, and   *)
(* the links between one application and its repositories.                 *)
(*                                                                         *)
(* A key stands for the whole idempotency scope: workspace, principal, API *)
(* version, operation and key.  A request's fields that enter its          *)
(* fingerprint are its body.  Rows are numbered in the order of their      *)
(* creation; the numbers stand for the random identifiers.  A client that  *)
(* does not get an answer calls again with the same key and body.          *)
(* Requests that are invalid, unauthorized or name what does not exist     *)
(* return before they write anything and are left out.                     *)
(***************************************************************************)
EXTENDS Naturals, Sequences

CONSTANTS
    Creates,        \* clients that create a repository, each under its own name
    Links,          \* clients that link the application to a repository
    Keys,           \* idempotency scopes
    CreateKeys,     \* [Creates -> SUBSET Keys], those a client may use
    Skew,           \* how far a server's clock may be off the database's
    MaxTime,        \* bound on the database clock and on the dates of links
    MaxFaults       \* bound on failing calls, crashes and lost answers

ASSUME CatalogConstants ==
    /\ Skew \in Nat /\ MaxTime \in Nat /\ MaxFaults \in Nat /\ Keys # {}
    /\ CreateKeys \in [Creates -> SUBSET Keys]

VARIABLES
    now,            \* the database clock
    repositories,   \* rows: the key and name they were created with
    repositoryClaims, \* repository_create_idempotency: {} or {[body, id]}, by key
    links,          \* application_repository_relationships; until = 0 is NULL
    locks,          \* advisory transaction locks held
    creates, linkings,  \* the clients
    faults

catalogData == <<repositories, repositoryClaims, links>>
catalogVars == <<now, catalogData, locks, creates, linkings, faults>>

CatalogInit ==
    /\ now = Skew
    /\ repositories = <<>> /\ links = <<>>
    /\ repositoryClaims = [k \in Keys |-> {}]
    /\ locks = {}
    /\ creates \in [Creates -> {[pc |-> "begin", key |-> k, answer |-> 0] : k \in Keys}]
    /\ \A c \in Creates : creates[c].key \in CreateKeys[c]
    /\ linkings = [l \in Links |-> [pc |-> "call", repository |-> 0, answer |-> 0]]
    /\ faults = 0

Fault == faults < MaxFaults /\ faults' = faults + 1

Active(repository) ==
    {i \in DOMAIN links : links[i].repository = repository /\ links[i].until = 0}

-----------------------------------------------------------------------------
(* CreateRepository                                                        *)

CreateAt(c, pc) == creates' = [creates EXCEPT ![c].pc = pc]
CreateLock(c) == <<"repository", creates[c].key>>

\* The lock of the idempotency scope, which is tried and not waited for.
CreateBegin(c) ==
    /\ creates[c].pc = "begin"
    /\ \/ CreateLock(c) \in locks /\ UNCHANGED <<creates, locks>>
       \/ /\ CreateLock(c) \notin locks
          /\ locks' = locks \cup {CreateLock(c)} /\ CreateAt(c, "commit")
    /\ UNCHANGED <<now, catalogData, linkings, faults>>

\* The claim is there: replay or conflict.  Or it is inserted with the repository.
CreateCommit(c) ==
    LET claim == repositoryClaims[creates[c].key]
        id == Len(repositories) + 1
    IN
    /\ creates[c].pc = "commit"
    /\ locks' = locks \ {CreateLock(c)}
    /\ \/ /\ \E k \in claim :
                creates' = [creates EXCEPT ![c].pc = "done",
                    ![c].answer = IF k.body = c THEN k.id ELSE 0]
          /\ UNCHANGED <<repositories, repositoryClaims, faults>>
       \/ /\ claim = {}
          /\ repositories' = Append(repositories, [key |-> creates[c].key, body |-> c])
          /\ repositoryClaims' = [repositoryClaims EXCEPT ![creates[c].key] =
                                      {[body |-> c, id |-> id]}]
          /\ \/ /\ creates' = [creates EXCEPT ![c].pc = "done", ![c].answer = id]
                /\ UNCHANGED faults
             \/ CreateAt(c, "begin") /\ Fault
    /\ UNCHANGED <<now, links, linkings>>

\* A statement fails or the server dies: the transaction rolls back.
CreateFails(c) ==
    /\ creates[c].pc = "commit" /\ CreateAt(c, "begin") /\ Fault
    /\ locks' = locks \ {CreateLock(c)}
    /\ UNCHANGED <<now, catalogData, linkings>>

-----------------------------------------------------------------------------
(* LinkRepository                                                          *)

LinkEnds(l, id) == linkings' = [linkings EXCEPT ![l].pc = "done", ![l].answer = id]
LinkAt(l, pc) == linkings' = [linkings EXCEPT ![l].pc = pc]

\* A client links a repository that exists.
LinkCall(l) ==
    /\ linkings[l].pc = "call"
    /\ \E r \in DOMAIN repositories :
          linkings' = [linkings EXCEPT ![l].pc = "insert", ![l].repository = r]
    /\ UNCHANGED <<now, catalogData, locks, creates, faults>>

\* The row is inserted, valid from the server's present, unless the partial
\* unique index has an active one.
LinkInsert(l) ==
    LET r == linkings[l].repository IN
    /\ linkings[l].pc = "insert"
    /\ \/ /\ Active(r) = {}
          /\ \E from \in {t \in (now - Skew) .. (now + Skew) : t <= MaxTime} :
                links' = Append(links, [repository |-> r, from |-> from, until |-> 0])
          /\ \/ LinkEnds(l, Len(links')) /\ UNCHANGED faults
             \/ LinkAt(l, "insert") /\ Fault
       \/ Active(r) # {} /\ LinkAt(l, "select") /\ UNCHANGED <<links, faults>>
    /\ UNCHANGED <<now, repositories, repositoryClaims, locks, creates>>

\* selectActiveRelationship; the link may have ended since the insert was skipped,
\* and the client is told that there is none.
LinkSelect(l) ==
    /\ linkings[l].pc = "select"
    /\ \/ \E i \in Active(linkings[l].repository) : LinkEnds(l, i)
       \/ Active(linkings[l].repository) = {} /\ LinkEnds(l, 0)
    /\ UNCHANGED <<now, catalogData, locks, creates, faults>>

\* A link ends; its interval must not be empty.
EndLink(i) ==
    /\ links[i].until = 0 /\ links[i].from < now
    /\ links' = [links EXCEPT ![i].until = now]
    /\ UNCHANGED <<now, repositories, repositoryClaims, locks, creates, linkings, faults>>

-----------------------------------------------------------------------------
\* Mutant: links that have ended are found as well.
ResolvedEver(repository) ==
    {i \in DOMAIN links : links[i].repository = repository /\ links[i].from <= now}

\* ResolveActiveRepositoryTarget: active links the database's clock has reached.
Resolved(repository) == {i \in Active(repository) : links[i].from <= now}

Tick ==
    /\ now < MaxTime /\ now' = now + 1
    /\ UNCHANGED <<catalogData, locks, creates, linkings, faults>>

CreateStep(c) == CreateBegin(c) \/ CreateCommit(c)
LinkStep(l) == LinkCall(l) \/ LinkInsert(l) \/ LinkSelect(l)

CatalogNext ==
    \/ \E c \in Creates : CreateStep(c) \/ CreateFails(c)
    \/ \E l \in Links : LinkStep(l)
    \/ \E i \in DOMAIN links : EndLink(i)
    \/ Tick
=============================================================================
