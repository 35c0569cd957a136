------------------------- MODULE ImportReservation -------------------------
(***************************************************************************)
(* createImport (ingestion Service.Reserve and its store) on top of the    *)
(* catalog: a reservation looks for an earlier answer, resolves the        *)
(* repository the analysis is about, and writes claim, import, analysis    *)
(* context and pending artifact in one transaction.                        *)
(*                                                                         *)
(* Between these steps other requests with the same key, the catalog and   *)
(* the clock go on.  A body is the kind of request and its target, which   *)
(* is what the fingerprint separates.  The expiry of a claim is stored and *)
(* never read, so claims are permanent here.                               *)
(***************************************************************************)
EXTENDS Catalog

CONSTANTS
    Reserves,       \* clients that create an import
    ImportKeys,     \* the idempotency scopes they use
    Kinds           \* of "plain", "targeted", "too_large", "no_application"

ASSUME ReservationConstants == ImportKeys \subseteq Keys

VARIABLES
    imports,        \* rows: key, body, link and accepted_at of the context (or 0)
    importClaims,   \* import_create_idempotency: {} or {[body, id]}, by key
    reserves        \* the clients

importData == <<imports, importClaims>>
reservationVars == <<catalogVars, importData, reserves>>

ReservationInit ==
    /\ CatalogInit
    /\ imports = <<>>
    /\ importClaims = [k \in Keys |-> {}]
    /\ reserves = [r \in Reserves |->
         [pc |-> "call", key |-> CHOOSE k \in Keys : TRUE, body |-> <<"plain", 0>>,
          link |-> 0, accepted |-> 0, answer |-> 0]]

ReserveAt(r, pc) == reserves' = [reserves EXCEPT ![r].pc = pc]
ReserveLock(r) == <<"import", reserves[r].key>>
Targeted(r) == reserves[r].body[1] = "targeted"

\* A valid and authorized request; its target, if any, exists.
ReserveCall(r) ==
    /\ reserves[r].pc = "call"
    /\ \E k \in ImportKeys, kind \in Kinds :
       \E target \in IF kind = "targeted" THEN DOMAIN repositories ELSE {0} :
          reserves' = [reserves EXCEPT ![r].pc = "replay", ![r].key = k,
                                       ![r].body = <<kind, target>>]
    /\ UNCHANGED <<catalogVars, importData>>

\* Mutant: the claim's fingerprint is not compared.
ReplayAny(r, claim) ==
    reserves' = [reserves EXCEPT ![r].pc = "done", ![r].answer = claim.id]

\* The claim's import if the fingerprints agree, a conflict otherwise.
Replay(r, claim) ==
    reserves' = [reserves EXCEPT ![r].pc = "done",
        ![r].answer = IF claim.body = reserves[r].body THEN claim.id ELSE 0]

\* ReplayReservation, before the target is resolved and again when it is not found.
ReplayReservation(r) ==
    /\ reserves[r].pc \in {"replay", "replay_again"}
    /\ \/ \E claim \in importClaims[reserves[r].key] : Replay(r, claim)
       \/ /\ importClaims[reserves[r].key] = {}
          /\ ReserveAt(r, IF reserves[r].pc = "replay_again" THEN "retry"
                          ELSE IF Targeted(r) THEN "resolve" ELSE "begin")
    /\ UNCHANGED <<catalogVars, importData>>

\* The target's active link and the database's time, or a second look.  A link that
\* begins after that time is taken for an error, and the client calls again.
ResolveTarget(r) ==
    LET found == Resolved(reserves[r].body[2]) IN
    /\ reserves[r].pc = "resolve"
    /\ \/ \E i \in found :
             reserves' = [reserves EXCEPT
                 ![r].pc = IF links[i].from <= now THEN "begin" ELSE "retry",
                 ![r].link = i, ![r].accepted = now]
       \/ found = {} /\ ReserveAt(r, "replay_again")
    /\ UNCHANGED <<catalogVars, importData>>

\* The scope's lock, which is tried and not waited for.
ReserveBegin(r) ==
    /\ reserves[r].pc = "begin"
    /\ \/ ReserveLock(r) \in locks /\ ReserveAt(r, "retry") /\ UNCHANGED locks
       \/ /\ ReserveLock(r) \notin locks
          /\ locks' = locks \cup {ReserveLock(r)} /\ ReserveAt(r, "commit")
    /\ UNCHANGED <<now, catalogData, creates, linkings, faults, importData>>

\* With the lock held: a claim that is there is replayed.  Otherwise it is
\* inserted, and rolled back if the request exceeds the limit or names an unknown
\* application, or committed with the import, its context and its artifact.
ReserveCommit(r) ==
    LET key == reserves[r].key
        body == reserves[r].body
        id == Len(imports) + 1
    IN
    /\ reserves[r].pc = "commit"
    /\ locks' = locks \ {ReserveLock(r)}
    /\ \/ /\ \E claim \in importClaims[key] : Replay(r, claim)
          /\ UNCHANGED <<importData, faults>>
       \/ /\ importClaims[key] = {} /\ body[1] \in {"too_large", "no_application"}
          /\ ReserveAt(r, "done")
          /\ UNCHANGED <<importData, faults>>
       \/ /\ importClaims[key] = {} /\ body[1] \in {"plain", "targeted"}
          /\ imports' = Append(imports, [key |-> key, body |-> body,
                 link |-> reserves[r].link, accepted |-> reserves[r].accepted])
          /\ importClaims' = [importClaims EXCEPT ![key] = {[body |-> body, id |-> id]}]
          /\ \/ /\ reserves' = [reserves EXCEPT ![r].pc = "done", ![r].answer = id]
                /\ UNCHANGED faults
             \/ ReserveAt(r, "retry") /\ Fault
    /\ UNCHANGED <<now, catalogData, creates, linkings>>

\* Mutant: the lock belongs to the session and survives the roll-back.
ReserveFailsLocked(r) ==
    /\ reserves[r].pc \in {"replay", "resolve", "commit"}
    /\ ReserveAt(r, "retry") /\ Fault
    /\ UNCHANGED <<now, catalogData, locks, creates, linkings, importData>>

\* A statement fails or the server dies: the transaction rolls back.
ReserveFails(r) ==
    /\ reserves[r].pc \in {"replay", "resolve", "commit"}
    /\ ReserveAt(r, "retry") /\ Fault
    /\ locks' = IF reserves[r].pc = "commit" THEN locks \ {ReserveLock(r)} ELSE locks
    /\ UNCHANGED <<now, catalogData, creates, linkings, importData>>

\* The client calls again; link and acceptance are resolved anew.
ReserveRetry(r) ==
    /\ reserves[r].pc = "retry"
    /\ reserves' = [reserves EXCEPT ![r].pc = "replay", ![r].link = 0, ![r].accepted = 0]
    /\ UNCHANGED <<catalogVars, importData>>

ReserveStep(r) ==
    \/ ReserveCall(r) \/ ReplayReservation(r) \/ ResolveTarget(r)
    \/ ReserveBegin(r) \/ ReserveCommit(r) \/ ReserveRetry(r)

ReservationNext ==
    \/ CatalogNext /\ UNCHANGED <<importData, reserves>>
    \/ \E r \in Reserves : ReserveStep(r) \/ ReserveFails(r)

\* Requests run to their end, clients without an answer call again, time passes.
ReservationFairness ==
    /\ \A c \in Creates : WF_reservationVars(CreateStep(c) /\ UNCHANGED <<importData, reserves>>)
    /\ \A l \in Links : WF_reservationVars(LinkStep(l) /\ UNCHANGED <<importData, reserves>>)
    /\ \A r \in Reserves : WF_reservationVars(ReserveStep(r))
    /\ WF_reservationVars(Tick /\ UNCHANGED <<importData, reserves>>)

ReservationSpec ==
    ReservationInit /\ [][ReservationNext]_reservationVars /\ ReservationFairness

-----------------------------------------------------------------------------
(* Properties                                                              *)

OneRowPerKey(rows) == \A i, j \in DOMAIN rows : rows[i].key = rows[j].key => i = j
AnsweredBy(client, body, row) == row.key = client.key /\ row.body = body

\* One idempotency key makes at most one repository and one import, whatever
\* concurrent requests, failures and lost answers there were, and every answer
\* under the key is that one, given only to a request with the same body.
KeyNamesOneResult ==
    /\ OneRowPerKey(repositories) /\ OneRowPerKey(imports)
    /\ \A c \in Creates : creates[c].answer # 0 =>
          AnsweredBy(creates[c], c, repositories[creates[c].answer])
    /\ \A r \in Reserves : reserves[r].answer # 0 =>
          AnsweredBy(reserves[r], reserves[r].body, imports[reserves[r].answer])

\* The analysis context of an import names a link of the very repository the
\* client asked for that was in force at the acceptance time it records, even if
\* the link ended before the import was committed.
ContextTruthful ==
    \A i \in DOMAIN imports : imports[i].body[1] = "targeted" =>
        LET link == links[imports[i].link] IN
        /\ link.repository = imports[i].body[2]
        /\ link.from <= imports[i].accepted
        /\ link.until = 0 \/ imports[i].accepted <= link.until

Answerable(r) == ~Targeted(r) \/ Active(reserves[r].body[2]) # {}

\* A client that keeps calling gets its definite answer in the end: neither lost
\* answers nor the lock of another request, nor a link dated by a fast clock, can
\* hold it off for ever, as long as the target it names stays linked.
RetriesConverge ==
    /\ \A c \in Creates : <>(creates[c].pc = "done")
    /\ \A l \in Links : <>(linkings[l].pc = "done")
    /\ \A r \in Reserves : <>[]Answerable(r) => <>(reserves[r].pc = "done")
=============================================================================
