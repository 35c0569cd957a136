----------------------- MODULE ImportReservationProofs -----------------------
(***************************************************************************)
(* The safety properties of ImportReservation, with the catalog it builds  *)
(* on, for any number of clients, keys, repositories and faults.           *)
(***************************************************************************)
EXTENDS ImportReservation, TLAPS

CreateClient == [pc : {"begin", "commit", "done"}, key : Keys, answer : Nat]
ReserveBody == (Kinds \cup {"plain"}) \X Nat
ReserveClient ==
    [pc : {"call", "replay", "replay_again", "resolve", "begin", "commit", "retry", "done"},
     key : Keys, body : ReserveBody, link : Nat, accepted : Nat, answer : Nat]
Repository == [key : Keys, body : Creates]
Link == [repository : Nat, from : Nat, until : Nat]
Import == [key : Keys, body : ReserveBody, link : Nat, accepted : Nat]
LinkClient == [pc : {"call", "insert", "select", "done"}, repository : Nat, answer : Nat]

ReservationTypes ==
    /\ now \in Nat /\ now >= Skew
    /\ repositories \in Seq(Repository) /\ links \in Seq(Link) /\ imports \in Seq(Import)
    /\ DOMAIN repositoryClaims = Keys /\ DOMAIN importClaims = Keys
    /\ creates \in [Creates -> CreateClient]
    /\ linkings \in [Links -> LinkClient]
    /\ reserves \in [Reserves -> ReserveClient]

(* Claims and rows name each other, so a key without a claim has no row. *)
Claimed(rows, claims) ==
    /\ \A k \in Keys : \A claim \in claims[k] :
          /\ claim.id \in DOMAIN rows
          /\ rows[claim.id].key = k /\ rows[claim.id].body = claim.body
    /\ \A i \in DOMAIN rows : rows[i].key \in Keys /\ claims[rows[i].key] # {}
    /\ OneRowPerKey(rows)

(* A link that was in force for the repository at some past time. *)
TrueLink(i, repository, at) ==
    /\ i \in DOMAIN links /\ links[i].repository = repository
    /\ links[i].from <= at /\ at <= now
    /\ links[i].until = 0 \/ at <= links[i].until

CreateInv(c) ==
    creates[c].answer # 0 =>
        /\ creates[c].pc = "done" /\ creates[c].answer \in DOMAIN repositories
        /\ AnsweredBy(creates[c], c, repositories[creates[c].answer])
ReserveInv(r) ==
    /\ reserves[r].answer # 0 =>
          /\ reserves[r].pc = "done" /\ reserves[r].answer \in DOMAIN imports
          /\ AnsweredBy(reserves[r], reserves[r].body, imports[reserves[r].answer])
    /\ Targeted(r) /\ reserves[r].pc \in {"begin", "commit"} =>
          TrueLink(reserves[r].link, reserves[r].body[2], reserves[r].accepted)
ContextInv(i) ==
    imports[i].body[1] = "targeted" =>
        TrueLink(imports[i].link, imports[i].body[2], imports[i].accepted)

ReservationInv ==
    /\ ReservationTypes
    /\ Claimed(repositories, repositoryClaims) /\ Claimed(imports, importClaims)
    /\ \A c \in Creates : CreateInv(c)
    /\ \A r \in Reserves : ReserveInv(r)
    /\ \A i \in DOMAIN imports : ContextInv(i)

-----------------------------------------------------------------------------
(* Rows and claims. *)

(* A row and its claim are added under a key that has no claim. *)
LEMMA ClaimAdded ==
    ASSUME NEW R, NEW rows \in Seq(R), NEW claims, DOMAIN claims = Keys,
           Claimed(rows, claims), NEW k \in Keys, claims[k] = {},
           NEW row \in R, row.key = k, NEW body, body = row.body
    PROVE  Claimed(Append(rows, row),
                   [claims EXCEPT ![k] = {[body |-> body, id |-> Len(rows) + 1]}])
  <1> DEFINE more == Append(rows, row)
             claim == [body |-> body, id |-> Len(rows) + 1]
             after == [claims EXCEPT ![k] = {claim}]
  <1>1. /\ Len(rows) \in Nat /\ DOMAIN rows = 1..Len(rows)
        /\ DOMAIN more = 1..(Len(rows) + 1)
        /\ \A i \in 1..Len(rows) : more[i] = rows[i]
        /\ more[Len(rows) + 1] = row
    OBVIOUS
  <1>2. claim.id = Len(rows) + 1 /\ claim.body = body
    OBVIOUS
  <1>3. after[k] = {claim} /\ \A l \in Keys : l # k => after[l] = claims[l]
    OBVIOUS
  <1>4. \A i \in DOMAIN rows : rows[i].key \in Keys /\ rows[i].key # k
    BY DEF Claimed
  <1> HIDE DEF more, claim, after
  <1>5. \A l \in Keys : \A d \in after[l] :
          d.id \in DOMAIN more /\ more[d.id].key = l /\ more[d.id].body = d.body
    <2>1. ASSUME NEW d \in after[k]
          PROVE  d.id \in DOMAIN more /\ more[d.id].key = k /\ more[d.id].body = d.body
      BY <1>1, <1>2, <1>3
    <2>2. ASSUME NEW l \in Keys, l # k, NEW d \in after[l]
          PROVE  d.id \in DOMAIN more /\ more[d.id].key = l /\ more[d.id].body = d.body
      BY <1>1, <1>3, <2>2 DEF Claimed
    <2>3. QED
      BY <2>1, <2>2
  <1>6. \A i \in DOMAIN more : more[i].key \in Keys /\ after[more[i].key] # {}
    BY <1>1, <1>3, <1>4, SMTT(60) DEF Claimed
  <1>7. OneRowPerKey(more)
    BY <1>1, <1>4 DEF Claimed, OneRowPerKey
  <1>8. QED
    BY <1>5, <1>6, <1>7 DEF Claimed, more, after, claim

(* Links are only added, and end at the present. *)
LinksGoOn ==
    /\ now' \in Nat /\ now <= now' /\ links' \in Seq(Link)
    /\ \A i \in DOMAIN links :
          /\ i \in DOMAIN links' /\ links'[i].repository = links[i].repository
          /\ links'[i].from = links[i].from
          /\ links'[i].until = links[i].until \/ (links[i].until = 0 /\ links'[i].until = now)

(* A link that was valid at a time stays one that was: links are only       *)
(* ended, and not in the past.                                              *)
LEMMA TrueLinkStays ==
    ASSUME ReservationTypes, LinksGoOn, NEW i, NEW repository, NEW at \in Nat,
           TrueLink(i, repository, at)
    PROVE  TrueLink(i, repository, at)'
  <1>1. i \in DOMAIN links /\ links[i] \in Link /\ i \in DOMAIN links' /\ links'[i] \in Link
    BY DEF ReservationTypes, LinksGoOn, TrueLink
  <1>2. /\ links[i].from \in Nat /\ links[i].until \in Nat
        /\ links'[i].from \in Nat /\ links'[i].until \in Nat /\ now \in Nat
    BY <1>1 DEF Link, ReservationTypes
  <1>3. QED
    BY <1>1, <1>2 DEF TrueLink, LinksGoOn

(* Links that do not change go on. *)
LEMMA LinksStay ==
    ASSUME ReservationTypes, UNCHANGED <<now, links>>
    PROVE  LinksGoOn
  BY DEF ReservationTypes, LinksGoOn

(* What a step of the catalog leaves to the reservations. *)
LEMMA ReservationsStay ==
    ASSUME ReservationInv, LinksGoOn, UNCHANGED <<imports, importClaims, reserves>>
    PROVE  /\ Claimed(imports, importClaims)'
           /\ \A r \in Reserves : ReserveInv(r)'
           /\ \A i \in DOMAIN imports' : ContextInv(i)'
  <1>1. Claimed(imports, importClaims)'
    BY DEF ReservationInv
  <1>2. ASSUME NEW r \in Reserves PROVE ReserveInv(r)'
    <2>1. ReserveInv(r) /\ ReservationTypes
      BY DEF ReservationInv
    <2>2. reserves[r].accepted \in Nat
      BY DEF ReservationInv, ReservationTypes, ReserveClient
    <2>3. TrueLink(reserves[r].link, reserves[r].body[2], reserves[r].accepted) =>
            TrueLink(reserves[r].link, reserves[r].body[2], reserves[r].accepted)'
      <3> PICK link : link = reserves[r].link
        OBVIOUS
      <3> PICK repository : repository = reserves[r].body[2]
        OBVIOUS
      <3> PICK at \in Nat : at = reserves[r].accepted
        BY <2>2
      <3>1. TrueLink(link, repository, at) => TrueLink(link, repository, at)'
        BY <2>1, TrueLinkStays
      <3>2. QED
        BY <3>1 DEF TrueLink
    <2>4. QED
      BY <2>1, <2>3 DEF ReserveInv, Targeted, AnsweredBy
  <1>3. ASSUME NEW i \in DOMAIN imports PROVE ContextInv(i)'
    <2>1. ContextInv(i) /\ ReservationTypes
      BY DEF ReservationInv
    <2>2. imports[i].accepted \in Nat
      <3>1. imports[i] \in Import
        BY <2>1 DEF ReservationTypes
      <3>2. QED
        BY <3>1 DEF Import
    <2>3. TrueLink(imports[i].link, imports[i].body[2], imports[i].accepted) =>
            TrueLink(imports[i].link, imports[i].body[2], imports[i].accepted)'
      <3> PICK link : link = imports[i].link
        OBVIOUS
      <3> PICK repository : repository = imports[i].body[2]
        OBVIOUS
      <3> PICK at \in Nat : at = imports[i].accepted
        BY <2>2
      <3>1. TrueLink(link, repository, at) => TrueLink(link, repository, at)'
        BY <2>1, TrueLinkStays
      <3>2. QED
        BY <3>1 DEF TrueLink
    <2>4. QED
      BY <2>1, <2>3 DEF ContextInv
  <1>4. QED
    BY <1>1, <1>2, <1>3

-----------------------------------------------------------------------------
(* The steps of the catalog. *)

(* A step that moves one creator of a repository, adds at most rows, and    *)
(* keeps the claims right keeps the rest.                                   *)
LEMMA CreateRest ==
    ASSUME ReservationInv, NEW c \in Creates, NEW client \in CreateClient,
           creates' = [creates EXCEPT ![c] = client],
           repositories' \in Seq(Repository), DOMAIN repositoryClaims' = Keys,
           \A i \in DOMAIN repositories : /\ i \in DOMAIN repositories'
                                          /\ repositories'[i] = repositories[i],
           Claimed(repositories, repositoryClaims)',
           client.answer # 0 =>
               /\ client.pc = "done" /\ client.answer \in DOMAIN repositories'
               /\ AnsweredBy(client, c, repositories'[client.answer]),
           UNCHANGED <<now, links, linkings, imports, importClaims, reserves>>
    PROVE  ReservationInv'
  <1>1. ReservationTypes
    BY DEF ReservationInv
  <1>2. /\ creates' \in [Creates -> CreateClient] /\ creates'[c] = client
        /\ \A d \in Creates : d # c => creates'[d] = creates[d]
    BY <1>1 DEF ReservationTypes
  <1>3. ReservationTypes'
    BY <1>1, <1>2 DEF ReservationTypes
  <1>4. \A d \in Creates : CreateInv(d)'
    BY <1>2 DEF ReservationInv, CreateInv, AnsweredBy
  <1>5. QED
    BY <1>1, <1>3, <1>4, LinksStay, ReservationsStay DEF ReservationInv

(* The fields of a creator. *)
LEMMA CreateFields ==
    ASSUME ReservationInv, NEW c \in Creates
    PROVE  /\ creates \in [Creates -> CreateClient] /\ creates[c] \in CreateClient
           /\ creates[c].key \in Keys /\ creates[c].pc \in {"begin", "commit", "done"}
           /\ creates[c].pc # "done" => creates[c].answer = 0
  <1>1. creates \in [Creates -> CreateClient] /\ creates[c] \in CreateClient
    BY DEF ReservationInv, ReservationTypes
  <1>2. QED
    BY <1>1 DEF ReservationInv, CreateClient, CreateInv

(* A creator goes on without an answer. *)
LEMMA CreateMoves ==
    ASSUME ReservationInv, NEW c \in Creates, NEW pc \in {"begin", "commit"},
           creates[c].pc # "done", CreateAt(c, pc)
    PROVE  \E client \in CreateClient :
               creates' = [creates EXCEPT ![c] = client] /\ client.answer = 0
  <1> DEFINE client == [creates[c] EXCEPT !.pc = pc]
  <1>1. client \in CreateClient /\ client.answer = 0
    BY CreateFields DEF CreateClient
  <1>2. creates' = [creates EXCEPT ![c] = client]
    BY CreateFields DEF CreateAt
  <1>3. QED
    BY <1>1, <1>2, Zenon

(* CreateRepository begins, or fails and is retried. *)
LEMMA CreateKeeps ==
    ASSUME ReservationInv, UNCHANGED <<importData, reserves>>, NEW c \in Creates,
           CreateBegin(c) \/ CreateFails(c)
    PROVE  ReservationInv'
  <1>1. /\ UNCHANGED <<now, repositories, repositoryClaims, links, linkings>>
        /\ creates[c].pc # "done"
        /\ creates' = creates \/ \E pc \in {"begin", "commit"} : CreateAt(c, pc)
    BY DEF CreateBegin, CreateFails, catalogData
  <1>2. PICK client \in CreateClient :
          creates' = [creates EXCEPT ![c] = client] /\ client.answer = 0
    <2>1. CASE creates' = creates
      BY <1>1, <2>1, CreateFields
    <2>2. CASE \E pc \in {"begin", "commit"} : CreateAt(c, pc)
      BY <1>1, <2>2, CreateMoves
    <2>3. QED
      BY <1>1, <2>1, <2>2
  <1>3. /\ Claimed(repositories, repositoryClaims)' /\ repositories' \in Seq(Repository)
        /\ DOMAIN repositoryClaims' = Keys
    BY <1>1 DEF ReservationInv, ReservationTypes
  <1>4. QED
    BY <1>1, <1>2, <1>3, CreateRest, Zenon DEF importData

(* CreateRepository commits the repository with its claim, or replays the   *)
(* answer of the claim it finds.                                            *)
LEMMA CreateCommitKeeps ==
    ASSUME ReservationInv, UNCHANGED <<importData, reserves>>, NEW c \in Creates,
           CreateCommit(c)
    PROVE  ReservationInv'
  <1> DEFINE key == creates[c].key
             id == Len(repositories) + 1
             row == [key |-> key, body |-> c]
  <1>1. /\ UNCHANGED <<now, links, linkings, imports, importClaims, reserves>>
        /\ creates[c].pc # "done" /\ repositories \in Seq(Repository)
        /\ DOMAIN repositoryClaims = Keys /\ Claimed(repositories, repositoryClaims)
    BY DEF CreateCommit, importData, ReservationInv, ReservationTypes
  <1>2. CASE /\ \E k \in repositoryClaims[key] :
                   creates' = [creates EXCEPT ![c].pc = "done",
                       ![c].answer = IF k.body = c THEN k.id ELSE 0]
             /\ UNCHANGED <<repositories, repositoryClaims>>
    <2>1. PICK k \in repositoryClaims[key] :
            creates' = [creates EXCEPT ![c].pc = "done",
                ![c].answer = IF k.body = c THEN k.id ELSE 0]
      BY <1>2, Zenon
    <2>2. /\ k.id \in DOMAIN repositories /\ repositories[k.id].key = key
          /\ repositories[k.id].body = k.body /\ k.id \in Nat
      BY <1>1, CreateFields DEF Claimed
    <2> DEFINE client == [creates[c] EXCEPT !.pc = "done",
                              !.answer = IF k.body = c THEN k.id ELSE 0]
    <2>3. client \in CreateClient
      BY <2>2, CreateFields, Zenon DEF CreateClient
    <2>4. /\ client.pc = "done" /\ client.key = key
          /\ client.answer = IF k.body = c THEN k.id ELSE 0
      BY CreateFields DEF CreateClient
    <2>5. creates' = [creates EXCEPT ![c] = client]
      BY <2>1, CreateFields, Zenon
    <2> HIDE DEF client
    <2>6. client.answer # 0 =>
            /\ client.pc = "done" /\ client.answer \in DOMAIN repositories'
            /\ AnsweredBy(client, c, repositories'[client.answer])
      BY <1>2, <2>2, <2>4 DEF AnsweredBy
    <2>7. QED
      BY <1>1, <1>2, <2>3, <2>5, <2>6, CreateRest, Zenon
  <1>3. CASE /\ repositoryClaims[key] = {} /\ repositories' = Append(repositories, row)
             /\ repositoryClaims' = [repositoryClaims EXCEPT ![key] = {[body |-> c, id |-> id]}]
             /\ \/ creates' = [creates EXCEPT ![c].pc = "done", ![c].answer = id]
                \/ CreateAt(c, "begin")
    <2>1. row \in Repository /\ row.key = key /\ row.body = c /\ key \in Keys
      BY CreateFields DEF Repository
    <2> HIDE DEF row
    <2>2. /\ repositories' \in Seq(Repository) /\ DOMAIN repositoryClaims' = Keys
          /\ \A i \in DOMAIN repositories : /\ i \in DOMAIN repositories'
                                            /\ repositories'[i] = repositories[i]
          /\ id \in DOMAIN repositories' /\ repositories'[id] = row /\ id \in Nat
      BY <1>1, <1>3, <2>1
    <2>3. Claimed(repositories, repositoryClaims)'
      BY <1>1, <1>3, <2>1, ClaimAdded, Zenon
    <2>4. CASE creates' = [creates EXCEPT ![c].pc = "done", ![c].answer = id]
      <3> DEFINE client == [creates[c] EXCEPT !.pc = "done", !.answer = id]
      <3>1. client \in CreateClient
        BY <2>2, CreateFields, ZenonT(60) DEF CreateClient
      <3>2. client.pc = "done" /\ client.key = key /\ client.answer = id
        BY CreateFields DEF CreateClient
      <3>3. creates' = [creates EXCEPT ![c] = client]
        BY <2>4, CreateFields, Zenon
      <3> HIDE DEF client, id
      <3>4. /\ client.pc = "done" /\ client.answer \in DOMAIN repositories'
            /\ AnsweredBy(client, c, repositories'[client.answer])
        BY <2>1, <2>2, <3>2 DEF AnsweredBy
      <3>5. QED
        BY <1>1, <2>2, <2>3, <3>1, <3>3, <3>4, CreateRest, Zenon
    <2>5. CASE CreateAt(c, "begin")
      <3>1. PICK client \in CreateClient :
              creates' = [creates EXCEPT ![c] = client] /\ client.answer = 0
        BY <1>1, <2>5, CreateMoves
      <3>2. QED
        BY <1>1, <2>2, <2>3, <3>1, CreateRest, Zenon
    <2>6. QED
      BY <1>3, <2>4, <2>5
  <1>4. QED
    BY <1>2, <1>3 DEF CreateCommit

(* A step on links leaves repositories, imports and their claims alone. *)
LEMMA LinkRest ==
    ASSUME ReservationInv, LinksGoOn, linkings' \in [Links -> LinkClient], now' >= Skew,
           UNCHANGED <<repositories, repositoryClaims, creates, imports, importClaims, reserves>>
    PROVE  ReservationInv'
  <1>1. ReservationTypes'
    BY DEF ReservationInv, ReservationTypes, LinksGoOn
  <1>2. /\ Claimed(repositories, repositoryClaims)'
        /\ \A c \in Creates : CreateInv(c)'
    BY DEF ReservationInv, CreateInv
  <1>3. QED
    BY <1>1, <1>2, ReservationsStay DEF ReservationInv

(* One linker moves. *)
LEMMA LinkMoves ==
    ASSUME ReservationInv, NEW l \in Links, NEW client \in LinkClient,
           linkings' = [linkings EXCEPT ![l] = client]
    PROVE  linkings' \in [Links -> LinkClient]
  BY DEF ReservationInv, ReservationTypes

(* The ways a linker moves. *)
LEMMA LinkMoved ==
    ASSUME ReservationInv, NEW l \in Links
    PROVE  /\ linkings[l] \in LinkClient
           /\ \A pc \in {"insert", "select"} : LinkAt(l, pc) => linkings' \in [Links -> LinkClient]
           /\ \A id \in Nat : LinkEnds(l, id) => linkings' \in [Links -> LinkClient]
           /\ \A r \in Nat : linkings' = [linkings EXCEPT ![l].pc = "insert", ![l].repository = r] =>
                  linkings' \in [Links -> LinkClient]
  <1>1. linkings \in [Links -> LinkClient] /\ linkings[l] \in LinkClient
    BY DEF ReservationInv, ReservationTypes
  <1>2. ASSUME NEW pc \in {"insert", "select"}, LinkAt(l, pc)
        PROVE  linkings' \in [Links -> LinkClient]
    <2> DEFINE client == [linkings[l] EXCEPT !.pc = pc]
    <2>1. client \in LinkClient
      BY <1>1 DEF LinkClient
    <2>2. linkings' = [linkings EXCEPT ![l] = client]
      BY <1>1, <1>2 DEF LinkAt
    <2>3. QED
      BY <2>1, <2>2, LinkMoves, Zenon
  <1>3. ASSUME NEW id \in Nat, LinkEnds(l, id)
        PROVE  linkings' \in [Links -> LinkClient]
    <2> DEFINE client == [linkings[l] EXCEPT !.pc = "done", !.answer = id]
    <2>1. client \in LinkClient
      BY <1>1, Zenon DEF LinkClient
    <2>2. linkings' = [linkings EXCEPT ![l] = client]
      BY <1>1, <1>3, Zenon DEF LinkEnds
    <2>3. QED
      BY <2>1, <2>2, LinkMoves, Zenon
  <1>4. ASSUME NEW r \in Nat,
               linkings' = [linkings EXCEPT ![l].pc = "insert", ![l].repository = r]
        PROVE  linkings' \in [Links -> LinkClient]
    <2> DEFINE client == [linkings[l] EXCEPT !.pc = "insert", !.repository = r]
    <2>1. client \in LinkClient
      BY <1>1, Zenon DEF LinkClient
    <2>2. linkings' = [linkings EXCEPT ![l] = client]
      BY <1>1, <1>4, Zenon
    <2>3. QED
      BY <2>1, <2>2, LinkMoves, Zenon
  <1>5. QED
    BY <1>1, <1>2, <1>3, <1>4

(* Linking a repository, found or inserted. *)
LEMMA LinkKeeps ==
    ASSUME ReservationInv, UNCHANGED <<importData, reserves>>, NEW l \in Links, LinkStep(l)
    PROVE  ReservationInv'
  <1>1. /\ ReservationTypes /\ linkings[l] \in LinkClient /\ Len(links) \in Nat
        /\ UNCHANGED <<now, repositories, repositoryClaims, creates, imports, importClaims, reserves>>
        /\ now' >= Skew
    BY LinkMoved DEF ReservationInv, ReservationTypes, LinkStep, LinkCall, LinkInsert,
       LinkSelect,
       importData, catalogData
  <1>2. CASE LinkCall(l)
    <2>1. linkings' \in [Links -> LinkClient]
      <3>1. PICK r \in DOMAIN repositories :
              linkings' = [linkings EXCEPT ![l].pc = "insert", ![l].repository = r]
        BY <1>2, Zenon DEF LinkCall
      <3>2. r \in Nat
        BY <1>1 DEF ReservationTypes
      <3>3. QED
        BY <3>1, <3>2, LinkMoved, Zenon
    <2>2. LinksGoOn
      BY <1>1, <1>2, LinksStay, Zenon DEF LinkCall, catalogData
    <2>3. QED
      BY <1>1, <2>1, <2>2, LinkRest
  <1>3. CASE LinkInsert(l)
    <2>1. CASE UNCHANGED links /\ LinkAt(l, "select")
      <3>1. linkings' \in [Links -> LinkClient]
        BY <2>1, LinkMoved, Zenon
      <3>2. QED
        BY <1>1, <2>1, <3>1, LinksStay, LinkRest
    <2>2. CASE /\ \E from \in {t \in (now - Skew) .. (now + Skew) : t <= MaxTime} :
                    links' = Append(links, [repository |-> linkings[l].repository,
                                            from |-> from, until |-> 0])
               /\ LinkEnds(l, Len(links')) \/ LinkAt(l, "insert")
      <3>1. PICK from \in (now - Skew) .. (now + Skew) :
              links' = Append(links, [repository |-> linkings[l].repository,
                                      from |-> from, until |-> 0])
        BY <2>2
      <3> DEFINE link == [repository |-> linkings[l].repository, from |-> from, until |-> 0]
      <3>2. link \in Link
        <4>1. linkings[l].repository \in Nat
          BY <1>1 DEF LinkClient
        <4>2. from \in Nat
          BY <1>1, CatalogConstants DEF ReservationTypes
        <4>3. QED
          BY <4>1, <4>2 DEF Link
      <3>3. links' = Append(links, link)
        BY <3>1
      <3> HIDE DEF link
      <3>4. /\ links' \in Seq(Link) /\ Len(links') \in Nat
            /\ \A i \in DOMAIN links : i \in DOMAIN links' /\ links'[i] = links[i]
        BY <1>1, <3>2, <3>3 DEF ReservationTypes
      <3>5. LinksGoOn
        BY <1>1, <3>4 DEF LinksGoOn, ReservationTypes
      <3>6. linkings' \in [Links -> LinkClient]
        BY <2>2, <3>4, LinkMoved, Zenon
      <3>7. QED
        BY <1>1, <3>5, <3>6, LinkRest
    <2>3. QED
      BY <1>3, <2>1, <2>2, Zenon DEF LinkInsert
  <1>4. CASE LinkSelect(l)
    <2>1. linkings' \in [Links -> LinkClient]
      <3>1. 0 \in Nat /\ \A i \in DOMAIN links : i \in Nat
        BY <1>1 DEF ReservationTypes
      <3>2. QED
        BY <1>4, <3>1, LinkMoved, Zenon DEF LinkSelect, Active
    <2>2. LinksGoOn
      BY <1>1, <1>4, LinksStay DEF LinkSelect, catalogData
    <2>3. QED
      BY <1>1, <2>1, <2>2, LinkRest
  <1>5. QED
    BY <1>2, <1>3, <1>4 DEF LinkStep

(* A link ends now, not in the past. *)
LEMMA EndLinkKeeps ==
    ASSUME ReservationInv, UNCHANGED <<importData, reserves>>, NEW i \in DOMAIN links, EndLink(i)
    PROVE  ReservationInv'
  <1>1. ReservationTypes /\ now \in Nat
    BY DEF ReservationInv, ReservationTypes
  <1> DEFINE link == [links[i] EXCEPT !.until = now]
  <1>2. /\ link \in Link /\ link.repository = links[i].repository
        /\ link.from = links[i].from /\ link.until = now
    <2>1. links[i] \in Link
      BY <1>1 DEF ReservationTypes
    <2>2. QED
      BY <1>1, <2>1 DEF Link
  <1>3. links' = [links EXCEPT ![i] = link]
    BY <1>1 DEF EndLink, ReservationTypes
  <1> HIDE DEF link
  <1>4. /\ links' \in Seq(Link) /\ DOMAIN links' = DOMAIN links /\ links'[i] = link
        /\ \A j \in DOMAIN links : j # i => links'[j] = links[j]
    BY <1>1, <1>2, <1>3 DEF ReservationTypes
  <1>5. LinksGoOn
    BY <1>1, <1>2, <1>4 DEF LinksGoOn, EndLink
  <1>6. QED
    BY <1>1, <1>5, LinkRest DEF EndLink, importData, ReservationTypes

(* Time goes on. *)
LEMMA TickKeeps ==
    ASSUME ReservationInv, UNCHANGED <<importData, reserves>>, Tick
    PROVE  ReservationInv'
  <1>1. ReservationTypes
    BY DEF ReservationInv
  <1>2. LinksGoOn /\ now' >= Skew
    BY <1>1, CatalogConstants DEF ReservationTypes, LinksGoOn, Tick, catalogData
  <1>3. QED
    BY <1>1, <1>2, LinkRest DEF Tick, catalogData, importData, ReservationTypes

(* Every step of the catalog keeps the invariant. *)
LEMMA CatalogKeeps ==
    ASSUME ReservationInv, CatalogNext, UNCHANGED <<importData, reserves>>
    PROVE  ReservationInv'
  BY CreateKeeps, CreateCommitKeeps, LinkKeeps, EndLinkKeeps, TickKeeps
     DEF CatalogNext, CreateStep

-----------------------------------------------------------------------------
(* The steps of a reservation. *)

CatalogStays == UNCHANGED <<now, repositories, repositoryClaims, links, creates, linkings>>

Answered(client) ==
    client.answer # 0 =>
        /\ client.pc = "done" /\ client.answer \in DOMAIN imports
        /\ AnsweredBy(client, client.body, imports[client.answer])
Resolves(client) ==
    client.body[1] = "targeted" /\ client.pc \in {"begin", "commit"} =>
        TrueLink(client.link, client.body[2], client.accepted)

(* A step that moves one reserving client, adds at most rows, and keeps     *)
(* claims and contexts right keeps the rest.                                *)
LEMMA ReserveRest ==
    ASSUME ReservationInv, CatalogStays, NEW r \in Reserves, NEW client \in ReserveClient,
           reserves' = [reserves EXCEPT ![r] = client],
           imports' \in Seq(Import), DOMAIN importClaims' = Keys,
           \A i \in DOMAIN imports : i \in DOMAIN imports' /\ imports'[i] = imports[i],
           Claimed(imports, importClaims)', \A i \in DOMAIN imports' : ContextInv(i)',
           client.answer # 0 =>
               /\ client.pc = "done" /\ client.answer \in DOMAIN imports'
               /\ AnsweredBy(client, client.body, imports'[client.answer]),
           Resolves(client)
    PROVE  ReservationInv'
  <1>1. ReservationTypes
    BY Zenon DEF ReservationInv
  <1>2. /\ reserves' \in [Reserves -> ReserveClient] /\ reserves'[r] = client
        /\ \A s \in Reserves : s # r => reserves'[s] = reserves[s]
    BY <1>1, Zenon DEF ReservationTypes
  <1>3. ReservationTypes'
    BY <1>1, <1>2, Zenon DEF ReservationTypes, CatalogStays
  <1>4. /\ Claimed(repositories, repositoryClaims)'
        /\ \A c \in Creates : CreateInv(c)'
    BY Zenon DEF ReservationInv, CreateInv, CatalogStays
  <1>5. ReserveInv(r)'
    BY <1>2, Zenon DEF ReserveInv, Targeted, Resolves, TrueLink, CatalogStays
  <1>6. ASSUME NEW s \in Reserves, s # r PROVE ReserveInv(s)'
    <2>1. ReserveInv(s) /\ reserves'[s] = reserves[s]
      BY <1>2, <1>6 DEF ReservationInv
    <2>2. QED
      BY <2>1 DEF ReserveInv, Targeted, TrueLink, CatalogStays, AnsweredBy
  <1>7. QED
    BY <1>3, <1>4, <1>5, <1>6 DEF ReservationInv

(* A reserving client goes on without a new row. *)
LEMMA ReserveMoves ==
    ASSUME ReservationInv, CatalogStays, UNCHANGED importData, NEW r \in Reserves,
           NEW client \in ReserveClient, reserves' = [reserves EXCEPT ![r] = client],
           Answered(client), Resolves(client)
    PROVE  ReservationInv'
  <1>1. /\ imports' \in Seq(Import) /\ DOMAIN importClaims' = Keys
        /\ Claimed(imports, importClaims)' /\ imports' = imports
    BY DEF ReservationInv, ReservationTypes, importData
  <1>2. \A i \in DOMAIN imports' : ContextInv(i)'
    BY <1>1 DEF ReservationInv, ContextInv, TrueLink, CatalogStays
  <1>3. QED
    BY <1>1, <1>2, ReserveRest, Zenon DEF Answered

(* The fields of a reserving client. *)
LEMMA ReserveFields ==
    ASSUME ReservationInv, NEW r \in Reserves
    PROVE  /\ reserves \in [Reserves -> ReserveClient] /\ reserves[r] \in ReserveClient
           /\ reserves[r].key \in Keys /\ reserves[r].body \in ReserveBody
           /\ reserves[r].link \in Nat /\ reserves[r].accepted \in Nat
           /\ reserves[r].pc # "done" => reserves[r].answer = 0
           /\ Resolves(reserves[r])
  <1>1. reserves \in [Reserves -> ReserveClient] /\ reserves[r] \in ReserveClient
    BY DEF ReservationInv, ReservationTypes
  <1>2. ReserveInv(r)
    BY DEF ReservationInv
  <1>3. QED
    BY <1>1, <1>2 DEF ReserveClient, ReserveInv, Resolves, Targeted

(* A move that answers nothing; towards "begin" or "commit" it has its link. *)
LEMMA ReserveGoes ==
    ASSUME ReservationInv, NEW r \in Reserves, reserves[r].pc # "done",
           NEW pc \in {"replay_again", "resolve", "begin", "commit", "retry", "done"},
           pc \in {"begin", "commit"} => ~Targeted(r) \/ reserves[r].pc = "begin",
           ReserveAt(r, pc)
    PROVE  \E client \in ReserveClient :
               /\ reserves' = [reserves EXCEPT ![r] = client]
               /\ client.answer = 0 /\ Resolves(client)
  <1> DEFINE client == [reserves[r] EXCEPT !.pc = pc]
  <1>1. /\ client \in ReserveClient /\ client.answer = 0 /\ client.pc = pc
        /\ client.body = reserves[r].body /\ client.link = reserves[r].link
        /\ client.accepted = reserves[r].accepted
    BY ReserveFields DEF ReserveClient
  <1>2. reserves' = [reserves EXCEPT ![r] = client]
    BY ReserveFields DEF ReserveAt
  <1> HIDE DEF client
  <1>3. Resolves(client)
    BY <1>1, ReserveFields DEF Resolves, Targeted
  <1>4. QED
    BY <1>1, <1>2, <1>3, Zenon

(* A replay answers with the import of the claim, or refuses another body. *)
LEMMA ReplayAnswers ==
    ASSUME ReservationInv, NEW r \in Reserves, NEW claim \in importClaims[reserves[r].key],
           Replay(r, claim)
    PROVE  \E client \in ReserveClient :
               /\ reserves' = [reserves EXCEPT ![r] = client]
               /\ Answered(client) /\ Resolves(client)
  <1> DEFINE client == [reserves[r] EXCEPT !.pc = "done",
                            !.answer = IF claim.body = reserves[r].body THEN claim.id ELSE 0]
  <1>1. /\ claim.id \in DOMAIN imports /\ imports[claim.id].key = reserves[r].key
        /\ imports[claim.id].body = claim.body /\ claim.id \in Nat
    BY ReserveFields DEF ReservationInv, ReservationTypes, Claimed
  <1>2. client \in ReserveClient
    BY <1>1, ReserveFields, ZenonT(60) DEF ReserveClient
  <1>3. /\ client.pc = "done" /\ client.key = reserves[r].key /\ client.body = reserves[r].body
        /\ client.answer = IF claim.body = reserves[r].body THEN claim.id ELSE 0
    BY ReserveFields DEF ReserveClient
  <1>4. reserves' = [reserves EXCEPT ![r] = client]
    BY ReserveFields, Zenon DEF Replay
  <1> HIDE DEF client
  <1>5. Answered(client) /\ Resolves(client)
    BY <1>1, <1>3 DEF Answered, Resolves, AnsweredBy
  <1>6. QED
    BY <1>2, <1>4, <1>5, Zenon

(* A client calls Reserve. *)
LEMMA ReserveCallKeeps ==
    ASSUME ReservationInv, NEW r \in Reserves, ReserveCall(r)
    PROVE  ReservationInv'
  <1>1. /\ CatalogStays /\ UNCHANGED importData /\ reserves[r].pc = "call"
    BY DEF ReserveCall, CatalogStays, catalogVars, catalogData
  <1>2. PICK k \in Keys, kind \in Kinds, target \in DOMAIN repositories \cup {0} :
          reserves' = [reserves EXCEPT ![r].pc = "replay", ![r].key = k,
                                       ![r].body = <<kind, target>>]
    BY ReservationConstants, Zenon DEF ReserveCall
  <1>3. target \in Nat
    BY DEF ReservationInv, ReservationTypes
  <1>4. <<kind, target>> \in ReserveBody
    BY <1>3 DEF ReserveBody
  <1> DEFINE client == [reserves[r] EXCEPT !.pc = "replay", !.key = k, !.body = <<kind, target>>]
  <1>5. client \in ReserveClient /\ client.answer = 0 /\ client.pc = "replay"
    BY <1>1, <1>4, ReserveFields, ZenonT(60) DEF ReserveClient
  <1>6. reserves' = [reserves EXCEPT ![r] = client]
    BY <1>2, ReserveFields, Zenon
  <1> HIDE DEF client
  <1>7. Answered(client) /\ Resolves(client)
    BY <1>5 DEF Answered, Resolves
  <1>8. QED
    BY <1>1, <1>5, <1>6, <1>7, ReserveMoves, Zenon

(* Reserve looks for the claim before it does anything else. *)
LEMMA ReplayReservationKeeps ==
    ASSUME ReservationInv, NEW r \in Reserves, ReplayReservation(r)
    PROVE  ReservationInv'
  <1>1. /\ CatalogStays /\ UNCHANGED importData /\ reserves[r].pc \in {"replay", "replay_again"}
    BY DEF ReplayReservation, CatalogStays, catalogVars, catalogData
  <1>2. PICK client \in ReserveClient :
          /\ reserves' = [reserves EXCEPT ![r] = client]
          /\ Answered(client) /\ Resolves(client)
    <2>1. CASE \E claim \in importClaims[reserves[r].key] : Replay(r, claim)
      BY <2>1, ReplayAnswers
    <2>2. CASE ReserveAt(r, IF reserves[r].pc = "replay_again" THEN "retry"
                            ELSE IF Targeted(r) THEN "resolve" ELSE "begin")
      <3>1. PICK pc \in {"retry", "resolve", "begin"} :
              ReserveAt(r, pc) /\ (pc = "begin" => ~Targeted(r))
        BY <2>2
      <3>2. QED
        BY <1>1, <3>1, ReserveGoes DEF Answered
    <2>3. QED
      BY <2>1, <2>2 DEF ReplayReservation
  <1>3. QED
    BY <1>1, <1>2, ReserveMoves, Zenon

(* Reserve resolves the target to a link valid at the accepted time. *)
LEMMA ResolveTargetKeeps ==
    ASSUME ReservationInv, NEW r \in Reserves, ResolveTarget(r)
    PROVE  ReservationInv'
  <1>1. /\ CatalogStays /\ UNCHANGED importData /\ reserves[r].pc = "resolve"
    BY Zenon DEF ResolveTarget, CatalogStays, catalogVars, catalogData
  <1>2. CASE ReserveAt(r, "replay_again")
    BY <1>1, <1>2, ReserveGoes, ReserveMoves DEF Answered
  <1>3. CASE \E i \in Resolved(reserves[r].body[2]) :
               reserves' = [reserves EXCEPT
                   ![r].pc = IF links[i].from <= now THEN "begin" ELSE "retry",
                   ![r].link = i, ![r].accepted = now]
    <2>1. PICK i \in Resolved(reserves[r].body[2]) :
            reserves' = [reserves EXCEPT
                ![r].pc = IF links[i].from <= now THEN "begin" ELSE "retry",
                ![r].link = i, ![r].accepted = now]
      BY <1>3, Zenon
    <2>2. /\ i \in DOMAIN links /\ i \in Nat /\ now \in Nat
          /\ links[i].repository = reserves[r].body[2]
          /\ links[i].until = 0 /\ links[i].from <= now
      BY DEF Resolved, Active, ReservationInv, ReservationTypes
    <2> DEFINE client == [reserves[r] EXCEPT !.pc = "begin", !.link = i, !.accepted = now]
    <2>3. /\ client \in ReserveClient /\ client.answer = 0 /\ client.link = i
          /\ client.accepted = now /\ client.body = reserves[r].body
      BY <1>1, <2>2, ReserveFields, ZenonT(60) DEF ReserveClient
    <2>4. reserves' = [reserves EXCEPT ![r] = client]
      BY <2>1, <2>2, ReserveFields, Zenon
    <2> HIDE DEF client
    <2>5. Answered(client) /\ Resolves(client)
      BY <2>2, <2>3 DEF Answered, Resolves, TrueLink
    <2>6. QED
      BY <1>1, <2>3, <2>4, <2>5, ReserveMoves, Zenon
  <1>4. QED
    BY <1>2, <1>3, Zenon DEF ResolveTarget

(* Reserve begins its transaction, or fails. *)
LEMMA ReserveKeeps ==
    ASSUME ReservationInv, NEW r \in Reserves, ReserveBegin(r) \/ ReserveFails(r)
    PROVE  ReservationInv'
  <1>1. CatalogStays /\ UNCHANGED importData
    BY DEF ReserveBegin, ReserveFails, CatalogStays, catalogData
  <1>2. PICK pc \in {"commit", "retry"} :
          /\ ReserveAt(r, pc) /\ reserves[r].pc # "done"
          /\ pc = "commit" => reserves[r].pc = "begin"
    BY DEF ReserveBegin, ReserveFails
  <1>3. QED
    BY <1>1, <1>2, ReserveGoes, ReserveMoves DEF Answered

(* A client repeats a request it has no answer for. *)
LEMMA ReserveRetryKeeps ==
    ASSUME ReservationInv, NEW r \in Reserves, ReserveRetry(r)
    PROVE  ReservationInv'
  <1>1. /\ CatalogStays /\ UNCHANGED importData /\ reserves[r].pc = "retry"
    BY DEF ReserveRetry, CatalogStays, catalogVars, catalogData
  <1> DEFINE client == [reserves[r] EXCEPT !.pc = "replay", !.link = 0, !.accepted = 0]
  <1>2. client \in ReserveClient /\ client.answer = 0 /\ client.pc = "replay"
    BY <1>1, ReserveFields, ZenonT(60) DEF ReserveClient
  <1>3. reserves' = [reserves EXCEPT ![r] = client]
    BY ReserveFields, Zenon DEF ReserveRetry
  <1> HIDE DEF client
  <1>4. Answered(client) /\ Resolves(client)
    BY <1>2 DEF Answered, Resolves
  <1>5. QED
    BY <1>1, <1>2, <1>3, <1>4, ReserveMoves, Zenon

(* Reserve commits the import with its claim, or finds that another one     *)
(* has.                                                                     *)
LEMMA ReserveCommitKeeps ==
    ASSUME ReservationInv, NEW r \in Reserves, ReserveCommit(r)
    PROVE  ReservationInv'
  <1> DEFINE key == reserves[r].key
             body == reserves[r].body
             id == Len(imports) + 1
             row == [key |-> key, body |-> body,
                     link |-> reserves[r].link, accepted |-> reserves[r].accepted]
  <1>1. /\ CatalogStays /\ reserves[r].pc = "commit" /\ imports \in Seq(Import)
        /\ DOMAIN importClaims = Keys /\ Claimed(imports, importClaims)
    BY DEF ReserveCommit, CatalogStays, catalogData, ReservationInv, ReservationTypes
  <1>2. CASE UNCHANGED importData /\ \E claim \in importClaims[key] : Replay(r, claim)
    BY <1>1, <1>2, ReplayAnswers, ReserveMoves
  <1>3. CASE UNCHANGED importData /\ ReserveAt(r, "done")
    BY <1>1, <1>3, ReserveGoes, ReserveMoves DEF Answered
  <1>4. CASE /\ importClaims[key] = {} /\ imports' = Append(imports, row)
             /\ importClaims' = [importClaims EXCEPT ![key] = {[body |-> body, id |-> id]}]
             /\ \/ reserves' = [reserves EXCEPT ![r].pc = "done", ![r].answer = id]
                \/ ReserveAt(r, "retry")
    <2>1. /\ row \in Import /\ row.key = key /\ row.body = body /\ key \in Keys
          /\ row.link = reserves[r].link /\ row.accepted = reserves[r].accepted
      BY ReserveFields DEF Import
    <2> HIDE DEF row
    <2>2. /\ imports' \in Seq(Import) /\ DOMAIN importClaims' = Keys
          /\ \A i \in DOMAIN imports : i \in DOMAIN imports' /\ imports'[i] = imports[i]
          /\ id \in DOMAIN imports' /\ imports'[id] = row /\ id \in Nat
          /\ \A i \in DOMAIN imports' : i \in DOMAIN imports \/ i = id
      BY <1>1, <1>4, <2>1
    <2>3. Claimed(imports, importClaims)'
      BY <1>1, <1>4, <2>1, ClaimAdded, Zenon
    <2>4. ASSUME NEW i \in DOMAIN imports' PROVE ContextInv(i)'
      <3>1. CASE i \in DOMAIN imports
        BY <1>1, <2>2, <3>1 DEF ReservationInv, ContextInv, TrueLink, CatalogStays
      <3>2. CASE i = id
        <4>1. row.body[1] = "targeted" => TrueLink(row.link, row.body[2], row.accepted)
          BY <1>1, <2>1, ReserveFields DEF Resolves
        <4>2. imports'[i] = row
          BY <2>2, <3>2
        <4>3. QED
          BY <1>1, <4>1, <4>2 DEF ContextInv, TrueLink, CatalogStays
      <3>3. QED
        BY <2>2, <3>1, <3>2
    <2>5. CASE reserves' = [reserves EXCEPT ![r].pc = "done", ![r].answer = id]
      <3> DEFINE client == [reserves[r] EXCEPT !.pc = "done", !.answer = id]
      <3>1. client \in ReserveClient
        BY <2>2, ReserveFields, ZenonT(60) DEF ReserveClient
      <3>2. /\ client.pc = "done" /\ client.key = key /\ client.body = body
            /\ client.answer = id
        BY ReserveFields DEF ReserveClient
      <3>3. reserves' = [reserves EXCEPT ![r] = client]
        BY <2>5, ReserveFields, Zenon
      <3> HIDE DEF client, id
      <3>4. /\ client.pc = "done" /\ client.answer \in DOMAIN imports'
            /\ AnsweredBy(client, client.body, imports'[client.answer]) /\ Resolves(client)
        BY <2>1, <2>2, <3>2 DEF AnsweredBy, Resolves
      <3>5. QED
        BY <1>1, <2>2, <2>3, <2>4, <3>1, <3>3, <3>4, ReserveRest, Zenon
    <2>6. CASE ReserveAt(r, "retry")
      <3>1. PICK client \in ReserveClient :
              /\ reserves' = [reserves EXCEPT ![r] = client]
              /\ client.answer = 0 /\ Resolves(client)
        BY <1>1, <2>6, ReserveGoes
      <3>2. QED
        BY <1>1, <2>2, <2>3, <2>4, <3>1, ReserveRest, Zenon
    <2>7. QED
      BY <1>4, <2>5, <2>6
  <1>5. QED
    BY <1>2, <1>3, <1>4 DEF ReserveCommit

-----------------------------------------------------------------------------
(* The invariant holds, and the two properties with it. *)

(* Empty tables. *)
LEMMA ReservationStarts == ReservationInit => ReservationInv
  <1> SUFFICES ASSUME ReservationInit PROVE ReservationInv
    OBVIOUS
  <1> USE DEF ReservationInit, CatalogInit
  <1>1. \A k \in Keys : [pc |-> "begin", key |-> k, answer |-> 0] \in CreateClient
    BY DEF CreateClient
  <1>2. [pc |-> "call", repository |-> 0, answer |-> 0] \in LinkClient
    BY DEF LinkClient
  <1>3. [pc |-> "call", key |-> CHOOSE k \in Keys : TRUE, body |-> <<"plain", 0>>,
         link |-> 0, accepted |-> 0, answer |-> 0] \in ReserveClient
    <2>1. (CHOOSE k \in Keys : TRUE) \in Keys
      BY CatalogConstants
    <2>2. <<"plain", 0>> \in ReserveBody
      BY Zenon DEF ReserveBody
    <2>3. QED
      BY <2>1, <2>2 DEF ReserveClient
  <1>4. ReservationTypes
    <2>1. creates \in [Creates -> CreateClient]
      BY <1>1
    <2>2. linkings \in [Links -> LinkClient]
      BY <1>2, Zenon
    <2>3. reserves \in [Reserves -> ReserveClient]
      BY <1>3, Zenon
    <2>4. /\ now \in Nat /\ now >= Skew
          /\ repositories \in Seq(Repository) /\ links \in Seq(Link) /\ imports \in Seq(Import)
          /\ DOMAIN repositoryClaims = Keys /\ DOMAIN importClaims = Keys
      BY CatalogConstants
    <2>5. QED
      BY <2>1, <2>2, <2>3, <2>4, Zenon DEF ReservationTypes
  <1>5. Claimed(repositories, repositoryClaims) /\ Claimed(imports, importClaims)
    BY DEF Claimed, OneRowPerKey
  <1>6. \A c \in Creates : CreateInv(c)
    BY DEF CreateInv
  <1>7. \A r \in Reserves : ReserveInv(r)
    BY DEF ReserveInv
  <1>8. QED
    BY <1>4, <1>5, <1>6, <1>7 DEF ReservationInv

(* The invariant is inductive. *)
LEMMA ReservationGoesOn ==
    ReservationInv /\ [ReservationNext]_reservationVars => ReservationInv'
  <1> SUFFICES ASSUME ReservationInv, [ReservationNext]_reservationVars
               PROVE  ReservationInv'
    OBVIOUS
  <1>1. CASE ReservationNext
    BY <1>1, CatalogKeeps, ReserveCallKeeps, ReplayReservationKeeps, ResolveTargetKeeps,
       ReserveKeeps, ReserveCommitKeeps, ReserveRetryKeeps DEF ReservationNext, ReserveStep
  <1>2. CASE UNCHANGED reservationVars
    BY <1>2 DEF reservationVars, catalogVars, catalogData, importData, ReservationInv,
       ReservationTypes, CreateInv, ReserveInv, ContextInv, TrueLink, Targeted
  <1>3. QED
    BY <1>1, <1>2

(* One idempotency key makes at most one repository and one import, and is     *)
(* answered with it to requests with its body only, for any number of clients, *)
(* keys, failures and lost answers: CreateRepository and Reserve.              *)
THEOREM ReservationKeyNamesOneResult == ReservationSpec => []KeyNamesOneResult
  <1>1. ReservationInv => KeyNamesOneResult
    BY Zenon DEF ReservationInv, KeyNamesOneResult, Claimed, CreateInv, ReserveInv
  <1>2. QED
    BY <1>1, ReservationStarts, ReservationGoesOn, PTL DEF ReservationSpec

(* The context of an import names a link of the requested repository that was *)
(* in force at the acceptance time it records, whatever became of the link    *)
(* between its resolution and the commit of the import.                       *)
THEOREM ReservationContextTruthful == ReservationSpec => []ContextTruthful
  <1>1. ReservationInv => ContextTruthful
    BY DEF ReservationInv, ContextTruthful, ContextInv, TrueLink
  <1>2. QED
    BY <1>1, ReservationStarts, ReservationGoesOn, PTL DEF ReservationSpec
=============================================================================
