----------------------------- MODULE ProfileLinks -----------------------------
(***************************************************************************)
(* Job seekers' profiles and the links between them and the leads of the   *)
(* legacy board (tables profiles and job_profiles).                        *)
(*                                                                         *)
(* A lead belongs to the profile whose sweep found it (its owner link) and *)
(* may be shared with others.  An ingest writes lead and link in one       *)
(* transaction; the requests that share, unshare, describe and seed run    *)
(* their statements one by one, and anything may run in between.  The id   *)
(* of a deleted lead may be given out again.                               *)
(***************************************************************************)
EXTENDS Naturals, FiniteSets

CONSTANTS
  MaxId,      \* bound on the row ids
  Deletable,  \* the ids that may be deleted
  Profiles,   \* the slugs in use
  Fields,     \* the description fields of a profile
  Requests,   \* requests that may be in flight at once
  Ops,        \* the requests that are sent
  NoRow, Idle

Texts == [Fields -> {"", "seed", "human"}]
Kinds == {"share", "unshare", "describe", "seed"}

ProfileLinksAssumption ==
  /\ MaxId \in Nat /\ Deletable \subseteq 1..MaxId
  /\ Ops \subseteq Kinds
  /\ NoRow \notin Profiles \cup Texts

Ids == 1..MaxId

VARIABLES
  lead,     \* id -> the profile column of the lead, NoRow when absent
  link,     \* id -> profile -> "none", "share" or "owner"
  text,     \* profile -> its description, NoRow when it has no row
  requests  \* what each request is about to do

vars == <<lead, link, text, requests>>

Request ==
  [op : Kinds, id : Ids \cup {0}, slug : Profiles, named : SUBSET Fields,
   at : {"ensure", "insert", "write"}]

TypeOK ==
  /\ lead \in [Ids -> Profiles \cup {NoRow}]
  /\ link \in [Ids -> [Profiles -> {"none", "share", "owner"}]]
  /\ text \in [Profiles -> Texts \cup {NoRow}]
  /\ requests \in [Requests -> Request \cup {Idle}]
  /\ \A i \in Ids, p \in Profiles : link[i][p] # "none" => lead[i] # NoRow /\ text[p] # NoRow

Init ==
  /\ lead = [i \in Ids |-> NoRow]
  /\ link = [i \in Ids |-> [p \in Profiles |-> "none"]]
  /\ text = [p \in Profiles |-> NoRow]
  /\ requests = [r \in Requests |-> Idle]

-----------------------------------------------------------------------------

Leads == {i \in Ids : lead[i] # NoRow}
NextId == IF Leads = {} THEN 1 ELSE 1 + CHOOSE i \in Leads : \A j \in Leads : j <= i

Bare == [f \in Fields |-> ""]
Ensured(slug) == IF text[slug] = NoRow THEN [text EXCEPT ![slug] = Bare] ELSE text

\* The owner link of a lead goes to one profile; another owner becomes a share.
OwnerLink(of, slug) ==
  [p \in DOMAIN of |-> IF p = slug THEN "owner" ELSE IF of[p] = "owner" THEN "share" ELSE of[p]]

\* An ingest that adds a lead.
PushNew(slug) ==
  /\ NextId <= MaxId
  /\ lead' = [lead EXCEPT ![NextId] = slug]
  /\ text' = Ensured(slug)
  /\ link' = [link EXCEPT ![NextId] = OwnerLink(@, slug)]
  /\ UNCHANGED requests

\* An ingest that finds a lead of its own profile restates the owner link.
PushAgain(i) ==
  /\ i \in Leads
  /\ link' = [link EXCEPT ![i] = OwnerLink(@, lead[i])]
  /\ UNCHANGED <<lead, text, requests>>

\* ON DELETE CASCADE takes the links along.
Remove(gone) ==
  /\ gone # {} /\ gone \subseteq Leads \cap Deletable
  /\ lead' = [i \in Ids |-> IF i \in gone THEN NoRow ELSE lead[i]]
  /\ link' = [i \in Ids |-> IF i \in gone THEN [p \in Profiles |-> "none"] ELSE link[i]]
  /\ UNCHANGED <<text, requests>>
DeleteJob(i) == Remove({i})
PurgeJobs == Remove(Leads)

-----------------------------------------------------------------------------
(* Requests.                                                               *)

Goes(r, step) == requests' = [requests EXCEPT ![r].at = step]
Ends(r) == requests' = [requests EXCEPT ![r] = Idle]

Begin(r, q) ==
  /\ requests[r] = Idle /\ q.op \in Ops
  /\ requests' = [requests EXCEPT ![r] = q]
  /\ UNCHANGED <<lead, link, text>>

\* LinkJobProfile: the lead is looked up first, then the profile.
Share(r, i, slug) ==
  /\ i \in Leads
  /\ Begin(r, [op |-> "share", id |-> i, slug |-> slug, named |-> {}, at |-> "ensure"])

\* UnlinkJobProfile: the link is read; the owner's is refused, none is a 404.
RefusesNone(how) == how = "none"
RefusesOwner(how) == how \in {"none", "owner"}
Unshare(r, i, slug) ==
  /\ i \in Leads /\ ~RefusesOwner(link[i][slug])
  /\ Begin(r, [op |-> "unshare", id |-> i, slug |-> slug, named |-> {}, at |-> "write"])

\* UpsertProfile names the fields a person writes, SeedProfile writes them all.
Describe(r, slug, named) ==
  Begin(r, [op |-> "describe", id |-> 0, slug |-> slug, named |-> named, at |-> "ensure"])
Seed(r, slug) ==
  Begin(r, [op |-> "seed", id |-> 0, slug |-> slug, named |-> Fields, at |-> "ensure"])

\* ensureProfile selects the profile ...
EnsureSelect(r) ==
  /\ requests[r] # Idle /\ requests[r].at = "ensure"
  /\ Goes(r, IF text[requests[r].slug] = NoRow THEN "insert" ELSE "write")
  /\ UNCHANGED <<lead, link, text>>

\* ... and inserts it in a second statement, which fails when another did.
EnsureInsert(r) ==
  /\ requests[r] # Idle /\ requests[r].at = "insert"
  /\ IF text[requests[r].slug] = NoRow
     THEN text' = Ensured(requests[r].slug) /\ Goes(r, "write")
     ELSE UNCHANGED text /\ Ends(r)
  /\ UNCHANGED <<lead, link>>

Writes(r, op) == requests[r] # Idle /\ requests[r].op = op /\ requests[r].at = "write"

\* The foreign key refuses a link of a lead that is gone.
Unconstrained(i) == TRUE
References(i) == i \in Leads
LinkJobProfile(r) ==
  /\ Writes(r, "share")
  /\ LET q == requests[r] IN
     link' = IF References(q.id) /\ link[q.id][q.slug] = "none"
             THEN [link EXCEPT ![q.id][q.slug] = "share"] ELSE link
  /\ Ends(r)
  /\ UNCHANGED <<lead, text>>

UnlinkJobProfile(r) ==
  /\ Writes(r, "unshare")
  /\ link' = [link EXCEPT ![requests[r].id][requests[r].slug] = "none"]
  /\ Ends(r)
  /\ UNCHANGED <<lead, text>>

Described(row, named) == [f \in Fields |-> IF f \in named THEN "human" ELSE row[f]]
UpsertProfile(r) ==
  /\ Writes(r, "describe")
  /\ text' = [text EXCEPT ![requests[r].slug] = Described(@, requests[r].named)]
  /\ Ends(r)
  /\ UNCHANGED <<lead, link>>

SeededRow(row) == IF \E f \in Fields : row[f] = "" THEN [f \in Fields |-> "seed"] ELSE row
Seeded(row) == [f \in Fields |-> IF row[f] = "" THEN "seed" ELSE row[f]]
SeedProfile(r) ==
  /\ Writes(r, "seed")
  /\ text' = [text EXCEPT ![requests[r].slug] = Seeded(@)]
  /\ Ends(r)
  /\ UNCHANGED <<lead, link>>

\* A restart drops the requests and makes the links agree with the leads: a
\* profile row for every name in use, an owner link where there is no link.
Backfill(i, p) == IF lead[i] = p /\ link[i][p] = "none" THEN "owner" ELSE link[i][p]
Restart ==
  /\ requests' = [r \in Requests |-> Idle]
  /\ link' = [i \in Ids |-> [p \in Profiles |-> Backfill(i, p)]]
  /\ UNCHANGED <<lead, text>>

Next ==
  \/ \E p \in Profiles : PushNew(p)
  \/ \E i \in Ids : PushAgain(i) \/ DeleteJob(i)
  \/ PurgeJobs
  \/ \E r \in Requests, i \in Ids, p \in Profiles : Share(r, i, p) \/ Unshare(r, i, p)
  \/ \E r \in Requests, p \in Profiles :
       Seed(r, p) \/ \E named \in SUBSET Fields : Describe(r, p, named)
  \/ \E r \in Requests :
       \/ EnsureSelect(r) \/ EnsureInsert(r)
       \/ LinkJobProfile(r) \/ UnlinkJobProfile(r) \/ UpsertProfile(r) \/ SeedProfile(r)
  \/ Restart

Spec == Init /\ [][Next]_vars

-----------------------------------------------------------------------------

\* profiles.go:73, "A lead always belongs to exactly one board": whatever is
\* shared, taken back and pushed meanwhile, its one owner link is its profile's.
\* Stated for the ids that are never given out again.
OneOwner ==
  \A i \in Leads \ Deletable : {p \in Profiles : link[i][p] = "owner"} = {lead[i]}

\* profiles.go:234: a seed never overwrites what a person wrote, field by
\* field, even when the person writes between the seed's statements.
HumanWordsStay ==
  \A p \in Profiles, f \in Fields :
    text[p] # NoRow /\ text[p][f] = "human" => text'[p][f] = "human"
HumanTextStays == [][HumanWordsStay]_vars
=============================================================================
