----------------------------- MODULE ProviderFetch -----------------------------
(***************************************************************************)
(* The provider clients (providers/) and what a synchronisation makes of   *)
(* their answers (sync_service).  A client reads the members of a remote   *)
(* directory page after page while people join, leave, get and lose a      *)
(* licence; requests fail; the server may send smaller pages than asked    *)
(* for.  Some clients turn a failed request into an error, some into the   *)
(* end of the list.  The synchronisation reports success for whatever the  *)
(* client returned.                                                        *)
(*                                                                         *)
(* A client is a record of how it reads; a provider has one client.  Bots, *)
(* API keys and senders, the keys of licences, their types, costs and      *)
(* times are left out.                                                     *)
(***************************************************************************)
EXTENDS Naturals, Sequences, FiniteSets, FiniteSetsExt

CONSTANTS
    Members,        \* number of people that the remote directory may hold
    PageSize,       \* what a client asks for
    PageCaps,       \* the page sizes that servers send at most
    MaxFetches,     \* bound: fetches that are begun
    MaxChanges      \* bound: changes of the directory

ASSUME FetchAssumptions ==
    /\ Members \in Nat /\ MaxFetches \in Nat /\ MaxChanges \in Nat
    /\ PageSize \in Nat \ {0}
    /\ PageCaps \subseteq 1 .. PageSize

\* In the order in which servers list them.
People == 1 .. Members

\* A free member has an account and no licence.
Licensed == {"active", "inactive"}
Everyone == Licensed \cup {"free"}

-----------------------------------------------------------------------------
(* How a client reads.  A pass lists the members with certain standings;   *)
(* an answer with an error status, or an exception, makes it raise, stop   *)
(* with what it has read, or drop what it has read.                        *)
Pass(lists, status, exception) == [lists |-> lists, status |-> status, exception |-> exception]

\* step: what the next page is asked by; last: what ends a pass; counts: who holds a
\* licence; fallback: the first pass counts only when the others found nobody.
Client(passes, step, last) ==
    [passes |-> passes, step |-> step, last |-> last, counts |-> Everyone, fallback |-> FALSE]

Strict == <<Pass(Everyone, "raise", "raise")>>
Lenient == <<Pass(Everyone, "stop", "raise")>>

\* The directory, then the holders per product.
GoogleUsers == Pass(Everyone, "raise", "raise")
GoogleAssignments == Pass(Licensed, "stop", "stop")
Google ==
    [Client(<<GoogleUsers, GoogleAssignments>>, "token", "token")
        EXCEPT !.counts = Licensed, !.fallback = TRUE]

\* 429 three times is an answer without members and cursor.
Slack == Client(Lenient, "token", "token")

\* One pass per status; here a free member is a pending one.
Zoom ==
    Client(<<Pass({"active"}, "raise", "raise"), Pass({"inactive"}, "stop", "raise"),
             Pass({"free"}, "stop", "raise")>>, "token", "token")

GitLabInstance == Client(Lenient, "page", "short")
GitLabGroup == Client(Lenient, "page", "short")
MiroOrganisation == Client(Strict, "token", "token")
MiroTeams == Client(Lenient, "token", "token")
Figma == Client(Strict, "offset", "total")
GitHub == Client(Strict, "page", "empty")

\* An exception leaves the whole function with nothing.
HuggingFaceMembers == Pass(Everyone, "stop", "drop")
HuggingFace == Client(<<HuggingFaceMembers>>, "token", "short")

Cursor == Client(<<Pass(Everyone, "drop", "drop")>>, "once", "once")
AnthropicUsers == Pass(Everyone, "stop", "drop")
Anthropic == Client(<<AnthropicUsers>>, "token", "token")
Mattermost == Client(Strict, "page", "empty")
Mailjet == Client(<<Pass(Everyone, "drop", "drop")>>, "once", "once")
Microsoft == [Client(Strict, "token", "token") EXCEPT !.counts = Licensed]
Atlassian == Client(Strict, "token", "token")
Adobe == Client(Strict, "page", "short")
JetBrains == Client(<<Pass(Everyone, "stop", "stop")>>, "page", "short")
Auth0 == Client(Strict, "page", "short or total")
OnePassword == Client(Strict, "items", "total")
OpenAI == Client(Strict, "once", "once")
HiBob == Client(Strict, "once", "once")
Personio == Client(Strict, "offset", "short")

Clients ==
    {Google, Slack, Zoom, GitLabInstance, GitLabGroup, MiroOrganisation, MiroTeams, Figma,
     GitHub, HuggingFace, Cursor, Anthropic, Mattermost, Mailjet, Microsoft, Atlassian, Adobe,
     JetBrains, Auth0, OnePassword, OpenAI, HiBob, Personio}

-----------------------------------------------------------------------------
VARIABLES
    client,         \* the client of the provider
    standing,       \* [People -> standing in the directory, or "out"]
    changes,        \* number of changes of the directory
    fetch           \* the current or last fetch

fetchVars == <<client, standing, changes, fetch>>

\* at: how far the current pass has come; kept and got: the people read by the
\* passes before and by the current one.  History: steady, the members whose standing has
\* not changed; cut, an error was taken for the end; shifted, somebody left a list.
Fetch ==
    [phase: {"idle", "pages", "done", "failed"}, number: 0 .. MaxFetches, pass: 1 .. 3,
     at: Nat, cap: PageCaps \cup {0},
     kept: SUBSET People, got: SUBSET People, steady: SUBSET People, cut: BOOLEAN,
     shifted: BOOLEAN]

NoFetch ==
    [phase |-> "idle", number |-> 0, pass |-> 1, at |-> 0, cap |-> 0, kept |-> {}, got |-> {},
     steady |-> {}, cut |-> FALSE, shifted |-> FALSE]

FetchInit ==
    /\ client \in Clients
    /\ standing = [p \in People |-> "active"]
    /\ changes = 0
    /\ fetch = NoFetch

-----------------------------------------------------------------------------
\* Somebody joins, leaves, gets or loses a licence.
Move(p, s) ==
    /\ changes < MaxChanges
    /\ standing[p] # s
    /\ standing' = [standing EXCEPT ![p] = s]
    /\ changes' = changes + 1
    /\ fetch' = [fetch EXCEPT !.steady = @ \ {p}, !.shifted = @ \/ standing[p] # "out"]
    /\ UNCHANGED client

(* sync_provider calls fetch_licenses; signing in may fail.                *)
BeginFetch(cap) ==
    /\ fetch.phase # "pages"
    /\ fetch.number < MaxFetches
    /\ \E phase \in {"pages", "failed"} :
          fetch' = [NoFetch EXCEPT !.phase = phase, !.number = fetch.number + 1, !.cap = cap,
                                   !.steady = {p \in People : standing[p] # "out"}]
    /\ UNCHANGED <<client, standing, changes>>

-----------------------------------------------------------------------------
ThisPass == client.passes[fetch.pass]

Listed == {p \in People : standing[p] \in ThisPass.lists}

\* The place of a listed person in the list.
Rank(p) == Cardinality({q \in Listed : q <= p})

\* A token names the last person sent, everything else counts.
ReadBefore == IF client.step = "token" THEN Rank(fetch.at) ELSE fetch.at

Page == {p \in Listed : Rank(p) \in ReadBefore + 1 .. ReadBefore + fetch.cap}

\* Mutant: the next pass goes on where the last one ended.
WhereItEnded(f) == f.at

AtStart(f) == 0

NextAt ==
    CASE client.step = "token" -> Max({fetch.at} \cup Page)
      [] client.step = "page" -> fetch.at + fetch.cap
      [] client.step = "offset" -> fetch.at + PageSize
      [] OTHER -> fetch.at + Cardinality(Page)

IsLast ==
    LET short == Cardinality(Page) < PageSize
        all == fetch.at + Cardinality(Page) >= Cardinality(Listed)
    IN CASE client.last = "token" -> \A p \in Listed : p <= NextAt
         [] client.last = "empty" -> Page = {}
         [] client.last = "short" -> short
         [] client.last = "total" -> Page = {} \/ all
         [] client.last = "short or total" -> short \/ fetch.at + PageSize >= Cardinality(Listed)
         [] client.last = "once" -> TRUE

\* The members found by the finished passes and the current one.
Found(f) ==
    IF client.fallback /\ f.pass = Len(client.passes) /\ f.got # {} THEN f.got
    ELSE f.kept \cup f.got

(* After the last pass the synchronisation stores what was found (module   *)
(* LicenseMatching), removes nothing, and reports success.                 *)
EndPass(f) ==
    fetch' = IF f.pass < Len(client.passes)
             THEN [f EXCEPT !.pass = @ + 1, !.at = AtStart(f), !.kept = @ \cup f.got, !.got = {}]
             ELSE [f EXCEPT !.phase = "done", !.at = 0, !.kept = {}, !.got = Found(f)]

ReadPage ==
    /\ fetch.phase = "pages"
    /\ LET holders == {p \in Page : standing[p] \in client.counts \/ client.fallback}
           f == [fetch EXCEPT !.at = NextAt, !.got = @ \cup holders]
       IN IF IsLast THEN EndPass(f) ELSE fetch' = f
    /\ UNCHANGED <<client, standing, changes>>

(* A request fails, with an error status or with an exception.             *)
RequestFails ==
    /\ fetch.phase = "pages"
    /\ \E outcome \in {ThisPass.status, ThisPass.exception} :
          LET cut == [fetch EXCEPT !.cut = TRUE] IN
          CASE outcome = "raise" -> fetch' = [fetch EXCEPT !.phase = "failed"]
            [] outcome = "stop" -> EndPass(cut)
            [] outcome = "drop" -> EndPass([cut EXCEPT !.got = {}])
    /\ UNCHANGED <<client, standing, changes>>

FetchNext ==
    \/ \E p \in People, s \in Everyone \cup {"out"} : Move(p, s)
    \/ \E cap \in PageCaps : BeginFetch(cap)
    \/ ReadPage
    \/ RequestFails

FetchSpec == FetchInit /\ [][FetchNext]_fetchVars

-----------------------------------------------------------------------------
(* The variables hold values of their types.                               *)
FetchTypeOK ==
    /\ client \in Clients
    /\ standing \in [People -> Everyone \cup {"out"}]
    /\ changes \in 0 .. MaxChanges
    /\ fetch \in Fetch

\* What makes a list that ends without an error incomplete.
MayBeShort ==
    \/ fetch.cut
    \/ client.step = "once" /\ Cardinality(fetch.got) = fetch.cap
    \/ client.step # "token" /\ fetch.shifted
    \/ fetch.cap < PageSize /\ (client.step = "offset" \/ client.last \in {"short", "short or total"})

(* A synchronisation that reports success has read every licensed member   *)
(* that was there from beginning to end, whoever else joined, left or had  *)
(* another standing in the meantime; except that an error was taken for the end of  *)
(* the list, that the list moved under a client that counts, or that the   *)
(* server sent shorter pages than the client relies on.                    *)
SuccessIsWhole ==
    fetch.phase = "done" =>
        \/ MayBeShort
        \/ \A p \in fetch.steady : standing[p] \in client.counts => p \in fetch.got
=============================================================================
