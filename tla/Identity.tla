------------------------------ MODULE Identity ------------------------------
(***************************************************************************)
(* Tenants, principals and their credentials: the commands of the operator *)
(* who creates, disables, enables and revokes them, the issue of a         *)
(* credential, whose token exists only in a file, and the requests that    *)
(* present one (app/db/identity.py, app/authentication.py,                 *)
(* scripts/manage_identity.py).                                            *)
(*                                                                         *)
(* Each command is a process of its own and each transaction one step; the *)
(* issue of a credential goes through a file, a transaction and a report,  *)
(* any of which may fail, and may be killed between them.                  *)
(***************************************************************************)
EXTENDS Integers, Sequences

CONSTANTS
  Tenants, Principals, Credentials,
  ParentOf,    \* the tenant of a principal, the principal of a credential
  Expiry,      \* when each credential expires
  Requests,    \* requests in flight at the same time
  MaxTime,     \* bound: the clock
  MaxEvents    \* bound: audit events of one entity

Entities == Tenants \cup Principals \cup Credentials
Children == Principals \cup Credentials

ASSUME IdentityAssumptions ==
  /\ Tenants \cap Children = {} /\ Principals \cap Credentials = {}
  /\ ParentOf \in [Children -> Tenants \cup Principals]
  /\ \A p \in Principals : ParentOf[p] \in Tenants
  /\ \A c \in Credentials : ParentOf[c] \in Principals
  /\ Expiry \in [Credentials -> Nat]
  /\ {MaxTime, MaxEvents} \subseteq Nat

VARIABLES
  clock,
  row,       \* each entity: "none", "on" (enabled) or "off"
  revoked,   \* the credentials with a revoked_at
  trail,     \* the audit events of each entity, oldest first
  issue,     \* how far the issue of each credential has come, or how it ended
  file,      \* the token file of each credential: "none", "token" or "empty"
  request    \* the requests in flight

identityRows == <<row, revoked, trail>>
cli == <<issue, file>>
identityVars == <<clock, identityRows, cli, request>>

RowStates == {"none", "on", "off"}
Events == {"created", "enabled", "disabled", "revoked"}
Running == {"written", "staged", "undone", "failed", "committed"}
Outcomes == {"ok", "error", "uncertain", "undestroyed", "killed"}
Refusals ==
  {"unknown", "revoked", "disabled", "expired", "principal_disabled", "tenant_disabled"}
NoRequest == [stage |-> "idle"]
InFlight ==
  [stage : {"reading", "authenticated", "unavailable"} \cup Refusals,
   with : Credentials, now : Nat, sawGood : BOOLEAN, sawBad : BOOLEAN]

-----------------------------------------------------------------------------
IdentityInit ==
  /\ clock = 0
  /\ row = [e \in Entities |-> "none"]
  /\ revoked = {}
  /\ trail = [e \in Entities |-> <<>>]
  /\ issue = [c \in Credentials |-> "no"]
  /\ file = [c \in Credentials |-> "none"]
  /\ request = [r \in Requests |-> NoRequest]

\* The rows of a credential, its principal and its tenant let it in.
Good(c, r, x) ==
  LET p == ParentOf[c]
  IN  r[c] = "on" /\ r[p] = "on" /\ r[ParentOf[p]] = "on" /\ c \notin x

\* History: what the requests in flight have been able to see of their rows.
Observe ==
  request' = [r \in Requests |->
    IF request[r].stage # "reading" THEN request[r]
    ELSE LET good == Good(request[r].with, row', revoked')
         IN  [request[r] EXCEPT !.sawGood = @ \/ good, !.sawBad = @ \/ ~good]]

Tick ==
  /\ clock < MaxTime
  /\ clock' = clock + 1
  /\ UNCHANGED <<identityRows, cli, request>>

-----------------------------------------------------------------------------
(* The operator's commands.  A transaction that has staged its rows holds  *)
(* the write lock; one that finds nothing to change reports so.            *)

Unlocked == \A c \in Credentials : issue[c] # "staged"
Record(e, event) == trail' = [trail EXCEPT ![e] = Append(@, event)]

CreateTenant(t) ==
  /\ Unlocked
  /\ row[t] = "none"
  /\ row' = [row EXCEPT ![t] = "on"]
  /\ Record(t, "created")
  /\ UNCHANGED revoked

CreatePrincipal(p) ==
  /\ Unlocked
  /\ row[p] = "none" /\ row[ParentOf[p]] # "none"
  /\ row' = [row EXCEPT ![p] = "on"]
  /\ Record(p, "created")
  /\ UNCHANGED revoked

\* Faulty variant: the event is recorded whether or not the row has changed.
SetEnabled_Unconditional(e, on) ==
  /\ Unlocked
  /\ Len(trail[e]) < MaxEvents
  /\ row[e] # "none" /\ e \notin revoked
  /\ row' = [row EXCEPT ![e] = IF on THEN "on" ELSE "off"]
  /\ Record(e, IF on THEN "enabled" ELSE "disabled")
  /\ UNCHANGED revoked

SetEnabled(e, on) ==
  /\ Unlocked
  /\ Len(trail[e]) < MaxEvents
  /\ row[e] = (IF on THEN "off" ELSE "on") /\ e \notin revoked
  /\ row' = [row EXCEPT ![e] = IF on THEN "on" ELSE "off"]
  /\ Record(e, IF on THEN "enabled" ELSE "disabled")
  /\ UNCHANGED revoked

Revoke(c) ==
  /\ Unlocked
  /\ row[c] # "none" /\ c \notin revoked
  /\ revoked' = revoked \cup {c}
  /\ Record(c, "revoked")
  /\ UNCHANGED row

Administer ==
  /\ \/ \E t \in Tenants : CreateTenant(t)
     \/ \E p \in Principals : CreatePrincipal(p)
     \/ \E e \in Entities, on \in BOOLEAN : SetEnabled(e, on)
     \/ \E c \in Credentials : Revoke(c)
  /\ Observe
  /\ UNCHANGED <<clock, cli>>

-----------------------------------------------------------------------------
(* The issue of a credential.                                              *)

Go(c, step) == issue' = [issue EXCEPT ![c] = step]
Holds(c, contents) == file' = [file EXCEPT ![c] = contents]

\* The row of the credential and its first event, in one transaction.
Insert(c) ==
  /\ row' = [row EXCEPT ![c] = "on"]
  /\ Record(c, "created")
  /\ UNCHANGED revoked

\* The token is generated and written out before anything is stored.
WriteToken(c) ==
  /\ issue[c] = "no"
  /\ Expiry[c] > clock
  /\ Go(c, "written") /\ Holds(c, "token")
  /\ UNCHANGED <<clock, identityRows, request>>

\* A file that could not be completed is emptied, if that works.
WriteTokenFails(c) ==
  /\ issue[c] = "no"
  /\ Expiry[c] > clock
  /\ Go(c, "error") /\ \E left \in {"none", "empty", "token"} : Holds(c, left)
  /\ UNCHANGED <<clock, identityRows, request>>

StageRows(c) ==
  /\ issue[c] = "written"
  /\ Unlocked
  /\ row[ParentOf[c]] # "none"
  /\ Go(c, "staged")
  /\ UNCHANGED <<clock, identityRows, file, request>>

\* The principal is not there, or the database refuses: all is rolled back.
StageRowsFails(c) ==
  /\ issue[c] = "written"
  /\ Go(c, "undone")
  /\ UNCHANGED <<clock, identityRows, file, request>>

CommitRows(c) ==
  /\ issue[c] = "staged"
  /\ Go(c, "committed")
  /\ Insert(c)
  /\ Observe
  /\ UNCHANGED <<clock, file>>

\* Nothing tells whether a commit that raises has taken effect.
CommitRowsRaises(c) ==
  /\ issue[c] = "staged"
  /\ Go(c, "failed")
  /\ Insert(c) \/ UNCHANGED identityRows
  /\ Observe
  /\ UNCHANGED <<clock, file>>

\* Faulty variant: the token is kept when the row may be there.
Destroy_UnlessStaged(c) ==
  /\ issue[c] \in {"undone", "failed"}
  /\ Go(c, IF issue[c] = "failed" THEN "uncertain" ELSE "error")
  /\ IF issue[c] = "failed" THEN UNCHANGED file ELSE Holds(c, "empty")
  /\ UNCHANGED <<clock, identityRows, request>>

Destroy(c) ==
  /\ issue[c] \in {"undone", "failed"}
  /\ Go(c, IF issue[c] = "failed" THEN "uncertain" ELSE "error")
  /\ Holds(c, "empty")
  /\ UNCHANGED <<clock, identityRows, request>>

\* The file cannot be emptied, or not surely.
DestroyFails(c) ==
  /\ issue[c] \in {"undone", "failed"}
  /\ Go(c, "undestroyed")
  /\ Holds(c, "empty") \/ UNCHANGED file
  /\ UNCHANGED <<clock, identityRows, request>>

ReportIssue(c) ==
  /\ issue[c] = "committed"
  /\ Go(c, "ok")
  /\ UNCHANGED <<clock, identityRows, file, request>>

\* The process dies, or is interrupted once it has nothing left to undo.
Kill(c) ==
  /\ issue[c] \in Running
  /\ Go(c, "killed")
  /\ UNCHANGED <<clock, identityRows, file, request>>

IssueCredential ==
  \E c \in Credentials :
    \/ WriteToken(c) \/ WriteTokenFails(c)
    \/ StageRows(c) \/ StageRowsFails(c)
    \/ CommitRows(c) \/ CommitRowsRaises(c)
    \/ Destroy(c) \/ DestroyFails(c) \/ ReportIssue(c) \/ Kill(c)

-----------------------------------------------------------------------------
(* Requests.  A token reaches clients from its file once the command that  *)
(* wrote it has ended.                                                     *)

HandedOut(c) == issue[c] \in Outcomes /\ file[c] = "token"

\* The clock is read on the event loop, the rows later in a thread.
Arrive(r, c) ==
  /\ request[r] = NoRequest
  /\ HandedOut(c)
  /\ request' = [request EXCEPT ![r] =
       [stage |-> "reading", with |-> c, now |-> clock,
        sawGood |-> Good(c, row, revoked), sawBad |-> ~Good(c, row, revoked)]]
  /\ UNCHANGED <<clock, identityRows, cli>>

\* Faulty variant: the row of the tenant is not looked at.
Verdict_AnyTenant(c, now) ==
  CASE row[c] = "none" -> "unknown"
    [] row[c] # "none" /\ c \in revoked -> "revoked"
    [] row[c] = "off" /\ c \notin revoked -> "disabled"
    [] row[c] = "on" /\ c \notin revoked /\ now >= Expiry[c] -> "expired"
    [] OTHER -> IF row[ParentOf[c]] # "on" THEN "principal_disabled" ELSE "authenticated"

\* The first reason to refuse the credential, from one joined query.
Verdict(c, now) ==
  LET p == ParentOf[c]
  IN  IF row[c] = "none" THEN "unknown"
      ELSE IF c \in revoked THEN "revoked"
      ELSE IF row[c] = "off" THEN "disabled"
      ELSE IF now >= Expiry[c] THEN "expired"
      ELSE IF row[p] # "on" THEN "principal_disabled"
      ELSE IF row[ParentOf[p]] # "on" THEN "tenant_disabled"
      ELSE "authenticated"

Read(r) ==
  /\ request[r].stage = "reading"
  /\ request' = [request EXCEPT ![r].stage = Verdict(request[r].with, request[r].now)]
  /\ UNCHANGED <<clock, identityRows, cli>>

ReadFails(r) ==
  /\ request[r].stage = "reading"
  /\ request' = [request EXCEPT ![r].stage = "unavailable"]
  /\ UNCHANGED <<clock, identityRows, cli>>

Respond(r) ==
  /\ request[r].stage \notin {"idle", "reading"}
  /\ request' = [request EXCEPT ![r] = NoRequest]
  /\ UNCHANGED <<clock, identityRows, cli>>

Serve ==
  \E r \in Requests :
    \/ \E c \in Credentials : Arrive(r, c)
    \/ Read(r) \/ ReadFails(r) \/ Respond(r)

IdentityNext == Tick \/ Administer \/ IssueCredential \/ Serve

IdentitySpec == IdentityInit /\ [][IdentityNext]_identityVars

-----------------------------------------------------------------------------
\* Types of the variables.
IdentityTypeOK ==
  /\ clock \in Nat
  /\ row \in [Entities -> RowStates]
  /\ revoked \subseteq Credentials
  /\ trail \in [Entities -> Seq(Events)]
  /\ issue \in [Credentials -> {"no"} \cup Running \cup Outcomes]
  /\ file \in [Credentials -> {"none", "token", "empty"}]
  /\ request \in [Requests -> {NoRequest} \cup InFlight]

\* A request is let in only if at some moment while it was in flight its
\* credential, principal and tenant were all enabled and not revoked, and it had
\* not expired when the request arrived; it is refused only if at some such
\* moment one of them was not, or it had expired.  Commands that change the rows
\* while the request is in flight never make it see a mixture of them.
VerdictIsJustified ==
  \A r \in Requests :
    LET q == request[r]
    IN  /\ q.stage = "authenticated" => q.sawGood /\ q.now < Expiry[q.with]
        /\ q.stage \in Refusals => q.sawBad \/ q.now >= Expiry[q.with]

\* The report of an issue is true, and no token that works is left unreported:
\* success means that the row and the token are there, an error that the row is
\* not, and whenever a row has a token that can be used, the command said so, said
\* that it could not destroy it, or was killed.
ReportIsTrue ==
  \A c \in Credentials :
    /\ issue[c] = "ok" => row[c] # "none" /\ file[c] = "token"
    /\ issue[c] = "error" => row[c] = "none"
    /\ row[c] # "none" /\ HandedOut(c) => issue[c] \in {"ok", "undestroyed", "killed"}

\* The trail of an entity tells the state of its row.
Tells(e) ==
  LET t == trail[e]
      n == Len(t)
  IN  /\ row[e] = "none" <=> n = 0
      /\ \A i \in 1..n :
           /\ t[i] = "created" <=> i = 1
           /\ t[i] = "enabled" => t[i - 1] = "disabled"
           /\ t[i] = "disabled" => t[i - 1] \in {"created", "enabled"}
           /\ t[i] = "revoked" => i = n
      /\ e \in revoked <=> n > 0 /\ t[n] = "revoked"
      /\ n > 0 =>
           row[e] = "off" <=> t[IF e \in revoked THEN n - 1 ELSE n] = "disabled"

\* The audit trail alone tells the state of every row: an entity exists from its
\* first event on, each later event is a change of the state before it, nothing
\* comes after a revocation, and the last event that is not one says whether it is
\* enabled - whatever commands are refused, fail, or commit without knowing it.
TrailTellsState == \A e \in Entities : Tells(e)

=============================================================================
