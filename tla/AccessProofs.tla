---------------------------- MODULE AccessProofs ----------------------------
(***************************************************************************)
(* Proofs about what stands before every handler: the identity of a        *)
(* request (Identity), for any entities, requests, expiries and bounds,    *)
(* and the limit of its rate (TokenBuckets), for any keys, threads, rates, *)
(* sizes of the table and clocks.                                          *)
(***************************************************************************)
EXTENDS Identity, TokenBuckets, FiniteSetTheorems, SequenceTheorems, WellFoundedInduction,
        TLAPS

-----------------------------------------------------------------------------
(* Identity.                                                               *)


\* What the step of an issue says about its row and its file.
Agrees(c) ==
  /\ issue[c] \in {"no", "written", "staged", "undone", "error"} => row[c] = "none"
  /\ issue[c] \in {"committed", "ok"} => row[c] # "none"
  /\ issue[c] \in {"written", "staged", "committed", "ok"} => file[c] = "token"
  /\ issue[c] = "uncertain" => file[c] = "empty"

IssueAgrees == \A c \in Credentials : Agrees(c)

\* A request that has not read its rows yet has seen their present state.
SeesPresent ==
  \A r \in Requests : request[r].stage = "reading" =>
    /\ Good(request[r].with, row, revoked) => request[r].sawGood
    /\ ~Good(request[r].with, row, revoked) => request[r].sawBad

IInv == IdentityTypeOK /\ TrailTellsState /\ IssueAgrees /\ SeesPresent /\ VerdictIsJustified

-----------------------------------------------------------------------------
\* The verdict on a credential is a true statement about its rows at that moment.
LEMMA VerdictIsTrue ==
  ASSUME NEW c \in Credentials, NEW now \in Nat, IdentityAssumptions, IdentityTypeOK
  PROVE  /\ Verdict(c, now) \in Refusals \cup {"authenticated"}
         /\ Verdict(c, now) = "authenticated" => Good(c, row, revoked) /\ now < Expiry[c]
         /\ Verdict(c, now) \in Refusals => ~Good(c, row, revoked) \/ now >= Expiry[c]
<1> DEFINE p == ParentOf[c]
<1>1. p \in Principals /\ ParentOf[p] \in Tenants /\ Expiry[c] \in Nat
  BY DEF IdentityAssumptions
<1>2. /\ row[c] \in RowStates /\ row[p] \in RowStates /\ row[ParentOf[p]] \in RowStates
  BY <1>1 DEF IdentityTypeOK, Entities, Children
<1> QED
  BY <1>1, <1>2 DEF Verdict, Good, Refusals, RowStates

\* The requests in flight keep their types and see the new state of their rows.
LEMMA ObserveKeeps ==
  ASSUME IdentityAssumptions, IdentityTypeOK, SeesPresent, VerdictIsJustified, Observe
  PROVE  /\ request' \in [Requests -> {NoRequest} \cup InFlight]
         /\ SeesPresent' /\ VerdictIsJustified'
<1>1. ASSUME NEW r \in Requests, request[r].stage # "reading"
      PROVE  request'[r] = request[r]
  BY <1>1 DEF Observe
<1>2. ASSUME NEW r \in Requests, request[r].stage = "reading"
      PROVE  /\ request'[r] \in InFlight
             /\ request'[r].stage = "reading" /\ request'[r].with = request[r].with
             /\ request'[r].sawGood = (request[r].sawGood \/ Good(request[r].with, row', revoked'))
             /\ request'[r].sawBad = (request[r].sawBad \/ ~Good(request[r].with, row', revoked'))
  <2> DEFINE good == Good(request[r].with, row', revoked')
  <2>1. request[r] \in InFlight
    BY <1>2 DEF IdentityTypeOK, NoRequest
  <2>2. request'[r] = [request[r] EXCEPT !.sawGood = @ \/ good, !.sawBad = @ \/ ~good]
    BY <1>2 DEF Observe
  <2>3. good \in BOOLEAN
    BY DEF Good
  <2> HIDE DEF good
  <2>4. (request[r].sawGood \/ good) \in BOOLEAN /\ (request[r].sawBad \/ ~good) \in BOOLEAN
    OBVIOUS
  <2> QED
    BY <1>2, <2>1, <2>2, <2>4 DEF InFlight, good
<1>3. request' \in [Requests -> {NoRequest} \cup InFlight]
  <2>1. request' = [r \in Requests |-> request'[r]]
    BY DEF Observe
  <2>2. \A r \in Requests : request'[r] \in {NoRequest} \cup InFlight
    BY <1>1, <1>2 DEF IdentityTypeOK
  <2> QED
    BY <2>1, <2>2
<1>4. SeesPresent'
  BY <1>1, <1>2 DEF SeesPresent
<1>5. VerdictIsJustified'
  BY <1>1, <1>2 DEF VerdictIsJustified, Refusals
<1> QED
  BY <1>3, <1>4, <1>5

-----------------------------------------------------------------------------
(* The audit trail.                                                        *)

\* The first event of an entity.
LEMMA TellsCreation ==
  ASSUME IdentityTypeOK, TrailTellsState, NEW e \in Entities,
         row[e] = "none", row' = [row EXCEPT ![e] = "on"], Record(e, "created"),
         UNCHANGED revoked
  PROVE  TrailTellsState'
<1>1. trail[e] \in Seq(Events) /\ Len(trail[e]) = 0 /\ e \notin revoked
  BY DEF IdentityTypeOK, TrailTellsState, Tells
<1>2. /\ Len(trail'[e]) = 1 /\ trail'[e][1] = "created"
      /\ row'[e] = "on" /\ e \notin revoked'
  BY <1>1 DEF Record, IdentityTypeOK
<1>3. Tells(e)'
  BY <1>2 DEF Tells
<1>4. ASSUME NEW d \in Entities, d # e PROVE Tells(d)'
  BY <1>4 DEF TrailTellsState, Tells, Record, IdentityTypeOK
<1> QED
  BY <1>3, <1>4 DEF TrailTellsState

\* A later event of an entity that is not revoked.
LEMMA TellsChange ==
  ASSUME IdentityTypeOK, TrailTellsState, NEW e \in Entities, NEW event \in Events \ {"created"},
         row[e] # "none", e \notin revoked, Record(e, event),
         event = "enabled" => row[e] = "off",
         event = "disabled" => row[e] = "on",
         row' = [row EXCEPT ![e] = IF event = "enabled" THEN "on"
                                   ELSE IF event = "disabled" THEN "off" ELSE @],
         revoked' = IF event = "revoked" THEN revoked \cup {e} ELSE revoked
  PROVE  TrailTellsState'
<1> DEFINE t == trail[e]
           n == Len(t)
<1>1. /\ t \in Seq(Events) /\ n \in Nat /\ n > 0
      /\ t[n] # "revoked" /\ (row[e] = "off" <=> t[n] = "disabled")
      /\ t[n] \in Events /\ row[e] \in {"on", "off"}
  BY DEF IdentityTypeOK, TrailTellsState, Tells, RowStates
<1>2. /\ Len(trail'[e]) = n + 1 /\ trail'[e][n + 1] = event
      /\ \A i \in 1..n : trail'[e][i] = t[i]
  BY <1>1 DEF Record, IdentityTypeOK
<1>3. \A i \in 1..n :
        /\ t[i] = "created" <=> i = 1
        /\ t[i] = "enabled" => t[i - 1] = "disabled"
        /\ t[i] = "disabled" => t[i - 1] \in {"created", "enabled"}
        /\ t[i] = "revoked" => i = n
  BY DEF TrailTellsState, Tells
<1>4. \A i \in 1..(n + 1) :
        /\ trail'[e][i] = "created" <=> i = 1
        /\ trail'[e][i] = "enabled" => trail'[e][i - 1] = "disabled"
        /\ trail'[e][i] = "disabled" => trail'[e][i - 1] \in {"created", "enabled"}
        /\ trail'[e][i] = "revoked" => i = n + 1
  <2> TAKE i \in 1..(n + 1)
  <2>1. CASE i = n + 1
    <3>1. i # 1 /\ trail'[e][i - 1] = t[n] /\ trail'[e][i] = event
      BY <1>1, <1>2, <2>1
    <3>2. event = "enabled" => t[n] = "disabled"
      BY <1>1
    <3>3. event = "disabled" => t[n] \in {"created", "enabled"}
      BY <1>1 DEF Events
    <3> QED
      BY <2>1, <3>1, <3>2, <3>3
  <2>2. CASE i \in 1..n
    <3>1. t[i] \in {"enabled", "disabled"} => i - 1 \in 1..n
      BY <1>1, <1>3, <2>2
    <3>2. t[i] \in {"enabled", "disabled"} => trail'[e][i - 1] = t[i - 1]
      BY <1>2, <3>1
    <3>3. trail'[e][i] = t[i] /\ t[i] # "revoked"
      BY <1>1, <1>2, <1>3, <2>2
    <3> QED
      BY <1>3, <2>2, <3>2, <3>3
  <2> QED
    BY <1>1, <2>1, <2>2
<1>5. /\ row'[e] = IF event = "enabled" THEN "on" ELSE IF event = "disabled" THEN "off" ELSE row[e]
      /\ e \in revoked' <=> event = "revoked"
  BY DEF IdentityTypeOK
<1>6. Tells(e)'
  <2>1. row'[e] # "none" /\ (e \in revoked' <=> trail'[e][n + 1] = "revoked")
    BY <1>1, <1>2, <1>5
  <2>2. CASE event = "revoked"
    <3>1. row'[e] = row[e] /\ trail'[e][n] = t[n]
      BY <1>1, <1>2, <1>5, <2>2
    <3> QED
      BY <1>1, <1>2, <1>4, <1>5, <2>1, <2>2, <3>1 DEF Tells
  <2>3. CASE event # "revoked"
    <3>1. row'[e] = "off" <=> trail'[e][n + 1] = "disabled"
      BY <1>2, <1>5, <2>3 DEF Events
    <3> QED
      BY <1>1, <1>2, <1>4, <1>5, <2>1, <2>3, <3>1 DEF Tells
  <2> QED
    BY <2>2, <2>3
<1>7. ASSUME NEW d \in Entities, d # e PROVE Tells(d)'
  BY <1>7 DEF TrailTellsState, Tells, Record, IdentityTypeOK
<1> QED
  BY <1>6, <1>7 DEF TrailTellsState

-----------------------------------------------------------------------------
(* The steps.                                                              *)

\* The invariant holds initially.
LEMMA InitHolds == IdentityAssumptions /\ IdentityInit => IInv
<1> SUFFICES ASSUME IdentityAssumptions, IdentityInit PROVE IInv
  OBVIOUS
<1>1. IdentityTypeOK
  BY DEF IdentityInit, IdentityTypeOK, RowStates
<1>2. TrailTellsState
  BY DEF IdentityInit, TrailTellsState, Tells, Entities
<1>3. IssueAgrees
  BY DEF IdentityInit, IssueAgrees, Agrees, Entities
<1>4. SeesPresent /\ VerdictIsJustified
  BY DEF IdentityInit, SeesPresent, VerdictIsJustified, NoRequest, Refusals
<1> QED
  BY <1>1, <1>2, <1>3, <1>4 DEF IInv

\* Nothing depends on the clock but through the requests that arrive.
LEMMA TickKeeps == IdentityAssumptions /\ IInv /\ Tick => IInv'
<1> SUFFICES ASSUME IdentityAssumptions, IInv, Tick PROVE IInv'
  OBVIOUS
<1>1. IdentityTypeOK' /\ TrailTellsState'
  BY DEF IInv, Tick, identityRows, cli, IdentityTypeOK, TrailTellsState, Tells
<1>2. IssueAgrees' /\ SeesPresent' /\ VerdictIsJustified'
  BY DEF IInv, Tick, identityRows, cli, IssueAgrees, Agrees, SeesPresent, VerdictIsJustified, Good
<1> QED
  BY <1>1, <1>2 DEF IInv

\* What a command does to the rows, and that it changes only existing ones or
\* those of tenants and principals.
LEMMA AdministerKeepsRows ==
  ASSUME IdentityAssumptions, IInv, Administer
  PROVE  /\ row' \in [Entities -> RowStates] /\ revoked' \subseteq Credentials
         /\ trail' \in [Entities -> Seq(Events)]
         /\ TrailTellsState'
         /\ \A c \in Credentials : row'[c] = "none" <=> row[c] = "none"
<1> USE DEF IInv
<1>1. ASSUME NEW e \in Tenants \cup Principals, row[e] = "none",
             row' = [row EXCEPT ![e] = "on"], Record(e, "created"), UNCHANGED revoked
      PROVE  /\ row' \in [Entities -> RowStates] /\ revoked' \subseteq Credentials
             /\ trail' \in [Entities -> Seq(Events)]
             /\ TrailTellsState'
             /\ \A c \in Credentials : row'[c] = "none" <=> row[c] = "none"
  <2>1. e \in Entities /\ e \notin Credentials
    BY DEF Entities, Children, IdentityAssumptions
  <2>2. TrailTellsState'
    BY <1>1, <2>1, TellsCreation
  <2>3. row' \in [Entities -> RowStates] /\ revoked' \subseteq Credentials
    BY <1>1, <2>1 DEF IdentityTypeOK, RowStates
  <2>4. trail' \in [Entities -> Seq(Events)]
    BY <1>1, <2>1 DEF IdentityTypeOK, Record, Events
  <2>5. \A c \in Credentials : row'[c] = row[c]
    BY <1>1, <2>1 DEF IdentityTypeOK, Entities
  <2> QED
    BY <2>2, <2>3, <2>4, <2>5
<1>2. ASSUME NEW e \in Entities, NEW on \in BOOLEAN, SetEnabled(e, on)
      PROVE  /\ row' \in [Entities -> RowStates] /\ revoked' \subseteq Credentials
             /\ trail' \in [Entities -> Seq(Events)]
             /\ TrailTellsState'
             /\ \A c \in Credentials : row'[c] = "none" <=> row[c] = "none"
  <2> DEFINE event == IF on THEN "enabled" ELSE "disabled"
  <2>1. /\ event \in Events \ {"created"} /\ row[e] # "none" /\ e \notin revoked
        /\ Record(e, event)
        /\ event = "enabled" => row[e] = "off"
        /\ event = "disabled" => row[e] = "on"
    BY <1>2 DEF SetEnabled, Events
  <2>2. /\ row' = [row EXCEPT ![e] = IF event = "enabled" THEN "on"
                                     ELSE IF event = "disabled" THEN "off" ELSE @]
        /\ revoked' = IF event = "revoked" THEN revoked \cup {e} ELSE revoked
    BY <1>2 DEF SetEnabled
  <2> HIDE DEF event
  <2>3. TrailTellsState'
    BY <2>1, <2>2, TellsChange
  <2>4. row' \in [Entities -> RowStates] /\ revoked' \subseteq Credentials
    BY <1>2 DEF SetEnabled, IdentityTypeOK, RowStates
  <2>5. trail' \in [Entities -> Seq(Events)]
    BY <2>1 DEF Record, IdentityTypeOK
  <2>6. \A c \in Credentials : row'[c] = "none" <=> row[c] = "none"
    BY <1>2 DEF SetEnabled, IdentityTypeOK, Entities
  <2> QED
    BY <2>3, <2>4, <2>5, <2>6
<1>3. ASSUME NEW c \in Credentials, Revoke(c)
      PROVE  /\ row' \in [Entities -> RowStates] /\ revoked' \subseteq Credentials
             /\ trail' \in [Entities -> Seq(Events)]
             /\ TrailTellsState'
             /\ \A d \in Credentials : row'[d] = "none" <=> row[d] = "none"
  <2>1. c \in Entities /\ "revoked" \in Events \ {"created"}
    BY DEF Entities, Events
  <2>2. row[c] # "none" /\ c \notin revoked /\ Record(c, "revoked")
    BY <1>3 DEF Revoke
  <2>3. /\ row' = [row EXCEPT ![c] = IF "revoked" = "enabled" THEN "on"
                                     ELSE IF "revoked" = "disabled" THEN "off" ELSE @]
        /\ revoked' = IF "revoked" = "revoked" THEN revoked \cup {c} ELSE revoked
    BY <1>3, <2>1 DEF Revoke, IdentityTypeOK
  <2>4. TrailTellsState'
    BY <2>1, <2>2, <2>3, TellsChange
  <2>5. trail' \in [Entities -> Seq(Events)]
    BY <2>1, <2>2 DEF Record, IdentityTypeOK
  <2> QED
    BY <1>3, <2>4, <2>5 DEF Revoke, IdentityTypeOK
<1> QED
  BY <1>1, <1>2, <1>3 DEF Administer, CreateTenant, CreatePrincipal

\* The commands of the operator keep the invariant.
LEMMA AdministerKeeps == IdentityAssumptions /\ IInv /\ Administer => IInv'
<1> SUFFICES ASSUME IdentityAssumptions, IInv, Administer PROVE IInv'
  OBVIOUS
<1>1. /\ row' \in [Entities -> RowStates] /\ revoked' \subseteq Credentials
      /\ trail' \in [Entities -> Seq(Events)]
      /\ TrailTellsState'
      /\ \A c \in Credentials : row'[c] = "none" <=> row[c] = "none"
  BY AdministerKeepsRows
<1>2. /\ request' \in [Requests -> {NoRequest} \cup InFlight]
      /\ SeesPresent' /\ VerdictIsJustified'
  BY ObserveKeeps DEF IInv, Administer
<1>3. IdentityTypeOK'
  BY <1>1, <1>2 DEF IInv, Administer, cli, IdentityTypeOK
<1>4. IssueAgrees'
  BY <1>1 DEF IInv, Administer, cli, IssueAgrees, Agrees
<1> QED
  BY <1>1, <1>2, <1>3, <1>4 DEF IInv

\* A step of an issue that stores nothing.
LEMMA IssueKeepsUnstored ==
  ASSUME IdentityAssumptions, IInv, NEW c \in Credentials,
         \/ WriteToken(c) \/ WriteTokenFails(c) \/ StageRows(c) \/ StageRowsFails(c)
         \/ Destroy(c) \/ DestroyFails(c) \/ ReportIssue(c) \/ Kill(c)
  PROVE  IInv'
<1> USE DEF IInv
<1> DEFINE Unstored ==
      \/ WriteToken(c) \/ WriteTokenFails(c) \/ StageRows(c) \/ StageRowsFails(c)
      \/ Destroy(c) \/ DestroyFails(c) \/ ReportIssue(c) \/ Kill(c)
<1>1. UNCHANGED <<clock, identityRows, request>>
  BY DEF WriteToken, WriteTokenFails, StageRows, StageRowsFails, Destroy, DestroyFails, ReportIssue, Kill
<1>2. IdentityTypeOK'
  <2>1. issue' \in [Credentials -> {"no"} \cup Running \cup Outcomes]
    BY DEF IdentityTypeOK, WriteToken, WriteTokenFails, StageRows, StageRowsFails, Destroy, DestroyFails,
           ReportIssue, Kill, Go, Running, Outcomes
  <2>2. file' \in [Credentials -> {"none", "token", "empty"}]
    BY DEF IdentityTypeOK, WriteToken, WriteTokenFails, StageRows, StageRowsFails, Destroy, DestroyFails,
           ReportIssue, Kill, Holds
  <2> QED
    BY <1>1, <2>1, <2>2 DEF IdentityTypeOK, identityRows
<1>3. TrailTellsState' /\ SeesPresent' /\ VerdictIsJustified'
  BY SMTT(20), <1>1 DEF identityRows, TrailTellsState, Tells, SeesPresent, VerdictIsJustified, Good
<1>4. IssueAgrees'
  <2> SUFFICES ASSUME NEW d \in Credentials PROVE Agrees(d)'
    BY DEF IssueAgrees
  <2>1. CASE d # c
    BY <1>1, <2>1 DEF IssueAgrees, Agrees, IdentityTypeOK, identityRows, WriteToken, WriteTokenFails, StageRows, StageRowsFails,
                      Destroy, DestroyFails, ReportIssue, Kill, Go, Holds
  <2>2. CASE d = c
    BY <1>1, <2>2 DEF IssueAgrees, Agrees, IdentityTypeOK, identityRows, WriteToken, WriteTokenFails, StageRows, StageRowsFails,
                      Destroy, DestroyFails, ReportIssue, Kill, Go, Holds, Running
  <2> QED
    BY <2>1, <2>2
<1> QED
  BY <1>2, <1>3, <1>4

\* The transaction of an issue, whether or not the command learns that it took effect.
LEMMA IssueKeepsStored ==
  ASSUME IdentityAssumptions, IInv, NEW c \in Credentials, CommitRows(c) \/ CommitRowsRaises(c)
  PROVE  IInv'
<1> USE DEF IInv
<1>1. /\ c \in Entities /\ issue[c] = "staged" /\ row[c] = "none"
      /\ Insert(c) \/ UNCHANGED identityRows
      /\ Observe /\ UNCHANGED <<clock, file>>
      /\ \/ Go(c, "committed") /\ Insert(c)
         \/ Go(c, "failed")
  BY DEF CommitRows, CommitRowsRaises, Entities, IssueAgrees, Agrees
<1>2. /\ request' \in [Requests -> {NoRequest} \cup InFlight]
      /\ SeesPresent' /\ VerdictIsJustified'
  BY <1>1, ObserveKeeps
<1>3. /\ row' \in [Entities -> RowStates] /\ revoked' \subseteq Credentials
      /\ trail' \in [Entities -> Seq(Events)]
      /\ \A d \in Credentials : d # c => row'[d] = row[d]
  <2>1. CASE Insert(c)
    <3>1. row' \in [Entities -> RowStates] /\ revoked' \subseteq Credentials
      BY <1>1, <2>1 DEF Insert, IdentityTypeOK, RowStates
    <3>2. trail' \in [Entities -> Seq(Events)]
      BY <1>1, <2>1 DEF Insert, Record, IdentityTypeOK, Events
    <3> QED
      BY <2>1, <3>1, <3>2 DEF Insert, IdentityTypeOK, Entities
  <2>2. CASE UNCHANGED identityRows
    BY <2>2 DEF identityRows, IdentityTypeOK
  <2> QED
    BY <1>1, <2>1, <2>2
<1>4. TrailTellsState'
  <2>1. CASE Insert(c)
    BY <1>1, <2>1, TellsCreation DEF Insert
  <2>2. CASE UNCHANGED identityRows
    BY <2>2 DEF identityRows, TrailTellsState, Tells
  <2> QED
    BY <1>1, <2>1, <2>2
<1>5. IdentityTypeOK'
  BY <1>1, <1>2, <1>3 DEF IdentityTypeOK, Go, Running
<1>6. IssueAgrees'
  <2> SUFFICES ASSUME NEW d \in Credentials PROVE Agrees(d)'
    BY DEF IssueAgrees
  <2>1. CASE d # c
    BY <1>1, <1>3, <2>1 DEF IssueAgrees, Agrees, IdentityTypeOK, Go
  <2>2. CASE d = c /\ Go(c, "committed") /\ Insert(c)
    <3>1. file[c] = "token"
      BY <1>1 DEF IssueAgrees, Agrees
    <3> QED
      BY <1>1, <2>2, <3>1 DEF Agrees, IdentityTypeOK, Go, Insert
  <2>3. CASE d = c /\ Go(c, "failed")
    BY <1>1, <2>3 DEF Agrees, IdentityTypeOK, Go
  <2> QED
    BY <1>1, <2>1, <2>2, <2>3
<1> QED
  BY <1>2, <1>4, <1>5, <1>6

\* A request takes its next step, which changes nothing else.
LEMMA RequestKeeps ==
  ASSUME IInv, NEW r \in Requests, NEW q \in {NoRequest} \cup InFlight,
         request' = [request EXCEPT ![r] = q], UNCHANGED <<clock, identityRows, cli>>,
         q.stage = "reading" =>
           /\ Good(q.with, row, revoked) => q.sawGood
           /\ ~Good(q.with, row, revoked) => q.sawBad,
         q.stage = "authenticated" => q.sawGood /\ q.now < Expiry[q.with],
         q.stage \in Refusals => q.sawBad \/ q.now >= Expiry[q.with]
  PROVE  IInv'
<1> USE DEF IInv
<1>1. TrailTellsState' /\ IssueAgrees'
  BY DEF identityRows, cli, TrailTellsState, Tells, IssueAgrees, Agrees
<1>2. /\ request' \in [Requests -> {NoRequest} \cup InFlight]
      /\ \A s \in Requests : request'[s] = IF s = r THEN q ELSE request[s]
  BY DEF IdentityTypeOK
<1>3. IdentityTypeOK'
  BY <1>2 DEF IdentityTypeOK, identityRows, cli
<1>4. SeesPresent'
  BY <1>2 DEF SeesPresent, Good, identityRows
<1>5. VerdictIsJustified'
  BY <1>2 DEF VerdictIsJustified
<1> QED
  BY <1>1, <1>3, <1>4, <1>5

\* The steps of a request keep the invariant.
LEMMA ServeKeeps == IdentityAssumptions /\ IInv /\ Serve => IInv'
<1> SUFFICES ASSUME IdentityAssumptions, IInv, Serve PROVE IInv'
  OBVIOUS
<1>1. ASSUME NEW r \in Requests, NEW c \in Credentials, Arrive(r, c) PROVE IInv'
  <2> DEFINE q == [stage |-> "reading", with |-> c, now |-> clock,
                   sawGood |-> Good(c, row, revoked), sawBad |-> ~Good(c, row, revoked)]
  <2>1. Good(c, row, revoked) \in BOOLEAN /\ clock \in Nat
    BY DEF Good, IInv, IdentityTypeOK
  <2>2. q \in InFlight
    BY <2>1 DEF InFlight
  <2>3. request' = [request EXCEPT ![r] = q] /\ UNCHANGED <<clock, identityRows, cli>>
    BY <1>1 DEF Arrive
  <2>4. /\ q.stage = "reading" /\ q.with = c
        /\ q.sawGood = Good(c, row, revoked) /\ q.sawBad = ~Good(c, row, revoked)
    OBVIOUS
  <2> HIDE DEF q
  <2> QED
    BY <2>2, <2>3, <2>4, RequestKeeps DEF Refusals
<1>2. ASSUME NEW r \in Requests, Read(r) PROVE IInv'
  <2> DEFINE old == request[r]
             verdict == Verdict(old.with, old.now)
             q == [old EXCEPT !.stage = verdict]
  <2>1. /\ old \in InFlight /\ old.stage = "reading"
        /\ old.with \in Credentials /\ old.now \in Nat
    BY <1>2 DEF Read, IInv, IdentityTypeOK, NoRequest, InFlight
  <2>2. /\ verdict \in Refusals \cup {"authenticated"}
        /\ verdict = "authenticated" => Good(old.with, row, revoked) /\ old.now < Expiry[old.with]
        /\ verdict \in Refusals => ~Good(old.with, row, revoked) \/ old.now >= Expiry[old.with]
    BY <2>1, VerdictIsTrue DEF IInv
  <2>3. request' = [request EXCEPT ![r] = q] /\ UNCHANGED <<clock, identityRows, cli>>
    BY <1>2 DEF Read, IInv, IdentityTypeOK
  <2>4. /\ Good(old.with, row, revoked) => old.sawGood
        /\ ~Good(old.with, row, revoked) => old.sawBad
    BY <2>1 DEF IInv, SeesPresent
  <2> HIDE DEF verdict
  <2>5. /\ q \in InFlight /\ q.stage = verdict
        /\ q.with = old.with /\ q.now = old.now
        /\ q.sawGood = old.sawGood /\ q.sawBad = old.sawBad
    BY <2>1, <2>2 DEF InFlight, Refusals
  <2> HIDE DEF q
  <2> QED
    BY <2>2, <2>3, <2>4, <2>5, RequestKeeps DEF Refusals
<1>3. ASSUME NEW r \in Requests, ReadFails(r) PROVE IInv'
  <2> DEFINE old == request[r]
             q == [old EXCEPT !.stage = "unavailable"]
  <2>1. old \in InFlight
    BY <1>3 DEF ReadFails, IInv, IdentityTypeOK, NoRequest
  <2>2. request' = [request EXCEPT ![r] = q] /\ UNCHANGED <<clock, identityRows, cli>>
    BY <1>3 DEF ReadFails, IInv, IdentityTypeOK
  <2>3. q \in InFlight /\ q.stage = "unavailable"
    BY <2>1 DEF InFlight
  <2> HIDE DEF q
  <2> QED
    BY <2>2, <2>3, RequestKeeps DEF Refusals
<1>4. ASSUME NEW r \in Requests, Respond(r) PROVE IInv'
  <2>1. NoRequest \in {NoRequest} \cup InFlight /\ NoRequest.stage = "idle"
    BY DEF NoRequest
  <2> QED
    BY <1>4, <2>1, RequestKeeps DEF Respond, Refusals
<1> QED
  BY <1>1, <1>2, <1>3, <1>4 DEF Serve

\* The invariant is inductive.
LEMMA NextKeeps == IdentityAssumptions /\ IInv /\ [IdentityNext]_identityVars => IInv'
<1> SUFFICES ASSUME IdentityAssumptions, IInv, [IdentityNext]_identityVars PROVE IInv'
  OBVIOUS
<1>1. CASE IssueCredential
  BY <1>1, IssueKeepsUnstored, IssueKeepsStored DEF IssueCredential
<1>2. CASE UNCHANGED identityVars
  BY <1>2 DEF identityVars, identityRows, cli, IInv, IdentityTypeOK, TrailTellsState, Tells, IssueAgrees, Agrees,
              SeesPresent, VerdictIsJustified, Good
<1> QED
  BY <1>1, <1>2, TickKeeps, AdministerKeeps, ServeKeeps DEF IdentityNext

-----------------------------------------------------------------------------
(* The theorems.                                                           *)

\* The inductive invariant holds in every reachable state.
THEOREM IdentityCorrect == IdentitySpec => []IInv
<1>1. IdentityInit => IInv
  BY InitHolds, IdentityAssumptions
<1>2. IInv /\ [IdentityNext]_identityVars => IInv'
  BY NextKeeps, IdentityAssumptions
<1> QED
  BY <1>1, <1>2, PTL DEF IdentitySpec

\* Every verdict on a request was true at some moment while it was in flight, for
\* any number of requests and of commands at the same time (authenticate).
THEOREM VerdictTheorem == IdentitySpec => []VerdictIsJustified
<1>1. IInv => VerdictIsJustified
  BY DEF IInv
<1> QED
  BY <1>1, IdentityCorrect, PTL

\* The command that issues a credential reports the truth, and leaves no token
\* that works unreported unless it is killed (_issue_credential).
THEOREM ReportTheorem == IdentitySpec => []ReportIsTrue
<1>1. IInv => ReportIsTrue
  BY DEF IInv, IssueAgrees, Agrees, ReportIsTrue, HandedOut, Outcomes
<1> QED
  BY <1>1, IdentityCorrect, PTL

\* The audit trail tells the state of every row (_audit and its callers).
THEOREM TrailTheorem == IdentitySpec => []TrailTellsState
<1>1. IInv => TrailTellsState
  BY DEF IInv
<1> QED
  BY <1>1, IdentityCorrect, PTL

-----------------------------------------------------------------------------
(* The token buckets: facts about numbers.                                 *)

\* A bounded set of naturals has a largest element.
LEMMA LargestExists ==
  ASSUME NEW S \in SUBSET Nat, S # {}, NEW b \in Nat, \A x \in S : x <= b
  PROVE  \E m \in S : \A x \in S : x <= m
<1> DEFINE T == {n \in Nat : \E x \in S : n = b - x}
<1>1. T \subseteq Nat /\ T # {}
  <2>1. PICK x \in S : TRUE
    OBVIOUS
  <2>2. b - x \in Nat
    BY SMT
  <2> QED
    BY <2>2
<1>2. PICK n \in T : \A y \in T : ~ (<<y, n>> \in OpToRel(<, Nat))
  BY <1>1, NatLessThanWellFounded, WFMin
<1>3. \A y \in T : ~(y < n)
  BY <1>1, <1>2 DEF OpToRel
<1>4. PICK m \in S : n = b - m
  OBVIOUS
<1>5. ASSUME NEW x \in S PROVE x <= m
  <2>1. b - x \in T
    BY SMT
  <2>2. ~(b - x < n)
    BY <1>3, <2>1
  <2> QED
    BY <1>4, <2>2, SMT
<1> QED
  BY <1>5

\* The division of the code rounds up.
LEMMA Ceiling ==
  ASSUME NEW x \in Nat \ {0}, NEW p \in Nat \ {0}
  PROVE  LET q == (x + p - 1) \div p
         IN  q \in Nat \ {0} /\ q * p >= x /\ (q - 1) * p < x
<1> DEFINE q == (x + p - 1) \div p
<1>1. q \in Int /\ p * q <= x + p - 1 /\ x + p - 1 < p * q + p
  BY SMT
<1> QED
  BY <1>1, SMT

\* Products by a constant of the limit keep the order and distribute.
LEMMA Scaled ==
  ASSUME NEW c \in Nat, NEW a \in Int, NEW b \in Int
  PROVE  /\ c * a \in Int /\ c * (a - b) = c * a - c * b /\ c * (a + b) = c * a + c * b
         /\ a <= b => c * a <= c * b
         /\ c * 0 = 0 /\ c * 1 = c
  OBVIOUS

-----------------------------------------------------------------------------
(* The order of the table.                                                 *)

Distinct(s) == \A p, q \in DOMAIN s : s[p] = s[q] => p = q
Occurs(s, x) == \E p \in DOMAIN s : s[p] = x
Precedes(s, x, y) == \E p, q \in DOMAIN s : p < q /\ s[p] = x /\ s[q] = y

\* A key at the end comes after every other one.
LEMMA AtTheEnd ==
  ASSUME NEW r \in Seq(Keys), Distinct(r), NEW k \in Keys, ~Occurs(r, k)
  PROVE  LET s == Append(r, k)
         IN  /\ s \in Seq(Keys) /\ Len(s) = Len(r) + 1 /\ Distinct(s) /\ Occurs(s, k)
             /\ \A x \in Keys \ {k} : Occurs(s, x) <=> Occurs(r, x)
             /\ \A y \in Keys : ~Precedes(s, k, y)
             /\ \A x \in Keys \ {k}, y \in Keys :
                  Precedes(s, x, y) <=> Precedes(r, x, y) \/ (y = k /\ Occurs(r, x))
<1> DEFINE s == Append(r, k)
           e == Len(r) + 1
<1>1. /\ s \in Seq(Keys) /\ Len(s) = e /\ Len(r) \in Nat
      /\ DOMAIN s = 1..e /\ DOMAIN r = 1..Len(r)
      /\ \A p \in 1..Len(r) : s[p] = r[p]
      /\ s[e] = k
  OBVIOUS
<1>2. /\ DOMAIN s = DOMAIN r \cup {e} /\ e \notin DOMAIN r
      /\ \A p \in DOMAIN r : p < e /\ s[p] = r[p] /\ r[p] # k
      /\ DOMAIN r \subseteq Nat /\ e \in Nat
  BY <1>1 DEF Occurs
<1> HIDE DEF s, e
<1>3. s[e] = k
  BY <1>1
<1>4. Distinct(s)
  BY <1>2, <1>3 DEF Distinct
<1>5. Occurs(s, k) /\ \A x \in Keys \ {k} : Occurs(s, x) <=> Occurs(r, x)
  BY <1>2, <1>3 DEF Occurs
<1>6. \A y \in Keys : ~Precedes(s, k, y)
  BY <1>2, <1>3 DEF Precedes
<1>7. ASSUME NEW x \in Keys \ {k}, NEW y \in Keys
      PROVE  Precedes(s, x, y) <=> Precedes(r, x, y) \/ (y = k /\ Occurs(r, x))
  <2>1. Precedes(s, x, y) => Precedes(r, x, y) \/ (y = k /\ Occurs(r, x))
    BY <1>2, <1>3 DEF Precedes, Occurs
  <2>2. Precedes(r, x, y) => Precedes(s, x, y)
    BY <1>2 DEF Precedes
  <2>3. y = k /\ Occurs(r, x) => Precedes(s, x, y)
    BY <1>2, <1>3 DEF Precedes, Occurs
  <2> QED
    BY <2>1, <2>2, <2>3
<1> QED
  BY <1>1, <1>4, <1>5, <1>6, <1>7 DEF s, e

\* Taking a key out leaves the others in their order.
LEMMA TakenOut ==
  ASSUME NEW s \in Seq(Keys), Distinct(s), NEW p \in DOMAIN s
  PROVE  LET r == RemoveAt(s, p)
         IN  /\ r \in Seq(Keys) /\ Len(r) = Len(s) - 1 /\ Distinct(r) /\ ~Occurs(r, s[p])
             /\ \A x \in Keys \ {s[p]} : Occurs(r, x) <=> Occurs(s, x)
             /\ \A x, y \in Keys \ {s[p]} : Precedes(r, x, y) <=> Precedes(s, x, y)
<1> DEFINE r == RemoveAt(s, p)
           N == Len(s)
<1>1. p \in 1..N /\ N \in Nat /\ DOMAIN s = 1..N
  OBVIOUS
<1>2. /\ r \in Seq(Keys) /\ Len(r) = N - 1
      /\ \A q \in 1..(N - 1) : r[q] = IF q < p THEN s[q] ELSE s[q + 1]
  <2> DEFINE u == SubSeq(s, 1, p - 1)
             v == SubSeq(s, p + 1, N)
  <2>1. /\ u \in Seq(Keys) /\ Len(u) = p - 1 /\ \A q \in 1..(p - 1) : u[q] = s[q]
    BY <1>1, SMTT(20)
  <2>2. /\ v \in Seq(Keys) /\ Len(v) = N - p /\ \A q \in 1..(N - p) : v[q] = s[q + p]
    BY <1>1, SMTT(20)
  <2>3. r = u \o v
    BY DEF RemoveAt
  <2> HIDE DEF r, u, v, N
  <2>4. /\ r \in Seq(Keys) /\ Len(r) = N - 1
        /\ \A q \in 1..(N - 1) : r[q] = IF q < p THEN u[q] ELSE v[q - (p - 1)]
    <3>1. Len(u) + Len(v) = N - 1
      BY <1>1, <2>1, <2>2
    <3> QED
      BY <2>1, <2>2, <2>3, <3>1, ConcatProperties
  <2>5. ASSUME NEW q \in 1..(N - 1)
        PROVE  r[q] = IF q < p THEN s[q] ELSE s[q + 1]
    <3>1. CASE q < p
      BY <1>1, <2>1, <2>4, <3>1
    <3>2. CASE ~(q < p)
      <4>1. q - (p - 1) \in 1..(N - p) /\ q - (p - 1) + p = q + 1
        BY <1>1, <3>2
      <4> QED
        BY <2>2, <2>4, <3>2, <4>1
    <3> QED
      BY <3>1, <3>2
  <2> QED
    BY <2>4, <2>5
<1>3. DOMAIN r = 1..(N - 1)
  BY <1>2
<1> HIDE DEF r, N
<1> DEFINE from(q) == IF q < p THEN q ELSE q + 1
           to(q) == IF q < p THEN q ELSE q - 1
<1>4. /\ \A q \in DOMAIN r : /\ from(q) \in DOMAIN s \ {p} /\ r[q] = s[from(q)]
      /\ \A q \in DOMAIN s \ {p} : to(q) \in DOMAIN r /\ r[to(q)] = s[q]
  BY <1>1, <1>2, <1>3
<1>5. \A q, u \in DOMAIN r : /\ (from(q) = from(u) <=> q = u) /\ (from(q) < from(u) <=> q < u)
  BY <1>1, <1>3
<1>6. \A q, u \in DOMAIN s \ {p} : to(q) < to(u) <=> q < u
  BY <1>1
<1> HIDE DEF from, to
<1>7. Distinct(r)
  BY <1>4, <1>5 DEF Distinct
<1>8. ~Occurs(r, s[p])
  BY <1>4 DEF Distinct, Occurs
<1>9. \A x \in Keys \ {s[p]} : Occurs(r, x) <=> Occurs(s, x)
  BY <1>4 DEF Occurs
<1>10. ASSUME NEW x \in Keys \ {s[p]}, NEW y \in Keys \ {s[p]}
       PROVE  Precedes(r, x, y) <=> Precedes(s, x, y)
  <2>1. Precedes(r, x, y) => Precedes(s, x, y)
    BY <1>4, <1>5 DEF Precedes
  <2>2. Precedes(s, x, y) => Precedes(r, x, y)
    BY <1>4, <1>6 DEF Precedes
  <2> QED
    BY <2>1, <2>2
<1> QED
  BY <1>2, <1>7, <1>8, <1>9, <1>10 DEF r, N

\* The tail of the order is what is left without its first key.
LEMMA TailTakesOut ==
  ASSUME NEW s \in Seq(Keys), s # <<>>
  PROVE  Tail(s) = RemoveAt(s, 1) /\ 1 \in DOMAIN s
  BY DEF RemoveAt

\* The keys that have been used since the first one of the order.
LEMMA FollowersOfFirst ==
  ASSUME NEW s \in Seq(Keys), Distinct(s), s # <<>>
  PROVE  LET F == {y \in Keys : Precedes(s, s[1], y)}
         IN  IsFiniteSet(F) /\ Cardinality(F) = Len(s) - 1
<1> DEFINE F == {y \in Keys : Precedes(s, s[1], y)}
           D == 2..Len(s)
           f == [q \in D |-> s[q]]
<1>1. /\ Len(s) \in Nat \ {0} /\ DOMAIN s = 1..Len(s)
      /\ \A q \in 1..Len(s) : s[q] \in Keys
  OBVIOUS
<1>2. \A p \in DOMAIN s : s[p] = s[1] => p = 1
  BY <1>1 DEF Distinct
<1>3. \A y \in Keys : Precedes(s, s[1], y) <=> \E q \in D : s[q] = y
  BY <1>1, <1>2 DEF Precedes
<1>4. f \in Bijection(D, F)
  <2>1. f \in [D -> F] /\ \A y \in F : \E q \in D : f[q] = y
    BY <1>1, <1>3
  <2>2. \A p, q \in D : f[p] = f[q] => p = q
    BY <1>1 DEF Distinct
  <2> QED
    BY <2>1, <2>2 DEF Bijection, Injection, Surjection, IsInjective
<1>5. IsFiniteSet(D) /\ Cardinality(D) = Len(s) - 1
  BY <1>1, FS_Interval
<1>6. ExistsBijection(D, F)
  BY <1>4 DEF ExistsBijection
<1> QED
  BY <1>5, <1>6, FS_Bijection

\* Who is where after k has been used: the others keep their order, k follows all
\* of them, and the one that is dropped was followed by all the others.
LEMMA TouchedOrder ==
  ASSUME order \in Seq(Keys), Distinct(order), Len(order) <= MaxBuckets, NEW k \in Keys
  PROVE  LET s == Touched(k)
         IN  /\ s \in Seq(Keys) /\ Distinct(s) /\ Len(s) <= MaxBuckets /\ Occurs(s, k)
             /\ \A y \in Keys : ~Precedes(s, k, y)
             /\ \A x \in Keys \ {k} :
                  \/ /\ Occurs(order, x) /\ Occurs(s, x)
                     /\ \A y \in Keys : Precedes(s, x, y) <=> y = k \/ Precedes(order, x, y)
                  \/ ~Occurs(order, x) /\ ~Occurs(s, x)
                  \/ /\ ~Occurs(order, k) /\ Occurs(order, x) /\ ~Occurs(s, x)
                     /\ IsFiniteSet({y \in Keys : Precedes(order, x, y)})
                     /\ Cardinality({y \in Keys : Precedes(order, x, y)}) = MaxBuckets - 1
<1> DEFINE s == Touched(k)
<1>1. /\ MaxBuckets \in Nat \ {0} /\ Len(order) \in Nat
      /\ DOMAIN order = 1..Len(order)
      /\ \A p \in DOMAIN order : order[p] \in Keys
      /\ Len(order) = 0 <=> order = <<>>
  BY BucketAssumptions
<1>2. Known(k) <=> Occurs(order, k)
  BY <1>1 DEF Known, Contains, Occurs
<1>3. CASE Known(k)
  <2> DEFINE p == CHOOSE i \in DOMAIN order : order[i] = k
             r == RemoveAt(order, p)
  <2>1. p \in DOMAIN order /\ order[p] = k
    BY <1>2, <1>3 DEF Occurs
  <2>2. s = Append(r, k)
    BY <1>3 DEF Touched
  <2> HIDE DEF p, r, s
  <2>3. /\ r \in Seq(Keys) /\ Len(r) = Len(order) - 1 /\ Distinct(r) /\ ~Occurs(r, k)
        /\ \A x \in Keys \ {k} : Occurs(r, x) <=> Occurs(order, x)
        /\ \A x, y \in Keys \ {k} : Precedes(r, x, y) <=> Precedes(order, x, y)
    BY <2>1, TakenOut DEF r
  <2>4. /\ s \in Seq(Keys) /\ Len(s) = Len(r) + 1 /\ Distinct(s) /\ Occurs(s, k)
        /\ \A x \in Keys \ {k} : Occurs(s, x) <=> Occurs(r, x)
        /\ \A y \in Keys : ~Precedes(s, k, y)
        /\ \A x \in Keys \ {k}, y \in Keys :
             Precedes(s, x, y) <=> Precedes(r, x, y) \/ (y = k /\ Occurs(r, x))
    BY <2>2, <2>3, AtTheEnd
  <2>5. \A y \in Keys : y # k => y \in Keys \ {k}
    OBVIOUS
  <2>6. \A x \in Keys : ~Precedes(r, x, k)
    BY <2>3 DEF Precedes, Occurs
  <2>7. ASSUME NEW x \in Keys \ {k}, Occurs(order, x)
        PROVE  /\ Occurs(s, x)
               /\ \A y \in Keys : Precedes(s, x, y) <=> y = k \/ Precedes(order, x, y)
    BY <2>3, <2>4, <2>5, <2>6, <2>7
  <2>8. \A x \in Keys \ {k} : ~Occurs(order, x) => ~Occurs(s, x)
    BY <2>3, <2>4
  <2>9. Len(s) <= MaxBuckets
    BY <1>1, <2>3, <2>4
  <2> QED
    BY <2>4, <2>7, <2>8, <2>9 DEF s
<1>4. CASE ~Known(k) /\ Len(order) >= MaxBuckets
  <2> DEFINE r == Tail(order)
             h == order[1]
  <2>1. order # <<>> /\ Len(order) = MaxBuckets
    <3>1. Len(order) >= MaxBuckets
      BY <1>4
    <3>2. Len(order) = MaxBuckets
      <4>1. Len(order) \in Int /\ MaxBuckets \in Int /\ Len(order) <= MaxBuckets
        BY <1>1
      <4> QED
        BY <3>1, <4>1, SMT
    <3> QED
      BY <1>1, <3>2
  <2>2. r = RemoveAt(order, 1) /\ 1 \in DOMAIN order /\ h \in Keys
    <3>1. Tail(order) = RemoveAt(order, 1)
      BY <2>1, TailTakesOut
    <3>2. 1 \in 1..Len(order)
      BY <1>1, <2>1
    <3> QED
      BY <1>1, <3>1, <3>2
  <2>3. s = Append(r, k)
    BY <1>4 DEF Touched
  <2>4. IsFiniteSet({y \in Keys : Precedes(order, h, y)})
        /\ Cardinality({y \in Keys : Precedes(order, h, y)}) = MaxBuckets - 1
    BY <2>1, FollowersOfFirst
  <2> HIDE DEF r, s
  <2>5. /\ r \in Seq(Keys) /\ Len(r) = Len(order) - 1 /\ Distinct(r) /\ ~Occurs(r, h)
        /\ \A x \in Keys \ {h} : Occurs(r, x) <=> Occurs(order, x)
        /\ \A x, y \in Keys \ {h} : Precedes(r, x, y) <=> Precedes(order, x, y)
    BY <2>2, TakenOut
  <2>6. h # k /\ ~Occurs(r, k) /\ Occurs(order, h)
    BY <1>2, <1>4, <2>2, <2>5 DEF Occurs
  <2>7. /\ s \in Seq(Keys) /\ Len(s) = Len(r) + 1 /\ Distinct(s) /\ Occurs(s, k)
        /\ \A x \in Keys \ {k} : Occurs(s, x) <=> Occurs(r, x)
        /\ \A y \in Keys : ~Precedes(s, k, y)
        /\ \A x \in Keys \ {k}, y \in Keys :
             Precedes(s, x, y) <=> Precedes(r, x, y) \/ (y = k /\ Occurs(r, x))
    BY <2>3, <2>5, <2>6, AtTheEnd
  <2>8. \A x \in Keys : ~Precedes(r, x, h) /\ ~Precedes(order, x, h)
    <3>1. \A x \in Keys : ~Precedes(r, x, h)
      BY <2>5 DEF Precedes, Occurs
    <3>2. \A q \in DOMAIN order : order[q] = h => q = 1
      BY <2>2 DEF Distinct
    <3>3. \A x \in Keys : ~Precedes(order, x, h)
      BY <1>1, <3>2 DEF Precedes
    <3> QED
      BY <3>1, <3>3
  <2>9. ASSUME NEW x \in Keys \ {k}, x # h, Occurs(order, x)
        PROVE  /\ Occurs(s, x)
               /\ \A y \in Keys : Precedes(s, x, y) <=> y = k \/ Precedes(order, x, y)
    <3>1. ASSUME NEW y \in Keys
          PROVE  Precedes(r, x, y) <=> Precedes(order, x, y)
      <4>1. CASE y = h
        BY <2>8, <4>1
      <4>2. CASE y # h
        BY <2>5, <2>9, <4>2
      <4> QED
        BY <4>1, <4>2
    <3>2. Occurs(r, x) /\ Occurs(s, x)
      BY <2>5, <2>7, <2>9
    <3> QED
      BY <2>7, <3>1, <3>2
  <2>10. ~Occurs(s, h)
    BY <2>2, <2>5, <2>6, <2>7
  <2>11. \A x \in Keys \ {k} : ~Occurs(order, x) => ~Occurs(s, x)
    BY <2>5, <2>6, <2>7
  <2>12. Len(s) <= MaxBuckets
    BY <1>1, <2>1, <2>5, <2>7
  <2>13. ASSUME NEW x \in Keys \ {k}
         PROVE  \/ /\ Occurs(order, x) /\ Occurs(s, x)
                   /\ \A y \in Keys : Precedes(s, x, y) <=> y = k \/ Precedes(order, x, y)
                \/ ~Occurs(order, x) /\ ~Occurs(s, x)
                \/ /\ ~Occurs(order, k) /\ Occurs(order, x) /\ ~Occurs(s, x)
                   /\ IsFiniteSet({y \in Keys : Precedes(order, x, y)})
                   /\ Cardinality({y \in Keys : Precedes(order, x, y)}) = MaxBuckets - 1
    <3>1. CASE x = h
      BY <1>2, <1>4, <2>4, <2>6, <2>10, <3>1
    <3>2. CASE x # h
      BY <2>9, <2>11, <3>2
    <3> QED
      BY <3>1, <3>2
  <2> QED
    BY <2>7, <2>12, <2>13 DEF s
<1>5. CASE ~Known(k) /\ ~(Len(order) >= MaxBuckets)
  <2>1. s = Append(order, k)
    BY <1>5 DEF Touched
  <2> HIDE DEF s
  <2>2. /\ s \in Seq(Keys) /\ Len(s) = Len(order) + 1 /\ Distinct(s) /\ Occurs(s, k)
        /\ \A x \in Keys \ {k} : Occurs(s, x) <=> Occurs(order, x)
        /\ \A y \in Keys : ~Precedes(s, k, y)
        /\ \A x \in Keys \ {k}, y \in Keys :
             Precedes(s, x, y) <=> Precedes(order, x, y) \/ (y = k /\ Occurs(order, x))
    BY <1>2, <1>5, <2>1, AtTheEnd
  <2>3. Len(s) <= MaxBuckets
    BY <1>1, <1>5, <2>2
  <2> QED
    BY <2>2, <2>3 DEF s
<1> QED
  BY <1>3, <1>4, <1>5

-----------------------------------------------------------------------------
(* The history of decisions, and what one more decision adds to it.  The   *)
(* operators of the module read decisions; these take any history s.       *)

DecisionSet == [key : Keys, now : Nat, at : Nat, allowed : BOOLEAN, retry : Nat]

Uses(s, k, i, j) == {m \in i..j : s[m].key = k}
Granted(s, k, i, j) == {m \in Uses(s, k, i, j) : s[m].allowed}
Between(s, a, b) == {s[m].key : m \in (a + 1)..(b - 1)}
StaysInUse(s, k, i, j) ==
  \A a, b \in Uses(s, k, i, j) :
    (a < b /\ Uses(s, k, a + 1, b - 1) = {}) => Cardinality(Between(s, a, b)) < MaxBuckets
Readings(s, k, i, j) == {s[m].now : m \in Uses(s, k, i, j)}

\* The keys used since decision l, and whether l is the last one of its key.
Since(s, l) == Between(s, l, Len(s) + 1)
IsLast(s, k, l) == l \in Uses(s, k, 1, Len(s)) /\ Uses(s, k, l + 1, Len(s)) = {}

\* On decisions they are those of the module.
LEMMA SameHistory ==
  /\ \A k, i, j : /\ Of(k, i, j) = Uses(decisions, k, i, j)
                  /\ Grants(k, i, j) = Cardinality(Granted(decisions, k, i, j))
                  /\ InUse(k, i, j) <=> StaysInUse(decisions, k, i, j)
  /\ \A k, j : LastReading(k, j) = Max(Readings(decisions, k, 1, j))
BY DEF Of, Uses, Grants, Granted, InUse, StaysInUse, Between, LastReading, Readings

\* u is the history s with the decision d at its end, at n + 1.
Longer(s, d, u, n) ==
  /\ n \in Nat /\ Len(s) = n /\ Len(u) = n + 1
  /\ \A m \in 1..n : u[m] = s[m] /\ s[m] \in DecisionSet
  /\ u[n + 1] = d /\ d \in DecisionSet

\* Appending a decision makes a longer history.
LEMMA AppendedIsLonger ==
  ASSUME NEW s \in Seq(DecisionSet), NEW d \in DecisionSet
  PROVE  Longer(s, d, Append(s, d), Len(s)) /\ Append(s, d) \in Seq(DecisionSet)
BY DEF Longer

\* Nothing changes in the past.
LEMMA PastStays ==
  ASSUME NEW s, NEW d, NEW u, NEW n, Longer(s, d, u, n),
         NEW x, NEW i \in 1..(n + 1), NEW j \in 0..n
  PROVE  /\ Uses(u, x, i, j) = Uses(s, x, i, j)
         /\ Granted(u, x, i, j) = Granted(s, x, i, j)
         /\ Readings(u, x, i, j) = Readings(s, x, i, j)
<1>1. \A m \in i..j : u[m] = s[m]
  BY SMT DEF Longer
<1>2. Uses(u, x, i, j) = Uses(s, x, i, j) /\ \A m \in Uses(s, x, i, j) : u[m] = s[m]
  BY <1>1 DEF Uses
<1>3. Granted(u, x, i, j) = Granted(s, x, i, j)
  BY <1>2 DEF Granted
<1>4. Readings(u, x, i, j) = Readings(s, x, i, j)
  BY <1>2 DEF Readings
<1> QED
  BY <1>2, <1>3, <1>4

\* The new decision is one more use of its own key, and of no other.
LEMMA OneMoreUse ==
  ASSUME NEW s, NEW d, NEW u, NEW n, Longer(s, d, u, n), NEW x, NEW i \in 1..(n + 1)
  PROVE  /\ x = d.key => /\ Uses(u, x, i, n + 1) = Uses(s, x, i, n) \cup {n + 1}
                         /\ Readings(u, x, i, n + 1) = Readings(s, x, i, n) \cup {d.now}
         /\ x # d.key => /\ Uses(u, x, i, n + 1) = Uses(s, x, i, n)
                         /\ Readings(u, x, i, n + 1) = Readings(s, x, i, n)
         /\ Uses(s, x, i, n) \subseteq 1..n /\ n + 1 \notin 1..n /\ u[n + 1] = d
         /\ \A m \in 1..n : u[m] = s[m]
<1>1. i..(n + 1) = (i..n) \cup {n + 1} /\ i..n \subseteq 1..n /\ n + 1 \notin 1..n
  BY SMT DEF Longer
<1>2. u[n + 1] = d /\ \A m \in 1..n : u[m] = s[m]
  BY DEF Longer
<1>3. Uses(s, x, i, n) \subseteq 1..n
  BY <1>1 DEF Uses
<1>4. CASE x = d.key
  <2>1. Uses(u, x, i, n + 1) = Uses(s, x, i, n) \cup {n + 1}
    BY <1>1, <1>2, <1>4, Zenon DEF Uses
  <2>2. Readings(u, x, i, n + 1) = Readings(s, x, i, n) \cup {d.now}
    <3>1. \A m \in Uses(s, x, i, n) : u[m].now = s[m].now
      BY <1>2, <1>3
    <3>2. \A r : r \in Readings(u, x, i, n + 1) <=>
                   r = u[n + 1].now \/ \E m \in Uses(s, x, i, n) : r = u[m].now
      BY <2>1 DEF Readings
    <3>3. \A r : r \in Readings(s, x, i, n) <=> \E m \in Uses(s, x, i, n) : r = s[m].now
      BY DEF Readings
    <3> QED
      BY <1>2, <3>1, <3>2, <3>3
  <2> QED
    BY <1>1, <1>2, <1>3, <1>4, <2>1, <2>2
<1>5. CASE x # d.key
  <2>1. Uses(u, x, i, n + 1) = Uses(s, x, i, n)
    BY <1>1, <1>2, <1>5, Zenon DEF Uses
  <2>2. Readings(u, x, i, n + 1) = Readings(s, x, i, n)
    BY <1>2, <1>3, <2>1, Zenon DEF Readings
  <2> QED
    BY <1>1, <1>2, <1>3, <1>5, <2>1, <2>2
<1> QED
  BY <1>4, <1>5

\* The uses and the grants of a key between two decisions can be counted.
LEMMA UsesAreFinite ==
  ASSUME NEW s, NEW x, NEW i \in Int, NEW j \in Int
  PROVE  /\ Uses(s, x, i, j) \subseteq i..j
         /\ IsFiniteSet(Uses(s, x, i, j))
         /\ IsFiniteSet(Granted(s, x, i, j)) /\ Granted(s, x, i, j) \subseteq Uses(s, x, i, j)
         /\ Cardinality(Granted(s, x, i, j)) \in Nat
<1>1. IsFiniteSet(i..j) /\ Uses(s, x, i, j) \subseteq i..j
  BY FS_Interval DEF Uses
<1>2. Granted(s, x, i, j) \subseteq Uses(s, x, i, j)
  BY DEF Granted
<1>3. IsFiniteSet(Uses(s, x, i, j))
  BY <1>1, FS_Subset
<1>4. IsFiniteSet(Granted(s, x, i, j))
  BY <1>2, <1>3, FS_Subset
<1> QED
  BY <1>1, <1>2, <1>3, <1>4, FS_CardinalityType

\* The new decision counts as a grant of its own key if it is one.
LEMMA GrantsGrow ==
  ASSUME NEW s, NEW d, NEW u, NEW n, Longer(s, d, u, n), NEW x, NEW i \in 1..(n + 1)
  PROVE  /\ (x = d.key /\ d.allowed) =>
              Cardinality(Granted(u, x, i, n + 1)) = Cardinality(Granted(s, x, i, n)) + 1
         /\ ~(x = d.key /\ d.allowed) =>
              Cardinality(Granted(u, x, i, n + 1)) = Cardinality(Granted(s, x, i, n))
         /\ Cardinality(Granted(s, x, i, n)) \in Nat
<1>1. /\ x = d.key => Uses(u, x, i, n + 1) = Uses(s, x, i, n) \cup {n + 1}
      /\ x # d.key => Uses(u, x, i, n + 1) = Uses(s, x, i, n)
      /\ Uses(s, x, i, n) \subseteq 1..n /\ n + 1 \notin 1..n /\ u[n + 1] = d
      /\ \A m \in 1..n : u[m] = s[m]
  BY OneMoreUse
<1>2. /\ IsFiniteSet(Granted(s, x, i, n)) /\ Cardinality(Granted(s, x, i, n)) \in Nat
      /\ n + 1 \notin Granted(s, x, i, n)
  <2>1. i \in Int /\ n \in Int
    BY DEF Longer
  <2> QED
    BY <1>1, <2>1, UsesAreFinite
<1>3. CASE x = d.key /\ d.allowed
  <2>1. Granted(u, x, i, n + 1) = Granted(s, x, i, n) \cup {n + 1}
    BY <1>1, <1>3, Zenon DEF Granted
  <2>2. Cardinality(Granted(s, x, i, n) \cup {n + 1}) = Cardinality(Granted(s, x, i, n)) + 1
    BY <1>2, FS_AddElement
  <2> QED
    BY <1>2, <1>3, <2>1, <2>2
<1>4. CASE ~(x = d.key /\ d.allowed)
  <2>1. Granted(u, x, i, n + 1) = Granted(s, x, i, n)
    BY <1>1, <1>4, Zenon DEF Granted
  <2> QED
    BY <1>2, <1>4, <2>1
<1> QED
  BY <1>3, <1>4

\* A key stays in use as long as it comes back before MaxBuckets others.
LEMMA UseStays ==
  ASSUME NEW s, NEW d, NEW u, NEW n, Longer(s, d, u, n),
         NEW x, NEW i \in 1..(n + 1), NEW j \in 0..n
  PROVE  StaysInUse(u, x, i, j) <=> StaysInUse(s, x, i, j)
<1>1. Uses(u, x, i, j) = Uses(s, x, i, j)
  BY PastStays
<1>2. ASSUME NEW a \in Uses(s, x, i, j), NEW b \in Uses(s, x, i, j)
      PROVE  Between(u, a, b) = Between(s, a, b) /\ Uses(u, x, a + 1, b - 1) = Uses(s, x, a + 1, b - 1)
  <2>1. n \in Nat /\ \A m \in 1..n : u[m] = s[m]
    BY DEF Longer
  <2>2. a \in 1..n /\ b \in 1..n
    BY <2>1, SMT DEF Uses
  <2>3. a + 1 \in 1..(n + 1) /\ b - 1 \in 0..n /\ (a + 1)..(b - 1) \subseteq 1..n
    BY <2>1, <2>2, SMT
  <2>4. Between(u, a, b) = Between(s, a, b)
    BY <2>1, <2>3 DEF Between
  <2>5. Uses(u, x, a + 1, b - 1) = Uses(s, x, a + 1, b - 1)
    BY <2>3, PastStays
  <2> QED
    BY <2>4, <2>5
<1> QED
  BY <1>1, <1>2 DEF StaysInUse

\* If a key is in use up to the new decision it was before, and, if the decision
\* is its own, fewer than MaxBuckets others have come since its last use.
LEMMA UseGrows ==
  ASSUME NEW s, NEW d, NEW u, NEW n, Longer(s, d, u, n),
         NEW x, NEW i \in 1..(n + 1), StaysInUse(u, x, i, n + 1)
  PROVE  /\ StaysInUse(s, x, i, n)
         /\ x = d.key => \A l \in Uses(s, x, i, n) :
              Uses(s, x, l + 1, n) = {} => Cardinality(Since(s, l)) < MaxBuckets
<1>1. /\ n \in Nat /\ Len(s) = n /\ \A m \in 1..n : u[m] = s[m]
      /\ n \in 0..n
  BY DEF Longer
<1>2. Uses(u, x, i, n) = Uses(s, x, i, n)
  BY <1>1, PastStays
<1>3. /\ x = d.key => Uses(u, x, i, n + 1) = Uses(s, x, i, n) \cup {n + 1}
      /\ x # d.key => Uses(u, x, i, n + 1) = Uses(s, x, i, n)
      /\ Uses(s, x, i, n) \subseteq 1..n
  BY OneMoreUse
<1>4. StaysInUse(u, x, i, n)
  <2>1. Uses(u, x, i, n) \subseteq Uses(u, x, i, n + 1)
    BY <1>2, <1>3
  <2> QED
    BY <2>1 DEF StaysInUse
<1>5. StaysInUse(s, x, i, n)
  BY <1>1, <1>4, UseStays
<1>6. ASSUME x = d.key, NEW l \in Uses(s, x, i, n), Uses(s, x, l + 1, n) = {}
      PROVE  Cardinality(Since(s, l)) < MaxBuckets
  <2>1. l \in 1..n
    BY <1>3
  <2>2. l < n + 1 /\ (n + 1) - 1 = n /\ l + 1 \in 1..(n + 1) /\ (l + 1)..n \subseteq 1..n
    BY <1>1, <2>1, SMT
  <2>3. l \in Uses(u, x, i, n + 1) /\ n + 1 \in Uses(u, x, i, n + 1)
    BY <1>3, <1>6
  <2>4. Uses(u, x, l + 1, n) = {}
    BY <1>1, <1>6, <2>2, PastStays
  <2>5. Cardinality(Between(u, l, n + 1)) < MaxBuckets
    <3>1. Uses(u, x, l + 1, (n + 1) - 1) = {}
      BY <2>2, <2>4
    <3> QED
      BY <2>2, <2>3, <3>1, Zenon DEF StaysInUse
  <2>6. Between(u, l, n + 1) = Between(s, l, n + 1)
    BY <1>1, <2>2 DEF Between
  <2> QED
    BY <1>1, <2>5, <2>6 DEF Since
<1> QED
  BY <1>5, <1>6

\* The key of the new decision is one of those used since any older one.
LEMMA SinceGrows ==
  ASSUME NEW s, NEW d, NEW u, NEW n, Longer(s, d, u, n)
  PROVE  /\ \A l \in 1..n : Since(u, l) = Since(s, l) \cup {d.key}
         /\ Since(u, n + 1) = {}
<1>1. /\ n \in Nat /\ Len(s) = n /\ Len(u) = n + 1
      /\ \A m \in 1..n : u[m] = s[m]
      /\ u[n + 1] = d
  BY DEF Longer
<1>2. ASSUME NEW l \in 1..n
      PROVE  Since(u, l) = Since(s, l) \cup {d.key}
  <2>1. /\ (l + 1)..((n + 1 + 1) - 1) = ((l + 1)..((n + 1) - 1)) \cup {n + 1}
        /\ (l + 1)..((n + 1) - 1) \subseteq 1..n
    BY <1>1, SMT
  <2>2. Since(u, l) = {u[m].key : m \in (l + 1)..((n + 1 + 1) - 1)}
    BY <1>1 DEF Since, Between
  <2>3. Since(s, l) = {s[m].key : m \in (l + 1)..((n + 1) - 1)}
    BY <1>1 DEF Since, Between
  <2>4. {u[m].key : m \in ((l + 1)..((n + 1) - 1)) \cup {n + 1}}
          = {s[m].key : m \in (l + 1)..((n + 1) - 1)} \cup {d.key}
    <3> DEFINE I == (l + 1)..((n + 1) - 1)
    <3>1. \A m \in I : u[m].key = s[m].key
      BY <1>1, <2>1
    <3>2. u[n + 1].key = d.key
      BY <1>1
    <3> HIDE DEF I
    <3>3. {u[m].key : m \in I \cup {n + 1}} = {s[m].key : m \in I} \cup {d.key}
      BY <3>1, <3>2
    <3> QED
      BY <3>3 DEF I
  <2> QED
    BY <2>1, <2>2, <2>3, <2>4
<1>3. Since(u, n + 1) = {}
  <2>1. (n + 1 + 1)..((n + 1 + 1) - 1) = {}
    BY <1>1, SMT
  <2> QED
    BY <1>1, <2>1 DEF Since, Between
<1> QED
  BY <1>2, <1>3

\* The new decision is the last one of its key; the others keep theirs.
LEMMA LastGrows ==
  ASSUME NEW s, NEW d, NEW u, NEW n, Longer(s, d, u, n), NEW x, NEW l
  PROVE  /\ IsLast(u, x, l) <=> IF x = d.key THEN l = n + 1 ELSE IsLast(s, x, l)
         /\ IsLast(s, x, l) => l \in 1..n /\ s[l].key = x
<1>1. /\ n \in Nat /\ Len(s) = n /\ Len(u) = n + 1 /\ 1 \in 1..(n + 1)
  BY DEF Longer
<1>2. /\ x = d.key => Uses(u, x, 1, n + 1) = Uses(s, x, 1, n) \cup {n + 1}
      /\ x # d.key => Uses(u, x, 1, n + 1) = Uses(s, x, 1, n)
      /\ Uses(s, x, 1, n) \subseteq 1..n
  BY <1>1, OneMoreUse
<1>3. CASE l = n + 1
  <2>1. n + 1 + 1 \in Int /\ (n + 1 + 1)..(n + 1) = {} /\ n + 1 \notin 1..n
    BY <1>1, SMT
  <2>2. Uses(u, x, l + 1, n + 1) = {}
    BY <1>3, <2>1 DEF Uses
  <2> QED
    BY <1>1, <1>2, <1>3, <2>1, <2>2, Zenon DEF IsLast
<1>4. CASE l \in 1..n
  <2>1. l + 1 \in 1..(n + 1) /\ l # n + 1
    BY <1>1, <1>4, SMT
  <2>2. /\ x = d.key => Uses(u, x, l + 1, n + 1) = Uses(s, x, l + 1, n) \cup {n + 1}
        /\ x # d.key => Uses(u, x, l + 1, n + 1) = Uses(s, x, l + 1, n)
    BY <2>1, OneMoreUse
  <2>3. ASSUME x = d.key PROVE ~IsLast(u, x, l)
    <3>1. n + 1 \in Uses(u, x, l + 1, n + 1)
      BY <2>2, <2>3
    <3> QED
      BY <1>1, <3>1 DEF IsLast
  <2>4. ASSUME x # d.key PROVE IsLast(u, x, l) <=> IsLast(s, x, l)
    <3>1. Uses(u, x, l + 1, n + 1) = Uses(s, x, l + 1, n)
      BY <2>2, <2>4
    <3>2. Uses(u, x, 1, n + 1) = Uses(s, x, 1, n)
      BY <1>2, <2>4
    <3> QED
      BY <1>1, <3>1, <3>2 DEF IsLast
  <2>5. IsLast(u, x, l) <=> IF x = d.key THEN l = n + 1 ELSE IsLast(s, x, l)
    BY <2>1, <2>3, <2>4
  <2> QED
    BY <1>1, <2>5 DEF IsLast, Uses
<1>5. CASE l \notin 1..n /\ l # n + 1
  BY <1>1, <1>2, <1>5 DEF IsLast
<1>6. IsLast(s, x, l) => l \in 1..n /\ s[l].key = x
  BY <1>1 DEF IsLast, Uses
<1> QED
  BY <1>3, <1>4, <1>5, <1>6

\* The uses of a key have a last one.
LEMMA LastExists ==
  ASSUME NEW s \in Seq(DecisionSet), NEW x, NEW i \in 1..Len(s), Uses(s, x, i, Len(s)) # {}
  PROVE  \E l \in Uses(s, x, i, Len(s)) : IsLast(s, x, l) /\ Uses(s, x, l + 1, Len(s)) = {}
<1> DEFINE n == Len(s)
           S == Uses(s, x, i, n)
<1>1. n \in Nat /\ S \subseteq Nat /\ S # {} /\ \A m \in S : m <= n /\ i <= m
  BY DEF Uses
<1>2. PICK l \in S : \A m \in S : m <= l
  <2> HIDE DEF S, n
  <2> QED
    BY <1>1, LargestExists
<1>3. Uses(s, x, l + 1, n) = {}
  <2>1. \A m \in Uses(s, x, l + 1, n) : m \in S /\ ~(m <= l)
    BY <1>1 DEF Uses
  <2> QED
    BY <1>2, <2>1
<1>4. l \in Uses(s, x, 1, n)
  BY <1>1 DEF Uses
<1> QED
  BY <1>3, <1>4 DEF IsLast

\* The readings of a key have a largest one, that Max finds.
LEMMA LatestReading ==
  ASSUME NEW s, NEW x, NEW i, NEW j, Uses(s, x, i, j) # {},
         NEW b \in Nat, \A m \in Uses(s, x, i, j) : s[m].now \in 0..b
  PROVE  LET M == Max(Readings(s, x, i, j))
         IN  /\ M \in Readings(s, x, i, j) /\ M \in Nat
             /\ \A m \in Uses(s, x, i, j) : s[m].now <= M
<1> DEFINE R == Readings(s, x, i, j)
<1>1. /\ R \subseteq Nat /\ R # {} /\ \A y \in R : y <= b
      /\ \A m \in Uses(s, x, i, j) : s[m].now \in R
  BY DEF Readings
<1> HIDE DEF R
<1>2. PICK M \in R : \A y \in R : y <= M
  BY <1>1, LargestExists
<1>3. \A y \in R : M >= y
  BY <1>1, <1>2
<1>4. Max(R) \in R /\ \A y \in R : Max(R) >= y
  BY <1>2, <1>3 DEF Max
<1> QED
  BY <1>1, <1>4 DEF R

\* The largest of the readings with one more.
LEMMA LatestGrows ==
  ASSUME NEW R \in SUBSET Nat, NEW b \in Nat, \A y \in R : y <= b, NEW r \in Nat
  PROVE  /\ Max(R \cup {r}) \in Nat
         /\ R # {} => /\ Max(R) \in Nat
                      /\ Max(R \cup {r}) = Larger(Max(R), r)
         /\ r <= Max(R \cup {r})
<1> DEFINE T == R \cup {r}
<1>1. \A x \in T : x <= Larger(b, r)
  BY DEF Larger
<1>2. T \in SUBSET Nat /\ T # {} /\ Larger(b, r) \in Nat
  BY DEF Larger
<1>3. PICK M \in T : \A y \in T : y <= M
  BY <1>1, <1>2, LargestExists
<1>4. \A y \in T : M >= y
  BY <1>2, <1>3
<1>5. Max(T) \in T /\ \A y \in T : Max(T) >= y
  BY <1>3, <1>4 DEF Max
<1>6. ASSUME R # {}
      PROVE  Max(R) \in R /\ \A y \in R : Max(R) >= y
  <2>1. PICK N \in R : \A y \in R : y <= N
    BY <1>6, LargestExists
  <2>2. \A y \in R : N >= y
    BY <2>1
  <2> QED
    BY <2>1, <2>2 DEF Max
<1>7. Max(T) \in Nat /\ r <= Max(T)
  BY <1>2, <1>5
<1>8. ASSUME R # {}
      PROVE  Max(R) \in Nat /\ Max(T) = Larger(Max(R), r)
  <2>1. Max(R) \in Nat /\ Max(R) \in T /\ r \in T
    BY <1>6, <1>8
  <2>2. Max(T) >= Max(R) /\ Max(T) >= r
    BY <1>5, <2>1
  <2>3. Max(T) = r \/ Max(R) >= Max(T)
    BY <1>5, <1>6, <1>8
  <2> HIDE DEF T
  <2> QED
    BY <1>7, <2>1, <2>2, <2>3 DEF Larger
<1> QED
  BY <1>7, <1>8

-----------------------------------------------------------------------------
(* The state of the table, and what a decision does to it.                 *)

BucketTypeOK ==
  /\ monotonic \in Nat
  /\ calling \in [Threads -> [key : Keys, now : 0..monotonic] \cup {NoCall}]
  /\ order \in Seq(Keys) /\ Distinct(order) /\ Len(order) <= MaxBuckets
  /\ tokens \in [Keys -> 0..Full]
  /\ updatedAt \in [Keys -> 0..monotonic]
  /\ decisions \in Seq(DecisionSet)
  /\ \A m \in 1..Len(decisions) : decisions[m].now \in 0..monotonic

PerSecond == Capacity * TicksPerSecond

\* The constants of the limit are positive, and a full bucket holds a token.
LEMMA Constants ==
  /\ Capacity \in Nat \ {0} /\ Cost \in Nat \ {0} /\ MaxBuckets \in Nat \ {0}
  /\ PerSecond \in Nat \ {0} /\ TicksPerSecond \in Nat \ {0}
  /\ Full \in Nat /\ Full >= Cost /\ Full = Capacity * Cost
<1>1. /\ Capacity \in Nat \ {0} /\ Window \in Nat \ {0} /\ TicksPerSecond \in Nat \ {0}
      /\ MaxBuckets \in Nat \ {0}
  BY BucketAssumptions
<1>2. Window * TicksPerSecond \in Nat \ {0} /\ Capacity * TicksPerSecond \in Nat \ {0}
  BY <1>1, SMT
<1>3. Cost \in Nat \ {0} /\ PerSecond \in Nat \ {0} /\ Full = Capacity * Cost
  BY <1>2 DEF Cost, PerSecond, Full
<1>4. \A c \in Nat \ {0}, w \in Nat \ {0} : c * w \in Nat /\ c * w >= w
  BY SMT
<1> QED
  BY <1>1, <1>3, <1>4

\* A key is known if it occurs in the order.
LEMMA KnownOccurs ==
  ASSUME BucketTypeOK, NEW k
  PROVE  Known(k) <=> Occurs(order, k)
<1>1. Len(order) \in Nat /\ DOMAIN order = 1..Len(order)
  BY DEF BucketTypeOK
<1> QED
  BY <1>1 DEF Known, Contains, Occurs

\* What is refilled: nothing for an old reading, a full bucket for a new key.
LEMMA Refill ==
  ASSUME BucketTypeOK, NEW k \in Keys, NEW now \in 0..monotonic
  PROVE  LET units == Refilled(k, now)
             at == RefilledAt(k, now)
         IN  /\ units \in 0..Full /\ at \in 0..monotonic /\ at >= now
             /\ ~Occurs(order, k) => units = Full /\ at = now
             /\ Occurs(order, k) =>
                  /\ now <= updatedAt[k] => units = tokens[k] /\ at = updatedAt[k]
                  /\ now >= updatedAt[k] =>
                       /\ at = now
                       /\ units = Smaller(Full, tokens[k] + Capacity * (now - updatedAt[k]))
<1>1. /\ monotonic \in Nat /\ tokens[k] \in 0..Full /\ updatedAt[k] \in 0..monotonic
      /\ now \in 0..monotonic
  BY DEF BucketTypeOK
<1>2. Capacity \in Nat /\ Full \in Nat
  BY Constants
<1>3. Known(k) <=> Occurs(order, k)
  BY KnownOccurs
<1>4. CASE ~Occurs(order, k)
  <2>1. Refilled(k, now) = Full /\ RefilledAt(k, now) = now
    BY <1>3, <1>4 DEF Refilled, RefilledAt
  <2> QED
    BY <1>1, <1>2, <1>4, <2>1
<1>5. CASE Occurs(order, k) /\ now <= updatedAt[k]
  <2>1. Larger(0, now - updatedAt[k]) = 0 /\ Larger(updatedAt[k], now) = updatedAt[k]
    BY <1>1, <1>5 DEF Larger
  <2>2. Capacity * 0 = 0
    BY <1>2
  <2>3. Refilled(k, now) = Smaller(Full, tokens[k] + 0) /\ RefilledAt(k, now) = updatedAt[k]
    BY <1>3, <1>5, <2>1, <2>2 DEF Refilled, RefilledAt
  <2>4. Smaller(Full, tokens[k] + 0) = tokens[k]
    BY <1>1, <1>2 DEF Smaller
  <2>5. now >= updatedAt[k] => /\ updatedAt[k] = now
                               /\ Smaller(Full, tokens[k] + Capacity * (now - updatedAt[k])) = tokens[k]
    <3>1. now >= updatedAt[k] => updatedAt[k] = now /\ now - updatedAt[k] = 0
      BY <1>1, <1>5
    <3> QED
      BY <2>2, <2>4, <3>1
  <2> QED
    BY <1>1, <1>2, <1>5, <2>3, <2>4, <2>5
<1>6. CASE Occurs(order, k) /\ ~(now <= updatedAt[k])
  <2> DEFINE g == now - updatedAt[k]
  <2>1. Larger(0, g) = g /\ Larger(updatedAt[k], now) = now /\ g \in Nat
    BY <1>1, <1>6 DEF Larger
  <2>2. Capacity * g \in Nat
    BY <1>2, <2>1
  <2>3. /\ Refilled(k, now) = Smaller(Full, tokens[k] + Capacity * g)
        /\ RefilledAt(k, now) = now
    BY <1>3, <1>6, <2>1 DEF Refilled, RefilledAt
  <2> HIDE DEF g
  <2>4. Smaller(Full, tokens[k] + Capacity * g) \in 0..Full
    BY <1>1, <1>2, <2>2 DEF Smaller
  <2> QED
    BY <1>1, <1>6, <2>3, <2>4 DEF g
<1> QED
  BY <1>4, <1>5, <1>6

\* A decision d of a caller who found units in the bucket.
Deciding(d, units) ==
  /\ d \in DecisionSet /\ d.at = monotonic /\ d.now \in 0..monotonic
  /\ units = Refilled(d.key, d.now) /\ units \in 0..Full
  /\ d.allowed <=> units >= Cost
  /\ ~d.allowed => /\ d.retry \in Nat \ {0}
                   /\ units + PerSecond * d.retry >= Cost
                   /\ units + PerSecond * (d.retry - 1) < Cost
  /\ order' = Touched(d.key)
  /\ \A x \in Keys : x # d.key => tokens'[x] = tokens[x] /\ updatedAt'[x] = updatedAt[x]
  /\ tokens'[d.key] = IF d.allowed THEN units - Cost ELSE units
  /\ updatedAt'[d.key] = RefilledAt(d.key, d.now)
  /\ Longer(decisions, d, decisions', Len(decisions))
  /\ monotonic' = monotonic

\* RetryAfter is the smallest number of seconds that refills what is missing.
LEMMA RetryIsCeiling ==
  ASSUME NEW units \in Nat, units < Cost
  PROVE  LET q == RetryAfter(units)
         IN  /\ q \in Nat \ {0} /\ units + PerSecond * q >= Cost
             /\ units + PerSecond * (q - 1) < Cost
<1> DEFINE x == Cost - units
           p == PerSecond
           q == (x + p - 1) \div p
<1>1. x \in Nat \ {0} /\ p \in Nat \ {0}
  <2>1. Cost \in Nat /\ PerSecond \in Nat \ {0}
    BY Constants
  <2> QED
    BY <2>1
<1>2. q \in Nat \ {0} /\ q * p >= x /\ (q - 1) * p < x
  <2> HIDE DEF x, p
  <2> QED
    BY <1>1, Ceiling
<1>3. RetryAfter(units) = Larger(1, q)
  BY DEF RetryAfter, PerSecond
<1> HIDE DEF q
<1>4. Larger(1, q) = q
  BY <1>2 DEF Larger
<1>5. p * q = q * p /\ p * (q - 1) = (q - 1) * p /\ q * p \in Int /\ (q - 1) * p \in Int
  <2> HIDE DEF p, x
  <2> QED
    BY <1>1, <1>2
<1>6. Cost \in Nat
  BY Constants
<1>7. units + PerSecond * q >= Cost /\ units + PerSecond * (q - 1) < Cost
  <2>1. \A a, b \in Int : (a >= Cost - units /\ b < Cost - units) =>
                            units + a >= Cost /\ units + b < Cost
    BY <1>6
  <2> QED
    BY <1>2, <1>5, <2>1
<1> QED
  BY <1>2, <1>3, <1>4, <1>7

\* The step of the code makes a decision.
LEMMA DecideDecides ==
  ASSUME BucketTypeOK, NEW t \in Threads, Decide(t)
  PROVE  \E d \in DecisionSet : \E units \in 0..Full : Deciding(d, units)
<1> DEFINE k == calling[t].key
           now == calling[t].now
           units == Refilled(k, now)
           d == [key |-> k, now |-> now, at |-> monotonic, allowed |-> Allowed(units),
                 retry |-> IF Allowed(units) THEN 0 ELSE RetryAfter(units)]
<1>1. k \in Keys /\ now \in 0..monotonic
  BY DEF BucketTypeOK, Decide
<1>2. units \in 0..Full /\ units \in Nat /\ now \in Nat /\ monotonic \in Nat
  <2>1. Full \in Nat /\ monotonic \in Nat
    BY Constants DEF BucketTypeOK
  <2> QED
    BY <1>1, <2>1, Refill
<1>3. /\ order' = Touched(k)
      /\ updatedAt' = [updatedAt EXCEPT ![k] = RefilledAt(k, now)]
      /\ tokens' = [tokens EXCEPT ![k] = IF Allowed(units) THEN units - Cost ELSE units]
      /\ decisions' = Append(decisions, d) /\ monotonic' = monotonic
  BY DEF Decide
<1> HIDE DEF k, now, units
<1>4. Allowed(units) \in BOOLEAN /\ (Allowed(units) <=> units >= Cost)
  BY DEF Allowed
<1>5. ~Allowed(units) => /\ RetryAfter(units) \in Nat \ {0}
                         /\ units + PerSecond * RetryAfter(units) >= Cost
                         /\ units + PerSecond * (RetryAfter(units) - 1) < Cost
  <2>1. Cost \in Nat
    BY Constants
  <2>2. ~Allowed(units) => units < Cost
    BY <1>2, <1>4, <2>1
  <2> QED
    BY <1>2, <2>2, RetryIsCeiling
<1>6. d \in DecisionSet
  BY <1>1, <1>2, <1>4, <1>5 DEF DecisionSet
<1>7. d.key = k /\ d.now = now /\ d.at = monotonic /\ d.allowed = Allowed(units)
      /\ (~d.allowed => d.retry = RetryAfter(units))
  OBVIOUS
<1> HIDE DEF d
<1>8. Longer(decisions, d, decisions', Len(decisions))
  BY <1>3, <1>6, AppendedIsLonger DEF BucketTypeOK
<1>9. /\ \A x \in Keys : x # k => tokens'[x] = tokens[x] /\ updatedAt'[x] = updatedAt[x]
      /\ tokens'[k] = IF Allowed(units) THEN units - Cost ELSE units
      /\ updatedAt'[k] = RefilledAt(k, now)
  BY <1>1, <1>3 DEF BucketTypeOK
<1>10. units = Refilled(k, now)
  BY DEF units
<1>11. Deciding(d, units)
  BY <1>1, <1>2, <1>3, <1>4, <1>5, <1>6, <1>7, <1>8, <1>9, <1>10 DEF Deciding
<1> QED
  BY <1>2, <1>6, <1>11

\* Every step keeps the types, and the keys of the order distinct and bounded.
LEMMA BucketTypeStep ==
  ASSUME BucketTypeOK, [BucketNext]_bucketVars
  PROVE  BucketTypeOK'
<1>1. CASE PassTime
  <2>1. monotonic \in Nat /\ monotonic' = monotonic + 1
    BY <1>1 DEF BucketTypeOK, PassTime
  <2>2. monotonic' \in Nat /\ 0..monotonic \subseteq 0..monotonic'
    BY <2>1
  <2>3. calling \in [Threads -> [key : Keys, now : 0..monotonic'] \cup {NoCall}]
    BY <2>2 DEF BucketTypeOK
  <2>4. updatedAt \in [Keys -> 0..monotonic']
    BY <2>2 DEF BucketTypeOK
  <2>5. \A m \in 1..Len(decisions) : decisions[m].now \in 0..monotonic'
    BY <2>2 DEF BucketTypeOK
  <2> QED
    BY <1>1, <2>2, <2>3, <2>4, <2>5 DEF BucketTypeOK, PassTime
<1>2. ASSUME NEW t \in Threads, NEW k \in Keys, ReadClock(t, k)
      PROVE  BucketTypeOK'
  <2>1. monotonic \in 0..monotonic
    BY DEF BucketTypeOK
  <2>2. calling' \in [Threads -> [key : Keys, now : 0..monotonic] \cup {NoCall}]
    BY <1>2, <2>1 DEF BucketTypeOK, ReadClock
  <2> QED
    BY <1>2, <2>2 DEF BucketTypeOK, ReadClock
<1>3. ASSUME NEW t \in Threads, Decide(t)
      PROVE  BucketTypeOK'
  <2>1. PICK d \in DecisionSet, units \in 0..Full : Deciding(d, units)
    BY <1>3, DecideDecides
  <2>2. d.key \in Keys /\ d.now \in 0..monotonic /\ monotonic \in Nat
    BY <2>1 DEF Deciding, DecisionSet, BucketTypeOK
  <2>3. order' \in Seq(Keys) /\ Distinct(order)' /\ Len(order') <= MaxBuckets
    <3>1. order' = Touched(d.key)
      BY <2>1 DEF Deciding
    <3>2. /\ Touched(d.key) \in Seq(Keys) /\ Distinct(Touched(d.key))
          /\ Len(Touched(d.key)) <= MaxBuckets
      BY <2>2, TouchedOrder DEF BucketTypeOK
    <3> QED
      BY <3>1, <3>2 DEF Distinct
  <2>4. /\ Refilled(calling[t].key, calling[t].now) \in 0..Full
        /\ RefilledAt(calling[t].key, calling[t].now) \in 0..monotonic
        /\ calling[t].key \in Keys
    BY <1>3, Refill DEF BucketTypeOK, Decide
  <2>5. tokens' \in [Keys -> 0..Full]
    <3> DEFINE r == Refilled(calling[t].key, calling[t].now)
    <3>1. Full \in Nat /\ Cost \in Nat
      BY Constants
    <3>2. (IF Allowed(r) THEN r - Cost ELSE r) \in 0..Full
      BY <2>4, <3>1 DEF Allowed
    <3>3. tokens' = [tokens EXCEPT ![calling[t].key] = IF Allowed(r) THEN r - Cost ELSE r]
      BY <1>3 DEF Decide
    <3> HIDE DEF r
    <3> QED
      BY <2>4, <3>2, <3>3 DEF BucketTypeOK
  <2>6. updatedAt' \in [Keys -> 0..monotonic]
    BY <1>3, <2>4 DEF BucketTypeOK, Decide
  <2>7. decisions' \in Seq(DecisionSet)
    <3>1. \E e : decisions' = Append(decisions, e)
      BY <1>3 DEF Decide
    <3>2. PICK e : decisions' = Append(decisions, e)
      BY <3>1
    <3>3. e \in DecisionSet
      <4>1. Append(decisions, e)[Len(decisions) + 1] = e
        BY DEF BucketTypeOK
      <4>2. decisions'[Len(decisions) + 1] \in DecisionSet
        BY <2>1 DEF Deciding, Longer
      <4> QED
        BY <3>2, <4>1, <4>2
    <3> QED
      BY <3>2, <3>3 DEF BucketTypeOK
  <2>8. \A m \in 1..Len(decisions') : decisions'[m].now \in 0..monotonic
    <3> DEFINE n == Len(decisions)
    <3>1. /\ Len(decisions') = n + 1 /\ n \in Nat /\ decisions'[n + 1].now = d.now
          /\ \A m \in 1..n : decisions'[m].now = decisions[m].now
      BY <2>1 DEF Deciding, Longer
    <3>2. \A m \in 1..n : decisions[m].now \in 0..monotonic
      BY DEF BucketTypeOK
    <3> HIDE DEF n
    <3>3. \A m \in 1..(n + 1) : m = n + 1 \/ m \in 1..n
      BY <3>1
    <3> QED
      BY <2>2, <3>1, <3>2, <3>3
  <2>9. calling' \in [Threads -> [key : Keys, now : 0..monotonic] \cup {NoCall}]
    BY <1>3 DEF BucketTypeOK, Decide
  <2>10. monotonic' = monotonic
    BY <1>3 DEF Decide
  <2> QED
    BY <2>2, <2>3, <2>5, <2>6, <2>7, <2>8, <2>9, <2>10 DEF BucketTypeOK
<1>4. CASE UNCHANGED bucketVars
  BY <1>4 DEF BucketTypeOK, bucketVars, Distinct
<1> QED
  BY <1>1, <1>2, <1>3, <1>4 DEF BucketNext

-----------------------------------------------------------------------------
(* The order is that of the last uses: a key of the table is followed by   *)
(* those used since its own last use, and a key that was dropped had at    *)
(* least MaxBuckets others used since.                                     *)

PlaceInv ==
  \A k \in Keys, l \in 1..Len(decisions) : IsLast(decisions, k, l) =>
    /\ IsFiniteSet(Since(decisions, l))
    /\ Occurs(order, k) => {y \in Keys : Precedes(order, k, y)} = Since(decisions, l)
    /\ ~Occurs(order, k) => Cardinality(Since(decisions, l)) >= MaxBuckets

\* A decision keeps the order that of the last uses.
LEMMA PlaceStep ==
  ASSUME BucketTypeOK, PlaceInv, NEW d, NEW units, Deciding(d, units)
  PROVE  PlaceInv'
<1> DEFINE s == decisions
           u == decisions'
           n == Len(decisions)
           q == Touched(d.key)
<1>1. Longer(s, d, u, n) /\ d.key \in Keys /\ order' = q /\ n \in Nat /\ Len(u) = n + 1
      /\ MaxBuckets \in Nat
  BY Constants DEF Deciding, Longer, DecisionSet
<1>2. /\ Occurs(q, d.key) /\ \A y \in Keys : ~Precedes(q, d.key, y)
      /\ \A x \in Keys \ {d.key} :
           \/ /\ Occurs(order, x) /\ Occurs(q, x)
              /\ \A y \in Keys : Precedes(q, x, y) <=> y = d.key \/ Precedes(order, x, y)
           \/ ~Occurs(order, x) /\ ~Occurs(q, x)
           \/ /\ ~Occurs(order, d.key) /\ Occurs(order, x) /\ ~Occurs(q, x)
              /\ IsFiniteSet({y \in Keys : Precedes(order, x, y)})
              /\ Cardinality({y \in Keys : Precedes(order, x, y)}) = MaxBuckets - 1
  BY <1>1, TouchedOrder DEF BucketTypeOK
<1>3. /\ \A l \in 1..n : Since(u, l) = Since(s, l) \cup {d.key}
      /\ Since(u, n + 1) = {}
  BY <1>1, SinceGrows
<1> HIDE DEF s, u, n, q
<1>4. ASSUME NEW k \in Keys, NEW l, IsLast(u, k, l)
      PROVE  /\ IsFiniteSet(Since(u, l))
             /\ Occurs(q, k) => {y \in Keys : Precedes(q, k, y)} = Since(u, l)
             /\ ~Occurs(q, k) => Cardinality(Since(u, l)) >= MaxBuckets
  <2>1. CASE k = d.key
    <3>1. l = n + 1
      BY <1>1, <1>4, <2>1, LastGrows
    <3>2. IsFiniteSet(Since(u, l))
      BY <1>3, <3>1, FS_EmptySet
    <3> QED
      BY <1>2, <1>3, <2>1, <3>1, <3>2
  <2>2. CASE k # d.key
    <3>1. IsLast(s, k, l) /\ l \in 1..n
      BY <1>1, <1>4, <2>2, LastGrows
    <3>2. /\ IsFiniteSet(Since(s, l))
          /\ Occurs(order, k) => {y \in Keys : Precedes(order, k, y)} = Since(s, l)
          /\ ~Occurs(order, k) => Cardinality(Since(s, l)) >= MaxBuckets
      BY <3>1 DEF PlaceInv, s, n
    <3>3. Since(u, l) = Since(s, l) \cup {d.key}
      BY <1>3, <3>1
    <3>4. /\ IsFiniteSet(Since(u, l))
          /\ Cardinality(Since(u, l)) \in Nat /\ Cardinality(Since(s, l)) \in Nat
          /\ Cardinality(Since(u, l)) >= Cardinality(Since(s, l))
          /\ d.key \notin Since(s, l) => Cardinality(Since(u, l)) = Cardinality(Since(s, l)) + 1
      <4>1. Cardinality(Since(s, l)) \in Nat
        BY <3>2, FS_CardinalityType
      <4>2. CASE d.key \in Since(s, l)
        <5>1. Since(u, l) = Since(s, l)
          BY <3>3, <4>2
        <5> QED
          BY <3>2, <4>1, <4>2, <5>1
      <4>3. CASE d.key \notin Since(s, l)
        <5>1. /\ IsFiniteSet(Since(u, l))
              /\ Cardinality(Since(u, l)) = Cardinality(Since(s, l)) + 1
          BY <3>2, <3>3, <4>3, FS_AddElement
        <5> QED
          BY <4>1, <4>3, <5>1
      <4> QED
        BY <4>2, <4>3
    <3>5. CASE /\ Occurs(order, k) /\ Occurs(q, k)
               /\ \A y \in Keys : Precedes(q, k, y) <=> y = d.key \/ Precedes(order, k, y)
      <4>1. {y \in Keys : Precedes(q, k, y)} = {y \in Keys : Precedes(order, k, y)} \cup {d.key}
        BY <1>1, <3>5
      <4> QED
        BY <3>2, <3>3, <3>4, <3>5, <4>1
    <3>6. CASE ~Occurs(order, k) /\ ~Occurs(q, k)
      <4>1. Cardinality(Since(u, l)) >= MaxBuckets
        BY <1>1, <3>2, <3>4, <3>6
      <4> QED
        BY <3>4, <3>6, <4>1
    <3>7. CASE /\ ~Occurs(order, d.key) /\ Occurs(order, k) /\ ~Occurs(q, k)
               /\ Cardinality({y \in Keys : Precedes(order, k, y)}) = MaxBuckets - 1
      <4>1. d.key \notin Since(s, l)
        <5>1. ~Precedes(order, k, d.key)
          BY <3>7 DEF Precedes, Occurs
        <5>2. {y \in Keys : Precedes(order, k, y)} = Since(s, l)
          BY <3>2, <3>7
        <5> QED
          BY <5>1, <5>2
      <4>2. Cardinality(Since(s, l)) = MaxBuckets - 1
        BY <3>2, <3>7
      <4>3. Cardinality(Since(u, l)) >= MaxBuckets
        BY <1>1, <3>4, <4>1, <4>2
      <4> QED
        BY <3>4, <3>7, <4>3
    <3> QED
      BY <1>2, <2>2, <3>5, <3>6, <3>7
  <2> QED
    BY <2>1, <2>2
<1>5. PlaceInv' <=> \A k \in Keys, l \in 1..Len(u) : IsLast(u, k, l) =>
                      /\ IsFiniteSet(Since(u, l))
                      /\ Occurs(order', k) => {y \in Keys : Precedes(order', k, y)} = Since(u, l)
                      /\ ~Occurs(order', k) => Cardinality(Since(u, l)) >= MaxBuckets
  BY DEF PlaceInv, u, Occurs, Precedes, IsLast, Since, Uses, Between
<1> QED
  BY <1>1, <1>4, <1>5

\* A key that is used again before MaxBuckets others has kept its bucket.
LEMMA StillKnown ==
  ASSUME BucketTypeOK, PlaceInv, NEW d, NEW units, Deciding(d, units),
         NEW i \in 1..Len(decisions), decisions[i].key = d.key,
         StaysInUse(decisions', d.key, i, Len(decisions) + 1)
  PROVE  Occurs(order, d.key)
<1> DEFINE s == decisions
           n == Len(decisions)
<1>1. Longer(s, d, decisions', n) /\ d.key \in Keys /\ n \in Nat /\ MaxBuckets \in Nat
  BY Constants DEF Deciding, DecisionSet, Longer
<1>2. s \in Seq(DecisionSet)
  BY DEF BucketTypeOK
<1>3. i \in Uses(s, d.key, i, n)
  BY <1>1 DEF Uses
<1> HIDE DEF s
<1>4. PICK l \in Uses(s, d.key, i, n) : IsLast(s, d.key, l) /\ Uses(s, d.key, l + 1, n) = {}
  BY <1>2, <1>3, LastExists DEF s
<1>5. Cardinality(Since(s, l)) < MaxBuckets
  <2>1. i \in 1..(n + 1)
    BY <1>1
  <2> HIDE DEF n
  <2> QED
    BY <1>1, <1>4, <2>1, UseGrows DEF n
<1>6. l \in 1..n
  BY <1>1, <1>3 DEF Uses
<1>7. /\ IsFiniteSet(Since(s, l))
      /\ ~Occurs(order, d.key) => Cardinality(Since(s, l)) >= MaxBuckets
  BY <1>1, <1>4, <1>6 DEF PlaceInv, s
<1>8. Cardinality(Since(s, l)) \in Nat
  BY <1>7, FS_CardinalityType
<1> QED
  BY <1>1, <1>5, <1>7, <1>8

-----------------------------------------------------------------------------
(* What is left in a bucket and what has been granted from it.             *)

Amount(s, k, i, j) == Cost * Cardinality(Granted(s, k, i, j))
Refilling(a, b) == Capacity * (b - a)

\* Refills of consecutive intervals add up.
LEMMA RefillingAdds ==
  /\ \A a, b \in Int : Refilling(a, b) \in Int
  /\ \A a, b, c \in Int : Refilling(a, b) + Refilling(b, c) = Refilling(a, c)
  /\ \A a, b, c \in Int : b <= c => Refilling(a, b) <= Refilling(a, c)
  /\ \A a \in Int : Refilling(a, a) = 0
<1>1. Capacity \in Nat
  BY Constants
<1>2. \A c \in Nat, a, b, e \in Int :
        /\ c * (b - a) \in Int /\ c * (b - a) + c * (e - b) = c * (e - a)
        /\ b <= e => c * (b - a) <= c * (e - a)
        /\ c * (a - a) = 0
  BY SMT
<1> QED
  BY <1>1, <1>2 DEF Refilling

\* A decision takes from the bucket what it grants, and nothing else.
LEMMA AmountGrows ==
  ASSUME BucketTypeOK, NEW d, NEW units, Deciding(d, units),
         NEW k \in Keys, NEW i \in 1..(Len(decisions) + 1)
  PROVE  LET n == Len(decisions)
         IN  /\ Amount(decisions, k, i, n) \in Nat
             /\ k # d.key => /\ Amount(decisions', k, i, n + 1) = Amount(decisions, k, i, n)
                             /\ tokens'[k] = tokens[k]
             /\ k = d.key => tokens'[k] + Amount(decisions', k, i, n + 1)
                               = units + Amount(decisions, k, i, n)
             /\ i = n + 1 => Amount(decisions, k, i, n) = 0
<1> DEFINE n == Len(decisions)
           G == Cardinality(Granted(decisions, k, i, n))
           H == Cardinality(Granted(decisions', k, i, n + 1))
<1>1. Longer(decisions, d, decisions', n) /\ units \in 0..Full
  BY DEF Deciding
<1>2. /\ (k = d.key /\ d.allowed) => H = G + 1
      /\ ~(k = d.key /\ d.allowed) => H = G
      /\ G \in Nat
  <2> HIDE DEF n
  <2> QED
    BY <1>1, GrantsGrow DEF n
<1>3. /\ tokens'[d.key] = IF d.allowed THEN units - Cost ELSE units
      /\ k # d.key => tokens'[k] = tokens[k]
  BY DEF Deciding
<1>4. Cost \in Nat /\ units \in Int
  BY <1>1, Constants
<1>5. Cost * G \in Nat /\ Cost * (G + 1) = Cost * G + Cost
  <2> HIDE DEF G
  <2> QED
    BY <1>2, <1>4
<1>6. i = n + 1 => Cost * G = 0
  <2>1. ASSUME i = n + 1 PROVE G = 0
    <3>1. n \in Nat /\ i..n = {}
      BY <1>1, <2>1 DEF Longer
    <3>2. Granted(decisions, k, i, n) = {}
      BY <3>1 DEF Granted, Uses
    <3> QED
      BY <3>2, FS_EmptySet
  <2> HIDE DEF G
  <2> QED
    BY <1>4, <2>1
<1> HIDE DEF n
<1>7. k = d.key => tokens'[k] + Cost * H = units + Cost * G
  <2>1. CASE k = d.key /\ d.allowed
    <3>1. tokens'[k] = units - Cost /\ Cost * H = Cost * G + Cost
      BY <1>2, <1>3, <1>5, <2>1
    <3> QED
      BY <1>4, <1>5, <3>1
  <2>2. CASE k = d.key /\ ~d.allowed
    BY <1>2, <1>3, <2>2
  <2> QED
    BY <2>1, <2>2
<1>8. k # d.key => Cost * H = Cost * G
  BY <1>2
<1> QED
  BY <1>3, <1>5, <1>6, <1>7, <1>8 DEF Amount, n

\* What a key in use has been granted is at most a full bucket and its refill.
SpentInv ==
  \A k \in Keys, i \in 1..Len(decisions) :
    (decisions[i].key = k /\ StaysInUse(decisions, k, i, Len(decisions))) =>
      \E m \in Uses(decisions, k, i, Len(decisions)) :
        /\ decisions[m].now <= updatedAt[k]
        /\ tokens[k] + Amount(decisions, k, i, Len(decisions))
             <= Full + Refilling(decisions[i].now, decisions[m].now)

\* A decision keeps what a key in use has spent within its rate.
LEMMA SpentStep ==
  ASSUME BucketTypeOK, PlaceInv, SpentInv, NEW d, NEW units, Deciding(d, units)
  PROVE  SpentInv'
<1> DEFINE s == decisions
           u == decisions'
           n == Len(decisions)
<1>1. /\ Longer(s, d, u, n) /\ d.key \in Keys /\ d.now \in Int /\ d.now \in 0..monotonic
      /\ units \in Int /\ units <= Full /\ Full \in Int
  BY Constants DEF Deciding, DecisionSet
<1>2. n \in Nat /\ Len(s) = n /\ Len(u) = n + 1 /\ u[n + 1] = d /\ \A m \in 1..n : u[m] = s[m]
  BY <1>1 DEF Longer
<1>3. \A m \in 1..n : s[m].now \in Int
  BY DEF BucketTypeOK
<1>4. /\ units = Refilled(d.key, d.now) /\ updatedAt'[d.key] = RefilledAt(d.key, d.now)
      /\ \A x \in Keys : x # d.key => updatedAt'[x] = updatedAt[x]
  BY DEF Deciding
<1>5. /\ updatedAt'[d.key] >= d.now
      /\ Occurs(order, d.key) =>
           /\ d.now <= updatedAt[d.key] => units = tokens[d.key] /\ updatedAt'[d.key] = updatedAt[d.key]
           /\ d.now >= updatedAt[d.key] =>
                /\ updatedAt'[d.key] = d.now
                /\ units = Smaller(Full, tokens[d.key] + Capacity * (d.now - updatedAt[d.key]))
  BY <1>1, <1>4, Refill
<1> HIDE DEF s, u, n
<1>6. ASSUME NEW k \in Keys, NEW i \in 1..(n + 1), u[i].key = k, StaysInUse(u, k, i, n + 1)
      PROVE  \E m \in Uses(u, k, i, n + 1) :
               /\ u[m].now <= updatedAt'[k]
               /\ tokens'[k] + Amount(u, k, i, n + 1) <= Full + Refilling(u[i].now, u[m].now)
  <2>1. /\ Amount(s, k, i, n) \in Nat
        /\ k # d.key => Amount(u, k, i, n + 1) = Amount(s, k, i, n) /\ tokens'[k] = tokens[k]
        /\ k = d.key => tokens'[k] + Amount(u, k, i, n + 1) = units + Amount(s, k, i, n)
        /\ i = n + 1 => Amount(s, k, i, n) = 0
    BY AmountGrows DEF s, u, n
  <2>2. /\ k = d.key => Uses(u, k, i, n + 1) = Uses(s, k, i, n) \cup {n + 1}
        /\ k # d.key => Uses(u, k, i, n + 1) = Uses(s, k, i, n)
        /\ Uses(s, k, i, n) \subseteq 1..n
    BY <1>1, OneMoreUse
  <2>3. CASE i = n + 1
    <3>1. k = d.key /\ n + 1 \in Uses(u, k, i, n + 1)
      BY <1>2, <1>6, <2>2, <2>3
    <3>2. Refilling(d.now, d.now) = 0
      BY <1>1, RefillingAdds
    <3>3. units + Amount(s, k, i, n) <= Full + Refilling(d.now, d.now)
      BY <1>1, <2>1, <2>3, <3>2
    <3> QED
      BY <1>2, <1>5, <2>1, <2>3, <3>1, <3>3
  <2>4. CASE i \in 1..n
    <3>1. s[i].key = k /\ u[i] = s[i] /\ s[i].now \in Int
      BY <1>2, <1>3, <1>6, <2>4
    <3>2. StaysInUse(s, k, i, n)
      BY <1>1, <1>6, UseGrows
    <3>3. PICK m \in Uses(s, k, i, n) :
            /\ s[m].now <= updatedAt[k]
            /\ tokens[k] + Amount(s, k, i, n) <= Full + Refilling(s[i].now, s[m].now)
      BY <2>4, <3>1, <3>2 DEF SpentInv, s, n
    <3>4. m \in 1..n /\ u[m] = s[m] /\ s[m].now \in Int /\ m \in Uses(u, k, i, n + 1)
      BY <1>2, <1>3, <2>2
    <3>5. CASE k # d.key
      BY <1>4, <2>1, <3>1, <3>3, <3>4, <3>5
    <3>6. CASE k = d.key
      <4>1. Occurs(order, k)
        BY <1>2, <1>6, <2>4, <3>1, <3>6, StillKnown DEF s, u, n
      <4>2. updatedAt[k] \in Int /\ tokens[k] \in Int
        BY DEF BucketTypeOK
      <4>3. CASE d.now <= updatedAt[k]
        <5>1. units = tokens[k] /\ updatedAt'[k] = updatedAt[k]
          BY <1>5, <3>6, <4>1, <4>3
        <5> QED
          BY <2>1, <3>1, <3>3, <3>4, <3>6, <5>1
      <4>4. CASE d.now >= updatedAt[k]
        <5>1. updatedAt'[k] = d.now
          BY <1>5, <3>6, <4>1, <4>4
        <5>2. units <= tokens[k] + Refilling(updatedAt[k], d.now)
          <6>1. Refilling(updatedAt[k], d.now) \in Int
            BY <1>1, <4>2, RefillingAdds
          <6>2. units = Smaller(Full, tokens[k] + Refilling(updatedAt[k], d.now))
            BY <1>5, <3>6, <4>1, <4>4 DEF Refilling
          <6> QED
            BY <1>1, <4>2, <6>1, <6>2 DEF Smaller
        <5>3. /\ Refilling(s[m].now, updatedAt[k]) \in Int /\ Refilling(updatedAt[k], d.now) \in Int
              /\ Refilling(s[i].now, s[m].now) \in Int /\ Refilling(s[i].now, d.now) \in Int
              /\ Refilling(s[i].now, updatedAt[k]) \in Int
              /\ Refilling(s[i].now, s[m].now) <= Refilling(s[i].now, updatedAt[k])
              /\ Refilling(s[i].now, updatedAt[k]) + Refilling(updatedAt[k], d.now)
                   = Refilling(s[i].now, d.now)
          <6>1. /\ s[m].now \in Int /\ s[i].now \in Int /\ updatedAt[k] \in Int /\ d.now \in Int
                /\ s[m].now <= updatedAt[k]
            BY <1>1, <3>1, <3>3, <3>4, <4>2
          <6> QED
            BY <6>1, RefillingAdds
        <5>4. units + Amount(s, k, i, n) <= Full + Refilling(s[i].now, d.now)
          BY <1>1, <2>1, <3>3, <4>2, <5>2, <5>3
        <5>5. n + 1 \in Uses(u, k, i, n + 1)
          BY <2>2, <3>6
        <5> QED
          BY <1>2, <1>5, <2>1, <3>1, <3>6, <5>1, <5>4, <5>5
      <4> QED
        BY <1>1, <4>2, <4>3, <4>4
    <3> QED
      BY <3>5, <3>6
  <2> QED
    BY <1>2, <2>3, <2>4
<1>7. SpentInv' <=> \A k \in Keys, i \in 1..Len(u) :
        (u[i].key = k /\ StaysInUse(u, k, i, Len(u))) =>
          \E m \in Uses(u, k, i, Len(u)) :
            /\ u[m].now <= updatedAt'[k]
            /\ tokens'[k] + Amount(u, k, i, Len(u)) <= Full + Refilling(u[i].now, u[m].now)
  BY DEF SpentInv, u, StaysInUse, Uses, Between, Amount, Granted, Refilling
<1> QED
  BY <1>2, <1>6, <1>7

\* What a known key has left, and what it has been granted since some request of
\* it, is at least a full bucket and the refill.
Latest(s, k, j) == Max(Readings(s, k, 1, j))

FairInv ==
  \A k \in Keys : Occurs(order, k) =>
    \E i \in Uses(decisions, k, 1, Len(decisions)) :
      /\ updatedAt[k] <= Latest(decisions, k, Len(decisions))
      /\ tokens[k] + Amount(decisions, k, i, Len(decisions))
           >= Full + Refilling(Latest(decisions, k, i), Latest(decisions, k, Len(decisions)))

\* The latest reading of a key changes by its own decisions only.
LEMMA LatestStep ==
  ASSUME BucketTypeOK, NEW d, NEW units, Deciding(d, units), NEW k \in Keys
  PROVE  LET s == decisions
             u == decisions'
             n == Len(decisions)
         IN  /\ \A i \in 0..n : Latest(u, k, i) = Latest(s, k, i)
             /\ \A i \in Uses(s, k, 1, n) : Latest(s, k, i) \in Int
             /\ k # d.key => Latest(u, k, n + 1) = Latest(s, k, n)
             /\ k = d.key => Latest(u, k, n + 1) \in Int /\ d.now <= Latest(u, k, n + 1)
             /\ (k = d.key /\ Uses(s, k, 1, n) # {}) =>
                  Latest(s, k, n) \in Int /\ Latest(u, k, n + 1) = Larger(Latest(s, k, n), d.now)
<1> DEFINE s == decisions
           u == decisions'
           n == Len(decisions)
           R == Readings(s, k, 1, n)
<1>1. Longer(s, d, u, n) /\ d.now \in Nat /\ n \in Nat /\ 1 \in 1..(n + 1)
  BY DEF Deciding, DecisionSet, Longer
<1>2. monotonic \in Nat /\ \A m \in 1..n : s[m].now \in 0..monotonic
  BY DEF BucketTypeOK
<1> HIDE DEF s, u, n
<1>3. \A i \in 0..n : Latest(u, k, i) = Latest(s, k, i)
  BY <1>1, PastStays DEF Latest
<1>4. R \in SUBSET Nat /\ (\A y \in R : y <= monotonic) /\ (Uses(s, k, 1, n) # {} => R # {})
  BY <1>2 DEF Readings, Uses
<1>5. ASSUME NEW i \in Uses(s, k, 1, n)
      PROVE  Latest(s, k, i) \in Int
  <2>1. i \in 1..n /\ i \in Uses(s, k, 1, i) /\ Uses(s, k, 1, i) \subseteq 1..n
    BY <1>1 DEF Uses
  <2>2. Uses(s, k, 1, i) # {} /\ \A m \in Uses(s, k, 1, i) : s[m].now \in 0..monotonic
    BY <1>2, <2>1
  <2>3. Max(Readings(s, k, 1, i)) \in Nat
    BY <1>2, <2>2, LatestReading
  <2> QED
    BY <2>3 DEF Latest
<1>6. ASSUME k # d.key
      PROVE  Latest(u, k, n + 1) = Latest(s, k, n)
  BY <1>1, <1>6, OneMoreUse DEF Latest
<1>7. ASSUME k = d.key
      PROVE  /\ Latest(u, k, n + 1) \in Int /\ d.now <= Latest(u, k, n + 1)
             /\ Uses(s, k, 1, n) # {} =>
                  Latest(s, k, n) \in Int /\ Latest(u, k, n + 1) = Larger(Latest(s, k, n), d.now)
  <2>1. Readings(u, k, 1, n + 1) = R \cup {d.now}
    BY <1>1, <1>7, OneMoreUse
  <2> HIDE DEF R
  <2>2. /\ Max(R \cup {d.now}) \in Nat /\ d.now <= Max(R \cup {d.now})
        /\ R # {} => Max(R) \in Nat /\ Max(R \cup {d.now}) = Larger(Max(R), d.now)
    BY <1>1, <1>2, <1>4, LatestGrows
  <2>3. Latest(u, k, n + 1) = Max(R \cup {d.now}) /\ Latest(s, k, n) = Max(R)
    BY <2>1 DEF Latest, R
  <2> QED
    BY <1>4, <2>2, <2>3
<1> QED
  BY <1>3, <1>5, <1>6, <1>7 DEF s, u, n

\* A request is refused only if its own key has been granted what its rate allows.
Spent(s, k, i, j) ==
  Cost * (Cardinality(Granted(s, k, i, j - 1)) + 1 - Capacity)
    > Capacity * (Latest(s, k, j) - Latest(s, k, i))

\* A decision keeps what a key has left and spent up to its rate; a refusal follows.
LEMMA FairStep ==
  ASSUME BucketTypeOK, FairInv, NEW d, NEW units, Deciding(d, units)
  PROVE  /\ FairInv'
         /\ ~d.allowed => \E i \in Uses(decisions', d.key, 1, Len(decisions)) :
                            Spent(decisions', d.key, i, Len(decisions) + 1)
<1> DEFINE s == decisions
           u == decisions'
           n == Len(decisions)
           key == d.key
<1>1. /\ Longer(s, d, u, n) /\ key \in Keys /\ d.now \in Int /\ d.now \in 0..monotonic
      /\ units \in Int /\ units <= Full /\ Full \in Int /\ Cost \in Int /\ Full >= Cost
      /\ (d.allowed <=> units >= Cost)
  BY Constants DEF Deciding, DecisionSet
<1>2. n \in Nat /\ Len(s) = n /\ Len(u) = n + 1 /\ u[n + 1] = d /\ 1 \in 1..(n + 1)
  BY <1>1 DEF Longer
<1>3. /\ units = Refilled(key, d.now) /\ updatedAt'[key] = RefilledAt(key, d.now)
      /\ \A x \in Keys : x # key => updatedAt'[x] = updatedAt[x]
      /\ order' = Touched(key)
  BY DEF Deciding
<1>4. /\ ~Occurs(order, key) => units = Full /\ updatedAt'[key] = d.now
      /\ Occurs(order, key) =>
           /\ d.now <= updatedAt[key] => units = tokens[key] /\ updatedAt'[key] = updatedAt[key]
           /\ d.now >= updatedAt[key] =>
                /\ updatedAt'[key] = d.now
                /\ units = Smaller(Full, tokens[key] + Capacity * (d.now - updatedAt[key]))
  BY <1>1, <1>3, Refill
<1>5. \A x \in Keys : updatedAt[x] \in Int /\ tokens[x] \in Int
  BY DEF BucketTypeOK
<1>6. \A k \in Keys : Occurs(order, k) =>
        \E i \in Uses(s, k, 1, n) :
          /\ updatedAt[k] <= Latest(s, k, n)
          /\ tokens[k] + Amount(s, k, i, n) >= Full + Refilling(Latest(s, k, i), Latest(s, k, n))
  BY DEF FairInv
<1>7. \A k \in Keys :
        /\ \A i \in 0..n : Latest(u, k, i) = Latest(s, k, i)
        /\ \A i \in Uses(s, k, 1, n) : Latest(s, k, i) \in Int
        /\ k # key => Latest(u, k, n + 1) = Latest(s, k, n)
        /\ k = key => Latest(u, k, n + 1) \in Int /\ d.now <= Latest(u, k, n + 1)
        /\ (k = key /\ Uses(s, k, 1, n) # {}) =>
             Latest(s, k, n) \in Int /\ Latest(u, k, n + 1) = Larger(Latest(s, k, n), d.now)
  BY LatestStep
<1>8. \A k \in Keys :
        /\ k = key => Uses(u, k, 1, n + 1) = Uses(s, k, 1, n) \cup {n + 1}
        /\ k # key => Uses(u, k, 1, n + 1) = Uses(s, k, 1, n)
        /\ Uses(s, k, 1, n) \subseteq 1..n
  BY <1>1, <1>2, OneMoreUse
<1>9. \A k \in Keys, i \in 1..(n + 1) :
        /\ Amount(s, k, i, n) \in Nat
        /\ k # key => Amount(u, k, i, n + 1) = Amount(s, k, i, n) /\ tokens'[k] = tokens[k]
        /\ k = key => tokens'[k] + Amount(u, k, i, n + 1) = units + Amount(s, k, i, n)
        /\ i = n + 1 => Amount(s, k, i, n) = 0
  BY AmountGrows
<1>10. \A k \in Keys : (k # key /\ Occurs(order', k)) => Occurs(order, k)
  BY <1>1, <1>3, TouchedOrder DEF BucketTypeOK
<1> HIDE DEF s, u, n, key
<1>11. ASSUME NEW i \in Uses(s, key, 1, n), Occurs(order, key), units < Full,
              updatedAt[key] <= Latest(s, key, n),
              tokens[key] + Amount(s, key, i, n)
                >= Full + Refilling(Latest(s, key, i), Latest(s, key, n))
       PROVE  units + Amount(s, key, i, n)
                >= Full + Refilling(Latest(s, key, i), Latest(u, key, n + 1))
  <2>1. i \in 1..n /\ i \in 1..(n + 1) /\ Amount(s, key, i, n) \in Int /\ Latest(s, key, i) \in Int
        /\ Latest(s, key, n) \in Int /\ Latest(u, key, n + 1) = Larger(Latest(s, key, n), d.now)
    <3>1. i \in 1..n /\ i \in 1..(n + 1) /\ Uses(s, key, 1, n) # {}
      BY <1>1, <1>2, <1>8
    <3>2. Amount(s, key, i, n) \in Int
      BY <1>1, <1>9, <3>1
    <3>3. /\ Latest(s, key, i) \in Int /\ Latest(s, key, n) \in Int
          /\ Latest(u, key, n + 1) = Larger(Latest(s, key, n), d.now)
      BY <1>1, <1>7, <3>1
    <3> QED
      BY <3>1, <3>2, <3>3
  <2>2. updatedAt[key] \in Int /\ tokens[key] \in Int
    BY <1>1, <1>5
  <2> DEFINE L == Latest(s, key, n)
             r == Latest(s, key, i)
  <2> HIDE DEF L, r
  <2>3. L \in Int /\ r \in Int /\ updatedAt[key] <= L
        /\ tokens[key] + Amount(s, key, i, n) >= Full + Refilling(r, L)
        /\ Latest(u, key, n + 1) = Larger(L, d.now)
    BY <1>11, <2>1 DEF L, r
  <2>4. /\ Refilling(r, L) \in Int /\ Refilling(r, d.now) \in Int
        /\ Refilling(L, d.now) \in Int /\ Refilling(updatedAt[key], d.now) \in Int
        /\ Refilling(updatedAt[key], L) \in Int /\ Refilling(updatedAt[key], updatedAt[key]) = 0
        /\ Refilling(r, L) + Refilling(L, d.now) = Refilling(r, d.now)
        /\ Refilling(updatedAt[key], L) + Refilling(L, d.now) = Refilling(updatedAt[key], d.now)
        /\ Refilling(updatedAt[key], updatedAt[key]) <= Refilling(updatedAt[key], L)
        /\ updatedAt[key] <= d.now =>
             Refilling(updatedAt[key], updatedAt[key]) <= Refilling(updatedAt[key], d.now)
    <3> DEFINE a == updatedAt[key]
               b == d.now
    <3>1. a \in Int /\ b \in Int /\ L \in Int /\ r \in Int /\ a <= L
      BY <1>1, <2>2, <2>3
    <3> HIDE DEF a, b
    <3>2. /\ Refilling(r, L) \in Int /\ Refilling(r, b) \in Int /\ Refilling(L, b) \in Int
          /\ Refilling(a, b) \in Int /\ Refilling(a, L) \in Int /\ Refilling(a, a) = 0
      BY <3>1, RefillingAdds
    <3>3. /\ Refilling(r, L) + Refilling(L, b) = Refilling(r, b)
          /\ Refilling(a, L) + Refilling(L, b) = Refilling(a, b)
      BY <3>1, RefillingAdds
    <3>4. /\ Refilling(a, a) <= Refilling(a, L)
          /\ a <= b => Refilling(a, a) <= Refilling(a, b)
      BY <3>1, RefillingAdds
    <3> QED
      BY <3>2, <3>3, <3>4 DEF a, b
  <2>5. CASE d.now <= updatedAt[key]
    <3>1. units = tokens[key] /\ Larger(L, d.now) = L
      BY <1>1, <1>4, <1>11, <2>2, <2>3, <2>5 DEF Larger
    <3> QED
      BY <2>3, <3>1 DEF r
  <2>6. CASE d.now >= updatedAt[key]
    <3>1. units = tokens[key] + Refilling(updatedAt[key], d.now)
      <4>1. units = Smaller(Full, tokens[key] + Refilling(updatedAt[key], d.now))
        BY <1>4, <1>11, <2>6 DEF Refilling
      <4> QED
        BY <1>1, <1>11, <2>2, <2>4, <4>1 DEF Smaller
    <3>2. units + Amount(s, key, i, n)
            >= Full + Refilling(r, L) + Refilling(updatedAt[key], d.now)
      BY <1>1, <2>1, <2>2, <2>3, <2>4, <3>1
    <3>3. CASE d.now >= L
      <4>1. Larger(L, d.now) = d.now
        BY <1>1, <2>3, <3>3 DEF Larger
      <4>2. Refilling(updatedAt[key], d.now) >= Refilling(L, d.now)
        BY <2>4
      <4>3. units + Amount(s, key, i, n) >= Full + Refilling(r, d.now)
        BY <1>1, <2>1, <2>4, <3>2, <4>2
      <4> QED
        BY <2>3, <4>1, <4>3 DEF r
    <3>4. CASE ~(d.now >= L)
      <4>1. Larger(L, d.now) = L
        BY <1>1, <2>3, <3>4 DEF Larger
      <4>2. Refilling(updatedAt[key], d.now) >= 0
        BY <2>4, <2>6
      <4>3. units + Amount(s, key, i, n) >= Full + Refilling(r, L)
        BY <1>1, <2>1, <2>4, <3>2, <4>2
      <4> QED
        BY <2>3, <4>1, <4>3 DEF r
    <3> QED
      BY <3>3, <3>4
  <2> QED
    BY <1>1, <2>2, <2>5, <2>6
<1>12. ASSUME NEW k \in Keys, Occurs(order', k)
       PROVE  \E i \in Uses(u, k, 1, n + 1) :
                /\ updatedAt'[k] <= Latest(u, k, n + 1)
                /\ tokens'[k] + Amount(u, k, i, n + 1)
                     >= Full + Refilling(Latest(u, k, i), Latest(u, k, n + 1))
  <2>1. CASE k # key
    <3>1. PICK i \in Uses(s, k, 1, n) :
            /\ updatedAt[k] <= Latest(s, k, n)
            /\ tokens[k] + Amount(s, k, i, n) >= Full + Refilling(Latest(s, k, i), Latest(s, k, n))
      BY <1>6, <1>10, <1>12, <2>1
    <3>2. i \in 1..(n + 1) /\ i \in 0..n /\ i \in Uses(u, k, 1, n + 1)
      BY <1>2, <1>8, <2>1
    <3>3. /\ Latest(u, k, i) = Latest(s, k, i) /\ Latest(u, k, n + 1) = Latest(s, k, n)
          /\ Amount(u, k, i, n + 1) = Amount(s, k, i, n) /\ tokens'[k] = tokens[k]
          /\ updatedAt'[k] = updatedAt[k]
      BY <1>3, <1>7, <1>9, <2>1, <3>2
    <3> QED
      BY <3>1, <3>2, <3>3
  <2>2. CASE k = key /\ units = Full
    <3>1. n + 1 \in Uses(u, k, 1, n + 1) /\ n + 1 \in 1..(n + 1)
      BY <1>2, <1>8, <2>2
    <3>2. tokens'[k] + Amount(u, k, n + 1, n + 1) = Full
      BY <1>1, <1>9, <2>2, <3>1
    <3>3. Refilling(Latest(u, k, n + 1), Latest(u, k, n + 1)) = 0
      BY <1>7, <2>2, RefillingAdds
    <3>4. updatedAt'[k] <= Latest(u, k, n + 1)
      <4>1. CASE ~Occurs(order, key) \/ d.now >= updatedAt[key]
        <5>1. updatedAt'[k] = d.now
          BY <1>4, <2>2, <4>1
        <5> QED
          BY <1>7, <2>2, <5>1
      <4>2. CASE Occurs(order, key) /\ d.now <= updatedAt[key]
        <5>1. updatedAt'[k] = updatedAt[k] /\ updatedAt[k] <= Latest(s, k, n) /\ Uses(s, k, 1, n) # {}
          BY <1>4, <1>6, <2>2, <4>2
        <5>2. Latest(s, k, n) \in Int /\ Latest(u, k, n + 1) = Larger(Latest(s, k, n), d.now)
          BY <1>7, <2>2, <5>1
        <5> QED
          BY <1>1, <1>5, <2>2, <5>1, <5>2 DEF Larger
      <4> QED
        BY <1>1, <1>5, <4>1, <4>2
    <3> QED
      BY <1>1, <3>1, <3>2, <3>3, <3>4
  <2>3. CASE k = key /\ units < Full
    <3>1. Occurs(order, key)
      BY <1>1, <1>4, <2>3
    <3>2. PICK i \in Uses(s, k, 1, n) :
            /\ updatedAt[k] <= Latest(s, k, n)
            /\ tokens[k] + Amount(s, k, i, n) >= Full + Refilling(Latest(s, k, i), Latest(s, k, n))
      BY <1>6, <2>3, <3>1
    <3>3. i \in 1..(n + 1) /\ i \in 0..n /\ i \in Uses(u, k, 1, n + 1)
      BY <1>2, <1>8, <2>3
    <3>4. units + Amount(s, k, i, n) >= Full + Refilling(Latest(s, k, i), Latest(u, k, n + 1))
      BY <1>11, <2>3, <3>1, <3>2
    <3>5. /\ Latest(u, k, i) = Latest(s, k, i)
          /\ tokens'[k] + Amount(u, k, i, n + 1) = units + Amount(s, k, i, n)
      BY <1>7, <1>9, <2>3, <3>3
    <3>6. updatedAt'[k] <= Latest(u, k, n + 1)
      <4>1. /\ Latest(s, k, n) \in Int /\ Latest(u, k, n + 1) = Larger(Latest(s, k, n), d.now)
            /\ updatedAt[k] \in Int /\ (updatedAt'[k] = d.now \/ updatedAt'[k] = updatedAt[k])
        BY <1>1, <1>4, <1>5, <1>7, <2>3, <3>1, <3>2
      <4> QED
        BY <1>1, <3>2, <4>1 DEF Larger
    <3> QED
      BY <3>3, <3>4, <3>5, <3>6
  <2> QED
    BY <1>1, <2>1, <2>2, <2>3
<1>13. FairInv' <=> \A k \in Keys : Occurs(order', k) =>
         \E i \in Uses(u, k, 1, Len(u)) :
           /\ updatedAt'[k] <= Latest(u, k, Len(u))
           /\ tokens'[k] + Amount(u, k, i, Len(u))
                >= Full + Refilling(Latest(u, k, i), Latest(u, k, Len(u)))
  BY DEF FairInv, u, Occurs, Uses, Amount, Granted, Refilling, Latest, Readings
<1>14. ASSUME ~d.allowed
       PROVE  \E i \in Uses(u, key, 1, n) : Spent(u, key, i, n + 1)
  <2>1. units < Cost /\ units < Full /\ Occurs(order, key)
    BY <1>1, <1>4, <1>14
  <2>2. PICK i \in Uses(s, key, 1, n) :
          /\ updatedAt[key] <= Latest(s, key, n)
          /\ tokens[key] + Amount(s, key, i, n)
               >= Full + Refilling(Latest(s, key, i), Latest(s, key, n))
    BY <1>1, <1>6, <2>1
  <2>3. units + Amount(s, key, i, n) >= Full + Refilling(Latest(s, key, i), Latest(u, key, n + 1))
    BY <1>11, <2>1, <2>2
  <2>4. i \in 1..(n + 1) /\ i \in 0..n /\ n \in 0..n /\ (n + 1) - 1 = n
    BY <1>2, <1>8, <1>1
  <2>5. /\ Uses(u, key, 1, n) = Uses(s, key, 1, n) /\ Granted(u, key, i, n) = Granted(s, key, i, n)
        /\ Latest(u, key, i) = Latest(s, key, i)
    BY <1>1, <1>2, <1>7, <2>4, PastStays
  <2> DEFINE G == Cardinality(Granted(s, key, i, n))
  <2>6. G \in Nat /\ Cost * G = Amount(s, key, i, n)
    <3>1. i \in Int /\ n \in Int
      BY <2>4, <1>2
    <3> QED
      BY <3>1, UsesAreFinite DEF Amount
  <2> HIDE DEF G
  <2>7. Cost * (G + 1 - Capacity) = Amount(s, key, i, n) + Cost - Full
    <3>1. Capacity \in Nat /\ Cost \in Nat /\ Full = Capacity * Cost
      BY Constants
    <3>2. \A c, w, g \in Nat : w * (g + 1 - c) = w * g + w - c * w
      BY SMT
    <3> QED
      BY <2>6, <3>1, <3>2
  <2>8. Amount(s, key, i, n) + Cost - Full > Refilling(Latest(s, key, i), Latest(u, key, n + 1))
    <3>1. Latest(s, key, i) \in Int /\ Latest(u, key, n + 1) \in Int
      BY <1>1, <1>7
    <3>2. Refilling(Latest(s, key, i), Latest(u, key, n + 1)) \in Int /\ Amount(s, key, i, n) \in Int
      BY <1>1, <1>9, <2>4, <3>1, RefillingAdds
    <3> QED
      BY <1>1, <2>1, <2>3, <3>2
  <2>9. Spent(u, key, i, n + 1)
    BY <2>4, <2>5, <2>7, <2>8 DEF Spent, Refilling, G
  <2> QED
    BY <2>5, <2>9
<1> QED
  BY <1>2, <1>12, <1>13, <1>14 DEF u, n, key

\* A refusal says how long what is left takes to become a token.
WaitInv ==
  \A k \in Keys, l \in 1..Len(decisions) :
    (IsLast(decisions, k, l) /\ ~decisions[l].allowed) =>
      LET retry == decisions[l].retry
      IN  /\ retry \in Nat \ {0}
          /\ decisions[l].now <= updatedAt[k] /\ updatedAt[k] <= decisions[l].at
          /\ tokens[k] + PerSecond * retry >= Cost
          /\ tokens[k] + PerSecond * (retry - 1) < Cost

\* A decision keeps what the last refusal of each key says.
LEMMA WaitStep ==
  ASSUME BucketTypeOK, WaitInv, NEW d, NEW units, Deciding(d, units)
  PROVE  WaitInv'
<1> DEFINE s == decisions
           u == decisions'
           n == Len(decisions)
<1>1. /\ Longer(s, d, u, n) /\ d.key \in Keys /\ d.now \in 0..monotonic /\ d.at = monotonic
      /\ n \in Nat /\ Len(u) = n + 1 /\ u[n + 1] = d /\ \A m \in 1..n : u[m] = s[m]
      /\ \A x \in Keys : x # d.key => tokens'[x] = tokens[x] /\ updatedAt'[x] = updatedAt[x]
      /\ ~d.allowed => /\ d.retry \in Nat \ {0} /\ tokens'[d.key] = units
                       /\ units + PerSecond * d.retry >= Cost
                       /\ units + PerSecond * (d.retry - 1) < Cost
      /\ updatedAt'[d.key] = RefilledAt(d.key, d.now)
  BY DEF Deciding, DecisionSet, Longer
<1>2. d.now <= updatedAt'[d.key] /\ updatedAt'[d.key] <= monotonic
  <2>1. RefilledAt(d.key, d.now) \in 0..monotonic /\ RefilledAt(d.key, d.now) >= d.now
    BY <1>1, Refill
  <2> QED
    BY <1>1, <2>1
<1> HIDE DEF s, u, n
<1>3. ASSUME NEW k \in Keys, NEW l \in 1..(n + 1), IsLast(u, k, l), ~u[l].allowed
      PROVE  /\ u[l].retry \in Nat \ {0}
             /\ u[l].now <= updatedAt'[k] /\ updatedAt'[k] <= u[l].at
             /\ tokens'[k] + PerSecond * u[l].retry >= Cost
             /\ tokens'[k] + PerSecond * (u[l].retry - 1) < Cost
  <2>1. CASE k = d.key
    <3>1. l = n + 1
      BY <1>1, <1>3, <2>1, LastGrows
    <3> QED
      BY <1>1, <1>2, <1>3, <2>1, <3>1
  <2>2. CASE k # d.key
    <3>1. IsLast(s, k, l) /\ l \in 1..n
      BY <1>1, <1>3, <2>2, LastGrows
    <3>2. u[l] = s[l] /\ tokens'[k] = tokens[k] /\ updatedAt'[k] = updatedAt[k]
      BY <1>1, <2>2, <3>1
    <3>3. /\ s[l].retry \in Nat \ {0}
          /\ s[l].now <= updatedAt[k] /\ updatedAt[k] <= s[l].at
          /\ tokens[k] + PerSecond * s[l].retry >= Cost
          /\ tokens[k] + PerSecond * (s[l].retry - 1) < Cost
      BY <1>3, <3>1, <3>2 DEF WaitInv, s, n
    <3> QED
      BY <3>2, <3>3
  <2> QED
    BY <2>1, <2>2
<1>4. WaitInv' <=> \A k \in Keys, l \in 1..Len(u) : (IsLast(u, k, l) /\ ~u[l].allowed) =>
        /\ u[l].retry \in Nat \ {0}
        /\ u[l].now <= updatedAt'[k] /\ updatedAt'[k] <= u[l].at
        /\ tokens'[k] + PerSecond * u[l].retry >= Cost
        /\ tokens'[k] + PerSecond * (u[l].retry - 1) < Cost
  BY DEF WaitInv, u, IsLast, Uses, PerSecond
<1> QED
  BY <1>1, <1>3, <1>4

Honest(s, i, j) ==
  LET k == s[i].key
      wait == s[i].retry * TicksPerSecond
  IN  (s[j].key = k /\ ~s[i].allowed /\ Uses(s, k, i + 1, j - 1) = {}) =>
        /\ s[j].now >= s[i].at + wait => s[j].allowed
        /\ (StaysInUse(s, k, i, j) /\ s[j].now <= s[i].now + wait - TicksPerSecond)
             => ~s[j].allowed

\* A reading a wait after the refusal is that long after the last refill.
LEMMA LongAfter ==
  ASSUME NEW now \in Int, NEW at \in Int, NEW last \in Int, NEW wait \in Int,
         now >= at + wait, last <= at, 0 <= wait
  PROVE  now >= last /\ now - last >= wait /\ now - last \in Int
OBVIOUS

\* A reading more than a second short of it is that short after the last refill.
LEMMA SoonAfter ==
  ASSUME NEW now \in Int, NEW reading \in Int, NEW last \in Int, NEW wait \in Int, NEW second \in Int,
         now <= reading + wait - second, reading <= last
  PROVE  now - last <= wait - second /\ now - last \in Int
OBVIOUS

\* The new decision is what the last refusal of its key has promised.
LEMMA HonestStep ==
  ASSUME BucketTypeOK, PlaceInv, WaitInv, NEW d, NEW units, Deciding(d, units),
         NEW i \in 1..Len(decisions)
  PROVE  Honest(decisions', i, Len(decisions) + 1)
<1> DEFINE s == decisions
           u == decisions'
           n == Len(decisions)
           k == d.key
           retry == s[i].retry
           T == TicksPerSecond
<1>1. /\ Longer(s, d, u, n) /\ k \in Keys /\ d.now \in Int /\ d.now \in 0..monotonic
      /\ (d.allowed <=> units >= Cost) /\ units = Refilled(k, d.now) /\ units \in Int
  BY DEF Deciding, DecisionSet
<1>2. /\ n \in Nat /\ u[n + 1] = d /\ u[i] = s[i] /\ (n + 1) - 1 = n /\ n \in 0..n
      /\ i + 1 \in 1..(n + 1) /\ i \in 1..n /\ s[i] \in DecisionSet
  BY <1>1 DEF Longer
<1>3. /\ T \in Nat \ {0} /\ Cost \in Nat /\ Full \in Nat /\ Full >= Cost
      /\ Capacity \in Nat /\ PerSecond = Capacity * T /\ PerSecond \in Nat
  BY Constants DEF PerSecond
<1>4. tokens[k] \in Int /\ updatedAt[k] \in Int /\ s[i].now \in Int /\ s[i].at \in Int
  <2>1. tokens[k] \in Int /\ updatedAt[k] \in Int
    BY <1>1 DEF BucketTypeOK
  <2>2. s[i].now \in Int /\ s[i].at \in Int
    BY <1>2 DEF DecisionSet
  <2> QED
    BY <2>1, <2>2
<1>5. /\ ~Occurs(order, k) => units = Full
      /\ Occurs(order, k) =>
           /\ d.now <= updatedAt[k] => units = tokens[k]
           /\ d.now >= updatedAt[k] =>
                units = Smaller(Full, tokens[k] + Refilling(updatedAt[k], d.now))
  BY <1>1, Refill DEF Refilling
<1> HIDE DEF s, u, n, k, T
<1>6. SUFFICES ASSUME s[i].key = k, ~s[i].allowed, Uses(u, k, i + 1, n) = {}
               PROVE  /\ d.now >= s[i].at + retry * T => d.allowed
                      /\ (StaysInUse(u, k, i, n + 1) /\ d.now <= s[i].now + retry * T - T)
                           => ~d.allowed
  BY <1>2 DEF Honest, u, n, k, s, T
<1>7. Uses(s, k, i + 1, n) = {}
  BY <1>1, <1>2, <1>6, PastStays
<1>8. IsLast(s, k, i)
  BY <1>2, <1>6, <1>7 DEF IsLast, Uses, s, n
<1>9. /\ retry \in Nat \ {0}
      /\ s[i].now <= updatedAt[k] /\ updatedAt[k] <= s[i].at
      /\ tokens[k] + PerSecond * retry >= Cost
      /\ tokens[k] + PerSecond * (retry - 1) < Cost
  BY <1>1, <1>2, <1>6, <1>8 DEF WaitInv, s, n
<1> HIDE DEF retry
<1> DEFINE wait == retry * T
           enough == PerSecond * retry
           short == PerSecond * (retry - 1)
<1>10. /\ wait \in Nat /\ wait - T \in Nat /\ enough \in Nat /\ short \in Nat
       /\ Capacity * wait = enough /\ Capacity * (wait - T) = short
  <2>1. \A c \in Nat, r \in Nat \ {0}, w \in Nat \ {0} :
          /\ r * w \in Nat /\ r * w - w \in Nat /\ c * w * r \in Nat /\ c * w * (r - 1) \in Nat
          /\ c * (r * w) = c * w * r /\ c * (r * w - w) = c * w * (r - 1)
    BY SMT
  <2> QED
    BY <1>3, <1>9, <2>1
<1>11. s[i].now <= updatedAt[k] /\ updatedAt[k] <= s[i].at
       /\ tokens[k] + enough >= Cost /\ tokens[k] + short < Cost
  BY <1>9
<1> HIDE DEF wait, enough, short
<1>12. wait \in Int /\ wait - T \in Int /\ enough \in Int /\ short \in Int /\ 0 <= wait
  BY <1>10
<1>13. \A g \in Int : /\ wait <= g => enough <= Capacity * g
                      /\ g <= wait - T => Capacity * g <= short
  <2>1. \A c \in Nat, g \in Int, h \in Int : g <= h => c * g <= c * h
    BY SMT
  <2>2. wait \in Int /\ wait - T \in Int
    BY <1>12
  <2> QED
    BY <1>3, <1>10, <2>1, <2>2
<1>14. ASSUME d.now >= s[i].at + wait
       PROVE  d.allowed
  <2>1. CASE ~Occurs(order, k)
    BY <1>1, <1>3, <1>5, <2>1
  <2>2. CASE Occurs(order, k)
    <3>1. d.now >= updatedAt[k] /\ d.now - updatedAt[k] >= wait /\ d.now - updatedAt[k] \in Int
      <4>1. d.now \in Int
        BY <1>1
      <4> QED
        BY <1>4, <1>12, <1>11, <1>14, <4>1, LongAfter
    <3>2. Refilling(updatedAt[k], d.now) >= enough
      BY <1>13, <3>1 DEF Refilling
    <3>3. Refilling(updatedAt[k], d.now) \in Int
      BY <1>1, <1>4, RefillingAdds
    <3>4. units = Smaller(Full, tokens[k] + Refilling(updatedAt[k], d.now))
      BY <1>5, <2>2, <3>1
    <3>5. units >= Cost
      BY <1>3, <1>4, <1>12, <1>11, <3>2, <3>3, <3>4 DEF Smaller
    <3> QED
      BY <1>1, <3>5
  <2> QED
    BY <2>1, <2>2
<1>15. ASSUME StaysInUse(u, k, i, n + 1), d.now <= s[i].now + wait - T
       PROVE  ~d.allowed
  <2>1. Occurs(order, k)
    BY <1>2, <1>6, <1>15, StillKnown DEF s, u, n, k
  <2>2. CASE d.now <= updatedAt[k]
    <3>1. units = tokens[k]
      BY <1>5, <2>1, <2>2
    <3>2. tokens[k] < Cost
      <4>1. Cost \in Int /\ 0 <= short
        BY <1>3, <1>10
      <4> QED
        BY <1>4, <1>12, <1>11, <4>1
    <3> QED
      BY <1>1, <1>3, <3>1, <3>2
  <2>3. CASE d.now >= updatedAt[k]
    <3>1. d.now - updatedAt[k] <= wait - T /\ d.now - updatedAt[k] \in Int
      <4>1. d.now \in Int /\ T \in Int
        BY <1>1, <1>3
      <4> QED
        BY <1>4, <1>12, <1>11, <1>15, <4>1, SoonAfter
    <3>2. Refilling(updatedAt[k], d.now) <= short
      BY <1>13, <3>1 DEF Refilling
    <3>3. Refilling(updatedAt[k], d.now) \in Int
      BY <1>1, <1>4, RefillingAdds
    <3>4. units = Smaller(Full, tokens[k] + Refilling(updatedAt[k], d.now))
      BY <1>5, <2>1, <2>3
    <3>5. units < Cost
      <4>1. units <= tokens[k] + Refilling(updatedAt[k], d.now)
        BY <1>3, <1>4, <3>3, <3>4 DEF Smaller
      <4> QED
        BY <1>1, <1>3, <1>4, <1>12, <1>11, <3>2, <3>3, <4>1
    <3> QED
      BY <1>1, <1>3, <3>5
  <2> QED
    BY <1>1, <1>4, <2>2, <2>3
<1> QED
  BY <1>14, <1>15 DEF wait

-----------------------------------------------------------------------------
(* The properties speak of the whole history: what they say of the past    *)
(* stays, and the invariant gives what they say of the last decision.      *)

RateAt(s, j) ==
  \A i \in Uses(s, s[j].key, 1, j) : StaysInUse(s, s[j].key, i, j) =>
    Cost * (Cardinality(Granted(s, s[j].key, i, j)) - Capacity)
      <= Capacity * (Max(Readings(s, s[j].key, i, j)) - s[i].now)

FairAt(s, j) ==
  ~s[j].allowed => \E i \in Uses(s, s[j].key, 1, j - 1) : Spent(s, s[j].key, i, j)

PastInv ==
  \A j \in 1..Len(decisions) :
    /\ RateAt(decisions, j) /\ FairAt(decisions, j)
    /\ \A i \in 1..(j - 1) : Honest(decisions, i, j)

\* The properties of the module are about Of, Grants, InUse and LastReading.
LEMMA PastIsProperties ==
  ASSUME BucketTypeOK, PastInv
  PROVE  RateIsExact /\ RetryIsHonest
<1> DEFINE n == Len(decisions)
<1>1. /\ \A k, i, j : /\ Of(k, i, j) = Uses(decisions, k, i, j)
                      /\ Grants(k, i, j) = Cardinality(Granted(decisions, k, i, j))
                      /\ InUse(k, i, j) <=> StaysInUse(decisions, k, i, j)
      /\ \A k, j : LastReading(k, j) = Latest(decisions, k, j)
      /\ Decisions = 1..n /\ n \in Nat
  BY SameHistory DEF Latest, Decisions, BucketTypeOK
<1>2. RateHolds
  <2>1. SUFFICES ASSUME NEW j \in 1..n, NEW i \in Of(decisions[j].key, 1, j),
                        InUse(decisions[j].key, i, j)
                 PROVE  LET k == decisions[j].key
                            latest == Max({decisions[m].now : m \in Of(k, i, j)})
                        IN  Cost * (Grants(k, i, j) - Capacity)
                              <= Capacity * (latest - decisions[i].now)
    BY <1>1 DEF RateHolds
  <2>2. RateAt(decisions, j)
    BY DEF PastInv
  <2>3. {decisions[m].now : m \in Of(decisions[j].key, i, j)}
          = Readings(decisions, decisions[j].key, i, j)
    BY <1>1 DEF Readings
  <2> QED
    BY <1>1, <2>1, <2>2, <2>3 DEF RateAt
<1>3. RefusedOnlyIfSpent
  <2>1. SUFFICES ASSUME NEW j \in 1..n, ~decisions[j].allowed
                 PROVE  LET k == decisions[j].key
                        IN  \E i \in Of(k, 1, j - 1) :
                              Cost * (Grants(k, i, j - 1) + 1 - Capacity)
                                > Capacity * (LastReading(k, j) - LastReading(k, i))
    BY <1>1 DEF RefusedOnlyIfSpent
  <2>2. FairAt(decisions, j)
    BY DEF PastInv
  <2> QED
    BY <1>1, <2>1, <2>2 DEF FairAt, Spent
<1>4. RetryIsHonest
  <2>1. SUFFICES ASSUME NEW i \in 1..n, NEW j \in 1..n, i < j,
                        decisions[j].key = decisions[i].key, ~decisions[i].allowed,
                        Of(decisions[i].key, i + 1, j - 1) = {}
                 PROVE  LET k == decisions[i].key
                            wait == decisions[i].retry * TicksPerSecond
                        IN  /\ decisions[j].now >= decisions[i].at + wait => decisions[j].allowed
                            /\ (InUse(k, i, j)
                                  /\ decisions[j].now <= decisions[i].now + wait - TicksPerSecond)
                                 => ~decisions[j].allowed
    BY <1>1 DEF RetryIsHonest
  <2>2. i \in 1..(j - 1)
    BY <1>1, <2>1
  <2>3. Honest(decisions, i, j)
    BY <2>2 DEF PastInv
  <2> QED
    BY <1>1, <2>1, <2>3 DEF Honest
<1> QED
  BY <1>2, <1>3, <1>4 DEF RateIsExact

\* One more decision changes nothing that is said of the older ones.
LEMMA PastIsKept ==
  ASSUME NEW s, NEW d, NEW u, NEW n, Longer(s, d, u, n), NEW j \in 1..n
  PROVE  /\ RateAt(s, j) => RateAt(u, j)
         /\ FairAt(s, j) => FairAt(u, j)
         /\ \A i \in 1..(j - 1) : Honest(s, i, j) => Honest(u, i, j)
<1>1. n \in Nat /\ \A m \in 1..n : u[m] = s[m]
  BY DEF Longer
<1>2. \A x : \A a \in 1..(n + 1), b \in 0..n :
        /\ Uses(u, x, a, b) = Uses(s, x, a, b)
        /\ Granted(u, x, a, b) = Granted(s, x, a, b)
        /\ Readings(u, x, a, b) = Readings(s, x, a, b)
        /\ StaysInUse(u, x, a, b) <=> StaysInUse(s, x, a, b)
  BY PastStays, UseStays
<1>3. /\ j \in 0..n /\ j - 1 \in 0..n /\ 1 \in 1..(n + 1) /\ u[j] = s[j]
      /\ \A i \in 1..(j - 1) : i \in 1..n /\ i + 1 \in 1..(n + 1) /\ u[i] = s[i]
  BY <1>1
<1> DEFINE k == s[j].key
<1>4. ASSUME NEW i \in Uses(s, k, 1, j)
      PROVE  /\ i \in 1..(n + 1) /\ i \in 0..n /\ u[i] = s[i]
             /\ Granted(u, k, i, j) = Granted(s, k, i, j)
             /\ Readings(u, k, i, j) = Readings(s, k, i, j)
             /\ StaysInUse(u, k, i, j) <=> StaysInUse(s, k, i, j)
  <2>1. i \in 1..(n + 1) /\ i \in 1..n /\ i \in 0..n
    BY <1>1 DEF Uses
  <2> QED
    BY <1>1, <1>2, <1>3, <2>1
<1>5. Uses(u, k, 1, j) = Uses(s, k, 1, j) /\ Uses(u, k, 1, j - 1) = Uses(s, k, 1, j - 1)
  BY <1>2, <1>3
<1> HIDE DEF k
<1>6. RateAt(s, j) => RateAt(u, j)
  <2>1. u[j].key = k /\ s[j].key = k
    BY <1>3 DEF k
  <2> QED
    BY <1>4, <1>5, <2>1 DEF RateAt
<1>7. FairAt(s, j) => FairAt(u, j)
  <2>1. u[j].key = k /\ s[j].key = k /\ u[j].allowed = s[j].allowed
    BY <1>3 DEF k
  <2>2. ASSUME NEW i \in Uses(s, k, 1, j - 1)
        PROVE  Spent(u, k, i, j) <=> Spent(s, k, i, j)
    <3>1. i \in 1..(n + 1) /\ i \in 0..n
      BY <1>1 DEF Uses
    <3>2. /\ Granted(u, k, i, j - 1) = Granted(s, k, i, j - 1)
          /\ Latest(u, k, j) = Latest(s, k, j) /\ Latest(u, k, i) = Latest(s, k, i)
      BY <1>2, <1>3, <3>1 DEF Latest
    <3> QED
      BY <3>2 DEF Spent
  <2> QED
    BY <1>5, <2>1, <2>2 DEF FairAt
<1>8. ASSUME NEW i \in 1..(j - 1), Honest(s, i, j)
      PROVE  Honest(u, i, j)
  <2>1. i \in 1..(n + 1) /\ i + 1 \in 1..(n + 1) /\ u[i] = s[i] /\ u[j] = s[j]
    BY <1>1, <1>3
  <2>2. /\ Uses(u, s[i].key, i + 1, j - 1) = Uses(s, s[i].key, i + 1, j - 1)
        /\ StaysInUse(u, s[i].key, i, j) <=> StaysInUse(s, s[i].key, i, j)
    BY <1>2, <1>3, <2>1
  <2> QED
    BY <1>8, <2>1, <2>2 DEF Honest
<1> QED
  BY <1>6, <1>7, <1>8

\* A decision keeps what the properties say of every decision.
LEMMA PastStep ==
  ASSUME BucketTypeOK, PlaceInv, WaitInv, PastInv, SpentInv', NEW d, NEW units,
         Deciding(d, units), BucketTypeOK',
         ~d.allowed => \E i \in Uses(decisions', d.key, 1, Len(decisions)) :
                         Spent(decisions', d.key, i, Len(decisions) + 1)
  PROVE  PastInv'
<1> DEFINE s == decisions
           u == decisions'
           n == Len(decisions)
<1>1. /\ Longer(s, d, u, n) /\ d.key \in Keys
      /\ n \in Nat /\ Len(u) = n + 1 /\ u[n + 1] = d /\ \A m \in 1..n : u[m] = s[m]
      /\ (n + 1) - 1 = n
  BY DEF Deciding, DecisionSet, Longer
<1>2. ASSUME NEW j \in 1..n
      PROVE  RateAt(u, j) /\ FairAt(u, j) /\ \A i \in 1..(j - 1) : Honest(u, i, j)
  <2>1. RateAt(s, j) /\ FairAt(s, j) /\ \A i \in 1..(j - 1) : Honest(s, i, j)
    BY DEF PastInv
  <2> HIDE DEF s, u, n
  <2> QED
    BY <1>1, <2>1, PastIsKept
<1>3. FairAt(u, n + 1)
  BY <1>1 DEF FairAt
<1>4. \A i \in 1..n : Honest(u, i, n + 1)
  BY HonestStep
<1>5. RateAt(u, n + 1)
  <2> DEFINE k == d.key
  <2>1. SUFFICES ASSUME NEW i \in Uses(u, k, 1, n + 1), StaysInUse(u, k, i, n + 1)
                 PROVE  Cost * (Cardinality(Granted(u, k, i, n + 1)) - Capacity)
                          <= Capacity * (Max(Readings(u, k, i, n + 1)) - u[i].now)
    BY <1>1 DEF RateAt
  <2>2. /\ monotonic' \in Nat /\ tokens'[k] \in Nat
        /\ \A m \in 1..(n + 1) : u[m].now \in 0..monotonic'
    BY <1>1 DEF BucketTypeOK
  <2>3. SpentInv' <=> \A x \in Keys, a \in 1..Len(u) :
          (u[a].key = x /\ StaysInUse(u, x, a, Len(u))) =>
            \E m \in Uses(u, x, a, Len(u)) :
              /\ u[m].now <= updatedAt'[x]
              /\ tokens'[x] + Amount(u, x, a, Len(u)) <= Full + Refilling(u[a].now, u[m].now)
    BY DEF SpentInv, StaysInUse, Uses, Between, Amount, Granted, Refilling
  <2> HIDE DEF s, u, n, k
  <2>4. i \in 1..(n + 1) /\ u[i].key = k /\ k \in Keys
    BY <1>1, <2>1 DEF Uses, k
  <2>5. PICK m \in Uses(u, k, i, n + 1) :
          tokens'[k] + Amount(u, k, i, n + 1) <= Full + Refilling(u[i].now, u[m].now)
    BY <1>1, <2>1, <2>3, <2>4
  <2>6. \A y \in Uses(u, k, i, n + 1) : u[y].now \in 0..monotonic'
    BY <1>1, <2>2, <2>4 DEF Uses
  <2> DEFINE M == Max(Readings(u, k, i, n + 1))
             G == Cardinality(Granted(u, k, i, n + 1))
  <2>7. M \in Int /\ u[m].now <= M
    BY <2>2, <2>5, <2>6, LatestReading
  <2>8. G \in Nat
    <3>1. i \in Int /\ n + 1 \in Int
      BY <1>1, <2>4
    <3> QED
      BY <3>1, UsesAreFinite
  <2>9. Amount(u, k, i, n + 1) = Cost * G
    BY DEF Amount
  <2> HIDE DEF M, G
  <2>10. /\ Refilling(u[i].now, u[m].now) \in Int /\ Refilling(u[i].now, M) \in Int
         /\ Refilling(u[i].now, u[m].now) <= Refilling(u[i].now, M)
    <3>1. u[i].now \in Int /\ u[m].now \in Int
      BY <2>2, <2>4, <2>6
    <3> QED
      BY <2>7, <3>1, RefillingAdds
  <2>11. Cost * (G - Capacity) = Cost * G - Full /\ Cost * G \in Int /\ Full \in Int
    <3>1. Capacity \in Nat /\ Cost \in Nat /\ Full = Capacity * Cost
      BY Constants
    <3>2. \A c \in Nat, w \in Nat, g \in Nat : w * (g - c) = w * g - c * w /\ w * g \in Int /\ c * w \in Int
      BY SMT
    <3> QED
      BY <2>8, <3>1, <3>2
  <2>12. Cost * G - Full <= Refilling(u[i].now, M)
    BY <2>2, <2>5, <2>9, <2>10, <2>11
  <2> QED
    BY <2>11, <2>12 DEF Refilling, M, G
<1>6. PastInv' <=> \A j \in 1..Len(u) :
        /\ RateAt(u, j) /\ FairAt(u, j)
        /\ \A i \in 1..(j - 1) : Honest(u, i, j)
  BY DEF PastInv, RateAt, FairAt, Honest, StaysInUse, Uses, Between, Granted, Readings, Latest, Spent
<1>7. \A j \in 1..(n + 1) : j \in 1..n \/ j = n + 1
  BY <1>1
<1> HIDE DEF s, u, n
<1> QED
  BY <1>1, <1>2, <1>3, <1>4, <1>5, <1>6, <1>7

BucketInv ==
  BucketTypeOK /\ PlaceInv /\ SpentInv /\ FairInv /\ WaitInv /\ PastInv

\* The invariant of the buckets holds initially.
LEMMA BucketInvInit == BucketInit => BucketInv
<1> SUFFICES ASSUME BucketInit
             PROVE  BucketInv
  OBVIOUS
<1> USE DEF BucketInit
<1>1. Len(decisions) = 0 /\ decisions = <<>> /\ order = <<>> /\ Len(order) = 0
  OBVIOUS
<1>2. Full \in Nat /\ MaxBuckets \in Nat
  BY Constants
<1>3. BucketTypeOK
  <2>1. order \in Seq(Keys) /\ Distinct(order) /\ Len(order) <= MaxBuckets
    BY <1>2 DEF Distinct
  <2>2. decisions \in Seq(DecisionSet) /\ \A m \in 1..Len(decisions) : decisions[m].now \in 0..monotonic
    OBVIOUS
  <2>3. /\ tokens \in [Keys -> 0..Full] /\ updatedAt \in [Keys -> 0..monotonic]
        /\ calling \in [Threads -> [key : Keys, now : 0..monotonic] \cup {NoCall}]
    BY <1>2
  <2> QED
    BY <2>1, <2>2, <2>3 DEF BucketTypeOK
<1>4. \A x : x \notin 1..Len(decisions)
  BY <1>1
<1>5. PlaceInv /\ SpentInv /\ WaitInv /\ PastInv
  BY <1>4 DEF PlaceInv, SpentInv, WaitInv, PastInv
<1>6. FairInv
  <2>1. \A k : ~Occurs(order, k)
    BY <1>1 DEF Occurs
  <2> QED
    BY <2>1 DEF FairInv
<1> QED
  BY <1>3, <1>5, <1>6 DEF BucketInv

\* Every step keeps the invariant of the buckets.
LEMMA BucketInvNext == BucketInv /\ [BucketNext]_bucketVars => BucketInv'
<1> SUFFICES ASSUME BucketInv, [BucketNext]_bucketVars
             PROVE  BucketInv'
  OBVIOUS
<1>1. BucketTypeOK'
  BY BucketTypeStep DEF BucketInv
<1>2. ASSUME UNCHANGED <<order, tokens, updatedAt, decisions>>
      PROVE  PlaceInv' /\ SpentInv' /\ FairInv' /\ WaitInv' /\ PastInv'
  <2>1. order' = order /\ tokens' = tokens /\ updatedAt' = updatedAt /\ decisions' = decisions
    BY <1>2
  <2>2. PlaceInv' /\ SpentInv'
    BY <2>1 DEF BucketInv, PlaceInv, SpentInv
  <2>3. FairInv'
    BY <2>1 DEF BucketInv, FairInv
  <2>4. WaitInv'
    BY <2>1 DEF BucketInv, WaitInv
  <2>5. PastInv'
    BY <2>1 DEF BucketInv, PastInv
  <2> QED
    BY <2>2, <2>3, <2>4, <2>5
<1>3. ASSUME NEW t \in Threads, Decide(t)
      PROVE  PlaceInv' /\ SpentInv' /\ FairInv' /\ WaitInv' /\ PastInv'
  <2>1. PICK d \in DecisionSet, units \in 0..Full : Deciding(d, units)
    BY <1>3, DecideDecides DEF BucketInv
  <2>2. PlaceInv'
    BY <2>1, PlaceStep DEF BucketInv
  <2>3. SpentInv'
    BY <2>1, SpentStep DEF BucketInv
  <2>4. /\ FairInv'
        /\ ~d.allowed => \E i \in Uses(decisions', d.key, 1, Len(decisions)) :
                           Spent(decisions', d.key, i, Len(decisions) + 1)
    BY <2>1, FairStep DEF BucketInv
  <2>5. WaitInv'
    BY <2>1, WaitStep DEF BucketInv
  <2>6. PastInv'
    BY <1>1, <2>1, <2>3, <2>4, PastStep DEF BucketInv
  <2> QED
    BY <2>2, <2>3, <2>4, <2>5, <2>6
<1>4. CASE PassTime
  BY <1>1, <1>2, <1>4 DEF PassTime, BucketInv
<1>5. ASSUME NEW t \in Threads, NEW k \in Keys, ReadClock(t, k)
      PROVE  BucketInv'
  BY <1>1, <1>2, <1>5 DEF ReadClock, BucketInv
<1>6. CASE UNCHANGED bucketVars
  BY <1>1, <1>2, <1>6 DEF bucketVars, BucketInv
<1> QED
  BY <1>1, <1>3, <1>4, <1>5, <1>6 DEF BucketNext, BucketInv

\* The table of buckets, its order and the history of decisions agree.
THEOREM BucketsCorrect == BucketSpec => []BucketInv
<1> QED
  BY BucketInvInit, BucketInvNext, PTL DEF BucketSpec

\* A key in use gets no more than its rate and is refused nothing that its rate
\* allows, for any number of keys, threads and readings of the clock.
THEOREM RateTheorem == BucketSpec => []RateIsExact
<1>1. BucketInv => RateIsExact
  BY PastIsProperties DEF BucketInv
<1> QED
  BY <1>1, BucketsCorrect, PTL

\* Retry-After is neither too short nor padded by a second or more.
THEOREM RetryTheorem == BucketSpec => []RetryIsHonest
<1>1. BucketInv => RetryIsHonest
  BY PastIsProperties DEF BucketInv
<1> QED
  BY <1>1, BucketsCorrect, PTL

=============================================================================
