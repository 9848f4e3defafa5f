---------------------------- MODULE Provisioning ----------------------------
(***************************************************************************)
(* Who may use the API: operators provision users with the command         *)
(* provision-user, which writes to Firebase and then to PostgreSQL, a seed *)
(* script adds houses and their owners, and the middleware of the API      *)
(* finds out which house a request is for.                                 *)
(*                                                                         *)
(* Firebase knows one account per email and an account keeps its UID, so   *)
(* an email stands for the account and for its users row as well.  Display *)
(* names and roles are left out.                                           *)
(***************************************************************************)
EXTENDS Naturals, Sequences

CONSTANTS
  Emails,
  Names,     \* names of houses
  Commands,  \* runs of provision-user, each repeated until it works
  Requests,  \* requests to the API
  Options,   \* what the operators ask for
  MaxHouses, \* houses the seed script adds (bounds the model)
  MaxFaults  \* calls that fail (bounds the model)

\* house is --house-id, or 0 if the house is named; password: one is given.
Option == [email: Emails, house: Nat, name: Names, password: BOOLEAN]

ASSUME OptionsAssumption == Options \subseteq Option
ASSUME BoundsAssumption  == MaxHouses \in Nat /\ MaxFaults \in Nat

VARIABLES
  accounts, \* Firebase: emails with an account
  houses,   \* table houses: the name of each id
  users,    \* table users
  members,  \* table house_members: pairs of a user and a house
  command,  \* what each run of provision-user is doing
  request,  \* what each request is doing
  granted,  \* memberships some run reported as a success, for the properties
  faults

vars == <<accounts, houses, users, members, command, request, granted, faults>>

Running == {"resolve", "confirm", "lookup", "create", "upsert"}

\* "rejected": the house is not one of its kind, or a password is missing.
CommandState == [pc: Running \cup {"idle", "failed", "declined", "rejected", "done"},
                 opts: Options, house: Nat]

\* since: the houses granted to the user when the request came; error: a query
\* failed, which the middleware does not tell from an empty answer.
RequestState == [pc: {"idle", "user", "house", "served", "refused"},
                 email: Emails, house: Nat, since: SUBSET Nat, error: BOOLEAN]

Init ==
  /\ accounts \in SUBSET Emails
  /\ houses = <<>> /\ users = {} /\ members = {} /\ granted = {} /\ faults = 0
  /\ command \in [Commands -> {[pc |-> "idle", opts |-> o, house |-> 0] : o \in Options}]
  /\ request \in [Requests -> {[pc |-> "idle", email |-> e, house |-> 0, since |-> {},
                                error |-> FALSE] : e \in Emails}]

-----------------------------------------------------------------------------
(***************************************************************************)
(* seed_mvp.sql: no constraint makes a second house of that name conflict, *)
(* and the owner joins every house of the name.                            *)
(***************************************************************************)
HousesNamed(name, hs) == {h \in DOMAIN hs : hs[h] = name}

Seed(owner, name) ==
  LET joined == {owner} \X HousesNamed(name, houses') IN
  /\ Len(houses) < MaxHouses /\ owner \in accounts
  /\ houses' = Append(houses, name)
  /\ users' = users \cup {owner}
  /\ members' = members \cup joined
  /\ granted' = granted \cup joined
  /\ UNCHANGED <<accounts, command, request, faults>>

-----------------------------------------------------------------------------
(***************************************************************************)
(* provision-user                                                          *)
(***************************************************************************)
Opts(c) == command[c].opts

Become(c, pc) == command' = [command EXCEPT ![c].pc = pc]

Run(c) ==
  /\ command[c].pc = "idle"
  /\ Become(c, "resolve")
  /\ UNCHANGED <<accounts, houses, users, members, request, granted, faults>>

Matches(o) ==
  IF o.house # 0 THEN {o.house} \cap DOMAIN houses ELSE HousesNamed(o.name, houses)

ResolveHouse(c) ==
  /\ command[c].pc = "resolve"
  /\ \/ \E h \in DOMAIN houses :
          /\ Matches(Opts(c)) = {h}
          /\ command' = [command EXCEPT ![c].pc = "confirm", ![c].house = h]
     \/ /\ \A h \in DOMAIN houses : Matches(Opts(c)) # {h}
        /\ Become(c, "rejected")
  /\ UNCHANGED <<accounts, houses, users, members, request, granted, faults>>

\* The prompt, or --yes.
Confirm(c) ==
  /\ command[c].pc = "confirm"
  /\ Become(c, "lookup") \/ Become(c, "declined")
  /\ UNCHANGED <<accounts, houses, users, members, request, granted, faults>>

\* Wrong: an account that exists already is an error.
LookupInsists(c) ==
  /\ command[c].pc = "lookup"
  /\ Become(c, IF Opts(c).email \in accounts THEN "failed"
               ELSE IF Opts(c).password THEN "create" ELSE "rejected")
  /\ UNCHANGED <<accounts, houses, users, members, request, granted, faults>>

\* Wrong: an account that was not found is used all the same.
LookupIgnores(c) ==
  /\ command[c].pc = "lookup"
  /\ Become(c, "upsert")
  /\ UNCHANGED <<accounts, houses, users, members, request, granted, faults>>

\* ensureFirebaseUser: GetUserByEmail
Lookup(c) ==
  /\ command[c].pc = "lookup"
  /\ Become(c, IF Opts(c).email \in accounts THEN "upsert"
               ELSE IF Opts(c).password THEN "create" ELSE "rejected")
  /\ UNCHANGED <<accounts, houses, users, members, request, granted, faults>>

\* ensureFirebaseUser: CreateUser, which refuses a second account of an email
Create(c) ==
  /\ command[c].pc = "create"
  /\ accounts' = accounts \cup {Opts(c).email}
  /\ Become(c, IF Opts(c).email \in accounts THEN "failed" ELSE "upsert")
  /\ UNCHANGED <<houses, users, members, request, granted, faults>>

\* The transaction of upsertMembership.
Commit(c) ==
  /\ users' = users \cup {Opts(c).email}
  /\ members' = members \cup {<<Opts(c).email, command[c].house>>}

Upsert(c) ==
  /\ command[c].pc = "upsert"
  /\ Commit(c)
  /\ Become(c, "done")
  /\ granted' = granted \cup {<<Opts(c).email, command[c].house>>}
  /\ UNCHANGED <<accounts, houses, request, faults>>

\* Wrong: the two rows are inserted without a transaction.
FailsBetween(c) ==
  /\ command[c].pc \in Running /\ faults < MaxFaults
  /\ IF command[c].pc = "upsert" THEN users' = users \cup {Opts(c).email}
                                 ELSE users' = users
  /\ Become(c, "failed") /\ faults' = faults + 1
  /\ UNCHANGED <<accounts, houses, members, request, granted>>

\* A call fails, or the process is stopped.
Fails(c) ==
  /\ command[c].pc \in Running /\ faults < MaxFaults
  /\ Become(c, "failed") /\ faults' = faults + 1
  /\ UNCHANGED <<accounts, houses, users, members, request, granted>>

\* Firebase or PostgreSQL did what it was asked for, but its answer is lost.
ReplyLost(c) ==
  /\ faults < MaxFaults
  /\ \/ /\ command[c].pc = "create"
        /\ accounts' = accounts \cup {Opts(c).email}
        /\ UNCHANGED <<users, members>>
     \/ command[c].pc = "upsert" /\ Commit(c) /\ UNCHANGED accounts
  /\ Become(c, "failed") /\ faults' = faults + 1
  /\ UNCHANGED <<houses, request, granted>>

\* "re-run the same command to retry (idempotent)"
Rerun(c) ==
  /\ command[c].pc = "failed"
  /\ Become(c, "resolve")
  /\ UNCHANGED <<accounts, houses, users, members, request, granted, faults>>

Step(c) == ResolveHouse(c) \/ Confirm(c) \/ Lookup(c) \/ Create(c) \/ Upsert(c)

-----------------------------------------------------------------------------
(***************************************************************************)
(* The middleware.  Authenticate lets in users with an account only.       *)
(***************************************************************************)
Authenticate(r) ==
  LET e == request[r].email IN
  /\ request[r].pc = "idle" /\ e \in accounts
  /\ request' = [request EXCEPT ![r].pc = "user",
                   ![r].since = {h \in DOMAIN houses : <<e, h>> \in granted}]
  /\ UNCHANGED <<accounts, houses, users, members, command, granted, faults>>

\* FindByFirebaseID
FindUser(r) ==
  /\ request[r].pc = "user"
  /\ request' = [request EXCEPT ![r].pc =
                   IF request[r].email \in users THEN "house" ELSE "refused"]
  /\ UNCHANGED <<accounts, houses, users, members, command, granted, faults>>

\* Wrong: the membership of any user will do.
FindAnyHouse(r) ==
  LET found == {h \in DOMAIN houses : \E e \in users : <<e, h>> \in members} IN
  /\ request[r].pc = "house"
  /\ \/ \E h \in found :
          request' = [request EXCEPT ![r].pc = "served", ![r].house = h]
     \/ found = {} /\ request' = [request EXCEPT ![r].pc = "refused"]
  /\ UNCHANGED <<accounts, houses, users, members, command, granted, faults>>

\* FindActiveHouseForUser takes one of the user's houses, whichever comes first.
FindHouse(r) ==
  LET found == {h \in DOMAIN houses : <<request[r].email, h>> \in members} IN
  /\ request[r].pc = "house"
  /\ \/ \E h \in found :
          request' = [request EXCEPT ![r].pc = "served", ![r].house = h]
     \/ found = {} /\ request' = [request EXCEPT ![r].pc = "refused"]
  /\ UNCHANGED <<accounts, houses, users, members, command, granted, faults>>

\* A failed query reads "user not provisioned" or "no house membership".
QueryFails(r) ==
  /\ request[r].pc \in {"user", "house"} /\ faults < MaxFaults
  /\ request' = [request EXCEPT ![r].pc = "refused", ![r].error = TRUE]
  /\ faults' = faults + 1
  /\ UNCHANGED <<accounts, houses, users, members, command, granted>>

-----------------------------------------------------------------------------
Next ==
  \/ \E owner \in Emails, name \in Names : Seed(owner, name)
  \/ \E c \in Commands : Run(c) \/ Step(c) \/ Fails(c) \/ ReplyLost(c) \/ Rerun(c)
  \/ \E r \in Requests : Authenticate(r) \/ FindUser(r) \/ FindHouse(r) \/ QueryFails(r)

Spec == Init /\ [][Next]_vars

\* A command that was started runs on, and its operator runs it again until it
\* stops failing.
FairSpec == Spec /\ \A c \in Commands : WF_vars(Step(c)) /\ WF_vars(Rerun(c))

-----------------------------------------------------------------------------
(***************************************************************************)
(* Properties                                                              *)
(***************************************************************************)

\* The tables and the processes keep their types, and no row points nowhere.
TypeOK ==
  /\ accounts \subseteq Emails
  /\ houses \in Seq(Names)
  /\ users \subseteq accounts
  /\ members \subseteq users \X DOMAIN houses
  /\ granted \subseteq members
  /\ command \in [Commands -> CommandState]
  /\ request \in [Requests -> RequestState]
  /\ faults \in 0 .. MaxFaults

\* A user the API knows has a house: whatever fails, and however often commands
\* are run again or beside one another, nobody is provisioned by halves.
UserHasHouse == \A e \in users : \E h \in DOMAIN houses : <<e, h>> \in members

\* Houses some operator chose for a user: the one a command for that user
\* resolved to, or one the seed script reported.
Chosen(e) ==
  {h \in DOMAIN houses : \/ <<e, h>> \in granted
                         \/ \E c \in Commands : Opts(c).email = e /\ command[c].house = h}

\* A request that comes after a success was reported for its user is not
\* refused, unless a query fails, and a request is only ever served in a house
\* an operator chose for its user: in the one, when there is no other.
SuccessMeansAccess ==
  \A r \in Requests :
    /\ request[r].pc = "refused" => request[r].since = {} \/ request[r].error
    /\ request[r].pc = "served" => request[r].house \in Chosen(request[r].email)

\* A command whose user has an account and whose house is given by its id gets
\* there, unless its operator declines: the calls that fail, a lost answer and
\* another command for the same user only delay it.
CommandsConverge ==
  \A c \in Commands :
    /\ command[c].pc \in Running \cup {"failed"}
    /\ Opts(c).email \in accounts /\ Opts(c).house \in DOMAIN houses
    ~> command[c].pc \in {"done", "declined"}
=============================================================================
